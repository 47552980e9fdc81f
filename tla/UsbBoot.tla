------------------------------ MODULE UsbBoot ------------------------------
(***************************************************************************)
(* iUSBBOOT: BL1 as a USB device that is given the third-stage image over  *)
(* a bulk endpoint: a header of 512 bytes, then LOADSIZE bytes.  The loop  *)
(* polls GINTSTS and handles what it sees; meanwhile the host enumerates,  *)
(* sends, gives up at any point, resets the bus and starts over.           *)
(*                                                                         *)
(* A unit stands for 256 bytes of the download at high speed and for 64 at *)
(* full speed: the header is Header units, a bulk packet Packet of them.   *)
(* Unit number off of the download is marked with the attempt it is from;  *)
(* a file that is no boot image consists of Stray units.                   *)
(*                                                                         *)
(* The OTG core and the host are external: what the driver's accesses say  *)
(* about the core, and the requests an enumeration needs.  Not modelled:   *)
(* requests no enumeration needs, the bulk IN endpoint (nothing is sent on *)
(* it), packets that are not whole words, low speed.                       *)
(***************************************************************************)
EXTENDS Naturals, Sequences

CONSTANTS
  LoadSize,     \* units of payload
  Speeds,       \* the speeds a host may connect at
  Paces         \* whether the host waits for the device between requests

Header == 2

ASSUME UsbAssumption ==
  /\ LoadSize \in Nat \ {0}
  /\ Speeds \subseteq {"high", "full"}
  /\ Paces \subseteq {"patient", "hurried"}

VARIABLES
  pc,        \* the loop of iUSBBOOT and nx_udc_int_hndlr
  sampled,   \* int_status
  usb,       \* USBBOOTSTATUS
  tbi,       \* the header in pTBI
  mem,       \* what has been stored from LOADADDR on
  core,      \* the OTG core's registers and FIFOs
  host

vars == <<pc, sampled, usb, tbi, mem, core, host>>

Requests == {"device", "address", "config", "setConfig"}
After == [device |-> "address", address |-> "config", config |-> "setConfig", setConfig |-> "send"]
Descriptors == {"device", "config"}

Units == [new : BOOLEAN, off : Nat]     \* new: of the attempt under way
Stray == Header + LoadSize
NoUnit == [new |-> FALSE, off |-> Stray]
Old(units) == [i \in DOMAIN units |-> [units[i] EXCEPT !.new = FALSE]]

Packet(speed) == IF speed = "high" THEN 2 ELSE 1
\* Packets of a descriptor at ctrl_max_pktsize: one at 64 bytes, several at 8.
DescriptorPackets(speed) == IF speed = "high" THEN 1 ELSE 2

\* Entries of the receive FIFO.  "other" is every status the driver ignores.
Setup(request) == [kind |-> "setup", request |-> request, units |-> <<>>]
Out(units)     == [kind |-> "out", request |-> "device", units |-> units]
Other          == [kind |-> "other", request |-> "device", units |-> <<>>]
Aged(rx)       == [i \in DOMAIN rx |-> [rx[i] EXCEPT !.units = Old(@)]]

\* What is queued for endpoint 0 IN.
Nothing == [kind |-> "nothing", last |-> FALSE]
Zero    == [kind |-> "zero", last |-> TRUE]

Init ==
  /\ pc = "poll" /\ sampled = {}
  /\ usb = [loading |-> TRUE, header |-> FALSE, hsize |-> 0, size |-> 0, ep0 |-> "INIT",
            descriptor |-> "device", remain |-> 0, speed |-> "high"]
  /\ tbi = [i \in 1..Header |-> NoUnit]
  /\ mem = <<>>
  /\ core = [sts |-> {"USBRst"}, rx |-> <<>>, tx |-> Nothing, inToken |-> FALSE,
             addr |-> "zero", active |-> FALSE, armed |-> FALSE]
  /\ \E s \in Speeds, p \in Paces :
       host = [speed |-> s, pace |-> p, step |-> "reset", sent |-> FALSE, pos |-> 0,
               bad |-> FALSE, image |-> TRUE]

Pending == core.sts \cup (IF core.rx # <<>> THEN {"RXFLVL"} ELSE {})
                    \cup (IF core.inToken THEN {"IEPINT"} ELSE {})

-----------------------------------------------------------------------------
(* nx_udc_int_hndlr                                                        *)

Poll ==
  /\ pc = "poll" /\ usb.loading /\ Pending # {}
  /\ sampled' = Pending
  /\ pc' = "reset"
  /\ UNCHANGED <<usb, tbi, mem, core, host>>

\* Mutant: a bus reset also makes the bulk endpoint active.
MutUsbReset ==
  /\ pc = "reset" /\ pc' = "enum"
  /\ IF "USBRst" \in sampled
       THEN /\ usb' = [usb EXCEPT !.ep0 = "INIT"]
            /\ core' = [core EXCEPT !.addr = "zero", !.armed = TRUE, !.active = TRUE]
       ELSE UNCHANGED <<usb, core>>
  /\ UNCHANGED <<sampled, tbi, mem, host>>

\* nx_usb_reset arms every OUT endpoint, but does not make it active.
UsbReset ==
  /\ pc = "reset" /\ pc' = "enum"
  /\ IF "USBRst" \in sampled
       THEN /\ usb' = [usb EXCEPT !.ep0 = "INIT"]
            /\ core' = [core EXCEPT !.addr = "zero", !.armed = TRUE]
       ELSE UNCHANGED <<usb, core>>
  /\ UNCHANGED <<sampled, tbi, mem, host>>

\* Mutant: a new enumeration keeps the phase of the download.
MutSetInit ==
  /\ pc = "enum" /\ pc' = "receive"
  /\ IF "EnumDone" \in sampled
       THEN /\ usb' = [usb EXCEPT !.hsize = 0, !.speed = host.speed]
            /\ core' = [core EXCEPT !.inToken = FALSE, !.active = TRUE, !.armed = TRUE]
       ELSE UNCHANGED <<usb, core>>
  /\ UNCHANGED <<sampled, tbi, mem, host>>

\* nx_usb_set_init: the download starts over, the bulk endpoint is active.
SetInit ==
  /\ pc = "enum" /\ pc' = "receive"
  /\ IF "EnumDone" \in sampled
       THEN /\ usb' = [usb EXCEPT !.header = FALSE, !.hsize = 0, !.speed = host.speed]
            /\ core' = [core EXCEPT !.inToken = FALSE, !.active = TRUE, !.armed = TRUE]
       ELSE UNCHANGED <<usb, core>>
  /\ UNCHANGED <<sampled, tbi, mem, host>>

(***************************************************************************)
(* nx_usb_ep0_int_hndlr.  In any state but INIT it leaves the two words of *)
(* the request in the FIFO, to be popped as statuses that mean nothing.    *)
(***************************************************************************)
Ep0(request) ==
  /\ IF usb.ep0 # "INIT"
       THEN core' = [core EXCEPT !.rx = <<Other, Other>> \o Tail(@)] /\ UNCHANGED usb
       ELSE /\ core' = [core EXCEPT !.rx = Tail(@), !.addr = IF request = "address" THEN "new" ELSE @]
            /\ usb' = IF request \in Descriptors
                        THEN [usb EXCEPT !.ep0 = "GET_DSCPT", !.descriptor = request,
                                         !.remain = DescriptorPackets(usb.speed)]
                        ELSE usb
  /\ UNCHANGED <<tbi, mem>>

\* "NSIH" is in the last word of the header.
Signed(h) == h[Header].off = Header - 1

\* Mutant: the payload of a new header goes on where the last one stopped.
MutBulkOutHeader(units) ==
  LET n == usb.hsize + Len(units)
      h == [i \in 1..Header |-> IF i \in (usb.hsize + 1)..n THEN units[i - usb.hsize] ELSE tbi[i]]
  IN
  /\ tbi' = h
  /\ IF n >= Header /\ Signed(h)
       THEN usb' = [usb EXCEPT !.hsize = n, !.header = TRUE, !.size = LoadSize]
       ELSE usb' = [usb EXCEPT !.hsize = IF n >= Header THEN 0 ELSE n]
  /\ UNCHANGED mem

\* Without the signature the header starts again; the STALL that is set then
\* is gone with the write that arms the endpoint.
BulkOutHeader(units) ==
  LET n == usb.hsize + Len(units)
      h == [i \in 1..Header |-> IF i \in (usb.hsize + 1)..n THEN units[i - usb.hsize] ELSE tbi[i]]
  IN
  /\ tbi' = h
  /\ IF n >= Header /\ Signed(h)
       THEN mem' = <<>> /\ usb' = [usb EXCEPT !.hsize = n, !.header = TRUE, !.size = LoadSize]
       ELSE UNCHANGED mem /\ usb' = [usb EXCEPT !.hsize = IF n >= Header THEN 0 ELSE n]

BulkOutPayload(units) ==
  /\ mem' = mem \o units
  /\ usb' = IF usb.size > Len(units)
              THEN [usb EXCEPT !.size = @ - Len(units)]
              ELSE [usb EXCEPT !.size = 0, !.loading = FALSE, !.header = FALSE]
  /\ UNCHANGED tbi

\* nx_usb_int_bulkout: the packet is taken, then the endpoint armed for one more.
BulkOut(units) ==
  /\ IF usb.header THEN BulkOutPayload(units) ELSE BulkOutHeader(units)
  /\ core' = [core EXCEPT !.rx = Tail(@), !.active = TRUE, !.armed = TRUE]

\* nx_usb_pkt_receive: one entry of the receive FIFO per pass.
PktReceive ==
  /\ pc = "receive" /\ pc' = "transfer"
  /\ IF "RXFLVL" \notin sampled THEN UNCHANGED <<usb, tbi, mem, core>>
     ELSE LET entry == Head(core.rx) IN
       CASE entry.kind = "setup" -> Ep0(entry.request)
         [] entry.kind = "out" -> BulkOut(entry.units)
         [] OTHER -> core' = [core EXCEPT !.rx = Tail(@)] /\ UNCHANGED <<usb, tbi, mem>>
  /\ UNCHANGED <<sampled, host>>

\* Mutant: after its last packet a descriptor is still being sent.
MutTransferEp0 ==
  IF usb.ep0 = "INIT" THEN UNCHANGED usb /\ core' = [core EXCEPT !.tx = Zero, !.inToken = FALSE]
  ELSE /\ usb' = [usb EXCEPT !.remain = IF @ = 1 THEN 1 ELSE @ - 1]
       /\ core' = [core EXCEPT !.tx = [kind |-> usb.descriptor, last |-> usb.remain = 1], !.inToken = FALSE]

\* nx_usb_transfer_ep0: a packet of the descriptor, or the empty one of a status stage.
TransferEp0 ==
  IF usb.ep0 = "INIT" THEN UNCHANGED usb /\ core' = [core EXCEPT !.tx = Zero, !.inToken = FALSE]
  ELSE /\ usb' = [usb EXCEPT !.remain = @ - 1, !.ep0 = IF usb.remain = 1 THEN "INIT" ELSE @]
       /\ core' = [core EXCEPT !.tx = [kind |-> usb.descriptor, last |-> usb.remain = 1], !.inToken = FALSE]

\* nx_usb_transfer: the host has asked endpoint 0 for data that was not there.
\* It also runs, and finds the token, when only INT_OUT_EP was pending.  The wait
\* for room in the transmit FIFO (:707-709) has no way out but nothing to wait for:
\* INTKN_TXFEMP says that the FIFO is empty, all of its 512 words against the 64
\* asked for; nobody else fills it.  That the core keeps to this is assumed.
Transfer ==
  /\ pc = "transfer" /\ pc' = "clear"
  /\ \/ core.inToken /\ TransferEp0
     \/ ~("IEPINT" \in sampled /\ core.inToken) /\ UNCHANGED <<usb, core>>
  /\ UNCHANGED <<sampled, tbi, mem, host>>

\* All of GINTSTS is cleared, what was raised since it was read included.
Clear ==
  /\ pc = "clear" /\ pc' = "poll"
  /\ core' = [core EXCEPT !.sts = {}]
  /\ UNCHANGED <<sampled, usb, tbi, mem, host>>

\* The loop ends with the download; the core is reset and switched off.
Return ==
  /\ pc = "poll" /\ ~usb.loading
  /\ pc' = "returned"
  /\ UNCHANGED <<sampled, usb, tbi, mem, core, host>>

Driver == Poll \/ UsbReset \/ SetInit \/ PktReceive \/ Transfer \/ Clear \/ Return

-----------------------------------------------------------------------------
(* The host and the bus.                                                   *)

Idle == pc = "poll" /\ Pending = {}
Patience == host.pace = "patient" => Idle

\* The address the host uses is the one the device answers to.
Reached ==
  CASE host.step = "device"     -> core.addr = "zero"
    [] host.step = "address"    -> host.sent \/ core.addr = "zero"
    [] OTHER                    -> core.addr = "new"

(***************************************************************************)
(* A bus reset makes every endpoint but 0 inactive and leaves the receive  *)
(* FIFO alone; the driver flushes neither FIFO.                            *)
(***************************************************************************)
ResetBus ==
  /\ pc # "returned"
  /\ \E tx \in {core.tx, Nothing} :
       core' = [core EXCEPT !.sts = @ \cup {"USBRst"}, !.active = FALSE, !.tx = tx,
                  !.rx = Aged(@)]
  /\ host' = [host EXCEPT !.step = "reset", !.sent = FALSE, !.pos = 0, !.bad = FALSE]
  /\ tbi' = Old(tbi) /\ mem' = Old(mem)
  /\ UNCHANGED <<pc, sampled, usb>>

\* No answer that the host's driver would go on with: it starts over.
Stuck ==
  \/ host.bad
  \/ host.step \in Requests \cup {"send"} /\ ~Reached
  \/ host.step = "send" /\ ~core.active
  \/ host.step = "sent" /\ ~host.image      \* the user sees nothing happen

Retry == Stuck /\ Patience /\ ResetBus

\* The host's program gives up for reasons of its own.
Abort == ~Stuck /\ host.step # "reset" /\ ResetBus

\* A reset lasts 10 ms and more, longer than the driver takes for what is
\* pending: EnumDone, which ends it, finds the driver polling.
EnumDone ==
  /\ host.step = "reset" /\ Idle
  /\ core' = [core EXCEPT !.sts = @ \cup {"EnumDone"}]
  /\ \E image \in BOOLEAN : host' = [host EXCEPT !.step = "device", !.image = image]
  /\ UNCHANGED <<pc, sampled, usb, tbi, mem>>

HostSetup ==
  /\ host.step \in Requests /\ ~host.sent /\ Reached /\ ~host.bad
  /\ Patience
  /\ core' = [core EXCEPT !.rx = @ \o <<Setup(host.step), Other>>]
  /\ host' = [host EXCEPT !.sent = TRUE]
  /\ UNCHANGED <<pc, sampled, usb, tbi, mem>>

\* What endpoint 0 has to say to the request under way.
Answer(tx) == IF host.step \in Descriptors THEN tx.kind = host.step ELSE tx = Zero

HostIn ==
  /\ host.step \in Requests /\ host.sent /\ Reached /\ ~host.bad
  /\ IF core.tx = Nothing
       THEN ~core.inToken /\ core' = [core EXCEPT !.inToken = TRUE] /\ UNCHANGED host
       ELSE IF ~Answer(core.tx)
         THEN core' = [core EXCEPT !.tx = Nothing] /\ host' = [host EXCEPT !.bad = TRUE]
       ELSE IF ~core.tx.last
         THEN core' = [core EXCEPT !.tx = Nothing] /\ UNCHANGED host
       ELSE /\ core' = [core EXCEPT !.tx = Nothing,
                         !.rx = IF host.step \in Descriptors THEN @ \o <<Other, Other>> ELSE @]
            /\ host' = [host EXCEPT !.step = After[@], !.sent = FALSE]
  /\ UNCHANGED <<pc, sampled, usb, tbi, mem>>

\* The next packet of header and payload, when the endpoint takes one.
HostSend ==
  /\ host.step = "send" /\ Reached
  /\ core.active /\ core.armed
  /\ LET all == Header + LoadSize
         n   == IF host.pos + Packet(host.speed) > all THEN all - host.pos ELSE Packet(host.speed)
         unit(i) == [new |-> TRUE, off |-> IF host.image THEN host.pos + i - 1 ELSE Stray]
     IN
     /\ core' = [core EXCEPT !.armed = FALSE,
                   !.rx = @ \o <<Out([i \in 1..n |-> unit(i)]), Other>>]
     /\ host' = [host EXCEPT !.pos = @ + n, !.step = IF host.pos + n = all THEN "sent" ELSE @]
  /\ UNCHANGED <<pc, sampled, usb, tbi, mem>>

Host == Retry \/ EnumDone \/ HostSetup \/ HostIn \/ HostSend

Next == Driver \/ Host \/ Abort

Spec == Init /\ [][Next]_vars

\* CPU0 polls on; a host goes on with what it started and retries.
FairSpec == Spec /\ WF_vars(Driver) /\ WF_vars(Host)

-----------------------------------------------------------------------------
(* Properties                                                              *)

\* The status, the header buffer and the FIFOs keep their types: the header
\* never runs past its 512 bytes (pdwBuffer[iRxHeaderSize / 4]), the receive
\* FIFO holds a few packets at most.
TypeOK ==
  /\ pc \in {"poll", "reset", "enum", "receive", "transfer", "clear", "returned"}
  /\ sampled \subseteq {"USBRst", "EnumDone", "RXFLVL", "IEPINT"}
  /\ usb \in [loading : BOOLEAN, header : BOOLEAN, hsize : 0..Header, size : 0..LoadSize,
              ep0 : {"INIT", "GET_DSCPT"}, descriptor : Descriptors, remain : 0..2,
              speed : {"high", "full"}]
  /\ tbi \in [1..Header -> Units]
  /\ mem \in Seq(Units) /\ Len(mem) <= LoadSize
  /\ core.sts \subseteq {"USBRst", "EnumDone"} /\ Len(core.rx) <= 8
  /\ core.addr \in {"zero", "new"} /\ {core.inToken, core.active, core.armed} \subseteq BOOLEAN

\* A finished download is the header and the whole payload of one attempt, in
\* order, whatever attempts were cut short before it and whichever interrupt
\* the clearing of GINTSTS has lost (nx_usb_set_init, nx_usb_int_bulkout).
DownloadIsWhole ==
  ~usb.loading =>
    \E t \in BOOLEAN :
      /\ tbi = [i \in 1..Header |-> [new |-> t, off |-> i - 1]]
      /\ mem = [i \in 1..LoadSize |-> [new |-> t, off |-> Header + i - 1]]

\* The bulk endpoint accepts a packet only when the one before has left the
\* receive FIFO: none can overtake the driver or overrun it (DOEPCTL is
\* written after the packet is read).
OnePacketAtATime ==
  core.active /\ core.armed => \A i \in DOMAIN core.rx : core.rx[i].kind # "out"

\* A patient host with a boot image that is not interrupted for ever gets it
\* across, whatever was lost in the attempts before (its retries included); the
\* transmit FIFO has room whenever it is empty (Transfer), and the end of a bus
\* reset is never among what the clearing of GINTSTS loses (EnumDone).
DownloadEnds ==
  host.pace = "patient" /\ <>[]host.image /\ <>[][~Abort]_vars => <>(pc = "returned")
=============================================================================
