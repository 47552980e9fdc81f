------------------------------- MODULE SdBoot -------------------------------
(***************************************************************************)
(* iSDXCBOOT: find the card, read the third-stage image off it, shut the   *)
(* controller down.  Commands are the exchanges of SdCard; while a read is *)
(* under way the controller fills the FIFO and raises its status bits      *)
(* concurrently with the loop that empties it.                             *)
(*                                                                         *)
(* A unit stands for 256 bytes: a sector is two, a boot header (0x400)     *)
(* four, and the FIFO asks to be emptied (RXDR) at every unit.  Unit u of  *)
(* the device holds the number u.                                          *)
(***************************************************************************)
EXTENDS SdCard, Sequences

CONSTANTS
  InitCards,        \* the cards there may be, as the boot ROM leaves them
  Images,           \* NSIH headers: [loadaddr, loadsize, signed], in units
  Device,           \* sector of the header (DEVICEADDR / BLOCK_LENGTH)
  SramBase, SramEnd,
  FifoSize,         \* units the FIFO holds; the card's clock stops when full
  IdentifyTimeout,  \* NX_SDMMC_TIMEOUT_IDENTIFY
  FifoTimeout       \* NX_SDMMC_TIMEOUT

Block  == 2
Header == 4

ASSUME SdAssumption ==
  /\ InitCards \subseteq Cards
  /\ Images \subseteq [loadaddr : Nat, loadsize : Nat \ {0}, signed : BOOLEAN]
  /\ {Device, SramBase, SramEnd, IdentifyTimeout} \subseteq Nat
  /\ {FifoSize, FifoTimeout} \subseteq Nat \ {0}

VARIABLES
  card,      \* the card in the slot
  image,     \* the header written on it
  pc,
  driver,    \* SDXCBOOTSTATUS: [type, rca, hc]
  hcs,       \* the host capacity bit IdentifyCard offers
  opCond,    \* cmd.response[0] of the last answered OP_COND
  timeout,   \* IdentifyCard's and ReadSectorData's countdowns
  ctype,     \* CTYPE: the bus width of the controller
  xfer,      \* the controller's data side: [next, left, crc, stop]
  fifo,
  rintsts,   \* raw status bits; ERR is any of DRTO, EBE, SBE and DCRC; HLE: the
             \* controller was locked when the driver wrote a command
  corrupt,   \* sectors of the read under way that were damaged on the bus
  reading,   \* the read under way: [sector, n]
  count,     \* units ReadSectorData still expects
  fsize,     \* what it read of FIFOCOUNT
  buffer,    \* units it has stored
  tbi,       \* the header sector in pTBI
  header,    \* what it says
  result

config   == <<image, header, tbi, result>>
identify == <<driver, hcs, opCond, timeout, ctype>>
control  == <<xfer, fifo, rintsts, corrupt>>
loop     == <<reading, count, fsize, buffer>>
vars     == <<card, pc, config, identify, control, loop>>

Bits == {"RXDR", "DTO", "ERR", "ACD", "HLE"}
Idle == [next |-> 0, left |-> 0, crc |-> FALSE, stop |-> FALSE]
FsmBusy == xfer.left > 0 \/ xfer.crc \/ xfer.stop

IdentifyPcs == {"identClock", "goIdle", "ifCond", "appCmd", "sdOpCond", "sdPowerUp",
                "mmcIdle", "mmcOpCond", "allSendCid", "relativeAddr"}
OpenPcs == {"fastClock", "select", "pullUp", "blockLength", "busWidth"}
ReadPcs == {"waitBusy", "sendStatus", "readCmd", "poll", "waitFifo", "sample", "drain",
            "clear", "check", "autoStop", "stop"}
Pcs == IdentifyPcs \cup OpenPcs \cup ReadPcs \cup {"fifoReset", "readDone", "close", "done"}

Init ==
  /\ card \in InitCards
  /\ image \in Images
  /\ pc = "identClock"
  /\ driver = [type |-> "UNKNOWN", rca |-> "zero", hc |-> FALSE]
  /\ hcs = FALSE /\ opCond = NoCard /\ timeout = 0 /\ ctype = 1
  /\ xfer = Idle /\ fifo = <<>> /\ rintsts = {} /\ corrupt = {}
  /\ reading = [sector |-> 0, n |-> 0] /\ count = 0 /\ fsize = 0 /\ buffer = <<>>
  /\ tbi = <<>> /\ header = image /\ result = FALSE

\* NX_SDMMC_Open or SDMMCBOOT returns CFALSE: only the shutdown is left.
Fail == pc' = "close"

\* A command clears all of RINTSTS before it is sent.
Exchanged(x) == "HLE" \notin rintsts /\ card' = x.card /\ rintsts' = {}
KeepRead == UNCHANGED <<xfer, fifo, corrupt, loop, config>>

-----------------------------------------------------------------------------
(* The controller locked: a command, or a new clock, is written again for  *)
(* as long as it raises HLE; nothing counts the attempts.  Of the commands *)
(* that a step below sends, this stands for the first.                     *)

SendsNow ==
  \/ pc \in (IdentifyPcs \cup OpenPcs) \ {"sdPowerUp", "pullUp"}
  \/ pc \in {"sendStatus", "readCmd", "stop", "close"}
  \/ pc = "sdPowerUp" /\ ~opCond.powered
  \/ pc = "pullUp" /\ driver.type = "SDMEM"

LockedOut ==
  /\ SendsNow /\ "HLE" \notin rintsts
  /\ rintsts' = rintsts \cup {"HLE"}
  /\ UNCHANGED <<card, pc, config, identify, xfer, fifo, corrupt, loop>>

WriteAgain ==
  /\ "HLE" \in rintsts
  /\ rintsts' = rintsts \ {"HLE"}
  /\ UNCHANGED <<card, pc, config, identify, xfer, fifo, corrupt, loop>>

-----------------------------------------------------------------------------
(* NX_SDMMC_IdentifyCard                                                   *)

\* NX_SDMMC_SetClock fails when the controller does not take the new clock.
SetClock(from, to) ==
  /\ pc = from /\ "HLE" \notin rintsts
  /\ pc' = to \/ Fail
  /\ UNCHANGED <<card, config, control, loop>>

IdentifyClock ==
  /\ SetClock("identClock", "goIdle")
  /\ ctype' = 1
  /\ driver' = [driver EXCEPT !.rca = "zero"]
  /\ UNCHANGED <<hcs, opCond, timeout>>

GoIdle(from, to) ==
  /\ pc = from /\ pc' = to
  /\ \E x \in SendCommand(card, "GO_IDLE_STATE", "zero", driver.rca) : Exchanged(x)
  /\ UNCHANGED identify /\ KeepRead

SendIfCond ==
  /\ pc = "ifCond"
  /\ \E x \in SendCommandInternal(card, "SEND_IF_COND", "zero") :
       /\ Exchanged(x)
       /\ hcs' = x.ok
       /\ IF x.ok /\ ~x.resp.echo THEN Fail ELSE pc' = "appCmd"
  /\ timeout' = IdentifyTimeout
  /\ UNCHANGED <<driver, opCond, ctype>> /\ KeepRead

\* A card that answers APP_CMD is an SD card.
AppCmd ==
  /\ pc = "appCmd"
  /\ \E x \in SendCommandInternal(card, "APP_CMD", driver.rca) :
       Exchanged(x) /\ pc' = IF x.ok THEN "sdOpCond" ELSE "mmcIdle"
  /\ UNCHANGED identify /\ KeepRead

SdOpCond ==
  /\ pc = "sdOpCond"
  /\ \E x \in SendCommandInternal(card, "SD_SEND_OP_COND", hcs) :
       /\ Exchanged(x)
       /\ opCond' = x.resp
       /\ IF x.ok THEN pc' = "sdPowerUp" ELSE Fail
  /\ UNCHANGED <<driver, hcs, timeout, ctype>> /\ KeepRead

\* The response is left as it was when the application command failed.
SdRetry ==
  /\ pc = "sdPowerUp" /\ ~opCond.powered
  /\ \E x \in SendAppCommand(card, "SD_SEND_OP_COND", hcs, driver.rca) :
       /\ Exchanged(x)
       /\ opCond' = IF x.ok /\ x.resp # NoCard THEN x.resp ELSE opCond
       /\ IF x.ok /\ timeout > 0
            THEN timeout' = timeout - 1 /\ UNCHANGED pc
            ELSE UNCHANGED timeout /\ Fail
  /\ UNCHANGED <<driver, hcs, ctype>> /\ KeepRead

\* Mutant: the capacity is the one the host offered, not the one answered.
MutPowered(type) ==
  /\ driver' = [driver EXCEPT !.type = type, !.hc = hcs]
  /\ pc' = "allSendCid"

Powered(type) ==
  /\ driver' = [driver EXCEPT !.type = type, !.hc = opCond'.hc]
  /\ pc' = "allSendCid"

SdPoweredUp ==
  /\ pc = "sdPowerUp" /\ opCond.powered
  /\ UNCHANGED opCond /\ Powered("SDMEM")
  /\ UNCHANGED <<card, hcs, timeout, ctype, rintsts>> /\ KeepRead

\* The timeout is looked at before the answer.
MmcOpCond ==
  /\ pc = "mmcOpCond"
  /\ \E x \in SendCommand(card, "SEND_OP_COND", TRUE, driver.rca) :
       /\ Exchanged(x)
       /\ opCond' = x.resp
       /\ IF x.ok /\ timeout > 0
            THEN /\ timeout' = timeout - 1
                 /\ IF x.resp.powered THEN Powered("MMC") ELSE UNCHANGED <<driver, pc>>
            ELSE UNCHANGED <<timeout, driver>> /\ Fail
  /\ UNCHANGED <<hcs, ctype>> /\ KeepRead

\* A step of NX_SDMMC_Open that gives up when its command fails.
Command(from, cmd, arg, to) ==
  /\ pc = from
  /\ \E x \in SendCommand(card, cmd, arg, driver.rca) :
       Exchanged(x) /\ IF x.ok THEN pc' = to ELSE Fail

AllSendCid == Command("allSendCid", "ALL_SEND_CID", "zero", "relativeAddr")
                /\ UNCHANGED identify /\ KeepRead

RelativeAddr ==
  /\ Command("relativeAddr", "RELATIVE_ADDR", "host", "fastClock")
  /\ driver' = IF pc' = "fastClock"
                 THEN [driver EXCEPT !.rca = IF driver.type = "SDMEM" THEN card'.rca ELSE "host"]
                 ELSE driver
  /\ UNCHANGED <<hcs, opCond, timeout, ctype>> /\ KeepRead

IdentifyCard ==
  \/ IdentifyClock \/ GoIdle("goIdle", "ifCond") \/ SendIfCond \/ AppCmd \/ SdOpCond
  \/ SdRetry \/ SdPoweredUp \/ GoIdle("mmcIdle", "mmcOpCond") \/ MmcOpCond
  \/ AllSendCid \/ RelativeAddr

-----------------------------------------------------------------------------
(* NX_SDMMC_Open                                                           *)

FastClock  == SetClock("fastClock", "select") /\ UNCHANGED identify
SelectCard == Command("select", "SELECT_CARD", driver.rca, "pullUp")
                /\ UNCHANGED identify /\ KeepRead

\* For SD cards only; nobody reads the result.
SetCardDetectPullUp ==
  /\ pc = "pullUp" /\ pc' = "blockLength"
  /\ IF driver.type = "SDMEM"
       THEN \E x \in SendAppCommand(card, "SET_CLR_CARD_DETECT", FALSE, driver.rca) : Exchanged(x)
       ELSE UNCHANGED <<card, rintsts>>
  /\ UNCHANGED identify /\ KeepRead

SetBlockLength == Command("blockLength", "SET_BLOCKLEN", Block, "busWidth")
                    /\ UNCHANGED identify /\ KeepRead

\* Nor this one: after a failed SWITCH_FUNC or APP_CMD the controller stays at
\* one bit, after a failed SET_BUS_WIDTH it goes to four whatever the card did.
SetBusWidth ==
  /\ pc = "busWidth" /\ pc' = "fifoReset"
  /\ \E x \in IF driver.type = "SDMEM"
                THEN SendAppCommand(card, "SET_BUS_WIDTH", 2, driver.rca)
                ELSE SendCommand(card, "SWITCH_FUNC", 1, driver.rca) :
       Exchanged(x) /\ ctype' = IF x.ok THEN 4 ELSE ctype
  /\ UNCHANGED <<driver, hcs, opCond, timeout>> /\ KeepRead

OpenCard == FastClock \/ SelectCard \/ SetCardDetectPullUp \/ SetBlockLength \/ SetBusWidth

-----------------------------------------------------------------------------
(* NX_SDMMC_ReadSectors                                                    *)

StartRead(sector, n) ==
  /\ pc' = "waitBusy"
  /\ reading' = [sector |-> sector, n |-> n]
  /\ buffer' = <<>> /\ corrupt' = {}
  /\ UNCHANGED <<count, fsize>>

\* SDMMCBOOT empties the FIFO and reads the header.
FifoReset ==
  /\ pc = "fifoReset"
  /\ fifo' = <<>>
  /\ StartRead(Device, 1)
  /\ UNCHANGED <<card, config, identify, xfer, rintsts>>

WaitBusy ==
  /\ pc = "waitBusy" /\ ~FsmBusy
  /\ pc' = "sendStatus"
  /\ UNCHANGED <<card, config, identify, control, loop>>

\* Until the card says it is in transfer state.
SendStatus ==
  /\ pc = "sendStatus"
  /\ \E x \in SendCommand(card, "SEND_STATUS", driver.rca, driver.rca) :
       /\ Exchanged(x)
       /\ pc' = IF ~x.ok THEN "stop" ELSE IF x.resp.state = "tran" THEN "readCmd" ELSE pc
  /\ UNCHANGED identify /\ KeepRead

\* The argument is a sector or, for a byte-addressed card, an offset; the card
\* takes it for what its own capacity says.
Argument == IF driver.hc THEN reading.sector ELSE reading.sector * Block
Addressed(arg) == IF card.hc THEN arg * Block ELSE arg

\* It refuses an offset that no sector begins at; the driver does not look.
Started(c) ==
  IF ~card.hc /\ Argument % Block # 0 THEN [c EXCEPT !.state = "tran"] ELSE c

\* Mutant: the byte count leaves out what the card sends first.
MutShortCount ==
  /\ pc = "readCmd"
  /\ \E x \in SendCommand(card, "READ", Argument, driver.rca) :
       /\ Exchanged([card |-> IF x.ok THEN Started(x.card) ELSE x.card])
       /\ IF x.ok
            THEN /\ pc' = "poll"
                 /\ count' = reading.n * Block - 1
                 /\ xfer' = [next |-> Addressed(Argument), left |-> reading.n * Block,
                             crc |-> FALSE, stop |-> reading.n > 1]
            ELSE pc' = "stop" /\ UNCHANGED <<count, xfer>>
  /\ UNCHANGED <<identify, config, fifo, corrupt, reading, fsize, buffer>>

ReadCommand ==
  /\ pc = "readCmd"
  /\ \E x \in SendCommand(card, "READ", Argument, driver.rca) :
       /\ Exchanged([card |-> IF x.ok THEN Started(x.card) ELSE x.card])
       /\ IF x.ok
            THEN /\ pc' = "poll"
                 /\ count' = reading.n * Block
                 /\ xfer' = [next |-> Addressed(Argument), left |-> reading.n * Block,
                             crc |-> FALSE, stop |-> reading.n > 1]
            ELSE pc' = "stop" /\ UNCHANGED <<count, xfer>>
  /\ UNCHANGED <<identify, config, fifo, corrupt, reading, fsize, buffer>>

Poll ==
  /\ pc = "poll"
  /\ IF {"RXDR", "DTO"} \cap rintsts # {}
       THEN pc' = "waitFifo" /\ timeout' = FifoTimeout
       ELSE pc' = "check" /\ UNCHANGED timeout
  /\ UNCHANGED <<card, config, driver, hcs, opCond, ctype, control, loop>>

EndOfRead ==
  /\ rintsts' = rintsts \ {"DTO"}
  /\ pc' = IF reading.n > 1 THEN "autoStop" ELSE "readDone"

\* Mutant: the wait for the FIFO has no limit.
MutNoFifoTimeout ==
  /\ pc = "waitFifo" /\ fifo # <<>>
  /\ pc' = "sample"
  /\ UNCHANGED <<card, config, identify, control, loop>>

(***************************************************************************)
(* while (FIFOEMPTY && Timeout--); if (0 == Timeout) break;                *)
(* A wait that runs out leaves Timeout wrapped, not zero, and goes on to   *)
(* read the count; one that ends with its last poll breaks off the loop.   *)
(***************************************************************************)
WaitFifo ==
  /\ pc = "waitFifo"
  /\ IF fifo = <<>> /\ timeout > 0 THEN timeout' = timeout - 1 /\ UNCHANGED <<pc, rintsts>>
     ELSE /\ UNCHANGED timeout
          /\ IF fifo # <<>> /\ timeout = 0 THEN EndOfRead
             ELSE pc' = "sample" /\ UNCHANGED rintsts
  /\ UNCHANGED <<card, config, driver, hcs, opCond, ctype, xfer, fifo, corrupt, loop>>

Sample ==
  /\ pc = "sample" /\ pc' = "drain"
  /\ fsize' = Len(fifo)
  /\ count' = count - Len(fifo)
  /\ UNCHANGED <<card, config, identify, control, reading, buffer>>

\* The words that were counted; what arrives meanwhile comes after them.
Drain ==
  /\ pc = "drain" /\ pc' = "clear"
  /\ buffer' = buffer \o SubSeq(fifo, 1, fsize)
  /\ fifo' = SubSeq(fifo, fsize + 1, Len(fifo))
  /\ UNCHANGED <<card, config, identify, xfer, rintsts, corrupt, reading, count, fsize>>

\* The request is cleared after the words are read, also one raised since.
ClearRequest ==
  /\ pc = "clear" /\ pc' = "check"
  /\ rintsts' = rintsts \ {"RXDR"}
  /\ UNCHANGED <<card, config, identify, xfer, fifo, corrupt, loop>>

\* Mutant: the loop looks whether it is done before it looks for errors.
MutCountFirst ==
  /\ pc = "check"
  /\ IF count = 0 THEN EndOfRead
     ELSE pc' = (IF "ERR" \in rintsts THEN "stop" ELSE "poll") /\ UNCHANGED rintsts
  /\ UNCHANGED <<card, config, identify, xfer, fifo, corrupt, loop>>

\* Mutant: the loop ends with DTO, whatever is still in the FIFO.
MutDtoEnds ==
  /\ pc = "check"
  /\ IF "ERR" \in rintsts THEN pc' = "stop" /\ UNCHANGED rintsts
     ELSE IF "DTO" \in rintsts THEN EndOfRead
     ELSE pc' = "poll" /\ UNCHANGED rintsts
  /\ UNCHANGED <<card, config, identify, xfer, fifo, corrupt, loop>>

Check ==
  /\ pc = "check"
  /\ IF "ERR" \in rintsts THEN pc' = "stop" /\ UNCHANGED rintsts
     ELSE IF count = 0 THEN EndOfRead
     ELSE pc' = "poll" /\ UNCHANGED rintsts
  /\ UNCHANGED <<card, config, identify, xfer, fifo, corrupt, loop>>

AutoStop ==
  /\ pc = "autoStop" /\ "ACD" \in rintsts
  /\ pc' = "readDone"
  /\ UNCHANGED <<card, config, identify, control, loop>>

\* A failed read stops the card and empties the FIFO; SDMMCBOOT gives up.
StopTransmission ==
  /\ pc = "stop" /\ Fail
  /\ \E x \in SendCommandInternal(card, "STOP_TRANSMISSION", "zero") : Exchanged(x)
  /\ xfer' = Idle
  /\ fifo' = <<>>
  /\ UNCHANGED <<config, identify, corrupt, loop>>

ReadSectors ==
  \/ WaitBusy \/ SendStatus \/ ReadCommand \/ Poll \/ WaitFifo \/ Sample \/ Drain
  \/ ClearRequest \/ Check \/ AutoStop \/ StopTransmission

-----------------------------------------------------------------------------
(* The controller and the card during a read.                              *)

\* The card's data gets through only at the width both have set.  A unit that
\* arrives raises RXDR; one that lies in the FIFO does not raise it again.
Receive ==
  /\ xfer.left > 0 /\ ~xfer.crc
  /\ Len(fifo) < FifoSize
  /\ ctype = card.width /\ card.state = "data"
  /\ fifo' = Append(fifo, xfer.next)
  /\ rintsts' = rintsts \cup {"RXDR"}
  /\ LET ends == (xfer.next + 1) % Block = 0 IN
     /\ xfer' = [xfer EXCEPT !.next = @ + 1, !.left = @ - 1, !.crc = ends]
     /\ \/ UNCHANGED corrupt
        \/ FaultyBus /\ ends /\ corrupt' = corrupt \cup {xfer.next \div Block}
  /\ UNCHANGED <<card, pc, config, identify, loop>>

\* The CRC follows the data of a block, the verdict with it; DTO the last one.
BlockEnd ==
  /\ xfer.crc
  /\ xfer' = [xfer EXCEPT !.crc = FALSE]
  /\ rintsts' = rintsts \cup (IF (xfer.next - 1) \div Block \in corrupt THEN {"ERR"} ELSE {})
                        \cup (IF xfer.left = 0 THEN {"DTO"} ELSE {})
  /\ card' = IF xfer.left = 0 /\ ~xfer.stop THEN [card EXCEPT !.state = "tran"] ELSE card
  /\ UNCHANGED <<pc, config, identify, fifo, corrupt, loop>>

AutoStopSent ==
  /\ xfer.stop /\ xfer.left = 0 /\ ~xfer.crc
  /\ xfer' = [xfer EXCEPT !.stop = FALSE]
  /\ rintsts' = rintsts \cup {"ACD"}
  /\ \/ card' = [card EXCEPT !.state = "tran"]
     \/ FaultyBus /\ UNCHANGED card          \* the stop was lost
  /\ UNCHANGED <<pc, config, identify, fifo, corrupt, loop>>

\* No data, or none that can be read: DRTO, SBE or EBE, and the end of it.
DataError ==
  /\ xfer.left > 0 /\ ~xfer.crc
  /\ Len(fifo) < FifoSize
  /\ FaultyBus \/ ctype # card.width \/ card.state # "data"
  /\ xfer' = [xfer EXCEPT !.left = 0]
  /\ rintsts' = rintsts \cup {"ERR", "DTO"}
  /\ UNCHANGED <<card, pc, config, identify, fifo, corrupt, loop>>

\* What the card sends unasked (SD_STATUS) ends by itself.
CardDone ==
  /\ card.state = "data" /\ ~FsmBusy /\ reading.n < 2
  /\ card' = [card EXCEPT !.state = "tran"]
  /\ UNCHANGED <<pc, config, identify, control, loop>>

Controller == Receive \/ BlockEnd \/ AutoStopSent \/ DataError \/ CardDone

-----------------------------------------------------------------------------
(* SDMMCBOOT and iSDXCBOOT                                                 *)

\* Mutant: the second read forgets that loadsize is without the header.
MutSectors(h) == (h.loadsize + Block - 1) \div Block

\* Sectors of the second read: header and payload, rounded up.
Sectors(h) == (h.loadsize + Header + Block - 1) \div Block

OverlapsSram(h) ==
  /\ h.loadaddr + Header + h.loadsize > SramBase
  /\ h.loadaddr < SramEnd

\* A header damaged on the way, or read off another sector, says anything.
HeaderRead ==
  /\ pc = "readDone" /\ tbi = <<>>
  /\ tbi' = buffer
  /\ header' \in IF corrupt = {} /\ driver.hc = card.hc THEN {image} ELSE Images
  /\ IF ~header'.signed \/ OverlapsSram(header')
       THEN Fail /\ UNCHANGED <<corrupt, loop>>
       ELSE StartRead(Device + 1, Sectors(header'))
  /\ UNCHANGED <<card, image, result, identify, xfer, fifo, rintsts>>

PayloadRead ==
  /\ pc = "readDone" /\ tbi # <<>>
  /\ pc' = "close"
  /\ result' = TRUE
  /\ UNCHANGED <<card, image, tbi, header, identify, control, loop>>

\* NX_SDMMC_Close and NX_SDMMC_Terminate, whatever came before.
Shutdown ==
  /\ pc = "close" /\ pc' = "done" /\ "HLE" \notin rintsts
  /\ xfer' = Idle /\ fifo' = <<>> /\ rintsts' = {}
  /\ UNCHANGED <<card, config, identify, corrupt, loop>>

Driver ==
  \/ LockedOut \/ WriteAgain
  \/ IdentifyCard \/ OpenCard \/ FifoReset \/ ReadSectors \/ HeaderRead \/ PayloadRead \/ Shutdown

Next == Driver \/ Controller

Spec == Init /\ [][Next]_vars

\* CPU0 runs on; the controller's data side and the card keep going.
FairSpec == Spec /\ WF_vars(Driver) /\ WF_vars(Controller)

-----------------------------------------------------------------------------
(* Properties                                                              *)

\* Every register, local and buffer of the driver keeps its type; the count
\* of bytes still expected never goes below zero (iSDHCBOOT.c:876).
TypeOK ==
  /\ card \in Cards /\ image \in Images /\ header \in Images
  /\ pc \in Pcs
  /\ driver \in [type : {"UNKNOWN", "SDMEM", "MMC"}, rca : Rcas, hc : BOOLEAN]
  /\ hcs \in BOOLEAN /\ result \in BOOLEAN /\ opCond \in Cards
  /\ timeout \in Nat /\ ctype \in {1, 4}
  /\ xfer \in [next : Nat, left : Nat, crc : BOOLEAN, stop : BOOLEAN]
  /\ fifo \in Seq(Nat) /\ Len(fifo) <= FifoSize
  /\ rintsts \subseteq Bits /\ corrupt \subseteq Nat
  /\ reading \in [sector : Nat, n : Nat] /\ count \in Nat /\ fsize \in 0..FifoSize
  /\ buffer \in Seq(Nat) /\ tbi \in Seq(Nat)

\* Once NX_SDMMC_Open has succeeded the driver knows the card it talks to, its
\* type and its address, whichever commands were lost or answered with damage on
\* the way and whatever state the boot ROM left the card in; and its addressing
\* too, unless the capacity bit of the OCR it went by had flipped (IdentifyCard,
\* Open).
CardAgrees ==
  pc \in ReadPcs \cup {"fifoReset", "readDone"} =>
    /\ driver.type = IF card.kind = "MMC" THEN "MMC" ELSE "SDMEM"
    /\ driver.rca = card.rca
    /\ opCond.hc = card.hc => driver.hc = card.hc
    /\ card.state \in {"tran", "data"}

\* The NX_ASSERTs of ReadSectors (iSDHCBOOT.c:957-958, 987-989): a read command
\* finds the FIFO empty and the data side at rest, a successful read leaves
\* nothing in the FIFO.
CleanStart ==
  /\ pc = "readCmd" => fifo = <<>> /\ ~FsmBusy
  /\ pc \in {"autoStop", "readDone"} => fifo = <<>>

\* ReadSectorData's CTRUE means all the sectors asked for, in order from where
\* the card was told to begin, and every one but the last with its CRC checked,
\* however the FIFO fills against the loop (the verdict on the last one may come
\* after the loop has left).
ReadIsWhole ==
  pc \in {"autoStop", "readDone"} =>
    LET first == Addressed(Argument)
        units == reading.n * Block IN
    /\ buffer = [i \in 1..units |-> first + i - 1]
    /\ corrupt \subseteq {(first + units - 1) \div Block}

\* Where the image of a successful boot is: the header sector is copied to
\* loadaddr, the second read goes to loadaddr + BLOCK_LENGTH.
InMemory(k, unit) ==
  IF k < Block THEN tbi[k + 1] = unit
  ELSE k - Block + 1 \in DOMAIN buffer /\ buffer[k - Block + 1] = unit

\* iSDXCBOOT's CTRUE means that the header and all of the payload are at
\* [loadaddr, loadaddr + 0x400 + loadsize) (SDMMCBOOT), if the capacity that
\* IdentifyCard took from the OCR is the card's.
ImageComplete ==
  result /\ header = image /\ driver.hc = card.hc =>
    \A k \in 0..(Header + image.loadsize - 1) : InMemory(k, Device * Block + k)

\* BL1's own code and stack are in SRAM: nothing read from the card goes there.
ClearOfSram ==
  pc = "poll" /\ tbi # <<>> =>
    \A i \in DOMAIN buffer : header.loadaddr + Block + i - 1 \notin SramBase..(SramEnd - 1)

\* The loop waits for a request that it has cleared itself: between the last
\* word it read and the clear the FIFO has filled up again, which has stopped the
\* card's clock, so nothing more arrives and nothing times out.
Starved ==
  /\ pc \in {"poll", "check"}
  /\ Len(fifo) = FifoSize /\ xfer.left > 0
  /\ {"RXDR", "DTO", "ERR"} \cap rintsts = {}

\* iSDXCBOOT returns, from every card and every fault of the bus, so that
\* BootMain can go on to the USB download: of all the waits and retries without
\* a limit only two can go on for ever, the one on a controller that is locked
\* time and again (iSDHCBOOT.c:207-212, 240-245, 287) and the one on a request
\* that was cleared too late (:883).
BootReturns == <>(pc = "done") \/ []<>("HLE" \in rintsts) \/ <>[]Starved
=============================================================================
