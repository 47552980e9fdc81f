---------------------------- MODULE UsbBootProofs ----------------------------
(***************************************************************************)
(* What holds of every USB download: for every size of the payload, every  *)
(* host, and every way the bus resets, the host's second thoughts and the  *)
(* driver's polling may fall together.                                     *)
(***************************************************************************)
EXTENDS UsbBoot, TLAPS

-----------------------------------------------------------------------------
(* Types.                                                                  *)

All == Header + LoadSize
Steps == Requests \cup {"reset", "send", "sent"}
Entries == [kind : {"setup", "out", "other"}, request : Requests, units : Seq(Units)]

Usbs == [loading : BOOLEAN, header : BOOLEAN, hsize : 0..Header, size : 0..LoadSize,
         ep0 : {"INIT", "GET_DSCPT"}, descriptor : Descriptors, remain : 0..2,
         speed : {"high", "full"}]
Cores == [sts : SUBSET {"USBRst", "EnumDone"}, rx : Seq(Entries),
          tx : [kind : {"nothing", "zero", "device", "config"}, last : BOOLEAN],
          inToken : BOOLEAN, addr : {"zero", "new"}, active : BOOLEAN, armed : BOOLEAN]
Hosts == [speed : {"high", "full"}, pace : {"patient", "hurried"}, step : Steps,
          sent : BOOLEAN, pos : 0..All, bad : BOOLEAN, image : BOOLEAN]

Types ==
  /\ pc \in {"poll", "reset", "enum", "receive", "transfer", "clear", "returned"}
  /\ sampled \subseteq {"USBRst", "EnumDone", "RXFLVL", "IEPINT"}
  /\ usb \in Usbs /\ core \in Cores /\ host \in Hosts
  /\ usb.ep0 # "INIT" => usb.remain > 0
  /\ tbi \in [1..Header -> Units]
  /\ mem \in Seq(Units)

-----------------------------------------------------------------------------
(* The receive FIFO during an enumeration.                                 *)

Asks(rx, r) == \E i \in DOMAIN rx : rx[i].kind = "setup" /\ rx[i].request = r
Weight(rx, r) == IF Asks(rx, r) THEN 1 ELSE 0

\* An entry for each there is, and one more for each request: the two words
\* that endpoint 0 may leave in the FIFO instead of reading.
Load(rx) == Len(rx) + Weight(rx, "device") + Weight(rx, "address")
                    + Weight(rx, "config") + Weight(rx, "setConfig")

AsksOnly(rx, requests) == \A r \in Requests : Asks(rx, r) => r \in requests

\* A request is in the FIFO once, and something follows every entry of weight.
RxShape(rx) ==
  /\ \A i, j \in DOMAIN rx :
       /\ rx[i].kind = "setup" /\ rx[j].kind = "setup" /\ rx[i].request = rx[j].request
       => i = j
  /\ rx # <<>> => rx[Len(rx)].kind = "other"

\* The bulk packets in the FIFO, of which there is never more than one.
Flying(rx) == {rx[i].units : i \in {j \in DOMAIN rx : rx[j].kind = "out"}}
OneOut(rx) == \A i, j \in DOMAIN rx : rx[i].kind = "out" /\ rx[j].kind = "out" => i = j

\* The last that the host has sent, but for what follows it.
Latest(rx, r) ==
  \A i \in DOMAIN rx : rx[i].kind = "setup" /\ rx[i].request = r => i = Len(rx) - 1
LatestOut(rx) == \A i \in DOMAIN rx : rx[i].kind = "out" => i = Len(rx) - 1

Loads(rx, requests, n) == AsksOnly(rx, requests) /\ Load(rx) <= n

\* What the host may have put into the FIFO by each step of the enumeration.
RxLoad ==
  LET rx == core.rx  s == host.step IN
  /\ s = "reset" => Load(rx) <= 8
  /\ s = "device" /\ ~host.sent => rx = <<>>
  /\ s = "device" => Loads(rx, {"device"}, 3)
  /\ s = "address" /\ ~host.sent => Loads(rx, {"device"}, 5)
  /\ (s = "address" /\ host.sent) \/ (s = "config" /\ ~host.sent) =>
       /\ Loads(rx, {"device", "address"}, 8)
       /\ Latest(rx, "address")
       /\ core.addr = "new" => Loads(rx, {}, 1) /\ usb.ep0 = "INIT"
  /\ s = "config" /\ host.sent =>
       IF Asks(rx, "config")
         THEN /\ Loads(rx, {"config"}, 4) /\ Latest(rx, "config")
              /\ usb.ep0 = "INIT" /\ core.tx.kind \in {"nothing", "zero"}
         ELSE Loads(rx, {}, 1)
  /\ s = "setConfig" => IF host.sent THEN Loads(rx, {"setConfig"}, 6) ELSE Loads(rx, {}, 3)
  /\ s \in {"send", "sent"} =>
       /\ LatestOut(rx)
       /\ Load(rx) <= IF Flying(rx) = {} THEN 6 ELSE 8

FifoInv ==
  /\ RxShape(core.rx)
  /\ core.inToken => core.tx = Nothing
  /\ host.step \in {"address", "config"} /\ ~host.sent => ~core.inToken /\ core.tx = Nothing
  /\ host.step \in Requests => Flying(core.rx) = {}
  /\ RxLoad

-----------------------------------------------------------------------------
(* Packets on the bulk endpoint.                                           *)

\* What the driver's pass has seen, or the next one is going to see.
Seen(bit) ==
  \/ pc = "poll" /\ bit \in core.sts
  \/ pc = "reset" /\ bit \in sampled
Enumerated == Seen("EnumDone") \/ (pc = "enum" /\ "EnumDone" \in sampled)

PacketInv ==
  /\ OneOut(core.rx)
  /\ core.active /\ core.armed => Flying(core.rx) = {}
  /\ Seen("USBRst") => ~core.active
  /\ Enumerated =>
       /\ Flying(core.rx) = {}
       /\ host.step \in {"reset", "device", "address"}
       /\ host.step = "address" => core.tx = Nothing
  /\ pc \in {"reset", "enum", "receive"} /\ "RXFLVL" \in sampled => core.rx # <<>>

-----------------------------------------------------------------------------
(* The download.                                                           *)

\* The driver has initialised the endpoint for the attempt under way.
Synced == host.step # "reset" /\ ~Enumerated

Unit(t, im, p) == [new |-> t, off |-> IF im THEN p ELSE Stray]

\* Units taken so far.
Got == IF usb.header THEN Header + (LoadSize - usb.size) ELSE usb.hsize

\* All that was taken since then, and the packet in the FIFO, is of one attempt,
\* with nothing left out: that of the host when the driver has followed it.
Attempt(t, im) ==
  /\ \A i \in 1..usb.hsize : tbi[i] = Unit(t, im, i - 1)
  /\ usb.header =>
       /\ im
       /\ Len(mem) = LoadSize - usb.size
       /\ \A i \in 1..Len(mem) : mem[i] = Unit(t, TRUE, Header + i - 1)
  /\ \A u \in Flying(core.rx) :
       /\ \A j \in 1..Len(u) : u[j] = Unit(t, im, Got + j - 1)
       /\ im => Got + Len(u) <= All
  /\ Synced =>
       /\ t = TRUE /\ im = host.image
       /\ im /\ Flying(core.rx) = {} => host.pos = Got
       /\ im => \A u \in Flying(core.rx) : host.pos = Got + Len(u)

\* The header is never overrun.
Fits ==
  /\ \A u \in Flying(core.rx) : Len(u) \in 1..2
  /\ IF usb.header THEN usb.hsize = Header /\ usb.size > 0 ELSE usb.hsize < Header
  /\ ~usb.header => \A u \in Flying(core.rx) : usb.hsize + Len(u) <= Header
  /\ Synced /\ ~usb.header /\ host.speed = "high" /\ host.step # "sent" =>
       usb.hsize = 0 /\ \A u \in Flying(core.rx) : Len(u) = 2

DownInv ==
  /\ host.step \notin {"send", "sent"} => host.pos = 0
  /\ host.step = "send" => host.pos < All
  /\ host.speed = "high" => host.pos # 1
  /\ Len(mem) <= LoadSize
  /\ IF usb.loading THEN Fits /\ \E t, im \in BOOLEAN : Attempt(t, im)
     ELSE DownloadIsWhole /\ pc \in {"transfer", "clear", "poll", "returned"}

-----------------------------------------------------------------------------
(* What happens to the receive FIFO: an entry is read, two words of a      *)
(* request are left in it, a packet arrives, the attempt is over.          *)

Spilled(rx) == <<Other, Other>> \o Tail(rx)
Pushed(rx, e) == rx \o <<e, Other>>

LEMMA OtherType == Other \in Entries
  BY DEF Other, Entries, Requests

LEMMA RxPop ==
  ASSUME NEW rx \in Seq(Entries), rx # <<>>
  PROVE  /\ Tail(rx) \in Seq(Entries) /\ Len(Tail(rx)) = Len(rx) - 1 /\ Len(rx) \in Nat
         /\ Len(rx) > 0
         /\ \A i \in 1..(Len(rx) - 1) : Tail(rx)[i] = rx[i + 1]
         /\ Head(rx) = rx[1] /\ rx[1] \in Entries
  OBVIOUS

LEMMA RxSpill ==
  ASSUME NEW rx \in Seq(Entries), rx # <<>>
  PROVE  /\ Spilled(rx) \in Seq(Entries) /\ Len(Spilled(rx)) = Len(rx) + 1
         /\ Spilled(rx)[1] = Other /\ Spilled(rx)[2] = Other
         /\ \A i \in 3..(Len(rx) + 1) : Spilled(rx)[i] = rx[i - 1]
  <1> DEFINE t == Tail(rx)
  <1>1. /\ t \in Seq(Entries) /\ Len(t) = Len(rx) - 1 /\ Len(rx) \in Nat /\ Len(rx) > 0
        /\ \A i \in 1..(Len(rx) - 1) : t[i] = rx[i + 1]
    BY RxPop
  <1> HIDE DEF t
  <1>2. /\ <<Other, Other>> \o t \in Seq(Entries)
        /\ Len(<<Other, Other>> \o t) = Len(t) + 2
        /\ (<<Other, Other>> \o t)[1] = Other /\ (<<Other, Other>> \o t)[2] = Other
        /\ \A i \in 3..(Len(t) + 2) : (<<Other, Other>> \o t)[i] = t[i - 2]
    BY <1>1, OtherType
  <1>3. \A i \in 3..(Len(rx) + 1) : t[i - 2] = rx[i - 1]
    <2>1. ASSUME NEW i \in 3..(Len(rx) + 1) PROVE t[i - 2] = rx[i - 1]
      <3>1. i - 2 \in 1..(Len(rx) - 1) /\ (i - 2) + 1 = i - 1 BY <1>1, <2>1
      <3>2. QED BY <1>1, <3>1
    <2>2. QED BY <2>1
  <1>4. QED BY <1>1, <1>2, <1>3 DEF Spilled, t

LEMMA RxPush ==
  ASSUME NEW rx \in Seq(Entries), NEW e \in Entries
  PROVE  /\ Pushed(rx, e) \in Seq(Entries) /\ Len(Pushed(rx, e)) = Len(rx) + 2
         /\ Len(rx) \in Nat
         /\ \A i \in 1..Len(rx) : Pushed(rx, e)[i] = rx[i]
         /\ Pushed(rx, e)[Len(rx) + 1] = e
         /\ Pushed(rx, e)[Len(rx) + 2] = Other
  BY OtherType DEF Pushed

LEMMA RxAge ==
  ASSUME NEW rx \in Seq(Entries)
  PROVE  /\ Aged(rx) \in Seq(Entries) /\ Len(Aged(rx)) = Len(rx) /\ Len(rx) \in Nat
         /\ \A i \in 1..Len(rx) : /\ Aged(rx)[i].kind = rx[i].kind
                                  /\ Aged(rx)[i].request = rx[i].request
                                  /\ Aged(rx)[i].units = Old(rx[i].units)
  <1>1. ASSUME NEW u \in Seq(Units) PROVE Old(u) \in Seq(Units)
    <2>1. ASSUME NEW i \in DOMAIN u PROVE [u[i] EXCEPT !.new = FALSE] \in Units
      <3>1. u[i] \in Units OBVIOUS
      <3>2. QED BY <3>1 DEF Units
    <2>2. Old(u) = [i \in 1..Len(u) |-> [u[i] EXCEPT !.new = FALSE]] BY DEF Old
    <2>3. DOMAIN u = 1..Len(u) /\ Len(u) \in Nat OBVIOUS
    <2>4. QED BY <2>1, <2>2, <2>3
  <1>2. ASSUME NEW i \in 1..Len(rx)
        PROVE  /\ [rx[i] EXCEPT !.units = Old(@)] \in Entries
               /\ [rx[i] EXCEPT !.units = Old(@)].kind = rx[i].kind
               /\ [rx[i] EXCEPT !.units = Old(@)].request = rx[i].request
               /\ [rx[i] EXCEPT !.units = Old(@)].units = Old(rx[i].units)
    <2>1. rx[i] \in Entries OBVIOUS
    <2>2. Old(rx[i].units) \in Seq(Units) BY <1>1, <2>1 DEF Entries
    <2>3. QED BY <2>1, <2>2 DEF Entries
  <1>3. DOMAIN rx = 1..Len(rx) /\ Len(rx) \in Nat OBVIOUS
  <1>4. Aged(rx) = [i \in 1..Len(rx) |-> [rx[i] EXCEPT !.units = Old(@)]]
    BY <1>3 DEF Aged
  <1> DEFINE f(i) == [rx[i] EXCEPT !.units = Old(@)]
  <1> HIDE DEF f
  <1>5. Aged(rx) = [i \in 1..Len(rx) |-> f(i)] BY <1>4 DEF f
  <1>6. \A i \in 1..Len(rx) : f(i) \in Entries BY <1>2 DEF f
  <1>7. Aged(rx) \in Seq(Entries) /\ Len(Aged(rx)) = Len(rx)
        /\ \A i \in 1..Len(rx) : Aged(rx)[i] = f(i)
    BY <1>3, <1>5, <1>6
  <1>8. QED BY <1>2, <1>3, <1>7 DEF f

\* Requests in the FIFO.
LEMMA WeightType ==
  ASSUME NEW rx, NEW r
  PROVE  Weight(rx, r) = 0 \/ Weight(rx, r) = 1
  BY DEF Weight

LEMMA LoadType ==
  ASSUME NEW rx \in Seq(Entries)
  PROVE  Load(rx) \in Nat /\ Len(rx) <= Load(rx)
  <1>1. Len(rx) \in Nat OBVIOUS
  <1>2. /\ Weight(rx, "device") = 0 \/ Weight(rx, "device") = 1
        /\ Weight(rx, "address") = 0 \/ Weight(rx, "address") = 1
        /\ Weight(rx, "config") = 0 \/ Weight(rx, "config") = 1
        /\ Weight(rx, "setConfig") = 0 \/ Weight(rx, "setConfig") = 1
    BY WeightType
  <1>3. QED BY ONLY <1>1, <1>2 DEF Load

\* One FIFO asks for no more than another does.
LEMMA LoadLess ==
  ASSUME NEW rx \in Seq(Entries), NEW ry \in Seq(Entries),
         \A r \in Requests : Asks(ry, r) => Asks(rx, r)
  PROVE  /\ Load(ry) - Len(ry) <= Load(rx) - Len(rx)
         /\ \A r \in Requests : Asks(rx, r) /\ ~Asks(ry, r) =>
              Load(ry) - Len(ry) <= Load(rx) - Len(rx) - 1
  <1> DEFINE less(r) == \/ Weight(ry, r) = 0 /\ Weight(rx, r) = 0
                        \/ Weight(ry, r) = 1 /\ Weight(rx, r) = 1
                        \/ Weight(ry, r) = 0 /\ Weight(rx, r) = 1
  <1>1. /\ less("device") /\ less("address") /\ less("config") /\ less("setConfig")
        /\ \A r \in Requests : Asks(rx, r) /\ ~Asks(ry, r) =>
             Weight(rx, r) = 1 /\ Weight(ry, r) = 0
    BY DEF Weight, Requests
  <1>2. Len(rx) \in Nat /\ Len(ry) \in Nat OBVIOUS
  <1>3. Load(ry) - Len(ry) <= Load(rx) - Len(rx) BY ONLY <1>1, <1>2, SMTT(20) DEF Load
  <1>4. ASSUME NEW r \in Requests, Asks(rx, r), ~Asks(ry, r)
        PROVE  Load(ry) - Len(ry) <= Load(rx) - Len(rx) - 1
    <2>1. Weight(rx, r) = 1 /\ Weight(ry, r) = 0 BY <1>1, <1>4
    <2>2. r \in {"device", "address", "config", "setConfig"} BY DEF Requests
    <2> DEFINE heavy(q) == Weight(rx, q) = 1 /\ Weight(ry, q) = 0
    <2>3. heavy("device") \/ heavy("address") \/ heavy("config") \/ heavy("setConfig")
      BY <2>1, <2>2
    <2>4. CASE heavy("device") BY ONLY <1>1, <1>2, <2>4 DEF Load
    <2>5. CASE heavy("address") BY ONLY <1>1, <1>2, <2>5 DEF Load
    <2>6. CASE heavy("config") BY ONLY <1>1, <1>2, <2>6 DEF Load
    <2>7. CASE heavy("setConfig") BY ONLY <1>1, <1>2, <2>7 DEF Load
    <2>8. QED BY <2>3, <2>4, <2>5, <2>6, <2>7
  <1>5. QED BY <1>3, <1>4

LEMMA PopShape ==
  ASSUME NEW rx \in Seq(Entries), rx # <<>>, RxShape(rx)
  PROVE  /\ RxShape(Tail(rx)) /\ Load(Tail(rx)) <= Load(rx) - 1
         /\ \A r : Asks(Tail(rx), r) => Asks(rx, r)
         /\ \A r : Asks(rx, r) /\ Head(rx).kind # "setup" => Asks(Tail(rx), r)
         /\ \A r : Latest(rx, r) => Latest(Tail(rx), r)
         /\ LatestOut(rx) => LatestOut(Tail(rx))
         /\ LatestOut(rx) /\ Head(rx).kind = "out" => Load(Tail(rx)) <= 1
         /\ Head(rx).kind = "setup" =>
              /\ Asks(rx, Head(rx).request) /\ ~Asks(Tail(rx), Head(rx).request)
              /\ Load(Tail(rx)) <= Load(rx) - 2
              /\ Latest(rx, Head(rx).request) => Loads(Tail(rx), {}, 1)
  <1> DEFINE t == Tail(rx)
  <1>1. /\ t \in Seq(Entries) /\ Len(t) = Len(rx) - 1 /\ Len(rx) \in Nat /\ Len(rx) > 0
        /\ \A i \in 1..(Len(rx) - 1) : t[i] = rx[i + 1]
        /\ Head(rx) = rx[1] /\ rx[1] \in Entries
    BY RxPop
  <1> HIDE DEF t
  <1>0. Len(rx) \in Nat /\ Len(rx) > 0 BY <1>1
  <1>2. DOMAIN t = 1..Len(t) /\ DOMAIN rx = 1..Len(rx) BY <1>1
  <1>3. ASSUME NEW i \in DOMAIN t PROVE i + 1 \in DOMAIN rx /\ t[i] = rx[i + 1] /\ i \in Nat
    BY ONLY <1>1, <1>2, <1>3
  <1>4. rx[Len(rx)].kind = "other" BY <1>1 DEF RxShape
  <1>5. RxShape(t)
    <2>1. t # <<>> => Len(t) \in DOMAIN t /\ t[Len(t)] = rx[Len(rx)]
      <3>1. ASSUME t # <<>> PROVE Len(t) \in DOMAIN t BY <1>1, <1>2, <3>1
      <3>2. QED BY <1>1, <1>3, <3>1
    <2>2. ASSUME NEW i \in DOMAIN t, NEW j \in DOMAIN t, t[i].kind = "setup",
                 t[j].kind = "setup", t[i].request = t[j].request
          PROVE  i = j
      <3>1. i + 1 = j + 1 BY <1>3, <2>2 DEF RxShape
      <3>2. i \in Nat /\ j \in Nat BY <1>3
      <3>3. QED BY ONLY <3>1, <3>2
    <2>3. QED BY <1>4, <2>1, <2>2 DEF RxShape
  <1>6. \A r : Asks(t, r) => Asks(rx, r) BY <1>3 DEF Asks
  <1>7. Load(t) <= Load(rx) - 1 /\ Load(rx) \in Nat /\ Load(t) \in Nat
    <2>1. Load(t) - Len(t) <= Load(rx) - Len(rx) BY <1>1, <1>6, LoadLess
    <2>2. Load(t) \in Nat /\ Load(rx) \in Nat BY <1>1, LoadType
    <2>3. QED BY ONLY <1>1, <2>1, <2>2
  <1>8. ASSUME NEW r, Latest(rx, r) PROVE Latest(t, r)
    <2>1. ASSUME NEW i \in DOMAIN t, t[i].kind = "setup" /\ t[i].request = r
          PROVE  i = Len(t) - 1
      <3>1. i + 1 = Len(rx) - 1 /\ i \in Nat BY <1>3, <1>8, <2>1 DEF Latest
      <3>2. QED BY ONLY <1>1, <3>1
    <2>2. QED BY <2>1 DEF Latest
  <1>9. ASSUME LatestOut(rx) PROVE LatestOut(t)
    <2>1. ASSUME NEW i \in DOMAIN t, t[i].kind = "out" PROVE i = Len(t) - 1
      <3>1. i + 1 = Len(rx) - 1 /\ i \in Nat BY <1>3, <1>9, <2>1 DEF LatestOut
      <3>2. QED BY ONLY <1>1, <3>1
    <2>2. QED BY <2>1 DEF LatestOut
  <1>10. 1 \in DOMAIN rx BY <1>1, <1>2
  <1>11. ASSUME Len(rx) = 2 PROVE Loads(t, {}, 1)
    <2>1. Len(t) = 1 /\ \A i \in DOMAIN t : t[i].kind = "other"
      BY <1>1, <1>2, <1>3, <1>4, <1>11
    <2>2. \A r : ~Asks(t, r) BY <2>1 DEF Asks
    <2>3. \A r : Weight(t, r) = 0 BY <2>2 DEF Weight
    <2>4. Load(t) = 1 BY <2>1, <2>3 DEF Load
    <2>5. QED BY <2>2, <2>4 DEF Loads, AsksOnly
  <1>12. ASSUME LatestOut(rx), Head(rx).kind = "out" PROVE Load(t) <= 1
    <2>1. 1 = Len(rx) - 1 BY <1>1, <1>10, <1>12 DEF LatestOut
    <2>2. Len(rx) = 2 BY <1>0, <2>1
    <2>3. QED BY <1>11, <2>2 DEF Loads
  <1>13. ASSUME Head(rx).kind = "setup"
         PROVE  /\ Asks(rx, Head(rx).request) /\ ~Asks(t, Head(rx).request)
                /\ Load(t) <= Load(rx) - 2
                /\ Latest(rx, Head(rx).request) => Loads(t, {}, 1)
    <2> DEFINE q == Head(rx).request
    <2>1. rx[1].kind = "setup" /\ rx[1].request = q BY <1>1, <1>13
    <2>2. q \in Requests BY <1>1 DEF Entries
    <2> HIDE DEF q
    <2>3. Asks(rx, q) BY <1>10, <2>1 DEF Asks
    <2>4. ~Asks(t, q)
      <3>1. ASSUME NEW i \in DOMAIN t, t[i].kind = "setup" /\ t[i].request = q
            PROVE  FALSE
        <4>1. i + 1 = 1 /\ i \in Nat /\ i \in 1..Len(t)
          BY <1>2, <1>3, <1>10, <2>1, <3>1 DEF RxShape
        <4>2. QED BY ONLY <4>1
      <3>2. QED BY <3>1 DEF Asks
    <2>5. Load(t) - Len(t) <= Load(rx) - Len(rx) - 1
      BY <1>1, <1>6, <2>2, <2>3, <2>4, LoadLess
    <2>6. Load(t) <= Load(rx) - 2 BY ONLY <1>1, <1>7, <2>5
    <2>7. ASSUME Latest(rx, q) PROVE Loads(t, {}, 1)
      <3>1. 1 = Len(rx) - 1 BY <1>10, <2>1, <2>7 DEF Latest
      <3>2. Len(rx) = 2 BY <1>0, <3>1
      <3>3. QED BY <1>11, <3>2
    <2>8. QED BY <2>3, <2>4, <2>6, <2>7 DEF q
  <1>14. ASSUME NEW r, Asks(rx, r), Head(rx).kind # "setup" PROVE Asks(t, r)
    <2>1. PICK i \in DOMAIN rx : rx[i].kind = "setup" /\ rx[i].request = r
      BY <1>14 DEF Asks
    <2>2. i # 1 BY <1>1, <1>14, <2>1
    <2>3. i - 1 \in 1..(Len(rx) - 1) /\ (i - 1) + 1 = i BY ONLY <1>0, <1>2, <2>1, <2>2
    <2>4. i - 1 \in DOMAIN t /\ t[i - 1] = rx[i] BY <1>1, <1>2, <2>3
    <2>5. QED BY <2>1, <2>4 DEF Asks
  <1>15. QED BY <1>5, <1>6, <1>7, <1>8, <1>9, <1>12, <1>13, <1>14 DEF t

LEMMA SpillShape ==
  ASSUME NEW rx \in Seq(Entries), rx # <<>>, RxShape(rx), Head(rx).kind = "setup"
  PROVE  /\ RxShape(Spilled(rx)) /\ Load(Spilled(rx)) <= Load(rx)
         /\ \A r : Asks(Spilled(rx), r) => Asks(rx, r)
         /\ ~Asks(Spilled(rx), Head(rx).request)
         /\ \A r : Latest(rx, r) => Latest(Spilled(rx), r)
         /\ LatestOut(rx) => LatestOut(Spilled(rx))
  <1> DEFINE s == Spilled(rx)
  <1>1. /\ s \in Seq(Entries) /\ Len(s) = Len(rx) + 1 /\ Len(rx) \in Nat /\ Len(rx) > 0
        /\ s[1] = Other /\ s[2] = Other
        /\ \A i \in 3..(Len(rx) + 1) : s[i] = rx[i - 1]
        /\ Head(rx) = rx[1] /\ rx[1] \in Entries
    BY RxSpill, RxPop
  <1> HIDE DEF s
  <1>0. Len(rx) \in Nat /\ Len(rx) > 0 BY <1>1
  <1>2. DOMAIN s = 1..Len(s) /\ DOMAIN rx = 1..Len(rx) BY <1>1
  <1>3. ASSUME NEW i \in DOMAIN s, s[i].kind # "other"
        PROVE  i - 1 \in DOMAIN rx /\ i - 1 # 1 /\ s[i] = rx[i - 1] /\ i \in Nat
    <2>1. i # 1 /\ i # 2 BY <1>1, <1>3 DEF Other
    <2>2. i \in 3..(Len(rx) + 1) BY <1>1, <1>2, <2>1
    <2>3. QED BY <1>1, <1>2, <2>2
  <1>4. RxShape(s)
    <2>1. Len(rx) > 1
      <3>1. rx[Len(rx)].kind = "other" BY <1>1 DEF RxShape
      <3>2. Len(rx) # 1 BY <1>1, <3>1
      <3>3. ASSUME NEW n \in Nat, n > 0, n # 1 PROVE n > 1 BY <3>3
      <3>4. QED BY <1>0, <3>2, <3>3
    <2>2. s[Len(s)] = rx[Len(rx)]
      <3>1. Len(s) \in 3..(Len(rx) + 1) /\ Len(s) - 1 = Len(rx) BY ONLY <1>1, <2>1
      <3>2. QED BY <1>1, <3>1
    <2>3. ASSUME NEW i \in DOMAIN s, NEW j \in DOMAIN s, s[i].kind = "setup",
                 s[j].kind = "setup", s[i].request = s[j].request
          PROVE  i = j
      <3>1. /\ i - 1 \in DOMAIN rx /\ s[i] = rx[i - 1] /\ i \in Nat
            /\ j - 1 \in DOMAIN rx /\ s[j] = rx[j - 1] /\ j \in Nat
        BY <1>3, <2>3
      <3>2. i - 1 = j - 1 BY <2>3, <3>1 DEF RxShape
      <3>3. QED BY ONLY <3>1, <3>2
    <2>4. rx[Len(rx)].kind = "other" BY <1>1 DEF RxShape
    <2>5. QED BY <2>2, <2>3, <2>4 DEF RxShape
  <1>5. ASSUME NEW r, Asks(s, r) PROVE Asks(rx, r)
    <2>1. PICK i \in DOMAIN s : s[i].kind = "setup" /\ s[i].request = r
      BY <1>5 DEF Asks
    <2>2. i - 1 \in DOMAIN rx /\ s[i] = rx[i - 1] BY <1>3, <2>1
    <2>3. QED BY <2>1, <2>2 DEF Asks
  <1> DEFINE q == Head(rx).request
  <1>6. rx[1].kind = "setup" /\ rx[1].request = q /\ 1 \in DOMAIN rx BY <1>1, <1>2
  <1>7. q \in Requests BY <1>1 DEF Entries
  <1> HIDE DEF q
  <1>8. Asks(rx, q) /\ ~Asks(s, q)
    <2>1. ASSUME NEW i \in DOMAIN s, s[i].kind = "setup", s[i].request = q PROVE FALSE
      <3>1. i - 1 \in DOMAIN rx /\ i - 1 # 1 /\ s[i] = rx[i - 1] BY <1>3, <2>1
      <3>2. QED BY <1>6, <2>1, <3>1 DEF RxShape
    <2>2. QED BY <1>6, <2>1 DEF Asks
  <1>9. Load(s) <= Load(rx)
    <2>1. Load(s) - Len(s) <= Load(rx) - Len(rx) - 1
      BY <1>1, <1>5, <1>7, <1>8, LoadLess
    <2>2. Load(s) \in Nat /\ Load(rx) \in Nat BY <1>1, LoadType
    <2>3. QED BY ONLY <1>1, <2>1, <2>2
  <1>10. ASSUME NEW r, Latest(rx, r) PROVE Latest(s, r)
    <2>1. ASSUME NEW i \in DOMAIN s, s[i].kind = "setup" /\ s[i].request = r
          PROVE  i = Len(s) - 1
      <3>1. i - 1 \in DOMAIN rx /\ s[i] = rx[i - 1] /\ i \in Nat BY <1>3, <2>1
      <3>2. i - 1 = Len(rx) - 1 BY <1>10, <2>1, <3>1 DEF Latest
      <3>3. QED BY ONLY <1>1, <3>1, <3>2
    <2>2. QED BY <2>1 DEF Latest
  <1>11. ASSUME LatestOut(rx) PROVE LatestOut(s)
    <2>1. ASSUME NEW i \in DOMAIN s, s[i].kind = "out" PROVE i = Len(s) - 1
      <3>1. i - 1 \in DOMAIN rx /\ s[i] = rx[i - 1] /\ i \in Nat BY <1>3, <2>1
      <3>2. i - 1 = Len(rx) - 1 BY <1>11, <2>1, <3>1 DEF LatestOut
      <3>3. QED BY ONLY <1>1, <3>1, <3>2
    <2>2. QED BY <2>1 DEF LatestOut
  <1>12. QED BY <1>4, <1>5, <1>8, <1>9, <1>10, <1>11 DEF s, q

LEMMA PushShape ==
  ASSUME NEW rx \in Seq(Entries), RxShape(rx), NEW e \in Entries,
         e.kind = "setup" => ~Asks(rx, e.request)
  PROVE  /\ RxShape(Pushed(rx, e))
         /\ \A r : Asks(Pushed(rx, e), r) <=> Asks(rx, r) \/ (e.kind = "setup" /\ r = e.request)
         /\ Load(Pushed(rx, e)) <= Load(rx) + (IF e.kind = "setup" THEN 3 ELSE 2)
         /\ e.kind = "setup" => Latest(Pushed(rx, e), e.request)
         /\ Flying(rx) = {} => LatestOut(Pushed(rx, e))
  <1> DEFINE p == Pushed(rx, e)
  <1>1. /\ p \in Seq(Entries) /\ Len(p) = Len(rx) + 2 /\ Len(rx) \in Nat
        /\ \A i \in 1..Len(rx) : p[i] = rx[i]
        /\ p[Len(rx) + 1] = e /\ p[Len(rx) + 2] = Other
    BY RxPush
  <1> HIDE DEF p
  <1>2. DOMAIN p = 1..Len(p) /\ DOMAIN rx = 1..Len(rx) BY <1>1
  <1>3. ASSUME NEW i \in DOMAIN p, p[i].kind # "other"
        PROVE  \/ i \in DOMAIN rx /\ p[i] = rx[i]
               \/ i = Len(rx) + 1 /\ p[i] = e
    <2>1. i # Len(rx) + 2 BY <1>1, <1>3 DEF Other
    <2>2. i \in 1..Len(rx) \/ i = Len(rx) + 1 BY ONLY <1>1, <1>2, <1>3, <2>1
    <2>3. QED BY <1>1, <1>2, <2>2
  <1>4. \A r : Asks(p, r) <=> Asks(rx, r) \/ (e.kind = "setup" /\ r = e.request)
    <2>1. ASSUME NEW r, Asks(p, r) PROVE Asks(rx, r) \/ (e.kind = "setup" /\ r = e.request)
      BY <1>3, <2>1 DEF Asks
    <2>2. ASSUME NEW r, Asks(rx, r) PROVE Asks(p, r)
      <3>1. \A i \in DOMAIN rx : i \in DOMAIN p BY <1>1, <1>2
      <3>2. QED BY <1>1, <1>2, <2>2, <3>1 DEF Asks
    <2>3. ASSUME e.kind = "setup" PROVE Asks(p, e.request)
      <3>1. Len(rx) + 1 \in DOMAIN p BY <1>1, <1>2
      <3>2. QED BY <1>1, <2>3, <3>1 DEF Asks
    <2>4. QED BY <2>1, <2>2, <2>3
  <1>5. RxShape(p)
    <2>1. Len(rx) + 2 = Len(p) /\ p[Len(p)].kind = "other" BY <1>1 DEF Other
    <2>2. ASSUME NEW i \in DOMAIN p, NEW j \in DOMAIN p, p[i].kind = "setup",
                 p[j].kind = "setup", p[i].request = p[j].request
          PROVE  i = j
      <3>1. CASE i \in DOMAIN rx /\ p[i] = rx[i] /\ j \in DOMAIN rx /\ p[j] = rx[j]
        BY <2>2, <3>1 DEF RxShape
      <3>2. CASE i \in DOMAIN rx /\ p[i] = rx[i] /\ j = Len(rx) + 1 /\ p[j] = e
        BY <2>2, <3>2 DEF Asks
      <3>3. CASE j \in DOMAIN rx /\ p[j] = rx[j] /\ i = Len(rx) + 1 /\ p[i] = e
        BY <2>2, <3>3 DEF Asks
      <3>4. QED BY <1>3, <2>2, <3>1, <3>2, <3>3
    <2>3. QED BY <2>1, <2>2 DEF RxShape
  <1>6. Load(p) <= Load(rx) + (IF e.kind = "setup" THEN 3 ELSE 2)
    <2>1. Load(p) \in Nat /\ Load(rx) \in Nat BY <1>1, LoadType
    <2>2. CASE e.kind # "setup"
      <3>1. Load(p) - Len(p) <= Load(rx) - Len(rx) BY <1>1, <1>4, <2>2, LoadLess
      <3>2. Load(p) <= Load(rx) + 2 BY ONLY <1>1, <2>1, <3>1
      <3>3. QED BY <2>2, <3>2
    <2>3. CASE e.kind = "setup"
      <3> DEFINE w(s, r) == Weight(s, r)
      <3>1. /\ w(p, "device") = w(rx, "device")
               \/ (e.request = "device" /\ w(p, "device") = w(rx, "device") + 1)
            /\ w(p, "address") = w(rx, "address")
               \/ (e.request = "address" /\ w(p, "address") = w(rx, "address") + 1)
            /\ w(p, "config") = w(rx, "config")
               \/ (e.request = "config" /\ w(p, "config") = w(rx, "config") + 1)
            /\ w(p, "setConfig") = w(rx, "setConfig")
               \/ (e.request = "setConfig" /\ w(p, "setConfig") = w(rx, "setConfig") + 1)
        BY <1>4, <2>3 DEF Weight
      <3>2. /\ w(rx, "device") \in {0, 1} /\ w(rx, "address") \in {0, 1}
            /\ w(rx, "config") \in {0, 1} /\ w(rx, "setConfig") \in {0, 1}
        BY WeightType
      <3>3. Load(p) <= Load(rx) + 3 BY ONLY <1>1, <3>1, <3>2, SMTT(20) DEF Load
      <3>4. QED BY <2>3, <3>3
    <2>4. QED BY <2>2, <2>3
  <1>7. ASSUME e.kind = "setup" PROVE Latest(p, e.request)
    <2>1. ASSUME NEW i \in DOMAIN p, p[i].kind = "setup" /\ p[i].request = e.request
          PROVE  i = Len(p) - 1
      <3>1. ~(i \in DOMAIN rx /\ p[i] = rx[i]) BY <1>7, <2>1 DEF Asks
      <3>2. i = Len(rx) + 1 BY <1>3, <2>1, <3>1
      <3>3. QED BY ONLY <1>1, <3>2
    <2>2. QED BY <2>1 DEF Latest
  <1>8. ASSUME Flying(rx) = {} PROVE LatestOut(p)
    <2>1. ASSUME NEW i \in DOMAIN p, p[i].kind = "out" PROVE i = Len(p) - 1
      <3>1. ~(i \in DOMAIN rx /\ p[i] = rx[i]) BY <1>8, <2>1 DEF Flying
      <3>2. i = Len(rx) + 1 BY <1>3, <2>1, <3>1
      <3>3. QED BY ONLY <1>1, <3>2
    <2>2. QED BY <2>1 DEF LatestOut
  <1>9. QED BY <1>4, <1>5, <1>6, <1>7, <1>8 DEF p

LEMMA AgeShape ==
  ASSUME NEW rx \in Seq(Entries), RxShape(rx)
  PROVE  RxShape(Aged(rx)) /\ Load(Aged(rx)) <= Load(rx)
  <1> DEFINE a == Aged(rx)
  <1>1. /\ a \in Seq(Entries) /\ Len(a) = Len(rx) /\ Len(rx) \in Nat
        /\ \A i \in 1..Len(rx) : a[i].kind = rx[i].kind /\ a[i].request = rx[i].request
    BY RxAge
  <1> HIDE DEF a
  <1>2. DOMAIN a = 1..Len(rx) /\ DOMAIN rx = 1..Len(rx) BY <1>1
  <1>3. \A r : Asks(a, r) => Asks(rx, r) BY <1>1, <1>2 DEF Asks
  <1>4. Load(a) <= Load(rx)
    <2>1. Load(a) - Len(a) <= Load(rx) - Len(rx) BY <1>1, <1>3, LoadLess
    <2>2. Load(a) \in Nat /\ Load(rx) \in Nat BY <1>1, LoadType
    <2>3. QED BY ONLY <1>1, <2>1, <2>2
  <1>5. RxShape(a)
    <2>1. a # <<>> => rx # <<>> BY <1>1
    <2>2. rx # <<>> => Len(rx) \in 1..Len(rx) BY <1>1
    <2>3. QED BY <1>1, <1>2, <2>1, <2>2 DEF RxShape
  <1>6. QED BY <1>4, <1>5 DEF a

\* Packets in the FIFO.
LEMMA PopFlying ==
  ASSUME NEW rx \in Seq(Entries), rx # <<>>, OneOut(rx)
  PROVE  /\ OneOut(Tail(rx))
         /\ Head(rx).kind # "out" => Flying(Tail(rx)) = Flying(rx)
         /\ Head(rx).kind = "out" =>
              Flying(Tail(rx)) = {} /\ Flying(rx) = {Head(rx).units}
  <1> DEFINE t == Tail(rx)
  <1>1. /\ t \in Seq(Entries) /\ Len(t) = Len(rx) - 1 /\ Len(rx) \in Nat /\ Len(rx) > 0
        /\ \A i \in 1..(Len(rx) - 1) : t[i] = rx[i + 1]
        /\ Head(rx) = rx[1]
    BY RxPop
  <1> HIDE DEF t
  <1>2. DOMAIN t = 1..Len(t) /\ DOMAIN rx = 1..Len(rx) /\ 1 \in DOMAIN rx BY <1>1
  <1>3. ASSUME NEW i \in DOMAIN t
        PROVE  i + 1 \in DOMAIN rx /\ t[i] = rx[i + 1] /\ i \in Nat /\ i + 1 # 1
    BY ONLY <1>1, <1>2, <1>3
  <1>4. ASSUME NEW j \in DOMAIN rx, j # 1 PROVE j - 1 \in DOMAIN t /\ t[j - 1] = rx[j]
    <2>1. j - 1 \in 1..(Len(rx) - 1) /\ (j - 1) + 1 = j BY ONLY <1>1, <1>2, <1>4
    <2>2. QED BY <1>1, <1>2, <2>1
  <1>5. OneOut(t)
    <2>1. ASSUME NEW i \in DOMAIN t, NEW j \in DOMAIN t, t[i].kind = "out",
                 t[j].kind = "out"
          PROVE  i = j
      <3>1. i + 1 = j + 1 BY <1>3, <2>1 DEF OneOut
      <3>2. i \in Nat /\ j \in Nat BY <1>3
      <3>3. QED BY ONLY <3>1, <3>2
    <2>2. QED BY <2>1 DEF OneOut
  <1>6. ASSUME Head(rx).kind # "out" PROVE Flying(t) = Flying(rx)
    <2>1. ASSUME NEW u \in Flying(t) PROVE u \in Flying(rx)
      <3>1. PICK i \in DOMAIN t : t[i].kind = "out" /\ u = t[i].units
        BY <2>1 DEF Flying
      <3>2. QED BY <1>3, <3>1 DEF Flying
    <2>2. ASSUME NEW u \in Flying(rx) PROVE u \in Flying(t)
      <3>1. PICK j \in DOMAIN rx : rx[j].kind = "out" /\ u = rx[j].units
        BY <2>2 DEF Flying
      <3>2. j # 1 BY <1>1, <1>6, <3>1
      <3>3. QED BY <1>4, <3>1, <3>2 DEF Flying
    <2>3. QED BY <2>1, <2>2
  <1>7. ASSUME Head(rx).kind = "out"
        PROVE  Flying(t) = {} /\ Flying(rx) = {Head(rx).units}
    <2>1. \A j \in DOMAIN rx : rx[j].kind = "out" <=> j = 1
      BY <1>1, <1>2, <1>7 DEF OneOut
    <2>2. \A i \in DOMAIN t : t[i].kind # "out" BY <1>3, <2>1
    <2>3. QED BY <1>1, <1>2, <2>1, <2>2 DEF Flying
  <1>8. QED BY <1>5, <1>6, <1>7 DEF t

LEMMA SpillFlying ==
  ASSUME NEW rx \in Seq(Entries), rx # <<>>, OneOut(rx), Head(rx).kind # "out"
  PROVE  OneOut(Spilled(rx)) /\ Flying(Spilled(rx)) = Flying(rx)
  <1> DEFINE s == Spilled(rx)
  <1>1. /\ s \in Seq(Entries) /\ Len(s) = Len(rx) + 1 /\ Len(rx) \in Nat /\ Len(rx) > 0
        /\ s[1] = Other /\ s[2] = Other
        /\ \A i \in 3..(Len(rx) + 1) : s[i] = rx[i - 1]
        /\ Head(rx) = rx[1]
    BY RxSpill, RxPop
  <1> HIDE DEF s
  <1>2. DOMAIN s = 1..Len(s) /\ DOMAIN rx = 1..Len(rx) BY <1>1
  <1>3. ASSUME NEW i \in DOMAIN s, s[i].kind = "out"
        PROVE  i - 1 \in DOMAIN rx /\ s[i] = rx[i - 1] /\ i \in Nat
    <2>1. i # 1 /\ i # 2 BY <1>1, <1>3 DEF Other
    <2>2. i \in 3..(Len(rx) + 1) BY <1>1, <1>2, <2>1
    <2>3. QED BY <1>1, <1>2, <2>2
  <1>4. ASSUME NEW j \in DOMAIN rx, j # 1 PROVE j + 1 \in DOMAIN s /\ s[j + 1] = rx[j]
    <2>1. j + 1 \in 3..(Len(rx) + 1) /\ (j + 1) - 1 = j BY ONLY <1>1, <1>2, <1>4
    <2>2. QED BY <1>1, <1>2, <2>1
  <1>5. OneOut(s)
    <2>1. ASSUME NEW i \in DOMAIN s, NEW j \in DOMAIN s, s[i].kind = "out",
                 s[j].kind = "out"
          PROVE  i = j
      <3>1. /\ i - 1 \in DOMAIN rx /\ s[i] = rx[i - 1] /\ i \in Nat
            /\ j - 1 \in DOMAIN rx /\ s[j] = rx[j - 1] /\ j \in Nat
        BY <1>3, <2>1
      <3>2. i - 1 = j - 1 BY <2>1, <3>1 DEF OneOut
      <3>3. QED BY ONLY <3>1, <3>2
    <2>2. QED BY <2>1 DEF OneOut
  <1>6. ASSUME NEW u \in Flying(s) PROVE u \in Flying(rx)
    <2>1. PICK i \in DOMAIN s : s[i].kind = "out" /\ u = s[i].units BY <1>6 DEF Flying
    <2>2. QED BY <1>3, <2>1 DEF Flying
  <1>7. ASSUME NEW u \in Flying(rx) PROVE u \in Flying(s)
    <2>1. PICK j \in DOMAIN rx : rx[j].kind = "out" /\ u = rx[j].units
      BY <1>7 DEF Flying
    <2>2. j # 1 BY <1>1, <2>1
    <2>3. QED BY <1>4, <2>1, <2>2 DEF Flying
  <1>8. QED BY <1>5, <1>6, <1>7 DEF s

LEMMA PushFlying ==
  ASSUME NEW rx \in Seq(Entries), OneOut(rx), NEW e \in Entries
  PROVE  /\ e.kind # "out" =>
              OneOut(Pushed(rx, e)) /\ Flying(Pushed(rx, e)) = Flying(rx)
         /\ e.kind = "out" /\ Flying(rx) = {} =>
              OneOut(Pushed(rx, e)) /\ Flying(Pushed(rx, e)) = {e.units}
  <1> DEFINE p == Pushed(rx, e)
  <1>1. /\ p \in Seq(Entries) /\ Len(p) = Len(rx) + 2 /\ Len(rx) \in Nat
        /\ \A i \in 1..Len(rx) : p[i] = rx[i]
        /\ p[Len(rx) + 1] = e /\ p[Len(rx) + 2] = Other
    BY RxPush
  <1> HIDE DEF p
  <1>2. DOMAIN p = 1..Len(p) /\ DOMAIN rx = 1..Len(rx) BY <1>1
  <1>3. ASSUME NEW i \in DOMAIN p, p[i].kind = "out"
        PROVE  \/ i \in DOMAIN rx /\ p[i] = rx[i]
               \/ i = Len(rx) + 1 /\ p[i] = e
    <2>1. i # Len(rx) + 2 BY <1>1, <1>3 DEF Other
    <2>2. i \in 1..Len(rx) \/ i = Len(rx) + 1 BY ONLY <1>1, <1>2, <1>3, <2>1
    <2>3. QED BY <1>1, <1>2, <2>2
  <1>4. /\ \A i \in DOMAIN rx : i \in DOMAIN p /\ p[i] = rx[i]
        /\ Len(rx) + 1 \in DOMAIN p
    BY <1>1, <1>2
  <1>5. ASSUME e.kind # "out" PROVE OneOut(p) /\ Flying(p) = Flying(rx)
    <2>1. ASSUME NEW i \in DOMAIN p, p[i].kind = "out"
          PROVE  i \in DOMAIN rx /\ p[i] = rx[i]
      BY <1>3, <1>5, <2>1
    <2>2. OneOut(p) BY <2>1 DEF OneOut
    <2>3. ASSUME NEW u \in Flying(p) PROVE u \in Flying(rx)
      <3>1. PICK i \in DOMAIN p : p[i].kind = "out" /\ u = p[i].units BY <2>3 DEF Flying
      <3>2. QED BY <2>1, <3>1 DEF Flying
    <2>4. ASSUME NEW u \in Flying(rx) PROVE u \in Flying(p)
      <3>1. PICK i \in DOMAIN rx : rx[i].kind = "out" /\ u = rx[i].units
        BY <2>4 DEF Flying
      <3>2. QED BY <1>4, <3>1 DEF Flying
    <2>5. QED BY <2>2, <2>3, <2>4
  <1>6. ASSUME e.kind = "out", Flying(rx) = {}
        PROVE  OneOut(p) /\ Flying(p) = {e.units}
    <2>1. \A i \in DOMAIN rx : rx[i].kind # "out" BY <1>6 DEF Flying
    <2>2. ASSUME NEW i \in DOMAIN p PROVE p[i].kind = "out" <=> i = Len(rx) + 1
      BY <1>1, <1>3, <1>6, <2>1
    <2>3. QED BY <1>1, <1>4, <2>2 DEF OneOut, Flying
  <1>7. QED BY <1>5, <1>6 DEF p

LEMMA AgeFlying ==
  ASSUME NEW rx \in Seq(Entries), OneOut(rx)
  PROVE  OneOut(Aged(rx)) /\ Flying(Aged(rx)) = {Old(u) : u \in Flying(rx)}
  <1> DEFINE a == Aged(rx)
  <1>1. /\ a \in Seq(Entries) /\ Len(a) = Len(rx) /\ Len(rx) \in Nat
        /\ \A i \in 1..Len(rx) : a[i].kind = rx[i].kind /\ a[i].units = Old(rx[i].units)
    BY RxAge
  <1> HIDE DEF a
  <1>2. DOMAIN a = 1..Len(rx) /\ DOMAIN rx = 1..Len(rx) BY <1>1
  <1>3. OneOut(a) BY <1>1, <1>2 DEF OneOut
  <1>4. ASSUME NEW v \in Flying(a) PROVE v \in {Old(u) : u \in Flying(rx)}
    <2>1. PICK i \in DOMAIN a : a[i].kind = "out" /\ v = a[i].units BY <1>4 DEF Flying
    <2>2. rx[i].units \in Flying(rx) BY <1>1, <1>2, <2>1 DEF Flying
    <2>3. QED BY <1>1, <1>2, <2>1, <2>2
  <1>5. ASSUME NEW u \in Flying(rx) PROVE Old(u) \in Flying(a)
    <2>1. PICK i \in DOMAIN rx : rx[i].kind = "out" /\ u = rx[i].units
      BY <1>5 DEF Flying
    <2>2. QED BY <1>1, <1>2, <2>1 DEF Flying
  <1>6. QED BY <1>3, <1>4, <1>5 DEF a

-----------------------------------------------------------------------------
(* What the actions do, field by field.                                    *)

SameDownload ==
  /\ usb'.loading = usb.loading /\ usb'.header = usb.header /\ usb'.hsize = usb.hsize
  /\ usb'.size = usb.size /\ tbi' = tbi /\ mem' = mem
SameEp0 ==
  /\ usb'.ep0 = usb.ep0 /\ usb'.descriptor = usb.descriptor /\ usb'.remain = usb.remain
Same0 == core'.tx = core.tx /\ core'.inToken = core.inToken
SameEp == core'.active = core.active /\ core'.armed = core.armed

LEMMA UsbResetEffect ==
  ASSUME Types, UsbReset
  PROVE  /\ pc = "reset" /\ pc' = "enum" /\ UNCHANGED <<sampled, tbi, mem, host>>
         /\ usb' \in Usbs /\ core' \in Cores
         /\ SameDownload /\ usb'.descriptor = usb.descriptor /\ usb'.remain = usb.remain
         /\ core'.sts = core.sts /\ core'.rx = core.rx /\ Same0
         /\ core'.active = core.active
         /\ \/ SameEp0 /\ SameEp /\ core'.addr = core.addr
            \/ "USBRst" \in sampled /\ usb'.ep0 = "INIT" /\ core'.addr = "zero"
  <1>1. /\ pc = "reset" /\ pc' = "enum" /\ UNCHANGED <<sampled, tbi, mem, host>>
    BY DEF UsbReset
  <1>2. usb \in Usbs /\ core \in Cores BY DEF Types
  <1>3. CASE "USBRst" \notin sampled
    BY <1>1, <1>2, <1>3 DEF UsbReset, SameDownload, SameEp0, Same0, SameEp
  <1>4. CASE "USBRst" \in sampled
    <2>1. /\ usb' = [usb EXCEPT !.ep0 = "INIT"]
          /\ core' = [core EXCEPT !.addr = "zero", !.armed = TRUE]
      BY <1>4 DEF UsbReset
    <2>2. usb' \in Usbs BY <1>2, <2>1 DEF Usbs
    <2>3. core' \in Cores BY <1>2, <2>1 DEF Cores
    <2>4. /\ usb'.loading = usb.loading /\ usb'.header = usb.header
          /\ usb'.hsize = usb.hsize /\ usb'.size = usb.size
          /\ usb'.descriptor = usb.descriptor /\ usb'.remain = usb.remain
          /\ usb'.ep0 = "INIT"
      BY <1>2, <2>1 DEF Usbs
    <2>5. /\ core'.sts = core.sts /\ core'.rx = core.rx /\ core'.tx = core.tx
          /\ core'.inToken = core.inToken /\ core'.active = core.active
          /\ core'.addr = "zero"
      BY <1>2, <2>1 DEF Cores
    <2>6. QED BY <1>1, <1>4, <2>2, <2>3, <2>4, <2>5 DEF SameDownload, Same0
  <1>5. QED BY <1>3, <1>4

LEMMA SetInitEffect ==
  ASSUME Types, SetInit
  PROVE  /\ pc = "enum" /\ pc' = "receive" /\ UNCHANGED <<sampled, tbi, mem, host>>
         /\ usb' \in Usbs /\ core' \in Cores
         /\ SameEp0 /\ usb'.loading = usb.loading
         /\ core'.sts = core.sts /\ core'.rx = core.rx /\ core'.addr = core.addr
         /\ core'.tx = core.tx
         /\ \/ "EnumDone" \notin sampled /\ SameDownload /\ SameEp /\ Same0
            \/ /\ "EnumDone" \in sampled
               /\ ~usb'.header /\ usb'.hsize = 0 /\ ~core'.inToken
  <1>1. /\ pc = "enum" /\ pc' = "receive" /\ UNCHANGED <<sampled, tbi, mem, host>>
    BY DEF SetInit
  <1>2. usb \in Usbs /\ core \in Cores /\ host.speed \in {"high", "full"}
    BY DEF Types, Hosts
  <1>3. CASE "EnumDone" \notin sampled
    BY <1>1, <1>2, <1>3 DEF SetInit, SameDownload, SameEp0, Same0, SameEp
  <1>4. CASE "EnumDone" \in sampled
    <2>1. /\ usb' = [usb EXCEPT !.header = FALSE, !.hsize = 0, !.speed = host.speed]
          /\ core' = [core EXCEPT !.inToken = FALSE, !.active = TRUE, !.armed = TRUE]
      BY <1>4 DEF SetInit
    <2>0. 0 \in 0..Header BY DEF Header
    <2>2. usb' \in Usbs BY <1>2, <2>0, <2>1 DEF Usbs
    <2>3. core' \in Cores BY <1>2, <2>1 DEF Cores
    <2>4. /\ usb'.loading = usb.loading /\ ~usb'.header /\ usb'.hsize = 0 /\ SameEp0
      BY <1>2, <2>1 DEF Usbs, SameEp0
    <2>5. /\ core'.sts = core.sts /\ core'.rx = core.rx /\ core'.addr = core.addr
          /\ core'.tx = core.tx /\ ~core'.inToken
      BY <1>2, <2>1 DEF Cores
    <2>6. QED BY <1>1, <1>4, <2>2, <2>3, <2>4, <2>5
  <1>5. QED BY <1>3, <1>4

\* An entry of the receive FIFO is taken.
SameUsb == usb' = usb /\ tbi' = tbi /\ mem' = mem

ReadsOther ==
  /\ Head(core.rx).kind = "other" /\ SameUsb
  /\ core'.rx = Tail(core.rx) /\ core'.addr = core.addr /\ SameEp

LeavesSetup ==
  /\ Head(core.rx).kind = "setup" /\ usb.ep0 # "INIT" /\ SameUsb
  /\ core'.rx = Spilled(core.rx) /\ core'.addr = core.addr /\ SameEp

ReadsSetup(request) ==
  /\ Head(core.rx).kind = "setup" /\ usb.ep0 = "INIT" /\ SameDownload
  /\ core'.rx = Tail(core.rx) /\ SameEp
  /\ core'.addr = IF request = "address" THEN "new" ELSE core.addr
  /\ usb' \in Usbs /\ (usb'.ep0 # "INIT" => usb'.remain > 0)
  /\ \/ request \in Descriptors /\ usb'.descriptor = request
     \/ request \notin Descriptors /\ SameEp0

ReadsPacket(units) ==
  /\ Head(core.rx).kind = "out"
  /\ core'.rx = Tail(core.rx) /\ core'.addr = core.addr
  /\ IF usb.header THEN BulkOutPayload(units) ELSE BulkOutHeader(units)

Receives ==
  LET head == Head(core.rx) IN
  /\ core.rx # <<>> /\ head \in Entries
  /\ core' \in Cores /\ core'.sts = core.sts /\ Same0
  /\ ReadsOther \/ LeavesSetup \/ ReadsSetup(head.request) \/ ReadsPacket(head.units)

LEMMA ReceiveEffect ==
  ASSUME Types, PacketInv, PktReceive
  PROVE  /\ pc = "receive" /\ pc' = "transfer" /\ UNCHANGED <<sampled, host>>
         /\ (SameUsb /\ core' = core) \/ Receives
  <1> DEFINE head == Head(core.rx)
  <1>1. pc = "receive" /\ pc' = "transfer" /\ UNCHANGED <<sampled, host>>
    BY DEF PktReceive
  <1>2. usb \in Usbs /\ core \in Cores /\ core.rx \in Seq(Entries)
    BY DEF Types, Cores
  <1>3. CASE "RXFLVL" \notin sampled
    BY <1>1, <1>3 DEF PktReceive, SameUsb
  <1>4. CASE "RXFLVL" \in sampled
    <2>1. core.rx # <<>> BY <1>1, <1>4 DEF PacketInv
    <2>2. head \in Entries /\ Tail(core.rx) \in Seq(Entries)
          /\ Spilled(core.rx) \in Seq(Entries)
      BY <1>2, <2>1, RxPop, RxSpill
    <2>3. CASE head.kind = "other"
      <3>1. core' = [core EXCEPT !.rx = Tail(@)] /\ UNCHANGED <<usb, tbi, mem>>
        BY <1>4, <2>3, Zenon DEF PktReceive
      <3>2. core' \in Cores BY <1>2, <2>2, <3>1 DEF Cores
      <3>3. /\ core'.rx = Tail(core.rx) /\ core'.addr = core.addr /\ SameEp /\ Same0
            /\ core'.sts = core.sts
        BY <1>2, <3>1 DEF Cores, SameEp, Same0
      <3>4. QED
        BY <1>1, <2>1, <2>2, <2>3, <3>1, <3>2, <3>3
        DEF Receives, ReadsOther, SameUsb
    <2>4. CASE head.kind = "setup"
      <3>1. Ep0(head.request) BY <1>4, <2>4, Zenon DEF PktReceive
      <3>2. CASE usb.ep0 # "INIT"
        <4>1. core' = [core EXCEPT !.rx = Spilled(core.rx)] /\ UNCHANGED <<usb, tbi, mem>>
          BY <3>1, <3>2, Zenon DEF Ep0, Spilled
        <4>2. core' \in Cores BY <1>2, <2>2, <4>1 DEF Cores
        <4>3. /\ core'.rx = Spilled(core.rx) /\ core'.addr = core.addr /\ SameEp
              /\ Same0 /\ core'.sts = core.sts
          BY <1>2, <4>1 DEF Cores, SameEp, Same0
        <4>4. QED
          BY <1>1, <2>1, <2>2, <2>4, <3>2, <4>1, <4>2, <4>3
          DEF Receives, LeavesSetup, SameUsb
      <3>3. CASE usb.ep0 = "INIT"
        <4> DEFINE addr == IF head.request = "address" THEN "new" ELSE core.addr
        <4>1. core' = [core EXCEPT !.rx = Tail(@), !.addr = addr] /\ UNCHANGED <<tbi, mem>>
          BY <3>1, <3>3, Zenon DEF Ep0
        <4>2. addr \in {"zero", "new"} BY <1>2 DEF Cores
        <4>3. usb' = IF head.request \in Descriptors
                       THEN [usb EXCEPT !.ep0 = "GET_DSCPT", !.descriptor = head.request,
                                        !.remain = DescriptorPackets(usb.speed)]
                       ELSE usb
          BY <3>1, <3>3, Zenon DEF Ep0
        <4> HIDE DEF addr
        <4>4. core' \in Cores BY <1>2, <2>2, <4>1, <4>2 DEF Cores
        <4>5. /\ core'.rx = Tail(core.rx) /\ core'.addr = addr /\ SameEp
              /\ Same0 /\ core'.sts = core.sts
          BY <1>2, <4>1 DEF Cores, SameEp, Same0
        <4>6. usb'.loading = usb.loading /\ usb'.header = usb.header
              /\ usb'.hsize = usb.hsize /\ usb'.size = usb.size
          BY <1>2, <4>3 DEF Usbs
        <4>7. \/ head.request \in Descriptors /\ usb'.descriptor = head.request
              \/ head.request \notin Descriptors /\ SameEp0
          BY <1>2, <4>3 DEF Usbs, SameEp0
        <4>8. usb' \in Usbs /\ (usb'.ep0 # "INIT" => usb'.remain > 0)
          <5>1. DescriptorPackets(usb.speed) \in 0..2 /\ DescriptorPackets(usb.speed) > 0
            BY DEF DescriptorPackets
          <5>2. CASE head.request \in Descriptors BY <1>2, <4>3, <5>1, <5>2 DEF Usbs
          <5>3. CASE head.request \notin Descriptors BY <1>2, <3>3, <4>3, <5>3
          <5>4. QED BY <5>2, <5>3
        <4>9. QED
          BY <1>1, <2>1, <2>2, <2>4, <3>3, <4>1, <4>4, <4>5, <4>6, <4>7, <4>8
          DEF Receives, ReadsSetup, SameDownload, addr
      <3>4. QED BY <3>2, <3>3
    <2>5. CASE head.kind = "out"
      <3>1. BulkOut(head.units) BY <1>4, <2>5, Zenon DEF PktReceive
      <3>2. core' = [core EXCEPT !.rx = Tail(@), !.active = TRUE, !.armed = TRUE]
        BY <3>1 DEF BulkOut
      <3>3. core' \in Cores BY <1>2, <2>2, <3>2 DEF Cores
      <3>4. /\ core'.rx = Tail(core.rx) /\ core'.addr = core.addr
            /\ core'.tx = core.tx /\ core'.inToken = core.inToken /\ core'.sts = core.sts
        BY <1>2, <3>2 DEF Cores
      <3>5. IF usb.header THEN BulkOutPayload(head.units) ELSE BulkOutHeader(head.units)
        BY <3>1 DEF BulkOut
      <3>6. QED
        BY <1>1, <2>1, <2>2, <2>5, <3>3, <3>4, <3>5 DEF Receives, ReadsPacket, Same0
    <2>6. QED BY <2>2, <2>3, <2>4, <2>5 DEF Entries
  <1>5. QED BY <1>3, <1>4

LEMMA TransferEffect ==
  ASSUME Types, Transfer
  PROVE  /\ pc = "transfer" /\ pc' = "clear" /\ UNCHANGED <<sampled, tbi, mem, host>>
         /\ usb' \in Usbs /\ core' \in Cores
         /\ SameDownload /\ usb'.descriptor = usb.descriptor
         /\ usb'.ep0 # "INIT" => usb'.remain > 0
         /\ core'.sts = core.sts /\ core'.rx = core.rx /\ core'.addr = core.addr /\ SameEp
         /\ \/ SameEp0 /\ Same0
            \/ /\ core.inToken /\ ~core'.inToken
               /\ usb.ep0 = "INIT" => SameEp0 /\ core'.tx = Zero
  <1>1. pc = "transfer" /\ pc' = "clear" /\ UNCHANGED <<sampled, tbi, mem, host>>
    BY DEF Transfer
  <1>2. /\ usb \in Usbs /\ core \in Cores
        /\ usb.ep0 # "INIT" => usb.remain > 0
    BY DEF Types
  <1>3. CASE UNCHANGED <<usb, core>>
    BY <1>1, <1>2, <1>3 DEF SameDownload, SameEp, SameEp0, Same0
  <1>4. CASE core.inToken /\ usb.ep0 = "INIT" /\ TransferEp0
    <2>1. usb' = usb /\ core' = [core EXCEPT !.tx = Zero, !.inToken = FALSE]
      BY <1>4, Zenon DEF TransferEp0
    <2>2. core' \in Cores BY <1>2, <2>1 DEF Cores, Zero
    <2>3. /\ core'.sts = core.sts /\ core'.rx = core.rx /\ core'.addr = core.addr
          /\ SameEp /\ core'.tx = Zero /\ ~core'.inToken
      BY <1>2, <2>1 DEF Cores, SameEp
    <2>4. QED BY <1>1, <1>2, <1>4, <2>1, <2>2, <2>3 DEF SameDownload, SameEp0
  <1>5. CASE core.inToken /\ usb.ep0 # "INIT" /\ TransferEp0
    <2> DEFINE last == usb.remain = 1
    <2> DEFINE ep0 == IF usb.remain = 1 THEN "INIT" ELSE usb.ep0
    <2>1. /\ usb' = [usb EXCEPT !.remain = @ - 1, !.ep0 = ep0]
          /\ core' = [core EXCEPT !.tx = [kind |-> usb.descriptor, last |-> last],
                                  !.inToken = FALSE]
      BY <1>5, Zenon DEF TransferEp0
    <2>2. /\ last \in BOOLEAN
          /\ usb.descriptor \in {"device", "config"}
          /\ ep0 \in {"INIT", "GET_DSCPT"}
          /\ usb.remain \in 1..2
          /\ usb.remain - 1 \in 0..2
          /\ ep0 # "INIT" => usb.remain - 1 > 0
      BY <1>2, <1>5 DEF Usbs, Descriptors
    <2> HIDE DEF last, ep0
    <2>3. [kind |-> usb.descriptor, last |-> last]
             \in [kind : {"nothing", "zero", "device", "config"}, last : BOOLEAN]
      BY <2>2
    <2>4. core' \in Cores BY <1>2, <2>1, <2>3 DEF Cores
    <2>5. /\ core'.sts = core.sts /\ core'.rx = core.rx /\ core'.addr = core.addr
          /\ SameEp /\ ~core'.inToken
      BY <1>2, <2>1 DEF Cores, SameEp
    <2>6. usb' \in Usbs BY <1>2, <2>1, <2>2 DEF Usbs
    <2>7. /\ usb'.loading = usb.loading /\ usb'.header = usb.header
          /\ usb'.hsize = usb.hsize /\ usb'.size = usb.size
          /\ usb'.descriptor = usb.descriptor
          /\ usb'.ep0 = ep0 /\ usb'.remain = usb.remain - 1
      BY <1>2, <2>1 DEF Usbs
    <2>8. QED BY <1>1, <1>5, <2>2, <2>4, <2>5, <2>6, <2>7 DEF SameDownload
  <1>6. QED BY <1>3, <1>4, <1>5 DEF Transfer

\* What of the core and the host an action leaves.
SameCore == core'.sts = core.sts /\ core'.addr = core.addr /\ SameEp
SameHost ==
  /\ host'.speed = host.speed /\ host'.image = host.image /\ host'.pos = host.pos
SameDriver == UNCHANGED <<pc, sampled, usb, tbi, mem>>

LEMMA ClearEffect ==
  ASSUME Types, Clear
  PROVE  /\ pc = "clear" /\ pc' = "poll" /\ UNCHANGED <<sampled, usb, tbi, mem, host>>
         /\ core' \in Cores /\ core'.sts = {} /\ core'.rx = core.rx /\ Same0 /\ SameEp
         /\ core'.addr = core.addr
  <1>1. core \in Cores BY DEF Types
  <1>2. /\ pc = "clear" /\ pc' = "poll" /\ UNCHANGED <<sampled, usb, tbi, mem, host>>
        /\ core' = [core EXCEPT !.sts = {}]
    BY DEF Clear
  <1>3. core' \in Cores BY <1>1, <1>2 DEF Cores
  <1>4. QED BY <1>1, <1>2, <1>3 DEF Cores, Same0, SameEp

LEMMA OldType ==
  /\ \A s \in Seq(Units) : /\ Old(s) \in Seq(Units) /\ Len(Old(s)) = Len(s)
                           /\ \A i \in 1..Len(s) : Old(s)[i] = [new |-> FALSE, off |-> s[i].off]
  /\ \A h \in [1..Header -> Units] :
       /\ Old(h) \in [1..Header -> Units]
       /\ \A i \in 1..Header : Old(h)[i] = [new |-> FALSE, off |-> h[i].off]
  <1>1. ASSUME NEW x \in Units
        PROVE  /\ [x EXCEPT !.new = FALSE] \in Units
               /\ [x EXCEPT !.new = FALSE] = [new |-> FALSE, off |-> x.off]
    <2>1. [x EXCEPT !.new = FALSE] \in Units BY DEF Units
    <2> DEFINE y == [x EXCEPT !.new = FALSE]
    <2>2. y.new = FALSE BY Zenon DEF Units
    <2>3. y.off = x.off BY DEF Units
    <2>4. y \in Units BY <2>1
    <2> HIDE DEF y
    <2>7. y = [new |-> y.new, off |-> y.off] BY <2>4 DEF Units
    <2>5. y = [new |-> FALSE, off |-> x.off] BY <2>2, <2>3, <2>7, Zenon
    <2>6. QED BY <2>1, <2>5 DEF y
  <1>2. ASSUME NEW s \in Seq(Units)
        PROVE  /\ Old(s) \in Seq(Units) /\ Len(Old(s)) = Len(s)
               /\ \A i \in 1..Len(s) : Old(s)[i] = [new |-> FALSE, off |-> s[i].off]
    <2>1. DOMAIN s = 1..Len(s) /\ Len(s) \in Nat OBVIOUS
    <2>2. \A i \in 1..Len(s) : s[i] \in Units BY <2>1
    <2>3. Old(s) = [i \in 1..Len(s) |-> [s[i] EXCEPT !.new = FALSE]] BY <2>1 DEF Old
    <2> DEFINE f(i) == [s[i] EXCEPT !.new = FALSE]
    <2>4. \A i \in 1..Len(s) : f(i) \in Units /\ f(i) = [new |-> FALSE, off |-> s[i].off]
      BY <1>1, <2>2
    <2>5. Old(s) = [i \in 1..Len(s) |-> f(i)] BY <2>3
    <2> HIDE DEF f
    <2>6. Old(s) \in Seq(Units) /\ Len(Old(s)) = Len(s)
          /\ \A i \in 1..Len(s) : Old(s)[i] = f(i)
      BY <2>1, <2>4, <2>5
    <2>7. QED BY <2>4, <2>6
  <1>3. ASSUME NEW h \in [1..Header -> Units]
        PROVE  /\ Old(h) \in [1..Header -> Units]
               /\ \A i \in 1..Header : Old(h)[i] = [new |-> FALSE, off |-> h[i].off]
    BY <1>1 DEF Old
  <1>4. QED BY <1>2, <1>3

LEMMA ResetBusEffect ==
  ASSUME Types, ResetBus
  PROVE  /\ pc # "returned" /\ UNCHANGED <<pc, sampled, usb>>
         /\ tbi' = Old(tbi) /\ mem' = Old(mem)
         /\ core' \in Cores /\ host' \in Hosts
         /\ core'.sts = core.sts \cup {"USBRst"} /\ ~core'.active
         /\ core'.rx = Aged(core.rx) /\ core'.addr = core.addr
         /\ core'.inToken = core.inToken /\ (core'.tx = core.tx \/ core'.tx = Nothing)
         /\ host'.step = "reset" /\ ~host'.sent /\ host'.pos = 0 /\ host'.speed = host.speed
  <1>1. /\ core \in Cores /\ host \in Hosts /\ core.rx \in Seq(Entries)
    BY DEF Types, Cores
  <1>2. /\ pc # "returned" /\ UNCHANGED <<pc, sampled, usb>>
        /\ tbi' = Old(tbi) /\ mem' = Old(mem)
        /\ host' = [host EXCEPT !.step = "reset", !.sent = FALSE, !.pos = 0, !.bad = FALSE]
    BY DEF ResetBus
  <1>3. PICK tx \in {core.tx, Nothing} :
          core' = [core EXCEPT !.sts = @ \cup {"USBRst"}, !.active = FALSE, !.tx = tx,
                     !.rx = Aged(@)]
    BY DEF ResetBus
  <1>4. core' = [core EXCEPT !.sts = core.sts \cup {"USBRst"}, !.active = FALSE,
                             !.tx = tx, !.rx = Aged(core.rx)]
    BY <1>3, Zenon
  <1>5. Aged(core.rx) \in Seq(Entries) BY <1>1, RxAge
  <1>6. tx \in [kind : {"nothing", "zero", "device", "config"}, last : BOOLEAN]
    <2>1. core.tx \in [kind : {"nothing", "zero", "device", "config"}, last : BOOLEAN]
      BY <1>1 DEF Cores
    <2>2. Nothing \in [kind : {"nothing", "zero", "device", "config"}, last : BOOLEAN]
      BY DEF Nothing
    <2>3. QED BY <1>3, <2>1, <2>2
  <1>7. core' \in Cores BY <1>1, <1>4, <1>5, <1>6 DEF Cores
  <1>8. /\ core'.sts = core.sts \cup {"USBRst"} /\ ~core'.active
        /\ core'.rx = Aged(core.rx) /\ core'.addr = core.addr
        /\ core'.inToken = core.inToken /\ core'.tx = tx
    BY <1>1, <1>4 DEF Cores
  <1>9. 0 \in 0..All BY UsbAssumption DEF All, Header
  <1>10. host' \in Hosts BY <1>1, <1>2, <1>9 DEF Hosts, Steps
  <1>11. /\ host'.step = "reset" /\ ~host'.sent /\ host'.pos = 0
         /\ host'.speed = host.speed
    BY <1>1, <1>2 DEF Hosts
  <1>12. QED BY <1>2, <1>3, <1>7, <1>8, <1>10, <1>11

LEMMA EnumDoneEffect ==
  ASSUME Types, EnumDone
  PROVE  /\ pc = "poll" /\ host.step = "reset" /\ SameDriver
         /\ core.sts = {} /\ core.rx = <<>> /\ ~core.inToken
         /\ core' \in Cores /\ host' \in Hosts
         /\ core'.sts = {"EnumDone"} /\ core'.rx = core.rx /\ Same0 /\ SameEp
         /\ core'.addr = core.addr
         /\ host'.step = "device" /\ host'.sent = host.sent /\ host'.pos = host.pos
         /\ host'.speed = host.speed
  <1>1. core \in Cores /\ host \in Hosts BY DEF Types
  <1>2. /\ pc = "poll" /\ host.step = "reset" /\ SameDriver /\ Pending = {}
        /\ core' = [core EXCEPT !.sts = @ \cup {"EnumDone"}]
    BY DEF EnumDone, Idle, SameDriver
  <1>3. PICK image \in BOOLEAN : host' = [host EXCEPT !.step = "device", !.image = image]
    BY DEF EnumDone
  <1>4. core.sts = {} /\ core.rx = <<>> /\ ~core.inToken BY <1>2 DEF Pending
  <1>5. core' \in Cores BY <1>1, <1>2 DEF Cores
  <1>6. /\ core'.sts = {"EnumDone"} /\ core'.rx = core.rx /\ Same0 /\ SameEp
        /\ core'.addr = core.addr
    BY <1>1, <1>2, <1>4 DEF Cores, Same0, SameEp
  <1>7. host' \in Hosts BY <1>1, <1>3 DEF Hosts, Steps, Requests
  <1>8. /\ host'.step = "device" /\ host'.sent = host.sent /\ host'.pos = host.pos
        /\ host'.speed = host.speed
    BY <1>1, <1>3 DEF Hosts
  <1>9. QED BY <1>2, <1>4, <1>5, <1>6, <1>7, <1>8

LEMMA HostSetupEffect ==
  ASSUME Types, HostSetup
  PROVE  /\ host.step \in Requests /\ ~host.sent /\ Reached /\ SameDriver
         /\ core' \in Cores /\ host' \in Hosts
         /\ core'.rx = Pushed(core.rx, Setup(host.step)) /\ SameCore /\ Same0
         /\ host'.step = host.step /\ host'.sent /\ SameHost
  <1>1. core \in Cores /\ host \in Hosts /\ core.rx \in Seq(Entries)
    BY DEF Types, Cores
  <1>2. /\ host.step \in Requests /\ ~host.sent /\ Reached /\ SameDriver
        /\ host' = [host EXCEPT !.sent = TRUE]
    BY DEF HostSetup, SameDriver
  <1>3. core' = [core EXCEPT !.rx = Pushed(core.rx, Setup(host.step))]
    BY Zenon DEF HostSetup, Pushed
  <1>4. Setup(host.step) \in Entries BY <1>2 DEF Setup, Entries
  <1>5. Pushed(core.rx, Setup(host.step)) \in Seq(Entries) BY <1>1, <1>4, RxPush
  <1>6. core' \in Cores BY <1>1, <1>3, <1>5 DEF Cores
  <1>7. /\ core'.rx = Pushed(core.rx, Setup(host.step))
        /\ core'.sts = core.sts /\ core'.addr = core.addr
        /\ core'.active = core.active /\ core'.armed = core.armed
        /\ core'.tx = core.tx /\ core'.inToken = core.inToken
    BY <1>1, <1>3 DEF Cores
  <1>8. host' \in Hosts BY <1>1, <1>2 DEF Hosts
  <1>9. /\ host'.step = host.step /\ host'.sent /\ host'.speed = host.speed
        /\ host'.image = host.image /\ host'.pos = host.pos
    BY <1>1, <1>2 DEF Hosts
  <1>10. QED BY <1>2, <1>6, <1>7, <1>8, <1>9 DEF SameCore, SameEp, Same0, SameHost

\* The host asks for data, is given none that will do, or goes on.
Asks0 == /\ core.tx = Nothing /\ core'.tx = Nothing /\ core'.rx = core.rx
         /\ host' = host
Takes0 == /\ core.tx # Nothing /\ core'.tx = Nothing /\ core'.inToken = core.inToken
          /\ core'.rx = core.rx /\ host'.step = host.step /\ host'.sent = host.sent
Answered0 ==
  /\ core.tx # Nothing /\ Answer(core.tx)
  /\ core'.tx = Nothing /\ core'.inToken = core.inToken
  /\ core'.rx = IF host.step \in Descriptors THEN Pushed(core.rx, Other) ELSE core.rx
  /\ host'.step = After[host.step] /\ ~host'.sent

LEMMA HostInEffect ==
  ASSUME Types, HostIn
  PROVE  /\ host.step \in Requests /\ host.sent /\ Reached /\ SameDriver
         /\ core' \in Cores /\ host' \in Hosts /\ SameCore /\ SameHost
         /\ Asks0 \/ Takes0 \/ Answered0
  <1>1. core \in Cores /\ host \in Hosts /\ core.rx \in Seq(Entries)
    BY DEF Types, Cores
  <1>2. /\ host.step \in Requests /\ host.sent /\ Reached /\ SameDriver
    BY DEF HostIn, SameDriver
  <1>3. Nothing \in [kind : {"nothing", "zero", "device", "config"}, last : BOOLEAN]
    BY DEF Nothing
  <1>4. CASE core.tx = Nothing
    <2>1. core' = [core EXCEPT !.inToken = TRUE] /\ host' = host
      BY <1>4, Zenon DEF HostIn
    <2>2. core' \in Cores BY <1>1, <2>1 DEF Cores
    <2>3. SameCore /\ core'.tx = Nothing /\ core'.rx = core.rx
      BY <1>1, <1>4, <2>1 DEF Cores, SameCore, SameEp
    <2>4. QED BY <1>1, <1>2, <1>4, <2>1, <2>2, <2>3 DEF SameHost, Asks0
  <1>5. CASE core.tx # Nothing /\ core' = [core EXCEPT !.tx = Nothing]
             /\ (host' = host \/ host' = [host EXCEPT !.bad = TRUE])
    <2>1. core' \in Cores BY <1>1, <1>3, <1>5 DEF Cores
    <2>2. /\ SameCore /\ core'.tx = Nothing /\ core'.inToken = core.inToken
          /\ core'.rx = core.rx
      BY <1>1, <1>5 DEF Cores, SameCore, SameEp
    <2>3. /\ host' \in Hosts /\ SameHost /\ host'.step = host.step /\ host'.sent = host.sent
      <3>1. CASE host' = host BY <1>1, <3>1 DEF SameHost
      <3>2. CASE host' = [host EXCEPT !.bad = TRUE] BY <1>1, <3>2 DEF SameHost, Hosts
      <3>3. QED BY <1>5, <3>1, <3>2
    <2>4. QED BY <1>2, <1>5, <2>1, <2>2, <2>3 DEF Takes0
  <1>6. CASE /\ core.tx # Nothing /\ Answer(core.tx)
             /\ core' = [core EXCEPT !.tx = Nothing,
                          !.rx = IF host.step \in Descriptors THEN @ \o <<Other, Other>> ELSE @]
             /\ host' = [host EXCEPT !.step = After[@], !.sent = FALSE]
    <2> DEFINE rx == IF host.step \in Descriptors THEN Pushed(core.rx, Other) ELSE core.rx
    <2>1. core' = [core EXCEPT !.tx = Nothing, !.rx = rx]
      BY <1>6, Zenon DEF Pushed
    <2>2. rx \in Seq(Entries) BY <1>1, RxPush, OtherType
    <2> HIDE DEF rx
    <2>3. core' \in Cores BY <1>1, <1>3, <2>1, <2>2 DEF Cores
    <2>4. /\ SameCore /\ core'.tx = Nothing /\ core'.inToken = core.inToken /\ core'.rx = rx
      BY <1>1, <2>1 DEF Cores, SameCore, SameEp
    <2>5. After[host.step] \in Steps BY <1>2 DEF After, Steps, Requests
    <2>6. host' \in Hosts BY <1>1, <1>6, <2>5 DEF Hosts
    <2>7. SameHost /\ host'.step = After[host.step] /\ ~host'.sent
      BY <1>1, <1>6 DEF Hosts, SameHost
    <2>8. QED BY <1>2, <1>6, <2>3, <2>4, <2>6, <2>7 DEF Answered0, rx
  <1>7. QED BY <1>4, <1>5, <1>6, Zenon DEF HostIn

\* The next packet.
Sent == IF host.pos + Packet(host.speed) > All THEN All - host.pos ELSE Packet(host.speed)
Payload == [i \in 1..Sent |-> Unit(TRUE, host.image, host.pos + i - 1)]

LEMMA HostSendEffect ==
  ASSUME Types, HostSend, host.pos < All
  PROVE  /\ host.step = "send" /\ core.active /\ core.armed /\ SameDriver
         /\ Sent \in 1..2 /\ host.pos + Sent <= All
         /\ host.speed = "high" => Sent = 2 \/ host.pos + Sent = All
         /\ host.speed # "high" => Sent = 1
         /\ Payload \in Seq(Units) /\ Len(Payload) = Sent
         /\ core' \in Cores /\ host' \in Hosts
         /\ core'.rx = Pushed(core.rx, Out(Payload)) /\ ~core'.armed
         /\ core'.sts = core.sts /\ core'.addr = core.addr /\ Same0
         /\ core'.active = core.active
         /\ host'.step = IF host.pos + Sent = All THEN "sent" ELSE "send"
         /\ host'.pos = host.pos + Sent /\ host'.sent = host.sent
         /\ host'.speed = host.speed /\ host'.image = host.image
  <1>1. core \in Cores /\ host \in Hosts /\ core.rx \in Seq(Entries)
    BY DEF Types, Cores
  <1>2. host.step = "send" /\ core.active /\ core.armed /\ SameDriver
    BY DEF HostSend, SameDriver
  <1>3. /\ All \in Nat /\ host.pos \in 0..All /\ host.image \in BOOLEAN
        /\ host.speed \in {"high", "full"}
    BY <1>1, UsbAssumption DEF Hosts, All, Header
  <1>4. /\ Sent \in 1..2 /\ host.pos + Sent <= All
        /\ host.speed = "high" => Sent = 2 \/ host.pos + Sent = All
        /\ host.speed # "high" => Sent = 1
    BY <1>3 DEF Sent, Packet
  <1>5. ASSUME NEW i \in 1..Sent
        PROVE  Unit(TRUE, host.image, host.pos + i - 1) \in Units
    <2>1. host.pos + i - 1 \in Nat /\ Stray \in Nat
      BY <1>3, <1>4, UsbAssumption DEF Stray, Header
    <2>2. QED BY <2>1 DEF Unit, Units
  <1>6. Payload \in Seq(Units) /\ Len(Payload) = Sent
    <2> DEFINE f(i) == Unit(TRUE, host.image, host.pos + i - 1)
    <2>1. \A i \in 1..Sent : f(i) \in Units BY <1>5
    <2>2. Payload = [i \in 1..Sent |-> f(i)] BY DEF Payload
    <2>3. Sent \in Nat BY <1>4
    <2> HIDE DEF f
    <2>4. QED BY <2>1, <2>2, <2>3
  <1>7. Out(Payload) \in Entries BY <1>6 DEF Out, Entries, Requests
  <1>8. /\ core' = [core EXCEPT !.armed = FALSE, !.rx = Pushed(core.rx, Out(Payload))]
        /\ host' = [host EXCEPT !.pos = @ + Sent,
                                !.step = IF host.pos + Sent = All THEN "sent" ELSE @]
    BY Zenon DEF HostSend, Pushed, Payload, Sent, All, Unit
  <1>9. Pushed(core.rx, Out(Payload)) \in Seq(Entries) BY <1>1, <1>7, RxPush
  <1>10. core' \in Cores BY <1>1, <1>8, <1>9 DEF Cores
  <1>11. /\ core'.rx = Pushed(core.rx, Out(Payload)) /\ ~core'.armed
         /\ core'.sts = core.sts /\ core'.addr = core.addr
         /\ core'.tx = core.tx /\ core'.inToken = core.inToken
         /\ core'.active = core.active
    BY <1>1, <1>8 DEF Cores
  <1> DEFINE step == IF host.pos + Sent = All THEN "sent" ELSE host.step
  <1>12. host' = [host EXCEPT !.pos = @ + Sent, !.step = step] BY <1>8
  <1>13. step \in Steps /\ host.pos + Sent \in 0..All
    BY <1>1, <1>3, <1>4 DEF Steps, Hosts
  <1>14. step = IF host.pos + Sent = All THEN "sent" ELSE "send" BY <1>2
  <1> HIDE DEF step
  <1>15. host' \in Hosts BY <1>1, <1>12, <1>13 DEF Hosts
  <1>16. /\ host'.step = step /\ host'.pos = host.pos + Sent /\ host'.sent = host.sent
         /\ host'.speed = host.speed /\ host'.image = host.image
    BY <1>1, <1>12 DEF Hosts
  <1>17. QED BY <1>2, <1>4, <1>6, <1>10, <1>11, <1>14, <1>15, <1>16 DEF Same0

\* A packet of the header, or of the payload.
LEMMA HeaderEffect ==
  ASSUME Types, NEW u \in Seq(Units), BulkOutHeader(u), ~usb.header,
         Len(u) \in 1..2, usb.hsize + Len(u) <= Header
  PROVE  /\ usb' \in Usbs /\ tbi' \in [1..Header -> Units] /\ mem' \in Seq(Units)
         /\ SameEp0 /\ usb'.loading = usb.loading
         /\ \A i \in 1..usb.hsize : tbi'[i] = tbi[i]
         /\ \A i \in (usb.hsize + 1)..(usb.hsize + Len(u)) : tbi'[i] = u[i - usb.hsize]
         /\ \/ /\ usb.hsize + Len(u) < Header /\ mem' = mem
               /\ ~usb'.header /\ usb'.hsize = usb.hsize + Len(u)
            \/ /\ usb.hsize + Len(u) = Header /\ ~Signed(tbi') /\ mem' = mem
               /\ ~usb'.header /\ usb'.hsize = 0
            \/ /\ usb.hsize + Len(u) = Header /\ Signed(tbi') /\ mem' = <<>>
               /\ usb'.header /\ usb'.hsize = Header /\ usb'.size = LoadSize
  <1> DEFINE n == usb.hsize + Len(u)
  <1> DEFINE put(i) == IF i \in (usb.hsize + 1)..n THEN u[i - usb.hsize] ELSE tbi[i]
  <1>1. /\ usb \in Usbs /\ tbi \in [1..Header -> Units] /\ mem \in Seq(Units)
        /\ usb.hsize \in 0..Header /\ LoadSize \in Nat
    BY UsbAssumption DEF Types, Usbs
  <1>2. n \in 1..Header /\ n \in Nat /\ usb.hsize \in Nat
    <2>1. ASSUME NEW m \in 0..2, NEW k \in 1..2, m + k <= 2
          PROVE  m + k \in 1..2 /\ m + k \in Nat /\ m \in Nat
      BY ONLY <2>1
    <2>2. QED BY <1>1, <2>1 DEF Header
  <1>3. tbi' = [i \in 1..Header |-> put(i)] BY DEF BulkOutHeader
  <1>4. /\ n >= Header /\ Signed(tbi') =>
             mem' = <<>> /\ usb' = [usb EXCEPT !.hsize = n, !.header = TRUE, !.size = LoadSize]
        /\ ~(n >= Header /\ Signed(tbi')) =>
             mem' = mem /\ usb' = [usb EXCEPT !.hsize = IF n >= Header THEN 0 ELSE n]
    BY DEF BulkOutHeader
  <1>5. \A i \in 1..Header : put(i) \in Units
    <2>1. ASSUME NEW i \in (usb.hsize + 1)..n PROVE u[i - usb.hsize] \in Units
      <3>1. i - usb.hsize \in 1..Len(u) BY ONLY <1>1, <2>1, Len(u) \in 1..2 DEF Header
      <3>2. QED BY <3>1
    <2>2. QED BY <1>1, <2>1
  <1>6. /\ \A i \in 1..usb.hsize : put(i) = tbi[i] /\ i \in 1..Header
        /\ \A i \in (usb.hsize + 1)..n : put(i) = u[i - usb.hsize] /\ i \in 1..Header
    <2>1. ASSUME NEW i \in 1..usb.hsize
          PROVE  i \in 1..Header /\ i \notin (usb.hsize + 1)..n
      BY ONLY <1>1, <1>2, <2>1 DEF Header
    <2>2. ASSUME NEW i \in (usb.hsize + 1)..n PROVE i \in 1..Header
      BY ONLY <1>1, <1>2, <2>2 DEF Header
    <2>3. QED BY <2>1, <2>2
  <1> HIDE DEF put
  <1>7. tbi' \in [1..Header -> Units] BY <1>3, <1>5
  <1>8. /\ \A i \in 1..usb.hsize : tbi'[i] = tbi[i]
        /\ \A i \in (usb.hsize + 1)..n : tbi'[i] = u[i - usb.hsize]
    BY <1>3, <1>6
  <1>9. 0 \in 0..Header /\ Header \in 0..Header /\ n \in 0..Header /\ LoadSize \in 0..LoadSize
    BY <1>1, <1>2 DEF Header
  <1> HIDE DEF n
  <1>10. CASE n >= Header /\ Signed(tbi')
    <2>1. usb' = [usb EXCEPT !.hsize = n, !.header = TRUE, !.size = LoadSize] /\ mem' = <<>>
      BY <1>4, <1>10
    <2>2. usb' \in Usbs BY <1>1, <1>9, <2>1 DEF Usbs
    <2>3. /\ usb'.loading = usb.loading /\ usb'.header /\ usb'.hsize = n
          /\ usb'.size = LoadSize /\ SameEp0
      BY <1>1, <2>1 DEF Usbs, SameEp0
    <2>4. n = Header BY <1>2, <1>10 DEF Header
    <2>5. mem' \in Seq(Units) BY <2>1
    <2>6. QED BY <1>7, <1>8, <1>10, <2>1, <2>2, <2>3, <2>4, <2>5 DEF n
  <1>11. CASE n >= Header /\ ~Signed(tbi')
    <2>1. usb' = [usb EXCEPT !.hsize = 0] /\ mem' = mem BY <1>4, <1>11
    <2>2. usb' \in Usbs BY <1>1, <1>9, <2>1 DEF Usbs
    <2>3. /\ usb'.loading = usb.loading /\ usb'.header = usb.header /\ usb'.hsize = 0
          /\ SameEp0
      BY <1>1, <2>1 DEF Usbs, SameEp0
    <2>4. n = Header BY <1>2, <1>11 DEF Header
    <2>5. QED BY <1>1, <1>7, <1>8, <1>11, <2>1, <2>2, <2>3, <2>4 DEF n
  <1>12. CASE ~(n >= Header)
    <2>1. usb' = [usb EXCEPT !.hsize = n] /\ mem' = mem BY <1>4, <1>12
    <2>2. usb' \in Usbs BY <1>1, <1>9, <2>1 DEF Usbs
    <2>3. /\ usb'.loading = usb.loading /\ usb'.header = usb.header /\ usb'.hsize = n
          /\ SameEp0
      BY <1>1, <2>1 DEF Usbs, SameEp0
    <2>4. n < Header BY <1>2, <1>12 DEF Header
    <2>5. QED BY <1>1, <1>7, <1>8, <2>1, <2>2, <2>3, <2>4 DEF n
  <1>13. QED BY <1>10, <1>11, <1>12

LEMMA PayloadEffect ==
  ASSUME Types, NEW u \in Seq(Units), BulkOutPayload(u), usb.header, usb.loading,
         Len(u) \in 1..2, Len(u) <= usb.size
  PROVE  /\ usb' \in Usbs /\ tbi' = tbi /\ mem' \in Seq(Units) /\ SameEp0
         /\ Len(mem') = Len(mem) + Len(u)
         /\ \A i \in 1..Len(mem) : mem'[i] = mem[i]
         /\ \A i \in (Len(mem) + 1)..(Len(mem) + Len(u)) : mem'[i] = u[i - Len(mem)]
         /\ usb'.hsize = usb.hsize
         /\ \/ /\ Len(u) < usb.size /\ usb'.loading /\ usb'.header
               /\ usb'.size = usb.size - Len(u)
            \/ Len(u) = usb.size /\ ~usb'.loading
  <1> DEFINE k == Len(u)
  <1>1. /\ usb \in Usbs /\ mem \in Seq(Units) /\ usb.size \in 0..LoadSize /\ LoadSize \in Nat
        /\ k \in 1..2 /\ k <= usb.size
    BY UsbAssumption DEF Types, Usbs
  <1>2. /\ mem' = mem \o u /\ tbi' = tbi
        /\ usb' = IF usb.size > k THEN [usb EXCEPT !.size = @ - k]
                  ELSE [usb EXCEPT !.size = 0, !.loading = FALSE, !.header = FALSE]
    BY DEF BulkOutPayload
  <1>3. /\ mem' \in Seq(Units) /\ Len(mem') = Len(mem) + Len(u)
        /\ \A i \in 1..Len(mem) : mem'[i] = mem[i]
        /\ \A i \in (Len(mem) + 1)..(Len(mem) + Len(u)) : mem'[i] = u[i - Len(mem)]
    BY <1>1, <1>2
  <1> HIDE DEF k
  <1>4. CASE usb.size > k
    <2>1. usb' = [usb EXCEPT !.size = usb.size - k] BY <1>2, <1>4
    <2>2. usb.size - k \in 0..LoadSize /\ k < usb.size BY ONLY <1>1, <1>4
    <2>3. usb' \in Usbs BY <1>1, <2>1, <2>2 DEF Usbs
    <2>4. /\ usb'.loading = usb.loading /\ usb'.header = usb.header
          /\ usb'.hsize = usb.hsize /\ usb'.size = usb.size - k /\ SameEp0
      BY <1>1, <2>1 DEF Usbs, SameEp0
    <2>5. QED BY <1>2, <1>3, <2>2, <2>3, <2>4 DEF k
  <1>5. CASE ~(usb.size > k)
    <2>1. usb' = [usb EXCEPT !.size = 0, !.loading = FALSE, !.header = FALSE]
      BY <1>2, <1>5
    <2>2. 0 \in 0..LoadSize /\ k = usb.size BY ONLY <1>1, <1>5
    <2>3. usb' \in Usbs BY <1>1, <2>1, <2>2 DEF Usbs
    <2>4. /\ ~usb'.loading /\ usb'.hsize = usb.hsize /\ SameEp0
      BY <1>1, <2>1 DEF Usbs, SameEp0
    <2>5. QED BY <1>2, <1>3, <2>2, <2>3, <2>4 DEF k
  <1>6. QED BY <1>4, <1>5

-----------------------------------------------------------------------------
(* The actions keep the types.                                             *)

\* The packet being read, and how it fits.
LEMMA PacketRead ==
  ASSUME Types, PacketInv, DownInv, pc = "receive", core.rx # <<>>, Head(core.rx).kind = "out"
  PROVE  LET u == Head(core.rx).units IN
         /\ usb.loading /\ u \in Seq(Units) /\ Len(u) \in 1..2
         /\ Flying(core.rx) = {u} /\ Flying(Tail(core.rx)) = {} /\ OneOut(Tail(core.rx))
         /\ ~usb.header => usb.hsize + Len(u) <= Header
         /\ usb.header => Len(u) <= usb.size
  <1> DEFINE u == Head(core.rx).units
  <1>1. core.rx \in Seq(Entries) BY DEF Types, Cores
  <1>2. /\ OneOut(Tail(core.rx)) /\ Flying(Tail(core.rx)) = {} /\ Flying(core.rx) = {u}
    BY <1>1, PopFlying DEF PacketInv
  <1>3. u \in Seq(Units) BY <1>1, RxPop DEF Entries
  <1>4. usb.loading BY DEF DownInv
  <1>5. Fits /\ \E t, im \in BOOLEAN : Attempt(t, im) BY <1>4 DEF DownInv
  <1>6. Len(u) \in 1..2 /\ (~usb.header => usb.hsize + Len(u) <= Header)
    BY <1>2, <1>5 DEF Fits
  <1> HIDE DEF u
  <1>7. ASSUME usb.header PROVE Len(u) <= usb.size
    <2>1. PICK t, im \in BOOLEAN : Attempt(t, im) BY <1>5
    <2>2. im /\ Got + Len(u) <= All BY <1>2, <1>7, <2>1 DEF Attempt
    <2>3. Got = Header + (LoadSize - usb.size) BY <1>7 DEF Got
    <2>4. usb.size \in 0..LoadSize /\ LoadSize \in Nat BY UsbAssumption DEF Types, Usbs
    <2>5. QED BY ONLY <1>6, <2>2, <2>3, <2>4 DEF All, Header
  <1>8. QED BY <1>2, <1>3, <1>4, <1>6, <1>7 DEF u

LEMMA ReceiveTypes ==
  ASSUME Types, PacketInv, DownInv, PktReceive
  PROVE  Types'
  <1>1. /\ pc = "receive" /\ pc' = "transfer" /\ UNCHANGED <<sampled, host>>
        /\ (SameUsb /\ core' = core) \/ Receives
    BY ReceiveEffect
  <1>2. /\ usb \in Usbs /\ core \in Cores /\ host' \in Hosts /\ tbi \in [1..Header -> Units]
        /\ mem \in Seq(Units) /\ (usb.ep0 # "INIT" => usb.remain > 0)
        /\ sampled' \subseteq {"USBRst", "EnumDone", "RXFLVL", "IEPINT"}
    BY <1>1 DEF Types
  <1>3. CASE SameUsb /\ core' = core BY <1>1, <1>2, <1>3 DEF Types, SameUsb
  <1>4. CASE Receives
    <2>1. core' \in Cores /\ core.rx # <<>> /\ Head(core.rx) \in Entries BY <1>4 DEF Receives
    <2>2. CASE ReadsOther \/ LeavesSetup
      <3>1. SameUsb BY <2>2 DEF ReadsOther, LeavesSetup
      <3>2. QED BY <1>1, <1>2, <2>1, <3>1 DEF SameUsb, Types
    <2>3. CASE ReadsSetup(Head(core.rx).request)
      <3>1. usb' \in Usbs /\ (usb'.ep0 # "INIT" => usb'.remain > 0) /\ tbi' = tbi /\ mem' = mem
        BY <2>3 DEF ReadsSetup, SameDownload
      <3>2. QED BY <1>1, <1>2, <2>1, <3>1 DEF Types
    <2>4. CASE ReadsPacket(Head(core.rx).units)
      <3> DEFINE u == Head(core.rx).units
      <3>1. /\ usb.loading /\ u \in Seq(Units) /\ Len(u) \in 1..2
            /\ ~usb.header => usb.hsize + Len(u) <= Header
            /\ usb.header => Len(u) <= usb.size
        BY <1>1, <2>1, <2>4, PacketRead DEF ReadsPacket
      <3>2. IF usb.header THEN BulkOutPayload(u) ELSE BulkOutHeader(u)
        BY <2>4 DEF ReadsPacket
      <3> HIDE DEF u
      <3>3. CASE usb.header
        <4>1. usb' \in Usbs /\ tbi' = tbi /\ mem' \in Seq(Units) /\ SameEp0
          BY <3>1, <3>2, <3>3, PayloadEffect
        <4>2. QED BY <1>1, <1>2, <2>1, <4>1 DEF Types, SameEp0
      <3>4. CASE ~usb.header
        <4>1. usb' \in Usbs /\ tbi' \in [1..Header -> Units] /\ mem' \in Seq(Units) /\ SameEp0
          BY <3>1, <3>2, <3>4, HeaderEffect
        <4>2. QED BY <1>1, <1>2, <2>1, <4>1 DEF Types, SameEp0
      <3>5. QED BY <3>3, <3>4
    <2>5. QED BY <1>4, <2>2, <2>3, <2>4 DEF Receives
  <1>5. QED BY <1>1, <1>3, <1>4

LEMMA TypesStep ==
  ASSUME Types, PacketInv, DownInv, [Next]_vars
  PROVE  Types'
  <1>1. CASE UNCHANGED vars BY <1>1 DEF vars, Types
  <1>2. CASE Poll
    <2>1. /\ pc' = "reset" /\ sampled' = Pending /\ UNCHANGED <<usb, tbi, mem, core, host>>
      BY <1>2 DEF Poll
    <2>2. core.sts \subseteq {"USBRst", "EnumDone"} BY DEF Types, Cores
    <2>3. Pending \subseteq {"USBRst", "EnumDone", "RXFLVL", "IEPINT"}
      BY <2>2 DEF Pending
    <2>4. QED BY <2>1, <2>3 DEF Types
  <1>3. CASE UsbReset
    <2>1. /\ pc' = "enum" /\ UNCHANGED <<sampled, tbi, mem, host>>
          /\ usb' \in Usbs /\ core' \in Cores /\ usb'.remain = usb.remain
          /\ usb'.ep0 = usb.ep0 \/ usb'.ep0 = "INIT"
      BY <1>3, UsbResetEffect DEF SameEp0
    <2>2. QED BY <2>1 DEF Types
  <1>4. CASE SetInit
    <2>1. /\ pc' = "receive" /\ UNCHANGED <<sampled, tbi, mem, host>>
          /\ usb' \in Usbs /\ core' \in Cores /\ usb'.remain = usb.remain
          /\ usb'.ep0 = usb.ep0
      BY <1>4, SetInitEffect DEF SameEp0
    <2>2. QED BY <2>1 DEF Types
  <1>5. CASE PktReceive BY <1>5, ReceiveTypes
  <1>6. CASE Transfer
    <2>1. /\ pc' = "clear" /\ UNCHANGED <<sampled, tbi, mem, host>>
          /\ usb' \in Usbs /\ core' \in Cores /\ (usb'.ep0 # "INIT" => usb'.remain > 0)
      BY <1>6, TransferEffect
    <2>2. QED BY <2>1 DEF Types
  <1>7. CASE Clear
    <2>1. /\ pc' = "poll" /\ UNCHANGED <<sampled, usb, tbi, mem, host>> /\ core' \in Cores
      BY <1>7, ClearEffect
    <2>2. QED BY <2>1 DEF Types
  <1>8. CASE Return
    <2>1. pc' = "returned" /\ UNCHANGED <<sampled, usb, tbi, mem, core, host>>
      BY <1>8 DEF Return
    <2>2. QED BY <2>1 DEF Types
  <1>9. CASE ResetBus
    <2>1. /\ UNCHANGED <<pc, sampled, usb>> /\ tbi' = Old(tbi) /\ mem' = Old(mem)
          /\ core' \in Cores /\ host' \in Hosts
      BY <1>9, ResetBusEffect
    <2>2. tbi' \in [1..Header -> Units] /\ mem' \in Seq(Units) BY <2>1, OldType DEF Types
    <2>3. QED BY <2>1, <2>2 DEF Types
  <1>10. CASE EnumDone
    <2>1. SameDriver /\ core' \in Cores /\ host' \in Hosts BY <1>10, EnumDoneEffect
    <2>2. QED BY <2>1 DEF Types, SameDriver
  <1>11. CASE HostSetup
    <2>1. SameDriver /\ core' \in Cores /\ host' \in Hosts BY <1>11, HostSetupEffect
    <2>2. QED BY <2>1 DEF Types, SameDriver
  <1>12. CASE HostIn
    <2>1. SameDriver /\ core' \in Cores /\ host' \in Hosts BY <1>12, HostInEffect
    <2>2. QED BY <2>1 DEF Types, SameDriver
  <1>13. CASE HostSend
    <2>1. host.pos < All BY <1>13 DEF HostSend, DownInv
    <2>2. SameDriver /\ core' \in Cores /\ host' \in Hosts BY <1>13, <2>1, HostSendEffect
    <2>3. QED BY <2>2 DEF Types, SameDriver
  <1>14. QED
    BY <1>1, <1>2, <1>3, <1>4, <1>5, <1>6, <1>7, <1>8, <1>9, <1>10, <1>11, <1>12, <1>13
    DEF Next, Driver, Host, Retry, Abort

-----------------------------------------------------------------------------
(* The actions keep the receive FIFO to what the enumeration put there.     *)

LEMMA LoadsLess ==
  ASSUME NEW rx \in Seq(Entries), NEW ry \in Seq(Entries), NEW requests, NEW n \in Nat,
         Loads(rx, requests, n), Load(ry) <= Load(rx), \A r : Asks(ry, r) => Asks(rx, r)
  PROVE  Loads(ry, requests, n)
  <1>1. Load(rx) \in Nat /\ Load(ry) \in Nat BY LoadType
  <1>2. Load(ry) <= n BY <1>1 DEF Loads
  <1>3. QED BY <1>2 DEF Loads, AsksOnly

\* The FIFO's share of the invariant survives whatever takes entries out of it
\* but requests, and leaves endpoint 0 alone.
LEMMA RxLoadLess ==
  ASSUME Types, core'.rx \in Seq(Entries), RxLoad, host' = host,
         usb'.ep0 = usb.ep0, core'.tx = core.tx, core'.addr = core.addr,
         Load(core'.rx) <= Load(core.rx), core.rx # <<>>,
         \A r : Asks(core'.rx, r) <=> Asks(core.rx, r),
         \A r : Latest(core.rx, r) => Latest(core'.rx, r),
         LatestOut(core.rx) => LatestOut(core'.rx),
         \/ Flying(core'.rx) = Flying(core.rx)
         \/ LatestOut(core.rx) => Load(core'.rx) <= 1
  PROVE  RxLoad'
  <1> DEFINE rx == core.rx
             ry == core'.rx
  <1>1. rx \in Seq(Entries) /\ ry \in Seq(Entries) BY DEF Types, Cores
  <1>2. Load(rx) \in Nat /\ Load(ry) \in Nat BY <1>1, LoadType
  <1>3. \A R : \A n \in Nat : Loads(rx, R, n) => Loads(ry, R, n)
    BY <1>1, LoadsLess
  <1>4. host.step = "reset" => Load(ry) <= 8 BY <1>2 DEF RxLoad
  <1>5. /\ host.step = "device" => Loads(ry, {"device"}, 3) /\ host.sent
        /\ host.step = "address" /\ ~host.sent => Loads(ry, {"device"}, 5)
    BY <1>3 DEF RxLoad
  <1>6. (host.step = "address" /\ host.sent) \/ (host.step = "config" /\ ~host.sent) =>
          /\ Loads(ry, {"device", "address"}, 8)
          /\ Latest(ry, "address")
          /\ core'.addr = "new" => Loads(ry, {}, 1) /\ usb'.ep0 = "INIT"
    BY <1>3 DEF RxLoad
  <1>7. host.step = "config" /\ host.sent =>
          IF Asks(ry, "config")
            THEN /\ Loads(ry, {"config"}, 4) /\ Latest(ry, "config")
                 /\ usb'.ep0 = "INIT" /\ core'.tx.kind \in {"nothing", "zero"}
            ELSE Loads(ry, {}, 1)
    BY <1>3 DEF RxLoad
  <1>8. host.step = "setConfig" =>
          IF host.sent THEN Loads(ry, {"setConfig"}, 6) ELSE Loads(ry, {}, 3)
    BY <1>3 DEF RxLoad
  <1>9. ASSUME host.step \in {"send", "sent"}
        PROVE  LatestOut(ry) /\ Load(ry) <= (IF Flying(ry) = {} THEN 6 ELSE 8)
    <2>1. LatestOut(rx) /\ Load(rx) <= (IF Flying(rx) = {} THEN 6 ELSE 8)
      BY <1>9 DEF RxLoad
    <2>2. CASE Flying(ry) = Flying(rx) BY <1>2, <2>1, <2>2
    <2>3. CASE Load(ry) <= 1 BY <1>2, <2>1, <2>3
    <2>4. QED BY <2>1, <2>2, <2>3
  <1>10. QED BY <1>4, <1>5, <1>6, <1>7, <1>8, <1>9 DEF RxLoad

\* A request that is left in the FIFO, two words of it.
LEMMA SetupLeft ==
  ASSUME Types, FifoInv, PacketInv, LeavesSetup, core.rx # <<>>, host' = host,
         core'.tx = core.tx
  PROVE  RxLoad'
  <1> DEFINE rx == core.rx
             ry == core'.rx
             q == Head(rx).request
  <1>1. /\ rx \in Seq(Entries) /\ ry = Spilled(rx) /\ ry \in Seq(Entries) /\ SameUsb
        /\ core'.addr = core.addr /\ usb.ep0 # "INIT" /\ RxLoad /\ RxShape(rx)
        /\ Head(rx).kind = "setup" /\ OneOut(rx)
    BY RxSpill DEF LeavesSetup, Types, Cores, FifoInv, PacketInv
  <1>2. q \in Requests BY <1>1, RxPop DEF Entries
  <1>3. Load(rx) \in Nat /\ Load(ry) \in Nat BY <1>1, LoadType
  <1>4. /\ Load(ry) <= Load(rx)
        /\ \A r : Asks(ry, r) => Asks(rx, r)
        /\ \A r : Latest(rx, r) => Latest(ry, r)
        /\ LatestOut(rx) => LatestOut(ry)
    BY <1>1, SpillShape
  <1>5. Asks(rx, q) BY <1>1, PopShape
  <1>6. Flying(ry) = Flying(rx) BY <1>1, SpillFlying
  <1>7. \A R : \A n \in Nat : Loads(rx, R, n) => Loads(ry, R, n) BY <1>1, <1>4, LoadsLess
  <1>8. \A n : ~Loads(rx, {}, n) BY <1>2, <1>5 DEF Loads, AsksOnly
  <1> HIDE DEF q, ry
  <1>9. host.step = "reset" => Load(ry) <= 8 BY <1>1, <1>3, <1>4 DEF RxLoad
  <1>10. /\ host.step = "device" => Loads(ry, {"device"}, 3) /\ host.sent
         /\ host.step = "address" /\ ~host.sent => Loads(ry, {"device"}, 5)
    BY <1>1, <1>7 DEF RxLoad
  <1>11. (host.step = "address" /\ host.sent) \/ (host.step = "config" /\ ~host.sent) =>
           Loads(ry, {"device", "address"}, 8) /\ Latest(ry, "address") /\ core.addr # "new"
    BY <1>1, <1>4, <1>7 DEF RxLoad
  <1>12. ~(host.step = "config" /\ host.sent) BY <1>1, <1>8 DEF RxLoad
  <1>13. host.step = "setConfig" => host.sent /\ Loads(ry, {"setConfig"}, 6)
    BY <1>1, <1>7, <1>8 DEF RxLoad
  <1>14. host.step \in {"send", "sent"} =>
           LatestOut(ry) /\ Load(ry) <= (IF Flying(ry) = {} THEN 6 ELSE 8)
    BY <1>1, <1>3, <1>4, <1>6 DEF RxLoad
  <1>15. QED BY <1>1, <1>9, <1>10, <1>11, <1>12, <1>13, <1>14 DEF RxLoad, ry

\* A request that is read and obeyed.
LEMMA SetupRead ==
  ASSUME Types, FifoInv, PacketInv, core.rx # <<>>, ReadsSetup(Head(core.rx).request),
         host' = host, core'.tx = core.tx
  PROVE  RxLoad'
  <1> DEFINE rx == core.rx
             ry == core'.rx
             q == Head(rx).request
  <1>1. /\ rx \in Seq(Entries) /\ ry = Tail(rx) /\ ry \in Seq(Entries)
        /\ core'.addr = (IF q = "address" THEN "new" ELSE core.addr)
        /\ q \in Descriptors \/ usb'.ep0 = usb.ep0
        /\ usb.ep0 = "INIT" /\ RxLoad /\ RxShape(rx)
        /\ Head(rx).kind = "setup" /\ OneOut(rx)
    BY RxPop DEF ReadsSetup, Types, Cores, FifoInv, PacketInv, SameEp0
  <1>2. q \in Requests BY <1>1, RxPop DEF Entries
  <1>3. Load(rx) \in Nat /\ Load(ry) \in Nat BY <1>1, LoadType
  <1>4. /\ Load(ry) <= Load(rx) - 1
        /\ \A r : Asks(ry, r) => Asks(rx, r)
        /\ \A r : Latest(rx, r) => Latest(ry, r)
        /\ LatestOut(rx) => LatestOut(ry)
        /\ Asks(rx, q) /\ ~Asks(ry, q) /\ (Latest(rx, q) => Loads(ry, {}, 1))
    BY <1>1, PopShape
  <1>5. Load(ry) <= Load(rx) BY <1>3, <1>4
  <1>6. Flying(ry) = Flying(rx) BY <1>1, PopFlying
  <1>7. \A R : \A n \in Nat : Loads(rx, R, n) => Loads(ry, R, n)
    BY <1>1, <1>4, <1>5, LoadsLess
  <1>8. \A R, n : Loads(rx, R, n) => q \in R BY <1>2, <1>4 DEF Loads, AsksOnly
  <1> HIDE DEF q, ry
  <1>9. host.step = "reset" => Load(ry) <= 8 BY <1>1, <1>3, <1>4 DEF RxLoad
  <1>10. /\ host.step = "device" => Loads(ry, {"device"}, 3) /\ host.sent
         /\ host.step = "address" /\ ~host.sent => Loads(ry, {"device"}, 5)
    BY <1>1, <1>7 DEF RxLoad
  <1>11. ASSUME (host.step = "address" /\ host.sent) \/ (host.step = "config" /\ ~host.sent)
         PROVE  /\ Loads(ry, {"device", "address"}, 8) /\ Latest(ry, "address")
                /\ core'.addr = "new" => Loads(ry, {}, 1) /\ usb'.ep0 = "INIT"
    <2>1. /\ Loads(rx, {"device", "address"}, 8) /\ Latest(rx, "address")
          /\ core.addr = "new" => Loads(rx, {}, 1)
      BY <1>1, <1>11 DEF RxLoad
    <2>2. core.addr # "new" BY <1>8, <2>1
    <2>3. q = "address" => Loads(ry, {}, 1) /\ usb'.ep0 = "INIT"
      BY <1>1, <1>4, <2>1 DEF Descriptors
    <2>4. QED BY <1>1, <1>4, <1>7, <2>1, <2>2, <2>3
  <1>12. host.step = "config" /\ host.sent => Loads(ry, {}, 1) /\ ~Asks(ry, "config")
    <2>1. ASSUME host.step = "config" /\ host.sent
          PROVE  (Loads(rx, {"config"}, 4) /\ Latest(rx, "config")) \/ Loads(rx, {}, 1)
      BY <1>1, <2>1 DEF RxLoad
    <2>2. QED BY <1>4, <1>8, <2>1
  <1>13. host.step = "setConfig" => host.sent /\ Loads(ry, {"setConfig"}, 6)
    BY <1>1, <1>7, <1>8 DEF RxLoad
  <1>14. host.step \in {"send", "sent"} =>
           LatestOut(ry) /\ Load(ry) <= (IF Flying(ry) = {} THEN 6 ELSE 8)
    BY <1>1, <1>3, <1>4, <1>6 DEF RxLoad
  <1>15. QED BY <1>1, <1>9, <1>10, <1>11, <1>12, <1>13, <1>14 DEF RxLoad, ry

LEMMA FifoReceive ==
  ASSUME Types, FifoInv, PacketInv, DownInv, PktReceive
  PROVE  FifoInv'
  <1> DEFINE rx == core.rx
             ry == core'.rx
             q == Head(rx).request
  <1>1. /\ pc = "receive" /\ pc' = "transfer" /\ host' = host
        /\ (SameUsb /\ core' = core) \/ Receives
    BY ReceiveEffect
  <1>2. CASE SameUsb /\ core' = core BY <1>1, <1>2 DEF SameUsb, FifoInv, RxLoad
  <1>3. CASE Receives
    <2>1. /\ core' \in Cores /\ rx \in Seq(Entries) /\ ry \in Seq(Entries) /\ rx # <<>>
          /\ Same0 /\ Head(rx) \in Entries /\ RxShape(rx) /\ RxLoad /\ OneOut(rx)
      BY <1>3 DEF Receives, Types, Cores, FifoInv, PacketInv
    <2>2. ASSUME RxShape(ry), host.step \in Requests => Flying(ry) = {}, RxLoad'
          PROVE  FifoInv'
      BY <1>1, <2>1, <2>2 DEF FifoInv, Same0
    <2>3. Load(rx) \in Nat /\ Load(ry) \in Nat BY <2>1, LoadType
    <2>4. CASE ReadsOther \/ ReadsPacket(Head(rx).units)
      <3>1. ry = Tail(rx) /\ Head(rx).kind # "setup" /\ core'.addr = core.addr
        BY <2>4 DEF ReadsOther, ReadsPacket
      <3>2. usb'.ep0 = usb.ep0
        <4>1. CASE ReadsOther BY <4>1 DEF ReadsOther, SameUsb
        <4>2. CASE ReadsPacket(Head(rx).units)
          <5> DEFINE u == Head(core.rx).units
          <5>1. /\ usb.loading /\ u \in Seq(Units) /\ Len(u) \in 1..2
                /\ ~usb.header => usb.hsize + Len(u) <= Header
                /\ usb.header => Len(u) <= usb.size
            BY <1>1, <2>1, <4>2, PacketRead DEF ReadsPacket
          <5>2. IF usb.header THEN BulkOutPayload(u) ELSE BulkOutHeader(u)
            BY <4>2 DEF ReadsPacket
          <5> HIDE DEF u
          <5>3. CASE usb.header BY <5>1, <5>2, <5>3, PayloadEffect DEF SameEp0
          <5>4. CASE ~usb.header BY <5>1, <5>2, <5>4, HeaderEffect DEF SameEp0
          <5>5. QED BY <5>3, <5>4
        <4>3. QED BY <2>4, <4>1, <4>2
      <3>3. /\ RxShape(ry) /\ Load(ry) <= Load(rx) - 1
            /\ \A r : Asks(ry, r) <=> Asks(rx, r)
            /\ \A r : Latest(rx, r) => Latest(ry, r)
            /\ LatestOut(rx) => LatestOut(ry)
            /\ LatestOut(rx) /\ Head(rx).kind = "out" => Load(ry) <= 1
        BY <2>1, <3>1, PopShape
      <3>4. /\ Head(rx).kind # "out" => Flying(ry) = Flying(rx)
            /\ Head(rx).kind = "out" => Flying(ry) = {}
        BY <2>1, <3>1, PopFlying
      <3>5. Load(ry) <= Load(rx) BY <2>3, <3>3
      <3>6. RxLoad'
        BY <1>1, <2>1, <3>1, <3>2, <3>3, <3>4, <3>5, RxLoadLess DEF Same0
      <3>7. host.step \in Requests => Flying(ry) = {} BY <3>4 DEF FifoInv
      <3>8. QED BY <2>2, <3>3, <3>6, <3>7
    <2>5. CASE LeavesSetup \/ ReadsSetup(q)
      <3>1. Head(rx).kind = "setup" /\ q \in Requests
        BY <2>1, <2>5 DEF LeavesSetup, ReadsSetup, Entries
      <3>2. /\ RxShape(ry) /\ RxLoad'
            /\ Flying(ry) = Flying(rx)
        <4>1. CASE LeavesSetup
          <5>1. ry = Spilled(rx) BY <4>1 DEF LeavesSetup
          <5>2. RxShape(ry) BY <2>1, <3>1, <5>1, SpillShape
          <5>3. Flying(ry) = Flying(rx) BY <2>1, <3>1, <5>1, SpillFlying
          <5>4. QED BY <1>1, <2>1, <4>1, <5>2, <5>3, SetupLeft DEF Same0
        <4>2. CASE ReadsSetup(q)
          <5>1. ry = Tail(rx) BY <4>2 DEF ReadsSetup
          <5>2. RxShape(ry) BY <2>1, <5>1, PopShape
          <5>3. Flying(ry) = Flying(rx) BY <2>1, <3>1, <5>1, PopFlying
          <5>4. QED BY <1>1, <2>1, <4>2, <5>2, <5>3, SetupRead DEF Same0
        <4>3. QED BY <2>5, <4>1, <4>2
      <3>3. host.step \in Requests => Flying(ry) = {} BY <3>2 DEF FifoInv
      <3>4. QED BY <2>2, <3>2, <3>3
    <2>6. QED BY <1>3, <2>4, <2>5 DEF Receives
  <1>4. QED BY <1>1, <1>2, <1>3

\* What the host puts into it.
LEMMA FifoSetup ==
  ASSUME Types, FifoInv, PacketInv, HostSetup
  PROVE  FifoInv'
  <1> DEFINE rx == core.rx
             ry == core'.rx
             e == Setup(host.step)
  <1>1. /\ host.step \in Requests /\ ~host.sent /\ Reached /\ SameDriver /\ Same0 /\ SameCore
        /\ core' \in Cores /\ ry = Pushed(rx, e)
        /\ host'.step = host.step /\ host'.sent
    BY HostSetupEffect
  <1>2. /\ rx \in Seq(Entries) /\ ry \in Seq(Entries) /\ RxShape(rx) /\ RxLoad /\ OneOut(rx)
        /\ e \in Entries /\ e.kind = "setup" /\ e.request = host.step /\ Flying(rx) = {}
    BY <1>1 DEF Types, Cores, FifoInv, PacketInv, Setup, Entries
  <1>3. /\ Load(rx) \in Nat /\ Load(ry) \in Nat /\ Load(<<>>) = 0 /\ \A r : ~Asks(<<>>, r)
    <2>1. \A r : ~Asks(<<>>, r) BY DEF Asks
    <2>2. Load(<<>>) = 0 BY <2>1 DEF Load, Weight
    <2>3. QED BY <1>2, <2>1, <2>2, LoadType
  <1>4. host.step = "device" => Loads(rx, {}, 0)
    BY <1>1, <1>2, <1>3 DEF RxLoad, Loads, AsksOnly
  <1>5. host.step = "address" => Loads(rx, {"device"}, 5) /\ core.addr # "new"
    BY <1>1, <1>2 DEF RxLoad, Reached
  <1>6. host.step = "config" => /\ Loads(rx, {}, 1) /\ usb.ep0 = "INIT"
                                /\ core.tx = Nothing
    BY <1>1, <1>2 DEF RxLoad, Reached, FifoInv
  <1>7. host.step = "setConfig" => Loads(rx, {}, 3)
    BY <1>1, <1>2 DEF RxLoad
  <1>8. ~Asks(rx, host.step)
    <2>1. host.step \in {"device", "address", "config", "setConfig"} BY <1>1 DEF Requests
    <2>2. QED BY <2>1, <1>1, <1>4, <1>5, <1>6, <1>7 DEF Loads, AsksOnly
  <1>9. /\ RxShape(ry) /\ Flying(ry) = {} /\ Load(ry) <= Load(rx) + 3
        /\ Latest(ry, host.step)
        /\ \A r : Asks(ry, r) <=> (Asks(rx, r) \/ r = host.step)
    BY <1>1, <1>2, <1>8, PushShape, PushFlying
  <1>10. host.step = "device" => Loads(ry, {"device"}, 3)
    BY <1>3, <1>4, <1>9 DEF Loads, AsksOnly
  <1>11. host.step = "address" => Loads(ry, {"device", "address"}, 8)
    BY <1>3, <1>5, <1>9 DEF Loads, AsksOnly
  <1>12. host.step = "config" => Loads(ry, {"config"}, 4) /\ Asks(ry, "config")
    BY <1>3, <1>6, <1>9 DEF Loads, AsksOnly
  <1>13. host.step = "setConfig" => Loads(ry, {"setConfig"}, 6)
    BY <1>3, <1>7, <1>9 DEF Loads, AsksOnly
  <1>14. core'.addr = core.addr /\ core'.tx = core.tx /\ core'.inToken = core.inToken /\ usb' = usb
    BY <1>1 DEF SameCore, Same0, SameDriver
  <1>15. Nothing.kind = "nothing" BY DEF Nothing
  <1> HIDE DEF ry, rx, e
  <1>16. RxLoad'
    <2>1. host.step \in {"device", "address", "config", "setConfig"} BY <1>1 DEF Requests
    <2>2. CASE host.step = "device" BY <1>1, <1>10, <2>2 DEF RxLoad, ry
    <2>3. CASE host.step = "address" BY <1>1, <1>5, <1>9, <1>11, <1>14, <2>3 DEF RxLoad, ry
    <2>4. CASE host.step = "config"
      BY <1>1, <1>6, <1>9, <1>12, <1>14, <1>15, <2>4 DEF RxLoad, ry
    <2>5. CASE host.step = "setConfig" BY <1>1, <1>13, <2>5 DEF RxLoad, ry
    <2>6. QED BY <2>1, <2>2, <2>3, <2>4, <2>5
  <1>17. QED BY <1>1, <1>9, <1>14, <1>16 DEF FifoInv, ry

LEMMA FifoIn ==
  ASSUME Types, FifoInv, PacketInv, HostIn
  PROVE  FifoInv'
  <1> DEFINE rx == core.rx
             ry == core'.rx
  <1>1. /\ host.step \in Requests /\ host.sent /\ SameDriver /\ SameCore /\ core' \in Cores
        /\ Asks0 \/ Takes0 \/ Answered0
    BY HostInEffect
  <1>2. /\ rx \in Seq(Entries) /\ ry \in Seq(Entries) /\ RxShape(rx) /\ RxLoad /\ OneOut(rx)
        /\ Flying(rx) = {} /\ (core.inToken => core.tx = Nothing)
        /\ core'.addr = core.addr /\ usb' = usb
    BY <1>1 DEF Types, Cores, FifoInv, PacketInv, SameCore, SameDriver
  <1>3. Nothing.kind = "nothing" BY DEF Nothing
  <1>4. CASE Asks0 \/ Takes0
    <2>1. /\ core'.tx = Nothing /\ ry = rx /\ host'.step = host.step /\ host'.sent = host.sent
      BY <1>4 DEF Asks0, Takes0
    <2>2. RxLoad' BY <1>2, <1>3, <2>1 DEF RxLoad
    <2>3. QED BY <1>1, <1>2, <2>1, <2>2 DEF FifoInv
  <1>5. CASE Answered0
    <2>1. /\ core.tx # Nothing /\ Answer(core.tx) /\ core'.tx = Nothing
          /\ core'.inToken = core.inToken
          /\ ry = IF host.step \in Descriptors THEN Pushed(rx, Other) ELSE rx
          /\ host'.step = After[host.step] /\ ~host'.sent
      BY <1>5 DEF Answered0
    <2>2. ~core'.inToken
      <3>1. core'.inToken \in BOOLEAN /\ core.inToken \in BOOLEAN BY <1>1 DEF Cores, Types
      <3>2. QED BY <1>2, <2>1, <3>1
    <2>3. /\ Load(rx) \in Nat /\ Load(ry) \in Nat BY <1>2, LoadType
    <2>4. /\ RxShape(Pushed(rx, Other)) /\ Flying(Pushed(rx, Other)) = {}
          /\ Load(Pushed(rx, Other)) <= Load(rx) + 2
          /\ \A r : Asks(Pushed(rx, Other), r) => Asks(rx, r)
      <3>1. Other \in Entries /\ Other.kind = "other" BY OtherType DEF Other
      <3>2. QED BY <1>2, <3>1, PushShape, PushFlying
    <2>5. RxShape(ry) /\ Flying(ry) = {} BY <1>2, <2>1, <2>4
    <2>6. host.step \in {"device", "address", "config", "setConfig"} BY <1>1 DEF Requests
    <2> HIDE DEF rx, ry
    <2>7. CASE host.step = "device"
      <3>1. host'.step = "address" /\ ry = Pushed(rx, Other)
        BY <2>1, <2>7 DEF After, Descriptors
      <3>2. Loads(rx, {"device"}, 3) BY <1>2, <2>7 DEF RxLoad, rx
      <3>3. Loads(ry, {"device"}, 5) BY <2>3, <2>4, <3>1, <3>2 DEF Loads, AsksOnly
      <3>4. RxLoad' BY <2>1, <3>1, <3>3 DEF RxLoad, ry
      <3>5. QED BY <2>1, <2>2, <2>5, <3>4 DEF FifoInv, ry
    <2>8. CASE host.step = "address"
      <3>1. host'.step = "config" /\ ry = rx BY <2>1, <2>8 DEF After, Descriptors
      <3>2. /\ Loads(rx, {"device", "address"}, 8) /\ Latest(rx, "address")
            /\ core.addr = "new" => Loads(rx, {}, 1) /\ usb.ep0 = "INIT"
        BY <1>1, <1>2, <2>8 DEF RxLoad, rx
      <3>3. RxLoad' BY <1>2, <2>1, <3>1, <3>2 DEF RxLoad, ry
      <3>4. QED BY <2>1, <2>2, <2>5, <3>3 DEF FifoInv, ry
    <2>9. CASE host.step = "config"
      <3>1. host'.step = "setConfig" /\ ry = Pushed(rx, Other)
        BY <2>1, <2>9 DEF After, Descriptors
      <3>2. core.tx.kind = "config" BY <2>1, <2>9 DEF Answer, Descriptors
      <3>3. Loads(rx, {}, 1) BY <1>1, <1>2, <2>9, <3>2 DEF RxLoad, rx
      <3>4. Loads(ry, {}, 3) BY <2>3, <2>4, <3>1, <3>3 DEF Loads, AsksOnly
      <3>5. RxLoad' BY <2>1, <3>1, <3>4 DEF RxLoad, ry
      <3>6. QED BY <2>1, <2>2, <2>5, <3>1, <3>5 DEF FifoInv, ry
    <2>10. CASE host.step = "setConfig"
      <3>1. host'.step = "send" /\ ry = rx BY <2>1, <2>10 DEF After, Descriptors
      <3>2. Load(rx) <= 6 BY <1>1, <1>2, <2>10 DEF RxLoad, Loads, rx
      <3>3. LatestOut(ry) BY <2>5 DEF LatestOut, Flying
      <3>4. RxLoad' BY <2>1, <2>5, <3>1, <3>2, <3>3 DEF RxLoad, ry
      <3>5. QED BY <2>1, <2>2, <2>5, <3>1, <3>4 DEF FifoInv, Requests, ry
    <2>11. QED BY <2>6, <2>7, <2>8, <2>9, <2>10
  <1>6. QED BY <1>1, <1>4, <1>5

LEMMA FifoSend ==
  ASSUME Types, FifoInv, PacketInv, HostSend, host.pos < All
  PROVE  FifoInv'
  <1> DEFINE rx == core.rx
             ry == core'.rx
             e == Out(Payload)
  <1>1. /\ host.step = "send" /\ core.active /\ core.armed /\ core' \in Cores
        /\ Payload \in Seq(Units) /\ ry = Pushed(rx, e) /\ Same0
        /\ host'.step = IF host.pos + Sent = All THEN "sent" ELSE "send"
    BY HostSendEffect
  <1>2. /\ rx \in Seq(Entries) /\ ry \in Seq(Entries) /\ RxShape(rx) /\ RxLoad /\ OneOut(rx)
        /\ Flying(rx) = {} /\ (core.inToken => core.tx = Nothing)
    BY <1>1 DEF Types, Cores, FifoInv, PacketInv
  <1>3. e \in Entries /\ e.kind = "out" /\ e.units = Payload
    BY <1>1 DEF Out, Entries, Requests
  <1>4. /\ RxShape(ry) /\ Flying(ry) = {Payload} /\ LatestOut(ry) /\ Load(ry) <= Load(rx) + 2
    BY <1>1, <1>2, <1>3, PushShape, PushFlying
  <1>5. Load(rx) \in Nat /\ Load(ry) \in Nat BY <1>2, LoadType
  <1>6. Load(rx) <= 6 BY <1>1, <1>2 DEF RxLoad
  <1>7. Load(ry) <= 8 /\ Flying(ry) # {} BY <1>4, <1>5, <1>6
  <1> HIDE DEF rx, ry, e
  <1>8. host'.step \in {"send", "sent"} BY <1>1
  <1>9. RxLoad' BY <1>4, <1>7, <1>8 DEF RxLoad, ry
  <1>10. QED BY <1>1, <1>2, <1>4, <1>8, <1>9 DEF FifoInv, Same0, Requests, ry

LEMMA FifoStep ==
  ASSUME Types, FifoInv, PacketInv, DownInv, [Next]_vars
  PROVE  FifoInv'
  <1>0. core.rx \in Seq(Entries) /\ core \in Cores BY DEF Types, Cores
  <1>1. ASSUME host' = host, core' = core, usb' = usb PROVE FifoInv'
    BY <1>1 DEF FifoInv, RxLoad
  <1>2. CASE UNCHANGED vars \/ Poll \/ Return BY <1>1, <1>2 DEF vars, Poll, Return
  <1>3. CASE UsbReset
    <2>1. /\ host' = host /\ core'.rx = core.rx /\ Same0
          /\ \/ SameEp0 /\ core'.addr = core.addr
             \/ usb'.ep0 = "INIT" /\ core'.addr = "zero"
      BY <1>3, UsbResetEffect
    <2>2. RxLoad'
      <3>1. CASE SameEp0 /\ core'.addr = core.addr
        BY <2>1, <3>1 DEF FifoInv, RxLoad, Same0, SameEp0
      <3>2. CASE usb'.ep0 = "INIT" /\ core'.addr = "zero"
        BY <2>1, <3>2 DEF FifoInv, RxLoad, Same0
      <3>3. QED BY <2>1, <3>1, <3>2
    <2>3. QED BY <2>1, <2>2 DEF FifoInv, Same0
  <1>4. CASE SetInit
    <2>1. /\ host' = host /\ core'.rx = core.rx /\ core'.tx = core.tx /\ core'.addr = core.addr
          /\ usb'.ep0 = usb.ep0 /\ (core'.inToken = core.inToken \/ ~core'.inToken)
      BY <1>4, SetInitEffect DEF SameEp0, Same0
    <2>2. RxLoad' BY <2>1 DEF FifoInv, RxLoad
    <2>3. QED BY <2>1, <2>2 DEF FifoInv
  <1>5. CASE PktReceive BY <1>5, FifoReceive
  <1>6. CASE Transfer
    <2>1. /\ host' = host /\ core'.rx = core.rx /\ core'.addr = core.addr
          /\ \/ SameEp0 /\ Same0
             \/ /\ core.inToken /\ ~core'.inToken
                /\ usb.ep0 = "INIT" => SameEp0 /\ core'.tx = Zero
      BY <1>6, TransferEffect
    <2>2. CASE SameEp0 /\ Same0 BY <2>1, <2>2 DEF FifoInv, RxLoad, SameEp0, Same0
    <2>3. CASE /\ core.inToken /\ ~core'.inToken
               /\ usb.ep0 = "INIT" => SameEp0 /\ core'.tx = Zero
      <3>1. Zero.kind = "zero" BY DEF Zero
      <3>2. RxLoad' BY <2>1, <2>3, <3>1 DEF FifoInv, RxLoad, SameEp0
      <3>3. QED BY <2>1, <2>3, <3>2 DEF FifoInv
    <2>4. QED BY <2>1, <2>2, <2>3
  <1>7. CASE Clear
    <2>1. /\ host' = host /\ usb' = usb /\ core'.rx = core.rx /\ Same0
          /\ core'.addr = core.addr
      BY <1>7, ClearEffect
    <2>2. QED BY <2>1 DEF FifoInv, RxLoad, Same0
  <1>8. CASE ResetBus
    <2>1. /\ core'.rx = Aged(core.rx) /\ core'.inToken = core.inToken
          /\ core'.tx = core.tx \/ core'.tx = Nothing
          /\ host'.step = "reset"
      BY <1>8, ResetBusEffect
    <2>2. RxShape(core'.rx) /\ Load(core'.rx) <= Load(core.rx)
      BY <1>0, <2>1, AgeShape DEF FifoInv
    <2>3. Load(core.rx) \in Nat /\ Load(core'.rx) \in Nat BY <1>0, <2>1, LoadType, RxAge
    <2>4. host.step \in {"reset", "send", "sent", "device", "address", "config", "setConfig"}
      BY DEF Types, Hosts, Steps, Requests
    <2>5. Load(core.rx) <= 8 BY <2>3, <2>4 DEF FifoInv, RxLoad, Loads
    <2>6. RxLoad' BY <2>1, <2>2, <2>3, <2>5 DEF RxLoad
    <2>7. QED BY <2>1, <2>2, <2>6 DEF FifoInv, Requests
  <1>9. CASE EnumDone
    <2>1. /\ core.rx = <<>> /\ core'.rx = core.rx /\ Same0 /\ host'.step = "device"
      BY <1>9, EnumDoneEffect
    <2>2. \A r : ~Asks(<<>>, r) BY DEF Asks
    <2>3. Load(<<>>) = 0 BY <2>2 DEF Load, Weight
    <2>4. Loads(<<>>, {"device"}, 3) BY <2>2, <2>3 DEF Loads, AsksOnly
    <2>5. Flying(<<>>) = {} BY DEF Flying
    <2>6. RxLoad' BY <2>1, <2>4 DEF RxLoad
    <2>7. QED BY <2>1, <2>5, <2>6 DEF FifoInv, Same0
  <1>10. CASE HostSetup BY <1>10, FifoSetup
  <1>11. CASE HostIn BY <1>11, FifoIn
  <1>12. CASE HostSend
    <2>1. host.pos < All BY <1>12 DEF HostSend, DownInv
    <2>2. QED BY <1>12, <2>1, FifoSend
  <1>13. QED
    BY <1>2, <1>3, <1>4, <1>5, <1>6, <1>7, <1>8, <1>9, <1>10, <1>11, <1>12
    DEF Next, Driver, Host, Retry, Abort

-----------------------------------------------------------------------------
(* The actions keep the packets apart.                                     *)

LEMMA PacketReceive ==
  ASSUME Types, PacketInv, DownInv, PktReceive
  PROVE  PacketInv'
  <1>1. /\ pc' = "transfer" /\ pc = "receive"
        /\ (SameUsb /\ core' = core) \/ Receives
    BY ReceiveEffect
  <1>2. ASSUME OneOut(core'.rx), core'.active /\ core'.armed => Flying(core'.rx) = {}
        PROVE  PacketInv'
    BY <1>1, <1>2 DEF PacketInv, Enumerated, Seen
  <1>3. CASE core' = core BY <1>2, <1>3 DEF PacketInv
  <1>4. CASE Receives
    <2>1. core.rx \in Seq(Entries) /\ core.rx # <<>> /\ OneOut(core.rx)
      BY <1>4 DEF Receives, Types, Cores, PacketInv
    <2>2. CASE ReadsOther \/ ReadsSetup(Head(core.rx).request)
      <3>1. core'.rx = Tail(core.rx) /\ Head(core.rx).kind # "out" /\ SameEp
        BY <2>2 DEF ReadsOther, ReadsSetup
      <3>2. OneOut(core'.rx) /\ Flying(core'.rx) = Flying(core.rx) BY <2>1, <3>1, PopFlying
      <3>3. QED BY <1>2, <3>1, <3>2 DEF PacketInv, SameEp
    <2>3. CASE LeavesSetup
      <3>1. core'.rx = Spilled(core.rx) /\ Head(core.rx).kind # "out" /\ SameEp
        BY <2>3 DEF LeavesSetup
      <3>2. OneOut(core'.rx) /\ Flying(core'.rx) = Flying(core.rx) BY <2>1, <3>1, SpillFlying
      <3>3. QED BY <1>2, <3>1, <3>2 DEF PacketInv, SameEp
    <2>4. CASE ReadsPacket(Head(core.rx).units)
      <3>1. core'.rx = Tail(core.rx) /\ Head(core.rx).kind = "out" BY <2>4 DEF ReadsPacket
      <3>2. OneOut(core'.rx) /\ Flying(core'.rx) = {} BY <2>1, <3>1, PopFlying
      <3>3. QED BY <1>2, <3>2
    <2>5. QED BY <1>4, <2>2, <2>3, <2>4 DEF Receives
  <1>5. QED BY <1>1, <1>3, <1>4

LEMMA PacketStep ==
  ASSUME Types, FifoInv, PacketInv, DownInv, [Next]_vars
  PROVE  PacketInv'
  <1>0. core.rx \in Seq(Entries) /\ core \in Cores BY DEF Types, Cores
  <1>1. CASE UNCHANGED vars BY <1>1 DEF vars, PacketInv, Enumerated, Seen
  <1>2. CASE Poll
    <2>1. pc = "poll" /\ pc' = "reset" /\ sampled' = Pending /\ UNCHANGED <<core, host>>
      BY <1>2 DEF Poll
    <2>2. \A bit \in {"USBRst", "EnumDone"} : Seen(bit)' <=> Seen(bit)
      BY <2>1 DEF Seen, Pending
    <2>3. "RXFLVL" \in sampled' => core.rx # <<>>
      <3>1. core.sts \subseteq {"USBRst", "EnumDone"} BY <1>0 DEF Cores
      <3>2. QED BY <2>1, <3>1 DEF Pending
    <2>4. Enumerated' <=> Enumerated BY <2>1, <2>2 DEF Enumerated
    <2>5. QED BY <2>1, <2>2, <2>3, <2>4 DEF PacketInv
  <1>3. CASE UsbReset
    <2>1. /\ pc = "reset" /\ pc' = "enum" /\ UNCHANGED <<sampled, host>>
          /\ core'.rx = core.rx /\ core'.tx = core.tx /\ core'.active = core.active
          /\ core'.armed = core.armed \/ "USBRst" \in sampled
      BY <1>3, UsbResetEffect DEF SameEp, Same0
    <2>2. (Enumerated' <=> Enumerated) /\ ~Seen("USBRst")'
      BY <2>1 DEF Enumerated, Seen
    <2>3. "USBRst" \in sampled => ~core.active BY <2>1 DEF PacketInv, Seen
    <2>4. QED BY <2>1, <2>2, <2>3 DEF PacketInv
  <1>4. CASE SetInit
    <2>1. /\ pc = "enum" /\ pc' = "receive" /\ UNCHANGED <<sampled, host>>
          /\ core'.rx = core.rx
          /\ SameEp \/ "EnumDone" \in sampled
      BY <1>4, SetInitEffect
    <2>2. ~Enumerated' /\ ~Seen("USBRst")' BY <2>1 DEF Enumerated, Seen
    <2>3. "EnumDone" \in sampled => Flying(core.rx) = {} BY <2>1 DEF PacketInv, Enumerated
    <2>4. QED BY <2>1, <2>2, <2>3 DEF PacketInv, SameEp
  <1>5. CASE PktReceive BY <1>5, PacketReceive
  <1>6. CASE Transfer
    <2>1. pc' = "clear" /\ core'.rx = core.rx /\ SameEp BY <1>6, TransferEffect
    <2>2. ~Enumerated' /\ ~Seen("USBRst")' BY <2>1 DEF Enumerated, Seen
    <2>3. QED BY <2>1, <2>2 DEF PacketInv, SameEp
  <1>7. CASE Clear
    <2>1. pc' = "poll" /\ core'.sts = {} /\ core'.rx = core.rx /\ SameEp
      BY <1>7, ClearEffect
    <2>2. ~Enumerated' /\ ~Seen("USBRst")' BY <2>1 DEF Enumerated, Seen
    <2>3. QED BY <2>1, <2>2 DEF PacketInv, SameEp
  <1>8. CASE Return
    <2>1. pc' = "returned" /\ core' = core BY <1>8 DEF Return
    <2>2. ~Enumerated' /\ ~Seen("USBRst")' BY <2>1 DEF Enumerated, Seen
    <2>3. QED BY <2>1, <2>2 DEF PacketInv
  <1>9. CASE ResetBus
    <2>1. /\ UNCHANGED <<pc, sampled>> /\ core'.sts = core.sts \cup {"USBRst"}
          /\ ~core'.active /\ core'.rx = Aged(core.rx) /\ host'.step = "reset"
      BY <1>9, ResetBusEffect
    <2>2. OneOut(core'.rx) /\ Flying(core'.rx) = {Old(u) : u \in Flying(core.rx)}
      BY <1>0, <2>1, AgeFlying DEF PacketInv
    <2>3. Enumerated' <=> Enumerated BY <2>1 DEF Enumerated, Seen
    <2>4. core.rx # <<>> => core'.rx # <<>>
      <3>1. Len(core'.rx) = Len(core.rx) /\ core'.rx \in Seq(Entries) BY <1>0, <2>1, RxAge
      <3>2. QED BY <1>0, <3>1
    <2>5. QED BY <2>1, <2>2, <2>3, <2>4 DEF PacketInv
  <1>10. CASE EnumDone
    <2>1. /\ pc = "poll" /\ SameDriver /\ core.rx = <<>> /\ core'.rx = core.rx
          /\ core'.sts = {"EnumDone"} /\ host'.step = "device"
      BY <1>10, EnumDoneEffect
    <2>2. pc' = "poll" BY <2>1 DEF SameDriver
    <2>3. ~Seen("USBRst")' BY <2>1, <2>2 DEF Seen
    <2>4. Flying(<<>>) = {} /\ OneOut(<<>>) BY DEF Flying, OneOut
    <2>5. QED BY <2>1, <2>2, <2>3, <2>4 DEF PacketInv
  <1>11. CASE HostSetup
    <2> DEFINE e == Setup(host.step)
    <2>1. /\ host.step \in Requests /\ SameDriver /\ SameCore /\ Same0
          /\ core'.rx = Pushed(core.rx, e) /\ host'.step = host.step
      BY <1>11, HostSetupEffect
    <2>2. e \in Entries /\ e.kind = "setup" BY <2>1 DEF Setup, Entries
    <2>3. OneOut(core'.rx) /\ Flying(core'.rx) = Flying(core.rx)
      BY <1>0, <2>1, <2>2, PushFlying DEF PacketInv
    <2>4. core'.rx # <<>> BY <1>0, <2>1, <2>2, RxPush
    <2>5. (Enumerated' <=> Enumerated) /\ (Seen("USBRst")' <=> Seen("USBRst"))
      BY <2>1 DEF SameDriver, SameCore, Enumerated, Seen
    <2>6. QED BY <2>1, <2>3, <2>4, <2>5 DEF PacketInv, SameCore, Same0, SameEp
  <1>12. CASE HostIn
    <2>1. /\ host.step \in Requests /\ SameDriver /\ SameCore
          /\ Asks0 \/ Takes0 \/ Answered0
      BY <1>12, HostInEffect
    <2>2. (Enumerated' <=> Enumerated) /\ (Seen("USBRst")' <=> Seen("USBRst"))
      BY <2>1 DEF SameDriver, SameCore, Enumerated, Seen
    <2>3. Flying(core.rx) = {} BY <2>1 DEF FifoInv
    <2>4. CASE Asks0 \/ Takes0
      <3>1. core'.rx = core.rx /\ core'.tx = Nothing /\ host'.step = host.step
        BY <2>4 DEF Asks0, Takes0
      <3>2. QED BY <2>1, <2>2, <2>3, <3>1 DEF PacketInv, SameCore, SameEp, SameDriver
    <2>5. CASE Answered0
      <3>1. /\ core.tx # Nothing /\ core'.tx = Nothing /\ host'.step = After[host.step]
            /\ core'.rx = Pushed(core.rx, Other) \/ core'.rx = core.rx
        BY <2>5 DEF Answered0
      <3>2. /\ OneOut(core'.rx) /\ Flying(core'.rx) = {}
            /\ core.rx # <<>> => core'.rx # <<>>
        <4>1. CASE core'.rx = Pushed(core.rx, Other)
          <5>1. Other \in Entries /\ Other.kind = "other" BY OtherType DEF Other
          <5>2. OneOut(core'.rx) /\ Flying(core'.rx) = {}
            BY <1>0, <2>3, <4>1, <5>1, PushFlying DEF PacketInv
          <5>3. core'.rx # <<>> BY <1>0, <4>1, <5>1, RxPush
          <5>4. QED BY <5>2, <5>3
        <4>2. CASE core'.rx = core.rx BY <2>3, <4>2 DEF PacketInv
        <4>3. QED BY <3>1, <4>1, <4>2
      <3>3. Enumerated => host'.step = "address"
        BY <2>1, <3>1 DEF PacketInv, Requests, After
      <3>4. QED BY <2>1, <2>2, <3>1, <3>2, <3>3 DEF PacketInv, SameCore, SameEp, SameDriver
    <2>6. QED BY <2>1, <2>4, <2>5
  <1>13. CASE HostSend
    <2> DEFINE e == Out(Payload)
    <2>1. host.pos < All BY <1>13 DEF HostSend, DownInv
    <2>2. /\ host.step = "send" /\ core.active /\ core.armed /\ SameDriver
          /\ Payload \in Seq(Units) /\ core'.rx = Pushed(core.rx, e) /\ ~core'.armed
          /\ core'.sts = core.sts
      BY <1>13, <2>1, HostSendEffect
    <2>3. Flying(core.rx) = {} /\ ~Seen("USBRst") /\ ~Enumerated BY <2>2 DEF PacketInv
    <2>4. e \in Entries /\ e.kind = "out" /\ e.units = Payload
      BY <2>2 DEF Out, Entries, Requests
    <2>5. OneOut(core'.rx) /\ core'.rx # <<>>
      BY <1>0, <2>2, <2>3, <2>4, PushFlying, RxPush DEF PacketInv
    <2>6. ~Enumerated' /\ ~Seen("USBRst")'
      BY <2>2, <2>3 DEF SameDriver, Enumerated, Seen
    <2>7. QED BY <2>2, <2>5, <2>6 DEF PacketInv
  <1>14. QED
    BY <1>1, <1>2, <1>3, <1>4, <1>5, <1>6, <1>7, <1>8, <1>9, <1>10, <1>11, <1>12, <1>13
    DEF Next, Driver, Host, Retry, Abort

-----------------------------------------------------------------------------
(* The actions keep the download whole.                                    *)

\* What leaves the download and its packet alone.
LEMMA DownKept ==
  ASSUME DownInv, SameDownload, Flying(core'.rx) = Flying(core.rx), SameHost,
         host'.step # "sent" => host.step # "sent",
         host'.step \notin {"send", "sent"} => host.pos = 0,
         host'.step = "send" => host.pos < All,
         Synced' => Synced,
         ~usb.loading => pc' \in {"transfer", "clear", "poll", "returned"}
  PROVE  DownInv'
  <1>1. Got' = Got BY DEF Got, SameDownload
  <1>2. /\ host'.step \notin {"send", "sent"} => host'.pos = 0
        /\ host'.step = "send" => host'.pos < All
        /\ host'.speed = "high" => host'.pos # 1
        /\ Len(mem') <= LoadSize
    BY DEF SameHost, SameDownload, DownInv
  <1>3. CASE usb.loading
    <2>1. Fits' BY <1>3 DEF DownInv, Fits, SameDownload, SameHost
    <2>2. PICK t, im \in BOOLEAN : Attempt(t, im) BY <1>3 DEF DownInv
    <2>3. Attempt(t, im)'
      <3>1. \A i \in 1..usb'.hsize : tbi'[i] = Unit(t, im, i - 1)
        BY <2>2 DEF Attempt, SameDownload
      <3>2. usb'.header =>
              /\ im
              /\ Len(mem') = LoadSize - usb'.size
              /\ \A i \in 1..Len(mem') : mem'[i] = Unit(t, TRUE, Header + i - 1)
        BY <2>2 DEF Attempt, SameDownload
      <3>3. \A u \in Flying(core'.rx) :
              /\ \A j \in 1..Len(u) : u[j] = Unit(t, im, Got + j - 1)
              /\ im => Got + Len(u) <= All
        BY <2>2 DEF Attempt
      <3>4. Synced' =>
              /\ t = TRUE /\ im = host'.image
              /\ im /\ Flying(core'.rx) = {} => host'.pos = Got
              /\ im => \A u \in Flying(core'.rx) : host'.pos = Got + Len(u)
        BY <2>2 DEF Attempt, SameHost
      <3>5. QED BY <1>1, <3>1, <3>2, <3>3, <3>4 DEF Attempt
    <2>4. usb'.loading BY <1>3 DEF SameDownload
    <2>5. QED BY <1>2, <2>1, <2>3, <2>4 DEF DownInv
  <1>4. CASE ~usb.loading
    <2>1. DownloadIsWhole' BY <1>4 DEF DownInv, DownloadIsWhole, SameDownload
    <2>2. QED BY <1>2, <1>4, <2>1 DEF DownInv, SameDownload
  <1>5. QED BY <1>3, <1>4

\* A packet of the header.
LEMMA DownHeader ==
  ASSUME Types, DownInv, usb.loading, ~usb.header, NEW u \in Seq(Units), Len(u) \in 1..2,
         usb.hsize + Len(u) <= Header, Flying(core.rx) = {u}, Flying(core'.rx) = {},
         BulkOutHeader(u), host' = host, Synced' <=> Synced
  PROVE  DownInv'
  <1> DEFINE n == usb.hsize + Len(u)
  <1>1. /\ usb'.loading = usb.loading /\ tbi' \in [1..Header -> Units]
        /\ \A i \in 1..usb.hsize : tbi'[i] = tbi[i]
        /\ \A i \in (usb.hsize + 1)..n : tbi'[i] = u[i - usb.hsize]
        /\ \/ n < Header /\ mem' = mem /\ ~usb'.header /\ usb'.hsize = n
           \/ n = Header /\ ~Signed(tbi') /\ mem' = mem /\ ~usb'.header /\ usb'.hsize = 0
           \/ /\ n = Header /\ Signed(tbi') /\ mem' = <<>>
              /\ usb'.header /\ usb'.hsize = Header /\ usb'.size = LoadSize
    BY HeaderEffect
  <1>2. usb.hsize \in 0..2 /\ LoadSize \in Nat \ {0} BY UsbAssumption DEF Types, Usbs, Header
  <1>3. PICK t, im \in BOOLEAN : Attempt(t, im) BY DEF DownInv
  <1>4. Got = usb.hsize BY DEF Got
  <1>5. \A i \in 1..n : tbi'[i] = Unit(t, im, i - 1)
    <2>1. ASSUME NEW i \in 1..n PROVE tbi'[i] = Unit(t, im, i - 1)
      <3>1. CASE i \in 1..usb.hsize BY <1>1, <1>3, <3>1 DEF Attempt
      <3>2. CASE i \notin 1..usb.hsize
        <4>1. /\ i \in (usb.hsize + 1)..n
              /\ i - usb.hsize \in 1..Len(u)
              /\ usb.hsize + (i - usb.hsize) - 1 = i - 1
          <5>1. ASSUME NEW h \in 0..2, NEW k \in 1..2, NEW j \in 1..(h + k), j \notin 1..h
                PROVE  j \in (h + 1)..(h + k) /\ j - h \in 1..k /\ h + (j - h) - 1 = j - 1
            BY ONLY <5>1
          <5>2. QED BY <1>2, <2>1, <3>2, <5>1
        <4>2. u[i - usb.hsize] = Unit(t, im, Got + (i - usb.hsize) - 1)
          BY <1>3, <4>1 DEF Attempt
        <4>3. QED BY <1>1, <1>4, <4>1, <4>2
      <3>3. QED BY <3>1, <3>2
    <2>2. QED BY <2>1
  <1>6. /\ Fits /\ Len(mem) <= LoadSize
        /\ host.step \notin {"send", "sent"} => host.pos = 0
        /\ host.step = "send" => host.pos < All
        /\ host.speed = "high" => host.pos # 1
    BY DEF DownInv
  <1>7. Synced => t = TRUE /\ im = host.image /\ (im => host.pos = n)
    BY <1>3, <1>4 DEF Attempt
  <1>8. Synced /\ host.speed = "high" /\ host.step # "sent" => n = Header
    <2>1. SUFFICES ASSUME Synced, host.speed = "high", host.step # "sent" PROVE n = Header
      OBVIOUS
    <2>2. usb.hsize = 0 /\ Len(u) = 2 BY <1>6, <2>1 DEF Fits
    <2>3. QED BY <2>2 DEF Header
  <1>9. n \in 1..Header
    <2>1. ASSUME NEW h \in 0..2, NEW k \in 1..2, h + k <= 2 PROVE h + k \in 1..2
      BY ONLY <2>1
    <2>2. QED BY <1>2, <2>1 DEF Header
  <1> HIDE DEF n
  <1>10. CASE n < Header /\ mem' = mem /\ ~usb'.header /\ usb'.hsize = n
    <2>1. Got' = n BY <1>10 DEF Got
    <2>2. n # Header BY <1>9, <1>10 DEF Header
    <2>3. Fits' BY <1>8, <1>10, <2>2 DEF Fits
    <2>4. Attempt(t, im)' BY <1>5, <1>7, <1>10, <2>1 DEF Attempt
    <2>5. QED BY <1>1, <1>3, <1>6, <1>10, <2>3, <2>4 DEF DownInv
  <1>11. CASE n = Header /\ ~Signed(tbi') /\ mem' = mem /\ ~usb'.header /\ usb'.hsize = 0
    <2>1. ~im
      <3>1. tbi'[Header] = Unit(t, im, Header - 1) BY <1>5, <1>11 DEF Header
      <3>2. QED BY <1>11, <3>1 DEF Signed, Unit
    <2>2. Fits' BY <1>11 DEF Fits, Header
    <2>3. \A i \in 1..usb'.hsize : FALSE BY <1>11
    <2>4. Attempt(t, im)' BY <1>7, <1>11, <2>1, <2>3 DEF Attempt
    <2>5. QED BY <1>1, <1>3, <1>6, <1>11, <2>2, <2>4 DEF DownInv
  <1>12. CASE /\ n = Header /\ Signed(tbi') /\ mem' = <<>>
              /\ usb'.header /\ usb'.hsize = Header /\ usb'.size = LoadSize
    <2>1. im
      <3>1. tbi'[Header] = Unit(t, im, Header - 1) BY <1>5, <1>12 DEF Header
      <3>2. Stray # Header - 1 BY <1>2 DEF Stray, Header
      <3>3. QED BY <1>12, <3>1, <3>2 DEF Signed, Unit
    <2>2. Got' = Header /\ Len(mem') = 0 /\ Len(mem') = LoadSize - usb'.size
      BY <1>2, <1>12 DEF Got, Header
    <2>3. Fits' BY <1>2, <1>12 DEF Fits
    <2>4. \A i \in 1..Len(mem') : FALSE BY <2>2
    <2>5. Attempt(t, im)' BY <1>5, <1>7, <1>12, <2>1, <2>2, <2>4 DEF Attempt
    <2>6. Len(mem') <= LoadSize BY <1>2, <2>2
    <2>7. QED BY <1>1, <1>3, <1>6, <2>3, <2>5, <2>6 DEF DownInv
  <1>13. QED BY <1>1, <1>10, <1>11, <1>12 DEF n

\* A packet of the payload.
LEMMA DownPayload ==
  ASSUME Types, DownInv, usb.loading, usb.header, NEW u \in Seq(Units), Len(u) \in 1..2,
         Len(u) <= usb.size, Flying(core.rx) = {u}, Flying(core'.rx) = {},
         BulkOutPayload(u), host' = host, Synced' <=> Synced, pc' = "transfer"
  PROVE  DownInv'
  <1> DEFINE k == Len(u)
             m == Len(mem)
  <1>1. /\ tbi' = tbi /\ mem' \in Seq(Units) /\ Len(mem') = m + k
        /\ \A i \in 1..m : mem'[i] = mem[i]
        /\ \A i \in (m + 1)..(m + k) : mem'[i] = u[i - m]
        /\ usb'.hsize = usb.hsize
        /\ \/ k < usb.size /\ usb'.loading /\ usb'.header /\ usb'.size = usb.size - k
           \/ k = usb.size /\ ~usb'.loading
    BY PayloadEffect
  <1>2. usb.size \in 0..LoadSize /\ LoadSize \in Nat \ {0} /\ m \in Nat /\ k \in 1..2
    BY UsbAssumption DEF Types, Usbs
  <1>3. PICK t, im \in BOOLEAN : Attempt(t, im) BY DEF DownInv
  <1>4. /\ im /\ m = LoadSize - usb.size
        /\ \A i \in 1..m : mem[i] = Unit(t, TRUE, Header + i - 1)
        /\ \A i \in 1..usb.hsize : tbi[i] = Unit(t, TRUE, i - 1)
    BY <1>3 DEF Attempt
  <1>5. Got = Header + m BY <1>4 DEF Got
  <1>6. \A j \in 1..k : u[j] = Unit(t, TRUE, Got + j - 1)
    BY <1>3, <1>4, ZenonT(30) DEF Attempt
  <1>7. Synced => t = TRUE /\ im = host.image /\ host.pos = Got + k
    BY <1>3, <1>4 DEF Attempt
  <1>8. /\ usb.hsize = Header
        /\ host.step \notin {"send", "sent"} => host.pos = 0
        /\ host.step = "send" => host.pos < All
        /\ host.speed = "high" => host.pos # 1
    BY DEF DownInv, Fits
  <1> HIDE DEF k, m
  <1>9. \A i \in 1..(m + k) : mem'[i] = Unit(t, TRUE, Header + i - 1)
    <2>1. ASSUME NEW i \in 1..(m + k) PROVE mem'[i] = Unit(t, TRUE, Header + i - 1)
      <3>1. CASE i \in 1..m BY <1>1, <1>4, <3>1
      <3>2. CASE i \notin 1..m
        <4>1. /\ i \in (m + 1)..(m + k) /\ i - m \in 1..k
              /\ Header + m + (i - m) - 1 = Header + i - 1
          BY ONLY <1>2, <2>1, <3>2 DEF Header
        <4>2. u[i - m] = Unit(t, TRUE, Got + (i - m) - 1) BY <1>6, <4>1
        <4>3. QED BY <1>1, <1>5, <4>1, <4>2
      <3>3. QED BY <3>1, <3>2
    <2>2. QED BY <2>1
  <1>10. m + k = LoadSize - (usb.size - k) /\ m + k <= LoadSize
    BY ONLY <1>2, <1>4, Len(u) <= usb.size DEF k
  <1>11. CASE k < usb.size /\ usb'.loading /\ usb'.header /\ usb'.size = usb.size - k
    <2>1. Got' = Header + (LoadSize - (usb.size - k)) BY <1>11 DEF Got
    <2>2. Got' = Got + k BY ONLY <1>2, <1>4, <1>5, <2>1, SMTT(20) DEF Header
    <2>3. usb.size - k > 0 BY ONLY <1>2, <1>11
    <2>4. Fits' BY <1>1, <1>8, <1>11, <2>3 DEF Fits
    <2>5. Attempt(t, im)'
      BY <1>1, <1>4, <1>7, <1>9, <1>10, <1>11, <2>2 DEF Attempt
    <2>6. QED BY <1>1, <1>3, <1>8, <1>10, <1>11, <2>4, <2>5 DEF DownInv
  <1>12. CASE k = usb.size /\ ~usb'.loading
    <2>1. Len(mem') = LoadSize BY ONLY <1>1, <1>2, <1>10, <1>12
    <2>2. tbi = [i \in 1..Header |-> [new |-> t, off |-> i - 1]]
      <3>1. tbi \in [1..Header -> Units] BY DEF Types
      <3>2. \A i \in 1..Header : tbi[i] = [new |-> t, off |-> i - 1]
        BY <1>4, <1>8, Zenon DEF Unit
      <3>3. QED BY <3>1, <3>2, Zenon
    <2>3. mem' = [i \in 1..LoadSize |-> [new |-> t, off |-> Header + i - 1]]
      <3> DEFINE f(i) == Unit(t, TRUE, Header + i - 1)
      <3>1. DOMAIN mem' = 1..LoadSize /\ \A i \in 1..LoadSize : mem'[i] = f(i)
        <4>1. m + k = LoadSize BY <1>1, <2>1
        <4>2. DOMAIN mem' = 1..LoadSize BY <1>1, <2>1
        <4>3. QED BY <1>9, <4>1, <4>2, Zenon
      <3>2. mem' = [i \in DOMAIN mem' |-> mem'[i]] BY <1>1
      <3> HIDE DEF f
      <3>3. mem' = [i \in 1..LoadSize |-> f(i)] BY <3>1, <3>2
      <3>4. QED BY <3>3 DEF f, Unit
    <2>4. DownloadIsWhole' BY <1>1, <1>3, <2>2, <2>3, Zenon DEF DownloadIsWhole
    <2>5. QED BY <1>1, <1>8, <1>10, <1>12, <2>4 DEF DownInv
  <1>13. QED BY <1>1, <1>11, <1>12

LEMMA DownReceive ==
  ASSUME Types, PacketInv, DownInv, PktReceive
  PROVE  DownInv'
  <1>1. /\ pc = "receive" /\ pc' = "transfer" /\ UNCHANGED <<sampled, host>>
        /\ (SameUsb /\ core' = core) \/ Receives
    BY ReceiveEffect
  <1>2. Synced' <=> Synced BY <1>1 DEF Synced, Enumerated, Seen
  <1>3. usb.loading BY <1>1 DEF DownInv
  <1>4. ASSUME SameDownload, Flying(core'.rx) = Flying(core.rx) PROVE DownInv'
    <2>1. SameHost /\ host' = host BY <1>1 DEF SameHost
    <2>2. /\ host.step \notin {"send", "sent"} => host.pos = 0
          /\ host.step = "send" => host.pos < All
      BY DEF DownInv
    <2>3. QED BY <1>2, <1>3, <1>4, <2>1, <2>2, DownKept
  <1>5. CASE SameUsb /\ core' = core BY <1>4, <1>5 DEF SameUsb, SameDownload
  <1>6. CASE Receives
    <2>1. core.rx \in Seq(Entries) /\ core.rx # <<>> /\ OneOut(core.rx)
      BY <1>6 DEF Receives, Types, Cores, PacketInv
    <2>2. CASE ReadsOther \/ ReadsSetup(Head(core.rx).request)
      <3>1. core'.rx = Tail(core.rx) /\ Head(core.rx).kind # "out" /\ SameDownload
        BY <2>2 DEF ReadsOther, ReadsSetup, SameUsb, SameDownload
      <3>2. QED BY <1>4, <2>1, <3>1, PopFlying
    <2>3. CASE LeavesSetup
      <3>1. core'.rx = Spilled(core.rx) /\ Head(core.rx).kind # "out" /\ SameDownload
        BY <2>3 DEF LeavesSetup, SameUsb, SameDownload
      <3>2. QED BY <1>4, <2>1, <3>1, SpillFlying
    <2>4. CASE ReadsPacket(Head(core.rx).units)
      <3> DEFINE u == Head(core.rx).units
      <3>1. core'.rx = Tail(core.rx) /\ Head(core.rx).kind = "out"
            /\ IF usb.header THEN BulkOutPayload(u) ELSE BulkOutHeader(u)
        BY <2>4 DEF ReadsPacket
      <3>2. /\ u \in Seq(Units) /\ Len(u) \in 1..2
            /\ Flying(core.rx) = {u} /\ Flying(core'.rx) = {}
            /\ ~usb.header => usb.hsize + Len(u) <= Header
            /\ usb.header => Len(u) <= usb.size
        BY <1>1, <2>1, <3>1, PacketRead
      <3> HIDE DEF u
      <3>3. CASE usb.header BY <1>1, <1>2, <1>3, <3>1, <3>2, <3>3, DownPayload
      <3>4. CASE ~usb.header BY <1>1, <1>2, <1>3, <3>1, <3>2, <3>4, DownHeader
      <3>5. QED BY <3>3, <3>4
    <2>5. QED BY <1>6, <2>2, <2>3, <2>4 DEF Receives
  <1>7. QED BY <1>1, <1>5, <1>6

LEMMA DownResetBus ==
  ASSUME Types, PacketInv, DownInv, ResetBus
  PROVE  DownInv'
  <1>1. /\ pc # "returned" /\ UNCHANGED <<pc, sampled, usb>>
        /\ tbi' = Old(tbi) /\ mem' = Old(mem) /\ core'.rx = Aged(core.rx)
        /\ host'.step = "reset" /\ host'.pos = 0 /\ host'.speed = host.speed
    BY ResetBusEffect
  <1>2. core.rx \in Seq(Entries) /\ tbi \in [1..Header -> Units] /\ mem \in Seq(Units)
    BY DEF Types, Cores
  <1>3. /\ Len(mem') = Len(mem) /\ mem' \in Seq(Units)
        /\ \A i \in 1..Len(mem) : mem'[i] = [new |-> FALSE, off |-> mem[i].off]
        /\ \A i \in 1..Header : tbi'[i] = [new |-> FALSE, off |-> tbi[i].off]
        /\ tbi' \in [1..Header -> Units]
    BY <1>1, <1>2, OldType
  <1>4. Flying(core'.rx) = {Old(u) : u \in Flying(core.rx)}
    BY <1>1, <1>2, AgeFlying DEF PacketInv
  <1>5. \A u \in Flying(core.rx) :
          /\ Len(Old(u)) = Len(u)
          /\ \A j \in 1..Len(u) : Old(u)[j] = [new |-> FALSE, off |-> u[j].off]
    <2>1. \A u \in Flying(core.rx) : u \in Seq(Units)
      <3>1. \A i \in DOMAIN core.rx : core.rx[i] \in Entries BY <1>2
      <3>2. QED BY <3>1 DEF Flying, Entries
    <2>2. QED BY <2>1, OldType
  <1>6. ~Synced' BY <1>1 DEF Synced
  <1>7. Len(mem) <= LoadSize BY DEF DownInv
  <1>8. CASE usb.loading
    <2>1. PICK t, im \in BOOLEAN : Attempt(t, im) BY <1>8 DEF DownInv
    <2>2. Got' = Got BY <1>1 DEF Got
    <2>3. Fits BY <1>8 DEF DownInv
    <2>4. Fits' BY <1>1, <1>4, <1>5, <1>6, <2>3 DEF Fits
    <2>5. usb.hsize \in 0..Header BY DEF Types, Usbs
    <2>6. \A i \in 1..usb.hsize : tbi'[i] = Unit(FALSE, im, i - 1)
      <3>1. ASSUME NEW i \in 1..usb.hsize PROVE tbi'[i] = Unit(FALSE, im, i - 1)
        <4>1. i \in 1..Header BY <2>5 DEF Header
        <4>2. tbi[i] = Unit(t, im, i - 1) BY <2>1 DEF Attempt
        <4>3. tbi'[i] = [new |-> FALSE, off |-> tbi[i].off] BY <1>3, <4>1
        <4>4. tbi[i].off = IF im THEN i - 1 ELSE Stray BY <4>2 DEF Unit
        <4>5. QED BY <4>3, <4>4 DEF Unit
      <3>2. QED BY <3>1
    <2>7. usb.header =>
            /\ im /\ Len(mem') = LoadSize - usb.size
            /\ \A i \in 1..Len(mem') : mem'[i] = Unit(FALSE, TRUE, Header + i - 1)
      <3>1. ASSUME usb.header, NEW i \in 1..Len(mem)
            PROVE  mem'[i] = Unit(FALSE, TRUE, Header + i - 1)
        <4>1. mem[i] = Unit(t, TRUE, Header + i - 1) BY <2>1, <3>1 DEF Attempt
        <4>2. mem'[i] = [new |-> FALSE, off |-> mem[i].off] BY <1>3
        <4>3. mem[i].off = Header + i - 1 BY <4>1 DEF Unit
        <4>4. QED BY <4>2, <4>3 DEF Unit
      <3>2. QED BY <1>3, <2>1, <3>1 DEF Attempt
    <2>8. ASSUME NEW v \in Flying(core'.rx)
          PROVE  /\ \A j \in 1..Len(v) : v[j] = Unit(FALSE, im, Got + j - 1)
                 /\ im => Got + Len(v) <= All
      <3>1. PICK u \in Flying(core.rx) : v = Old(u) BY <1>4
      <3>2. ASSUME NEW j \in 1..Len(v) PROVE v[j] = Unit(FALSE, im, Got + j - 1)
        <4>1. u[j] = Unit(t, im, Got + j - 1) BY <1>5, <2>1, <3>1 DEF Attempt
        <4>2. v[j] = [new |-> FALSE, off |-> u[j].off] BY <1>5, <3>1
        <4>3. u[j].off = IF im THEN Got + j - 1 ELSE Stray BY <4>1 DEF Unit
        <4>4. QED BY <4>2, <4>3 DEF Unit
      <3>3. im => Got + Len(v) <= All BY <1>5, <2>1, <3>1 DEF Attempt
      <3>4. QED BY <3>2, <3>3
    <2>9. Attempt(FALSE, im)' BY <1>1, <1>6, <2>2, <2>6, <2>7, <2>8 DEF Attempt
    <2>10. \E b, c \in BOOLEAN : Attempt(b, c)' BY <2>1, <2>9, Zenon
    <2>11. QED BY <1>1, <1>3, <1>7, <1>8, <2>4, <2>10 DEF DownInv
  <1>9. CASE ~usb.loading
    <2>1. pc' \in {"transfer", "clear", "poll", "returned"} BY <1>1, <1>9 DEF DownInv
    <2>2. PICK t \in BOOLEAN :
            /\ tbi = [i \in 1..Header |-> [new |-> t, off |-> i - 1]]
            /\ mem = [i \in 1..LoadSize |-> [new |-> t, off |-> Header + i - 1]]
      BY <1>9 DEF DownInv, DownloadIsWhole
    <2>3. \A i \in 1..Header : tbi'[i] = [new |-> FALSE, off |-> i - 1]
      <3>1. \A i \in 1..Header : tbi[i].off = i - 1 BY <2>2
      <3>2. QED BY <1>3, <3>1
    <2>4. tbi' = [i \in 1..Header |-> [new |-> FALSE, off |-> i - 1]] BY <1>3, <2>3, Zenon
    <2>5. DOMAIN mem = 1..LoadSize /\ DOMAIN mem = 1..Len(mem)
      <3>1. DOMAIN mem = 1..LoadSize BY <2>2, Zenon
      <3>2. QED BY <1>2, <3>1
    <2>6. \A i \in 1..LoadSize : mem'[i] = [new |-> FALSE, off |-> Header + i - 1]
      <3>1. \A i \in 1..LoadSize : mem[i].off = Header + i - 1 BY <2>2
      <3>2. QED BY <1>3, <2>5, <3>1
    <2>7. mem' = [i \in 1..LoadSize |-> [new |-> FALSE, off |-> Header + i - 1]]
      <3> DEFINE f(i) == [new |-> FALSE, off |-> Header + i - 1]
      <3>1. DOMAIN mem' = 1..LoadSize /\ \A i \in 1..LoadSize : mem'[i] = f(i)
        BY <1>3, <2>5, <2>6
      <3>2. mem' = [i \in DOMAIN mem' |-> mem'[i]] BY <1>3
      <3> HIDE DEF f
      <3>3. mem' = [i \in 1..LoadSize |-> f(i)] BY <3>1, <3>2
      <3>4. QED BY <3>3 DEF f
    <2>8. DownloadIsWhole' BY <2>4, <2>7, Zenon DEF DownloadIsWhole
    <2>9. QED BY <1>1, <1>3, <1>7, <1>9, <2>1, <2>8 DEF DownInv
  <1>10. QED BY <1>8, <1>9

LEMMA DownSend ==
  ASSUME Types, PacketInv, DownInv, HostSend
  PROVE  DownInv'
  <1>0. host.pos < All BY DEF HostSend, DownInv
  <1>1. /\ host.step = "send" /\ core.active /\ core.armed /\ SameDriver
        /\ Sent \in 1..2 /\ host.pos + Sent <= All
        /\ host.speed = "high" => Sent = 2 \/ host.pos + Sent = All
        /\ host.speed # "high" => Sent = 1
        /\ Payload \in Seq(Units) /\ Len(Payload) = Sent
        /\ core'.rx = Pushed(core.rx, Out(Payload)) /\ core'.sts = core.sts
        /\ host'.step = IF host.pos + Sent = All THEN "sent" ELSE "send"
        /\ host'.pos = host.pos + Sent
        /\ host'.speed = host.speed /\ host'.image = host.image
    BY <1>0, HostSendEffect
  <1>2. /\ core.rx \in Seq(Entries) /\ host.pos \in 0..All /\ All \in Nat /\ All > 2
        /\ host.image \in BOOLEAN
    BY UsbAssumption DEF Types, Cores, Hosts, All, Header
  <1>3. Flying(core.rx) = {} /\ ~Enumerated /\ OneOut(core.rx) BY <1>1 DEF PacketInv
  <1>4. Flying(core'.rx) = {Payload}
    <2>1. /\ Out(Payload) \in Entries /\ Out(Payload).kind = "out"
          /\ Out(Payload).units = Payload
      BY <1>1 DEF Out, Entries, Requests
    <2>2. QED BY <1>1, <1>2, <1>3, <2>1, PushFlying
  <1>5. Synced BY <1>1, <1>3 DEF Synced
  <1>6. /\ host'.step \in {"send", "sent"}
        /\ host'.step = "send" => host'.pos < All
        /\ host'.speed = "high" => host'.pos # 1
        /\ Len(mem) <= LoadSize
    <2>1. host'.step = "send" => host'.pos < All BY <1>1, <1>2
    <2>2. host'.speed = "high" => host'.pos # 1 BY <1>1, <1>2
    <2>3. QED BY <1>1, <2>1, <2>2 DEF DownInv
  <1>7. CASE usb.loading
    <2>1. PICK t, im \in BOOLEAN : Attempt(t, im) BY <1>7 DEF DownInv
    <2>2. Got' = Got BY <1>1 DEF Got, SameDriver
    <2>3. t = TRUE /\ im = host.image /\ (im => host.pos = Got)
      BY <1>3, <1>5, <2>1 DEF Attempt
    <2>4. Fits BY <1>7 DEF DownInv
    <2>5. ~usb.header => usb.hsize + Sent <= Header
      <3>1. usb.hsize \in Nat BY DEF Types, Usbs
      <3>2. host.speed = "high" /\ ~usb.header => usb.hsize = 0 BY <1>1, <1>5, <2>4 DEF Fits
      <3>3. ~usb.header => usb.hsize < Header BY <2>4 DEF Fits
      <3>4. QED BY <1>1, <3>1, <3>2, <3>3 DEF Header
    <2>6. host.speed = "high" /\ host'.step # "sent" => Sent = 2 BY <1>1
    <2>7. Fits'
      <3>1. host.speed = "high" /\ ~usb.header => usb.hsize = 0 BY <1>1, <1>5, <2>4 DEF Fits
      <3>2. usb' = usb /\ Len(Payload) \in 1..2 BY <1>1 DEF SameDriver
      <3>3. IF usb.header THEN usb.hsize = Header /\ usb.size > 0 ELSE usb.hsize < Header
        BY <2>4 DEF Fits
      <3>4. QED BY <1>1, <1>4, <2>5, <2>6, <3>1, <3>2, <3>3 DEF Fits
    <2>8. Attempt(t, im)'
      <3>1. UNCHANGED <<usb, tbi, mem>> BY <1>1 DEF SameDriver
      <3>2. \A i \in 1..usb'.hsize : tbi'[i] = Unit(t, im, i - 1)
        BY <2>1, <3>1 DEF Attempt
      <3>3. usb'.header =>
              /\ im /\ Len(mem') = LoadSize - usb'.size
              /\ \A i \in 1..Len(mem') : mem'[i] = Unit(t, TRUE, Header + i - 1)
        BY <2>1, <3>1 DEF Attempt
      <3>4. \A j \in 1..Len(Payload) : Payload[j] = Unit(t, im, Got + j - 1)
        <4>1. \A j \in 1..Sent : Payload[j] = Unit(TRUE, host.image, host.pos + j - 1)
          BY DEF Payload
        <4>2. CASE im BY <1>1, <2>3, <4>1, <4>2
        <4>3. CASE ~im BY <1>1, <2>3, <4>1, <4>3 DEF Unit
        <4>4. QED BY <4>2, <4>3
      <3>5. im => Got + Len(Payload) <= All /\ host'.pos = Got + Len(Payload)
        BY <1>1, <2>3
      <3>6. QED BY <1>1, <1>4, <2>2, <2>3, <3>2, <3>3, <3>4, <3>5 DEF Attempt
    <2>9. QED BY <1>1, <1>6, <1>7, <2>1, <2>7, <2>8 DEF DownInv, SameDriver
  <1>8. CASE ~usb.loading
    <2>1. DownloadIsWhole' BY <1>1, <1>8 DEF SameDriver, DownInv, DownloadIsWhole
    <2>2. QED BY <1>1, <1>6, <1>8, <2>1 DEF DownInv, SameDriver
  <1>9. QED BY <1>7, <1>8

LEMMA DownStep ==
  ASSUME Types, FifoInv, PacketInv, DownInv, [Next]_vars
  PROVE  DownInv'
  <1>0. core.rx \in Seq(Entries) /\ core \in Cores BY DEF Types, Cores
  <1>1. /\ host.step \notin {"send", "sent"} => host.pos = 0
        /\ host.step = "send" => host.pos < All
        /\ ~usb.loading => pc \in {"transfer", "clear", "poll", "returned"}
    BY DEF DownInv
  <1>2. ASSUME SameDownload, Flying(core'.rx) = Flying(core.rx), host' = host, Synced' => Synced,
               ~usb.loading => pc' \in {"transfer", "clear", "poll", "returned"}
        PROVE  DownInv'
    <2>1. SameHost /\ host'.step = host.step BY <1>2 DEF SameHost
    <2>2. QED BY <1>1, <1>2, <2>1, DownKept
  <1>3. CASE UNCHANGED vars
    <2>1. SameDownload /\ (Synced' <=> Synced)
      BY <1>3 DEF vars, SameDownload, Synced, Enumerated, Seen
    <2>2. QED BY <1>1, <1>2, <1>3, <2>1 DEF vars
  <1>4. CASE Poll
    <2>1. /\ pc = "poll" /\ pc' = "reset" /\ sampled' = Pending /\ usb.loading
          /\ UNCHANGED <<usb, tbi, mem, core, host>>
      BY <1>4 DEF Poll
    <2>2. Synced' <=> Synced BY <2>1 DEF Synced, Enumerated, Seen, Pending
    <2>3. SameDownload BY <2>1 DEF SameDownload
    <2>4. QED BY <1>2, <2>1, <2>2, <2>3
  <1>5. CASE UsbReset
    <2>1. /\ pc = "reset" /\ pc' = "enum" /\ UNCHANGED <<sampled, host>> /\ SameDownload
          /\ core'.rx = core.rx
      BY <1>5, UsbResetEffect
    <2>2. Synced' <=> Synced BY <2>1 DEF Synced, Enumerated, Seen
    <2>3. QED BY <1>1, <1>2, <2>1, <2>2
  <1>6. CASE SetInit
    <2>1. /\ pc = "enum" /\ pc' = "receive" /\ UNCHANGED <<sampled, tbi, mem, host>>
          /\ core'.rx = core.rx /\ usb'.loading = usb.loading
          /\ \/ "EnumDone" \notin sampled /\ SameDownload
             \/ "EnumDone" \in sampled /\ ~usb'.header /\ usb'.hsize = 0
      BY <1>6, SetInitEffect
    <2>2. usb.loading BY <1>1, <2>1
    <2>3. CASE "EnumDone" \notin sampled /\ SameDownload
      <3>1. Synced' <=> Synced BY <2>1, <2>3 DEF Synced, Enumerated, Seen
      <3>2. QED BY <1>2, <2>1, <2>2, <2>3, <3>1
    <2>4. CASE "EnumDone" \in sampled /\ ~usb'.header /\ usb'.hsize = 0
      <3>1. Flying(core.rx) = {} /\ host.step \in {"reset", "device", "address"}
        BY <2>1, <2>4 DEF PacketInv, Enumerated
      <3>2. host.pos = 0 BY <1>1, <3>1
      <3>3. Got' = 0 BY <2>4 DEF Got
      <3>4. Fits' BY <2>1, <2>4, <3>1 DEF Fits, Header
      <3>5. \A i \in 1..usb'.hsize : FALSE BY <2>4
      <3>6. host.image \in BOOLEAN BY DEF Types, Hosts
      <3>7. Attempt(TRUE, host.image)'
        <4> DEFINE im == host.image
        <4>1. im' = im BY <2>1
        <4>2. QED BY <2>1, <2>4, <3>1, <3>2, <3>3, <3>5 DEF Attempt
      <3>8. \E t, im \in BOOLEAN : Attempt(t, im)' BY <2>1, <3>6, <3>7
      <3>9. QED BY <2>1, <2>2, <3>4, <3>8 DEF DownInv
    <2>5. QED BY <2>1, <2>3, <2>4
  <1>7. CASE PktReceive BY <1>7, DownReceive
  <1>8. CASE Transfer
    <2>1. /\ pc = "transfer" /\ pc' = "clear" /\ host' = host /\ SameDownload
          /\ core'.rx = core.rx
      BY <1>8, TransferEffect
    <2>2. Synced' <=> Synced BY <2>1 DEF Synced, Enumerated, Seen
    <2>3. QED BY <1>2, <2>1, <2>2
  <1>9. CASE Clear
    <2>1. /\ pc = "clear" /\ pc' = "poll" /\ UNCHANGED <<usb, tbi, mem, host>>
          /\ core'.sts = {} /\ core'.rx = core.rx
      BY <1>9, ClearEffect
    <2>2. Synced' <=> Synced BY <2>1 DEF Synced, Enumerated, Seen
    <2>3. SameDownload BY <2>1 DEF SameDownload
    <2>4. QED BY <1>2, <2>1, <2>2, <2>3
  <1>10. CASE Return
    <2>1. /\ pc = "poll" /\ ~usb.loading /\ pc' = "returned"
          /\ UNCHANGED <<sampled, usb, tbi, mem, core, host>>
      BY <1>10 DEF Return
    <2>2. DownloadIsWhole' BY <2>1 DEF DownInv, DownloadIsWhole
    <2>3. QED BY <2>1, <2>2 DEF DownInv
  <1>11. CASE ResetBus BY <1>11, DownResetBus
  <1>12. CASE EnumDone
    <2>1. /\ pc = "poll" /\ host.step = "reset" /\ SameDriver /\ core'.rx = core.rx
          /\ core'.sts = {"EnumDone"} /\ host'.step = "device" /\ host'.pos = host.pos
          /\ host'.speed = host.speed
      BY <1>12, EnumDoneEffect
    <2>2. ~Synced' /\ SameDownload /\ Got' = Got /\ UNCHANGED <<pc, usb, tbi, mem>>
      BY <2>1 DEF Synced, Enumerated, Seen, SameDriver, SameDownload, Got
    <2>3. /\ host'.step \notin {"send", "sent"} => host'.pos = 0
          /\ host'.step = "send" => host'.pos < All
          /\ host'.speed = "high" => host'.pos # 1
          /\ Len(mem') <= LoadSize
      BY <1>1, <2>1, <2>2 DEF DownInv
    <2>4. CASE usb.loading
      <3>1. PICK t, im \in BOOLEAN : Attempt(t, im) BY <2>4 DEF DownInv
      <3>2. Fits BY <2>4 DEF DownInv
      <3>3. Fits' BY <2>1, <2>2, <3>2 DEF Fits
      <3>4. Attempt(t, im)' BY <2>1, <2>2, <3>1 DEF Attempt
      <3>5. QED BY <2>2, <2>3, <2>4, <3>3, <3>4 DEF DownInv
    <2>5. CASE ~usb.loading
      <3>1. DownloadIsWhole' BY <2>2, <2>5 DEF DownInv, DownloadIsWhole
      <3>2. QED BY <1>1, <2>2, <2>3, <2>5, <3>1 DEF DownInv
    <2>6. QED BY <2>4, <2>5
  <1>13. CASE HostSetup
    <2> DEFINE e == Setup(host.step)
    <2>1. /\ host.step \in Requests /\ SameDriver /\ SameCore /\ SameHost
          /\ core'.rx = Pushed(core.rx, e) /\ host'.step = host.step
      BY <1>13, HostSetupEffect
    <2>2. e \in Entries /\ e.kind = "setup" BY <2>1 DEF Setup, Entries
    <2>3. Flying(core'.rx) = Flying(core.rx) BY <1>0, <2>1, <2>2, PushFlying DEF PacketInv
    <2>4. (Synced' <=> Synced) /\ SameDownload /\ pc' = pc
      BY <2>1 DEF SameDriver, SameCore, Synced, Enumerated, Seen, SameDownload
    <2>5. QED BY <1>1, <2>1, <2>3, <2>4, DownKept
  <1>14. CASE HostIn
    <2>1. /\ host.step \in Requests /\ SameDriver /\ SameCore /\ SameHost
          /\ Asks0 \/ Takes0 \/ Answered0
      BY <1>14, HostInEffect
    <2>2. host.pos = 0 /\ host.step \notin {"reset", "send", "sent"} /\ 0 < All
      <3>1. host.step \notin {"reset", "send", "sent"} BY <2>1 DEF Requests
      <3>2. QED BY <1>1, <3>1, UsbAssumption DEF All, Header
    <2>3. Flying(core'.rx) = Flying(core.rx) /\ host'.step \notin {"reset", "sent"}
      <3>1. CASE Asks0 \/ Takes0 BY <2>2, <3>1 DEF Asks0, Takes0
      <3>2. CASE Answered0
        <4>1. Other \in Entries /\ Other.kind = "other" BY OtherType DEF Other
        <4>2. Flying(Pushed(core.rx, Other)) = Flying(core.rx)
          BY <1>0, <4>1, PushFlying DEF PacketInv
        <4>3. host'.step \notin {"reset", "sent"}
          BY <2>1, <3>2 DEF Answered0, Requests, After
        <4>4. QED BY <3>2, <4>2, <4>3 DEF Answered0
      <3>3. QED BY <2>1, <3>1, <3>2
    <2>4. (Synced' <=> Synced) /\ SameDownload /\ pc' = pc
      BY <2>1, <2>2, <2>3 DEF SameDriver, SameCore, Synced, Enumerated, Seen, SameDownload
    <2>5. QED BY <1>1, <2>1, <2>2, <2>3, <2>4, DownKept
  <1>15. CASE HostSend BY <1>15, DownSend
  <1>16. QED
    BY <1>3, <1>4, <1>5, <1>6, <1>7, <1>8, <1>9, <1>10, <1>11, <1>12, <1>13, <1>14, <1>15
    DEF Next, Driver, Host, Retry, Abort

-----------------------------------------------------------------------------
(* The theorems.                                                           *)

Inv == Types /\ FifoInv /\ PacketInv /\ DownInv

LEMMA Inits ==
  ASSUME Init
  PROVE  Inv
  <1>1. PICK s \in Speeds, p \in Paces :
          host = [speed |-> s, pace |-> p, step |-> "reset", sent |-> FALSE, pos |-> 0,
                  bad |-> FALSE, image |-> TRUE]
    BY DEF Init
  <1>2. /\ pc = "poll" /\ sampled = {}
        /\ usb = [loading |-> TRUE, header |-> FALSE, hsize |-> 0, size |-> 0, ep0 |-> "INIT",
                  descriptor |-> "device", remain |-> 0, speed |-> "high"]
        /\ tbi = [i \in 1..Header |-> NoUnit] /\ mem = <<>>
        /\ core = [sts |-> {"USBRst"}, rx |-> <<>>, tx |-> Nothing, inToken |-> FALSE,
                   addr |-> "zero", active |-> FALSE, armed |-> FALSE]
    BY DEF Init
  <1>3. /\ s \in {"high", "full"} /\ p \in {"patient", "hurried"} /\ LoadSize \in Nat \ {0}
        /\ 0 \in 0..All /\ 0 \in 0..Header /\ 0 \in 0..LoadSize /\ 0 \in 0..2
    BY UsbAssumption DEF All, Header
  <1>4. Types
    <2>1. usb \in Usbs BY <1>2, <1>3 DEF Usbs, Descriptors
    <2>2. core \in Cores BY <1>2 DEF Cores, Nothing
    <2>3. host \in Hosts BY <1>1, <1>3 DEF Hosts, Steps, Requests
    <2>4. NoUnit \in Units BY <1>3 DEF NoUnit, Units, Stray, Header
    <2>5. tbi \in [1..Header -> Units] BY <1>2, <2>4
    <2>6. usb.ep0 = "INIT" /\ mem \in Seq(Units) BY <1>2
    <2>7. QED BY <1>2, <2>1, <2>2, <2>3, <2>5, <2>6 DEF Types
  <1>5. core.rx = <<>> /\ ~core.inToken /\ ~core.active /\ core.sts = {"USBRst"}
    BY <1>2
  <1>6. host.step = "reset" /\ host.pos = 0 BY <1>1
  <1>7. usb.loading /\ ~usb.header /\ usb.hsize = 0 BY <1>2
  <1>8. Flying(<<>>) = {} /\ OneOut(<<>>) BY DEF Flying, OneOut
  <1>9. FifoInv
    <2>1. \A r : ~Asks(<<>>, r) BY DEF Asks
    <2>2. Load(<<>>) = 0 BY <2>1 DEF Load, Weight
    <2>3. RxShape(<<>>) BY DEF RxShape
    <2>4. RxLoad BY <1>5, <1>6, <2>2 DEF RxLoad
    <2>5. QED BY <1>5, <1>6, <2>3, <2>4 DEF FifoInv, Requests
  <1>10. PacketInv BY <1>2, <1>5, <1>6, <1>8 DEF PacketInv, Enumerated, Seen
  <1>11. DownInv
    <2>1. ~Synced BY <1>6 DEF Synced
    <2>2. Fits BY <1>5, <1>7, <1>8, <2>1 DEF Fits, Header
    <2>3. \A i \in 1..usb.hsize : FALSE BY <1>7
    <2>4. Attempt(TRUE, TRUE) BY <1>5, <1>7, <1>8, <2>1, <2>3 DEF Attempt
    <2>5. Len(mem) <= LoadSize BY <1>2, <1>3
    <2>6. \E t, im \in BOOLEAN : Attempt(t, im) BY <2>4, Zenon
    <2>7. QED BY <1>6, <1>7, <2>2, <2>5, <2>6 DEF DownInv
  <1>12. QED BY <1>4, <1>9, <1>10, <1>11 DEF Inv

LEMMA Inductive == Spec => []Inv
  <1>1. Init => Inv BY Inits
  <1>2. Inv /\ [Next]_vars => Inv'
    BY TypesStep, FifoStep, PacketStep, DownStep DEF Inv
  <1>3. QED BY <1>1, <1>2, PTL DEF Spec

\* The status, the header's buffer and the FIFO keep their types: neither the
\* 512 bytes of the header nor the payload's LOADSIZE are ever overrun
\* (nx_udc_int_hndlr storing a bulk packet), and what an endless series of
\* resets leaves in the receive FIFO is eight entries at most.
THEOREM TypeCorrect == Spec => []TypeOK
  <1>1. Inv => TypeOK
    <2> SUFFICES ASSUME Inv PROVE TypeOK OBVIOUS
    <2>1. Types /\ Len(mem) <= LoadSize BY DEF Inv, DownInv
    <2>2. /\ core.sts \subseteq {"USBRst", "EnumDone"} /\ core.rx \in Seq(Entries)
          /\ core.addr \in {"zero", "new"}
          /\ {core.inToken, core.active, core.armed} \subseteq BOOLEAN
      BY <2>1 DEF Types, Cores
    <2>3. Load(core.rx) \in Nat /\ Len(core.rx) <= Load(core.rx) /\ Len(core.rx) \in Nat
      BY <2>2, LoadType
    <2>4. host.step \in {"reset", "send", "sent", "device", "address", "config", "setConfig"}
      BY <2>1 DEF Types, Hosts, Steps, Requests
    <2>5. Load(core.rx) <= 8 BY <2>3, <2>4 DEF Inv, FifoInv, RxLoad, Loads
    <2>6. Len(core.rx) <= 8 BY <2>3, <2>5
    <2>7. QED BY <2>1, <2>2, <2>6 DEF TypeOK, Types, Usbs
  <1>2. QED BY <1>1, Inductive, PTL

\* The bulk endpoint takes no packet while one is in the receive FIFO.
THEOREM OnePacket == Spec => []OnePacketAtATime
  <1>1. Inv => OnePacketAtATime BY DEF Inv, PacketInv, OnePacketAtATime, Flying
  <1>2. QED BY <1>1, Inductive, PTL

\* A download that has ended is the header and the payload of one attempt, whole
\* and in order, whatever was begun and broken off before.
THEOREM DownloadsWhole == Spec => []DownloadIsWhole
  <1>1. Inv => DownloadIsWhole BY DEF Inv, DownInv, DownloadIsWhole
  <1>2. QED BY <1>1, Inductive, PTL
=============================================================================
