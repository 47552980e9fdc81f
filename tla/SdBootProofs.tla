---------------------------- MODULE SdBootProofs ----------------------------
(***************************************************************************)
(* What holds of every SD boot attempt: for every card in every state the  *)
(* boot ROM may have left it in, every image, every size of the FIFO and   *)
(* every timeout, on a bus that loses and damages what it likes.           *)
(***************************************************************************)
EXTENDS SdBoot, TLAPS

-----------------------------------------------------------------------------
(* What commands leave of a card.                                          *)

OpenStates == {"tran", "data"}

\* It stays the same card,
Same(c, d) == d \in Cards /\ d.kind = c.kind /\ d.hc = c.hc

\* and once it is selected, selected at the same address.
Kept(c, d) ==
  /\ Same(c, d)
  /\ d.rca = c.rca
  /\ c.state \in OpenStates => d.state \in OpenStates

LEMMA NoCardIsCard == NoCard \in Cards
  BY DEF NoCard, Cards, CardKinds, CardStates, Rcas

LEMMA SameSame ==
  ASSUME NEW c, NEW d, NEW e, Same(c, d), Same(d, e)
  PROVE  Same(c, e)
  BY DEF Same

LEMMA KeptKept ==
  ASSUME NEW c, NEW d, NEW e, Kept(c, d), Kept(d, e)
  PROVE  Kept(c, e)
  BY DEF Kept, Same

Readdressing == {"GO_IDLE_STATE", "RELATIVE_ADDR"}

LEMMA PowerUpKept ==
  ASSUME NEW c \in Cards, NEW hostHcs, NEW d \in PowerUp(c, hostHcs), c.state = "idle"
  PROVE  Kept(c, d)
  BY ZenonT(30) DEF PowerUp, Kept, Same, Cards, CardStates, OpenStates

\* What a command that is answered does to the card.
LEMMA ExecutedCommand ==
  ASSUME NEW c \in Cards, NEW cmd, NEW arg, Answers(c, cmd, arg),
         cmd = "RELATIVE_ADDR" => arg \in Rcas,
         NEW d \in Executed(c, cmd, arg)
  PROVE  /\ Same(c, d)
         /\ cmd \notin Readdressing => Kept(c, d)
         /\ cmd = "SELECT_CARD" => d.state = "tran"
         /\ cmd = "RELATIVE_ADDR" => d.rca = IF IsSd(c) THEN "card" ELSE arg
  <1> DEFINE e == [c EXCEPT !.app = FALSE]
  <1> USE DEF Same, Kept, OpenStates, Readdressing
  <1>0. /\ e \in Cards /\ e.kind = c.kind /\ e.hc = c.hc /\ e.rca = c.rca
        /\ e.state = c.state
    BY DEF Cards
  <1> HIDE DEF e
  <1>1. CASE cmd = "GO_IDLE_STATE"
    <2>1. Executed(c, cmd, arg)
            = {[NoCard EXCEPT !.kind = c.kind, !.hc = c.hc, !.echo = c.echo]}
      BY <1>1, Zenon DEF Executed, e
    <2>2. QED BY <1>1, <2>1 DEF NoCard, Cards, CardStates, Rcas
  <1>2. CASE cmd = "APP_CMD"
    <2>1. Executed(c, cmd, arg) = {[c EXCEPT !.app = TRUE]}
      BY <1>2, Zenon DEF Executed, e
    <2>2. QED BY <1>2, <2>1 DEF Cards
  <1>3. CASE cmd = "SD_SEND_OP_COND"
    <2>1. Executed(c, cmd, arg) = PowerUp(e, arg) BY <1>3, Zenon DEF Executed, e
    <2>2. c.state = "idle" BY <1>3 DEF Answers
    <2>3. Kept(e, d) BY <1>0, <2>1, <2>2, PowerUpKept
    <2>4. QED BY <1>0, <1>3, <2>3
  <1>4. CASE cmd = "SEND_OP_COND"
    <2>1. Executed(c, cmd, arg) = PowerUp(e, TRUE) BY <1>4, Zenon DEF Executed, e
    <2>2. c.state = "idle" BY <1>4 DEF Answers
    <2>3. Kept(e, d) BY <1>0, <2>1, <2>2 DEF PowerUp, Cards, CardStates
    <2>4. QED BY <1>0, <1>4, <2>3
  <1>5. CASE cmd = "ALL_SEND_CID"
    <2>1. Executed(c, cmd, arg) = {[e EXCEPT !.state = "ident"]}
      BY <1>5, Zenon DEF Executed, e
    <2>2. c.state = "ready" BY <1>5 DEF Answers
    <2>3. QED BY <1>0, <1>5, <2>1, <2>2 DEF Cards, CardStates
  <1>6. CASE cmd = "RELATIVE_ADDR"
    <2>1. Executed(c, cmd, arg)
            = {[e EXCEPT !.state = "stby", !.rca = IF IsSd(c) THEN "card" ELSE arg]}
      BY <1>6, Zenon DEF Executed, e
    <2>2. (IF IsSd(c) THEN "card" ELSE arg) \in Rcas BY <1>6 DEF Rcas
    <2>3. QED BY <1>0, <1>6, <2>1, <2>2 DEF Cards, CardStates
  <1>7. CASE cmd \in {"SELECT_CARD", "STOP_TRANSMISSION"}
    <2>1. Executed(c, cmd, arg) = {[e EXCEPT !.state = "tran"]}
      BY <1>7, Zenon DEF Executed, e
    <2>2. QED BY <1>0, <1>7, <2>1 DEF Cards, CardStates
  <1>8. CASE cmd \in {"SET_BUS_WIDTH", "SWITCH_FUNC"}
    <2>1. Executed(c, cmd, arg) = {[e EXCEPT !.width = 4]}
      BY <1>8, Zenon DEF Executed, e
    <2>2. QED BY <1>0, <1>8, <2>1 DEF Cards
  <1>9. CASE cmd = "READ"
    <2>1. Executed(c, cmd, arg) = {[e EXCEPT !.state = "data"]}
      BY <1>9, Zenon DEF Executed, e
    <2>2. QED BY <1>0, <1>9, <2>1 DEF Cards, CardStates
  <1>10. CASE cmd = "SEND_STATUS"
    <2>1. Executed(c, cmd, arg)
            = {IF c.app /\ c.state = "tran" THEN [e EXCEPT !.state = "data"] ELSE e}
      BY <1>10, Zenon DEF Executed, e
    <2>2. CASE c.app /\ c.state = "tran"
      <3>1. d = [e EXCEPT !.state = "data"] BY <2>1, <2>2
      <3>2. QED BY <1>0, <1>10, <2>2, <3>1 DEF Cards, CardStates
    <2>3. CASE ~(c.app /\ c.state = "tran")
      <3>1. d = e BY <2>1, <2>3
      <3>2. QED BY <1>0, <1>10, <3>1
    <2>4. QED BY <2>2, <2>3
  <1>11. CASE cmd \in {"SEND_IF_COND", "SET_CLR_CARD_DETECT", "SET_BLOCKLEN"}
    <2>1. Executed(c, cmd, arg) = {e} BY <1>11, Zenon DEF Executed, e
    <2>2. QED BY <1>0, <1>11, <2>1
  <1>12. QED
    BY <1>1, <1>2, <1>3, <1>4, <1>5, <1>6, <1>7, <1>8, <1>9, <1>10, <1>11
    DEF Answers

LEMMA ArrivedType ==
  ASSUME NEW r \in Cards, NEW cmd, NEW s \in Arrived(cmd, r)
  PROVE  s \in Cards
  <1>1. CASE s = r BY <1>1
  <1>2. CASE s # r
    <2>1. PICK set \in SUBSET {"powered", "hc"} :
                 s = [r EXCEPT !.powered = "powered" \in set, !.hc = "hc" \in set]
      BY <1>2, Zenon DEF Arrived
    <2>2. ("powered" \in set) \in BOOLEAN /\ ("hc" \in set) \in BOOLEAN OBVIOUS
    <2>3. QED BY <2>1, <2>2, ZenonT(30) DEF Cards
  <1>3. QED BY <1>1, <1>2

\* How an exchange may end, whatever the bus does to it.
Ending(c, cmd, arg, x) ==
  /\ x.ok \in BOOLEAN /\ x.resp \in Cards
  /\ Same(c, x.card)
  /\ cmd \notin Readdressing => Kept(c, x.card)
  /\ ~x.ok => x.resp = NoCard
  /\ x.ok =>
       /\ Answers(c, cmd, arg)
       /\ cmd = "SELECT_CARD" => x.card.state = "tran"
       /\ cmd = "RELATIVE_ADDR" => x.card.rca = IF IsSd(c) THEN "card" ELSE arg

LEMMA InternalEnding ==
  ASSUME NEW c \in Cards, NEW cmd, NEW arg, cmd = "RELATIVE_ADDR" => arg \in Rcas,
         NEW x \in SendCommandInternal(c, cmd, arg)
  PROVE  Ending(c, cmd, arg, x)
  <1>1. CASE x = Failed(c)
    BY <1>1, NoCardIsCard DEF Failed, Ending, Same, Kept
  <1>2. CASE /\ Answers(c, cmd, arg)
             /\ \E d \in Executed(c, cmd, arg) : x = Failed(d)
    BY <1>2, NoCardIsCard, ExecutedCommand DEF Failed, Ending
  <1>3. CASE /\ Answers(c, cmd, arg)
             /\ \E d \in Executed(c, cmd, arg) :
                  \E r \in Arrived(cmd, IF cmd = "SEND_STATUS" THEN c ELSE d) :
                    x = [card |-> d, ok |-> TRUE, resp |-> r]
    <2>1. PICK d \in Executed(c, cmd, arg) :
                 \E r \in Arrived(cmd, IF cmd = "SEND_STATUS" THEN c ELSE d) :
                   x = [card |-> d, ok |-> TRUE, resp |-> r]
      BY <1>3
    <2>6. PICK r \in Arrived(cmd, IF cmd = "SEND_STATUS" THEN c ELSE d) :
                 x = [card |-> d, ok |-> TRUE, resp |-> r]
      BY <2>1
    <2>2. d \in Cards BY <1>3, ExecutedCommand DEF Same
    <2>3. r \in Cards BY <2>2, ArrivedType
    <2>4. x.ok /\ x.card = d /\ x.resp = r BY <2>6
    <2>5. QED BY <1>3, <2>2, <2>3, <2>4, ExecutedCommand DEF Ending
  <1>4. CASE ~Answers(c, cmd, arg) BY <1>1, <1>4 DEF SendCommandInternal
  <1>5. CASE Answers(c, cmd, arg)
    <2>1. \/ \E d \in Executed(c, cmd, arg) \cup {c} : x = Failed(d)
          \/ \E d \in Executed(c, cmd, arg) :
               \E r \in Arrived(cmd, IF cmd = "SEND_STATUS" THEN c ELSE d) :
                 x = [card |-> d, ok |-> TRUE, resp |-> r]
      <3>1. x \in Answered(c, cmd, arg) \/ x \in Missed(c, cmd, arg)
        BY <1>5 DEF SendCommandInternal
      <3>2. CASE x \in Answered(c, cmd, arg)
        <4> DEFINE Good(d) == {[card |-> d, ok |-> TRUE, resp |-> r] :
                                 r \in Arrived(cmd, IF cmd = "SEND_STATUS" THEN c ELSE d)}
        <4>1. x \in UNION {Good(d) : d \in Executed(c, cmd, arg)}
          BY <3>2 DEF Answered
        <4> HIDE DEF Good
        <4>2. PICK d \in Executed(c, cmd, arg) : x \in Good(d) BY <4>1
        <4> USE DEF Good
        <4>3. QED BY <4>2
      <3>3. CASE x \in Missed(c, cmd, arg) BY <3>3 DEF Missed
      <3>4. QED BY <3>1, <3>2, <3>3
    <2>2. QED BY <1>1, <1>2, <1>3, <1>5, <2>1
  <1>6. QED BY <1>4, <1>5

LEMMA CommandEnding ==
  ASSUME NEW c \in Cards, NEW cmd, NEW arg, NEW rca,
         cmd = "RELATIVE_ADDR" => arg \in Rcas,
         NEW x \in SendCommand(c, cmd, arg, rca)
  PROVE  Ending(c, cmd, arg, x)
  <1>1. PICK y \in SendCommandInternal(c, cmd, arg) :
               x \in IF y.ok THEN {y}
                     ELSE {Failed(z.card) :
                             z \in SendCommandInternal(y.card, "SEND_STATUS", rca)}
    BY DEF SendCommand
  <1>2. Ending(c, cmd, arg, y) BY InternalEnding
  <1>3. CASE y.ok BY <1>1, <1>2, <1>3
  <1>4. CASE ~y.ok
    <2>1. PICK z \in SendCommandInternal(y.card, "SEND_STATUS", rca) : x = Failed(z.card)
      BY <1>1, <1>4
    <2>2. y.card \in Cards BY <1>2 DEF Ending, Same
    <2>3. Ending(y.card, "SEND_STATUS", rca, z) BY <2>2, InternalEnding
    <2>4. Kept(y.card, z.card) BY <2>3 DEF Ending, Readdressing
    <2>5. ~x.ok /\ x.ok \in BOOLEAN /\ x.card = z.card /\ x.resp = NoCard
      BY <2>1 DEF Failed
    <2>6. Same(c, z.card) BY <1>2, <2>4 DEF Ending, Kept, Same
    <2>7. cmd \notin Readdressing => Kept(c, z.card)
      BY <1>2, <2>4, KeptKept DEF Ending
    <2>8. QED BY <2>5, <2>6, <2>7, NoCardIsCard DEF Ending
  <1>5. QED BY <1>3, <1>4

\* An application command keeps the card, whether it was executed or not.
LEMMA AppCommandEnding ==
  ASSUME NEW c \in Cards, NEW cmd, NEW arg, NEW rca, cmd \notin Readdressing,
         NEW x \in SendAppCommand(c, cmd, arg, rca)
  PROVE  /\ x.ok \in BOOLEAN
         /\ Kept(c, x.card)
         /\ x.resp \in Cards
  <1>1. PICK y \in SendCommandInternal(c, "APP_CMD", rca) :
               x \in IF ~y.ok THEN {y}
                     ELSE {[z EXCEPT !.ok = TRUE] :
                             z \in SendCommand(y.card, cmd, arg, rca)}
    BY DEF SendAppCommand
  <1>2. Ending(c, "APP_CMD", rca, y) BY InternalEnding
  <1>3. Kept(c, y.card) BY <1>2 DEF Ending, Readdressing
  <1>4. CASE ~y.ok BY <1>1, <1>2, <1>3, <1>4 DEF Ending
  <1>5. CASE y.ok
    <2>1. PICK z \in SendCommand(y.card, cmd, arg, rca) : x = [z EXCEPT !.ok = TRUE]
      BY <1>1, <1>5
    <2>2. y.card \in Cards BY <1>3 DEF Kept, Same
    <2>3. Ending(y.card, cmd, arg, z) BY <2>2, CommandEnding DEF Readdressing
    <2>4. x.ok \in BOOLEAN /\ x.card = z.card /\ x.resp = z.resp
      BY <2>1, <2>3 DEF Ending
    <2>5. Kept(y.card, z.card) /\ z.resp \in Cards BY <2>3 DEF Ending
    <2>6. QED BY <1>3, <2>4, <2>5, KeptKept
  <1>6. QED BY <1>4, <1>5

-----------------------------------------------------------------------------
(* What the driver knows of the card.                                      *)

OpenedPcs == ReadPcs \cup {"fifoReset", "readDone"}
AddressedPcs == OpenPcs \cup OpenedPcs
IdentifiedPcs == AddressedPcs \cup {"allSendCid", "relativeAddr"}

\* From the answer to an OP_COND on the driver has the card's kind and the
\* addressing that was answered, from RELATIVE_ADDR on its address, from
\* SELECT_CARD on its data.
CardInv ==
  /\ pc \in {"sdOpCond", "sdPowerUp"} => IsSd(card)
  /\ pc \in IdentifiedPcs =>
       /\ driver.type = IF card.kind = "MMC" THEN "MMC" ELSE "SDMEM"
       /\ driver.hc = opCond.hc
  /\ pc \in AddressedPcs => driver.rca = card.rca
  /\ pc \in OpenedPcs \cup {"pullUp", "blockLength", "busWidth"}
       => card.state \in OpenStates

-----------------------------------------------------------------------------
(* What a read has brought so far.                                         *)

LoopPcs == {"poll", "waitFifo", "sample", "drain", "clear", "check"}

\* Where the card begins to read, and how much the driver asks of it.
FirstUnit == Addressed(Argument)
AllUnits == reading.n * Block

\* Before the first read nothing is under way, before each command nothing is
\* left of the last one but its final CRC.
AtRest ==
  /\ pc \in IdentifyPcs \cup OpenPcs \cup {"fifoReset"}
       => xfer = Idle /\ fifo = <<>> /\ tbi = <<>>
  /\ pc \in {"waitBusy", "sendStatus", "readCmd", "readDone", "autoStop"}
       => fifo = <<>> /\ xfer.left = 0
  /\ pc \in {"waitBusy", "sendStatus", "readCmd"}
       => ~xfer.stop /\ buffer = <<>> /\ corrupt = {}
  /\ pc \in {"sendStatus", "readCmd"} => ~xfer.crc
  /\ pc \in {"close", "done"} => xfer.left = 0

\* The header's sector in pTBI, if it was read from where it is.
HeaderIn == driver.hc = card.hc => tbi = <<Device * Block, Device * Block + 1>>

\* The header's sector, then the sectors the header asks for.
WhichRead ==
  pc \in OpenedPcs \ {"fifoReset", "stop"} =>
    /\ tbi = <<>> => reading = [sector |-> Device, n |-> 1]
    /\ tbi # <<>> => /\ reading = [sector |-> Device + 1, n |-> Sectors(header)]
                     /\ HeaderIn
\* Only a read of several sectors is followed by a stop command.
StopsMany ==
  pc \in LoopPcs \cup {"autoStop", "readDone"} /\ xfer.stop => reading.n > 1

\* Memory, then the FIFO, then what the card sends next continue each other.
InOrder ==
  pc \in LoopPcs =>
    /\ \A i \in 1..Len(buffer) : buffer[i] = FirstUnit + i - 1
    /\ \A i \in 1..Len(fifo) : fifo[i] = FirstUnit + Len(buffer) + i - 1
    /\ xfer.next = FirstUnit + Len(buffer) + Len(fifo)
    /\ Len(buffer) + Len(fifo) + xfer.left <= AllUnits

\* Units are missing only after an error that the loop has yet to see.
NothingLost ==
  pc \in LoopPcs =>
    \/ Len(buffer) + Len(fifo) + xfer.left = AllUnits
    \/ xfer.left = 0 /\ "ERR" \in rintsts

\* What the loop still expects is what it has not stored.
CountsRest ==
  /\ pc \in {"poll", "waitFifo", "sample", "clear", "check"} => count = AllUnits - Len(buffer)
  /\ pc = "drain" => fsize <= Len(fifo) /\ count = AllUnits - Len(buffer) - fsize

\* Every damaged sector but the one whose CRC is due has been reported.
ErrorsSeen ==
  pc \in LoopPcs =>
    \A s \in corrupt : "ERR" \in rintsts \/ (xfer.crc /\ s = (xfer.next - 1) \div Block)

\* The bits that make the loop look at the FIFO promise that it fills, unless an
\* error has ended the read: the wait for it does not end with its last poll.
FifoFills ==
  /\ pc \in LoopPcs \ {"clear"} => ("RXDR" \in rintsts => fifo # <<>>)
  /\ pc \in LoopPcs => ("DTO" \in rintsts => xfer.left = 0)
  /\ pc = "poll" => count # 0
  /\ pc = "waitFifo" =>
       /\ fifo = <<>> => xfer.left = 0 /\ "ERR" \in rintsts
       /\ timeout = FifoTimeout \/ fifo = <<>>

Whole ==
  /\ Len(buffer) = AllUnits
  /\ \A i \in 1..Len(buffer) : buffer[i] = FirstUnit + i - 1

WholeAtEnd ==
  pc \in {"autoStop", "readDone"} =>
    Whole /\ corrupt \subseteq {(FirstUnit + AllUnits - 1) \div Block}

ResultWhole ==
  result =>
    /\ pc \in {"close", "done"}
    /\ reading = [sector |-> Device + 1, n |-> Sectors(header)]
    /\ HeaderIn
    /\ Whole

ReadInv ==
  /\ AtRest /\ WhichRead /\ StopsMany /\ InOrder /\ NothingLost /\ CountsRest
  /\ ErrorsSeen /\ FifoFills /\ WholeAtEnd /\ ResultWhole

-----------------------------------------------------------------------------
(* Types.                                                                  *)

\* What an exchange leaves in the variables it changes.
LEMMA ExchangeTypes ==
  ASSUME TypeOK, NEW cmd, NEW arg, NEW rca, NEW x, Exchanged(x),
         \/ /\ cmd = "RELATIVE_ADDR" => arg \in Rcas
            /\ \/ x \in SendCommand(card, cmd, arg, rca)
               \/ x \in SendCommandInternal(card, cmd, arg)
         \/ /\ cmd \notin Readdressing /\ cmd # "SEND_STATUS"
            /\ x \in SendAppCommand(card, cmd, arg, rca)
  PROVE  /\ card' \in Cards /\ rintsts' \subseteq Bits /\ Same(card, card')
         /\ x.ok \in BOOLEAN /\ x.resp \in Cards
  <1>1. card \in Cards BY DEF TypeOK
  <1>2. x.ok \in BOOLEAN /\ x.resp \in Cards /\ x.card \in Cards /\ Same(card, x.card)
    <2>1. CASE x \in SendCommand(card, cmd, arg, rca) /\ (cmd = "RELATIVE_ADDR" => arg \in Rcas)
      BY <1>1, <2>1, CommandEnding DEF Ending, Same
    <2>2. CASE x \in SendCommandInternal(card, cmd, arg) /\ (cmd = "RELATIVE_ADDR" => arg \in Rcas)
      BY <1>1, <2>2, InternalEnding DEF Ending, Same
    <2>3. CASE /\ cmd \notin Readdressing /\ cmd # "SEND_STATUS"
               /\ x \in SendAppCommand(card, cmd, arg, rca)
      BY <1>1, <2>3, AppCommandEnding, NoCardIsCard DEF Kept, Same
    <2>4. QED BY <2>1, <2>2, <2>3
  <1>3. QED BY <1>2 DEF Exchanged

Drivers == [type : {"UNKNOWN", "SDMEM", "MMC"}, rca : Rcas, hc : BOOLEAN]

\* The card that is asked to read, and may refuse the offset, is kept.
LEMMA StartedKept ==
  ASSUME NEW c \in Cards
  PROVE  Kept(c, Started(c))
  BY DEF Started, Kept, Same, Cards, CardStates, OpenStates

LEMMA ReadExchange ==
  ASSUME TypeOK, NEW arg,
         \E x \in SendCommand(card, "READ", arg, driver.rca) :
           Exchanged([card |-> IF x.ok THEN Started(x.card) ELSE x.card])
  PROVE  Kept(card, card') /\ rintsts' = {}
  <1>1. PICK x \in SendCommand(card, "READ", arg, driver.rca) :
               Exchanged([card |-> IF x.ok THEN Started(x.card) ELSE x.card])
    OBVIOUS
  <1>2. card \in Cards BY DEF TypeOK
  <1>3. Kept(card, x.card) BY <1>2, CommandEnding DEF Ending, Readdressing
  <1>4. Kept(x.card, Started(x.card)) BY <1>3, StartedKept DEF Kept, Same
  <1>5. card' \in {x.card, Started(x.card)} /\ rintsts' = {}
    BY <1>1 DEF Exchanged
  <1>6. QED BY <1>3, <1>4, <1>5, KeptKept

LEMMA PoweredTypes ==
  ASSUME driver \in Drivers, opCond' \in Cards,
         Powered("MMC") \/ Powered("SDMEM")
  PROVE  driver' \in Drivers
  <1>1. opCond'.hc \in BOOLEAN BY DEF Cards
  <1>2. QED BY <1>1 DEF Powered, Drivers

LEMMA TypeIdentify ==
  ASSUME TypeOK, IdentifyCard
  PROVE  TypeOK'
  <1> USE SdAssumption
      DEF TypeOK, Drivers, config, identify, control, loop, Pcs, IdentifyPcs,
          OpenPcs, ReadPcs
  <1>1. CASE IdentifyClock
    BY <1>1
    DEF IdentifyClock, SetClock, Fail, Rcas
  <1>2. CASE GoIdle("goIdle", "ifCond")
    <2>1. PICK x \in SendCommand(card, "GO_IDLE_STATE", "zero", driver.rca) :
            Exchanged(x)
      BY <1>2 DEF GoIdle
    <2>2. /\ card' \in Cards /\ rintsts' \subseteq Bits
          /\ x.ok \in BOOLEAN /\ x.resp \in Cards
      BY <2>1, ExchangeTypes DEF Rcas
    <2>9. QED
      BY <1>2, <2>1, <2>2
      DEF GoIdle, KeepRead, Fail
  <1>3. CASE SendIfCond
    <2>1. PICK x \in SendCommandInternal(card, "SEND_IF_COND", "zero") :
            Exchanged(x) /\ hcs' = x.ok
      BY <1>3 DEF SendIfCond
    <2>2. /\ card' \in Cards /\ rintsts' \subseteq Bits
          /\ x.ok \in BOOLEAN /\ x.resp \in Cards
      BY <2>1, ExchangeTypes DEF Rcas
    <2>9. QED
      BY <1>3, <2>1, <2>2
      DEF SendIfCond, KeepRead, Fail
  <1>4. CASE AppCmd
    <2>1. PICK x \in SendCommandInternal(card, "APP_CMD", driver.rca) :
            Exchanged(x)
      BY <1>4 DEF AppCmd
    <2>2. /\ card' \in Cards /\ rintsts' \subseteq Bits
          /\ x.ok \in BOOLEAN /\ x.resp \in Cards
      BY <2>1, ExchangeTypes DEF Rcas
    <2>9. QED
      BY <1>4, <2>1, <2>2
      DEF AppCmd, KeepRead, Fail
  <1>5. CASE SdOpCond
    <2>1. PICK x \in SendCommandInternal(card, "SD_SEND_OP_COND", hcs) :
            Exchanged(x) /\ opCond' = x.resp
      BY <1>5 DEF SdOpCond
    <2>2. /\ card' \in Cards /\ rintsts' \subseteq Bits
          /\ x.ok \in BOOLEAN /\ x.resp \in Cards
      BY <2>1, ExchangeTypes DEF Rcas
    <2>9. QED
      BY <1>5, <2>1, <2>2
      DEF SdOpCond, KeepRead, Fail
  <1>6. CASE SdRetry
    <2>1. PICK x \in SendAppCommand(card, "SD_SEND_OP_COND", hcs, driver.rca) :
            Exchanged(x) /\ opCond' \in {opCond, x.resp}
      BY <1>6 DEF SdRetry
    <2>2. /\ card' \in Cards /\ rintsts' \subseteq Bits
          /\ x.ok \in BOOLEAN /\ x.resp \in Cards
      BY <2>1, ExchangeTypes DEF Readdressing
    <2>3. timeout' \in Nat BY <1>6, SMTT(20) DEF SdRetry
    <2>4. opCond' \in Cards BY <1>6, <2>1, <2>2
    <2>5. pc' \in {"sdPowerUp", "close"} BY <1>6 DEF SdRetry, Fail
    <2>9. QED
      BY <1>6, <2>2, <2>3, <2>4, <2>5, SMTT(20) DEF SdRetry, KeepRead
  <1>7. CASE SdPoweredUp
    <2>1. driver' \in Drivers BY <1>7, PoweredTypes DEF SdPoweredUp
    <2>9. QED
      BY <1>7, <2>1
      DEF SdPoweredUp, Powered, KeepRead, Exchanged
  <1>8. CASE GoIdle("mmcIdle", "mmcOpCond")
    <2>1. PICK x \in SendCommand(card, "GO_IDLE_STATE", "zero", driver.rca) :
            Exchanged(x)
      BY <1>8 DEF GoIdle
    <2>2. /\ card' \in Cards /\ rintsts' \subseteq Bits
          /\ x.ok \in BOOLEAN /\ x.resp \in Cards
      BY <2>1, ExchangeTypes DEF Rcas
    <2>9. QED
      BY <1>8, <2>1, <2>2
      DEF GoIdle, KeepRead, Fail
  <1>9. CASE MmcOpCond
    <2>1. PICK x \in SendCommand(card, "SEND_OP_COND", TRUE, driver.rca) :
            Exchanged(x) /\ opCond' = x.resp
      BY <1>9 DEF MmcOpCond, Powered
    <2>2. /\ card' \in Cards /\ rintsts' \subseteq Bits
          /\ x.ok \in BOOLEAN /\ x.resp \in Cards
      BY <2>1, ExchangeTypes DEF Rcas
    <2>3. opCond' \in Cards BY <2>1, <2>2
    <2>4. driver' \in Drivers
      <3>1. CASE UNCHANGED driver BY <3>1
      <3>2. CASE Powered("MMC") BY <2>3, <3>2, PoweredTypes
      <3>3. QED BY <1>9, <3>1, <3>2 DEF MmcOpCond
    <2>5. timeout' \in Nat BY <1>9, SMTT(20) DEF MmcOpCond
    <2>6. pc' \in {pc, "allSendCid", "close"} BY <1>9, Zenon DEF MmcOpCond, Powered, Fail
    <2>9. QED
      BY <1>9, <2>1, <2>2, <2>3, <2>4, <2>5, <2>6
      DEF MmcOpCond, KeepRead, Fail, Powered
  <1>10. CASE AllSendCid
    <2>1. PICK x \in SendCommand(card, "ALL_SEND_CID", "zero", driver.rca) :
            Exchanged(x)
      BY <1>10 DEF AllSendCid, Command
    <2>2. /\ card' \in Cards /\ rintsts' \subseteq Bits
          /\ x.ok \in BOOLEAN /\ x.resp \in Cards
      BY <2>1, ExchangeTypes DEF Rcas
    <2>9. QED
      BY <1>10, <2>1, <2>2
      DEF AllSendCid, KeepRead, Fail, Command
  <1>11. CASE RelativeAddr
    <2>1. PICK x \in SendCommand(card, "RELATIVE_ADDR", "host", driver.rca) :
            Exchanged(x)
      BY <1>11 DEF RelativeAddr, Command
    <2>2. /\ card' \in Cards /\ rintsts' \subseteq Bits
          /\ x.ok \in BOOLEAN /\ x.resp \in Cards
      BY <2>1, ExchangeTypes DEF Rcas
    <2>3. driver' \in Drivers
      <3>1. card'.rca \in Rcas /\ "host" \in Rcas BY <2>2 DEF Cards, Rcas
      <3>2. CASE driver' = [driver EXCEPT !.rca = IF driver.type = "SDMEM" THEN card'.rca ELSE "host"]
        BY <3>1, <3>2
      <3>3. QED BY <1>11, <3>2 DEF RelativeAddr
    <2>9. QED
      BY <1>11, <2>1, <2>2, <2>3
      DEF RelativeAddr, KeepRead, Fail, Command
  <1>12. QED
    BY <1>1, <1>2, <1>3, <1>4, <1>5, <1>6, <1>7, <1>8, <1>9, <1>10, <1>11 DEF IdentifyCard

LEMMA TypeOpen ==
  ASSUME TypeOK, OpenCard
  PROVE  TypeOK'
  <1> USE SdAssumption
      DEF TypeOK, Drivers, config, identify, control, loop, Pcs, IdentifyPcs,
          OpenPcs, ReadPcs
  <1>1. CASE FastClock
    BY <1>1, SMTT(20)
    DEF FastClock, SetClock, Fail
  <1>2. CASE SelectCard
    <2>1. PICK x \in SendCommand(card, "SELECT_CARD", driver.rca, driver.rca) :
            Exchanged(x)
      BY <1>2 DEF SelectCard, Command
    <2>2. /\ card' \in Cards /\ rintsts' \subseteq Bits
          /\ x.ok \in BOOLEAN /\ x.resp \in Cards
      BY <2>1, ExchangeTypes DEF Rcas
    <2>9. QED
      BY <1>2, <2>1, <2>2
      DEF SelectCard, KeepRead, Fail, Command
  <1>3. CASE SetCardDetectPullUp
    <2>1. card' \in Cards /\ rintsts' \subseteq Bits
      <3>1. CASE driver.type = "SDMEM"
        <4>1. PICK x \in SendAppCommand(card, "SET_CLR_CARD_DETECT", FALSE, driver.rca) :
                Exchanged(x)
          BY <1>3, <3>1 DEF SetCardDetectPullUp
        <4>2. QED BY <4>1, ExchangeTypes DEF Readdressing
      <3>2. CASE driver.type # "SDMEM" BY <1>3, <3>2 DEF SetCardDetectPullUp
      <3>3. QED BY <3>1, <3>2
    <2>9. QED
      BY <1>3, <2>1
      DEF SetCardDetectPullUp, KeepRead
  <1>4. CASE SetBlockLength
    <2>1. PICK x \in SendCommand(card, "SET_BLOCKLEN", Block, driver.rca) :
            Exchanged(x)
      BY <1>4 DEF SetBlockLength, Command
    <2>2. /\ card' \in Cards /\ rintsts' \subseteq Bits
          /\ x.ok \in BOOLEAN /\ x.resp \in Cards
      BY <2>1, ExchangeTypes DEF Rcas
    <2>9. QED
      BY <1>4, <2>1, <2>2
      DEF SetBlockLength, KeepRead, Fail, Command
  <1>5. CASE SetBusWidth
    <2>1. card' \in Cards /\ rintsts' \subseteq Bits
      <3>1. CASE driver.type = "SDMEM"
        <4>1. PICK x \in SendAppCommand(card, "SET_BUS_WIDTH", 2, driver.rca) :
                Exchanged(x)
          BY <1>5, <3>1 DEF SetBusWidth
        <4>2. QED BY <4>1, ExchangeTypes DEF Readdressing
      <3>2. CASE driver.type # "SDMEM"
        <4>1. PICK x \in SendCommand(card, "SWITCH_FUNC", 1, driver.rca) : Exchanged(x)
          BY <1>5, <3>2 DEF SetBusWidth
        <4>2. QED BY <4>1, ExchangeTypes
      <3>3. QED BY <3>1, <3>2
    <2>9. QED
      BY <1>5, <2>1
      DEF SetBusWidth, KeepRead
  <1>6. QED
    BY <1>1, <1>2, <1>3, <1>4, <1>5 DEF OpenCard

\* Sequences of units, taken apart and put together.
LEMMA SplitSeq ==
  ASSUME NEW s \in Seq(Nat), NEW k \in 0..Len(s)
  PROVE  /\ SubSeq(s, 1, k) \in Seq(Nat) /\ Len(SubSeq(s, 1, k)) = k
         /\ \A i \in 1..k : SubSeq(s, 1, k)[i] = s[i]
         /\ SubSeq(s, k + 1, Len(s)) \in Seq(Nat)
         /\ Len(SubSeq(s, k + 1, Len(s))) = Len(s) - k
         /\ \A i \in 1..(Len(s) - k) : SubSeq(s, k + 1, Len(s))[i] = s[k + i]
  OBVIOUS

LEMMA JoinSeq ==
  ASSUME NEW s \in Seq(Nat), NEW t \in Seq(Nat)
  PROVE  /\ s \o t \in Seq(Nat) /\ Len(s \o t) = Len(s) + Len(t)
         /\ \A i \in 1..Len(s) : (s \o t)[i] = s[i]
         /\ \A i \in 1..Len(t) : (s \o t)[Len(s) + i] = t[i]
  OBVIOUS

LEMMA HalfType ==
  ASSUME NEW n \in Nat
  PROVE  n \div Block \in Nat
  BY DEF Block

Transfers == [next : Nat, left : Nat, crc : BOOLEAN, stop : BOOLEAN]

\* A unit from the card goes to the end of the FIFO.
LEMMA ReceiveEffect ==
  ASSUME TypeOK, Receive
  PROVE  /\ xfer.left > 0 /\ ~xfer.crc /\ Len(fifo) < FifoSize
         /\ fifo' = Append(fifo, xfer.next)
         /\ rintsts' = rintsts \cup {"RXDR"}
         /\ xfer' \in Transfers
         /\ xfer'.next = xfer.next + 1 /\ xfer'.left = xfer.left - 1
         /\ xfer'.stop = xfer.stop
         /\ \/ UNCHANGED corrupt
            \/ xfer'.crc /\ corrupt' = corrupt \cup {xfer.next \div Block}
         /\ UNCHANGED <<card, pc, config, identify, loop>>
  <1> DEFINE ends == (xfer.next + 1) % Block = 0
  <1>1. /\ xfer.left > 0 /\ ~xfer.crc /\ Len(fifo) < FifoSize
        /\ fifo' = Append(fifo, xfer.next)
        /\ rintsts' = rintsts \cup {"RXDR"}
        /\ UNCHANGED <<card, pc, config, identify, loop>>
    BY Zenon DEF Receive
  <1>2. /\ xfer' = [xfer EXCEPT !.next = xfer.next + 1, !.left = xfer.left - 1,
                                !.crc = ends]
        /\ \/ UNCHANGED corrupt
           \/ ends /\ corrupt' = corrupt \cup {xfer.next \div Block}
    BY Zenon DEF Receive
  <1>3. ends \in BOOLEAN OBVIOUS
  <1>4. xfer \in Transfers BY DEF TypeOK, Transfers
  <1> HIDE DEF ends
  <1>5. /\ xfer'.next = xfer.next + 1 /\ xfer'.left = xfer.left - 1
        /\ xfer'.stop = xfer.stop /\ xfer'.crc = ends
    BY <1>2, <1>4 DEF Transfers
  <1>6. xfer' = [next |-> xfer.next + 1, left |-> xfer.left - 1, crc |-> ends,
                 stop |-> xfer.stop]
    BY <1>2, <1>4 DEF Transfers
  <1>7. xfer.next + 1 \in Nat /\ xfer.left - 1 \in Nat BY <1>1, <1>4 DEF Transfers
  <1>8. xfer' \in Transfers BY <1>3, <1>4, <1>6, <1>7 DEF Transfers
  <1>9. QED BY <1>1, <1>2, <1>5, <1>8

\* What was in the FIFO when it was looked at goes to memory.
LEMMA DrainEffect ==
  ASSUME TypeOK, ReadInv, Drain
  PROVE  /\ fsize \in 0..Len(fifo)
         /\ buffer' \in Seq(Nat) /\ fifo' \in Seq(Nat)
         /\ Len(buffer') = Len(buffer) + fsize /\ Len(fifo') = Len(fifo) - fsize
         /\ \A i \in 1..Len(buffer) : buffer'[i] = buffer[i]
         /\ \A i \in 1..fsize : buffer'[Len(buffer) + i] = fifo[i]
         /\ \A i \in 1..(Len(fifo) - fsize) : fifo'[i] = fifo[fsize + i]
  <1>1. /\ buffer' = buffer \o SubSeq(fifo, 1, fsize)
        /\ fifo' = SubSeq(fifo, fsize + 1, Len(fifo))
    BY DEF Drain
  <1>2. fsize \in 0..Len(fifo)
    BY DEF Drain, TypeOK, ReadInv, CountsRest
  <1>3. buffer \in Seq(Nat) /\ fifo \in Seq(Nat) BY DEF TypeOK
  <1>4. /\ SubSeq(fifo, 1, fsize) \in Seq(Nat) /\ Len(SubSeq(fifo, 1, fsize)) = fsize
        /\ \A i \in 1..fsize : SubSeq(fifo, 1, fsize)[i] = fifo[i]
        /\ fifo' \in Seq(Nat) /\ Len(fifo') = Len(fifo) - fsize
        /\ \A i \in 1..(Len(fifo) - fsize) : fifo'[i] = fifo[fsize + i]
    BY <1>1, <1>2, <1>3, SplitSeq
  <1> DEFINE taken == SubSeq(fifo, 1, fsize)
  <1> HIDE DEF taken
  <1>5. taken \in Seq(Nat) /\ Len(taken) = fsize BY <1>4 DEF taken
  <1>6. buffer' = buffer \o taken BY <1>1 DEF taken
  <1>7. /\ buffer' \in Seq(Nat) /\ Len(buffer') = Len(buffer) + fsize
        /\ \A i \in 1..Len(buffer) : buffer'[i] = buffer[i]
        /\ \A i \in 1..fsize : buffer'[Len(buffer) + i] = taken[i]
    BY <1>3, <1>5, <1>6, JoinSeq
  <1>8. QED BY <1>2, <1>4, <1>7 DEF taken

LEMMA NextUnitType ==
  ASSUME TypeOK
  PROVE  Addressed(Argument) \in Nat
  BY DEF TypeOK, Addressed, Argument, Block

LEMMA UnitsOfSectors ==
  ASSUME NEW n \in Nat
  PROVE  n * Block \in Nat
  BY DEF Block

LEMMA TypeRead ==
  ASSUME TypeOK, ReadInv, ReadSectors
  PROVE  TypeOK'
  <1>0. reading.n \in Nat BY DEF TypeOK
  <1> USE SdAssumption
      DEF TypeOK, config, identify, control, loop, Pcs, IdentifyPcs, OpenPcs, ReadPcs,
          Fail
  <1>1. CASE WaitBusy BY <1>1 DEF WaitBusy
  <1>2. CASE SendStatus
    <2>1. PICK x \in SendCommand(card, "SEND_STATUS", driver.rca, driver.rca) :
            Exchanged(x)
      BY <1>2 DEF SendStatus
    <2>2. card' \in Cards /\ rintsts' \subseteq Bits BY <2>1, ExchangeTypes DEF Rcas
    <2>3. QED BY <1>2, <2>2 DEF SendStatus, KeepRead
  <1>3. CASE ReadCommand
    <2>2. card' \in Cards /\ rintsts' \subseteq Bits
      BY <1>3, ReadExchange DEF ReadCommand, Kept, Same
    <2>3. xfer' \in [next : Nat, left : Nat, crc : BOOLEAN, stop : BOOLEAN]
      <3>1. CASE UNCHANGED xfer BY <3>1
      <3>2. CASE xfer' = [next |-> Addressed(Argument), left |-> reading.n * Block,
                          crc |-> FALSE, stop |-> reading.n > 1]
        <4>1. reading.n * Block \in Nat /\ (reading.n > 1) \in BOOLEAN
          BY ONLY <1>0, UnitsOfSectors
        <4>2. QED BY <3>2, <4>1, NextUnitType
      <3>3. QED BY <1>3, <3>1, <3>2 DEF ReadCommand
    <2>4. count' \in Nat
      <3>1. reading.n * Block \in Nat BY ONLY <1>0, UnitsOfSectors
      <3>2. count' = count \/ count' = reading.n * Block BY <1>3 DEF ReadCommand
      <3>3. QED BY <3>1, <3>2
    <2>5. QED BY <1>3, <2>2, <2>3, <2>4 DEF ReadCommand
  <1>4. CASE Poll BY <1>4 DEF Poll
  <1>5. CASE WaitFifo
    <2>1. timeout' \in Nat BY <1>5, SMTT(20) DEF WaitFifo
    <2>2. QED BY <1>5, <2>1 DEF WaitFifo, EndOfRead
  <1>6. CASE Sample
    <2>1. count' \in Nat
      <3>1. count = AllUnits - Len(buffer) /\ Len(buffer) + Len(fifo) + xfer.left <= AllUnits
        BY <1>6 DEF Sample, ReadInv, CountsRest, InOrder, LoopPcs
      <3>2. AllUnits \in Nat BY ONLY <1>0, UnitsOfSectors DEF AllUnits
      <3>3. Len(buffer) \in Nat /\ Len(fifo) \in Nat /\ xfer.left \in Nat BY SMTT(20)
      <3>4. count' = count - Len(fifo) BY <1>6 DEF Sample
      <3>5. ASSUME NEW a \in Nat, NEW b \in Nat, NEW f \in Nat, NEW l \in Nat,
                   b + f + l <= a
            PROVE  (a - b) - f \in Nat
        BY <3>5
      <3>6. QED BY <3>1, <3>2, <3>3, <3>4, <3>5
    <2>2. fsize' \in 0..FifoSize BY <1>6 DEF Sample
    <2>3. QED BY <1>6, <2>1, <2>2 DEF Sample
  <1>7. CASE Drain
    <2>1. buffer' \in Seq(Nat) /\ fifo' \in Seq(Nat) /\ Len(fifo') <= FifoSize
      <3>1. Len(fifo') = Len(fifo) - fsize /\ fsize \in Nat /\ Len(fifo) \in Nat
        BY <1>7, DrainEffect, SMTT(20)
      <3>2. buffer' \in Seq(Nat) /\ fifo' \in Seq(Nat) BY <1>7, DrainEffect
      <3>3. Len(fifo) <= FifoSize /\ FifoSize \in Nat OBVIOUS
      <3>4. QED BY ONLY <3>1, <3>2, <3>3
    <2>2. QED BY <1>7, <2>1 DEF Drain
  <1>12. CASE ClearRequest BY <1>12 DEF ClearRequest
  <1>8. CASE Check BY <1>8 DEF Check, EndOfRead
  <1>9. CASE AutoStop BY <1>9 DEF AutoStop
  <1>10. CASE StopTransmission
    <2>1. PICK x \in SendCommandInternal(card, "STOP_TRANSMISSION", "zero") :
            Exchanged(x)
      BY <1>10 DEF StopTransmission
    <2>2. card' \in Cards /\ rintsts' \subseteq Bits BY <2>1, ExchangeTypes DEF Rcas
    <2>3. QED BY <1>10, <2>2, SMTT(20) DEF StopTransmission, Idle
  <1>11. QED
    BY <1>1, <1>2, <1>3, <1>4, <1>5, <1>6, <1>7, <1>8, <1>9, <1>10, <1>12 DEF ReadSectors

LEMMA TypeController ==
  ASSUME TypeOK, Controller
  PROVE  TypeOK'
  <1> USE SdAssumption DEF TypeOK, config, identify, control, loop, Bits
  <1>1. CASE Receive
    <2>1. fifo' \in Seq(Nat) /\ Len(fifo') <= FifoSize
      <3>1. /\ fifo \in Seq(Nat) /\ Len(fifo) < FifoSize /\ FifoSize \in Nat
            /\ xfer.next \in Nat /\ fifo' = Append(fifo, xfer.next)
        BY <1>1, ReceiveEffect
      <3>2. QED BY ONLY <3>1
    <2>2. corrupt' \subseteq Nat
      <3>1. /\ corrupt \subseteq Nat /\ xfer.next \in Nat
            /\ corrupt' = corrupt \/ corrupt' = corrupt \cup {xfer.next \div Block}
        BY <1>1, ReceiveEffect
      <3>2. xfer.next \div Block \in Nat BY ONLY <3>1, HalfType
      <3>3. QED BY ONLY <3>1, <3>2
    <2>3. QED BY <1>1, <2>1, <2>2, ReceiveEffect, ZenonT(30) DEF Transfers
  <1>2. CASE BlockEnd
    <2>1. card' \in Cards BY <1>2 DEF BlockEnd, Cards, CardStates
    <2>2. QED BY <1>2, <2>1 DEF BlockEnd
  <1>3. CASE AutoStopSent
    <2>1. card' \in Cards BY <1>3, ZenonT(30) DEF AutoStopSent, Cards, CardStates
    <2>2. QED BY <1>3, <2>1 DEF AutoStopSent
  <1>4. CASE DataError BY <1>4 DEF DataError
  <1>5. CASE CardDone
    <2>1. card' \in Cards BY <1>5 DEF CardDone, Cards, CardStates
    <2>2. QED BY <1>5, <2>1 DEF CardDone
  <1>6. QED BY <1>1, <1>2, <1>3, <1>4, <1>5 DEF Controller

LEMMA SectorsType ==
  ASSUME TypeOK, NEW h \in Images
  PROVE  /\ Sectors(h) \in Nat
         /\ Sectors(h) * Block >= h.loadsize + Header
         /\ h.loadsize \in Nat
  BY SdAssumption DEF Sectors, Block, Header

LEMMA TypeBoot ==
  ASSUME TypeOK, FifoReset \/ HeaderRead \/ PayloadRead \/ Shutdown
  PROVE  TypeOK'
  <1> USE SdAssumption
      DEF TypeOK, config, identify, control, loop, Pcs, ReadPcs, Fail
  <1>1. CASE FifoReset BY <1>1 DEF FifoReset, StartRead
  <1>2. CASE HeaderRead
    <2>1. header' \in Images BY <1>2 DEF HeaderRead
    <2>2. reading' \in [sector : Nat, n : Nat]
      <3>1. Sectors(header') \in Nat BY <2>1, SectorsType
      <3>2. Device + 1 \in Nat BY SMTT(20)
      <3>3. reading' = reading
              \/ reading' = [sector |-> Device + 1, n |-> Sectors(header')]
        BY <1>2 DEF HeaderRead, StartRead
      <3>4. reading \in [sector : Nat, n : Nat] OBVIOUS
      <3>5. QED BY ONLY <3>1, <3>2, <3>3, <3>4
    <2>3. /\ corrupt' \subseteq Nat /\ buffer' \in Seq(Nat)
          /\ count' = count /\ fsize' = fsize /\ pc' \in {"close", "waitBusy"}
      BY <1>2 DEF HeaderRead, StartRead
    <2>4. QED BY <1>2, <2>1, <2>2, <2>3 DEF HeaderRead
  <1>3. CASE PayloadRead BY <1>3 DEF PayloadRead
  <1>4. CASE Shutdown BY <1>4 DEF Shutdown, Idle
  <1>5. QED BY <1>1, <1>2, <1>3, <1>4

LEMMA TypeStep ==
  ASSUME TypeOK, ReadInv, [Next]_vars
  PROVE  TypeOK'
  <1>1. CASE UNCHANGED vars
    BY <1>1 DEF TypeOK, vars, config, identify, control, loop
  <1>2. CASE LockedOut \/ WriteAgain
    BY <1>2 DEF TypeOK, LockedOut, WriteAgain, Bits, config, identify, control, loop
  <1>3. QED
    BY <1>1, <1>2, TypeIdentify, TypeOpen, TypeRead, TypeController, TypeBoot
    DEF Next, Driver

LEMMA TypeInit == Init => TypeOK
  <1> SUFFICES ASSUME Init PROVE TypeOK OBVIOUS
  <1>1. card \in Cards /\ image \in Images /\ header \in Images
    BY SdAssumption DEF Init
  <1>2. driver \in Drivers BY DEF Init, Drivers, Rcas
  <1>3. fsize \in 0..FifoSize /\ Len(fifo) <= FifoSize
    BY SdAssumption DEF Init
  <1>4. xfer \in Transfers BY DEF Init, Idle, Transfers
  <1>5. reading \in [sector : Nat, n : Nat] BY DEF Init
  <1>6. /\ fifo \in Seq(Nat) /\ buffer \in Seq(Nat) /\ tbi \in Seq(Nat)
        /\ corrupt \subseteq Nat /\ rintsts \subseteq Bits
    BY DEF Init
  <1>7. hcs \in BOOLEAN /\ result \in BOOLEAN BY Zenon DEF Init
  <1>8. pc \in Pcs /\ timeout \in Nat /\ ctype \in {1, 4} /\ count \in Nat
    BY DEF Init, Pcs, IdentifyPcs
  <1>9. opCond \in Cards BY NoCardIsCard DEF Init
  <1>10. QED
    BY <1>1, <1>2, <1>3, <1>4, <1>5, <1>6, <1>7, <1>8, <1>9
    DEF Transfers, TypeOK, Drivers

LEMMA CardIdentify ==
  ASSUME TypeOK, CardInv, IdentifyCard
  PROVE  CardInv'
  <1> card \in Cards BY DEF TypeOK
  <1> USE DEF CardInv, IdentifyPcs, OpenPcs, ReadPcs, OpenedPcs, AddressedPcs,
          IdentifiedPcs, config, identify, control, loop
  <1>1. CASE IdentifyClock BY <1>1 DEF IdentifyClock, SetClock, Fail
  <1>2. CASE GoIdle("goIdle", "ifCond")
    <2>1. PICK x \in SendCommand(card, "GO_IDLE_STATE", "zero", driver.rca) :
            Exchanged(x)
      BY <1>2 DEF GoIdle
    <2>2. Same(card, x.card)
      BY <2>1, CommandEnding DEF Ending, Readdressing, Rcas
    <2>3. card' = x.card BY <2>1 DEF Exchanged
    <2>4. QED
      BY <1>2, <2>1, <2>2, <2>3
      DEF GoIdle, KeepRead, Fail, Kept, Same
  <1>3. CASE SendIfCond
    <2>1. PICK x \in SendCommandInternal(card, "SEND_IF_COND", "zero") :
            Exchanged(x)
      BY <1>3 DEF SendIfCond
    <2>2. Kept(card, x.card)
      BY <2>1, InternalEnding DEF Ending, Readdressing, Rcas
    <2>3. card' = x.card BY <2>1 DEF Exchanged
    <2>4. QED
      BY <1>3, <2>1, <2>2, <2>3
      DEF SendIfCond, KeepRead, Fail, Kept, Same
  <1>4. CASE AppCmd
    <2>1. PICK x \in SendCommandInternal(card, "APP_CMD", driver.rca) :
            Exchanged(x) /\ pc' = IF x.ok THEN "sdOpCond" ELSE "mmcIdle"
      BY <1>4 DEF AppCmd
    <2>2. Kept(card, x.card) /\ (x.ok => Answers(card, "APP_CMD", driver.rca))
      BY <2>1, InternalEnding DEF Ending, Readdressing, Rcas
    <2>3. card' = x.card BY <2>1 DEF Exchanged
    <2>4. QED
      BY <1>4, <2>1, <2>2, <2>3
      DEF AppCmd, KeepRead, Fail, Kept, Same, Answers, IsSd
  <1>5. CASE SdOpCond
    <2>1. PICK x \in SendCommandInternal(card, "SD_SEND_OP_COND", hcs) :
            Exchanged(x) /\ opCond' = x.resp /\ (pc' = "sdPowerUp" => x.ok)
      BY <1>5 DEF SdOpCond, Fail
    <2>2. Kept(card, x.card)
      BY <2>1, InternalEnding DEF Ending, Readdressing, Rcas
    <2>3. card' = x.card BY <2>1 DEF Exchanged
    <2>4. QED
      BY <1>5, <2>1, <2>2, <2>3
      DEF SdOpCond, KeepRead, Fail, Kept, Same, IsSd
  <1>6. CASE SdRetry
    <2>1. PICK x \in SendAppCommand(card, "SD_SEND_OP_COND", hcs, driver.rca) :
            Exchanged(x)
      BY <1>6 DEF SdRetry
    <2>2. Kept(card, x.card)
      BY <2>1, AppCommandEnding DEF Readdressing
    <2>3. card' = x.card BY <2>1 DEF Exchanged
    <2>4. QED
      BY <1>6, <2>1, <2>2, <2>3
      DEF SdRetry, KeepRead, Fail, Kept, Same, IsSd
  <1>7. CASE SdPoweredUp BY <1>7 DEF SdPoweredUp, Powered, KeepRead, IsSd, TypeOK
  <1>8. CASE GoIdle("mmcIdle", "mmcOpCond")
    <2>1. PICK x \in SendCommand(card, "GO_IDLE_STATE", "zero", driver.rca) :
            Exchanged(x)
      BY <1>8 DEF GoIdle
    <2>2. Same(card, x.card)
      BY <2>1, CommandEnding DEF Ending, Readdressing, Rcas
    <2>3. card' = x.card BY <2>1 DEF Exchanged
    <2>4. QED
      BY <1>8, <2>1, <2>2, <2>3
      DEF GoIdle, KeepRead, Fail, Kept, Same
  <1>9. CASE MmcOpCond
    <2>1. PICK x \in SendCommand(card, "SEND_OP_COND", TRUE, driver.rca) :
            /\ Exchanged(x) /\ opCond' = x.resp
            /\ pc' = pc \/ pc' = "close" \/ (x.ok /\ Powered("MMC"))
      BY <1>9 DEF MmcOpCond, Fail
    <2>2. Ending(card, "SEND_OP_COND", TRUE, x) BY <2>1, CommandEnding
    <2>3. Kept(card, x.card) BY <2>2 DEF Ending, Readdressing
    <2>4. card' = x.card BY <2>1 DEF Exchanged
    <2>5. pc = "mmcOpCond" BY <1>9 DEF MmcOpCond
    <2>6. CASE pc' \in {"mmcOpCond", "close"} BY <2>6
    <2>7. CASE x.ok /\ Powered("MMC")
      <3>2. Answers(card, "SEND_OP_COND", TRUE) BY <2>2, <2>7 DEF Ending
      <3>3. card.kind = "MMC" BY <3>2 DEF Answers
      <3>4. driver \in Drivers BY DEF TypeOK, Drivers
      <3>5. opCond'.hc \in BOOLEAN BY <2>1, <2>2 DEF Ending, Cards
      <3>6. pc' = "allSendCid" /\ driver'.type = "MMC" /\ driver'.hc = opCond'.hc
        BY <2>7, <3>4, <3>5 DEF Powered, Drivers
      <3>7. QED BY <2>3, <2>4, <3>3, <3>6 DEF Kept, Same
    <2>8. QED BY <2>1, <2>5, <2>6, <2>7
  <1>10. CASE AllSendCid
    <2>1. PICK x \in SendCommand(card, "ALL_SEND_CID", "zero", driver.rca) :
            Exchanged(x)
      BY <1>10 DEF AllSendCid, Command
    <2>2. Kept(card, x.card)
      BY <2>1, CommandEnding DEF Ending, Readdressing, Rcas
    <2>3. card' = x.card BY <2>1 DEF Exchanged
    <2>4. QED
      BY <1>10, <2>1, <2>2, <2>3
      DEF AllSendCid, KeepRead, Fail, Kept, Same, Command
  <1>11. CASE RelativeAddr
    <2>1. PICK x \in SendCommand(card, "RELATIVE_ADDR", "host", driver.rca) :
            Exchanged(x) /\ pc' = IF x.ok THEN "fastClock" ELSE "close"
      BY <1>11 DEF RelativeAddr, Command, Fail
    <2>2. Same(card, x.card) /\ (x.ok => Answers(card, "RELATIVE_ADDR", "host")
             /\ x.card.rca = IF IsSd(card) THEN "card" ELSE "host")
      BY <2>1, CommandEnding DEF Ending, Readdressing, Rcas
    <2>3. card' = x.card BY <2>1 DEF Exchanged
    <2>4. QED
      BY <1>11, <2>1, <2>2, <2>3
      DEF RelativeAddr, KeepRead, Fail, Kept, Same, Command, Answers, IsSd,
          TypeOK, Cards, CardKinds
  <1>12. QED
    BY <1>1, <1>2, <1>3, <1>4, <1>5, <1>6, <1>7, <1>8, <1>9, <1>10, <1>11 DEF IdentifyCard

LEMMA CardOpen ==
  ASSUME TypeOK, CardInv, OpenCard
  PROVE  CardInv'
  <1> card \in Cards BY DEF TypeOK
  <1> USE DEF CardInv, IdentifyPcs, OpenPcs, ReadPcs, OpenedPcs, AddressedPcs,
          IdentifiedPcs, config, identify, control, loop
  <1>1. CASE FastClock BY <1>1 DEF FastClock, SetClock, Fail
  <1>2. CASE SelectCard
    <2>1. PICK x \in SendCommand(card, "SELECT_CARD", driver.rca, driver.rca) :
            Exchanged(x) /\ pc' = IF x.ok THEN "pullUp" ELSE "close"
      BY <1>2 DEF SelectCard, Command, Fail
    <2>2. Kept(card, x.card) /\ (x.ok => x.card.state = "tran")
      BY <2>1, CommandEnding DEF Ending, Readdressing, Rcas
    <2>3. card' = x.card BY <2>1 DEF Exchanged
    <2>4. QED
      BY <1>2, <2>1, <2>2, <2>3
      DEF SelectCard, KeepRead, Fail, Kept, Same, Command, OpenStates
  <1>3. CASE SetCardDetectPullUp
    <2>1. Kept(card, card')
      <3>1. CASE driver.type = "SDMEM"
        <4>1. PICK x \in SendAppCommand(card, "SET_CLR_CARD_DETECT", FALSE, driver.rca) :
                Exchanged(x)
          BY <1>3, <3>1 DEF SetCardDetectPullUp
        <4>2. QED BY <4>1, AppCommandEnding DEF Readdressing, Exchanged
      <3>2. CASE driver.type # "SDMEM"
        BY <1>3, <3>2 DEF SetCardDetectPullUp, Kept, Same
      <3>3. QED BY <3>1, <3>2
    <2>2. QED BY <1>3, <2>1 DEF SetCardDetectPullUp, Kept, Same
  <1>4. CASE SetBlockLength
    <2>1. PICK x \in SendCommand(card, "SET_BLOCKLEN", Block, driver.rca) :
            Exchanged(x)
      BY <1>4 DEF SetBlockLength, Command
    <2>2. Kept(card, x.card)
      BY <2>1, CommandEnding DEF Ending, Readdressing, Rcas
    <2>3. card' = x.card BY <2>1 DEF Exchanged
    <2>4. QED
      BY <1>4, <2>1, <2>2, <2>3
      DEF SetBlockLength, KeepRead, Fail, Kept, Same, Command
  <1>5. CASE SetBusWidth
    <2>1. Kept(card, card')
      <3>1. CASE driver.type = "SDMEM"
        <4>1. PICK x \in SendAppCommand(card, "SET_BUS_WIDTH", 2, driver.rca) :
                Exchanged(x)
          BY <1>5, <3>1 DEF SetBusWidth
        <4>2. QED BY <4>1, AppCommandEnding DEF Readdressing, Exchanged
      <3>2. CASE driver.type # "SDMEM"
        <4>1. PICK x \in SendCommand(card, "SWITCH_FUNC", 1, driver.rca) : Exchanged(x)
          BY <1>5, <3>2 DEF SetBusWidth
        <4>2. QED BY <4>1, CommandEnding DEF Ending, Readdressing, Exchanged
      <3>3. QED BY <3>1, <3>2
    <2>2. QED BY <1>5, <2>1 DEF SetBusWidth, Kept, Same
  <1>6. QED BY <1>1, <1>2, <1>3, <1>4, <1>5 DEF OpenCard

LEMMA CardRead ==
  ASSUME TypeOK, CardInv, ReadSectors
  PROVE  CardInv'
  <1> card \in Cards BY DEF TypeOK
  <1> USE DEF CardInv, IdentifyPcs, OpenPcs, ReadPcs, OpenedPcs, AddressedPcs,
          IdentifiedPcs, config, identify, control, loop
  <1>1. CASE WaitBusy BY <1>1 DEF WaitBusy
  <1>2. CASE SendStatus
    <2>1. PICK x \in SendCommand(card, "SEND_STATUS", driver.rca, driver.rca) :
            Exchanged(x)
      BY <1>2 DEF SendStatus
    <2>2. Kept(card, x.card)
      BY <2>1, CommandEnding DEF Ending, Readdressing, Rcas
    <2>3. card' = x.card BY <2>1 DEF Exchanged
    <2>4. QED
      BY <1>2, <2>1, <2>2, <2>3
      DEF SendStatus, KeepRead, Fail, Kept, Same
  <1>3. CASE ReadCommand
    <2>1. Kept(card, card') BY <1>3, ReadExchange DEF ReadCommand
    <2>2. QED BY <1>3, <2>1 DEF ReadCommand, Kept, Same
  <1>4. CASE Poll BY <1>4 DEF Poll
  <1>5. CASE WaitFifo BY <1>5 DEF WaitFifo, EndOfRead
  <1>6. CASE Sample BY <1>6 DEF Sample
  <1>7. CASE Drain BY <1>7 DEF Drain
  <1>12. CASE ClearRequest BY <1>12 DEF ClearRequest
  <1>8. CASE Check BY <1>8 DEF Check, EndOfRead
  <1>9. CASE AutoStop BY <1>9 DEF AutoStop
  <1>10. CASE StopTransmission BY <1>10 DEF StopTransmission, Fail
  <1>11. QED
    BY <1>1, <1>2, <1>3, <1>4, <1>5, <1>6, <1>7, <1>8, <1>9, <1>10, <1>12 DEF ReadSectors

LEMMA CardRest ==
  ASSUME TypeOK, CardInv, \/ FifoReset \/ HeaderRead \/ PayloadRead \/ Shutdown
                         \/ LockedOut \/ WriteAgain \/ Controller \/ UNCHANGED vars
  PROVE  CardInv'
  <1> USE DEF CardInv, IdentifyPcs, OpenPcs, ReadPcs, OpenedPcs, AddressedPcs,
          IdentifiedPcs, config, identify, control, loop
  <1>1. CASE FifoReset BY <1>1 DEF FifoReset, StartRead
  <1>2. CASE HeaderRead BY <1>2 DEF HeaderRead, StartRead, Fail
  <1>3. CASE PayloadRead BY <1>3 DEF PayloadRead
  <1>4. CASE Shutdown BY <1>4 DEF Shutdown
  <1>5. CASE Receive BY <1>5, ReceiveEffect
  <1>6. ASSUME UNCHANGED <<pc, driver, opCond>>, card' \in {card, [card EXCEPT !.state = "tran"]}
        PROVE  CardInv'
    BY <1>6 DEF TypeOK, Cards, IsSd, OpenStates
  <1>7. CASE BlockEnd BY <1>6, <1>7 DEF BlockEnd
  <1>8. CASE AutoStopSent BY <1>6, <1>8 DEF AutoStopSent
  <1>9. CASE DataError BY <1>9 DEF DataError
  <1>10. CASE CardDone BY <1>6, <1>10 DEF CardDone
  <1>11. CASE UNCHANGED vars BY <1>11 DEF vars
  <1>12. CASE LockedOut \/ WriteAgain BY <1>12 DEF LockedOut, WriteAgain
  <1>13. QED
    BY <1>1, <1>2, <1>3, <1>4, <1>5, <1>7, <1>8, <1>9, <1>10, <1>11, <1>12
    DEF Controller

LEMMA CardStep ==
  ASSUME TypeOK, CardInv, [Next]_vars
  PROVE  CardInv'
  BY CardIdentify, CardOpen, CardRead, CardRest DEF Next, Driver

LEMMA CardInit == Init => CardInv
  BY DEF Init, CardInv, IdentifiedPcs, AddressedPcs, OpenedPcs, OpenPcs, ReadPcs

-----------------------------------------------------------------------------
(* A read.                                                                 *)

ReadVars == <<pc, driver, xfer, fifo, corrupt, reading, count, fsize, buffer, tbi,
              header, result>>

LEMMA FirstUnitKept ==
  ASSUME UNCHANGED <<driver, reading>>, card'.hc = card.hc
  PROVE  FirstUnit' = FirstUnit /\ AllUnits' = AllUnits
  BY DEF FirstUnit, AllUnits, Addressed, Argument

\* Nothing that a read is about changes.
LEMMA ReadKept ==
  ASSUME ReadInv, UNCHANGED ReadVars, timeout' = timeout, card'.hc = card.hc,
         \A b \in {"ERR", "RXDR", "DTO"} : b \in rintsts' <=> b \in rintsts
  PROVE  ReadInv'
  <1>1. FirstUnit' = FirstUnit /\ AllUnits' = AllUnits BY FirstUnitKept DEF ReadVars
  <1>2. HeaderIn' <=> HeaderIn BY DEF HeaderIn, ReadVars
  <1>3. QED
    BY <1>1, <1>2
    DEF ReadInv, ReadVars, AtRest, WhichRead, StopsMany, InOrder, NothingLost,
        CountsRest, ErrorsSeen, FifoFills, WholeAtEnd, ResultWhole, Whole

\* Before the first read.
LEMMA ReadBefore ==
  ASSUME ReadInv, pc \in IdentifyPcs \cup OpenPcs,
         pc' \in IdentifyPcs \cup OpenPcs \cup {"fifoReset", "close"},
         UNCHANGED <<xfer, fifo, corrupt, loop, config>>
  PROVE  ReadInv'
  BY DEF ReadInv, AtRest, WhichRead, StopsMany, InOrder, NothingLost, CountsRest,
         ErrorsSeen, FifoFills, WholeAtEnd, ResultWhole,
         IdentifyPcs, OpenPcs, OpenedPcs, ReadPcs, LoopPcs, Idle, loop, config

LEMMA ReadIdentify ==
  ASSUME ReadInv, IdentifyCard
  PROVE  ReadInv'
  <1>1. UNCHANGED <<xfer, fifo, corrupt, loop, config>>
    BY DEF IdentifyCard, IdentifyClock, SetClock, GoIdle, SendIfCond, AppCmd, SdOpCond,
           SdRetry, SdPoweredUp, MmcOpCond, AllSendCid, RelativeAddr, KeepRead, control
  <1>2. /\ pc \in IdentifyPcs
        /\ pc' \in IdentifyPcs \cup OpenPcs \cup {"fifoReset", "close"}
    BY DEF IdentifyCard, IdentifyClock, SetClock, GoIdle, SendIfCond, AppCmd, SdOpCond,
           SdRetry, SdPoweredUp, Powered, MmcOpCond, AllSendCid, RelativeAddr, Command,
           Fail, IdentifyPcs, OpenPcs
  <1>3. QED BY <1>1, <1>2, ReadBefore

LEMMA ReadOpen ==
  ASSUME ReadInv, OpenCard
  PROVE  ReadInv'
  <1>1. UNCHANGED <<xfer, fifo, corrupt, loop, config>>
    BY DEF OpenCard, FastClock, SetClock, SelectCard, SetCardDetectPullUp,
           SetBlockLength, SetBusWidth, KeepRead, control
  <1>2. /\ pc \in OpenPcs
        /\ pc' \in IdentifyPcs \cup OpenPcs \cup {"fifoReset", "close"}
    BY DEF OpenCard, FastClock, SetClock, SelectCard, SetCardDetectPullUp,
           SetBlockLength, SetBusWidth, Command, Fail, OpenPcs
  <1>3. QED BY <1>1, <1>2, ReadBefore

LEMMA ReadStarted ==
  ASSUME TypeOK, ReadInv, SendStatus \/ WaitBusy \/ FifoReset
  PROVE  ReadInv'
  <1> USE DEF ReadInv, AtRest, WhichRead, StopsMany, InOrder, NothingLost, CountsRest,
         ErrorsSeen, FifoFills, WholeAtEnd, ResultWhole, HeaderIn, IdentifyPcs, OpenPcs,
         OpenedPcs, ReadPcs, LoopPcs, loop, config, identify, control
  <1>1. CASE SendStatus
    <2>1. PICK x \in SendCommand(card, "SEND_STATUS", driver.rca, driver.rca) :
            Exchanged(x)
      BY <1>1 DEF SendStatus
    <2>2. card'.hc = card.hc BY <2>1, ExchangeTypes DEF Same
    <2>3. QED BY <1>1, <2>2 DEF SendStatus, KeepRead
  <1>2. CASE WaitBusy BY <1>2 DEF WaitBusy, FsmBusy
  <1>3. CASE FifoReset
    BY <1>3 DEF FifoReset, StartRead, Idle
  <1>4. QED BY <1>1, <1>2, <1>3

\* It is the unit the driver means, if it knows the card's capacity.
LEMMA AsksForFirst ==
  ASSUME TypeOK, driver.hc = card.hc
  PROVE  FirstUnit = reading.sector * Block
  <1>1. reading.sector \in Nat BY DEF TypeOK
  <1>2. QED BY <1>1 DEF Addressed, Argument, FirstUnit, Block

LEMMA SomeUnits ==
  ASSUME TypeOK, ReadInv, pc \in OpenedPcs \ {"fifoReset", "stop"}
  PROVE  reading.n \in Nat /\ reading.n > 0
  <1>1. header \in Images BY DEF TypeOK
  <1>2. header.loadsize \in Nat BY <1>1, SdAssumption
  <1>3. Sectors(header) \in Nat /\ Sectors(header) > 0
    BY <1>2 DEF Sectors, Block, Header
  <1>4. reading.n = 1 \/ reading.n = Sectors(header)
    BY DEF ReadInv, WhichRead
  <1>5. QED BY <1>3, <1>4

LEMMA ReadCommanded ==
  ASSUME TypeOK, CardInv, ReadInv, ReadCommand
  PROVE  ReadInv'
  <1>1. pc = "readCmd" /\ fifo = <<>> /\ buffer = <<>> /\ corrupt = {} /\ ~result
        /\ pc' \in {"poll", "stop"} /\ ~xfer.stop
    BY DEF ReadCommand, ReadInv, AtRest, ResultWhole
  <1>2. UNCHANGED <<fifo, corrupt, reading, fsize, buffer, config, driver>>
    BY DEF ReadCommand, identify
  <1>10. card'.hc = card.hc /\ rintsts' = {}
    BY ReadExchange DEF ReadCommand, Kept, Same
  <1>11. FirstUnit' = FirstUnit /\ AllUnits' = AllUnits BY <1>2, <1>10, FirstUnitKept
  <1>3. pc' = "poll" =>
          /\ count' = AllUnits
          /\ xfer' = [next |-> FirstUnit, left |-> AllUnits, crc |-> FALSE,
                      stop |-> reading.n > 1]
          /\ rintsts' = {}
    BY <1>10 DEF ReadCommand, AllUnits, FirstUnit
  <1>4. reading.n \in Nat /\ reading.n > 0 /\ AllUnits \in Nat /\ AllUnits > 0
        /\ FirstUnit \in Nat
    BY <1>1, SomeUnits, NextUnitType DEF OpenedPcs, ReadPcs, AllUnits, FirstUnit, Block
  <1>5. WhichRead'
    BY <1>1, <1>2, <1>10 DEF ReadInv, WhichRead, HeaderIn, OpenedPcs, ReadPcs, config
  <1>6. CASE pc' = "stop"
    BY <1>1, <1>2, <1>5, <1>6
    DEF ReadInv, AtRest, StopsMany, InOrder, NothingLost, CountsRest, ErrorsSeen,
        FifoFills, WholeAtEnd, ResultWhole, IdentifyPcs, OpenPcs, LoopPcs, config
  <1>7. CASE pc' = "poll"
    <2> DEFINE many == reading.n > 1
    <2>1. many \in BOOLEAN OBVIOUS
    <2>2. xfer' = [next |-> FirstUnit, left |-> AllUnits, crc |-> FALSE, stop |-> many]
      BY <1>3, <1>7
    <2> HIDE DEF many
    <2>3. /\ xfer'.next = FirstUnit /\ xfer'.left = AllUnits
          /\ ~xfer'.crc /\ xfer'.stop = many
      BY <2>1, <2>2
    <2>4. /\ fifo' = <<>> /\ buffer' = <<>> /\ corrupt' = {} /\ ~result'
          /\ reading' = reading /\ FirstUnit' = FirstUnit /\ AllUnits' = AllUnits
      BY <1>1, <1>2, <1>11 DEF config
    <2>5. Len(fifo') = 0 /\ Len(buffer') = 0 BY <2>4
    <2>6. StopsMany' BY <2>3, <2>4 DEF StopsMany, many
    <2>7. InOrder' BY <1>4, <2>3, <2>4, <2>5 DEF InOrder
    <2>8. CountsRest' /\ NothingLost'
      BY <1>3, <1>4, <1>7, <2>3, <2>4, <2>5 DEF CountsRest, NothingLost
    <2>9. AtRest' /\ ErrorsSeen' /\ FifoFills' /\ WholeAtEnd' /\ ResultWhole'
      BY <1>3, <1>4, <1>7, <2>4
      DEF AtRest, ErrorsSeen, FifoFills, WholeAtEnd, ResultWhole, IdentifyPcs, OpenPcs
    <2>10. QED BY <1>5, <2>6, <2>7, <2>8, <2>9 DEF ReadInv
  <1>8. QED BY <1>1, <1>6, <1>7

\* The loop that empties the FIFO.
LEMMA LoopFacts ==
  ASSUME TypeOK, ReadInv, pc \in LoopPcs
  PROVE  /\ FirstUnit \in Nat /\ AllUnits \in Nat /\ reading.n \in Nat /\ reading.n > 0
         /\ Len(buffer) \in Nat /\ Len(fifo) \in Nat /\ xfer.left \in Nat
         /\ xfer.next = FirstUnit + Len(buffer) + Len(fifo)
         /\ Len(buffer) + Len(fifo) + xfer.left <= AllUnits
         /\ ~result
  <1>1. reading.n \in Nat /\ reading.n > 0
    BY SomeUnits DEF LoopPcs, OpenedPcs, ReadPcs
  <1>2. FirstUnit \in Nat /\ AllUnits \in Nat
    BY NextUnitType DEF TypeOK, FirstUnit, AllUnits, Block
  <1>3. QED BY <1>1, <1>2 DEF TypeOK, ReadInv, InOrder, ResultWhole, LoopPcs

\* The loop and the controller leave the driver's state and the kind of card alone.
LEMMA LoopKeeps ==
  ASSUME TypeOK, \/ Poll \/ WaitFifo \/ Sample \/ Drain \/ ClearRequest \/ Check
                 \/ AutoStop \/ PayloadRead \/ Shutdown \/ Controller
  PROVE  /\ driver' = driver /\ card'.hc = card.hc /\ reading' = reading
         /\ FirstUnit' = FirstUnit /\ AllUnits' = AllUnits
         /\ UNCHANGED <<tbi, header>> /\ (HeaderIn' <=> HeaderIn)
  <1>1. UNCHANGED <<driver, reading, tbi, header>>
    BY DEF Poll, WaitFifo, Sample, Drain, ClearRequest, Check, AutoStop, PayloadRead,
           Shutdown, Controller, Receive, BlockEnd, AutoStopSent, DataError, CardDone,
           config, identify, loop
  <1>2. card' \in {card, [card EXCEPT !.state = "tran"]}
    BY DEF Poll, WaitFifo, Sample, Drain, ClearRequest, Check, AutoStop, PayloadRead,
           Shutdown, Controller, Receive, BlockEnd, AutoStopSent, DataError, CardDone
  <1>3. card'.hc = card.hc BY <1>2 DEF TypeOK, Cards
  <1>4. QED BY <1>1, <1>3, FirstUnitKept DEF HeaderIn

LEMMA ReadPolled ==
  ASSUME TypeOK, ReadInv, Poll
  PROVE  ReadInv'
  <1>1. pc = "poll" /\ pc' \in {"waitFifo", "check"} /\ ~result
        /\ UNCHANGED <<xfer, fifo, rintsts, corrupt, reading, count, fsize, buffer,
                       tbi, header, result>>
    BY LoopFacts DEF Poll, config, control, loop, LoopPcs
  <1>2. pc' = "waitFifo" =>
          timeout' = FifoTimeout /\ {"RXDR", "DTO"} \cap rintsts # {}
    BY DEF Poll
  <1>3. ASSUME fifo = <<>>, pc' = "waitFifo" PROVE xfer.left = 0 /\ "ERR" \in rintsts
    <2>1. xfer.left = 0
      BY <1>1, <1>2, <1>3 DEF ReadInv, FifoFills, LoopPcs
    <2>2. count # 0 /\ count = AllUnits - Len(buffer)
      BY <1>1 DEF ReadInv, FifoFills, CountsRest
    <2>3. AllUnits \in Nat /\ Len(buffer) \in Nat /\ Len(fifo) = 0
      BY <1>1, <1>3, LoopFacts DEF LoopPcs
    <2>4. Len(buffer) + Len(fifo) + xfer.left # AllUnits BY <2>1, <2>2, <2>3
    <2>5. QED BY <1>1, <2>1, <2>4 DEF ReadInv, NothingLost, LoopPcs
  <1>4. QED
    BY <1>1, <1>2, <1>3, LoopKeeps
    DEF ReadInv, AtRest, WhichRead, StopsMany, InOrder, NothingLost, CountsRest,
        ErrorsSeen, FifoFills, WholeAtEnd, ResultWhole, IdentifyPcs, OpenPcs, OpenedPcs,
        ReadPcs, LoopPcs

LEMMA ReadWaited ==
  ASSUME TypeOK, ReadInv, WaitFifo
  PROVE  ReadInv'
  <1>1. pc = "waitFifo" /\ ~result
        /\ UNCHANGED <<xfer, fifo, corrupt, reading, count, fsize, buffer,
                       tbi, header, result>>
    BY LoopFacts DEF WaitFifo, config, loop, LoopPcs
  <1>2. ~(fifo # <<>> /\ timeout = 0)
    BY <1>1, SdAssumption DEF ReadInv, FifoFills
  <1>3. rintsts' = rintsts /\ (pc' = "sample" \/ (pc' = "waitFifo" /\ fifo = <<>>))
    BY <1>1, <1>2 DEF WaitFifo
  <1>4. QED
    BY <1>1, <1>3, LoopKeeps
    DEF ReadInv, AtRest, WhichRead, StopsMany, InOrder, NothingLost, CountsRest,
        ErrorsSeen, FifoFills, WholeAtEnd, ResultWhole, IdentifyPcs, OpenPcs, OpenedPcs,
        ReadPcs, LoopPcs

LEMMA ReadSampled ==
  ASSUME TypeOK, ReadInv, Sample
  PROVE  ReadInv'
  <1>1. pc = "sample" /\ pc' = "drain" /\ ~result
        /\ fsize' = Len(fifo) /\ count' = count - Len(fifo)
        /\ UNCHANGED <<xfer, fifo, rintsts, corrupt, reading, buffer,
                       tbi, header, result>>
    BY LoopFacts DEF Sample, config, control, LoopPcs
  <1>2. CountsRest'
    BY <1>1, LoopFacts, LoopKeeps DEF ReadInv, CountsRest, LoopPcs
  <1>3. QED
    BY <1>1, <1>2, LoopKeeps
    DEF ReadInv, AtRest, WhichRead, StopsMany, InOrder, NothingLost,
        ErrorsSeen, FifoFills, WholeAtEnd, ResultWhole, IdentifyPcs, OpenPcs, OpenedPcs,
        ReadPcs, LoopPcs

LEMMA ReadDrained ==
  ASSUME TypeOK, ReadInv, Drain
  PROVE  ReadInv'
  <1>1. pc = "drain" /\ pc' = "clear" /\ ~result
        /\ UNCHANGED <<xfer, rintsts, corrupt, reading, count, fsize, tbi, header, result>>
    BY LoopFacts DEF Drain, config, LoopPcs
  <1>2. FirstUnit' = FirstUnit /\ AllUnits' = AllUnits
    BY LoopKeeps
  <1>3. /\ fsize \in 0..Len(fifo)
        /\ Len(buffer') = Len(buffer) + fsize /\ Len(fifo') = Len(fifo) - fsize
        /\ \A i \in 1..Len(buffer) : buffer'[i] = buffer[i]
        /\ \A i \in 1..fsize : buffer'[Len(buffer) + i] = fifo[i]
        /\ \A i \in 1..(Len(fifo) - fsize) : fifo'[i] = fifo[fsize + i]
    BY DrainEffect
  <1>4. /\ FirstUnit \in Nat /\ AllUnits \in Nat
        /\ Len(buffer) \in Nat /\ Len(fifo) \in Nat /\ xfer.left \in Nat
    BY <1>1, LoopFacts DEF LoopPcs
  <1>5. /\ \A i \in 1..Len(buffer) : buffer[i] = FirstUnit + i - 1
        /\ \A i \in 1..Len(fifo) : fifo[i] = FirstUnit + Len(buffer) + i - 1
        /\ xfer.next = FirstUnit + Len(buffer) + Len(fifo)
        /\ Len(buffer) + Len(fifo) + xfer.left <= AllUnits
    BY <1>1 DEF ReadInv, InOrder, LoopPcs
  <1>6. InOrder'
    <2>1. ASSUME NEW i \in 1..Len(buffer') PROVE buffer'[i] = FirstUnit + i - 1
      <3>1. CASE i \in 1..Len(buffer) BY ONLY <1>3, <1>5, <3>1
      <3>2. CASE i \notin 1..Len(buffer)
        <4>1. i - Len(buffer) \in 1..fsize /\ i - Len(buffer) \in 1..Len(fifo)
              /\ i = Len(buffer) + (i - Len(buffer))
          BY ONLY <1>3, <1>4, <2>1, <3>2
        <4>2. buffer'[i] = fifo[i - Len(buffer)] BY ONLY <1>3, <4>1
        <4>3. fifo[i - Len(buffer)] = FirstUnit + Len(buffer) + (i - Len(buffer)) - 1
          BY ONLY <1>5, <4>1
        <4>4. QED BY ONLY <1>3, <1>4, <2>1, <4>2, <4>3
      <3>3. QED BY <3>1, <3>2
    <2>2. ASSUME NEW i \in 1..Len(fifo')
          PROVE  fifo'[i] = FirstUnit + Len(buffer') + i - 1
      <3>1. i \in 1..(Len(fifo) - fsize) /\ fsize + i \in 1..Len(fifo)
        BY ONLY <1>3, <1>4, <2>2
      <3>2. fifo'[i] = fifo[fsize + i] BY ONLY <1>3, <3>1
      <3>3. fifo[fsize + i] = FirstUnit + Len(buffer) + (fsize + i) - 1
        BY ONLY <1>5, <3>1
      <3>4. QED BY ONLY <1>3, <1>4, <2>2, <3>2, <3>3
    <2>3. xfer'.next = FirstUnit + Len(buffer') + Len(fifo')
      BY ONLY <1>1, <1>3, <1>4, <1>5
    <2>4. Len(buffer') + Len(fifo') + xfer'.left <= AllUnits
      BY ONLY <1>1, <1>3, <1>4, <1>5
    <2>5. QED BY <1>2, <2>1, <2>2, <2>3, <2>4 DEF InOrder
  <1>7. NothingLost'
    <2>1. Len(buffer') + Len(fifo') = Len(buffer) + Len(fifo)
      BY ONLY <1>3, <1>4
    <2>2. QED BY <1>1, <1>2, <2>1 DEF ReadInv, NothingLost, LoopPcs
  <1>8. CountsRest'
    <2>1. count = AllUnits - Len(buffer) - fsize BY <1>1 DEF ReadInv, CountsRest
    <2>2. count' = AllUnits - Len(buffer') BY ONLY <1>1, <1>3, <1>4, <2>1
    <2>3. QED BY <1>1, <1>2, <2>2 DEF CountsRest
  <1>9. QED
    BY <1>1, <1>6, <1>7, <1>8, LoopKeeps
    DEF ReadInv, AtRest, WhichRead, StopsMany, ErrorsSeen, FifoFills, WholeAtEnd,
        ResultWhole, IdentifyPcs, OpenPcs, OpenedPcs, ReadPcs, LoopPcs

LEMMA ReadCleared ==
  ASSUME TypeOK, ReadInv, ClearRequest
  PROVE  ReadInv'
  <1>1. /\ pc = "clear" /\ pc' = "check" /\ ~result
        /\ rintsts' = rintsts \ {"RXDR"}
        /\ UNCHANGED <<xfer, fifo, corrupt, reading, count, fsize, buffer, tbi, header,
                       result>>
    BY LoopFacts DEF ClearRequest, config, loop, LoopPcs
  <1>2. /\ "RXDR" \notin rintsts'
        /\ \A b \in {"ERR", "DTO"} : b \in rintsts' <=> b \in rintsts
    BY <1>1
  <1>3. InOrder' /\ NothingLost' /\ CountsRest' /\ ErrorsSeen' /\ FifoFills'
    BY <1>1, <1>2, LoopKeeps
    DEF ReadInv, InOrder, NothingLost, CountsRest, ErrorsSeen, FifoFills, LoopPcs
  <1>4. AtRest' /\ WhichRead' /\ StopsMany' /\ WholeAtEnd' /\ ResultWhole'
    BY <1>1, LoopKeeps
    DEF ReadInv, AtRest, WhichRead, StopsMany, WholeAtEnd, ResultWhole, IdentifyPcs,
        OpenPcs, OpenedPcs, ReadPcs, LoopPcs
  <1>5. QED BY <1>3, <1>4 DEF ReadInv

LEMMA ReadChecked ==
  ASSUME TypeOK, ReadInv, Check
  PROVE  ReadInv'
  <1>1. pc = "check" /\ ~result
        /\ UNCHANGED <<xfer, fifo, corrupt, reading, count, fsize, buffer,
                       tbi, header, result>>
    BY LoopFacts DEF Check, config, loop, LoopPcs
  <1>2. \/ pc' = "stop"
        \/ pc' = "poll" /\ count # 0 /\ rintsts' = rintsts
        \/ pc' \in {"autoStop", "readDone"} /\ count = 0 /\ "ERR" \notin rintsts
    BY DEF Check, EndOfRead
  <1> USE DEF IdentifyPcs, OpenPcs, OpenedPcs, ReadPcs, LoopPcs
  <1>3. CASE pc' = "stop"
    BY <1>1, <1>3, LoopKeeps
    DEF ReadInv, AtRest, WhichRead, StopsMany, InOrder, NothingLost, CountsRest,
        ErrorsSeen, FifoFills, WholeAtEnd, ResultWhole
  <1>4. CASE pc' = "poll" /\ count # 0 /\ rintsts' = rintsts
    BY <1>1, <1>4, LoopKeeps
    DEF ReadInv, AtRest, WhichRead, StopsMany, InOrder, NothingLost, CountsRest,
        ErrorsSeen, FifoFills, WholeAtEnd, ResultWhole
  <1>5. CASE pc' \in {"autoStop", "readDone"} /\ count = 0 /\ "ERR" \notin rintsts
    <2>1. /\ FirstUnit \in Nat /\ AllUnits \in Nat /\ reading.n \in Nat
          /\ Len(buffer) \in Nat /\ Len(fifo) \in Nat /\ xfer.left \in Nat
          /\ xfer.next = FirstUnit + Len(buffer) + Len(fifo)
          /\ Len(buffer) + Len(fifo) + xfer.left <= AllUnits
          /\ reading.sector \in Nat /\ reading.n > 0
      BY <1>1, LoopFacts DEF TypeOK
    <2>2. count = AllUnits - Len(buffer) BY <1>1 DEF ReadInv, CountsRest
    <2>3. Len(buffer) = AllUnits /\ Len(fifo) = 0 /\ xfer.left = 0
          /\ xfer.next = FirstUnit + AllUnits
      BY ONLY <1>5, <2>1, <2>2
    <2>4. fifo = <<>> BY <2>3 DEF TypeOK
    <2>5. xfer.next - 1 = FirstUnit + AllUnits - 1 BY ONLY <2>1, <2>3
    <2>6. corrupt \subseteq {(FirstUnit + AllUnits - 1) \div Block}
      BY <1>1, <1>5, <2>5 DEF ReadInv, ErrorsSeen
    <2>7. Whole BY <1>1, <2>3 DEF ReadInv, InOrder, Whole
    <2>8. Whole' BY <1>1, <2>7, LoopKeeps DEF Whole
    <2>9. QED
      BY <1>1, <1>5, <2>3, <2>4, <2>6, <2>8, LoopKeeps
      DEF ReadInv, AtRest, WhichRead, StopsMany, InOrder, NothingLost, CountsRest,
          ErrorsSeen, FifoFills, WholeAtEnd, ResultWhole
  <1>6. QED BY <1>2, <1>3, <1>4, <1>5

\* Between and after the reads.
LEMMA ReadOfHeader ==
  ASSUME TypeOK, ReadInv, HeaderRead
  PROVE  ReadInv'
  <1> USE DEF IdentifyPcs, OpenPcs, OpenedPcs, ReadPcs, LoopPcs
  <1>1. /\ pc = "readDone" /\ tbi = <<>> /\ tbi' = buffer
        /\ UNCHANGED <<xfer, fifo, rintsts, result, driver, card>> /\ ~result
    BY DEF HeaderRead, ReadInv, ResultWhole, identify
  <1>2. /\ fifo = <<>> /\ xfer.left = 0 /\ ~xfer.stop
        /\ reading = [sector |-> Device, n |-> 1]
    BY <1>1 DEF ReadInv, AtRest, WhichRead, StopsMany
  <1>3. tbi' # <<>> /\ HeaderIn'
    <2>1. Whole BY <1>1 DEF ReadInv, WholeAtEnd
    <2>2. FirstUnit \in Nat BY NextUnitType DEF TypeOK, FirstUnit
    <2>3. Len(buffer) = 2 BY <1>2, <2>1 DEF Whole, AllUnits, Block
    <2>4. buffer[1] = FirstUnit /\ buffer[2] = FirstUnit + 1
      BY <2>1, <2>2, <2>3 DEF Whole
    <2>5. buffer \in Seq(Nat) BY DEF TypeOK
    <2>6. buffer = <<FirstUnit, FirstUnit + 1>> BY <2>3, <2>4, <2>5
    <2>7. driver.hc = card.hc => FirstUnit = Device * Block BY <1>2, AsksForFirst
    <2>8. QED BY <1>1, <2>6, <2>7 DEF HeaderIn
  <1>4. \/ pc' = "close"
        \/ /\ pc' = "waitBusy" /\ buffer' = <<>> /\ corrupt' = {}
           /\ reading' = [sector |-> Device + 1, n |-> Sectors(header')]
    BY DEF HeaderRead, Fail, StartRead
  <1>5. QED
    BY <1>1, <1>2, <1>3, <1>4
    DEF ReadInv, AtRest, WhichRead, StopsMany, InOrder, NothingLost, CountsRest,
        ErrorsSeen, FifoFills, WholeAtEnd, ResultWhole

LEMMA ReadEnded ==
  ASSUME TypeOK, ReadInv, AutoStop \/ StopTransmission \/ PayloadRead \/ Shutdown
  PROVE  ReadInv'
  <1> USE DEF ReadInv, AtRest, WhichRead, StopsMany, InOrder, NothingLost, CountsRest,
        ErrorsSeen, FifoFills, WholeAtEnd, ResultWhole, Whole,
        IdentifyPcs, OpenPcs, OpenedPcs, ReadPcs, LoopPcs, config, control, loop
  <1>1. CASE AutoStop BY <1>1, LoopKeeps DEF AutoStop
  <1>2. CASE StopTransmission BY <1>2 DEF StopTransmission, Idle, Fail
  <1>3. CASE PayloadRead BY <1>3, LoopKeeps DEF PayloadRead
  <1>4. CASE Shutdown BY <1>4, LoopKeeps DEF Shutdown, Idle
  <1>5. QED BY <1>1, <1>2, <1>3, <1>4

-----------------------------------------------------------------------------
(* The controller during a read.                                           *)

\* Data moves only while the loop runs, or after it has given the read up.
LEMMA MovesInLoop ==
  ASSUME TypeOK, ReadInv, xfer.left > 0
  PROVE  pc \in LoopPcs \cup {"stop"}
  BY DEF TypeOK, ReadInv, AtRest, Pcs, IdentifyPcs, OpenPcs, ReadPcs, LoopPcs, Idle

LEMMA ReadStopped ==
  ASSUME ReadInv, pc = "stop", UNCHANGED <<pc, reading, tbi, header, result>>
  PROVE  ReadInv'
  BY DEF ReadInv, AtRest, WhichRead, StopsMany, InOrder, NothingLost, CountsRest,
         ErrorsSeen, FifoFills, WholeAtEnd, ResultWhole, IdentifyPcs, OpenPcs,
         OpenedPcs, ReadPcs, LoopPcs

LEMMA ReadReceives ==
  ASSUME TypeOK, ReadInv, Receive
  PROVE  ReadInv'
  <1>1. /\ xfer.left > 0 /\ ~xfer.crc
        /\ fifo' = Append(fifo, xfer.next)
        /\ rintsts' = rintsts \cup {"RXDR"}
        /\ xfer'.next = xfer.next + 1 /\ xfer'.left = xfer.left - 1
        /\ xfer'.stop = xfer.stop
        /\ \/ UNCHANGED corrupt
           \/ xfer'.crc /\ corrupt' = corrupt \cup {xfer.next \div Block}
        /\ UNCHANGED <<pc, timeout, reading, count, fsize, buffer, tbi, header, result>>
    BY ReceiveEffect DEF identify, config, loop
  <1>2. CASE pc = "stop" BY <1>1, <1>2, ReadStopped
  <1>3. CASE pc \in LoopPcs
    <2>1. /\ FirstUnit \in Nat /\ AllUnits \in Nat
          /\ Len(buffer) \in Nat /\ Len(fifo) \in Nat /\ xfer.left \in Nat
          /\ xfer.next = FirstUnit + Len(buffer) + Len(fifo)
          /\ Len(buffer) + Len(fifo) + xfer.left <= AllUnits
          /\ ~result
      BY <1>3, LoopFacts
    <2>2. FirstUnit' = FirstUnit /\ AllUnits' = AllUnits /\ buffer' = buffer
      BY <1>1, LoopKeeps DEF Controller
    <2>3. /\ Len(fifo') = Len(fifo) + 1
          /\ \A i \in 1..Len(fifo) : fifo'[i] = fifo[i]
          /\ fifo'[Len(fifo) + 1] = xfer.next
      BY <1>1 DEF TypeOK
    <2>4. fifo' # <<>> BY <2>1, <2>3
    <2>5. InOrder'
      <3>1. \A i \in 1..Len(fifo) : fifo[i] = FirstUnit + Len(buffer) + i - 1
        BY <1>3 DEF ReadInv, InOrder
      <3>2. ASSUME NEW i \in 1..Len(fifo')
            PROVE  fifo'[i] = FirstUnit + Len(buffer) + i - 1
        BY ONLY <2>1, <2>3, <3>1, <3>2, SMTT(20)
      <3>3. /\ xfer'.next = FirstUnit + Len(buffer) + Len(fifo')
            /\ Len(buffer) + Len(fifo') + xfer'.left <= AllUnits
        BY ONLY <1>1, <2>1, <2>3
      <3>4. \A i \in 1..Len(buffer) : buffer[i] = FirstUnit + i - 1
        BY <1>3 DEF ReadInv, InOrder
      <3>5. QED BY <2>2, <3>2, <3>3, <3>4 DEF InOrder
    <2>6. NothingLost'
      <3>1. Len(buffer) + Len(fifo) + xfer.left = AllUnits
        BY <1>1, <1>3 DEF ReadInv, NothingLost
      <3>2. Len(buffer) + Len(fifo') + xfer'.left = AllUnits
        BY ONLY <1>1, <2>1, <2>3, <3>1
      <3>3. QED BY <2>2, <3>2 DEF NothingLost
    <2>7. CountsRest'
      BY <1>1, <1>3, <2>1, <2>2, <2>3 DEF ReadInv, CountsRest, TypeOK
    <2>8. ErrorsSeen'
      <3>1. \A s \in corrupt : "ERR" \in rintsts
        BY <1>1, <1>3 DEF ReadInv, ErrorsSeen
      <3>2. xfer'.next - 1 = xfer.next BY ONLY <1>1, <2>1
      <3>3. QED BY <1>1, <3>1, <3>2 DEF ErrorsSeen
    <2>9. FifoFills'
      <3>1. "DTO" \notin rintsts BY <1>1, <1>3 DEF ReadInv, FifoFills
      <3>2. pc = "poll" => count # 0 BY DEF ReadInv, FifoFills
      <3>3. pc = "waitFifo" => timeout = FifoTimeout
        BY <1>1 DEF ReadInv, FifoFills
      <3>4. QED BY <1>1, <2>4, <3>1, <3>2, <3>3 DEF FifoFills
    <2>10. AtRest' /\ WhichRead' /\ StopsMany' /\ WholeAtEnd' /\ ResultWhole'
      BY <1>1, <1>3, <2>1, LoopKeeps
      DEF Controller, ReadInv, AtRest, WhichRead, StopsMany, WholeAtEnd, ResultWhole, IdentifyPcs,
          OpenPcs, OpenedPcs, ReadPcs, LoopPcs
    <2>11. QED BY <2>5, <2>6, <2>7, <2>8, <2>9, <2>10 DEF ReadInv
  <1>4. QED BY <1>1, <1>2, <1>3, MovesInLoop

LEMMA ReadBlockEnds ==
  ASSUME TypeOK, ReadInv, BlockEnd
  PROVE  ReadInv'
  <1>1. /\ xfer \in Transfers /\ xfer.crc /\ xfer' = [xfer EXCEPT !.crc = FALSE]
        /\ rintsts' = rintsts \cup (IF (xfer.next - 1) \div Block \in corrupt
                                      THEN {"ERR"} ELSE {})
                              \cup (IF xfer.left = 0 THEN {"DTO"} ELSE {})
        /\ UNCHANGED <<pc, timeout, fifo, corrupt, reading, count, fsize, buffer, tbi,
                       header, result>>
    BY DEF BlockEnd, config, identify, loop, TypeOK, Transfers
  <1>2. /\ xfer'.next = xfer.next /\ xfer'.left = xfer.left /\ xfer'.stop = xfer.stop
        /\ ~xfer'.crc
    BY <1>1 DEF Transfers
  <1>3. /\ rintsts \subseteq rintsts'
        /\ "RXDR" \in rintsts' => "RXDR" \in rintsts
        /\ "DTO" \in rintsts' => "DTO" \in rintsts \/ xfer.left = 0
        /\ (xfer.next - 1) \div Block \in corrupt => "ERR" \in rintsts'
    BY <1>1
  <1>4. FirstUnit' = FirstUnit /\ AllUnits' = AllUnits /\ (HeaderIn' <=> HeaderIn)
    BY LoopKeeps DEF Controller
  <1>5. UNCHANGED <<pc, timeout, fifo, corrupt, reading, count, fsize, buffer, tbi,
                    header, result>> /\ xfer.crc
    BY <1>1
  <1>6. AtRest'
    BY <1>2, <1>5
    DEF ReadInv, AtRest, IdentifyPcs, OpenPcs, ReadPcs, Idle
  <1>7. ErrorsSeen' BY <1>2, <1>3, <1>5 DEF ReadInv, ErrorsSeen
  <1>8. NothingLost' /\ FifoFills' /\ InOrder'
    BY <1>2, <1>3, <1>4, <1>5 DEF ReadInv, NothingLost, FifoFills, InOrder
  <1>9. WhichRead' /\ StopsMany' /\ CountsRest' /\ WholeAtEnd' /\ ResultWhole'
    BY <1>2, <1>4, <1>5
    DEF ReadInv, WhichRead, StopsMany, CountsRest, WholeAtEnd, ResultWhole, Whole
  <1>10. QED BY <1>6, <1>7, <1>8, <1>9 DEF ReadInv

LEMMA ReadAutoStops ==
  ASSUME TypeOK, ReadInv, AutoStopSent
  PROVE  ReadInv'
  <1>1. /\ xfer \in Transfers /\ xfer.stop /\ xfer' = [xfer EXCEPT !.stop = FALSE]
        /\ rintsts' = rintsts \cup {"ACD"}
        /\ UNCHANGED <<pc, timeout, fifo, corrupt, reading, count, fsize, buffer, tbi,
                       header, result>>
    BY DEF AutoStopSent, config, identify, loop, TypeOK, Transfers
  <1>2. /\ xfer'.next = xfer.next /\ xfer'.left = xfer.left /\ ~xfer'.stop
        /\ xfer'.crc = xfer.crc
    BY <1>1 DEF Transfers
  <1>3. \A b \in {"ERR", "RXDR", "DTO"} : b \in rintsts' <=> b \in rintsts
    BY <1>1
  <1>4. FirstUnit' = FirstUnit /\ AllUnits' = AllUnits /\ (HeaderIn' <=> HeaderIn)
    BY LoopKeeps DEF Controller
  <1>5. AtRest'
    BY <1>1, <1>2 DEF ReadInv, AtRest, IdentifyPcs, OpenPcs, ReadPcs, Idle
  <1>6. ErrorsSeen' /\ NothingLost' /\ FifoFills' /\ InOrder'
    BY <1>1, <1>2, <1>3, <1>4 DEF ReadInv, ErrorsSeen, NothingLost, FifoFills, InOrder
  <1>7. WhichRead' /\ StopsMany' /\ CountsRest' /\ WholeAtEnd' /\ ResultWhole'
    BY <1>1, <1>2, <1>4
    DEF ReadInv, WhichRead, StopsMany, CountsRest, WholeAtEnd, ResultWhole, Whole
  <1>8. QED BY <1>5, <1>6, <1>7 DEF ReadInv

LEMMA ReadFails ==
  ASSUME TypeOK, ReadInv, DataError
  PROVE  ReadInv'
  <1>1. /\ xfer \in Transfers /\ xfer.left > 0 /\ xfer' = [xfer EXCEPT !.left = 0]
        /\ rintsts' = rintsts \cup {"ERR", "DTO"}
        /\ UNCHANGED <<pc, timeout, fifo, corrupt, reading, count, fsize, buffer, tbi,
                       header, result>>
    BY DEF DataError, config, identify, loop, TypeOK, Transfers
  <1>2. /\ xfer'.next = xfer.next /\ xfer'.left = 0 /\ xfer'.stop = xfer.stop
    BY <1>1 DEF Transfers
  <1>3. CASE pc = "stop" BY <1>1, <1>3, ReadStopped
  <1>4. CASE pc \in LoopPcs
    <2>1. /\ FirstUnit' = FirstUnit /\ AllUnits' = AllUnits
          /\ HeaderIn' <=> HeaderIn
      BY LoopKeeps DEF Controller
    <2>2. /\ AllUnits \in Nat /\ Len(buffer) \in Nat /\ Len(fifo) \in Nat
          /\ xfer.left \in Nat /\ Len(buffer) + Len(fifo) + xfer.left <= AllUnits
      BY <1>4, LoopFacts
    <2>3. Len(buffer) + Len(fifo) + 0 <= AllUnits BY ONLY <2>2
    <2>4. InOrder'
      BY <1>1, <1>2, <1>4, <2>1, <2>3 DEF ReadInv, InOrder
    <2>5. NothingLost' /\ ErrorsSeen' /\ FifoFills'
      BY <1>1, <1>2, <1>4 DEF ReadInv, NothingLost, ErrorsSeen, FifoFills
    <2>6. /\ AtRest' /\ WhichRead' /\ StopsMany' /\ CountsRest' /\ WholeAtEnd'
          /\ ResultWhole'
      BY <1>1, <1>2, <1>4, <2>1
      DEF ReadInv, AtRest, WhichRead, StopsMany, CountsRest, WholeAtEnd, ResultWhole,
          Whole, IdentifyPcs, OpenPcs, OpenedPcs, ReadPcs, LoopPcs
    <2>7. QED BY <2>4, <2>5, <2>6 DEF ReadInv
  <1>5. QED BY <1>1, <1>3, <1>4, MovesInLoop

LEMMA ReadStep ==
  ASSUME TypeOK, CardInv, ReadInv, [Next]_vars
  PROVE  ReadInv'
  <1>1. CASE CardDone
    <2>1. card'.hc = card.hc BY <1>1, LoopKeeps DEF Controller
    <2>2. QED
      BY <1>1, <2>1, ReadKept DEF CardDone, ReadVars, config, identify, control, loop
  <1>2. CASE UNCHANGED vars
    BY <1>2, ReadKept DEF vars, ReadVars, config, identify, control, loop
  <1>6. CASE LockedOut \/ WriteAgain
    <2>1. /\ UNCHANGED ReadVars /\ timeout' = timeout /\ card'.hc = card.hc
          /\ \A b \in {"ERR", "RXDR", "DTO"} : b \in rintsts' <=> b \in rintsts
      BY <1>6 DEF LockedOut, WriteAgain, ReadVars, config, identify, loop
    <2>2. QED BY <2>1, ReadKept
  <1>3. CASE ReadSectors
    BY <1>3, ReadStarted, ReadCommanded, ReadPolled, ReadWaited, ReadSampled,
       ReadDrained, ReadCleared, ReadChecked, ReadEnded
    DEF ReadSectors
  <1>4. CASE Controller
    BY <1>1, <1>4, ReadReceives, ReadBlockEnds, ReadAutoStops, ReadFails
    DEF Controller
  <1>5. QED
    BY <1>2, <1>3, <1>4, <1>6, ReadIdentify, ReadOpen, ReadStarted, ReadOfHeader, ReadEnded
    DEF Next, Driver

LEMMA ReadInit == Init => ReadInv
  BY DEF Init, ReadInv, AtRest, WhichRead, StopsMany, InOrder, NothingLost, CountsRest,
         ErrorsSeen, FifoFills, WholeAtEnd, ResultWhole, IdentifyPcs, OpenPcs,
         OpenedPcs, ReadPcs, LoopPcs

-----------------------------------------------------------------------------
(* Theorems.                                                               *)

Inv == TypeOK /\ CardInv /\ ReadInv

LEMMA InvHolds == Spec => []Inv
  <1>1. Init => Inv BY TypeInit, CardInit, ReadInit DEF Inv
  <1>2. Inv /\ [Next]_vars => Inv' BY TypeStep, CardStep, ReadStep DEF Inv
  <1>3. QED BY <1>1, <1>2, PTL DEF Spec

\* The driver's registers, locals and buffers keep their types; the byte count
\* that ReadSectorData counts down never wraps (iSDHCBOOT.c).
THEOREM TypeCorrect == Spec => []TypeOK
  <1>1. Inv => TypeOK BY DEF Inv
  <1>2. QED BY <1>1, InvHolds, PTL

\* Once NX_SDMMC_Open has succeeded, the type and the address the driver goes by
\* are the card's own, whatever was lost or damaged while it was identified, and
\* so is the addressing, unless it is the capacity bit itself that was damaged.
THEOREM KnowsTheCard == Spec => []CardAgrees
  <1>1. Inv => CardAgrees
    BY DEF Inv, CardInv, CardAgrees, IdentifiedPcs, AddressedPcs, OpenedPcs, OpenStates
  <1>2. QED BY <1>1, InvHolds, PTL

\* The assertions in NX_SDMMC_ReadSectors hold: a read command finds the data
\* side at rest, a read that succeeds leaves the FIFO empty.
THEOREM StartsClean == Spec => []CleanStart
  <1>1. Inv => CleanStart
    <2>1. SUFFICES ASSUME Inv PROVE CleanStart OBVIOUS
    <2>2. AtRest BY <2>1 DEF Inv, ReadInv
    <2>3. xfer.left = 0 => ~(xfer.left > 0) BY <2>1 DEF Inv, TypeOK
    <2>4. QED BY <2>2, <2>3, Zenon DEF AtRest, CleanStart, FsmBusy
  <1>2. QED BY <1>1, InvHolds, PTL

\* A read that succeeds has brought all its sectors, in order, and every one
\* but the last with its CRC checked, for every FIFO and every way it fills.
THEOREM ReadsWhole == Spec => []ReadIsWhole
  <1>1. Inv => ReadIsWhole
    <2>1. SUFFICES ASSUME Inv, pc \in {"autoStop", "readDone"}
                   PROVE  /\ buffer = [i \in 1..AllUnits |-> FirstUnit + i - 1]
                          /\ corrupt \subseteq {(FirstUnit + AllUnits - 1) \div Block}
      BY DEF ReadIsWhole, FirstUnit, AllUnits
    <2>2. Whole /\ corrupt \subseteq {(FirstUnit + AllUnits - 1) \div Block}
      BY <2>1 DEF Inv, ReadInv, WholeAtEnd
    <2>3. buffer \in Seq(Nat) BY <2>1 DEF Inv, TypeOK
    <2>4. buffer = [i \in 1..Len(buffer) |-> buffer[i]] BY <2>3
    <2>5. QED BY <2>2, <2>4 DEF Whole
  <1>2. QED BY <1>1, InvHolds, PTL

\* When iSDXCBOOT returns CTRUE for a header read as it was written, the header
\* and all of the payload are in memory, in their places.
THEOREM ImageArrives == Spec => []ImageComplete
  <1>1. Inv => ImageComplete
    <2>1. SUFFICES ASSUME Inv, result, header = image, driver.hc = card.hc,
                          NEW k \in 0..(Header + image.loadsize - 1)
                   PROVE  InMemory(k, Device * Block + k)
      BY DEF ImageComplete
    <2>2. /\ reading = [sector |-> Device + 1, n |-> Sectors(header)]
          /\ tbi = <<Device * Block, Device * Block + 1>>
          /\ Len(buffer) = reading.n * Block
          /\ \A i \in 1..Len(buffer) : buffer[i] = reading.sector * Block + i - 1
          /\ buffer \in Seq(Nat)
      BY <2>1, AsksForFirst
      DEF Inv, TypeOK, ReadInv, ResultWhole, HeaderIn, Whole, AllUnits
    <2>3. CASE k < Block
      <3>1. k = 0 \/ k = 1 BY <2>3 DEF Block
      <3>2. tbi[k + 1] = Device * Block + k
        BY <2>2, <3>1, SdAssumption DEF Block
      <3>3. QED BY <2>3, <3>2 DEF InMemory
    <2>4. CASE ~(k < Block)
      <3>1. image.loadsize \in Nat /\ Sectors(image) \in Nat
            /\ Sectors(image) * Block >= image.loadsize + Header
        BY <2>1, SectorsType DEF Inv, TypeOK
      <3>2. Len(buffer) = Sectors(image) * Block BY <2>1, <2>2
      <3>3. k - Block + 1 \in 1..Len(buffer)
        BY <2>4, <3>1, <3>2 DEF Block, Header
      <3>4. buffer[k - Block + 1] = (Device + 1) * Block + (k - Block + 1) - 1
        BY <2>2, <3>3
      <3>5. (Device + 1) * Block + (k - Block + 1) - 1 = Device * Block + k
        BY SdAssumption DEF Block
      <3>6. DOMAIN buffer = 1..Len(buffer) BY <2>2
      <3>7. QED BY <2>4, <3>3, <3>4, <3>5, <3>6 DEF InMemory
    <2>5. QED BY <2>3, <2>4
  <1>2. QED BY <1>1, InvHolds, PTL
=============================================================================
