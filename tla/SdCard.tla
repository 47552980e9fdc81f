------------------------------- MODULE SdCard -------------------------------
(***************************************************************************)
(* The command layer of iSDHCBOOT.c against an SD or MMC card.  The driver *)
(* does nothing else while a command is under way, so an exchange is one   *)
(* step: the operators below give every way it can end.  The card itself   *)
(* is external, modelled by the commands the driver sends it.              *)
(*                                                                         *)
(* Of a response only what the driver reads is kept, and all of that can   *)
(* be read off the card that sent it: a response is the card's record, as  *)
(* it arrived.                                                             *)
(***************************************************************************)
EXTENDS Naturals

CONSTANT FaultyBus      \* commands and responses may be lost or damaged

ASSUME BusAssumption == FaultyBus \in BOOLEAN

CardKinds  == {"SD1", "SD2", "MMC", "none"}
CardStates == {"idle", "ready", "ident", "stby", "tran", "data"}

\* No address, the one the boot ROM's session left, the one an SD card
\* publishes, the one the driver gives an MMC card (2<<16).
Rcas == {"zero", "rom", "card", "host"}

Cards == [kind : CardKinds,      \* "none": empty slot
          hc : BOOLEAN,          \* block-addressed (high capacity)
          echo : BOOLEAN,        \* answers SEND_IF_COND with the right pattern
          state : CardStates, powered : BOOLEAN, app : BOOLEAN,
          rca : Rcas, width : {1, 4}]

\* What cmd.response holds of a command that was not answered: nothing new.
NoCard == [kind |-> "none", hc |-> FALSE, echo |-> FALSE, state |-> "idle",
           powered |-> FALSE, app |-> FALSE, rca |-> "zero", width |-> 1]

IsSd(c) == c.kind \in {"SD1", "SD2"}

-----------------------------------------------------------------------------
(* The card: which commands it answers, and what they do to it.            *)

Answers(c, cmd, arg) ==
  /\ c.kind # "none"
  /\ \/ cmd = "GO_IDLE_STATE"
     \/ cmd = "SEND_IF_COND" /\ c.state = "idle" /\ c.kind = "SD2"
     \/ cmd = "APP_CMD" /\ c.state \in {"idle", "stby", "tran"} /\ IsSd(c) /\ arg = c.rca
     \/ cmd = "SD_SEND_OP_COND" /\ c.state = "idle" /\ c.app
     \/ cmd = "SEND_OP_COND" /\ c.state = "idle" /\ c.kind = "MMC"
     \/ cmd = "ALL_SEND_CID" /\ c.state = "ready"
     \/ cmd = "RELATIVE_ADDR" /\ c.state = "ident"
     \/ cmd = "SELECT_CARD" /\ c.state = "stby" /\ arg = c.rca
     \/ cmd \in {"SET_CLR_CARD_DETECT", "SET_BUS_WIDTH"} /\ c.state = "tran" /\ c.app
     \/ cmd = "SWITCH_FUNC" /\ c.state = "tran" /\ c.kind = "MMC"
     \/ cmd \in {"SET_BLOCKLEN", "READ"} /\ c.state = "tran"
     \/ cmd = "SEND_STATUS" /\ c.state \in {"stby", "tran", "data"} /\ arg = c.rca
     \/ cmd = "STOP_TRANSMISSION" /\ c.state = "data"

\* A block-addressed card powers up only for a host that says it knows them.
PowerUp(c, hcs) ==
  {c} \cup (IF c.hc /\ ~hcs THEN {} ELSE {[c EXCEPT !.powered = TRUE, !.state = "ready"]})

\* SEND_STATUS after APP_CMD is SD_STATUS, which sends a data block.
Executed(c, cmd, arg) ==
  LET d == [c EXCEPT !.app = FALSE] IN
  CASE cmd = "GO_IDLE_STATE"   -> {[NoCard EXCEPT !.kind = c.kind, !.hc = c.hc, !.echo = c.echo]}
    [] cmd = "APP_CMD"         -> {[c EXCEPT !.app = TRUE]}
    [] cmd = "SD_SEND_OP_COND" -> PowerUp(d, arg)
    [] cmd = "SEND_OP_COND"    -> PowerUp(d, TRUE)
    [] cmd = "ALL_SEND_CID"    -> {[d EXCEPT !.state = "ident"]}
    [] cmd = "RELATIVE_ADDR"   -> {[d EXCEPT !.state = "stby", !.rca = IF IsSd(c) THEN "card" ELSE arg]}
    [] cmd \in {"SELECT_CARD", "STOP_TRANSMISSION"} -> {[d EXCEPT !.state = "tran"]}
    [] cmd \in {"SET_BUS_WIDTH", "SWITCH_FUNC"}     -> {[d EXCEPT !.width = 4]}
    [] cmd = "READ"            -> {[d EXCEPT !.state = "data"]}
    [] cmd = "SEND_STATUS"     -> {IF c.app /\ c.state = "tran" THEN [d EXCEPT !.state = "data"] ELSE d}
    [] OTHER                   -> {d}

-----------------------------------------------------------------------------
(* The driver's command functions: sets of [card, ok, resp].               *)

Failed(c) == [card |-> c, ok |-> FALSE, resp |-> NoCard]

\* The answer to these, the OCR, is taken without a CRC (no CHKRSPCRC).
Unchecked == {"SD_SEND_OP_COND", "SEND_OP_COND"}

\* How a response r may arrive and be taken for good: of the OCR, the bits that
\* are looked at, "powered up" and "high capacity", may have flipped.
Arrived(cmd, r) ==
  {r} \cup (IF FaultyBus /\ cmd \in Unchecked
             THEN {[r EXCEPT !.powered = "powered" \in set, !.hc = "hc" \in set] :
                     set \in SUBSET {"powered", "hc"}}
             ELSE {})

\* The command is executed, and its response taken for good.
Answered(c, cmd, arg) ==
  UNION {{[card |-> d, ok |-> TRUE, resp |-> r] :
            r \in Arrived(cmd, IF cmd = "SEND_STATUS" THEN c ELSE d)} :
         d \in Executed(c, cmd, arg)}

\* It never starts or gets no response, with the card as it was, or its response
\* is seen to be damaged or its busy signal does not end, with it executed.
Missed(c, cmd, arg) ==
  IF FaultyBus THEN {Failed(d) : d \in Executed(c, cmd, arg) \cup {c}} ELSE {}

(***************************************************************************)
(* Every error status is one failure here: the callers only tell zero from *)
(* nonzero.  That the controller is locked (HLE) and the command written   *)
(* again is not an ending: SdBoot!LockedOut.                               *)
(***************************************************************************)
SendCommandInternal(c, cmd, arg) ==
  IF Answers(c, cmd, arg) THEN Answered(c, cmd, arg) \cup Missed(c, cmd, arg)
                          ELSE {Failed(c)}

\* A failed command is followed by a SEND_STATUS whose outcome nobody reads.
SendCommand(c, cmd, arg, rca) ==
  UNION {IF x.ok THEN {x}
         ELSE {Failed(y.card) : y \in SendCommandInternal(x.card, "SEND_STATUS", rca)} :
         x \in SendCommandInternal(c, cmd, arg)}

\* The status returned is APP_CMD's: a failed application command looks sent.
SendAppCommand(c, cmd, arg, rca) ==
  UNION {IF ~x.ok THEN {x}
         ELSE {[y EXCEPT !.ok = TRUE] : y \in SendCommand(x.card, cmd, arg, rca)} :
         x \in SendCommandInternal(c, "APP_CMD", rca)}
=============================================================================
