------------------------------- MODULE PmicI2c -------------------------------
(***************************************************************************)
(* The bit-banged I2C master (i2c_gpio.c) and what PMIC_GEC6818 (pmic.c)   *)
(* does with it, against the PMIC as a slave on the two open-drain wires.  *)
(* The slave may stretch the clock for any time, also past the master's    *)
(* STRETCHING_TIMEOUT, and may not acknowledge; a reset may have cut the   *)
(* kernel's last transfer short.  A byte has two bits, of values, register *)
(* numbers and the address alike.                                          *)
(***************************************************************************)
EXTENDS Integers, Sequences

CONSTANTS
  MaxFaults,      \* bound on stretches and missing acknowledges
  Setpoints       \* register contents to consider for DC2VOL and DC3VOL

ASSUME I2cAssumption == MaxFaults \in Nat /\ Setpoints \subseteq 0..3

VARIABLES
  master,     \* the two wires as the master drives them; TRUE is released
  started,    \* the master's view of the bus
  call,       \* the call of PMIC_GEC6818 under way, 1..9, or 10: returned
  pc,         \* the bus operation within the call, and the step within that
  data,       \* byte being read
  got,        \* mode, freq and dc2 as read, later with the bits to be set
  slave,      \* the PMIC's bus interface
  regs,       \* its registers
  faults,     \* bounds stretches and refusals
  before      \* history: the registers before BL1

masterVars == <<started, call, pc, data, got, before>>
vars == <<masterVars, master, slave, regs, faults>>

Bits == 2
Byte == 0..3
BitOf(v, i) == (v \div 2^(Bits - i)) % 2 = 1     \* bit 1 is sent first

DCMODE == 0  DCFREQ == 1  DC2VOL == 2  DC3VOL == 3
Reg == {DCMODE, DCFREQ, DC2VOL, DC3VOL}
PolyPhase == 1
PwmModes == 2
With(v, bit) == IF (v \div bit) % 2 = 1 THEN v ELSE v + bit

Scl(m, s) == m.scl /\ s.scl
Sda(m, s) == m.sda /\ s.sda

-----------------------------------------------------------------------------
(* The slave.  It changes SDA after a falling edge of SCL only.            *)

Receiving == {"address", "register", "value"}
Idle == [at |-> "idle", n |-> 0, byte |-> 0, ptr |-> 0, sda |-> TRUE, scl |-> TRUE]

Slaves == [at : Receiving \cup {"idle", "send"}, n : 0..Bits + 1, byte : Byte,
           ptr : Reg, sda : BOOLEAN, scl : BOOLEAN]

Quiet(s) == [s EXCEPT !.at = "idle", !.n = 0, !.sda = TRUE]
Offer(s, v) == [s EXCEPT !.sda = BitOf(v, s.n + 1)]

OnRise(s, sda) ==
  CASE s.at \in Receiving /\ s.n < Bits ->
         [s EXCEPT !.n = @ + 1, !.byte = (2 * @ + (IF sda THEN 1 ELSE 0)) % 4]
    [] s.at = "send" /\ s.n = Bits /\ sda -> Quiet(s)
    [] s.at = "idle" -> s
    [] OTHER -> [s EXCEPT !.n = IF @ <= Bits THEN @ + 1 ELSE @]

\* After a byte: it is for this slave, and what comes next.
Addressed(s) == s.at # "address" \/ s.byte \div 2 = 1
NextByte(s) ==
  LET new == [s EXCEPT !.n = 0, !.byte = 0, !.sda = TRUE]
  IN CASE s.at = "address" /\ s.byte = 2 -> [new EXCEPT !.at = "register"]
       [] s.at = "address" /\ s.byte = 3 -> Offer([new EXCEPT !.at = "send"], regs[s.ptr])
       [] s.at = "register" -> [new EXCEPT !.at = "value", !.ptr = s.byte]
       [] s.at = "send" -> Offer(new, regs[s.ptr])
       [] OTHER -> new

OnFall(s) ==
  CASE s.at = "idle" -> s
    [] s.at # "idle" /\ s.n = Bits + 1 -> NextByte(s)
    [] s.at \in Receiving /\ s.n = Bits ->
         IF Addressed(s) THEN [s EXCEPT !.sda = FALSE] ELSE Quiet(s)
    [] s.at = "send" /\ s.n = Bits -> [s EXCEPT !.sda = TRUE]
    [] s.at = "send" /\ s.n < Bits -> Offer(s, regs[s.ptr])
    [] OTHER -> s

Acking(s) == s.at \in Receiving /\ s.n = Bits /\ Addressed(s)

(* The wires change to m; the slave sees the edge, START and STOP.  On a   *)
(* falling edge it may also refuse to acknowledge, or stretch the clock.   *)
Drive(m) ==
  /\ master' = m
  /\ LET scl0 == Scl(master, slave)  scl1 == Scl(m, slave)
         sda0 == Sda(master, slave)  sda1 == Sda(m, slave)
         fall == scl0 /\ ~scl1
         taken == IF fall /\ slave.at = "value" /\ Acking(slave)
                  THEN [regs EXCEPT ![slave.ptr] = slave.byte] ELSE regs
     IN \/ /\ \/ /\ scl0 /\ scl1 /\ sda0 /\ ~sda1
                 /\ slave' = [slave EXCEPT !.at = "address", !.n = 0, !.byte = 0]
              \/ scl0 /\ scl1 /\ ~sda0 /\ sda1 /\ slave' = Quiet(slave)
              \/ ~scl0 /\ scl1 /\ slave' = OnRise(slave, sda1)
              \/ fall /\ slave' = OnFall(slave)
              \/ scl0 = scl1 /\ (~scl0 \/ sda0 = sda1) /\ UNCHANGED slave
           /\ regs' = taken
           /\ UNCHANGED faults
        \/ /\ fall /\ faults < MaxFaults /\ faults' = faults + 1
           /\ \/ Acking(slave) /\ slave' = Quiet(slave) /\ UNCHANGED regs
              \/ slave' = [OnFall(slave) EXCEPT !.scl = FALSE] /\ regs' = taken

\* The slave ends its stretch, now or long after the master has given up.
Release ==
  /\ ~slave.scl
  /\ LET up == [slave EXCEPT !.scl = TRUE]
     IN slave' = IF master.scl THEN OnRise(up, Sda(master, slave)) ELSE up
  /\ UNCHANGED <<masterVars, master, regs, faults>>

-----------------------------------------------------------------------------
(* PMIC_GEC6818: which calls it makes, and with what                       *)

Reads == <<DCMODE, DCFREQ, DC2VOL, DC3VOL>>
Call(k) ==
  CASE k \in 1..4 -> [op |-> "read", reg |-> Reads[k]]
    [] k = 5 -> [op |-> "write", reg |-> DC3VOL, value |-> got[DC2VOL]]
    [] k = 6 -> [op |-> "write", reg |-> DCFREQ, value |-> With(got[DCFREQ], PolyPhase)]
    [] k = 7 -> [op |-> "write", reg |-> DCMODE, value |-> With(got[DCMODE], PwmModes)]
    [] k = 8 -> [op |-> "read", reg |-> DCFREQ]
    [] k = 9 -> [op |-> "read", reg |-> DCMODE]

Last == 9

\* Mutant: nor are those of the reads.
MutNextCall(k, ok) == k + 1

\* A failed read ends it; the results of the three writes are not looked at.
NextCall(k, ok) == IF ok \/ k \in 5..7 THEN k + 1 ELSE Last + 1

(* I2C_Read and I2C_Write as the bus operations they consist of.           *)
Send(v) == <<[op |-> "bit", one |-> BitOf(v, 1)], [op |-> "bit", one |-> BitOf(v, 2)],
             [op |-> "ack"]>>
Start == <<[op |-> "start"]>>
Stop == <<[op |-> "stop"]>>

\* Mutant: no repeated START before the read address.
MutOperations(c) ==
  IF c.op = "write"
  THEN Start \o Send(2) \o Send(c.reg) \o Send(c.value) \o Stop
  ELSE Start \o Send(2) \o Send(c.reg) \o Send(3)
       \o <<[op |-> "get"], [op |-> "get"], [op |-> "bit", one |-> TRUE]>> \o Stop

Operations(c) ==
  IF c.op = "write"
  THEN Start \o Send(2) \o Send(c.reg) \o Send(c.value) \o Stop
  ELSE Start \o Send(2) \o Send(c.reg) \o Start \o Send(3)
       \o <<[op |-> "get"], [op |-> "get"], [op |-> "bit", one |-> TRUE]>> \o Stop

Operation == Operations(Call(call))[pc.op]
Doing(ops, step) == call <= Last /\ pc.step = step /\ Operation.op \in ops
Step(s) == pc' = [pc EXCEPT !.step = s] /\ UNCHANGED <<call, got, before>>

Returns(ok) ==
  /\ call' = NextCall(call, ok)
  /\ pc' = [op |-> 1, step |-> "begin"]
  /\ got' = IF ok /\ Call(call).op = "read" /\ call <= 4 THEN [got EXCEPT ![Call(call).reg] = data] ELSE got
  /\ UNCHANGED before

NextOperation ==
  IF pc.op < Len(Operations(Call(call)))
  THEN pc' = [op |-> pc.op + 1, step |-> "begin"] /\ UNCHANGED <<call, got, before>>
  ELSE Returns(TRUE)

-----------------------------------------------------------------------------
(* The master, one action per thing it does to the wires                   *)

\* I2C_Start when the bus is not idle first lets go of SDA.
StartBegin ==
  /\ Doing({"start"}, "begin")
  /\ IF started THEN Step("clock") /\ Drive([master EXCEPT !.sda = TRUE])
                ELSE Step("sample") /\ UNCHANGED <<master, slave, regs, faults>>
  /\ UNCHANGED <<started, data>>

BitBegin ==
  /\ Doing({"bit", "ack", "get", "stop"}, "begin")
  /\ Step("clock")
  /\ Drive([master EXCEPT !.sda = CASE Operation.op = "bit" -> Operation.one
                                    [] Operation.op = "stop" -> FALSE
                                    [] OTHER -> TRUE])
  /\ UNCHANGED <<started, data>>

RaiseClock ==
  /\ Doing({"start", "bit", "ack", "get", "stop"}, "clock")
  /\ Step("wait") /\ Drive([master EXCEPT !.scl = TRUE])
  /\ UNCHANGED <<started, data>>

ClockIsHigh ==
  /\ Doing({"start", "bit", "ack", "get", "stop"}, "wait")
  /\ Scl(master, slave)
  /\ Step("sample")
  /\ UNCHANGED <<started, data, master, slave, regs, faults>>

\* Mutant: it waits for the clock for ever.
MutTimeout ==
  /\ Doing({"start", "bit", "ack", "get", "stop"}, "wait")
  /\ ~Scl(master, slave)
  /\ UNCHANGED vars

\* Out of the middle of the transfer: SCL stays released, `started' stays set.
Timeout ==
  /\ Doing({"start", "bit", "ack", "get", "stop"}, "wait")
  /\ ~Scl(master, slave)
  /\ Returns(FALSE)
  /\ UNCHANGED <<started, data, master, slave, regs, faults>>

StartSample ==
  /\ Doing({"start"}, "sample")
  /\ LET released == [master EXCEPT !.sda = TRUE]
     IN IF Sda(released, slave)
        THEN Step("fall") /\ started' = started /\ Drive([master EXCEPT !.sda = FALSE])
        ELSE Returns(FALSE) /\ UNCHANGED <<started, master, slave, regs, faults>>
  /\ UNCHANGED data

StartFall ==
  /\ Doing({"start"}, "fall")
  /\ NextOperation
  /\ started' = TRUE
  /\ Drive([master EXCEPT !.scl = FALSE])
  /\ UNCHANGED data

\* A one that another device pulls down: arbitration lost, SCL stays released.
WriteBitSample ==
  /\ Doing({"bit"}, "sample")
  /\ IF Operation.one /\ ~Sda(master, slave) THEN Returns(FALSE) ELSE Step("fall")
  /\ UNCHANGED <<started, data, master, slave, regs, faults>>

\* Mutant: the byte is kept in a word that no ReadByte clears.
MutReadBitSample ==
  /\ Doing({"ack", "get"}, "sample")
  /\ Step("fall")
  /\ data' = 2 * data + (IF Sda(master, slave) THEN 1 ELSE 0)
  /\ UNCHANGED <<started, master, slave, regs, faults>>

ReadBitSample ==
  /\ Doing({"ack", "get"}, "sample")
  /\ Step("fall")
  /\ data' = (2 * data + (IF Sda(master, slave) THEN 1 ELSE 0)) % 4
  /\ UNCHANGED <<started, master, slave, regs, faults>>

\* The bit is over; a byte that was not acknowledged ends the transfer here.
BitFall ==
  /\ Doing({"bit", "ack", "get"}, "fall")
  /\ Drive([master EXCEPT !.scl = FALSE])
  /\ IF Operation.op = "ack" /\ data % 2 = 1 THEN Returns(FALSE) ELSE NextOperation
  /\ UNCHANGED <<started, data>>

StopSample ==
  /\ Doing({"stop"}, "sample")
  /\ started' = FALSE
  /\ Drive([master EXCEPT !.sda = TRUE])
  /\ Returns(slave.sda)
  /\ UNCHANGED data

Master ==
  \/ StartBegin \/ BitBegin \/ RaiseClock \/ ClockIsHigh \/ Timeout \/ StartSample
  \/ StartFall \/ WriteBitSample \/ ReadBitSample \/ BitFall \/ StopSample

(* A transfer of the kernel that a reset has cut short leaves the slave    *)
(* idle, in the middle of a byte it receives, or holding SDA low.          *)
Interrupted ==
  {Idle} \cup {[Idle EXCEPT !.at = "value", !.ptr = r, !.n = 1] : r \in Reg}
         \cup {[Idle EXCEPT !.at = "send", !.n = 1, !.sda = FALSE]}

Init ==
  /\ master = [scl |-> TRUE, sda |-> TRUE]
  /\ started = FALSE /\ call = 1 /\ pc = [op |-> 1, step |-> "begin"]
  /\ data = 0 /\ got = [r \in Reg |-> 0]
  /\ slave \in Interrupted
  /\ \E v2, v3 \in Setpoints :
       regs = [r \in Reg |-> CASE r = DC2VOL -> v2 [] r = DC3VOL -> v3 [] OTHER -> 0]
  /\ faults = 0
  /\ before = regs

Next == Master \/ Release

Spec == Init /\ [][Next]_vars

\* The master runs on; nothing is assumed of the slave.
FairSpec == Spec /\ WF_vars(Master)

-----------------------------------------------------------------------------
(* Properties                                                              *)

TypeOK ==
  /\ master \in [scl : BOOLEAN, sda : BOOLEAN]
  /\ started \in BOOLEAN
  /\ call \in 1..Last + 1
  /\ pc \in [op : 1..16, step : {"begin", "clock", "wait", "sample", "fall"}]
  /\ data \in Byte /\ got \in [Reg -> Byte]
  /\ slave \in Slaves
  /\ regs \in [Reg -> Byte]
  /\ faults \in 0..MaxFaults

\* What PMIC_GEC6818 goes on with is what the registers hold, whatever
\* stretches, refusals and aborted transfers came before.
ReadsAreTrue == call \in 5..7 => got = before

\* Each register keeps the value it had or gets the one meant for it: a transfer
\* that ends in the middle, the next one's START and a transfer the kernel left
\* unfinished never make a write of their own.
OnlyMeantWrites ==
  \A r \in Reg :
    \/ regs[r] = before[r]
    \/ \E k \in 5..7 : call >= k /\ Call(k).reg = r /\ regs[r] = Call(k).value

\* The two phases are at the same setpoint before they are bridged (pmic.c:312).
BridgedAtOneSetpoint ==
  (regs[DCFREQ] \div PolyPhase) % 2 = 1 => regs[DC3VOL] = regs[DC2VOL]

\* A dead or stuck PMIC does not stop the boot.
InitReturns == <>(call = Last + 1)
=============================================================================
