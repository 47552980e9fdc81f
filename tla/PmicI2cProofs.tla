---------------------------- MODULE PmicI2cProofs ----------------------------
(***************************************************************************)
(* What holds of every set-up of the PMIC over the bit-banged bus, for any *)
(* number of stretches and refusals, any contents of the registers and any *)
(* state in which a reset has left the bus.                                *)
(***************************************************************************)
EXTENDS PmicI2c, TLAPS

-----------------------------------------------------------------------------
(* The slave's answers to the edges of the clock.                          *)

LEMMA QuietSlave ==
  ASSUME NEW s \in Slaves
  PROVE  /\ Quiet(s) \in Slaves /\ Quiet(s).at = "idle" /\ Quiet(s).ptr = s.ptr
         /\ Quiet(s).sda = TRUE /\ Quiet(s).scl = s.scl
  <1>1. 0 \in 0..Bits + 1 BY DEF Bits
  <1>2. Quiet(s) \in Slaves BY <1>1, Zenon DEF Quiet, Slaves
  <1>3. Quiet(s).at = "idle" BY Zenon DEF Quiet, Slaves
  <1>4. Quiet(s).ptr = s.ptr BY Zenon DEF Quiet, Slaves
  <1>5. Quiet(s).sda = TRUE BY Zenon DEF Quiet, Slaves
  <1>6. Quiet(s).scl = s.scl BY Zenon DEF Quiet, Slaves
  <1>7. QED BY <1>2, <1>3, <1>4, <1>5, <1>6

LEMMA OfferSlave ==
  ASSUME NEW s \in Slaves, NEW v
  PROVE  /\ Offer(s, v) \in Slaves /\ Offer(s, v).at = s.at /\ Offer(s, v).n = s.n
         /\ Offer(s, v).byte = s.byte /\ Offer(s, v).ptr = s.ptr
         /\ Offer(s, v).scl = s.scl /\ Offer(s, v).sda = BitOf(v, s.n + 1)
  <1>1. BitOf(v, s.n + 1) \in BOOLEAN BY DEF BitOf
  <1>2. QED BY <1>1 DEF Offer, Slaves, Receiving

LEMMA PulledSlave ==
  ASSUME NEW s \in Slaves, NEW b \in BOOLEAN
  PROVE  LET t == [s EXCEPT !.sda = b]
         IN /\ t \in Slaves /\ t.at = s.at /\ t.n = s.n /\ t.byte = s.byte
            /\ t.ptr = s.ptr /\ t.scl = s.scl /\ t.sda = b
  BY DEF Slaves, Receiving

\* A rising edge is a bit that it takes, or that the master has taken.
LEMMA RiseReceiving ==
  ASSUME NEW s \in Slaves, NEW b \in BOOLEAN, s.at \in Receiving
  PROVE  LET t == OnRise(s, b)
         IN /\ t \in Slaves /\ t.at = s.at /\ t.ptr = s.ptr /\ t.sda = s.sda
            /\ t.scl = s.scl
            /\ s.n < Bits => /\ t.n = s.n + 1
                             /\ t.byte = (2 * s.byte + (IF b THEN 1 ELSE 0)) % 4
            /\ s.n = Bits => t.n = s.n + 1 /\ t.byte = s.byte
  <1> DEFINE t == OnRise(s, b)
             n1 == s.n + 1
             b1 == (2 * s.byte + (IF b THEN 1 ELSE 0)) % 4
  <1>1. s.at # "send" /\ s.at # "idle" BY DEF Receiving
  <1>2. CASE s.n < Bits
    <2>1. n1 \in 0..Bits + 1 /\ b1 \in Byte BY <1>2 DEF Slaves, Bits, Byte
    <2>2. t = [s EXCEPT !.n = n1, !.byte = b1] BY <1>1, <1>2, Zenon DEF OnRise
    <2> HIDE DEF t, n1, b1
    <2>3. t \in Slaves BY <2>1, <2>2, Zenon DEF Slaves
    <2>4. t.at = s.at /\ t.ptr = s.ptr BY <2>2, Zenon DEF Slaves
    <2>5. t.sda = s.sda /\ t.scl = s.scl BY <2>2, Zenon DEF Slaves
    <2>6. t.n = n1 /\ t.byte = b1 BY <2>2, Zenon DEF Slaves
    <2>7. QED BY <1>2, <2>3, <2>4, <2>5, <2>6 DEF t, n1, b1, Bits
  <1>3. CASE ~(s.n < Bits)
    <2>1. t = [s EXCEPT !.n = IF @ <= Bits THEN @ + 1 ELSE @]
      BY <1>1, <1>3, Zenon DEF OnRise
    <2>2. QED BY <1>3, <2>1 DEF Slaves, Receiving, Bits, Byte
  <1>4. QED BY <1>2, <1>3

LEMMA RiseSending ==
  ASSUME NEW s \in Slaves, NEW b \in BOOLEAN, s.at = "send"
  PROVE  LET t == OnRise(s, b)
         IN /\ t \in Slaves /\ t.ptr = s.ptr /\ t.scl = s.scl
            /\ s.n < Bits => t.at = "send" /\ t.n = s.n + 1 /\ t.sda = s.sda
            /\ s.n = Bits /\ b => t.at = "idle" /\ t.sda = TRUE
  <1>1. s.at \notin Receiving /\ s.at # "idle" BY DEF Receiving
  <1>2. CASE s.n = Bits /\ b
    <2>1. OnRise(s, b) = Quiet(s) BY <1>1, <1>2, Zenon DEF OnRise
    <2>2. ~(s.n < Bits) BY <1>2 DEF Bits
    <2>3. QED BY <1>2, <2>1, <2>2, QuietSlave, Zenon
  <1>3. CASE ~(s.n = Bits /\ b)
    <2>1. OnRise(s, b) = [s EXCEPT !.n = IF @ <= Bits THEN @ + 1 ELSE @]
      BY <1>1, <1>3, Zenon DEF OnRise
    <2>2. QED BY <1>3, <2>1 DEF Slaves, Receiving, Bits, Byte
  <1>4. QED BY <1>2, <1>3

LEMMA RiseIdle ==
  ASSUME NEW s \in Slaves, NEW b \in BOOLEAN, s.at = "idle"
  PROVE  OnRise(s, b) = s
  BY DEF OnRise, Receiving

LEMMA RiseType ==
  ASSUME NEW s \in Slaves, NEW b \in BOOLEAN
  PROVE  OnRise(s, b) \in Slaves /\ OnRise(s, b).ptr = s.ptr /\ OnRise(s, b).scl = s.scl
  <1>1. CASE s.at \in Receiving BY <1>1, RiseReceiving
  <1>2. CASE s.at = "send" BY <1>2, RiseSending
  <1>3. CASE s.at = "idle" BY <1>3, RiseIdle
  <1>4. QED BY <1>1, <1>2, <1>3 DEF Slaves

\* A falling edge after the acknowledge of a byte.
LEMMA NextByteStarts ==
  ASSUME NEW s \in Slaves
  PROVE  LET t == NextByte(s)
         IN /\ t \in Slaves /\ t.scl = s.scl /\ t.n = 0 /\ t.byte = 0
            /\ s.at = "address" /\ s.byte = 2
                 => t.at = "register" /\ t.sda = TRUE /\ t.ptr = s.ptr
            /\ s.at = "address" /\ s.byte = 3
                 => t.at = "send" /\ t.ptr = s.ptr /\ t.sda = BitOf(regs[s.ptr], 1)
            /\ s.at = "register" => t.at = "value" /\ t.sda = TRUE /\ t.ptr = s.byte
            /\ s.at # "register" => t.ptr = s.ptr
  <1> DEFINE new == [s EXCEPT !.n = 0, !.byte = 0, !.sda = TRUE]
             t == NextByte(s)
  <1>0. 0 \in 0..Bits + 1 /\ 0 \in Byte BY DEF Bits, Byte
  <1>1. new \in Slaves BY <1>0, Zenon DEF Slaves
  <1>2. /\ new.n = 0 /\ new.byte = 0 /\ new.sda = TRUE
        /\ new.at = s.at /\ new.ptr = s.ptr /\ new.scl = s.scl
    BY Zenon DEF Slaves
  <1> HIDE DEF new
  <1>3. CASE s.at = "address" /\ s.byte = 2
    <2>1. t = [new EXCEPT !.at = "register"] BY <1>3 DEF NextByte, new
    <2>2. QED BY <1>1, <1>2, <1>3, <2>1 DEF Slaves, Receiving
  <1>4. CASE s.at = "address" /\ s.byte = 3
    <2> DEFINE u == [new EXCEPT !.at = "send"]
    <2>1. t = Offer(u, regs[s.ptr])
      <3>1. s.byte # 2 BY <1>4
      <3>2. QED BY <1>4, <3>1, Zenon DEF NextByte, new
    <2>2. /\ u \in Slaves /\ u.at = "send" /\ u.n = 0 /\ u.byte = 0 /\ u.ptr = s.ptr
          /\ u.scl = s.scl
      BY <1>1, <1>2 DEF Slaves, Receiving
    <2> HIDE DEF u
    <2>3. u.n + 1 = 1 BY <2>2
    <2>4. QED BY <1>4, <2>1, <2>2, <2>3, OfferSlave
  <1>5. CASE s.at = "register"
    <2>1. t = [new EXCEPT !.at = "value", !.ptr = s.byte] BY <1>5, Zenon DEF NextByte, new
    <2>2. s.byte \in Reg BY DEF Slaves, Byte, Reg, DCMODE, DCFREQ, DC2VOL, DC3VOL
    <2>3. t \in Slaves BY <1>1, <2>1, <2>2, Zenon DEF Slaves, Receiving
    <2>4. t.at = "value" /\ t.ptr = s.byte BY <1>1, <2>1, Zenon DEF Slaves
    <2>5. /\ t.n = new.n /\ t.byte = new.byte /\ t.sda = new.sda /\ t.scl = new.scl
      BY <1>1, <2>1, Zenon DEF Slaves
    <2>6. QED BY <1>2, <1>5, <2>3, <2>4, <2>5
  <1>6. CASE s.at = "send"
    <2>1. t = Offer(new, regs[s.ptr]) BY <1>6 DEF NextByte, new
    <2>2. QED BY <1>1, <1>2, <1>6, <2>1, OfferSlave
  <1>7. CASE s.at # "register" /\ s.at # "send" /\ ~(s.at = "address" /\ s.byte \in {2, 3})
    <2>1. t = new BY <1>7, Zenon DEF NextByte, new
    <2>2. QED BY <1>1, <1>2, <1>7, <2>1
  <1>8. QED BY <1>3, <1>4, <1>5, <1>6, <1>7

\* Any falling edge.
LEMMA FallOfSlave ==
  ASSUME NEW s \in Slaves
  PROVE  LET t == OnFall(s)
         IN /\ t \in Slaves /\ t.scl = s.scl
            /\ s.at = "idle" \/ (s.at \in Receiving /\ s.n < Bits) => t = s
            /\ s.n = Bits /\ s.at \in Receiving /\ Addressed(s)
                 => /\ t.at = s.at /\ t.n = s.n /\ t.byte = s.byte /\ t.ptr = s.ptr
                    /\ t.sda = FALSE
            /\ s.n = Bits /\ s.at = "send"
                 => t.at = "send" /\ t.n = s.n /\ t.ptr = s.ptr /\ t.sda = TRUE
            /\ s.n < Bits /\ s.at = "send"
                 => /\ t.at = "send" /\ t.n = s.n /\ t.ptr = s.ptr
                    /\ t.sda = BitOf(regs[s.ptr], s.n + 1)
            /\ s.n = Bits + 1 /\ s.at # "idle" => t = NextByte(s)
            /\ s.at # "register" => t.ptr = s.ptr
  <1> DEFINE t == OnFall(s)
  <1>1. CASE s.at = "idle"
    <2>1. t = s BY <1>1, Zenon DEF OnFall, Receiving
    <2>2. QED BY <1>1, <2>1 DEF Receiving
  <1>2. CASE s.at # "idle" /\ s.n = Bits + 1
    <2>1. t = NextByte(s)
      <3>1. ~(s.n = Bits) /\ ~(s.n < Bits) BY <1>2 DEF Bits
      <3>2. QED BY <1>2, <3>1, Zenon DEF OnFall
    <2>2. ~(s.n < Bits) /\ s.n # Bits BY <1>2 DEF Bits
    <2>3. QED BY <1>2, <2>1, <2>2, NextByteStarts, Zenon
  <1>3. CASE s.at \in Receiving /\ s.n = Bits
    <2>1. s.at # "idle" /\ s.n # Bits + 1 /\ s.at # "send" BY <1>3 DEF Receiving, Bits
    <2>2. ~(s.n < Bits) BY <1>3 DEF Bits
    <2>3. CASE Addressed(s)
      <3>1. t = [s EXCEPT !.sda = FALSE] BY <1>3, <2>1, <2>3, Zenon DEF OnFall
      <3>2. QED BY <1>3, <2>1, <2>2, <2>3, <3>1, PulledSlave, Zenon
    <2>4. CASE ~Addressed(s)
      <3>1. t = Quiet(s) BY <1>3, <2>1, <2>4, Zenon DEF OnFall
      <3>2. QED BY <1>3, <2>1, <2>2, <2>4, <3>1, QuietSlave, Zenon
    <2>5. QED BY <2>3, <2>4
  <1>4. CASE s.at = "send" /\ s.n = Bits
    <2>1. s.at # "idle" /\ s.n # Bits + 1 /\ s.at \notin Receiving /\ ~(s.n < Bits)
      BY <1>4 DEF Receiving, Bits
    <2>2. t = [s EXCEPT !.sda = TRUE] BY <1>4, <2>1, Zenon DEF OnFall
    <2>3. s.at # "register" BY <1>4
    <2>4. QED BY <1>4, <2>1, <2>2, <2>3, PulledSlave, Zenon
  <1>5. CASE s.at = "send" /\ s.n < Bits
    <2>1. s.at # "idle" /\ s.n # Bits + 1 /\ s.n # Bits /\ s.at \notin Receiving
      BY <1>5 DEF Receiving, Bits, Slaves
    <2>2. t = Offer(s, regs[s.ptr]) BY <1>5, <2>1, Zenon DEF OnFall
    <2>3. QED BY <1>5, <2>1, <2>2, OfferSlave
  <1>6. CASE s.at \in Receiving /\ s.n < Bits
    <2>1. s.at # "idle" /\ s.n # Bits + 1 /\ s.n # Bits /\ s.at # "send"
      BY <1>6 DEF Receiving, Bits, Slaves
    <2>2. t = s BY <1>6, <2>1, Zenon DEF OnFall
    <2>3. QED BY <1>6, <2>1, <2>2
  <1>7. s.n < Bits \/ s.n = Bits \/ s.n = Bits + 1 BY DEF Slaves, Bits
  <1>8. s.at \in Receiving \/ s.at = "idle" \/ s.at = "send" BY DEF Slaves
  <1>9. QED BY <1>1, <1>2, <1>3, <1>4, <1>5, <1>6, <1>7, <1>8, Zenon

-----------------------------------------------------------------------------
(* What the slave makes of a change of the wires.                          *)

Wires == [scl : BOOLEAN, sda : BOOLEAN]

BusTypes ==
  /\ master \in Wires /\ slave \in Slaves /\ regs \in [Reg -> Byte]
  /\ faults \in 0..MaxFaults

Unmoved == UNCHANGED <<slave, regs, faults>>

\* The master's level of SDA does not matter while the clock is low.
LEMMA DriveLow ==
  ASSUME NEW m \in Wires, Drive(m), ~master.scl, ~m.scl
  PROVE  Unmoved
  BY Zenon DEF Drive, Unmoved, Scl, Sda

LEMMA DriveRise ==
  ASSUME BusTypes, NEW m \in Wires, Drive(m), ~master.scl, m.scl
  PROVE  /\ UNCHANGED <<regs, faults>>
         /\ slave.scl => slave' = OnRise(slave, Sda(m, slave))
         /\ ~slave.scl => slave' = slave
  <1>1. CASE slave.scl BY <1>1, Zenon DEF Drive, Scl, Sda
  <1>2. CASE ~slave.scl BY <1>2, Zenon DEF Drive, Scl, Sda
  <1>3. QED BY <1>1, <1>2

Summoned == [slave EXCEPT !.at = "address", !.n = 0, !.byte = 0]

LEMMA SummonedSlave ==
  ASSUME slave \in Slaves
  PROVE  /\ Summoned \in Slaves /\ Summoned.at = "address" /\ Summoned.n = 0
         /\ Summoned.byte = 0 /\ Summoned.ptr = slave.ptr
         /\ Summoned.sda = slave.sda /\ Summoned.scl = slave.scl
  <1>1. 0 \in 0..Bits + 1 /\ 0 \in Byte BY DEF Bits, Byte
  <1>2. Summoned \in Slaves BY <1>1, Zenon DEF Summoned, Slaves, Receiving
  <1>3. Summoned.at = "address" /\ Summoned.n = 0 /\ Summoned.byte = 0
    BY Zenon DEF Summoned, Slaves
  <1>4. /\ Summoned.ptr = slave.ptr /\ Summoned.sda = slave.sda
        /\ Summoned.scl = slave.scl
    BY Zenon DEF Summoned, Slaves
  <1>5. QED BY <1>2, <1>3, <1>4

\* SDA changes while the clock is high: START or STOP.
LEMMA DriveHigh ==
  ASSUME BusTypes, NEW m \in Wires, Drive(m), master.scl, m.scl
  PROVE  /\ UNCHANGED <<regs, faults>>
         /\ slave' \in Slaves /\ slave'.ptr = slave.ptr /\ slave'.scl = slave.scl
         /\ slave.scl /\ Sda(master, slave) /\ ~Sda(m, slave) => slave' = Summoned
  <1>1. CASE slave.scl /\ Sda(master, slave) /\ ~Sda(m, slave)
    <2>1. UNCHANGED <<regs, faults>> /\ slave' = Summoned
      BY <1>1, Zenon DEF Drive, Scl, Summoned
    <2>2. QED BY <2>1, SummonedSlave DEF BusTypes
  <1>2. CASE ~(slave.scl /\ Sda(master, slave) /\ ~Sda(m, slave))
    <2>1. UNCHANGED <<regs, faults>> /\ (slave' = Quiet(slave) \/ slave' = slave)
      BY <1>2, Zenon DEF Drive, Scl
    <2>2. QED BY <1>2, <2>1, QuietSlave DEF BusTypes
  <1>3. QED BY <1>1, <1>2

\* The clock falls: the slave goes on, perhaps holding it, or it refuses.
GoesOn ==
  LET t == OnFall(slave)
  IN /\ slave'.at = t.at /\ slave'.n = t.n /\ slave'.byte = t.byte
     /\ slave'.ptr = t.ptr /\ slave'.sda = t.sda
     /\ regs' = IF slave.at = "value" /\ Acking(slave)
                THEN [regs EXCEPT ![slave.ptr] = slave.byte] ELSE regs
Refuses == Acking(slave) /\ slave' = Quiet(slave) /\ regs' = regs

LEMMA DriveFall ==
  ASSUME BusTypes, NEW m \in Wires, Drive(m), master.scl, slave.scl, ~m.scl
  PROVE  BusTypes' /\ (GoesOn \/ Refuses)
  <1> DEFINE t == OnFall(slave)
             u == [t EXCEPT !.scl = FALSE]
             taken == IF slave.at = "value" /\ Acking(slave)
                      THEN [regs EXCEPT ![slave.ptr] = slave.byte] ELSE regs
  <1>1. /\ t \in Slaves
        /\ \/ slave' = t /\ regs' = taken /\ faults' = faults
           \/ Acking(slave) /\ slave' = Quiet(slave) /\ regs' = regs
              /\ faults < MaxFaults /\ faults' = faults + 1
           \/ slave' = u /\ regs' = taken /\ faults < MaxFaults /\ faults' = faults + 1
    <2>1. Scl(master, slave) /\ ~Scl(m, slave) BY DEF Scl
    <2>2. t \in Slaves BY FallOfSlave DEF BusTypes
    <2> HIDE DEF t
    <2>3. QED BY <2>1, <2>2, Zenon DEF Drive, t
  <1>2. /\ u \in Slaves /\ u.at = t.at /\ u.n = t.n /\ u.byte = t.byte
        /\ u.ptr = t.ptr /\ u.sda = t.sda
    <2> HIDE DEF t
    <2>1. QED BY <1>1 DEF Slaves, Receiving
  <1>3. taken \in [Reg -> Byte]
    BY DEF BusTypes, Slaves
  <1>4. Quiet(slave) \in Slaves BY QuietSlave DEF BusTypes
  <1>5. faults + 1 \in 0..MaxFaults \/ ~(faults < MaxFaults) BY I2cAssumption DEF BusTypes
  <1>6. master' \in Wires BY DEF Drive
  <1> HIDE DEF t, u, taken
  <1>7. BusTypes' BY <1>1, <1>2, <1>3, <1>4, <1>5, <1>6 DEF BusTypes
  <1>8. GoesOn \/ Refuses
    <2>1. CASE slave' = t /\ regs' = taken
      BY <2>1, Zenon DEF GoesOn, t, taken
    <2>2. CASE slave' = u /\ regs' = taken
      BY <1>2, <2>2, Zenon DEF GoesOn, t, taken
    <2>3. CASE Acking(slave) /\ slave' = Quiet(slave) /\ regs' = regs
      BY <2>3 DEF Refuses
    <2>4. QED BY <1>1, <2>1, <2>2, <2>3
  <1>9. QED BY <1>7, <1>8

\* Whatever the master does to the wires but let the clock fall.
LEMMA DriveTypes ==
  ASSUME BusTypes, NEW m \in Wires, Drive(m), m.scl \/ ~master.scl
  PROVE  /\ BusTypes' /\ UNCHANGED <<regs, faults>> /\ master' = m
         /\ slave'.ptr = slave.ptr /\ slave'.scl = slave.scl
  <1>1. master' = m BY DEF Drive
  <1>2. CASE ~master.scl /\ ~m.scl
    BY <1>1, <1>2, DriveLow DEF BusTypes, Unmoved
  <1>3. CASE ~master.scl /\ m.scl
    <2>1. Sda(m, slave) \in BOOLEAN BY DEF Sda
    <2>2. OnRise(slave, Sda(m, slave)) \in Slaves
            /\ OnRise(slave, Sda(m, slave)).ptr = slave.ptr
            /\ OnRise(slave, Sda(m, slave)).scl = slave.scl
      BY <2>1, RiseType DEF BusTypes
    <2>3. UNCHANGED <<regs, faults>>
          /\ (slave' = slave \/ slave' = OnRise(slave, Sda(m, slave)))
      BY <1>3, DriveRise
    <2>4. QED BY <1>1, <2>2, <2>3 DEF BusTypes
  <1>4. CASE master.scl /\ m.scl
    BY <1>1, <1>4, DriveHigh DEF BusTypes
  <1>5. QED BY <1>2, <1>3, <1>4

-----------------------------------------------------------------------------
(* The calls of PMIC_GEC6818 and the operations of a transfer.             *)

Reading == call \in {1, 2, 3, 4, 8, 9}
Writing == call \in 5..7
TheReg == Call(call).reg
TheValue == Call(call).value
LastOp == IF Reading THEN 15 ELSE 11
IsStart == pc.op = 1 \/ (Reading /\ pc.op = 8)

USE DEF DCMODE, DCFREQ, DC2VOL, DC3VOL

LEMMA TheCall ==
  ASSUME call \in 1..Last, got \in [Reg -> Byte]
  PROVE  /\ Reading => Call(call).op = "read"
         /\ Writing => Call(call).op = "write" /\ TheValue \in Byte
         /\ TheReg \in Reg
         /\ call <= 4 => TheReg = call - 1
  <1>1. CASE call \in 1..4
    <2>1. Call(call) = [op |-> "read", reg |-> Reads[call]] BY <1>1 DEF Call
    <2>2. Reads[call] = call - 1 BY <1>1 DEF Reads
    <2>3. call - 1 \in Reg BY <1>1 DEF Reg
    <2>4. QED BY <1>1, <2>1, <2>2, <2>3 DEF Writing, TheReg
  <1>2. CASE call = 5
    <2>1. Call(call) = [op |-> "write", reg |-> DC3VOL, value |-> got[DC2VOL]]
      BY <1>2 DEF Call
    <2>2. QED BY <1>2, <2>1 DEF Reading, TheReg, TheValue, Reg
  <1>3. CASE call = 6
    <2>1. Call(call) = [op |-> "write", reg |-> DCFREQ, value |-> With(got[DCFREQ], PolyPhase)]
      BY <1>3 DEF Call
    <2>2. With(got[DCFREQ], PolyPhase) \in Byte BY DEF With, PolyPhase, Reg, Byte
    <2>3. QED BY <1>3, <2>1, <2>2 DEF Reading, TheReg, TheValue, Reg
  <1>4. CASE call = 7
    <2>1. Call(call) = [op |-> "write", reg |-> DCMODE, value |-> With(got[DCMODE], PwmModes)]
      BY <1>4 DEF Call
    <2>2. With(got[DCMODE], PwmModes) \in Byte BY DEF With, PwmModes, Reg, Byte
    <2>3. QED BY <1>4, <2>1, <2>2 DEF Reading, TheReg, TheValue, Reg
  <1>5. CASE call = 8
    <2>1. Call(call) = [op |-> "read", reg |-> DCFREQ] BY <1>5 DEF Call
    <2>2. QED BY <1>5, <2>1 DEF Writing, TheReg, Reg
  <1>6. CASE call = 9
    <2>1. Call(call) = [op |-> "read", reg |-> DCMODE] BY <1>6 DEF Call
    <2>2. QED BY <1>6, <2>1 DEF Writing, TheReg, Reg
  <1>7. QED BY <1>1, <1>2, <1>3, <1>4, <1>5, <1>6 DEF Last

LEMMA WriteOps ==
  ASSUME NEW c, c.op = "write"
  PROVE  LET ops == Operations(c)
         IN /\ Len(ops) = 11
            /\ ops[1].op = "start" /\ ops[11].op = "stop"
            /\ ops[4].op = "ack" /\ ops[7].op = "ack" /\ ops[10].op = "ack"
            /\ ops[2] = [op |-> "bit", one |-> BitOf(2, 1)]
            /\ ops[3] = [op |-> "bit", one |-> BitOf(2, 2)]
            /\ ops[5] = [op |-> "bit", one |-> BitOf(c.reg, 1)]
            /\ ops[6] = [op |-> "bit", one |-> BitOf(c.reg, 2)]
            /\ ops[8] = [op |-> "bit", one |-> BitOf(c.value, 1)]
            /\ ops[9] = [op |-> "bit", one |-> BitOf(c.value, 2)]
  <1> DEFINE ops == Operations(c)
  <1>1. Len(ops) = 11 BY DEF Operations, Start, Send, Stop
  <1>2. ops[1].op = "start" /\ ops[11].op = "stop"
    BY DEF Operations, Start, Send, Stop
  <1>3. ops[4].op = "ack" /\ ops[7].op = "ack" /\ ops[10].op = "ack"
    BY DEF Operations, Start, Send, Stop
  <1>4. ops[2] = [op |-> "bit", one |-> BitOf(2, 1)]
    BY DEF Operations, Start, Send, Stop
  <1>5. ops[3] = [op |-> "bit", one |-> BitOf(2, 2)]
    BY DEF Operations, Start, Send, Stop
  <1>6. ops[5] = [op |-> "bit", one |-> BitOf(c.reg, 1)]
    BY DEF Operations, Start, Send, Stop
  <1>7. ops[6] = [op |-> "bit", one |-> BitOf(c.reg, 2)]
    BY DEF Operations, Start, Send, Stop
  <1>8. ops[8] = [op |-> "bit", one |-> BitOf(c.value, 1)]
    BY DEF Operations, Start, Send, Stop
  <1>9. ops[9] = [op |-> "bit", one |-> BitOf(c.value, 2)]
    BY DEF Operations, Start, Send, Stop
  <1> HIDE DEF ops
  <1>10. QED BY <1>1, <1>2, <1>3, <1>4, <1>5, <1>6, <1>7, <1>8, <1>9 DEF ops

LEMMA ReadOps ==
  ASSUME NEW c, c.op = "read"
  PROVE  LET ops == Operations(c)
         IN /\ Len(ops) = 15
            /\ ops[1].op = "start" /\ ops[8].op = "start" /\ ops[15].op = "stop"
            /\ ops[12].op = "get" /\ ops[13].op = "get"
            /\ ops[4].op = "ack" /\ ops[7].op = "ack" /\ ops[11].op = "ack"
            /\ ops[2] = [op |-> "bit", one |-> BitOf(2, 1)]
            /\ ops[3] = [op |-> "bit", one |-> BitOf(2, 2)]
            /\ ops[5] = [op |-> "bit", one |-> BitOf(c.reg, 1)]
            /\ ops[6] = [op |-> "bit", one |-> BitOf(c.reg, 2)]
            /\ ops[9] = [op |-> "bit", one |-> BitOf(3, 1)]
            /\ ops[10] = [op |-> "bit", one |-> BitOf(3, 2)]
            /\ ops[14].op = "bit" /\ ops[14].one = TRUE
  <1> DEFINE ops == Operations(c)
  <1>1. Len(ops) = 15 BY DEF Operations, Start, Send, Stop
  <1>2. ops[1].op = "start" /\ ops[8].op = "start" /\ ops[15].op = "stop"
    BY DEF Operations, Start, Send, Stop
  <1>3. ops[12].op = "get" /\ ops[13].op = "get"
    BY DEF Operations, Start, Send, Stop
  <1>4. ops[4].op = "ack" /\ ops[7].op = "ack" /\ ops[11].op = "ack"
    BY DEF Operations, Start, Send, Stop
  <1>5. ops[2] = [op |-> "bit", one |-> BitOf(2, 1)]
    BY DEF Operations, Start, Send, Stop
  <1>6. ops[3] = [op |-> "bit", one |-> BitOf(2, 2)]
    BY DEF Operations, Start, Send, Stop
  <1>7. ops[5] = [op |-> "bit", one |-> BitOf(c.reg, 1)]
    BY DEF Operations, Start, Send, Stop
  <1>8. ops[6] = [op |-> "bit", one |-> BitOf(c.reg, 2)]
    BY DEF Operations, Start, Send, Stop
  <1>9. ops[9] = [op |-> "bit", one |-> BitOf(3, 1)]
    BY DEF Operations, Start, Send, Stop
  <1>10. ops[10] = [op |-> "bit", one |-> BitOf(3, 2)]
    BY DEF Operations, Start, Send, Stop
  <1>11. ops[14].op = "bit" /\ ops[14].one = TRUE
    BY DEF Operations, Start, Send, Stop
  <1> HIDE DEF ops
  <1>12. QED BY <1>1, <1>2, <1>3, <1>4, <1>5, <1>6, <1>7, <1>8, <1>9, <1>10, <1>11 DEF ops

-----------------------------------------------------------------------------
(* The inductive invariant.  Between two calls, or while a call looks for  *)
(* the bus, the slave may be anywhere; from the START on, the two agree on *)
(* the byte and the bit that are on the wires.                             *)

\* Bit p of a byte v that the slave is to take as `at'; 2 is the acknowledge.
InByte(at, v, p) ==
  \/ pc.op = 2 + p /\ at = "address" /\ v = 2
  \/ pc.op = 5 + p /\ at = "register" /\ v = TheReg
  \/ Writing /\ pc.op = 8 + p /\ at = "value" /\ v = TheValue
  \/ Reading /\ pc.op = 9 + p /\ at = "address" /\ v = 3

\* Whether the slave has seen the rising edge of this bit.
High == IF pc.step \in {"sample", "fall"} \/ (pc.step = "wait" /\ slave.scl) THEN 1 ELSE 0

Prefix(v, n) == IF n = 0 THEN 0 ELSE IF n = 1 THEN v \div 2 ELSE v

Took(s, at, v, p, h) ==
  \/ s.at = at /\ s.n = p + h /\ s.byte = Prefix(v, p + h) /\ (s.sda <=> p < 2)
  \/ p = 2 /\ s.at = "idle" /\ s.sda

Gives(s, v, p, h) ==
  IF p = 2 /\ h = 1 THEN s.at = "idle" /\ s.sda
  ELSE s.at = "send" /\ s.n = p + h /\ (s.sda <=> (p < 2 => BitOf(v, p + 1)))

Received(at, v, p) ==
  /\ Took(slave, at, v, p, High)
  /\ pc.step # "begin" => (master.sda <=> (p < 2 => BitOf(v, p + 1)))
  /\ p = 2 /\ pc.step = "fall" => (data % 2 = 0 <=> slave.at = at)

FrameInv ==
  call <= Last =>
    /\ \A at \in Receiving, v \in Byte, p \in 0..2 :
         InByte(at, v, p) => Received(at, v, p)
    /\ \A p \in 0..2 : Reading /\ pc.op = 12 + p =>
         Gives(slave, regs[TheReg], p, High) /\ (pc.step # "begin" => master.sda)
    /\ pc.op >= 8 => slave.ptr = TheReg

\* The clock is low at the start of a bit only; without a START both release it.
WireInv ==
  call <= Last =>
    /\ pc.op \in 1..LastOp
    /\ pc.op > 1 => started /\ (pc.step \in {"begin", "clock"} <=> ~master.scl)
    /\ pc.step \in {"wait", "sample", "fall"} => master.scl
    /\ pc.step \in {"sample", "fall"} => slave.scl
    /\ ~started => /\ master.scl /\ slave.scl /\ pc.step \in {"begin", "sample", "fall"}
                   /\ pc.step # "fall" => master.sda
    /\ IsStart /\ pc.step \in {"clock", "wait", "sample"} => master.sda
    /\ IsStart /\ pc.step = "fall" =>
         slave.at = "address" /\ slave.n = 0 /\ slave.byte = 0 /\ slave.sda

\* What the two bits read so far are.
DataInv ==
  call <= Last /\ Reading =>
    /\ (pc.op = 12 /\ pc.step = "fall") \/ (pc.op = 13 /\ pc.step # "fall")
         => data % 2 = regs[TheReg] \div 2
    /\ (pc.op = 13 /\ pc.step = "fall") \/ pc.op > 13 => data = regs[TheReg]

RegsInv ==
  /\ before \in [Reg -> Byte]
  /\ call < 5 => regs = before
  /\ \A r \in Reg : call <= Last /\ call > r + 1 => got[r] = before[r]
  /\ OnlyMeantWrites

Inv == TypeOK /\ WireInv /\ FrameInv /\ DataInv /\ RegsInv

-----------------------------------------------------------------------------
(* One bit on the wires.                                                   *)

LEMMA PrefixGrows ==
  ASSUME NEW v \in Byte, NEW p \in 0..2
  PROVE  /\ Prefix(v, p) \in Byte
         /\ p < 2 => Prefix(v, p + 1)
                       = (2 * Prefix(v, p) + (IF BitOf(v, p + 1) THEN 1 ELSE 0)) % 4
         /\ Prefix(v, 3) = v /\ Prefix(v, 2) = v
  <1>1. v \in {0, 1, 2, 3} BY DEF Byte
  <1>2. CASE p = 0
    <2>1. BitOf(v, 1) <=> v \div 2 = 1 BY <1>1 DEF BitOf, Bits
    <2>2. QED BY <1>1, <1>2, <2>1 DEF Prefix, Byte
  <1>3. CASE p = 1
    <2>1. BitOf(v, 2) <=> v % 2 = 1 BY <1>1 DEF BitOf, Bits
    <2>2. QED BY <1>1, <1>3, <2>1 DEF Prefix, Byte
  <1>4. CASE p = 2 BY <1>1, <1>4 DEF Prefix, Byte
  <1>5. QED BY <1>2, <1>3, <1>4

LEMMA RiseTakes ==
  ASSUME NEW s \in Slaves, NEW at \in Receiving, NEW v \in Byte, NEW p \in 0..2,
         NEW b \in BOOLEAN, b <=> s.sda /\ (p < 2 => BitOf(v, p + 1)),
         Took(s, at, v, p, 0)
  PROVE  Took(OnRise(s, b), at, v, p, 1)
  <1>1. CASE p = 2 /\ s.at = "idle" /\ s.sda
    <2>1. OnRise(s, b) = s BY <1>1, RiseIdle
    <2>2. QED BY <1>1, <2>1 DEF Took
  <1>2. CASE s.at = at /\ s.n = p /\ s.byte = Prefix(v, p) /\ (s.sda <=> p < 2)
    <2> DEFINE t == OnRise(s, b)
    <2>1. /\ t.at = s.at /\ t.sda = s.sda
          /\ s.n < Bits => /\ t.n = s.n + 1
                           /\ t.byte = (2 * s.byte + (IF b THEN 1 ELSE 0)) % 4
          /\ s.n = Bits => t.n = s.n + 1 /\ t.byte = s.byte
      BY <1>2, RiseReceiving
    <2> HIDE DEF t
    <2>2. CASE p < 2
      <3>1. b <=> BitOf(v, p + 1) BY <1>2, <2>2
      <3>2. t.byte = (2 * Prefix(v, p) + (IF BitOf(v, p + 1) THEN 1 ELSE 0)) % 4
        BY <1>2, <2>1, <2>2, <3>1 DEF Bits
      <3>3. t.byte = Prefix(v, p + 1) BY <2>2, <3>2, PrefixGrows
      <3>4. t.n = p + 1 BY <1>2, <2>1, <2>2 DEF Bits
      <3>5. QED BY <1>2, <2>1, <3>3, <3>4 DEF Took, t
    <2>3. CASE p = 2
      <3>1. t.byte = Prefix(v, 2) /\ t.n = 3 BY <1>2, <2>1, <2>3 DEF Bits
      <3>2. t.byte = Prefix(v, p + 1) /\ t.n = p + 1 BY <2>3, <3>1, PrefixGrows
      <3>3. QED BY <1>2, <2>1, <3>2 DEF Took, t
    <2>4. QED BY <2>2, <2>3
  <1>3. p + 0 = p OBVIOUS
  <1>4. QED BY <1>1, <1>2, <1>3 DEF Took

LEMMA RiseGives ==
  ASSUME NEW s \in Slaves, NEW v \in Byte, NEW p \in 0..2,
         NEW b \in BOOLEAN, b <=> s.sda, Gives(s, v, p, 0)
  PROVE  Gives(OnRise(s, b), v, p, 1)
  <1> DEFINE t == OnRise(s, b)
  <1>1. s.at = "send" /\ s.n = p /\ (s.sda <=> (p < 2 => BitOf(v, p + 1)))
    BY DEF Gives
  <1>2. /\ s.n < Bits => t.at = "send" /\ t.n = s.n + 1 /\ t.sda = s.sda
        /\ s.n = Bits /\ b => t.at = "idle" /\ t.sda = TRUE
    BY <1>1, RiseSending
  <1> HIDE DEF t
  <1>3. CASE p < 2
    <2>1. t.at = "send" /\ t.n = p + 1 /\ t.sda = s.sda BY <1>1, <1>2, <1>3 DEF Bits
    <2>2. QED BY <1>1, <1>3, <2>1 DEF Gives, t
  <1>4. CASE p = 2
    <2>1. t.at = "idle" /\ t.sda = TRUE BY <1>1, <1>2, <1>4 DEF Bits
    <2>2. QED BY <1>4, <2>1 DEF Gives, t
  <1>5. QED BY <1>3, <1>4

-----------------------------------------------------------------------------
(* Within a call, and within an operation.                                 *)

LEMMA SameCall ==
  ASSUME UNCHANGED <<call, got>>
  PROVE  /\ Reading' <=> Reading
         /\ Writing' <=> Writing
         /\ Call(call)' = Call(call)
         /\ TheReg' = TheReg /\ TheValue' = TheValue
         /\ LastOp' = LastOp /\ Operations(Call(call))' = Operations(Call(call))
  <1>1. Reading' <=> Reading BY DEF Reading
  <1>2. Writing' <=> Writing BY DEF Writing
  <1>3. Call(call)' = Call(call) BY Zenon DEF Call
  <1>4. QED BY <1>1, <1>2, <1>3 DEF TheReg, TheValue, LastOp

LEMMA SameOperation ==
  ASSUME UNCHANGED <<call, got>>, pc'.op = pc.op
  PROVE  /\ IsStart' <=> IsStart
         /\ \A at, v, p : InByte(at, v, p)' <=> InByte(at, v, p)
  <1>1. /\ Reading' <=> Reading
        /\ Writing' <=> Writing
        /\ TheReg' = TheReg /\ TheValue' = TheValue
    BY SameCall
  <1>2. IsStart' <=> IsStart BY <1>1 DEF IsStart
  <1>3. ASSUME NEW at, NEW v, NEW p PROVE InByte(at, v, p)' <=> InByte(at, v, p)
    BY <1>1 DEF InByte
  <1>4. QED BY <1>2, <1>3

Places == [op : 1..16, step : {"begin", "clock", "wait", "sample", "fall"}]

LEMMA StepWithin ==
  ASSUME TypeOK, NEW s \in {"begin", "clock", "wait", "sample", "fall"}, Step(s)
  PROVE  /\ pc' \in Places /\ pc'.op = pc.op /\ pc'.step = s
         /\ UNCHANGED <<call, got, before>>
  BY DEF TypeOK, Step, Places

\* Which operation it is, from its place in the transfer.
\* Which operation it is, from its place in the transfer.
LEMMA TheOperation ==
  ASSUME TypeOK, WireInv, call <= Last
  PROVE  /\ Operation.op \in {"start", "bit", "ack", "get", "stop"}
         /\ Operation.op = "start" <=> IsStart
         /\ Operation.op = "stop" <=> pc.op = LastOp
         /\ Operation.op = "get" <=> Reading /\ pc.op \in {12, 13}
         /\ Operation.op = "ack" <=> pc.op \in {4, 7} \/ (Reading /\ pc.op = 11)
                                                      \/ (Writing /\ pc.op = 10)
         /\ Reading /\ pc.op = 14 => Operation.one = TRUE
         /\ \A at, v : /\ InByte(at, v, 0) => Operation.one = BitOf(v, 1)
                       /\ InByte(at, v, 1) => Operation.one = BitOf(v, 2)
         /\ Len(Operations(Call(call))) = LastOp
         /\ TheReg \in Reg /\ (Writing => TheValue \in Byte)
         /\ Reading <=> ~Writing
  <1> DEFINE c == Call(call)
             ops == Operations(c)
  <1>1. /\ Reading => c.op = "read"
        /\ Writing => c.op = "write" /\ TheValue \in Byte
        /\ TheReg \in Reg
    BY TheCall DEF TypeOK, Last
  <1>2. Reading <=> ~Writing BY DEF TypeOK, Last, Reading, Writing
  <1>3. pc.op \in 1..LastOp BY DEF WireInv
  <1>4. TheReg = c.reg /\ TheValue = c.value /\ Operation = ops[pc.op]
    BY DEF TheReg, TheValue, Operation
  <1>5. CASE Writing
    <2>1. /\ Len(ops) = 11
          /\ ops[1].op = "start" /\ ops[11].op = "stop"
          /\ ops[4].op = "ack" /\ ops[7].op = "ack" /\ ops[10].op = "ack"
          /\ ops[2] = [op |-> "bit", one |-> BitOf(2, 1)]
          /\ ops[3] = [op |-> "bit", one |-> BitOf(2, 2)]
          /\ ops[5] = [op |-> "bit", one |-> BitOf(c.reg, 1)]
          /\ ops[6] = [op |-> "bit", one |-> BitOf(c.reg, 2)]
          /\ ops[8] = [op |-> "bit", one |-> BitOf(c.value, 1)]
          /\ ops[9] = [op |-> "bit", one |-> BitOf(c.value, 2)]
      BY <1>1, <1>2, <1>5, WriteOps
    <2>2. LastOp = 11 BY <1>2, <1>5 DEF LastOp
    <2> HIDE DEF ops, c
    <2>3. /\ Operation.op \in {"start", "bit", "ack", "get", "stop"}
          /\ Operation.op = "start" <=> IsStart
          /\ Operation.op = "stop" <=> pc.op = LastOp
      BY <1>2, <1>3, <1>4, <1>5, <2>1, <2>2 DEF IsStart
    <2>4. Operation.op = "get" <=> Reading /\ pc.op \in {12, 13}
      BY <1>2, <1>3, <1>4, <1>5, <2>1, <2>2
    <2>5. Operation.op = "ack" <=> pc.op \in {4, 7} \/ (Reading /\ pc.op = 11)
                                                  \/ (Writing /\ pc.op = 10)
      BY <1>2, <1>3, <1>4, <1>5, <2>1, <2>2
    <2>6. Reading /\ pc.op = 14 => Operation.one = TRUE
      BY <1>2, <1>4, <1>5, <2>1
    <2>7. ASSUME NEW at, NEW v, InByte(at, v, 0) PROVE Operation.one = BitOf(v, 1)
      BY <1>2, <1>4, <1>5, <2>1, <2>7 DEF InByte
    <2>8. ASSUME NEW at, NEW v, InByte(at, v, 1) PROVE Operation.one = BitOf(v, 2)
      BY <1>2, <1>4, <1>5, <2>1, <2>8 DEF InByte
    <2>9. QED BY <1>1, <1>2, <2>1, <2>2, <2>3, <2>4, <2>5, <2>6, <2>7, <2>8 DEF ops, c
  <1>6. CASE Reading
    <2>1. /\ Len(ops) = 15
          /\ ops[1].op = "start" /\ ops[8].op = "start" /\ ops[15].op = "stop"
          /\ ops[12].op = "get" /\ ops[13].op = "get"
          /\ ops[4].op = "ack" /\ ops[7].op = "ack" /\ ops[11].op = "ack"
          /\ ops[2] = [op |-> "bit", one |-> BitOf(2, 1)]
          /\ ops[3] = [op |-> "bit", one |-> BitOf(2, 2)]
          /\ ops[5] = [op |-> "bit", one |-> BitOf(c.reg, 1)]
          /\ ops[6] = [op |-> "bit", one |-> BitOf(c.reg, 2)]
          /\ ops[9] = [op |-> "bit", one |-> BitOf(3, 1)]
          /\ ops[10] = [op |-> "bit", one |-> BitOf(3, 2)]
          /\ ops[14].op = "bit" /\ ops[14].one = TRUE
      BY <1>1, <1>2, <1>6, ReadOps
    <2>2. LastOp = 15 BY <1>2, <1>6 DEF LastOp
    <2> HIDE DEF ops, c
    <2>3. /\ Operation.op \in {"start", "bit", "ack", "get", "stop"}
          /\ Operation.op = "start" <=> IsStart
          /\ Operation.op = "stop" <=> pc.op = LastOp
      BY <1>2, <1>3, <1>4, <1>6, <2>1, <2>2 DEF IsStart
    <2>4. Operation.op = "get" <=> Reading /\ pc.op \in {12, 13}
      BY <1>2, <1>3, <1>4, <1>6, <2>1, <2>2
    <2>5. Operation.op = "ack" <=> pc.op \in {4, 7} \/ (Reading /\ pc.op = 11)
                                                  \/ (Writing /\ pc.op = 10)
      BY <1>2, <1>3, <1>4, <1>6, <2>1, <2>2
    <2>6. Reading /\ pc.op = 14 => Operation.one = TRUE
      BY <1>2, <1>4, <1>6, <2>1
    <2>7. ASSUME NEW at, NEW v, InByte(at, v, 0) PROVE Operation.one = BitOf(v, 1)
      BY <1>2, <1>4, <1>6, <2>1, <2>7 DEF InByte
    <2>8. ASSUME NEW at, NEW v, InByte(at, v, 1) PROVE Operation.one = BitOf(v, 2)
      BY <1>2, <1>4, <1>6, <2>1, <2>8 DEF InByte
    <2>9. QED BY <1>1, <1>2, <2>1, <2>2, <2>3, <2>4, <2>5, <2>6, <2>7, <2>8 DEF ops, c
  <1>7. QED BY <1>2, <1>5, <1>6

LEMMA WhereItIs ==
  ASSUME TypeOK, WireInv, call <= Last
  PROVE  \/ IsStart \/ pc.op = LastOp \/ (Reading /\ pc.op \in 12..14)
         \/ \E at \in Receiving, v \in Byte, p \in 0..2 : InByte(at, v, p)
  <1>1. /\ Reading <=> ~Writing
        /\ TheReg \in Reg /\ (Writing => TheValue \in Byte)
    BY TheOperation
  <1>2. pc.op \in 1..LastOp BY DEF WireInv
  <1>3. TheReg \in Byte BY <1>1 DEF Reg, Byte
  <1>4. 2 \in Byte /\ 3 \in Byte BY DEF Byte
  <1>5. CASE pc.op \in 2..4
    <2>1. pc.op - 2 \in 0..2 /\ InByte("address", 2, pc.op - 2) BY <1>5 DEF InByte
    <2>2. QED BY <1>4, <2>1 DEF Receiving
  <1>6. CASE pc.op \in 5..7
    <2>1. pc.op - 5 \in 0..2 /\ InByte("register", TheReg, pc.op - 5) BY <1>6 DEF InByte
    <2>2. QED BY <1>3, <2>1 DEF Receiving
  <1>7. CASE Writing /\ pc.op \in 8..10
    <2>1. pc.op - 8 \in 0..2 /\ InByte("value", TheValue, pc.op - 8) BY <1>7 DEF InByte
    <2>2. QED BY <1>1, <1>7, <2>1 DEF Receiving
  <1>8. CASE Reading /\ pc.op \in 9..11
    <2>1. pc.op - 9 \in 0..2 /\ InByte("address", 3, pc.op - 9) BY <1>8 DEF InByte
    <2>2. QED BY <1>4, <2>1 DEF Receiving
  <1>9. CASE pc.op = 1 \/ (Reading /\ pc.op = 8) BY <1>9 DEF IsStart
  <1>10. QED BY <1>1, <1>2, <1>5, <1>6, <1>7, <1>8, <1>9 DEF LastOp

-----------------------------------------------------------------------------
(* A call ends, and the next one or the way out begins.                    *)

LEMMA MeantStays ==
  ASSUME OnlyMeantWrites, TypeOK, regs' = regs, before' = before, call' \in 1..Last + 1,
         regs = before \/ (got' = got /\ call' >= call)
  PROVE  OnlyMeantWrites'
  <1>1. CASE regs = before BY <1>1 DEF OnlyMeantWrites
  <1>2. CASE got' = got /\ call' >= call
    <2> SUFFICES ASSUME NEW r \in Reg, regs[r] # before[r]
                 PROVE  \E k \in 5..7 : call' >= k /\ Call(k)'.reg = r /\ regs[r] = Call(k)'.value
      BY DEF OnlyMeantWrites
    <2>1. PICK k \in 5..7 : call >= k /\ Call(k).reg = r /\ regs[r] = Call(k).value
      BY DEF OnlyMeantWrites
    <2>2. Call(k)' = Call(k) BY <1>2, Zenon DEF Call
    <2>3. call' >= k BY <1>2, <2>1 DEF TypeOK, Last
    <2>4. QED BY <2>1, <2>2, <2>3
  <1>3. QED BY <1>1, <1>2

LEMMA NewCall ==
  ASSUME pc' = [op |-> 1, step |-> "begin"],
         started' \/ (master'.scl /\ slave'.scl /\ master'.sda)
  PROVE  pc' \in Places /\ WireInv' /\ FrameInv' /\ DataInv'
  <1>1. pc'.op = 1 /\ pc'.step = "begin" OBVIOUS
  <1>2. pc' \in Places BY DEF Places
  <1>3. WireInv' BY <1>1 DEF WireInv, LastOp
  <1>4. ASSUME NEW at, NEW v, NEW p \in 0..2 PROVE ~InByte(at, v, p)'
    BY <1>1, <1>4 DEF InByte
  <1>5. FrameInv' BY <1>1, <1>4 DEF FrameInv
  <1>6. DataInv' BY <1>1 DEF DataInv
  <1>7. QED BY <1>2, <1>3, <1>5, <1>6

LEMMA TypesKept ==
  ASSUME BusTypes', started' \in BOOLEAN, call' \in 1..Last + 1, pc' \in Places,
         data' \in Byte, got' \in [Reg -> Byte]
  PROVE  TypeOK'
  BY DEF TypeOK, BusTypes, Wires, Places

LEMMA ReturnFails ==
  ASSUME Inv, call <= Last, Returns(FALSE), BusTypes', started' \in BOOLEAN,
         data' \in Byte, regs' = regs,
         started' \/ (master'.scl /\ slave'.scl /\ master'.sda)
  PROVE  Inv'
  <1>1. /\ pc' = [op |-> 1, step |-> "begin"] /\ got' = got /\ before' = before
        /\ call' = IF call \in 5..7 THEN call + 1 ELSE Last + 1
    BY DEF Returns, NextCall
  <1>2. call \in 1..Last BY DEF Inv, TypeOK, Last
  <1>3. call' \in 1..Last + 1 /\ call' >= call /\ call' >= 5 BY <1>1, <1>2 DEF Last
  <1>4. pc' \in Places /\ WireInv' /\ FrameInv' /\ DataInv' BY <1>1, NewCall
  <1>5. TypeOK' BY <1>1, <1>3, <1>4, TypesKept DEF Inv, TypeOK
  <1>6. OnlyMeantWrites' BY <1>1, <1>3, MeantStays DEF Inv, RegsInv
  <1>7. ASSUME NEW r \in Reg, call' <= Last PROVE got[r] = before[r]
    <2>1. call \in 5..7 BY <1>1, <1>7 DEF Last
    <2>2. call > r + 1 /\ call <= Last BY <2>1 DEF Reg, Last
    <2>3. QED BY <2>2 DEF Inv, RegsInv
  <1>8. RegsInv' BY <1>1, <1>3, <1>6, <1>7 DEF Inv, RegsInv
  <1>9. QED BY <1>4, <1>5, <1>8 DEF Inv

LEMMA ReturnSucceeds ==
  ASSUME Inv, call <= Last, Returns(TRUE), BusTypes', started' \in BOOLEAN,
         data' \in Byte, regs' = regs, Reading => data = regs[TheReg],
         started' \/ (master'.scl /\ slave'.scl /\ master'.sda)
  PROVE  Inv'
  <1>1. /\ pc' = [op |-> 1, step |-> "begin"] /\ before' = before /\ call' = call + 1
        /\ got' = IF Call(call).op = "read" /\ call <= 4
                  THEN [got EXCEPT ![TheReg] = data] ELSE got
    BY DEF Returns, NextCall, TheReg
  <1>2. call \in 1..Last BY DEF Inv, TypeOK, Last
  <1>3. call' \in 1..Last + 1 /\ call' >= call BY <1>1, <1>2 DEF Last
  <1>4. pc' \in Places /\ WireInv' /\ FrameInv' /\ DataInv' BY <1>1, NewCall
  <1>5. /\ Reading => Call(call).op = "read"
        /\ TheReg \in Reg
        /\ call <= 4 => TheReg = call - 1
    BY <1>2, TheCall DEF Inv, TypeOK
  <1>6. data \in Byte /\ got \in [Reg -> Byte] BY DEF Inv, TypeOK
  <1>7. TypeOK'
    <2>1. got' \in [Reg -> Byte] BY <1>1, <1>5, <1>6
    <2>2. QED BY <1>1, <1>3, <1>4, <2>1, TypesKept
  <1>8. regs = before \/ got' = got BY <1>1, <1>2 DEF Inv, RegsInv
  <1>9. OnlyMeantWrites' BY <1>1, <1>3, <1>8, MeantStays DEF Inv, RegsInv
  <1>10. ASSUME NEW r \in Reg, call' <= Last, call' > r + 1 PROVE got'[r] = before[r]
    <2>1. r \in 0..3 BY DEF Reg
    <2>2. CASE call <= 4 /\ r = call - 1
      <3>1. Reading BY <1>2, <2>2 DEF Reading
      <3>2. regs = before BY <1>2, <2>2 DEF Inv, RegsInv
      <3>3. data = before[r] BY <1>5, <2>2, <3>1, <3>2
      <3>4. QED BY <1>1, <1>5, <1>6, <2>2, <3>1, <3>3
    <2>3. CASE ~(call <= 4 /\ r = call - 1)
      <3>1. call > r + 1 BY <1>1, <1>2, <1>10, <2>1, <2>3
      <3>2. got[r] = before[r] BY <3>1 DEF Inv, RegsInv
      <3>3. got'[r] = got[r] BY <1>1, <1>5, <1>6, <2>3
      <3>4. QED BY <3>2, <3>3
    <2>4. QED BY <2>2, <2>3
  <1>11. call' < 5 => call < 5 BY <1>1, <1>2
  <1>12. RegsInv' BY <1>1, <1>9, <1>10, <1>11 DEF Inv, RegsInv
  <1>13. QED BY <1>4, <1>7, <1>12 DEF Inv

-----------------------------------------------------------------------------
(* The steps of one operation.                                             *)

Level == CASE Operation.op = "bit" -> Operation.one
           [] Operation.op = "stop" -> FALSE
           [] OTHER -> TRUE

LEMMA TheLevel ==
  ASSUME TypeOK, WireInv, call <= Last
  PROVE  /\ Level \in BOOLEAN
         /\ \A at, v : \A p \in 0..2 : InByte(at, v, p) => (Level <=> (p < 2 => BitOf(v, p + 1)))
         /\ Reading /\ pc.op \in 12..14 => Level = TRUE
  <1>1. /\ Operation.op \in {"start", "bit", "ack", "get", "stop"}
        /\ Operation.op = "start" <=> IsStart
        /\ Operation.op = "stop" <=> pc.op = LastOp
        /\ Operation.op = "get" <=> Reading /\ pc.op \in {12, 13}
        /\ Operation.op = "ack" <=> pc.op \in {4, 7} \/ (Reading /\ pc.op = 11)
                                                     \/ (Writing /\ pc.op = 10)
        /\ Reading /\ pc.op = 14 => Operation.one = TRUE
        /\ \A at, v : /\ InByte(at, v, 0) => Operation.one = BitOf(v, 1)
                      /\ InByte(at, v, 1) => Operation.one = BitOf(v, 2)
        /\ Reading <=> ~Writing
    BY TheOperation
  <1>2. ASSUME NEW at, NEW v, NEW p \in {0, 1}, InByte(at, v, p)
        PROVE  Operation.op = "bit" /\ Level = BitOf(v, p + 1)
    <2>1. Operation.op = "bit" BY <1>1, <1>2 DEF InByte, IsStart, LastOp
    <2>2. Operation.one = BitOf(v, p + 1) BY <1>1, <1>2
    <2>3. QED BY <2>1, <2>2 DEF Level
  <1>3. ASSUME NEW at, NEW v, InByte(at, v, 2) PROVE Level = TRUE
    <2>1. Operation.op = "ack" BY <1>1, <1>3 DEF InByte
    <2>2. QED BY <2>1 DEF Level
  <1>4. ASSUME Reading, pc.op \in 12..14 PROVE Level = TRUE
    <2>1. CASE pc.op = 14
      <3>1. Operation.op = "bit" BY <1>1, <1>4, <2>1 DEF IsStart, LastOp
      <3>2. QED BY <1>1, <1>4, <2>1, <3>1 DEF Level
    <2>2. CASE pc.op # 14
      <3>1. Operation.op = "get" BY <1>1, <1>4, <2>2
      <3>2. QED BY <3>1 DEF Level
    <2>3. QED BY <2>1, <2>2
  <1>5. Level \in BOOLEAN
    <2>1. CASE Operation.op # "bit" BY <2>1 DEF Level
    <2>2. CASE Operation.op = "bit"
      <3>1. PICK at \in Receiving, v \in Byte, p \in 0..2 :
                InByte(at, v, p) \/ (Reading /\ pc.op \in 12..14)
        BY <1>1, <2>2, WhereItIs DEF Receiving, Byte
      <3>2. CASE Reading /\ pc.op \in 12..14 BY <1>4, <3>2
      <3>3. CASE InByte(at, v, 2) BY <1>3, <3>3
      <3>4. CASE InByte(at, v, p) /\ p \in {0, 1}
        <4>1. BitOf(v, p + 1) \in BOOLEAN BY DEF BitOf
        <4>2. QED BY <1>2, <3>4, <4>1
      <3>5. QED BY <3>1, <3>2, <3>3, <3>4
    <2>3. QED BY <2>1, <2>2
  <1>6. ASSUME NEW at, NEW v, NEW p \in 0..2, InByte(at, v, p)
        PROVE  Level <=> (p < 2 => BitOf(v, p + 1))
    <2>1. CASE p < 2
      <3>1. Level = BitOf(v, p + 1) BY <1>2, <1>6, <2>1
      <3>2. QED BY <2>1, <3>1
    <2>2. CASE p = 2
      <3>1. Level = TRUE BY <1>3, <1>6, <2>2
      <3>2. ~(p < 2) BY <2>2
      <3>3. QED BY <3>1, <3>2
    <2>3. QED BY <2>1, <2>2
  <1>7. QED BY <1>4, <1>5, <1>6

LEMMA Within ==
  ASSUME Inv, call <= Last, NEW s \in {"begin", "clock", "wait", "sample", "fall"}, Step(s),
         BusTypes', regs' = regs, data' \in Byte, started' \in BOOLEAN
  PROVE  /\ TypeOK' /\ RegsInv'
         /\ pc'.op = pc.op /\ pc'.step = s /\ call' = call
         /\ Reading' <=> Reading
         /\ TheReg' = TheReg /\ LastOp' = LastOp
         /\ IsStart' <=> IsStart
         /\ \A at, v, p : InByte(at, v, p)' <=> InByte(at, v, p)
  <1>1. /\ pc' \in Places /\ pc'.op = pc.op /\ pc'.step = s
        /\ call' = call /\ got' = got /\ before' = before
    BY StepWithin DEF Inv
  <1>2. TypeOK' BY <1>1, TypesKept DEF Inv, TypeOK
  <1>3. OnlyMeantWrites'
    <2>1. call \in 1..Last + 1 /\ call >= call BY DEF Inv, TypeOK
    <2>2. QED BY <1>1, <2>1, MeantStays DEF Inv, RegsInv
  <1>4. RegsInv' BY <1>1, <1>3 DEF Inv, RegsInv
  <1>5. QED BY <1>1, <1>2, <1>4, SameCall, SameOperation

\* What a step within an operation has to show of the byte on the wires.
LEMMA FrameStays ==
  ASSUME Inv, call <= Last, call' = call, pc'.op = pc.op, Reading' <=> Reading,
         TheReg' = TheReg, slave'.ptr = slave.ptr,
         \A at, v, p : InByte(at, v, p)' <=> InByte(at, v, p),
         \A at \in Receiving, v \in Byte, p \in 0..2 :
           InByte(at, v, p) /\ Received(at, v, p) => Received(at, v, p)',
         \A p \in 0..2 :
           /\ Reading /\ pc.op = 12 + p
           /\ Gives(slave, regs[TheReg], p, High) /\ (pc.step # "begin" => master.sda)
           => Gives(slave', regs'[TheReg], p, High') /\ (pc'.step # "begin" => master'.sda)
  PROVE  FrameInv'
  <1>1. ASSUME NEW at \in Receiving, NEW v \in Byte, NEW p \in 0..2, InByte(at, v, p)'
        PROVE  Received(at, v, p)'
    <2>1. InByte(at, v, p) /\ Received(at, v, p) BY <1>1 DEF Inv, FrameInv
    <2>2. QED BY <2>1
  <1>2. ASSUME NEW p \in 0..2, Reading', pc'.op = 12 + p
        PROVE  /\ Gives(slave', regs'[TheReg'], p, High')
               /\ pc'.step # "begin" => master'.sda
    <2>1. /\ Reading /\ pc.op = 12 + p
          /\ Gives(slave, regs[TheReg], p, High) /\ (pc.step # "begin" => master.sda)
      BY <1>2 DEF Inv, FrameInv
    <2>2. QED BY <2>1
  <1>3. pc'.op >= 8 => slave'.ptr = TheReg' BY DEF Inv, FrameInv
  <1>4. QED BY <1>1, <1>2, <1>3 DEF FrameInv, Gives

LEMMA NoByteAtStart ==
  ASSUME IsStart
  PROVE  /\ \A at, v : \A p \in 0..2 : ~InByte(at, v, p)
         /\ pc.op < 12
  <1>1. Reading => ~Writing BY DEF Reading, Writing
  <1>2. QED BY <1>1 DEF IsStart, InByte

LEMMA DataStays ==
  ASSUME Inv, call <= Last, call' = call, pc'.op = pc.op, Reading' <=> Reading,
         TheReg' = TheReg, regs' = regs, data' = data,
         pc.step # "fall", pc'.step # "fall"
  PROVE  DataInv'
  BY DEF Inv, DataInv

LEMMA FrameRises ==
  ASSUME Inv, call <= Last, NEW u \in Slaves, NEW b \in BOOLEAN,
         u.at = slave.at, u.n = slave.n, u.byte = slave.byte, u.sda = slave.sda,
         b <=> master.sda /\ slave.sda, slave' = OnRise(u, b),
         pc.step # "begin", High = 0, High' = 1, pc'.step # "fall",
         regs' = regs, TheReg' = TheReg, master'.sda = master.sda
  PROVE  /\ \A at \in Receiving, v \in Byte, p \in 0..2 :
              InByte(at, v, p) /\ Received(at, v, p) => Received(at, v, p)'
         /\ \A p \in 0..2 :
              /\ Reading /\ pc.op = 12 + p
              /\ Gives(slave, regs[TheReg], p, High) /\ (pc.step # "begin" => master.sda)
              => Gives(slave', regs'[TheReg], p, High') /\ (pc'.step # "begin" => master'.sda)
  <1>1. ASSUME NEW at \in Receiving, NEW v \in Byte, NEW p \in 0..2, Received(at, v, p)
        PROVE  Received(at, v, p)'
    <2>1. Took(slave, at, v, p, 0) /\ (master.sda <=> (p < 2 => BitOf(v, p + 1)))
      BY <1>1 DEF Received
    <2>2. Took(u, at, v, p, 0) BY <2>1 DEF Took
    <2>3. b <=> u.sda /\ (p < 2 => BitOf(v, p + 1)) BY <2>1
    <2>4. Took(slave', at, v, p, 1) BY <2>2, <2>3, RiseTakes
    <2>5. QED BY <2>1, <2>4 DEF Received
  <1>2. ASSUME NEW p \in 0..2, Gives(slave, regs[TheReg], p, High), master.sda
        PROVE  Gives(slave', regs'[TheReg], p, High') /\ master'.sda
    <2>1. Gives(u, regs[TheReg], p, 0) BY <1>2 DEF Gives
    <2>2. b <=> u.sda BY <1>2
    <2>3. TheReg \in Reg BY TheOperation DEF Inv
    <2>4. regs[TheReg] \in Byte BY <2>3 DEF Inv, TypeOK
    <2>5. Gives(slave', regs[TheReg], p, 1) BY <2>1, <2>2, <2>4, RiseGives
    <2>6. QED BY <1>2, <2>5
  <1>3. QED BY <1>1, <1>2

LEMMA OpOfDoing ==
  ASSUME Inv, NEW ops, NEW step, Doing(ops, step)
  PROVE  /\ call <= Last /\ pc.step = step /\ Operation.op \in ops
         /\ Operation.op = "start" <=> IsStart
         /\ ~IsStart => pc.op > 1
         /\ BusTypes /\ started \in BOOLEAN /\ data \in Byte /\ pc.op \in 1..16
  <1>1. call <= Last /\ pc.step = step /\ Operation.op \in ops BY DEF Doing
  <1>2. Operation.op = "start" <=> IsStart BY <1>1, TheOperation DEF Inv
  <1>3. ~IsStart => pc.op > 1 BY <1>1 DEF Inv, WireInv, IsStart, LastOp
  <1>4. QED BY <1>1, <1>2, <1>3 DEF Inv, TypeOK, BusTypes, Wires

LEMMA StartBeginInv ==
  ASSUME Inv, StartBegin
  PROVE  Inv'
  <1>1. /\ call <= Last /\ pc.step = "begin" /\ IsStart
        /\ BusTypes /\ started \in BOOLEAN /\ data \in Byte /\ pc.op \in 1..16
    BY OpOfDoing DEF StartBegin
  <1>2. /\ \A at, v : \A p \in 0..2 : ~InByte(at, v, p)
        /\ pc.op < 12
    BY <1>1, NoByteAtStart
  <1>3. started' = started /\ data' = data BY DEF StartBegin
  <1>4. CASE started
    <2> DEFINE m == [master EXCEPT !.sda = TRUE]
    <2>1. Step("clock") /\ Drive(m) BY <1>4 DEF StartBegin
    <2>2. m \in Wires /\ m.scl = master.scl /\ m.sda = TRUE BY <1>1 DEF BusTypes, Wires
    <2> HIDE DEF m
    <2>3. /\ BusTypes' /\ regs' = regs /\ master' = m
          /\ slave'.ptr = slave.ptr /\ slave'.scl = slave.scl
      BY <1>1, <2>1, <2>2, DriveTypes
    <2>4. /\ TypeOK' /\ RegsInv'
          /\ pc'.op = pc.op /\ pc'.step = "clock" /\ call' = call
          /\ Reading' <=> Reading
          /\ TheReg' = TheReg /\ LastOp' = LastOp
          /\ IsStart' <=> IsStart
          /\ \A at, v, p : InByte(at, v, p)' <=> InByte(at, v, p)
      BY <1>1, <1>3, <2>1, <2>3, Within
    <2>5. WireInv' BY <1>1, <1>3, <1>4, <2>2, <2>3, <2>4 DEF Inv, WireInv
    <2>6. FrameInv' BY <1>1, <1>2, <2>3, <2>4, FrameStays
    <2>7. DataInv' BY <1>1, <1>2, <2>4 DEF DataInv
    <2>8. QED BY <2>4, <2>5, <2>6, <2>7 DEF Inv
  <1>5. CASE ~started
    <2>1. Step("sample") /\ UNCHANGED <<master, slave, regs, faults>>
      BY <1>5 DEF StartBegin
    <2>2. BusTypes' BY <1>1, <2>1 DEF BusTypes
    <2>3. /\ TypeOK' /\ RegsInv'
          /\ pc'.op = pc.op /\ pc'.step = "sample" /\ call' = call
          /\ Reading' <=> Reading
          /\ TheReg' = TheReg /\ LastOp' = LastOp
          /\ IsStart' <=> IsStart
          /\ \A at, v, p : InByte(at, v, p)' <=> InByte(at, v, p)
      BY <1>1, <1>3, <2>1, <2>2, Within
    <2>4. WireInv' BY <1>1, <1>3, <1>5, <2>1, <2>3 DEF Inv, WireInv
    <2>5. FrameInv' BY <1>1, <1>2, <2>1, <2>3, FrameStays
    <2>6. DataInv' BY <1>1, <1>2, <2>3 DEF DataInv
    <2>7. QED BY <2>3, <2>4, <2>5, <2>6 DEF Inv
  <1>6. QED BY <1>1, <1>4, <1>5

LEMMA BitBeginInv ==
  ASSUME Inv, BitBegin
  PROVE  Inv'
  <1>1. /\ call <= Last /\ pc.step = "begin" /\ ~IsStart /\ pc.op > 1
        /\ BusTypes /\ started \in BOOLEAN /\ data \in Byte /\ pc.op \in 1..16
    BY OpOfDoing DEF BitBegin
  <1>2. started' = started /\ data' = data BY DEF BitBegin
  <1> DEFINE m == [master EXCEPT !.sda = Level]
  <1>3. Step("clock") /\ Drive(m) BY DEF BitBegin, Level
  <1>4. /\ Level \in BOOLEAN
        /\ \A at, v : \A p \in 0..2 : InByte(at, v, p) => (Level <=> (p < 2 => BitOf(v, p + 1)))
        /\ Reading /\ pc.op \in 12..14 => Level = TRUE
    BY <1>1, TheLevel DEF Inv
  <1>5. m \in Wires /\ m.scl = master.scl /\ m.sda = Level BY <1>1, <1>4 DEF BusTypes, Wires
  <1> HIDE DEF m
  <1>6. ~master.scl /\ started BY <1>1 DEF Inv, WireInv
  <1>7. master' = m BY <1>3 DEF Drive
  <1>8. slave' = slave /\ regs' = regs /\ faults' = faults
    BY <1>3, <1>5, <1>6, DriveLow DEF Unmoved
  <1>9. BusTypes' BY <1>1, <1>5, <1>7, <1>8 DEF BusTypes
  <1>10. /\ TypeOK' /\ RegsInv'
         /\ pc'.op = pc.op /\ pc'.step = "clock" /\ call' = call
         /\ Reading' <=> Reading
         /\ TheReg' = TheReg /\ LastOp' = LastOp
         /\ IsStart' <=> IsStart
         /\ \A at, v, p : InByte(at, v, p)' <=> InByte(at, v, p)
    BY <1>1, <1>2, <1>3, <1>8, <1>9, Within
  <1>11. WireInv' BY <1>1, <1>2, <1>5, <1>6, <1>7, <1>8, <1>10 DEF Inv, WireInv
  <1>12. High = 0 /\ High' = 0 BY <1>1, <1>10 DEF High
  <1>13. ASSUME NEW at \in Receiving, NEW v \in Byte, NEW p \in 0..2,
                InByte(at, v, p), Received(at, v, p)
         PROVE  Received(at, v, p)'
    <2>1. master'.sda <=> (p < 2 => BitOf(v, p + 1)) BY <1>4, <1>5, <1>7, <1>13
    <2>2. Took(slave', at, v, p, High') BY <1>8, <1>12, <1>13 DEF Received
    <2>3. QED BY <1>10, <2>1, <2>2 DEF Received
  <1>14. ASSUME NEW p \in 0..2, Reading, pc.op = 12 + p,
                Gives(slave, regs[TheReg], p, High)
         PROVE  Gives(slave', regs'[TheReg], p, High') /\ master'.sda
    <2>1. pc.op \in 12..14 BY <1>14
    <2>2. QED BY <1>4, <1>5, <1>7, <1>8, <1>12, <1>14, <2>1
  <1>15. FrameInv' BY <1>1, <1>8, <1>10, <1>13, <1>14, FrameStays
  <1>16. DataInv' BY <1>1, <1>2, <1>8, <1>10, DataStays
  <1>17. QED BY <1>10, <1>11, <1>15, <1>16 DEF Inv

LEMMA RaiseClockInv ==
  ASSUME Inv, RaiseClock
  PROVE  Inv'
  <1>1. /\ call <= Last /\ pc.step = "clock" /\ (~IsStart => pc.op > 1)
        /\ BusTypes /\ started \in BOOLEAN /\ data \in Byte /\ pc.op \in 1..16
    BY OpOfDoing DEF RaiseClock
  <1>2. started' = started /\ data' = data BY DEF RaiseClock
  <1> DEFINE m == [master EXCEPT !.scl = TRUE]
  <1>3. Step("wait") /\ Drive(m) BY DEF RaiseClock
  <1>4. m \in Wires /\ m.scl = TRUE /\ m.sda = master.sda BY <1>1 DEF BusTypes, Wires
  <1> HIDE DEF m
  <1>5. /\ BusTypes' /\ regs' = regs /\ master' = m
        /\ slave'.ptr = slave.ptr /\ slave'.scl = slave.scl
    BY <1>1, <1>3, <1>4, DriveTypes
  <1>6. /\ TypeOK' /\ RegsInv'
        /\ pc'.op = pc.op /\ pc'.step = "wait" /\ call' = call
        /\ Reading' <=> Reading
        /\ TheReg' = TheReg /\ LastOp' = LastOp
        /\ IsStart' <=> IsStart
        /\ \A at, v, p : InByte(at, v, p)' <=> InByte(at, v, p)
    BY <1>1, <1>2, <1>3, <1>5, Within
  <1>7. WireInv' BY <1>1, <1>2, <1>4, <1>5, <1>6 DEF Inv, WireInv
  <1>8. DataInv' BY <1>1, <1>2, <1>5, <1>6, DataStays
  <1>9. FrameInv'
    <2>1. CASE IsStart BY <1>1, <1>5, <1>6, <2>1, NoByteAtStart, FrameStays
    <2>2. CASE ~IsStart
      <3>1. ~master.scl BY <1>1, <2>2 DEF Inv, WireInv
      <3>2. /\ slave.scl => slave' = OnRise(slave, Sda(m, slave))
            /\ ~slave.scl => slave' = slave
        BY <1>1, <1>3, <1>4, <3>1, DriveRise
      <3>3. High = 0 BY <1>1 DEF High
      <3>4. /\ \A at \in Receiving, v \in Byte, p \in 0..2 :
                 InByte(at, v, p) /\ Received(at, v, p) => Received(at, v, p)'
            /\ \A p \in 0..2 :
                 /\ Reading /\ pc.op = 12 + p
                 /\ Gives(slave, regs[TheReg], p, High) /\ (pc.step # "begin" => master.sda)
                 => Gives(slave', regs'[TheReg], p, High') /\ (pc'.step # "begin" => master'.sda)
        <4>1. CASE slave.scl
          <5>1. High' = 1 BY <1>5, <1>6, <4>1 DEF High
          <5>2. slave \in Slaves /\ Sda(m, slave) \in BOOLEAN BY <1>1 DEF BusTypes, Sda
          <5>3. Sda(m, slave) <=> master.sda /\ slave.sda BY <1>4 DEF Sda
          <5>4. pc.step # "begin" /\ pc'.step # "fall" BY <1>1, <1>6
          <5>5. regs' = regs /\ TheReg' = TheReg /\ master'.sda = master.sda
            BY <1>4, <1>5, <1>6
          <5>6. slave' = OnRise(slave, Sda(m, slave)) BY <3>2, <4>1
          <5>7. QED BY <1>1, <3>3, <5>1, <5>2, <5>3, <5>4, <5>5, <5>6, FrameRises
        <4>2. CASE ~slave.scl
          <5>1. High' = 0 BY <1>5, <1>6, <4>2 DEF High
          <5>2. slave' = slave BY <3>2, <4>2
          <5>3. pc.step # "fall" /\ pc'.step # "fall" /\ pc.step # "begin" BY <1>1, <1>6
          <5>4. master'.sda = master.sda BY <1>4, <1>5
          <5>5. ASSUME NEW at \in Receiving, NEW v \in Byte, NEW p \in 0..2, Received(at, v, p)
                PROVE  Received(at, v, p)'
            BY <3>3, <5>1, <5>2, <5>3, <5>4, <5>5 DEF Received
          <5>6. QED BY <1>5, <3>3, <5>1, <5>2, <5>3, <5>4, <5>5
        <4>3. QED BY <4>1, <4>2
      <3>5. QED BY <1>1, <1>5, <1>6, <3>4, FrameStays
    <2>3. QED BY <2>1, <2>2
  <1>10. QED BY <1>6, <1>7, <1>8, <1>9 DEF Inv

LEMMA ClockIsHighInv ==
  ASSUME Inv, ClockIsHigh
  PROVE  Inv'
  <1>1. /\ call <= Last /\ pc.step = "wait"
        /\ BusTypes /\ started \in BOOLEAN /\ data \in Byte /\ pc.op \in 1..16
    BY OpOfDoing DEF ClockIsHigh
  <1>2. /\ started' = started /\ data' = data /\ Step("sample") /\ slave.scl
        /\ UNCHANGED <<master, slave, regs, faults>>
    BY DEF ClockIsHigh, Scl
  <1>3. BusTypes' BY <1>1, <1>2 DEF BusTypes
  <1>4. /\ TypeOK' /\ RegsInv'
        /\ pc'.op = pc.op /\ pc'.step = "sample" /\ call' = call
        /\ Reading' <=> Reading
        /\ TheReg' = TheReg /\ LastOp' = LastOp
        /\ IsStart' <=> IsStart
        /\ \A at, v, p : InByte(at, v, p)' <=> InByte(at, v, p)
    BY <1>1, <1>2, <1>3, Within
  <1>5. WireInv' BY <1>1, <1>2, <1>4 DEF Inv, WireInv
  <1>6. DataInv' BY <1>1, <1>2, <1>4, DataStays
  <1>7. High = 1 /\ High' = 1 BY <1>1, <1>2, <1>4 DEF High
  <1>8. ASSUME NEW at \in Receiving, NEW v \in Byte, NEW p \in 0..2, Received(at, v, p)
        PROVE  Received(at, v, p)'
    BY <1>1, <1>2, <1>4, <1>7, <1>8 DEF Received
  <1>9. FrameInv' BY <1>1, <1>2, <1>4, <1>7, <1>8, FrameStays
  <1>10. QED BY <1>4, <1>5, <1>6, <1>9 DEF Inv

\* The bus cannot be the slave's while it is not under way.
LEMMA TimeoutInv ==
  ASSUME Inv, Timeout
  PROVE  Inv'
  <1>1. /\ call <= Last /\ pc.step = "wait"
        /\ BusTypes /\ started \in BOOLEAN /\ data \in Byte /\ pc.op \in 1..16
    BY OpOfDoing DEF Timeout
  <1>2. /\ started' = started /\ data' = data /\ Returns(FALSE) /\ ~Scl(master, slave)
        /\ UNCHANGED <<master, slave, regs, faults>>
    BY DEF Timeout
  <1>3. BusTypes' BY <1>1, <1>2 DEF BusTypes
  <1>4. started' \/ (master'.scl /\ slave'.scl /\ master'.sda)
    BY <1>1, <1>2 DEF Inv, WireInv, Scl
  <1>5. QED BY <1>1, <1>2, <1>3, <1>4, ReturnFails

LEMMA StartSampleInv ==
  ASSUME Inv, StartSample
  PROVE  Inv'
  <1>1. /\ call <= Last /\ pc.step = "sample" /\ IsStart
        /\ BusTypes /\ started \in BOOLEAN /\ data \in Byte /\ pc.op \in 1..16
    BY OpOfDoing DEF StartSample
  <1>2. data' = data /\ started' = started BY Zenon DEF StartSample
  <1>3. /\ master.scl /\ slave.scl /\ master.sda
        /\ pc.op > 1 => started
    BY <1>1 DEF Inv, WireInv
  <1>4. master = [master EXCEPT !.sda = TRUE] BY <1>1, <1>3 DEF BusTypes, Wires
  <1>5. CASE Sda(master, slave)
    <2> DEFINE m == [master EXCEPT !.sda = FALSE]
    <2>1. Step("fall") /\ Drive(m) BY <1>4, <1>5 DEF StartSample
    <2>2. m \in Wires /\ m.scl = master.scl /\ m.sda = FALSE BY <1>1 DEF BusTypes, Wires
    <2> HIDE DEF m
    <2>3. /\ BusTypes' /\ regs' = regs /\ master' = m
          /\ slave'.ptr = slave.ptr /\ slave'.scl = slave.scl
      BY <1>1, <1>3, <2>1, <2>2, DriveTypes
    <2>4. ~Sda(m, slave) BY <2>2 DEF Sda
    <2>5. slave' = Summoned BY <1>1, <1>3, <1>5, <2>1, <2>2, <2>4, DriveHigh
    <2>6. /\ slave'.at = "address" /\ slave'.n = 0 /\ slave'.byte = 0 /\ slave'.sda
      BY <1>1, <1>5, <2>5, SummonedSlave DEF BusTypes, Sda
    <2>7. /\ TypeOK' /\ RegsInv'
          /\ pc'.op = pc.op /\ pc'.step = "fall" /\ call' = call
          /\ Reading' <=> Reading
          /\ TheReg' = TheReg /\ LastOp' = LastOp
          /\ IsStart' <=> IsStart
          /\ \A at, v, p : InByte(at, v, p)' <=> InByte(at, v, p)
      BY <1>1, <1>2, <2>1, <2>3, Within
    <2>8. WireInv' BY <1>1, <1>2, <1>3, <2>2, <2>3, <2>6, <2>7 DEF Inv, WireInv
    <2>9. /\ \A at, v : \A p \in 0..2 : ~InByte(at, v, p)
          /\ pc.op < 12
      BY <1>1, NoByteAtStart
    <2>10. FrameInv' BY <1>1, <2>3, <2>7, <2>9, FrameStays
    <2>11. DataInv' BY <1>1, <2>7, <2>9 DEF DataInv
    <2>12. QED BY <2>7, <2>8, <2>10, <2>11 DEF Inv
  <1>6. CASE ~Sda(master, slave)
    <2>1. Returns(FALSE) /\ UNCHANGED <<master, slave, regs, faults>>
      BY <1>4, <1>6 DEF StartSample
    <2>2. BusTypes' BY <1>1, <2>1 DEF BusTypes
    <2>3. QED BY <1>1, <1>2, <1>3, <2>1, <2>2, ReturnFails
  <1>7. QED BY <1>5, <1>6

LEMMA WriteBitSampleInv ==
  ASSUME Inv, WriteBitSample
  PROVE  Inv'
  <1>1. /\ call <= Last /\ pc.step = "sample" /\ ~IsStart /\ pc.op > 1
        /\ BusTypes /\ started \in BOOLEAN /\ data \in Byte /\ pc.op \in 1..16
    BY OpOfDoing DEF WriteBitSample
  <1>2. /\ started' = started /\ data' = data
        /\ UNCHANGED <<master, slave, regs, faults>>
        /\ Returns(FALSE) \/ Step("fall")
    BY DEF WriteBitSample
  <1>3. BusTypes' BY <1>1, <1>2 DEF BusTypes
  <1>4. master.scl /\ slave.scl /\ started BY <1>1 DEF Inv, WireInv
  <1>5. CASE Returns(FALSE) BY <1>1, <1>2, <1>3, <1>4, <1>5, ReturnFails
  <1>6. CASE Step("fall")
    <2>1. /\ TypeOK' /\ RegsInv'
          /\ pc'.op = pc.op /\ pc'.step = "fall" /\ call' = call
          /\ Reading' <=> Reading
          /\ TheReg' = TheReg /\ LastOp' = LastOp
          /\ IsStart' <=> IsStart
          /\ \A at, v, p : InByte(at, v, p)' <=> InByte(at, v, p)
      BY <1>1, <1>2, <1>3, <1>6, Within
    <2>2. WireInv' BY <1>1, <1>2, <1>4, <2>1 DEF Inv, WireInv
    <2>3. Operation.op = "bit" BY OpOfDoing DEF WriteBitSample
    <2>4. /\ pc.op # 4 /\ pc.op # 7 /\ ~(Reading /\ pc.op \in 11..13)
          /\ ~(Writing /\ pc.op = 10)
      BY <1>1, <2>3, TheOperation DEF Inv
    <2>5. High = 1 /\ High' = 1 BY <1>1, <2>1 DEF High
    <2>6. ASSUME NEW at \in Receiving, NEW v \in Byte, NEW p \in 0..2,
                 InByte(at, v, p), Received(at, v, p)
          PROVE  Received(at, v, p)'
      <3>1. p # 2 BY <2>4, <2>6 DEF InByte
      <3>2. QED BY <1>1, <1>2, <2>5, <2>6, <3>1 DEF Received
    <2>7. FrameInv' BY <1>1, <1>2, <2>1, <2>5, <2>6, FrameStays
    <2>8. DataInv' BY <1>1, <1>2, <2>1, <2>4 DEF Inv, DataInv
    <2>9. QED BY <2>1, <2>2, <2>7, <2>8 DEF Inv
  <1>7. QED BY <1>2, <1>5, <1>6

LEMMA BitTaken ==
  ASSUME NEW v \in Byte, NEW d \in Byte, NEW b \in BOOLEAN
  PROVE  LET e == (2 * d + (IF b THEN 1 ELSE 0)) % 4
         IN /\ e \in Byte
            /\ e % 2 = 0 <=> ~b
            /\ (b <=> BitOf(v, 1)) => e % 2 = v \div 2
            /\ d % 2 = v \div 2 /\ (b <=> BitOf(v, 2)) => e = v
  <1>1. v \in {0, 1, 2, 3} BY DEF Byte
  <1>2. d \in {0, 1, 2, 3} BY DEF Byte
  <1>3. BitOf(v, 1) <=> v \in {2, 3} BY <1>1 DEF BitOf, Bits
  <1>4. BitOf(v, 2) <=> v \in {1, 3} BY <1>1 DEF BitOf, Bits
  <1>5. v \div 2 = IF v \in {2, 3} THEN 1 ELSE 0 BY <1>1
  <1>6. d % 2 = IF d \in {1, 3} THEN 1 ELSE 0 BY <1>2
  <1>7. CASE b BY <1>1, <1>2, <1>3, <1>4, <1>5, <1>6, <1>7 DEF Byte
  <1>8. CASE ~b BY <1>1, <1>2, <1>3, <1>4, <1>5, <1>6, <1>8 DEF Byte
  <1>9. QED BY <1>7, <1>8

LEMMA ReadBitSampleInv ==
  ASSUME Inv, ReadBitSample
  PROVE  Inv'
  <1>1. /\ call <= Last /\ pc.step = "sample" /\ ~IsStart /\ pc.op > 1
        /\ BusTypes /\ started \in BOOLEAN /\ data \in Byte /\ pc.op \in 1..16
    BY OpOfDoing DEF ReadBitSample
  <1> DEFINE b == Sda(master, slave)
             e == (2 * data + (IF b THEN 1 ELSE 0)) % 4
             w == regs[TheReg]
  <1>2. /\ started' = started /\ data' = e /\ Step("fall")
        /\ UNCHANGED <<master, slave, regs, faults>>
    BY DEF ReadBitSample
  <1>3. BusTypes' BY <1>1, <1>2 DEF BusTypes
  <1>4. b \in BOOLEAN /\ (b <=> master.sda /\ slave.sda) BY <1>1 DEF Sda, BusTypes, Wires
  <1>5. TheReg \in Reg /\ (Reading <=> ~Writing) BY <1>1, TheOperation DEF Inv
  <1>6. w \in Byte BY <1>1, <1>5 DEF BusTypes
  <1> HIDE DEF b
  <1>7. /\ e \in Byte
        /\ e % 2 = 0 <=> ~b
        /\ (b <=> BitOf(w, 1)) => e % 2 = w \div 2
        /\ data % 2 = w \div 2 /\ (b <=> BitOf(w, 2)) => e = w
    BY <1>1, <1>4, <1>6, BitTaken
  <1> HIDE DEF e
  <1>8. /\ TypeOK' /\ RegsInv'
        /\ pc'.op = pc.op /\ pc'.step = "fall" /\ call' = call
        /\ Reading' <=> Reading
        /\ TheReg' = TheReg /\ LastOp' = LastOp
        /\ IsStart' <=> IsStart
        /\ \A at, v, p : InByte(at, v, p)' <=> InByte(at, v, p)
    BY <1>1, <1>2, <1>3, <1>7, Within
  <1>9. master.scl /\ slave.scl /\ started BY <1>1 DEF Inv, WireInv
  <1>10. WireInv' BY <1>1, <1>2, <1>8, <1>9 DEF Inv, WireInv
  <1>11. High = 1 /\ High' = 1 BY <1>1, <1>8 DEF High
  <1>12. ASSUME NEW at \in Receiving, NEW v \in Byte, NEW p \in 0..2, Received(at, v, p)
         PROVE  Received(at, v, p)'
    <2>1. Took(slave', at, v, p, High') BY <1>2, <1>11, <1>12 DEF Received
    <2>2. master'.sda <=> (p < 2 => BitOf(v, p + 1)) BY <1>1, <1>2, <1>12 DEF Received
    <2>3. ASSUME p = 2 PROVE data' % 2 = 0 <=> slave'.at = at
      <3>1. master.sda BY <1>2, <2>2, <2>3
      <3>2. slave.sda <=> slave.at # at BY <1>11, <1>12, <2>3 DEF Received, Took, Receiving
      <3>3. QED BY <1>2, <1>4, <1>7, <3>1, <3>2
    <2>4. QED BY <2>1, <2>2, <2>3 DEF Received
  <1>13. FrameInv' BY <1>1, <1>2, <1>8, <1>11, <1>12, FrameStays
  <1>14. ASSUME Reading, NEW p \in 0..1, pc.op = 12 + p
         PROVE  b <=> BitOf(w, p + 1)
    <2>1. Gives(slave, w, p, 1) /\ master.sda
      BY <1>1, <1>11, <1>14 DEF Inv, FrameInv
    <2>2. slave.sda <=> BitOf(w, p + 1) BY <1>14, <2>1 DEF Gives
    <2>3. QED BY <1>4, <2>1, <2>2
  <1>15. Reading => pc.op \in {4, 7, 11, 12, 13}
    <2>1. Operation.op \in {"ack", "get"} BY OpOfDoing DEF ReadBitSample
    <2>2. QED BY <1>1, <1>5, <2>1, TheOperation DEF Inv
  <1>16. DataInv'
    <2>1. CASE Reading /\ pc.op = 12
      <3>1. b <=> BitOf(w, 1) BY <1>14, <2>1
      <3>2. QED BY <1>2, <1>7, <1>8, <2>1, <3>1 DEF DataInv
    <2>2. CASE Reading /\ pc.op = 13
      <3>1. b <=> BitOf(w, 2) BY <1>14, <2>2
      <3>2. data % 2 = w \div 2 BY <1>1, <2>2 DEF Inv, DataInv
      <3>3. QED BY <1>2, <1>7, <1>8, <2>2, <3>1, <3>2 DEF DataInv
    <2>3. CASE ~(Reading /\ pc.op \in {12, 13})
      BY <1>8, <1>15, <2>3 DEF DataInv
    <2>4. QED BY <2>1, <2>2, <2>3
  <1>17. QED BY <1>8, <1>10, <1>13, <1>16 DEF Inv

LEMMA StopSampleInv ==
  ASSUME Inv, StopSample
  PROVE  Inv'
  <1>1. /\ call <= Last /\ pc.step = "sample" /\ ~IsStart /\ pc.op > 1
        /\ BusTypes /\ started \in BOOLEAN /\ data \in Byte /\ pc.op \in 1..16
    BY OpOfDoing DEF StopSample
  <1> DEFINE m == [master EXCEPT !.sda = TRUE]
  <1>2. /\ started' = FALSE /\ data' = data /\ Drive(m) /\ Returns(slave.sda)
    BY DEF StopSample
  <1>3. m \in Wires /\ m.scl = master.scl /\ m.sda = TRUE BY <1>1 DEF BusTypes, Wires
  <1> HIDE DEF m
  <1>4. master.scl /\ slave.scl BY <1>1 DEF Inv, WireInv
  <1>5. /\ BusTypes' /\ regs' = regs /\ master' = m
        /\ slave'.ptr = slave.ptr /\ slave'.scl = slave.scl
    BY <1>1, <1>2, <1>3, DriveTypes
  <1>6. slave.sda \in BOOLEAN BY <1>1 DEF BusTypes, Slaves
  <1>7. CASE slave.sda = TRUE
    <2>1. Returns(TRUE) BY <1>2, <1>7
    <2>2. Operation.op = "stop" BY OpOfDoing DEF StopSample
    <2>3. Reading => pc.op = 15 BY <1>1, <2>2, TheOperation DEF Inv, LastOp
    <2>4. Reading => data = regs[TheReg] BY <1>1, <2>3 DEF Inv, DataInv
    <2>5. QED BY <1>1, <1>2, <1>3, <1>4, <1>5, <2>1, <2>4, ReturnSucceeds
  <1>8. CASE slave.sda = FALSE
    <2>1. Returns(FALSE) BY <1>2, <1>8
    <2>2. QED BY <1>1, <1>2, <1>3, <1>4, <1>5, <2>1, ReturnFails
  <1>9. QED BY <1>6, <1>7, <1>8

\* The end of a stretch, whatever the master is doing by then.
LEMMA ReleaseInv ==
  ASSUME Inv, Release
  PROVE  Inv'
  <1> DEFINE up == [slave EXCEPT !.scl = TRUE]
             b == Sda(master, slave)
  <1>1. /\ ~slave.scl /\ slave' = (IF master.scl THEN OnRise(up, b) ELSE up)
        /\ UNCHANGED <<started, call, pc, data, got, before, master, regs, faults>>
    BY DEF Release, masterVars
  <1>2. BusTypes /\ call \in 1..Last + 1 /\ pc.op \in 1..16
    BY DEF Inv, TypeOK, BusTypes, Wires
  <1>3. /\ up \in Slaves /\ up.at = slave.at /\ up.n = slave.n /\ up.byte = slave.byte
        /\ up.ptr = slave.ptr /\ up.sda = slave.sda /\ up.scl = TRUE
    BY <1>2 DEF BusTypes, Slaves, Receiving
  <1>4. b \in BOOLEAN /\ (b <=> master.sda /\ slave.sda) BY <1>2 DEF Sda, BusTypes, Wires
  <1> HIDE DEF up, b
  <1>5. slave' \in Slaves /\ slave'.ptr = slave.ptr /\ slave'.scl = TRUE
    <2>1. OnRise(up, b) \in Slaves /\ OnRise(up, b).ptr = up.ptr /\ OnRise(up, b).scl = up.scl
      BY <1>3, <1>4, RiseType
    <2>2. QED BY <1>1, <1>3, <2>1
  <1>6. TypeOK' BY <1>1, <1>5 DEF Inv, TypeOK
  <1>7. OnlyMeantWrites'
    <2>1. call' \in 1..Last + 1 /\ call' >= call BY <1>1, <1>2
    <2>2. QED BY <1>1, <2>1, MeantStays DEF Inv, RegsInv
  <1>8. RegsInv' BY <1>1, <1>7 DEF Inv, RegsInv
  <1>9. CASE ~(call <= Last) BY <1>1, <1>6, <1>8, <1>9 DEF Inv, WireInv, FrameInv, DataInv
  <1>10. CASE call <= Last
    <2>1. /\ Reading' <=> Reading
          /\ TheReg' = TheReg /\ LastOp' = LastOp
          /\ IsStart' <=> IsStart
          /\ \A at, v, p : InByte(at, v, p)' <=> InByte(at, v, p)
      BY <1>1, SameCall, SameOperation
    <2>2. pc.step # "fall" /\ started BY <1>1, <1>10 DEF Inv, WireInv
    <2>3. WireInv' BY <1>1, <1>5, <1>10, <2>1, <2>2 DEF Inv, WireInv
    <2>4. DataInv' BY <1>1, <1>10, <2>1, <2>2, DataStays
    <2>5. FrameInv'
      <3>1. CASE IsStart BY <1>1, <1>5, <1>10, <2>1, <3>1, NoByteAtStart, FrameStays
      <3>2. CASE ~IsStart /\ master.scl
        <4>1. pc.op > 1 BY <1>10, <3>2 DEF Inv, WireInv, IsStart, LastOp
        <4>2. pc.step = "wait"
          BY <1>1, <1>10, <2>2, <3>2, <4>1 DEF Inv, WireInv, TypeOK
        <4>3. High = 0 /\ High' = 1 BY <1>1, <1>5, <4>2 DEF High
        <4>4. pc.step # "begin" /\ pc'.step # "fall" BY <1>1, <4>2
        <4>5. slave' = OnRise(up, b) BY <1>1, <3>2
        <4>6. /\ \A at \in Receiving, v \in Byte, p \in 0..2 :
                   InByte(at, v, p) /\ Received(at, v, p) => Received(at, v, p)'
              /\ \A p \in 0..2 :
                   /\ Reading /\ pc.op = 12 + p
                   /\ Gives(slave, regs[TheReg], p, High) /\ (pc.step # "begin" => master.sda)
                   => Gives(slave', regs'[TheReg], p, High') /\ (pc'.step # "begin" => master'.sda)
          BY <1>1, <1>3, <1>4, <1>10, <2>1, <4>3, <4>4, <4>5, FrameRises
        <4>7. QED BY <1>1, <1>5, <1>10, <2>1, <4>6, FrameStays
      <3>3. CASE ~IsStart /\ ~master.scl
        <4>1. pc.step \in {"begin", "clock"} BY <1>10, <2>2, <3>3 DEF Inv, WireInv, TypeOK
        <4>2. High = 0 /\ High' = 0 BY <1>1, <4>1 DEF High
        <4>3. slave' = up BY <1>1, <3>3
        <4>4. ASSUME NEW at \in Receiving, NEW v \in Byte, NEW p \in 0..2, Received(at, v, p)
              PROVE  Received(at, v, p)'
          <5>1. Took(slave', at, v, p, 0) BY <1>3, <4>2, <4>3, <4>4 DEF Received, Took
          <5>2. QED BY <1>1, <2>2, <4>2, <4>4, <5>1 DEF Received
        <4>5. ASSUME NEW p \in 0..2, Gives(slave, regs[TheReg], p, High)
              PROVE  Gives(slave', regs'[TheReg], p, High')
          BY <1>1, <1>3, <4>2, <4>3, <4>5 DEF Gives
        <4>6. QED BY <1>1, <1>5, <1>10, <2>1, <4>4, <4>5, FrameStays
      <3>4. QED BY <3>1, <3>2, <3>3
    <2>6. QED BY <1>6, <1>8, <2>3, <2>4, <2>5 DEF Inv
  <1>11. QED BY <1>9, <1>10

-----------------------------------------------------------------------------
(* The clock falls: from one operation to the next.                        *)

LEMMA NextWithin ==
  ASSUME Inv, call <= Last, pc.op < LastOp, NextOperation, BusTypes', data' \in Byte,
         started' = TRUE, ~master'.scl
  PROVE  /\ TypeOK' /\ WireInv'
         /\ pc'.op = pc.op + 1 /\ pc'.step = "begin" /\ High' = 0
         /\ call' = call /\ got' = got /\ before' = before
         /\ Reading' <=> Reading
         /\ TheReg' = TheReg
         /\ \A at, v : \A p \in 0..2 : InByte(at, v, p)' =>
              \/ p > 0 /\ InByte(at, v, p - 1)
              \/ /\ p = 0
                 /\ \/ pc.op = 1 /\ at = "address" /\ v = 2
                    \/ pc.op = 4 /\ at = "register" /\ v = TheReg
                    \/ Writing /\ pc.op = 7 /\ at = "value" /\ v = TheValue
                    \/ Reading /\ pc.op = 8 /\ at = "address" /\ v = 3
  <1>1. Len(Operations(Call(call))) = LastOp BY TheOperation DEF Inv
  <1>2. /\ pc' = [op |-> pc.op + 1, step |-> "begin"]
        /\ call' = call /\ got' = got /\ before' = before
    BY <1>1, Zenon DEF NextOperation, Inv, RegsInv
  <1>3. pc.op \in 1..16 /\ LastOp \in {11, 15} BY DEF Inv, TypeOK, LastOp
  <1>4. pc'.op = pc.op + 1 /\ pc'.step = "begin" BY <1>2
  <1>5. pc' \in Places /\ pc'.op \in 1..LastOp BY <1>2, <1>3 DEF Places
  <1>6. /\ Reading' <=> Reading
        /\ Writing' <=> Writing
        /\ TheReg' = TheReg /\ TheValue' = TheValue /\ LastOp' = LastOp
    BY <1>2, SameCall
  <1>7. TypeOK' BY <1>2, <1>5, TypesKept DEF Inv, TypeOK
  <1>8. WireInv' BY <1>4, <1>5, <1>6 DEF WireInv
  <1>9. High' = 0 BY <1>4 DEF High
  <1>10. ASSUME NEW at, NEW v, NEW p \in 0..2, InByte(at, v, p)'
         PROVE  \/ p > 0 /\ InByte(at, v, p - 1)
                \/ /\ p = 0
                   /\ \/ pc.op = 1 /\ at = "address" /\ v = 2
                      \/ pc.op = 4 /\ at = "register" /\ v = TheReg
                      \/ Writing /\ pc.op = 7 /\ at = "value" /\ v = TheValue
                      \/ Reading /\ pc.op = 8 /\ at = "address" /\ v = 3
    <2>1. \/ pc.op + 1 = 2 + p /\ at = "address" /\ v = 2
          \/ pc.op + 1 = 5 + p /\ at = "register" /\ v = TheReg
          \/ Writing /\ pc.op + 1 = 8 + p /\ at = "value" /\ v = TheValue
          \/ Reading /\ pc.op + 1 = 9 + p /\ at = "address" /\ v = 3
      BY <1>4, <1>6, <1>10 DEF InByte
    <2>2. CASE p = 0 BY <1>3, <2>1, <2>2
    <2>3. CASE p > 0
      <3>1. InByte(at, v, p - 1) BY <1>3, <2>1, <2>3 DEF InByte
      <3>2. QED BY <2>3, <3>1
    <2>4. QED BY <2>2, <2>3
  <1>11. QED BY <1>2, <1>4, <1>6, <1>7, <1>8, <1>9, <1>10

\* What is left to show then: the slave is ready for the bit that comes next.
LEMMA FrameMoves ==
  ASSUME call <= Last, call' = call, pc'.op = pc.op + 1, pc'.step = "begin", High' = 0,
         Reading' <=> Reading, TheReg' = TheReg,
         \A at \in Receiving, v \in Byte, p \in 0..2 :
           InByte(at, v, p)' => Took(slave', at, v, p, 0),
         \A p \in 0..2 : Reading /\ pc.op = 11 + p => Gives(slave', regs'[TheReg], p, 0),
         pc.op >= 7 => slave'.ptr = TheReg, pc.op \in 1..16
  PROVE  FrameInv'
  <1>1. ASSUME NEW at \in Receiving, NEW v \in Byte, NEW p \in 0..2, InByte(at, v, p)'
        PROVE  Received(at, v, p)'
    BY <1>1 DEF Received
  <1>2. ASSUME NEW p \in 0..2, Reading', pc'.op = 12 + p
        PROVE  Gives(slave', regs'[TheReg'], p, High')
    <2>1. Reading /\ pc.op = 11 + p BY <1>2
    <2>2. QED BY <2>1
  <1>3. pc'.op >= 8 => slave'.ptr = TheReg' OBVIOUS
  <1>4. pc'.step = "begin" OBVIOUS
  <1>5. QED BY <1>1, <1>2, <1>3, <1>4 DEF FrameInv, Gives

LEMMA RegsKept ==
  ASSUME Inv, call <= Last, call' = call, got' = got, before' = before, regs' = regs
  PROVE  RegsInv'
  <1>1. call' \in 1..Last + 1 /\ call' >= call BY DEF Inv, TypeOK
  <1>2. OnlyMeantWrites' BY <1>1, MeantStays DEF Inv, RegsInv
  <1>3. QED BY <1>2 DEF Inv, RegsInv

LEMMA StartFallInv ==
  ASSUME Inv, StartFall
  PROVE  Inv'
  <1>1. /\ call <= Last /\ pc.step = "fall" /\ IsStart
        /\ BusTypes /\ started \in BOOLEAN /\ data \in Byte /\ pc.op \in 1..16
    BY OpOfDoing DEF StartFall
  <1> DEFINE m == [master EXCEPT !.scl = FALSE]
  <1>2. NextOperation /\ started' = TRUE /\ data' = data /\ Drive(m) BY DEF StartFall
  <1>3. m \in Wires /\ m.scl = FALSE BY <1>1 DEF BusTypes, Wires
  <1>4. master' = m BY <1>2 DEF Drive
  <1> HIDE DEF m
  <1>5. /\ master.scl /\ slave.scl
        /\ slave.at = "address" /\ slave.n = 0 /\ slave.byte = 0 /\ slave.sda
    BY <1>1 DEF Inv, WireInv
  <1>6. BusTypes' /\ (GoesOn \/ Refuses) BY <1>1, <1>2, <1>3, <1>5, DriveFall
  <1>7. /\ slave'.at = "address" /\ slave'.n = 0 /\ slave'.byte = 0 /\ slave'.sda
        /\ slave'.ptr = slave.ptr /\ regs' = regs
    <2>1. ~Acking(slave) /\ slave.at \in Receiving /\ slave.n < Bits
      BY <1>5 DEF Acking, Bits, Receiving
    <2>2. OnFall(slave) = slave BY <1>1, <2>1, FallOfSlave DEF BusTypes
    <2>3. GoesOn BY <1>6, <2>1 DEF Refuses
    <2>4. QED BY <1>5, <2>1, <2>2, <2>3 DEF GoesOn
  <1>8. pc.op < LastOp BY <1>1 DEF IsStart, LastOp
  <1>9. /\ TypeOK' /\ WireInv'
        /\ pc'.op = pc.op + 1 /\ pc'.step = "begin" /\ High' = 0
        /\ call' = call /\ got' = got /\ before' = before
        /\ Reading' <=> Reading
        /\ TheReg' = TheReg
        /\ \A at, v : \A p \in 0..2 : InByte(at, v, p)' =>
             \/ p > 0 /\ InByte(at, v, p - 1)
             \/ /\ p = 0
                /\ \/ pc.op = 1 /\ at = "address" /\ v = 2
                   \/ pc.op = 4 /\ at = "register" /\ v = TheReg
                   \/ Writing /\ pc.op = 7 /\ at = "value" /\ v = TheValue
                   \/ Reading /\ pc.op = 8 /\ at = "address" /\ v = 3
    BY <1>1, <1>2, <1>3, <1>4, <1>6, <1>8, NextWithin
  <1>10. pc.op \in {1, 8} BY <1>1 DEF IsStart
  <1>11. ASSUME NEW at \in Receiving, NEW v \in Byte, NEW p \in 0..2, InByte(at, v, p)'
         PROVE  Took(slave', at, v, p, 0)
    <2>1. ~(p > 0 /\ InByte(at, v, p - 1))
      <3>1. CASE p > 0
        <4>1. p - 1 \in 0..2 BY <3>1
        <4>2. QED BY <1>1, <4>1, NoByteAtStart
      <3>2. QED BY <3>1
    <2>2. p = 0 /\ at = "address"
      <3>1. Writing => ~Reading BY DEF Writing, Reading
      <3>2. QED BY <1>1, <1>9, <1>10, <1>11, <2>1, <3>1
    <2>3. QED BY <1>7, <2>2 DEF Took, Prefix
  <1>12. pc.op >= 7 => slave'.ptr = TheReg
    <2>1. pc.op >= 7 => pc.op >= 8 BY <1>10
    <2>2. QED BY <1>1, <1>7, <2>1 DEF Inv, FrameInv
  <1>13. \A p \in 0..2 : ~(pc.op = 11 + p) BY <1>10
  <1>14. FrameInv' BY <1>1, <1>9, <1>11, <1>12, <1>13, FrameMoves
  <1>15. DataInv' BY <1>9, <1>10 DEF DataInv
  <1>16. RegsInv' BY <1>1, <1>7, <1>9, RegsKept
  <1>17. QED BY <1>9, <1>14, <1>15, <1>16 DEF Inv

\* A bit of a byte it receives is over; after the last one it acknowledges, or
\* refuses to and is gone.
LEMMA FallInByte ==
  ASSUME BusTypes, NEW m \in Wires, Drive(m), master.scl, slave.scl, ~m.scl,
         NEW at \in Receiving, NEW v \in Byte, NEW p \in {0, 1},
         at = "address" => v \in {2, 3}, Took(slave, at, v, p, 1)
  PROVE  /\ BusTypes' /\ Took(slave', at, v, p + 1, 0) /\ slave'.ptr = slave.ptr
         /\ \/ regs' = regs
            \/ at = "value" /\ regs' = [regs EXCEPT ![slave.ptr] = v]
  <1>1. BusTypes' /\ (GoesOn \/ Refuses) BY DriveFall
  <1>2. slave.at = at /\ slave.n = p + 1 /\ slave.byte = Prefix(v, p + 1) /\ slave.sda
    BY DEF Took
  <1>3. CASE p = 0
    <2>1. ~Acking(slave) /\ slave.at \in Receiving /\ slave.n < Bits
      BY <1>2, <1>3 DEF Acking, Bits
    <2>2. OnFall(slave) = slave BY <2>1, FallOfSlave DEF BusTypes
    <2>3. GoesOn BY <1>1, <2>1 DEF Refuses
    <2>4. /\ slave'.at = at /\ slave'.n = 1 /\ slave'.byte = Prefix(v, 1) /\ slave'.sda
          /\ slave'.ptr = slave.ptr /\ regs' = regs
      BY <1>2, <1>3, <2>1, <2>2, <2>3 DEF GoesOn
    <2>5. QED BY <1>1, <1>3, <2>4 DEF Took
  <1>4. CASE p = 1
    <2>1. slave.n = Bits /\ slave.byte = v /\ slave.at \in Receiving
      BY <1>2, <1>4, PrefixGrows DEF Bits
    <2>2. Addressed(slave) BY <1>2, <2>1 DEF Addressed
    <2>3. CASE GoesOn
      <3>1. LET t == OnFall(slave)
            IN /\ t.at = slave.at /\ t.n = slave.n /\ t.byte = slave.byte
               /\ t.ptr = slave.ptr /\ t.sda = FALSE
        BY <2>1, <2>2, FallOfSlave DEF BusTypes
      <3>2. /\ slave'.at = at /\ slave'.n = 2 /\ slave'.byte = v /\ ~slave'.sda
            /\ slave'.ptr = slave.ptr
        BY <1>2, <2>1, <2>3, <3>1 DEF GoesOn, Bits
      <3>3. regs' = regs \/ (at = "value" /\ regs' = [regs EXCEPT ![slave.ptr] = v])
        BY <1>2, <2>1, <2>3 DEF GoesOn
      <3>4. Prefix(v, 2) = v BY PrefixGrows
      <3>5. QED BY <1>1, <1>4, <3>2, <3>3, <3>4 DEF Took
    <2>4. CASE Refuses
      <3>1. slave' = Quiet(slave) /\ regs' = regs BY <2>4 DEF Refuses
      <3>2. slave'.at = "idle" /\ slave'.ptr = slave.ptr /\ slave'.sda = TRUE
        BY <3>1, QuietSlave DEF BusTypes
      <3>3. QED BY <1>1, <1>4, <3>1, <3>2 DEF Took
    <2>5. QED BY <1>1, <2>3, <2>4
  <1>5. QED BY <1>3, <1>4

\* The acknowledge is over.
LEMMA FallAfterAck ==
  ASSUME BusTypes, NEW m \in Wires, Drive(m), master.scl, slave.scl, ~m.scl,
         NEW at \in Receiving, NEW v \in Byte, Took(slave, at, v, 2, 1)
  PROVE  /\ BusTypes' /\ regs' = regs
         /\ slave.at = at =>
              LET t == NextByte(slave)
              IN /\ slave.byte = v
                 /\ slave'.at = t.at /\ slave'.n = t.n /\ slave'.byte = t.byte
                 /\ slave'.ptr = t.ptr /\ slave'.sda = t.sda
  <1>1. BusTypes' /\ (GoesOn \/ Refuses) BY DriveFall
  <1>2. ~Acking(slave) BY DEF Took, Acking, Bits, Receiving
  <1>3. GoesOn /\ regs' = regs BY <1>1, <1>2 DEF Refuses, GoesOn
  <1>4. CASE slave.at = at
    <2>1. slave.n = Bits + 1 /\ slave.byte = v /\ slave.at # "idle"
      BY <1>4, PrefixGrows DEF Took, Bits, Receiving
    <2>2. OnFall(slave) = NextByte(slave) BY <2>1, FallOfSlave DEF BusTypes
    <2>3. QED BY <1>1, <1>3, <2>1, <2>2 DEF GoesOn
  <1>5. QED BY <1>1, <1>3, <1>4

\* A bit that it sends is over, or the answer to its byte.
LEMMA FallInGiven ==
  ASSUME BusTypes, NEW m \in Wires, Drive(m), master.scl, slave.scl, ~m.scl,
         NEW p \in 0..2, Gives(slave, regs[slave.ptr], p, 1)
  PROVE  /\ BusTypes' /\ regs' = regs /\ slave'.ptr = slave.ptr
         /\ p < 2 => Gives(slave', regs[slave.ptr], p + 1, 0)
  <1>1. BusTypes' /\ (GoesOn \/ Refuses) BY DriveFall
  <1>2. slave.at = "send" \/ slave.at = "idle" BY DEF Gives
  <1>3. ~Acking(slave) BY <1>2 DEF Acking, Receiving
  <1>4. GoesOn /\ regs' = regs BY <1>1, <1>3 DEF Refuses, GoesOn
  <1>5. slave'.ptr = slave.ptr
    <2>1. OnFall(slave).ptr = slave.ptr BY <1>2, FallOfSlave DEF BusTypes
    <2>2. QED BY <1>4, <2>1 DEF GoesOn
  <1>6. CASE p = 0
    <2>1. slave.at = "send" /\ slave.n < Bits /\ slave.n + 1 = 2 /\ slave.n = 1
      BY <1>6 DEF Gives, Bits
    <2>2. LET t == OnFall(slave)
          IN t.at = "send" /\ t.n = slave.n /\ t.sda = BitOf(regs[slave.ptr], slave.n + 1)
      BY <2>1, FallOfSlave DEF BusTypes
    <2>3. slave'.at = "send" /\ slave'.n = 1 /\ slave'.sda = BitOf(regs[slave.ptr], 2)
      BY <1>4, <2>1, <2>2 DEF GoesOn
    <2>4. QED BY <1>1, <1>4, <1>5, <1>6, <2>3 DEF Gives
  <1>7. CASE p = 1
    <2>1. slave.at = "send" /\ slave.n = Bits BY <1>7 DEF Gives, Bits
    <2>2. LET t == OnFall(slave) IN t.at = "send" /\ t.n = slave.n /\ t.sda = TRUE
      BY <2>1, FallOfSlave DEF BusTypes
    <2>3. slave'.at = "send" /\ slave'.n = 2 /\ slave'.sda = TRUE
      BY <1>4, <2>1, <2>2 DEF GoesOn, Bits
    <2>4. QED BY <1>1, <1>4, <1>5, <1>7, <2>3 DEF Gives
  <1>8. CASE p = 2 BY <1>1, <1>4, <1>5, <1>8
  <1>9. QED BY <1>6, <1>7, <1>8

\* The one write that a call of I2C_Write makes is the one it is for.
LEMMA MeantWrite ==
  ASSUME Inv, call <= Last, Writing, call' = call, got' = got, before' = before,
         regs' = [regs EXCEPT ![TheReg] = TheValue]
  PROVE  RegsInv'
  <1>1. call \in 5..7 BY DEF Writing
  <1>2. TheReg \in Reg /\ TheValue \in Byte BY TheOperation DEF Inv
  <1>3. ASSUME NEW k \in 5..7 PROVE Call(k)' = Call(k) BY Zenon DEF Call
  <1>4. ASSUME NEW r \in Reg
        PROVE  \/ regs'[r] = before'[r]
               \/ \E k \in 5..7 : call' >= k /\ Call(k)'.reg = r /\ regs'[r] = Call(k)'.value
    <2>1. CASE r = TheReg
      <3>1. regs'[r] = Call(call).value /\ Call(call).reg = r
        BY <1>2, <2>1 DEF Inv, TypeOK, TheReg, TheValue
      <3>2. call' >= call BY <1>1
      <3>3. Call(call)' = Call(call) BY SameCall
      <3>4. QED BY <1>1, <1>3, <3>1, <3>2
    <2>2. CASE r # TheReg
      <3>1. regs'[r] = regs[r] BY <1>2, <2>2 DEF Inv, TypeOK
      <3>2. \/ regs[r] = before[r]
            \/ \E k \in 5..7 : call >= k /\ Call(k).reg = r /\ regs[r] = Call(k).value
        BY DEF Inv, RegsInv, OnlyMeantWrites
      <3>3. QED BY <1>3, <3>1, <3>2
    <2>3. QED BY <2>1, <2>2
  <1>5. OnlyMeantWrites' BY <1>4 DEF OnlyMeantWrites
  <1>6. QED BY <1>1, <1>5 DEF Inv, RegsInv

LEMMA BitFallInv ==
  ASSUME Inv, BitFall
  PROVE  Inv'
  <1>1. /\ call <= Last /\ pc.step = "fall" /\ ~IsStart /\ pc.op > 1
        /\ BusTypes /\ started \in BOOLEAN /\ data \in Byte /\ pc.op \in 1..16
        /\ Operation.op \in {"bit", "ack", "get"}
    BY OpOfDoing DEF BitFall
  <1> DEFINE m == [master EXCEPT !.scl = FALSE]
  <1>2. started' = started /\ data' = data /\ Drive(m) BY DEF BitFall
  <1>3. \/ Operation.op = "ack" /\ data % 2 = 1 /\ Returns(FALSE)
        \/ ~(Operation.op = "ack" /\ data % 2 = 1) /\ NextOperation
    BY Zenon DEF BitFall
  <1>4. m \in Wires /\ m.scl = FALSE BY <1>1 DEF BusTypes, Wires
  <1>5. master' = m BY <1>2 DEF Drive
  <1> HIDE DEF m
  <1>6. started = TRUE /\ master.scl /\ slave.scl BY <1>1 DEF Inv, WireInv
  <1>7. /\ Operation.op = "stop" <=> pc.op = LastOp
        /\ Operation.op = "ack" <=> pc.op \in {4, 7} \/ (Reading /\ pc.op = 11)
                                                     \/ (Writing /\ pc.op = 10)
        /\ Reading <=> ~Writing
        /\ TheReg \in Reg /\ (Writing => TheValue \in Byte)
    BY <1>1, TheOperation DEF Inv
  <1>8. pc.op < LastOp /\ ~(Reading /\ pc.op = 8)
    BY <1>1, <1>7 DEF Inv, WireInv, LastOp, IsStart
  <1>9. High = 1 BY <1>1 DEF High
  <1>10. pc.op >= 8 => slave.ptr = TheReg BY <1>1 DEF Inv, FrameInv
  <1>11. ASSUME NextOperation, BusTypes'
         PROVE  /\ TypeOK' /\ WireInv'
                /\ pc'.op = pc.op + 1 /\ pc'.step = "begin" /\ High' = 0
                /\ call' = call /\ got' = got /\ before' = before
                /\ Reading' <=> Reading
                /\ TheReg' = TheReg
                /\ \A at, v : \A p \in 0..2 : InByte(at, v, p)' =>
                     \/ p > 0 /\ InByte(at, v, p - 1)
                     \/ /\ p = 0
                        /\ \/ pc.op = 1 /\ at = "address" /\ v = 2
                           \/ pc.op = 4 /\ at = "register" /\ v = TheReg
                           \/ Writing /\ pc.op = 7 /\ at = "value" /\ v = TheValue
                           \/ Reading /\ pc.op = 8 /\ at = "address" /\ v = 3
    BY <1>1, <1>2, <1>4, <1>5, <1>6, <1>8, <1>11, NextWithin
  <1>12. CASE \E at \in Receiving, v \in Byte, p \in {0, 1} : InByte(at, v, p)
    <2>1. PICK at \in Receiving, v \in Byte, p \in {0, 1} : InByte(at, v, p) BY <1>12
    <2>2. /\ pc.op \in {2, 3, 5, 6} \/ (Writing /\ pc.op \in {8, 9})
                                    \/ (Reading /\ pc.op \in {9, 10})
          /\ at = "address" => v \in {2, 3}
          /\ at = "value" => Writing /\ v = TheValue /\ pc.op >= 8
      BY <2>1 DEF InByte
    <2>3. NextOperation
      <3>1. Operation.op # "ack" BY <1>7, <2>2
      <3>2. QED BY <1>3, <3>1, Zenon
    <2>4. ASSUME NEW at2 \in Receiving, NEW v2 \in Byte, NEW p2 \in {0, 1}, InByte(at2, v2, p2)
          PROVE  /\ BusTypes' /\ Took(slave', at2, v2, p2 + 1, 0) /\ slave'.ptr = slave.ptr
                 /\ regs' = regs \/ (at2 = "value" /\ regs' = [regs EXCEPT ![slave.ptr] = v2])
      <3>1. at2 = "address" => v2 \in {2, 3} BY <2>4 DEF InByte
      <3>2. p2 \in 0..2 BY <2>4
      <3>3. Took(slave, at2, v2, p2, 1)
        BY <1>1, <1>9, <2>4, <3>2 DEF Inv, FrameInv, Received
      <3>4. QED BY <1>1, <1>2, <1>4, <1>6, <3>1, <3>3, FallInByte
    <2>5. /\ BusTypes' /\ slave'.ptr = slave.ptr
          /\ regs' = regs \/ (at = "value" /\ regs' = [regs EXCEPT ![slave.ptr] = v])
      BY <2>1, <2>4
    <2>6. /\ TypeOK' /\ WireInv'
          /\ pc'.op = pc.op + 1 /\ pc'.step = "begin" /\ High' = 0
          /\ call' = call /\ got' = got /\ before' = before
          /\ Reading' <=> Reading
          /\ TheReg' = TheReg
      BY <1>11, <2>3, <2>5
    <2>7. ASSUME NEW at2 \in Receiving, NEW v2 \in Byte, NEW p2 \in 0..2, InByte(at2, v2, p2)'
          PROVE  Took(slave', at2, v2, p2, 0)
      <3>1. p2 > 0 /\ InByte(at2, v2, p2 - 1) BY <1>7, <1>11, <2>2, <2>3, <2>5, <2>7
      <3>2. p2 - 1 \in {0, 1} BY <3>1
      <3>3. Took(slave', at2, v2, (p2 - 1) + 1, 0) BY <2>4, <3>1, <3>2
      <3>4. (p2 - 1) + 1 = p2 OBVIOUS
      <3>5. QED BY <3>3, <3>4
    <2>8. \A p2 \in 0..2 : ~(Reading /\ pc.op = 11 + p2) BY <1>7, <2>2
    <2>9. pc.op >= 7 => slave'.ptr = TheReg BY <1>10, <2>2, <2>5
    <2>10. FrameInv' BY <1>1, <2>6, <2>7, <2>8, <2>9, FrameMoves
    <2>11. DataInv' BY <1>7, <2>2, <2>6 DEF DataInv
    <2>12. RegsInv'
      <3>1. CASE regs' = regs BY <1>1, <2>6, <3>1, RegsKept
      <3>2. CASE at = "value" /\ regs' = [regs EXCEPT ![slave.ptr] = v]
        <4>1. Writing /\ v = TheValue /\ slave.ptr = TheReg BY <1>10, <2>2, <3>2
        <4>2. QED BY <1>1, <2>6, <3>2, <4>1, MeantWrite
      <3>3. QED BY <2>5, <3>1, <3>2
    <2>13. QED BY <2>6, <2>10, <2>11, <2>12 DEF Inv
  <1>13. CASE \E at \in Receiving, v \in Byte : InByte(at, v, 2)
    <2>1. PICK at \in Receiving, v \in Byte : InByte(at, v, 2) BY <1>13
    <2>2. Received(at, v, 2) BY <1>1, <2>1 DEF Inv, FrameInv
    <2>3. Took(slave, at, v, 2, 1) /\ (data % 2 = 0 <=> slave.at = at)
      BY <1>1, <1>9, <2>2 DEF Received
    <2> DEFINE t == NextByte(slave)
    <2>4. /\ BusTypes' /\ regs' = regs
          /\ slave.at = at =>
                /\ slave.byte = v
                /\ slave'.at = t.at /\ slave'.n = t.n /\ slave'.byte = t.byte
                /\ slave'.ptr = t.ptr /\ slave'.sda = t.sda
      BY <1>1, <1>2, <1>4, <1>6, <2>3, FallAfterAck
    <2>5. /\ t.n = 0 /\ t.byte = 0
          /\ slave.at = "address" /\ slave.byte = 2
               => t.at = "register" /\ t.sda = TRUE /\ t.ptr = slave.ptr
          /\ slave.at = "address" /\ slave.byte = 3
               => t.at = "send" /\ t.ptr = slave.ptr /\ t.sda = BitOf(regs[slave.ptr], 1)
          /\ slave.at = "register" => t.at = "value" /\ t.sda = TRUE /\ t.ptr = slave.byte
          /\ slave.at # "register" => t.ptr = slave.ptr
      BY <1>1, NextByteStarts DEF BusTypes
    <2> HIDE DEF t
    <2>6. \/ pc.op = 4 /\ at = "address" /\ v = 2
          \/ pc.op = 7 /\ at = "register" /\ v = TheReg
          \/ Writing /\ pc.op = 10 /\ at = "value"
          \/ Reading /\ pc.op = 11 /\ at = "address" /\ v = 3
      BY <2>1 DEF InByte
    <2>7. Operation.op = "ack" BY <1>7, <2>6
    <2>8. CASE Returns(FALSE) BY <1>1, <1>2, <1>6, <2>4, <2>8, ReturnFails
    <2>9. CASE ~(data % 2 = 1) /\ NextOperation
      <3>1. slave.at = at BY <1>1, <2>3, <2>9 DEF Byte
      <3>2. /\ slave.byte = v /\ slave'.n = 0 /\ slave'.byte = 0
            /\ slave'.at = t.at /\ slave'.ptr = t.ptr /\ slave'.sda = t.sda
        BY <2>4, <2>5, <3>1
      <3>3. /\ TypeOK' /\ WireInv'
            /\ pc'.op = pc.op + 1 /\ pc'.step = "begin" /\ High' = 0
            /\ call' = call /\ got' = got /\ before' = before
            /\ Reading' <=> Reading
            /\ TheReg' = TheReg
        BY <1>11, <2>4, <2>9
      <3>4. ASSUME NEW at2 \in Receiving, NEW v2 \in Byte, NEW p2 \in 0..2, InByte(at2, v2, p2)'
            PROVE  Took(slave', at2, v2, p2, 0)
        <4>1. /\ p2 = 0
              /\ \/ pc.op = 4 /\ at2 = "register"
                 \/ Writing /\ pc.op = 7 /\ at2 = "value"
          <5>1. ~(p2 > 0 /\ InByte(at2, v2, p2 - 1))
            BY <1>7, <2>6 DEF InByte
          <5>2. QED BY <1>1, <1>8, <1>11, <2>4, <2>6, <2>9, <3>4, <5>1
        <4>2. slave'.at = at2 /\ slave'.sda BY <2>5, <2>6, <3>1, <3>2, <4>1
        <4>3. QED BY <3>2, <4>1, <4>2 DEF Took, Prefix
      <3>5. pc.op >= 7 => slave'.ptr = TheReg BY <1>10, <2>5, <2>6, <3>1, <3>2
      <3>6. ASSUME NEW p2 \in 0..2, Reading, pc.op = 11 + p2
            PROVE  Gives(slave', regs'[TheReg], p2, 0)
        <4>1. p2 = 0 /\ at = "address" /\ v = 3 /\ slave.ptr = TheReg
          BY <1>7, <1>10, <2>6, <3>6
        <4>2. slave'.at = "send" /\ slave'.sda = BitOf(regs[TheReg], 1)
          BY <2>5, <3>1, <3>2, <4>1
        <4>3. QED BY <2>4, <3>2, <4>1, <4>2 DEF Gives
      <3>7. FrameInv' BY <1>1, <3>3, <3>4, <3>5, <3>6, FrameMoves
      <3>8. DataInv' BY <1>7, <2>6, <3>3 DEF DataInv
      <3>9. RegsInv' BY <1>1, <2>4, <3>3, RegsKept
      <3>10. QED BY <3>3, <3>7, <3>8, <3>9 DEF Inv
    <2>10. QED BY <1>3, <2>7, <2>8, <2>9
  <1>14. CASE Reading /\ pc.op \in 12..14
    <2>1. PICK p \in 0..2 : pc.op = 12 + p
      <3>1. pc.op - 12 \in 0..2 /\ pc.op = 12 + (pc.op - 12) BY <1>14
      <3>2. QED BY <3>1
    <2>2. slave.ptr = TheReg BY <1>10, <1>14
    <2>3. Gives(slave, regs[slave.ptr], p, 1) BY <1>1, <1>9, <1>14, <2>1, <2>2 DEF Inv, FrameInv
    <2>4. /\ BusTypes' /\ regs' = regs /\ slave'.ptr = slave.ptr
          /\ p < 2 => Gives(slave', regs[slave.ptr], p + 1, 0)
      BY <1>1, <1>2, <1>4, <1>6, <2>3, FallInGiven
    <2>5. NextOperation
      <3>1. Operation.op # "ack" BY <1>7, <1>14
      <3>2. QED BY <1>3, <3>1, Zenon
    <2>6. /\ TypeOK' /\ WireInv'
          /\ pc'.op = pc.op + 1 /\ pc'.step = "begin" /\ High' = 0
          /\ call' = call /\ got' = got /\ before' = before
          /\ Reading' <=> Reading
          /\ TheReg' = TheReg
      BY <1>11, <2>4, <2>5
    <2>7. ASSUME NEW at2 \in Receiving, NEW v2 \in Byte, NEW p2 \in 0..2
          PROVE  ~InByte(at2, v2, p2)'
      <3>1. ~(p2 > 0 /\ InByte(at2, v2, p2 - 1)) BY <1>7, <1>14 DEF InByte
      <3>2. QED BY <1>11, <1>14, <2>4, <2>5, <3>1
    <2>8. ASSUME NEW p2 \in 0..2, Reading, pc.op = 11 + p2
          PROVE  Gives(slave', regs'[TheReg], p2, 0)
      <3>1. p < 2 /\ p2 = p + 1 BY <2>1, <2>8
      <3>2. QED BY <2>2, <2>4, <3>1
    <2>9. slave'.ptr = TheReg BY <2>2, <2>4
    <2>10. FrameInv' BY <1>1, <2>6, <2>7, <2>8, <2>9, FrameMoves
    <2>11. DataInv' BY <1>1, <1>2, <1>14, <2>4, <2>6 DEF Inv, DataInv
    <2>12. RegsInv' BY <1>1, <2>4, <2>6, RegsKept
    <2>13. QED BY <2>6, <2>10, <2>11, <2>12 DEF Inv
  <1>15. \/ Reading /\ pc.op \in 12..14
         \/ \E at \in Receiving, v \in Byte, p \in 0..2 : InByte(at, v, p)
    BY <1>1, <1>8, WhereItIs DEF Inv
  <1>16. QED BY <1>12, <1>13, <1>14, <1>15

-----------------------------------------------------------------------------
(* The theorems.                                                           *)

LEMMA InitInv == Init => Inv
  <1> SUFFICES ASSUME Init PROVE Inv OBVIOUS
  <1>1. /\ pc = [op |-> 1, step |-> "begin"] /\ call = 1 /\ started = FALSE
        /\ data = 0 /\ faults = 0 /\ before = regs /\ got = [r \in Reg |-> 0]
        /\ master = [scl |-> TRUE, sda |-> TRUE] /\ slave \in Interrupted
    BY DEF Init
  <1>2. Idle \in Slaves /\ Idle.scl
    BY DEF Idle, Slaves, Receiving, Bits, Byte, Reg
  <1>3. slave \in Slaves /\ slave.scl
    <2>1. CASE slave = Idle BY <1>2, <2>1
    <2>2. CASE \E r \in Reg : slave = [Idle EXCEPT !.at = "value", !.ptr = r, !.n = 1]
      <3>1. PICK r \in Reg : slave = [Idle EXCEPT !.at = "value", !.ptr = r, !.n = 1]
        BY <2>2
      <3>2. slave = [at |-> "value", n |-> 1, byte |-> 0, ptr |-> r, sda |-> TRUE, scl |-> TRUE]
        BY <3>1 DEF Idle
      <3>3. QED BY <3>2 DEF Slaves, Receiving, Bits, Byte
    <2>3. CASE slave = [Idle EXCEPT !.at = "send", !.n = 1, !.sda = FALSE]
      <3>1. slave = [at |-> "send", n |-> 1, byte |-> 0, ptr |-> 0, sda |-> FALSE, scl |-> TRUE]
        BY <2>3 DEF Idle
      <3>2. QED BY <3>1 DEF Slaves, Receiving, Bits, Byte, Reg
    <2>4. QED BY <1>1, <2>1, <2>2, <2>3 DEF Interrupted
  <1>4. regs \in [Reg -> Byte]
    <2>1. PICK v2 \in Setpoints, v3 \in Setpoints :
            regs = [r \in Reg |-> CASE r = DC2VOL -> v2 [] r = DC3VOL -> v3 [] OTHER -> 0]
      BY DEF Init
    <2>2. v2 \in Byte /\ v3 \in Byte BY I2cAssumption DEF Byte
    <2>3. QED BY <2>1, <2>2 DEF Reg, Byte
  <1>5. TypeOK
    <2>1. /\ master \in [scl : BOOLEAN, sda : BOOLEAN]
          /\ pc \in [op : 1..16, step : {"begin", "clock", "wait", "sample", "fall"}]
      BY <1>1
    <2>2. call \in 1..Last + 1 /\ data \in Byte /\ started \in BOOLEAN
      <3>1. call = 1 /\ data = 0 /\ started = FALSE BY <1>1
      <3>2. call \in 1..Last + 1 BY <3>1 DEF Last
      <3>3. data \in Byte BY <3>1 DEF Byte
      <3>4. QED BY <3>1, <3>2, <3>3
    <2>3. got \in [Reg -> Byte] BY <1>1 DEF Byte
    <2>4. faults \in 0..MaxFaults BY <1>1, I2cAssumption
    <2>5. QED BY <1>3, <1>4, <2>1, <2>2, <2>3, <2>4 DEF TypeOK
  <1>6. pc.op = 1 /\ pc.step = "begin" BY <1>1
  <1>7. WireInv BY <1>1, <1>3, <1>6 DEF WireInv, LastOp
  <1>8. ASSUME NEW at, NEW v, NEW p \in 0..2 PROVE ~InByte(at, v, p)
    BY <1>6, <1>8 DEF InByte
  <1>9. FrameInv BY <1>6, <1>8 DEF FrameInv
  <1>10. DataInv BY <1>6 DEF DataInv
  <1>11. RegsInv BY <1>1, <1>4 DEF RegsInv, OnlyMeantWrites, Reg
  <1>12. QED BY <1>5, <1>7, <1>9, <1>10, <1>11 DEF Inv

LEMMA NextInv == Inv /\ [Next]_vars => Inv'
  <1> SUFFICES ASSUME Inv, [Next]_vars PROVE Inv' OBVIOUS
  <1>1. CASE StartBegin BY <1>1, StartBeginInv
  <1>2. CASE BitBegin BY <1>2, BitBeginInv
  <1>3. CASE RaiseClock BY <1>3, RaiseClockInv
  <1>4. CASE ClockIsHigh BY <1>4, ClockIsHighInv
  <1>5. CASE Timeout BY <1>5, TimeoutInv
  <1>6. CASE StartSample BY <1>6, StartSampleInv
  <1>7. CASE StartFall BY <1>7, StartFallInv
  <1>8. CASE WriteBitSample BY <1>8, WriteBitSampleInv
  <1>9. CASE ReadBitSample BY <1>9, ReadBitSampleInv
  <1>10. CASE BitFall BY <1>10, BitFallInv
  <1>11. CASE StopSample BY <1>11, StopSampleInv
  <1>12. CASE Release BY <1>12, ReleaseInv
  <1>13. CASE UNCHANGED vars
    <2>1. UNCHANGED <<call, got>> /\ pc' = pc /\ High' = High
      BY <1>13 DEF vars, masterVars, High
    <2>2. /\ Reading' <=> Reading
          /\ TheReg' = TheReg /\ LastOp' = LastOp
          /\ IsStart' <=> IsStart
          /\ \A at, v, p : InByte(at, v, p)' <=> InByte(at, v, p)
      BY <2>1, SameCall, SameOperation
    <2>3. TypeOK' /\ WireInv' /\ DataInv'
      BY <1>13, <2>2 DEF vars, masterVars, Inv, TypeOK, WireInv, DataInv
    <2>4. ASSUME NEW at \in Receiving, NEW v \in Byte, NEW p \in 0..2
          PROVE  Received(at, v, p)' <=> Received(at, v, p)
      BY <1>13, <2>1 DEF vars, masterVars, Received
    <2>5. FrameInv' BY <1>13, <2>1, <2>2, <2>4 DEF vars, masterVars, Inv, FrameInv
    <2>6. RegsInv'
      <3>1. OnlyMeantWrites'
        <4>1. call' \in 1..Last + 1 /\ call' >= call BY <2>1 DEF Inv, TypeOK
        <4>2. QED BY <1>13, <4>1, MeantStays DEF vars, masterVars, Inv, RegsInv
      <3>2. QED BY <1>13, <3>1 DEF vars, masterVars, Inv, RegsInv
    <2>7. QED BY <2>3, <2>5, <2>6 DEF Inv
  <1>14. QED
    BY <1>1, <1>2, <1>3, <1>4, <1>5, <1>6, <1>7, <1>8, <1>9, <1>10, <1>11, <1>12,
       <1>13 DEF Next, Master

\* The invariant holds in every state: from each START to the end of its transfer the
\* master and the PMIC agree on the byte and the bit that are on the wires.
THEOREM Invariance == Spec => []Inv
  BY InitInv, NextInv, PTL DEF Spec

\* No sequence of stretches, refusals and aborted transfers takes a variable of the
\* master or of the PMIC out of its range.
THEOREM TypeCorrect == Spec => []TypeOK
  <1>1. Inv => TypeOK BY DEF Inv
  <1>2. QED BY <1>1, Invariance, PTL

\* What PMIC_GEC6818 computes its settings from is what the registers held,
\* however many times the slave stretched the clock past the master's timeout,
\* refused to acknowledge, or was found in the middle of the kernel's transfer.
THEOREM ReadsTrue == Spec => []ReadsAreTrue
  <1>1. Inv => ReadsAreTrue
    <2> SUFFICES ASSUME Inv, call \in 5..7 PROVE got = before BY DEF ReadsAreTrue
    <2>1. got \in [Reg -> Byte] /\ before \in [Reg -> Byte]
      BY DEF Inv, TypeOK, RegsInv
    <2>2. ASSUME NEW r \in Reg PROVE got[r] = before[r]
      <3>1. call <= Last /\ call > r + 1 BY DEF Last, Reg
      <3>2. QED BY <3>1 DEF Inv, RegsInv
    <2>3. QED BY <2>1, <2>2
  <1>2. QED BY <1>1, Invariance, PTL

\* No transfer that ends in the middle, no START of the next one and no half byte
\* of the kernel's ever writes a register, or writes one it is not for.
THEOREM OnlyMeant == Spec => []OnlyMeantWrites
  <1>1. Inv => OnlyMeantWrites BY DEF Inv, RegsInv
  <1>2. QED BY <1>1, Invariance, PTL

=============================================================================
