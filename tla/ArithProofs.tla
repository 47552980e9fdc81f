----------------------------- MODULE ArithProofs -----------------------------
(***************************************************************************)
(* What init_DDR3 makes of every header's timings: the two halves that     *)
(* encode them, for the controller and for the chips, agree.               *)
(***************************************************************************)
EXTENDS Arith, TLAPS

\* The chips read the latency that the header gives out of the code that the
\* driver splits over two fields of MR0.
LEMMA CasCodeIsRead ==
  ASSUME NEW t \in Timings
  PROVE  /\ CasCode(t) \in DOMAIN CasLatency /\ CasCode(t) \in 0..15
         /\ CasLatency[CasCode(t)] = t.CL
  <1>1. t.CL \in 5..13 BY DEF Timings
  <1>2. CASE t.CL \in 5..11
    <2>1. CasCode(t) = 2 * (t.CL - 4) BY <1>2 DEF CasCode
    <2>2. QED BY <1>2, <2>1 DEF CasLatency
  <1>3. CASE t.CL \in {12, 13}
    <2>1. CasCode(t) = 2 * (t.CL - 12) + 1 BY <1>3 DEF CasCode
    <2>2. QED BY <1>3, <2>1 DEF CasLatency
  <1>4. QED BY <1>1, <1>2, <1>3

LEMMA FieldsMakeTheCode ==
  ASSUME NEW n \in 0..15
  PROVE  2 * ((n \div 2) % 8) + (n % 2) = n
  OBVIOUS

LEMMA EncodingsAgree ==
  ASSUME NEW t \in Timings
  PROVE  LET c == ModeRegisters(t)
             CL == CasLatency[2 * c.CL1 + c.CL0]
             AL == IF c.AL = 0 THEN 0 ELSE CL - c.AL
         IN /\ 2 * c.CL1 + c.CL0 \in DOMAIN CasLatency
            /\ Latencies(t) = [RL |-> AL + CL, WL |-> AL + c.CWL + 5]
  <1> DEFINE c == ModeRegisters(t)
             code == 2 * c.CL1 + c.CL0
             AL == IF c.AL = 0 THEN 0 ELSE t.CL - c.AL
  <1>1. t.CL \in 5..13 /\ t.CWL \in 5..9 /\ t.AL \in 0..2 BY DEF Timings
  <1>2. /\ CasCode(t) \in DOMAIN CasLatency /\ CasCode(t) \in 0..15
        /\ CasLatency[CasCode(t)] = t.CL
    BY CasCodeIsRead
  <1>3. /\ c.CL0 = CasCode(t) % 2 /\ c.CL1 = (CasCode(t) \div 2) % 8
        /\ c.CWL = (t.CWL - 5) % 8 /\ c.AL = t.AL % 4
    BY DEF ModeRegisters
  <1> HIDE DEF c
  <1>4. code = CasCode(t) BY <1>2, <1>3, FieldsMakeTheCode
  <1>5. c.CWL = t.CWL - 5 /\ c.AL = t.AL BY <1>1, <1>3
  <1>6. Latencies(t) = [WL |-> AL + t.CWL, RL |-> AL + t.CL]
    BY <1>1, <1>5 DEF Latencies
  <1>7. AL + c.CWL + 5 = AL + t.CWL BY <1>1, <1>5
  <1> HIDE DEF code
  <1>8. /\ code \in DOMAIN CasLatency
        /\ Latencies(t) = [RL |-> AL + t.CL, WL |-> AL + c.CWL + 5]
    BY <1>2, <1>4, <1>6, <1>7
  <1>9. CasLatency[code] = t.CL BY <1>2, <1>4
  <1>10. QED BY <1>8, <1>9 DEF code, c

-----------------------------------------------------------------------------

\* An encoding is never taken for a division, nor its result overwritten.
Encoded ==
  /\ call \in Divisions \cup Encodings
  /\ call.fn = "encode" =>
       /\ pc \in {"start", "done"}
       /\ pc = "done" => result = [controller |-> Latencies(call.timing),
                                   chips |-> ModeRegisters(call.timing)]

LEMMA EncodedStep == Encoded /\ [Next]_vars => Encoded'
  <1> SUFFICES ASSUME Encoded, [Next]_vars PROVE Encoded' OBVIOUS
  <1>1. CASE StartDivision BY <1>1 DEF StartDivision, Encoded
  <1>2. CASE SkipBits BY <1>2 DEF SkipBits, Encoded
  <1>3. CASE TakeBack BY <1>3 DEF TakeBack, Encoded
  <1>4. CASE DivideBit BY <1>4 DEF DivideBit, Encoded
  <1>5. CASE EndDivision BY <1>5 DEF EndDivision, Encoded
  <1>6. CASE Encode BY <1>6 DEF Encode, Encoded
  <1>7. CASE UNCHANGED vars BY <1>7 DEF vars, Encoded
  <1>8. QED BY <1>1, <1>2, <1>3, <1>4, <1>5, <1>6, <1>7 DEF Next

\* For the timings of every header, controller and chips wait the same number of
\* clocks for read and for write data, whatever the width of the divisions.
THEOREM TimingsAgree == Spec => []LatenciesAgree
  <1>1. Init => Encoded BY DEF Init, Encoded
  <1>2. Encoded => LatenciesAgree
    <2> SUFFICES ASSUME Encoded, call.fn = "encode", pc = "done" PROVE LatenciesAgree
      BY DEF LatenciesAgree
    <2>1. call \in Encodings
      <3>1. \A c \in Divisions : c.fn = "divide" BY DEF Divisions
      <3>2. QED BY <3>1 DEF Encoded
    <2>2. call.timing \in Timings BY <2>1 DEF Encodings
    <2>3. result.controller = Latencies(call.timing) /\ result.chips = ModeRegisters(call.timing)
      BY DEF Encoded
    <2>4. QED BY <2>2, <2>3, EncodingsAgree DEF LatenciesAgree
  <1>3. QED BY <1>1, <1>2, EncodedStep, PTL DEF Spec
=============================================================================
