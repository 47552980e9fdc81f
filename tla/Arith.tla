-------------------------------- MODULE Arith --------------------------------
(***************************************************************************)
(* Two computations the rest of BL1 takes for granted: the shift and       *)
(* subtract division of the AArch32 build (lib2ndboot.c), which has no     *)
(* divide instruction, one loop iteration per step on words of Width bits; *)
(* and the DDR3 timings of the NSIH as init_DDR3 gives them to the         *)
(* controller and, through the mode registers, to the chips.               *)
(***************************************************************************)
EXTENDS Integers

CONSTANT Width           \* 32 in the code

ASSUME WidthAssumption == Width \in Nat \ {0, 1}

VARIABLES
  call,        \* what is being computed, and from what
  regs,        \* the variables of the division
  pc,
  result

vars == <<call, regs, pc, result>>

Word == 0..2^Width - 1
AllOnes == 2^Width - 1
Wrap(n) == n % 2^Width
TopBit(n) == n \div 2^(Width - 1)

\* A header's timings (raptor-sd-64.txt: CL 11, CWL 8, no AL).
Timings == [CL : 5..13, CWL : 5..9, AL : 0..2, ODS : 0..1, RTT : 0..5]

Divisions == [fn : {"divide"}, dividend : Word, divisor : Word]
Encodings == [fn : {"encode"}, timing : Timings]

Init ==
  /\ call \in Divisions \cup Encodings
  /\ regs = [dividend |-> 0, d |-> 0, remainder |-> 0, quotient |-> 0, num_bits |-> 0]
  /\ pc = "start"
  /\ result = <<>>

-----------------------------------------------------------------------------
(* getquotient and getremainder, which differ in what they return only     *)

Return(q, r) == pc' = "done" /\ result' = [quotient |-> q, remainder |-> r]

StartDivision ==
  /\ pc = "start" /\ call.fn = "divide"
  /\ LET a == call.dividend  b == call.divisor
     IN \/ b = 0 /\ Return(AllOnes, AllOnes) /\ UNCHANGED regs
        \/ b # 0 /\ b > a /\ Return(0, a) /\ UNCHANGED regs
        \/ b # 0 /\ b = a /\ Return(1, 0) /\ UNCHANGED regs
        \/ /\ b # 0 /\ b < a
           /\ regs' = [regs EXCEPT !.dividend = a, !.num_bits = Width]
           /\ pc' = "skip" /\ UNCHANGED result
  /\ UNCHANGED call

\* while (remainder < divisor), with its last iteration taken back at the end.
SkipBits ==
  /\ pc = "skip" /\ regs.remainder < call.divisor
  /\ regs' = [regs EXCEPT !.remainder = Wrap(2 * @) + TopBit(regs.dividend),
                          !.d = regs.dividend,
                          !.dividend = Wrap(2 * @),
                          !.num_bits = @ - 1]
  /\ UNCHANGED <<call, pc, result>>

\* Mutant: the bit count of the last iteration is not taken back with it.
MutTakeBack ==
  /\ pc = "skip" /\ regs.remainder >= call.divisor
  /\ regs' = [regs EXCEPT !.dividend = regs.d, !.remainder = @ \div 2]
  /\ pc' = "divide"
  /\ UNCHANGED <<call, result>>

TakeBack ==
  /\ pc = "skip" /\ regs.remainder >= call.divisor
  /\ regs' = [regs EXCEPT !.dividend = regs.d, !.remainder = @ \div 2, !.num_bits = @ + 1]
  /\ pc' = "divide"
  /\ UNCHANGED <<call, result>>

\* The sign of the difference says whether the divisor goes in.
DivideBit ==
  /\ pc = "divide" /\ regs.num_bits > 0
  /\ LET remainder == Wrap(2 * regs.remainder) + TopBit(regs.dividend)
         t == Wrap(remainder - call.divisor)
         q == 1 - TopBit(t)
     IN regs' = [regs EXCEPT !.remainder = IF q = 1 THEN t ELSE remainder,
                             !.quotient = Wrap(2 * @) + q,
                             !.dividend = Wrap(2 * @),
                             !.num_bits = @ - 1]
  /\ UNCHANGED <<call, pc, result>>

EndDivision ==
  /\ pc = "divide" /\ regs.num_bits = 0
  /\ Return(regs.quotient, regs.remainder)
  /\ UNCHANGED <<call, regs>>

-----------------------------------------------------------------------------
(* The timings, as init_DDR3 encodes them                                  *)

\* Assignment of a word to a bit-field of one bit.
OneBit(n) == n % 2
\* n & (1 << k)
Masked(n, k) == ((n \div 2^k) % 2) * 2^k

\* What goes to the controller.
Latencies(t) ==
  LET DDR_AL == IF t.AL > 0 THEN t.CL - t.AL ELSE 0
  IN [WL |-> DDR_AL + t.CWL, RL |-> DDR_AL + t.CL]

\* Mutant: the long latencies begin one later.
MutCasCode(t) == IF t.CL > 12 THEN 2 * (t.CL - 12) + 1 ELSE 2 * (t.CL - 4)

\* The latency code of MR0: four bits, the lowest of them CL0, the others CL1.
CasCode(t) == IF t.CL > 11 THEN 2 * (t.CL - 12) + 1 ELSE 2 * (t.CL - 4)

ModeRegisters(t) ==
  [CL0 |-> CasCode(t) % 2, CL1 |-> (CasCode(t) \div 2) % 8,
   CWL |-> (t.CWL - 5) % 8, AL |-> t.AL % 4,
   ODS1 |-> OneBit(Masked(t.ODS, 1)), ODS0 |-> OneBit(Masked(t.ODS, 0)),
   RTT_Nom2 |-> OneBit(Masked(t.RTT, 2)), RTT_Nom1 |-> OneBit(Masked(t.RTT, 1)),
   RTT_Nom0 |-> OneBit(Masked(t.RTT, 0))]

Encode ==
  /\ pc = "start" /\ call.fn = "encode"
  /\ result' = [controller |-> Latencies(call.timing), chips |-> ModeRegisters(call.timing)]
  /\ pc' = "done"
  /\ UNCHANGED <<call, regs>>

Next == StartDivision \/ SkipBits \/ TakeBack \/ DivideBit \/ EndDivision \/ Encode

Spec == Init /\ [][Next]_vars
FairSpec == Spec /\ WF_vars(Next)

-----------------------------------------------------------------------------
(* The chips' side: the tables of ddr3_sdram.h                             *)

CasLatency ==
  [code \in {1, 2, 3, 4, 6, 8, 10, 12, 14} |->
     CASE code = 2 -> 5 [] code = 4 -> 6 [] code = 6 -> 7 [] code = 8 -> 8 [] code = 10 -> 9
       [] code = 12 -> 10 [] code = 14 -> 11 [] code = 1 -> 12 [] code = 3 -> 13]

-----------------------------------------------------------------------------
(* Properties                                                              *)

\* A division ends, with the quotient and the remainder of its arguments, over
\* the whole range of a word: divisors with the top bit set, where the sign of
\* the difference is not its order, included.
DivisionExact ==
  call.fn = "divide" /\ call.divisor # 0 ~>
    /\ pc = "done" /\ call.fn = "divide"
    /\ call.dividend = result.quotient * call.divisor + result.remainder
    /\ result.remainder < call.divisor

\* Controller and chips wait the same number of clocks for read and for write
\* data, over every header: the two halves of init_DDR3 compute them apart.
LatenciesAgree ==
  call.fn = "encode" /\ pc = "done" =>
    LET c == result.chips
        CL == CasLatency[2 * c.CL1 + c.CL0]
        AL == IF c.AL = 0 THEN 0 ELSE CL - c.AL
    IN /\ 2 * c.CL1 + c.CL0 \in DOMAIN CasLatency
       /\ result.controller = [RL |-> AL + CL, WL |-> AL + c.CWL + 5]

\* The chips get the termination and the drive strength that the header asks for
\* (raptor-sd-64.txt:96).
TerminationAsAsked ==
  call.fn = "encode" /\ pc = "done" =>
    LET c == result.chips
    IN /\ 4 * c.RTT_Nom2 + 2 * c.RTT_Nom1 + c.RTT_Nom0 = call.timing.RTT
       /\ 2 * c.ODS1 + c.ODS0 = call.timing.ODS
=============================================================================
