---------------------------- MODULE StateMachines ----------------------------
(***************************************************************************)
(* The two state machines of Assignment 4.  One action is one rising edge  *)
(* of the clock.                                                           *)
(*                                                                         *)
(* sqncdetct.v, a detector, is a Mealy machine with five states; the       *)
(* inputs since the last reset are kept beside it to say what was detected. *)
(*                                                                         *)
(* fsm_mulplier.v, a shift-and-add multiplier, at a width of MulBits: the  *)
(* upper half of b_reg collects the sum, the lower half holds what is left *)
(* of b.  In the last step the multiplicand is subtracted, for b is signed. *)
(* The wire a is not latched.                                              *)
(***************************************************************************)
EXTENDS Integers, Sequences

CONSTANT MaxBits   \* bound: inputs between resets
ASSUME DetectorAssumption == MaxBits \in Nat

VARIABLES stat_reg, inputs
detVars == <<stat_reg, inputs>>

DetInit == stat_reg = "s0" /\ inputs = << >>

(* Mutant: a one in the middle of the pattern starts it anew. *)
next_reg_eager(s, in) ==
  CASE s = "s0" -> IF in = 1 THEN "s1" ELSE "s0"
    [] s = "s1" -> IF in = 1 THEN "s1" ELSE "s2"
    [] s = "s2" -> IF in = 1 THEN "s4" ELSE "s1"
    [] s = "s3" -> IF in = 1 THEN "s4" ELSE "s0"
    [] s = "s4" -> IF in = 1 THEN "s1" ELSE "s0"

next_reg(s, in) ==
  CASE s = "s0" -> IF in = 1 THEN "s1" ELSE "s0"
    [] s = "s1" -> IF in = 1 THEN "s1" ELSE "s2"
    [] s = "s2" -> IF in = 1 THEN "s3" ELSE "s1"
    [] s = "s3" -> IF in = 1 THEN "s4" ELSE "s0"
    [] s = "s4" -> IF in = 1 THEN "s1" ELSE "s0"

detctd(in) == in = 1 /\ stat_reg = "s4"

DetClock(in) ==
  /\ Len(inputs) < MaxBits
  /\ stat_reg' = next_reg(stat_reg, in)
  /\ inputs' = Append(inputs, in)

DetReset == stat_reg' = "s0" /\ inputs' = << >>

DetNext == (\E in \in {0, 1} : DetClock(in)) \/ DetReset
DetSpec == DetInit /\ [][DetNext]_detVars

Ends(s, pattern) == /\ Len(s) >= Len(pattern)
                    /\ SubSeq(s, Len(s) - Len(pattern) + 1, Len(s)) = pattern

(* sqncdetct.v:37-57: what is detected ends in 0111, with a one somewhere     *)
(* before.  It need not be 10111: the state s2 goes to s1 on a zero, so       *)
(* 1000111 is taken as well.                                                  *)
DetectionsEndIn0111 ==
  detctd(1) => /\ Ends(inputs, <<0, 1, 1>>)
               /\ \E k \in 1 .. Len(inputs) - 3 : inputs[k] = 1

(* sqncdetct.v:37-57, testbnch.v:58-84: 10111 is detected when it comes first *)
(* after the reset and leading zeros, and when it follows on a detection.     *)
BenchIsDetected ==
  \A k \in 0 .. Len(inputs) :
    /\ inputs = [j \in 1 .. k |-> 0] \o <<1, 0, 1, 1>> => detctd(1)
    /\ inputs = [j \in 1 .. k |-> 0] \o <<1, 0, 1, 1, 1, 0, 1, 1>> => detctd(1)

(* What is detected, and what must be.                                       *)
DetectorRight == DetectionsEndIn0111 /\ BenchIsDetected

-----------------------------------------------------------------------------
(* The multiplier *)
CONSTANT MulBits
ASSUME MultiplierAssumption == MulBits \in Nat /\ MulBits >= 2

R == 2 ^ MulBits          \* half of the register
Half == 0 .. R - 1
SignedOf(x, n) == IF x >= n \div 2 THEN x - n ELSE x

VARIABLES mstate, count_reg, upper, lower,  \* stat_reg, b_reg
          in_a,                             \* the wire a
          operands                          \* the operands of the product under way
mulVars == <<mstate, count_reg, upper, lower, in_a, operands>>

MulInit ==
  /\ mstate = "s0" /\ count_reg = 0 /\ upper = 0 /\ lower = 0
  /\ in_a \in Half /\ operands = <<0, 0>>

MulStart(b) ==
  /\ mstate = "s0" /\ mstate' = "s1"
  /\ count_reg' = 0 /\ upper' = 0 /\ lower' = b
  /\ operands' = <<in_a, b>>
  /\ UNCHANGED in_a

Idle(a) == mstate = "s0" /\ in_a' = a /\ count_reg' = 0
           /\ UNCHANGED <<mstate, upper, lower, operands>>

(* One bit of b: add or subtract within the upper half, then shift right     *)
(* with the sign.                                                            *)
LastBit == count_reg = MulBits - 1

Sum8 == CASE lower % 2 = 0 -> upper
          [] lower % 2 = 1 /\ LastBit -> (upper - in_a) % R
          [] lower % 2 = 1 /\ ~LastBit -> (upper + in_a) % R

(* Mutant: the shift fills with zeros. *)
StepUnsigned ==
  /\ mstate = "s1"
  /\ upper' = Sum8 \div 2
  /\ lower' = (Sum8 % 2) * (R \div 2) + lower \div 2
  /\ count_reg' = (count_reg + 1) % MulBits
  /\ mstate' = IF LastBit THEN "s3" ELSE "s1"
  /\ UNCHANGED <<in_a, operands>>

Step8 ==
  /\ mstate = "s1"
  /\ upper' = Sum8 \div 2 + (IF Sum8 >= R \div 2 THEN R \div 2 ELSE 0)
  /\ lower' = (Sum8 % 2) * (R \div 2) + lower \div 2
  /\ count_reg' = (count_reg + 1) % MulBits
  /\ mstate' = IF LastBit THEN "s3" ELSE "s1"
  /\ UNCHANGED <<in_a, operands>>

Done == mstate = "s3" /\ mstate' = "s0" /\ UNCHANGED <<count_reg, upper, lower, in_a, operands>>

MulReset == /\ mstate' = "s0" /\ count_reg' = 0 /\ upper' = 0 /\ lower' = 0
            /\ UNCHANGED <<in_a, operands>>

MulNext == (\E x \in Half : MulStart(x) \/ Idle(x)) \/ Step8 \/ Done \/ MulReset
MulSpec == MulInit /\ [][MulNext]_mulVars

out_en == mstate = "s3"
prdct == SignedOf(upper * R + lower, R * R)

(* fsm_mulplier.v:46-86: with a held on the wire and small enough that the    *)
(* partial sums fit (at most a quarter of the range), the register holds the  *)
(* signed product when out_en is raised.  Beyond that a carry is lost: the    *)
(* sum of a and a partial sum of almost a does not fit into eight bits.       *)
ProductRight ==
  out_en /\ SignedOf(operands[1], R) \in - (R \div 4) .. R \div 4 =>
    prdct = SignedOf(operands[1], R) * SignedOf(operands[2], R)

(* fsm_mulplier.v:63-76: the partial products stay exact from bit to bit: the *)
(* register holds a times the bits of b seen so far, above those still left.  *)
PartialExact ==
  mstate = "s1" /\ SignedOf(operands[1], R) \in - (R \div 4) .. R \div 4 =>
    LET k == count_reg
        rest == lower % 2 ^ (MulBits - k)
    IN /\ rest = operands[2] \div 2 ^ k
       /\ SignedOf(upper, R) * 2 ^ k + lower \div 2 ^ (MulBits - k)
            = SignedOf(operands[1], R) * (operands[2] % 2 ^ k)

(* The product and every partial product on the way to it.                   *)
MultiplierRight == ProductRight /\ PartialExact
=============================================================================
