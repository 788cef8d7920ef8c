------------------------------ MODULE BasicOps ------------------------------
(***************************************************************************)
(* BASIC_OP.C and OPER_32B.C: the saturating operators all of the G.729A   *)
(* codec is written with, and its double precision format.  Word16 has     *)
(* OpBits bits here and Word32 twice as many; every constant of the code   *)
(* is the corresponding one for that width.  Two global flags are read and *)
(* written by the operators: add(), sub(), mult() and mult_r() set and     *)
(* clear Overflow, the L_ operators only set it, and the operators with a  *)
(* carry do as they please.                                                *)
(***************************************************************************)
EXTENDS Integers, FiniteSets

CONSTANT OpBits                    \* bits of a Word16
ASSUME OpAssumption == OpBits \in Nat /\ OpBits > 2

MAX_16 == 2 ^ (OpBits - 1) - 1
MIN_16 == -(2 ^ (OpBits - 1))
MAX_32 == 2 ^ (2 * OpBits - 1) - 1
MIN_32 == -(2 ^ (2 * OpBits - 1))
Word16 == MIN_16 .. MAX_16
Word32 == MIN_32 .. MAX_32

(* Two's complement: the value an integer is stored as.                    *)
Wrapped(n, w) == ((n + 2 ^ (w - 1)) % 2 ^ w) - 2 ^ (w - 1)
Cast16(n) == Wrapped(n, OpBits)
Cast32(n) == Wrapped(n, 2 * OpBits)
BitSet(n, k) == (n \div 2 ^ k) % 2 = 1

VARIABLES Overflow, Carry          \* the flags

(* An operator gives its value and the flags it leaves.                    *)
Returns(v, ov, cy) == [value |-> v, overflow |-> ov, carry |-> cy]
Keeping(v, f) == Returns(v, f.overflow, f.carry)          \* no flag touched
Setting(v, over, f) == Returns(v, IF over THEN 1 ELSE f.overflow, f.carry)

(* The member of a set of one: a value computed once and used in many places. *)
Only(S) == CHOOSE v \in S : TRUE

extract_l(L) == Cast16(L)
extract_h(L) == L \div 2 ^ OpBits
L_deposit_h(v) == v * 2 ^ OpBits
L_deposit_l(v) == v

sature(L, f) ==
  IF L > MAX_16 THEN Returns(MAX_16, 1, f.carry)
  ELSE IF L < MIN_16 THEN Returns(MIN_16, 1, f.carry)
  ELSE Returns(extract_l(L), 0, f.carry)

add(a, b, f) == sature(a + b, f)
sub(a, b, f) == sature(a - b, f)
abs_s(a) == IF a = MIN_16 THEN MAX_16 ELSE IF a < 0 THEN -a ELSE a
negate(a) == IF a = MIN_16 THEN MAX_16 ELSE -a

(* shl() and shr() call each other for negative counts, with the count     *)
(* negated in sixteen bits.                                                *)
ShiftedDown(a, n) ==
  IF n >= OpBits - 1 THEN (IF a < 0 THEN -1 ELSE 0) ELSE a \div 2 ^ n
ShiftedUp(a, n, f) ==
  LET product == Cast32(a * 2 ^ n)
  IN  IF (n > OpBits - 1 /\ a # 0) \/ product # Cast16(product)
      THEN Returns(IF a > 0 THEN MAX_16 ELSE MIN_16, 1, f.carry)
      ELSE Keeping(extract_l(product), f)
shl(a, n, f) == IF n < 0 THEN Keeping(ShiftedDown(a, -n), f) ELSE ShiftedUp(a, n, f)
shr(a, n, f) == IF n < 0 THEN ShiftedUp(a, -n, f) ELSE Keeping(ShiftedDown(a, n), f)
shr_r(a, n, f) ==
  IF n > OpBits - 1 THEN Keeping(0, f)
  ELSE LET down == shr(a, n, f)
       IN  IF n > 0 /\ BitSet(a, n - 1) THEN [down EXCEPT !.value = Cast16(@ + 1)] ELSE down

(* The masking, the arithmetic shift and the sign extension.               *)
Fraction(product) == product \div 2 ^ (OpBits - 1)
mult(a, b, f) == sature(Fraction(a * b), f)
mult_r(a, b, f) == sature(Fraction(a * b + 2 ^ (OpBits - 2)), f)

(* Mutant: the one product that does not fit is doubled like the others.   *)
L_multUnchecked(a, b, f) == Keeping(Cast32(a * b * 2), f)
L_mult(a, b, f) ==
  IF a * b = 2 ^ (2 * OpBits - 2) THEN Returns(MAX_32, 1, f.carry) ELSE Keeping(a * b * 2, f)

(* The sum in Word32; only terms of the same sign can overflow.            *)
SameSign(x, y) == (x < 0) = (y < 0)
Saturated(sum, x, over, f) ==
  IF over THEN Returns(IF x < 0 THEN MIN_32 ELSE MAX_32, 1, f.carry) ELSE Keeping(sum, f)
L_add(x, y, f) ==
  Saturated(Cast32(x + y), x, SameSign(x, y) /\ ~SameSign(Cast32(x + y), x), f)
L_sub(x, y, f) ==
  Saturated(Cast32(x - y), x, ~SameSign(x, y) /\ ~SameSign(Cast32(x - y), x), f)
L_negate(x) == IF x = MIN_32 THEN MAX_32 ELSE -x
L_abs(x) == IF x = MIN_32 THEN MAX_32 ELSE IF x < 0 THEN -x ELSE x

L_mac(x, a, b, f) == LET p == L_mult(a, b, f) IN L_add(x, p.value, p)
L_msu(x, a, b, f) == LET p == L_mult(a, b, f) IN L_sub(x, p.value, p)
round(x, f) == LET s == L_add(x, 2 ^ (OpBits - 1), f) IN [s EXCEPT !.value = extract_h(@)]
mac_r(x, a, b, f) == LET m == L_mac(x, a, b, f) IN round(m.value, m)
msu_r(x, a, b, f) == LET m == L_msu(x, a, b, f) IN round(m.value, m)

(* Each doubling is checked before it is made.                             *)
LongDown(x, n) == IF n >= 2 * OpBits - 1 THEN (IF x < 0 THEN -1 ELSE 0) ELSE x \div 2 ^ n
LongUp(x, n, f) ==
  LET Up[k \in 0 .. n] ==      \* k doublings; "over" stops the loop
        IF k = 0 THEN [value |-> x, over |-> FALSE]
        ELSE LET before == Up[k - 1]
             IN  IF before.over THEN before
                 ELSE IF before.value > 2 ^ (2 * OpBits - 2) - 1
                      THEN [value |-> MAX_32, over |-> TRUE]
                 ELSE IF before.value < -(2 ^ (2 * OpBits - 2))
                      THEN [value |-> MIN_32, over |-> TRUE]
                 ELSE [value |-> before.value * 2, over |-> FALSE]
  IN  Setting(Up[n].value, Up[n].over, f)
L_shl(x, n, f) == IF n <= 0 THEN Keeping(LongDown(x, -n), f) ELSE LongUp(x, n, f)
L_shr(x, n, f) == IF n < 0 THEN LongUp(x, -n, f) ELSE Keeping(LongDown(x, n), f)
L_shr_r(x, n, f) ==
  IF n > 2 * OpBits - 1 THEN Keeping(0, f)
  ELSE LET down == L_shr(x, n, f)
       IN  IF n > 0 /\ BitSet(x, n - 1) THEN [down EXCEPT !.value = Cast32(@ + 1)] ELSE down

(* The operators with a carry, which nothing in the codec calls.           *)
L_add_c(x, y, f) ==
  LET test == Cast32(x + y)
      sum == Cast32(x + y + f.carry)
      case == IF x > 0 /\ y > 0 /\ test < 0 THEN <<1, 0>>
              ELSE IF x < 0 /\ y < 0 /\ test > 0 THEN <<1, 1>>
              ELSE IF ~SameSign(x, y) /\ test > 0 THEN <<0, 1>> ELSE <<0, 0>>
  IN  IF f.carry = 1 /\ test = MAX_32 THEN Returns(sum, 1, case[2])
      ELSE IF f.carry = 1 /\ test = -1 THEN Returns(sum, case[1], 1)
      ELSE Returns(sum, case[1], case[2])
L_sub_c(x, y, f) ==
  IF f.carry = 1
  THEN IF y # MIN_32 THEN L_add_c(x, -y, [f EXCEPT !.carry = 0])
       ELSE Returns(Cast32(x - y), IF x > 0 THEN 1 ELSE f.overflow, 0)
  ELSE LET test == Cast32(x - y)
           case == IF test < 0 /\ x > 0 /\ y < 0 THEN <<1, 0>>
                   ELSE IF test > 0 /\ x < 0 /\ y > 0 THEN <<1, 1>>
                   ELSE IF test > 0 /\ SameSign(x, y) /\ x # y THEN <<0, 1>>
                   ELSE <<f.overflow, 0>>
       IN  Returns(Cast32(x - y - 1), IF test = MIN_32 THEN 1 ELSE case[1], case[2])
L_macNs(x, a, b, f) == LET p == L_mult(a, b, f) IN L_add_c(x, p.value, p)
L_msuNs(x, a, b, f) == LET p == L_mult(a, b, f) IN L_sub_c(x, p.value, p)
L_sat(x, f) ==
  IF f.overflow = 1 THEN Returns(IF f.carry = 1 THEN MIN_32 ELSE MAX_32, 0, 0) ELSE Keeping(x, f)

(* The left shifts that normalise a number, one at a time as in the code.   *)
Shifts(x, top) == CHOOSE n \in 0 .. 2 * OpBits : x * 2 ^ n >= top /\ (n > 0 => x * 2 ^ (n - 1) < top)
Magnitude(x) == IF x < 0 THEN -x - 1 ELSE x       \* ~x of a negative number
norm_s(a) ==
  IF a = 0 THEN 0 ELSE IF a = -1 THEN OpBits - 1 ELSE Shifts(Magnitude(a), 2 ^ (OpBits - 2))
norm_l(x) ==
  IF x = 0 THEN 0
  ELSE IF x = -1 THEN 2 * OpBits - 1 ELSE Shifts(Magnitude(x), 2 ^ (2 * OpBits - 2))

(* One quotient bit at a time; the remainder never needs saturating.  The   *)
(* code exits unless 0 <= a <= b and b # 0.                                 *)
Divisible(a, b) == 0 <= a /\ a <= b /\ b # 0
div_s(a, b) ==
  LET Step[k \in 0 .. OpBits - 1] ==
        IF k = 0 THEN [quotient |-> 0, num |-> a]
        ELSE LET num == Step[k - 1].num * 2
             IN  IF num >= b THEN [quotient |-> Step[k - 1].quotient * 2 + 1, num |-> num - b]
                 ELSE [quotient |-> Step[k - 1].quotient * 2, num |-> num]
  IN  IF a = 0 THEN 0 ELSE IF a = b THEN MAX_16 ELSE Step[OpBits - 1].quotient

(* OPER_32B.C: a Word32 as two Word16, hi of weight 2^OpBits and lo of      *)
(* weight 2; the last bit is dropped.                                       *)
L_Extract(x, f) ==
  LET hi == extract_h(x)
      rest == L_msu(LongDown(x, 1), hi, 2 ^ (OpBits - 2), f)
  IN  [hi |-> hi, lo |-> extract_l(rest.value), overflow |-> rest.overflow, carry |-> rest.carry]
L_Comp(hi, lo, f) == L_mac(L_deposit_h(hi), lo, 1, f)
Mpy_32(hi1, lo1, hi2, lo2, f) ==
  LET high == L_mult(hi1, hi2, f)
      m1 == mult(hi1, lo2, high)
      sum1 == L_mac(high.value, m1.value, 1, m1)
      m2 == mult(lo1, hi2, sum1)
  IN  L_mac(sum1.value, m2.value, 1, m2)
Mpy_32_16(hi, lo, n, f) ==
  LET high == L_mult(hi, n, f)
      m == mult(lo, n, high)
  IN  L_mac(high.value, m.value, 1, m)

-----------------------------------------------------------------------------
(* What the operators should compute with, in unbounded integers.           *)
Clip16(n) == IF n > MAX_16 THEN MAX_16 ELSE IF n < MIN_16 THEN MIN_16 ELSE n
Clip32(n) == IF n > MAX_32 THEN MAX_32 ELSE IF n < MIN_32 THEN MIN_32 ELSE n
By(n, k) == IF k >= 0 THEN n * 2 ^ k ELSE n \div 2 ^ (-k)     \* times 2^k, rounded down
=============================================================================
