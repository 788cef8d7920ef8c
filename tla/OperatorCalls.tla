---------------------------- MODULE OperatorCalls ----------------------------
(***************************************************************************)
(* A caller of the operators of BasicOps, one call at a time, with the     *)
(* flags as the calls before left them.                                    *)
(***************************************************************************)
EXTENDS BasicOps

CONSTANTS OpFactors, OpLongs       \* arguments tried of operators of three

VARIABLE opCall                    \* the call just made: its name, its
                                   \* arguments, the flags before, the value
opVars == <<Overflow, Carry, opCall>>

NoCall == [op |-> "none"]
flags == [overflow |-> Overflow, carry |-> Carry]

Shorts == [a : Word16, b : Word16]
Shifted == [a : Word16, n : -OpBits - 1 .. OpBits + 1]
LongShifted == [x : Word32, n : -2 * OpBits - 1 .. 2 * OpBits + 1]
Pairs == [x : OpLongs, y : OpLongs]
Products == [x : OpLongs, a : OpFactors, b : OpFactors]

Calls(op, f) ==      \* the calls of an operator, and what each gives
  CASE op = "add" -> {<<c, add(c.a, c.b, f)>> : c \in Shorts}
    [] op = "sub" -> {<<c, sub(c.a, c.b, f)>> : c \in Shorts}
    [] op = "mult" -> {<<c, mult(c.a, c.b, f)>> : c \in Shorts}
    [] op = "mult_r" -> {<<c, mult_r(c.a, c.b, f)>> : c \in Shorts}
    [] op = "L_mult" -> {<<c, L_mult(c.a, c.b, f)>> : c \in Shorts}
    [] op = "abs_s" -> {<<c, Keeping(abs_s(c.a), f)>> : c \in [a : Word16]}
    [] op = "negate" -> {<<c, Keeping(negate(c.a), f)>> : c \in [a : Word16]}
    [] op = "norm_s" -> {<<c, Keeping(norm_s(c.a), f)>> : c \in [a : Word16]}
    [] op = "div_s" -> {<<c, Keeping(div_s(c.a, c.b), f)>> : c \in {d \in Shorts : Divisible(d.a, d.b)}}
    [] op = "shl" -> {<<c, shl(c.a, c.n, f)>> : c \in Shifted}
    [] op = "shr" -> {<<c, shr(c.a, c.n, f)>> : c \in Shifted}
    [] op = "shr_r" -> {<<c, shr_r(c.a, c.n, f)>> : c \in Shifted}
    [] op = "L_shl" -> {<<c, L_shl(c.x, c.n, f)>> : c \in LongShifted}
    [] op = "L_shr" -> {<<c, L_shr(c.x, c.n, f)>> : c \in LongShifted}
    [] op = "L_shr_r" -> {<<c, L_shr_r(c.x, c.n, f)>> : c \in LongShifted}
    [] op = "round" -> {<<c, round(c.x, f)>> : c \in [x : Word32]}
    [] op = "norm_l" -> {<<c, Keeping(norm_l(c.x), f)>> : c \in [x : Word32]}
    [] op = "L_negate" -> {<<c, Keeping(L_negate(c.x), f)>> : c \in [x : Word32]}
    [] op = "L_abs" -> {<<c, Keeping(L_abs(c.x), f)>> : c \in [x : Word32]}
    [] op = "L_sat" -> {<<c, L_sat(c.x, f)>> : c \in [x : Word32]}
    [] op = "L_Comp" -> {<<c, LET d == L_Extract(c.x, f) IN L_Comp(d.hi, d.lo, d)>> : c \in [x : Word32]}
    [] op = "L_add" -> {<<c, L_add(c.x, c.y, f)>> : c \in Pairs}
    [] op = "L_sub" -> {<<c, L_sub(c.x, c.y, f)>> : c \in Pairs}
    [] op = "L_add_c" -> {<<c, L_add_c(c.x, c.y, f)>> : c \in Pairs}
    [] op = "L_sub_c" -> {<<c, L_sub_c(c.x, c.y, f)>> : c \in Pairs}
    [] op = "Mpy_32" -> {<<c, LET d == L_Extract(c.x, f)
                                  e == L_Extract(c.y, d)
                              IN  Mpy_32(d.hi, d.lo, e.hi, e.lo, e)>> : c \in Pairs}
    [] op = "L_mac" -> {<<c, L_mac(c.x, c.a, c.b, f)>> : c \in Products}
    [] op = "L_msu" -> {<<c, L_msu(c.x, c.a, c.b, f)>> : c \in Products}
    [] op = "mac_r" -> {<<c, mac_r(c.x, c.a, c.b, f)>> : c \in Products}
    [] op = "msu_r" -> {<<c, msu_r(c.x, c.a, c.b, f)>> : c \in Products}
    [] op = "L_macNs" -> {<<c, L_macNs(c.x, c.a, c.b, f)>> : c \in Products}
    [] op = "L_msuNs" -> {<<c, L_msuNs(c.x, c.a, c.b, f)>> : c \in Products}

Operators == {"add", "sub", "mult", "mult_r", "L_mult", "abs_s", "negate", "norm_s", "div_s", "shl",
  "shr", "shr_r", "L_shl", "L_shr", "L_shr_r", "round", "norm_l", "L_negate", "L_abs", "L_sat",
  "L_Comp", "L_add", "L_sub", "L_add_c", "L_sub_c", "Mpy_32", "L_mac", "L_msu", "mac_r",
  "msu_r", "L_macNs", "L_msuNs"}

OpInit == Overflow = 0 /\ Carry = 0 /\ opCall = NoCall
OpCalled ==
  /\ opCall = NoCall
  /\ \E op \in Operators : \E c \in Calls(op, flags) :
       /\ opCall' = [op |-> op, args |-> c[1], before |-> flags, value |-> c[2].value]
       /\ Overflow' = c[2].overflow /\ Carry' = c[2].carry
OpReturns == opCall # NoCall /\ opCall' = NoCall /\ UNCHANGED <<Overflow, Carry>>
OpNext == OpCalled \/ OpReturns
OpSpec == OpInit /\ [][OpNext]_opVars

-----------------------------------------------------------------------------
(* The value a call should give, of the unbounded integers; a number that   *)
(* does not fit is cut off where the operator ends.                         *)
Exact(op, c) ==
  CASE op = "add" -> c.a + c.b
    [] op = "sub" -> c.a - c.b
    [] op = "mult" -> By(c.a * c.b, 1 - OpBits)
    [] op = "mult_r" -> By(c.a * c.b + 2 ^ (OpBits - 2), 1 - OpBits)
    [] op = "abs_s" -> IF c.a < 0 THEN -c.a ELSE c.a
    [] op = "negate" -> -c.a
    [] op = "div_s" -> (c.a * 2 ^ (OpBits - 1)) \div c.b
    [] op = "shl" -> By(c.a, c.n)
    [] op = "shr" -> By(c.a, -c.n)
    [] op = "shr_r" -> IF c.n > 0 THEN By(c.a + 2 ^ (c.n - 1), -c.n) ELSE By(c.a, -c.n)
    [] op = "L_mult" -> 2 * c.a * c.b
    [] op = "L_shl" -> By(c.x, c.n)
    [] op = "L_shr" -> By(c.x, -c.n)
    [] op = "L_shr_r" -> IF c.n > 0 THEN By(c.x + 2 ^ (c.n - 1), -c.n) ELSE By(c.x, -c.n)
    [] op = "L_add" -> c.x + c.y
    [] op = "L_sub" -> c.x - c.y
    [] op = "L_mac" -> c.x + Clip32(2 * c.a * c.b)
    [] op = "L_msu" -> c.x - Clip32(2 * c.a * c.b)
    [] op = "L_negate" -> -c.x
    [] op = "L_abs" -> IF c.x < 0 THEN -c.x ELSE c.x
    [] op = "L_Comp" -> c.x - (c.x % 2)

Cut16 == {"add", "sub", "mult", "mult_r", "abs_s", "negate", "div_s", "shl", "shr", "shr_r"}
Cut32 == {"L_mult", "L_shl", "L_shr", "L_shr_r", "L_add", "L_sub", "L_mac", "L_msu", "L_negate",
          "L_abs", "L_Comp"}
ClearsOverflow == {"add", "sub", "mult", "mult_r"}
RaisesOverflow == {"shl", "shr", "shr_r", "L_mult", "L_shl", "L_shr", "L_shr_r", "L_add", "L_sub",
                   "L_mac", "L_msu"}
CutOff(op, c) ==
  \/ op \in Cut16 /\ Exact(op, c) # Clip16(Exact(op, c))
  \/ op \in Cut32 /\ Exact(op, c) # Clip32(Exact(op, c))
  \/ op \in {"L_mac", "L_msu"} /\ c.a * c.b * 2 > MAX_32

(* BASIC_OP.C:126-1954, OPER_32B.C:51-126: every operator gives the exact    *)
(* value cut off to its width, at every pair of operands and every count, the *)
(* negative ones included.                                                   *)
ValuesRight ==
  opCall # NoCall =>
    LET op == opCall.op
        c == opCall.args
        v == opCall.value
        half == 2 ^ (OpBits - 1)
    IN  /\ op \in Cut16 => v = Clip16(Exact(op, c))
        /\ op \in Cut32 => v = Clip32(Exact(op, c))
        /\ op = "round" => v = By(Clip32(c.x + half), -OpBits)
        /\ op = "mac_r" => v = By(Clip32(Clip32(Exact("L_mac", c)) + half), -OpBits)
        /\ op = "msu_r" => v = By(Clip32(Clip32(Exact("L_msu", c)) + half), -OpBits)
        /\ op = "L_add_c" => v = Cast32(c.x + c.y + opCall.before.carry)
        /\ op = "L_sub_c" => v = Cast32(c.x - c.y - 1 + opCall.before.carry)
        /\ op = "L_macNs" => v = Cast32(c.x + Clip32(2 * c.a * c.b) + opCall.before.carry)
        /\ op = "norm_s" /\ c.a \notin {0, -1} => Magnitude(c.a) * 2 ^ v \in 2 ^ (OpBits - 2) .. MAX_16
        /\ op = "norm_l" /\ c.x \notin {0, -1} =>
             Magnitude(c.x) * 2 ^ v \in 2 ^ (2 * OpBits - 2) .. MAX_32
        /\ op = "Mpy_32" =>
             v - By(Exact("L_Comp", c) * Exact("L_Comp", [x |-> c.y]), 1 - 2 * OpBits) \in -4 .. 0

(* The codec looks at Overflow after a series of calls (LPC.C:54, PITCH_A.C:  *)
(* 68, 405, DEC_LD8A.C:259): an operator on Word32 raises it when it cuts off  *)
(* and never lowers it, the operators on Word16 lower it when they do not.     *)
OverflowTells ==
  opCall # NoCall =>
    LET op == opCall.op
    IN  /\ op \in ClearsOverflow => (Overflow = 1) = CutOff(op, opCall.args)
        /\ op \in RaisesOverflow =>
             (Overflow = 1) = (opCall.before.overflow = 1 \/ CutOff(op, opCall.args))
OperatorsRight == ValuesRight /\ OverflowTells
=============================================================================
