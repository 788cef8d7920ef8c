------------------------------- MODULE Adders -------------------------------
(***************************************************************************)
(* The combinational circuits of the third assignment: the conditional-sum *)
(* adder cond_sum.v, the carry look-ahead adder ClaA.v, the carry-select   *)
(* adder CSAdder.v, the sixteen-bit adder mix16bitaddr.v made of them, and *)
(* the six-bit array multiplier multplr.v with partialprdct.v.  A wire is  *)
(* 0 or 1, a bus a function of its bit numbers; the circuits are operators *)
(* and a behaviour presents one input.                                     *)
(***************************************************************************)
EXTENDS Integers, Sequences, TLC

CONSTANTS Small,     \* inputs of the four-bit adders
          Wide,      \* inputs of the adders of eight and sixteen bits
          Factors    \* inputs of the multiplier

xor(a, b) == (a + b) % 2
and(a, b) == a * b
or(a, b) == IF a + b > 0 THEN 1 ELSE 0

bit(n, k) == (n \div 2 ^ k) % 2
bus(n, w) == [k \in 0 .. w - 1 |-> bit(n, k)]
slice(b, lo, hi) == [k \in 0 .. hi - lo |-> b[lo + k]]
ValueOf(b) ==   \* the number on a bus
  LET upTo[k \in -1 .. 15] == IF k = -1 THEN 0
                              ELSE upTo[k - 1] + (IF k \in DOMAIN b THEN b[k] * 2 ^ k ELSE 0)
  IN upTo[15]
Joined(lowBus, highBus, w) ==
  [k \in 0 .. w - 1 |-> IF k \in DOMAIN lowBus THEN lowBus[k]
                        ELSE highBus[k - (CHOOSE n \in 1 .. w - 1 : DOMAIN lowBus = 0 .. n - 1)]]

(* cond_sum.v: each cell makes carry and sum for both carries in; two levels  *)
(* of multiplexers choose.                                                    *)
cond_cell(x, y) == [c0 |-> and(x, y), s0 |-> xor(x, y), c1 |-> or(x, y), s1 |-> 1 - xor(x, y)]

cond_sum(X, Y, Cin) ==
  LET cell == [k \in 0 .. 3 |-> cond_cell(X[k], Y[k])]
      Pick(k, c) == IF c = 1 THEN <<cell[k].c1, cell[k].s1>> ELSE <<cell[k].c0, cell[k].s0>>
      Low(c) == LET first == Pick(0, c)            \* bits 1 and 0, carry 2
                    second == Pick(1, first[1])
                IN <<second[1], second[2], first[2]>>
      High(c) == LET third == Pick(2, c)
                     fourth == Pick(3, third[1])
                 IN <<fourth[1], fourth[2], third[2]>>
      low == Low(Cin)
      high == High(low[1])
  IN [sum |-> (0 :> low[3]) @@ (1 :> low[2]) @@ (2 :> high[3]) @@ (3 :> high[2]),
      carry |-> high[1]]

(* Mutant: the term of the carry in is left out of the third carry. *)
ClaAShortCarry(A, B, Cin) ==
  LET p == [k \in 0 .. 3 |-> xor(A[k], B[k])]
      g == [k \in 0 .. 3 |-> and(A[k], B[k])]
      c1 == or(g[0], and(p[0], Cin))
      c2 == or(g[1], or(p[1] * g[0], p[1] * p[0] * Cin))
      c3 == or(g[2], or(p[2] * g[1], p[2] * p[1] * g[0]))
      c4 == or(g[3], or(p[3] * g[2], or(p[3] * p[2] * g[1], or(p[3] * p[2] * p[1] * g[0],
                                        p[3] * p[2] * p[1] * p[0] * Cin))))
      c == (0 :> Cin) @@ (1 :> c1) @@ (2 :> c2) @@ (3 :> c3)
  IN [sum |-> [k \in 0 .. 3 |-> xor(p[k], c[k])], carry |-> c4]

ClaA(A, B, Cin) ==
  LET p == [k \in 0 .. 3 |-> xor(A[k], B[k])]
      g == [k \in 0 .. 3 |-> and(A[k], B[k])]
      c1 == or(g[0], and(p[0], Cin))
      c2 == or(g[1], or(p[1] * g[0], p[1] * p[0] * Cin))
      c3 == or(g[2], or(p[2] * g[1], or(p[2] * p[1] * g[0], p[2] * p[1] * p[0] * Cin)))
      c4 == or(g[3], or(p[3] * g[2], or(p[3] * p[2] * g[1], or(p[3] * p[2] * p[1] * g[0],
                                        p[3] * p[2] * p[1] * p[0] * Cin))))
      c == (0 :> Cin) @@ (1 :> c1) @@ (2 :> c2) @@ (3 :> c3)
  IN [sum |-> [k \in 0 .. 3 |-> xor(p[k], c[k])], carry |-> c4]

(* Mutant: the upper half is chosen by the carry into the lower one. *)
CSAdderEarly(A, B, Cin) ==
  LET Half4(lo) == ValueOf(slice(A, lo, lo + 3)) + ValueOf(slice(B, lo, lo + 3)) + Cin
  IN [sum |-> Joined(bus(Half4(0) % 16, 4), bus(Half4(4) % 16, 4), 8), carry |-> Half4(4) \div 16]

(* CSAdder.v: both halves are added for both carries in. *)
CSAdder(A, B, Cin) ==
  LET Half4(lo, c) == ValueOf(slice(A, lo, lo + 3)) + ValueOf(slice(B, lo, lo + 3)) + c
      low == Half4(0, Cin)
      C_intr == low \div 16
      high == Half4(4, C_intr)
  IN [sum |-> Joined(bus(low % 16, 4), bus(high % 16, 4), 8), carry |-> high \div 16]

mix16bitaddr(A, B, Cin) ==
  LET first == cond_sum(slice(A, 0, 3), slice(B, 0, 3), Cin)
      second == ClaA(slice(A, 4, 7), slice(B, 4, 7), first.carry)
      third == CSAdder(slice(A, 8, 15), slice(B, 8, 15), second.carry)
  IN [sum |-> Joined(Joined(first.sum, second.sum, 8), third.sum, 16), carry |-> third.carry]

-----------------------------------------------------------------------------
(* multplr.v: the rows of partial products are added in four layers of half   *)
(* and full adders, <<sum, carry>> each, and a final ripple of carries.       *)
hf(a, b) == <<xor(a, b), and(a, b)>>
fu(a, b, c) == <<xor(xor(a, b), c), or(and(xor(a, b), c), and(a, b))>>

partialprdct(A, B) == [r \in 1 .. 6 |-> [k \in 0 .. 5 |-> and(A[k], B[r - 1])]]

Tree(X, Y, FullAdder(_, _, _)) ==
  LET p == partialprdct(X, Y)
      h1 == hf(p[1][1], p[2][0])
      f1 == FullAdder(p[1][2], p[2][1], p[3][0])
      f2 == FullAdder(p[1][3], p[2][2], p[3][1])
      f3 == FullAdder(p[1][4], p[2][3], p[3][2])
      f4 == FullAdder(p[1][5], p[2][4], p[3][3])
      h2 == hf(p[2][5], p[3][4])
      k1 == hf(p[4][1], p[5][0])
      g1 == FullAdder(p[4][2], p[5][1], p[6][0])
      g2 == FullAdder(p[4][3], p[5][2], p[6][1])
      g3 == FullAdder(p[4][4], p[5][3], p[6][2])
      g4 == FullAdder(p[4][5], p[5][4], p[6][3])
      k2 == hf(p[5][5], p[6][4])
      l1 == hf(h1[2], f1[1])
      m1 == FullAdder(f1[2], f2[1], p[4][0])
      m2 == FullAdder(f2[2], k1[1], f3[1])
      m3 == FullAdder(f3[2], g1[1], f4[1])
      m4 == FullAdder(f4[2], g2[1], h2[1])
      m5 == FullAdder(h2[2], g3[1], p[3][5])
      n1 == hf(l1[2], m1[1])
      n2 == hf(m1[2], m2[1])
      q1 == FullAdder(m2[2], k1[2], m3[1])
      q2 == FullAdder(m3[2], g1[2], m4[1])
      q3 == FullAdder(m4[2], g2[2], m5[1])
      n3 == hf(m5[2], g4[1])
      n4 == hf(g4[2], k2[1])
      n5 == hf(k2[2], p[6][5])
      r4 == hf(n1[2], n2[1])
      r5 == FullAdder(r4[2], n2[2], q1[1])
      r6 == FullAdder(r5[2], q1[2], q2[1])
      r7 == FullAdder(r6[2], q2[2], q3[1])
      r8 == FullAdder(r7[2], q3[2], n3[1])
      r9 == FullAdder(r8[2], n3[2], n4[1])
      r10 == FullAdder(r9[2], n4[2], n5[1])
      r11 == hf(r10[2], n5[2])
  IN <<p[1][0], h1[1], l1[1], n1[1], r4[1], r5[1], r6[1], r7[1], r8[1], r9[1], r10[1], r11[1]>>

(* Mutant: full adders whose carry misses the two given bits. *)
fuShort(a, b, c) == <<xor(xor(a, b), c), and(xor(a, b), c)>>
multplrShort(X, Y) == [k \in 0 .. 11 |-> Tree(X, Y, fuShort)[k + 1]]

multplr(X, Y) == [k \in 0 .. 11 |-> Tree(X, Y, fu)[k + 1]]

-----------------------------------------------------------------------------
VARIABLE input
NoInput == [to |-> "nothing"]

AddersInit == input = NoInput
AddersNext ==
  /\ input = NoInput
  /\ \/ input' \in [to : {"small"}, a : Small, b : Small, c : {0, 1}]
     \/ input' \in [to : {"wide"}, a : Wide, b : Wide, c : {0, 1}]
     \/ input' \in [to : {"mult"}, a : Factors, b : Factors]

AddersSpec == AddersInit /\ [][AddersNext]_input

Result(r, w) == ValueOf(r.sum) + r.carry * 2 ^ w
Adds(r, w) == Result(r, w) = input.a + input.b + input.c

(* cond_sum.v:21-52, ClaA.v:21-34: the two four-bit adders add, for every     *)
(* input.                                                                     *)
FourBitsAdd ==
  input.to = "small" =>
    /\ Adds(cond_sum(bus(input.a, 4), bus(input.b, 4), input.c), 4)
    /\ Adds(ClaA(bus(input.a, 4), bus(input.b, 4), input.c), 4)

(* mix16bitaddr.v:21-30: the three adders in a row add sixteen bits, whatever *)
(* the carries between them.                                                  *)
SixteenBitsAdd ==
  input.to = "wide" => Adds(mix16bitaddr(bus(input.a, 16), bus(input.b, 16), input.c), 16)

(* Qustn3/testbnch.v:19-23: the array multiplies.  It does not: the carry of  *)
(* fuladdr(p4[4], p5[3], p6[2]), multplr.v:56, is used nowhere.               *)
SixBitsMultiply ==
  input.to = "mult" => ValueOf(multplr(bus(input.a, 6), bus(input.b, 6))) = input.a * input.b

(* multplr.v:21-116: the array multiplies for every six-bit input, but for    *)
(* the one carry that is dropped: where it arises 2^8 is missing, and nowhere *)
(* else.                                                                      *)
MultipliesButForOneCarry ==
  input.to = "mult" =>
    LET p == partialprdct(bus(input.a, 6), bus(input.b, 6))
        lost == fu(p[4][4], p[5][3], p[6][2])[2]
    IN ValueOf(multplr(bus(input.a, 6), bus(input.b, 6))) = input.a * input.b - 256 * lost

(* All the adders and the multiplier of the assignment, but for that carry.  *)
ArithmeticRight == FourBitsAdd /\ SixteenBitsAdd /\ MultipliesButForOneCarry
=============================================================================
