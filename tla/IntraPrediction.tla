--------------------------- MODULE IntraPrediction ---------------------------
(***************************************************************************)
(* The samples of an intra macroblock (predict.c, macroblock.c) are predicted *)
(* from those around it.  The 4x4 blocks are coded quarter by quarter, each     *)
(* from blocks decoded before, but this decoder does them row by row, with a    *)
(* rule of its own for the samples above to the right: it must come to the       *)
(* samples that the sender has.                                              *)
(***************************************************************************)
EXTENDS Integers, Sequences, FiniteSetsExt

CONSTANT IntraJobs
(* A macroblock: [kind, modes, has, intra, constrained, around, residual]: luma by   *)
(* blocks, luma as a whole or chroma; the modes; which of the macroblocks A, B, C   *)
(* and D are there and which are intra; the sample at each place around; what the   *)
(* residual adds to each block.                                             *)

VARIABLES iJob, iBlk, plane
intraVars == <<iJob, iBlk, plane>>

-----------------------------------------------------------------------------
Clip255(v) == IF v < 0 THEN 0 ELSE IF v > 255 THEN 255 ELSE v
Two(a, b) == (a + b + 1) \div 2
Three(a, b, c) == (a + 2 * b + c + 2) \div 4
SumUp(n, v(_)) == FoldSet(LAMBDA k, sum : sum + v(k), 0, 0 .. n - 1)
Side == CASE iJob.kind = "8x8" -> 8 [] iJob.kind # "8x8" -> 16
Used(m) == iJob.has[m] /\ (~iJob.constrained \/ iJob.intra[m])

(* What is added to the prediction of block k at x, y of it.                   *)
Residual(k, x, y) == IF iJob.residual[k] = 0 THEN 0 ELSE iJob.residual[k] + 9 * x - 5 * y
Put(p, i, j, k, rows) ==
  [q \in DOMAIN p |-> LET x == q[1] - 4 * i
                          y == q[2] - 4 * j
                      IN  IF x \in 0 .. 3 /\ y \in 0 .. 3 THEN Clip255(rows[y + 1][x + 1] + Residual(k, x, y))
                          ELSE p[q]]

-----------------------------------------------------------------------------
(* The sender: the blocks in their order, and the samples that it may use.      *)
Index(i, j) == 8 * (j \div 2) + 4 * (i \div 2) + 2 * (j % 2) + (i % 2)
RightAbove(i, j) ==
  IF j = 0 THEN (IF i = 3 THEN Used("C") ELSE Used("B")) ELSE i < 3 /\ Index(i + 1, j - 1) < Index(i, j)
(* The modes it may choose at a block: the samples they take must be there.     *)
Legal(mode, i, j) ==
  /\ mode \in {1, 4, 5, 6, 8} => i > 0 \/ Used("A")
  /\ mode \in {0, 3, 4, 5, 6, 7} => j > 0 \/ Used("B")
  /\ mode \in {4, 5, 6} /\ i = 0 /\ j = 0 => Used("D")
ModeOf(k) == IF Legal(iJob.modes[k], k % 4, k \div 4) THEN iJob.modes[k] ELSE 2
(* The prediction by the directions: e counts the samples from the corner, up to   *)
(* the right of it and down to the left of it.                               *)
Reference(mode, p, i, j, x, y) ==
  LET e(d) == IF d > 0 THEN p[<<4 * i + d - 1, 4 * j - 1>>]
              ELSE IF d < 0 THEN p[<<4 * i - 1, 4 * j - d - 1>>] ELSE p[<<4 * i - 1, 4 * j - 1>>]
      top(d) == IF d > 3 /\ ~RightAbove(i, j) THEN e(4) ELSE e(d + 1)
      left(d) == IF d > 3 THEN e(-4) ELSE e(-d - 1)
      Curve(d) == Three(e(d - 1), e(d), e(d + 1))
      hasTop == j > 0 \/ Used("B")
      hasLeft == i > 0 \/ Used("A")
      Steep(s, d, far) ==           \* 2x - y along the top, 2y - x along the left, with s = 1 and -1
        IF far < -1 THEN Curve(s * (far + 1))
        ELSE IF far = -1 THEN Curve(0)
        ELSE IF far % 2 = 0 THEN Two(e(s * d), e(s * (d + 1))) ELSE Curve(s * d)
  IN  CASE mode = 0 -> e(x + 1)
        [] mode = 1 -> e(-y - 1)
        [] mode = 2 -> (IF hasTop /\ hasLeft THEN (SumUp(4, top) + SumUp(4, left) + 4) \div 8
                        ELSE IF hasLeft THEN (SumUp(4, left) + 2) \div 4
                        ELSE IF hasTop THEN (SumUp(4, top) + 2) \div 4 ELSE 128)
        [] mode = 3 -> (IF x + y = 6 THEN Three(top(6), top(7), top(7)) ELSE Three(top(x + y), top(x + y + 1), top(x + y + 2)))
        [] mode = 4 -> Curve(x - y)
        [] mode = 5 -> Steep(1, x - (y \div 2), 2 * x - y)
        [] mode = 6 -> Steep(-1, y - (x \div 2), 2 * y - x)
        [] mode = 7 -> (IF y % 2 = 0 THEN Two(top(x + (y \div 2)), top(x + (y \div 2) + 1))
                        ELSE Three(top(x + (y \div 2)), top(x + (y \div 2) + 1), top(x + (y \div 2) + 2)))
        [] mode = 8 -> (IF x % 2 = 0 THEN Two(left(y + (x \div 2)), left(y + (x \div 2) + 1))
                        ELSE Three(left(y + (x \div 2)), left(y + (x \div 2) + 1), left(y + (x \div 2) + 2)))
SenderBlocks ==
  LET Step[n \in 0 .. 16] ==
        IF n = 0 THEN iJob.around
        ELSE LET k == CHOOSE b \in 0 .. 15 : Index(b % 4, b \div 4) = n - 1
                 p == Step[n - 1]
             IN  Put(p, k % 4, k \div 4, k,
                     [y \in 1 .. 4 |-> [x \in 1 .. 4 |-> Reference(ModeOf(k), p, k % 4, k \div 4, x - 1, y - 1)]])
  IN  Step[16]

(* A whole macroblock: by its sides, or by a plane through them.  A quarter of the    *)
(* chroma has a mean of its own, out of the sides next to it when it has a choice.  *)
WholeModes == IF iJob.kind = "16x16" THEN <<"v", "h", "dc", "p">> ELSE <<"dc", "h", "v", "p">>
WholeLegal(mode) ==
  /\ mode \in {"h", "p"} => Used("A")
  /\ mode \in {"v", "p"} => Used("B")
  /\ mode = "p" => Used("D")
WholeMode == LET mode == WholeModes[iJob.modes[0] + 1] IN IF WholeLegal(mode) THEN mode ELSE "dc"
SenderWhole(x, y) ==
  LET Top(k) == iJob.around[<<k, -1>>]
      Left(k) == iJob.around[<<-1, k>>]
      n == IF Side = 16 THEN 16 ELSE 4
      X == IF Side = 16 THEN 0 ELSE 4 * (x \div 4)
      Y == IF Side = 16 THEN 0 ELSE 4 * (y \div 4)
      up == SumUp(n, LAMBDA k : Top(X + k))
      left == SumUp(n, LAMBDA k : Left(Y + k))
      Slope(S(_)) == SumUp(Side \div 2, LAMBDA k : (k + 1) * (S((Side \div 2) + k) - S((Side \div 2) - 2 - k)))
      Gradient(S(_)) == IF Side = 16 THEN (5 * Slope(S) + 32) \div 64 ELSE (34 * Slope(S) + 32) \div 64
      last == Side - 1
      mean == IF Used("A") /\ Used("B") /\ X = Y THEN (up + left + n) \div (2 * n)
              ELSE IF Used("B") /\ (X > 0 \/ ~Used("A")) THEN (up + (n \div 2)) \div n
              ELSE IF Used("A") THEN (left + (n \div 2)) \div n ELSE 128
  IN  CASE WholeMode = "h" -> Left(y)
        [] WholeMode = "v" -> Top(x)
        [] WholeMode = "p" -> Clip255((16 * (Top(last) + Left(last)) + Gradient(Top) * (x - (Side \div 2) + 1)
                                         + Gradient(Left) * (y - (Side \div 2) + 1) + 16) \div 32)
        [] WholeMode = "dc" -> mean

-----------------------------------------------------------------------------
(* The decoder.  The samples above to the right are those of the row above, or      *)
(* the last one above repeated.                                              *)
(* Mutant: the blocks of odd rows and columns do with what is there by now.       *)
EmulateAtEdge(i, j) == (i = 3 /\ j > 0) \/ (~Used("C") /\ i = 3)
Emulate(i, j) == (i % 2 = 1 /\ j % 2 = 1) \/ (i = 3 /\ j > 1) \/ (~Used("C") /\ i = 3)
predict_4x4(mode, p, i, j) ==
  LET t == [k \in 0 .. 7 |-> IF k > 3 /\ Emulate(i, j) THEN p[<<4 * i + 3, 4 * j - 1>>] ELSE p[<<4 * i + k, 4 * j - 1>>]]
      l == [k \in 0 .. 3 |-> p[<<4 * i - 1, 4 * j + k>>]]
      lt == p[<<4 * i - 1, 4 * j - 1>>]
      up == t[0] + t[1] + t[2] + t[3]
      side == l[0] + l[1] + l[2] + l[3]
      top == j # 0 \/ Used("B")
      left == i # 0 \/ Used("A")
      dc == CASE top /\ left -> (side + up + 4) \div 8
              [] left /\ ~top -> (side + 2) \div 4
              [] top /\ ~left -> (up + 2) \div 4
              [] ~top /\ ~left -> 128
      T(a, b, c) == Three(t[a], t[b], t[c])
      TT(a) == Two(t[a], t[a + 1])
      L(a, b, c) == Three(l[a], l[b], l[c])
      LL(a) == Two(l[a], l[a + 1])
      corner == Three(t[0], lt, l[0])
      up1 == Three(lt, t[0], t[1])
      down1 == Three(lt, l[0], l[1])
  IN  CASE mode = 0 -> [y \in 1 .. 4 |-> <<t[0], t[1], t[2], t[3]>>]
        [] mode = 1 -> [y \in 1 .. 4 |-> [x \in 1 .. 4 |-> l[y - 1]]]
        [] mode = 2 -> [y \in 1 .. 4 |-> [x \in 1 .. 4 |-> dc]]
        [] mode = 3 -> <<<<T(0, 1, 2), T(1, 2, 3), T(2, 3, 4), T(3, 4, 5)>>,
                         <<T(1, 2, 3), T(2, 3, 4), T(3, 4, 5), T(4, 5, 6)>>,
                         <<T(2, 3, 4), T(3, 4, 5), T(4, 5, 6), T(5, 6, 7)>>,
                         <<T(3, 4, 5), T(4, 5, 6), T(5, 6, 7), (t[6] + 3 * t[7] + 2) \div 4>>>>
        [] mode = 4 -> <<<<corner, up1, T(0, 1, 2), T(1, 2, 3)>>,
                         <<down1, corner, up1, T(0, 1, 2)>>,
                         <<L(0, 1, 2), down1, corner, up1>>,
                         <<L(1, 2, 3), L(0, 1, 2), down1, corner>>>>
        [] mode = 5 -> <<<<Two(lt, t[0]), TT(0), TT(1), TT(2)>>,
                         <<corner, up1, T(0, 1, 2), T(1, 2, 3)>>,
                         <<down1, Two(lt, t[0]), TT(0), TT(1)>>,
                         <<L(0, 1, 2), corner, up1, T(0, 1, 2)>>>>
        [] mode = 6 -> <<<<Two(lt, l[0]), corner, up1, T(0, 1, 2)>>,
                         <<LL(0), down1, Two(lt, l[0]), corner>>,
                         <<LL(1), L(0, 1, 2), LL(0), down1>>,
                         <<LL(2), L(1, 2, 3), LL(1), L(0, 1, 2)>>>>
        [] mode = 7 -> <<<<TT(0), TT(1), TT(2), TT(3)>>,
                         <<T(0, 1, 2), T(1, 2, 3), T(2, 3, 4), T(3, 4, 5)>>,
                         <<TT(1), TT(2), TT(3), TT(4)>>,
                         <<T(1, 2, 3), T(2, 3, 4), T(3, 4, 5), T(4, 5, 6)>>>>
        [] mode = 8 -> <<<<LL(0), L(0, 1, 2), LL(1), L(1, 2, 3)>>,
                         <<LL(1), L(1, 2, 3), LL(2), L(2, 3, 3)>>,
                         <<LL(2), L(2, 3, 3), l[3], l[3]>>,
                         <<l[3], l[3], l[3], l[3]>>>>

(* The plane looks its sample up in a table of 512; past its ends is anything.     *)
PastTable == -1
allowed_pixel_value(v) == IF v + 128 \in 0 .. 511 THEN Clip255(v) ELSE PastTable
predict_plane(p, x, y) ==
  LET h == Side \div 2
      H == SumUp(h, LAMBDA i : (i + 1) * (p[<<h + i, -1>>] - p[<<h - 2 - i, -1>>]))
      V == SumUp(h, LAMBDA i : (i + 1) * (p[<<-1, h + i>>] - p[<<-1, h - 2 - i>>]))
      a == 16 * (p[<<-1, Side - 1>>] + p[<<Side - 1, -1>>])
      Slope(S) == IF Side = 16 THEN (5 * S + 32) \div 64 ELSE (17 * S + 16) \div 32
      i00 == a - Slope(H) * (h - 1) - Slope(V) * (h - 1) + 16
  IN  allowed_pixel_value((i00 + Slope(V) * y + Slope(H) * x) \div 32)
predict_16x16_dc(p) ==
  LET up == SumUp(16, LAMBDA k : p[<<k, -1>>])
      left == SumUp(16, LAMBDA k : p[<<-1, k>>])
  IN  CASE Used("A") /\ Used("B") -> (up + left + 16) \div 32
        [] Used("A") /\ ~Used("B") -> (left + 8) \div 16
        [] ~Used("A") /\ Used("B") -> (up + 8) \div 16
        [] ~Used("A") /\ ~Used("B") -> 128
(* The mean of each quarter of the chroma, row by row.                        *)
predict_8x8c_dc(p) ==
  LET s0 == SumUp(4, LAMBDA k : p[<<k, -1>>])
      s1 == SumUp(4, LAMBDA k : p[<<4 + k, -1>>])
      s2 == SumUp(4, LAMBDA k : p[<<-1, k>>])
      s3 == SumUp(4, LAMBDA k : p[<<-1, 4 + k>>])
      Of(s) == (s + 2) \div 4
  IN  CASE Used("A") /\ Used("B") -> <<(s0 + s2 + 4) \div 8, Of(s1), Of(s3), (s1 + s3 + 4) \div 8>>
        [] Used("A") /\ ~Used("B") -> <<Of(s2), Of(s2), Of(s3), Of(s3)>>
        [] ~Used("A") /\ Used("B") -> <<Of(s0), Of(s1), Of(s0), Of(s1)>>
        [] ~Used("A") /\ ~Used("B") -> <<128, 128, 128, 128>>

-----------------------------------------------------------------------------
IntraStart(job) == iJob = job /\ iBlk = 0 /\ plane = job.around
IntraInit == \E job \in IntraJobs : IntraStart(job)
(* decode_one_macroblock(): the blocks in rows, each with its residual at once.     *)
PredictBlock ==
  /\ iJob.kind = "4x4" /\ iBlk < 16
  /\ plane' = Put(plane, iBlk % 4, iBlk \div 4, iBlk, predict_4x4(ModeOf(iBlk), plane, iBlk % 4, iBlk \div 4))
  /\ iBlk' = iBlk + 1 /\ UNCHANGED iJob
PredictWhole ==
  /\ iJob.kind # "4x4" /\ iBlk = 0
  /\ plane' = [q \in DOMAIN plane |->
       IF q[1] \notin 0 .. Side - 1 \/ q[2] \notin 0 .. Side - 1 THEN plane[q]
       ELSE CASE WholeMode = "h" -> plane[<<-1, q[2]>>]
              [] WholeMode = "v" -> plane[<<q[1], -1>>]
              [] WholeMode = "p" -> predict_plane(plane, q[1], q[2])
              [] WholeMode = "dc" -> IF Side = 16 THEN predict_16x16_dc(plane)
                                     ELSE predict_8x8c_dc(plane)[2 * (q[2] \div 4) + (q[1] \div 4) + 1]]
  /\ iBlk' = 16 /\ UNCHANGED iJob
IntraNext == PredictBlock \/ PredictWhole
IntraSpec == IntraInit /\ [][IntraNext]_intraVars

-----------------------------------------------------------------------------
(* predict.c, macroblock.c:3795-3905: the samples predicted row by row are those     *)
(* of the sender, whatever is missing around, except where a plane leaves the        *)
(* table of samples.                                                       *)
IntraRight ==
  iBlk = 16 =>
    IF iJob.kind = "4x4" THEN plane = SenderBlocks
    ELSE \A x, y \in 0 .. Side - 1 : plane[<<x, y>>] \in {SenderWhole(x, y), PastTable}
=============================================================================
