--------------------------- MODULE Reconstruction ---------------------------
(***************************************************************************)
(* The samples of an inter macroblock (mc.c, macroblock.c) are taken from     *)
(* pictures decoded before, at fractions of a sample and beyond their sides,   *)
(* for which a picture is given a margin when it is complete (image.c); then    *)
(* the residual, scaled and transformed back, is added to the prediction.      *)
(* Whatever way the decoder computes them, the samples must be the sender's,    *)
(* or the error is carried on from picture to picture.                       *)
(***************************************************************************)
EXTENDS IntraPrediction, SequencesExt

CONSTANTS ReferencePictures,               \* the reference pictures, [luma, chroma]; U and V are alike
          PADD_SIZE_LUMA,      \* the margin, twice that of the chroma
          InterJobs,           \* kind "inter": [type, cut, subs, motion, mb_x, mb_y]
          ResidualJobs         \* kinds "luma", "whole", "chroma": [qp, dc, ac, pred]
ASSUME PaddingAssumption == PADD_SIZE_LUMA % 2 = 0
(* Motion is [ref, x, y] of each part; dc the levels of the DC block and ac those    *)
(* of each block, in the order of the scan; pred is what they are added to.       *)

VARIABLES rJob,
          samples              \* what was decoded: <<luma, chroma>>, or the blocks of a residual
sampleVars == <<rJob, samples>>

-----------------------------------------------------------------------------
(* The motion of a block, by the part that it lies in.                        *)
PartAt(m, x, y) ==
  LET q == 2 * (y \div 2) + (x \div 2)
  IN  CASE m.cut = "16x16" -> 1
        [] m.cut = "16x8" -> 1 + (y \div 2)
        [] m.cut = "8x16" -> 1 + (x \div 2)
        [] m.cut = "8x8" -> 1 + 4 * q + (CASE m.subs[q + 1] = "8x8" -> 0
                                           [] m.subs[q + 1] = "8x4" -> y % 2
                                           [] m.subs[q + 1] = "4x8" -> x % 2
                                           [] m.subs[q + 1] = "4x4" -> 2 * (y % 2) + (x % 2))
MotionOf(m, b) == m.motion[PartAt(m, b % 4, b \div 4)]

SixTap(t(_)) == t(-2) - 5 * t(-1) + 20 * t(0) + 20 * t(1) - 5 * t(2) + t(3)
Clip3(v, low, high) == IF v < low THEN low ELSE IF v > high THEN high ELSE v

-----------------------------------------------------------------------------
(* The sender counts in halves of a sample over a picture without an end: between   *)
(* samples lie the filtered ones, and a quarter is the mean of the two next to it.   *)
Bounded(p) == [at |-> p, right |-> Max({q[1] : q \in DOMAIN p}), bottom |-> Max({q[2] : q \in DOMAIN p})]
Endless == [r \in DOMAIN ReferencePictures |-> [luma |-> Bounded(ReferencePictures[r].luma), chroma |-> Bounded(ReferencePictures[r].chroma)]]
Full(p, x, y) == p.at[<<Clip3(x, 0, p.right), Clip3(y, 0, p.bottom)>>]
Half(p, u, v) ==
  LET x == u \div 2
      y == v \div 2
      Down(k) == SixTap(LAMBDA j : Full(p, x + k, y + j))
  IN  CASE u % 2 = 0 /\ v % 2 = 0 -> Full(p, x, y)
        [] u % 2 = 1 /\ v % 2 = 0 -> Clip255((SixTap(LAMBDA k : Full(p, x + k, y)) + 16) \div 32)
        [] u % 2 = 0 /\ v % 2 = 1 -> Clip255((Down(0) + 16) \div 32)
        [] u % 2 = 1 /\ v % 2 = 1 -> Clip255((SixTap(Down) + 512) \div 1024)
(* An odd quarter in both directions lies between a row's half and a column's.      *)
Quarter(p, X, Y) ==
  LET Near(c) == (c + 1 - ((c + 1) % 4)) \div 2
      u == X \div 2
      v == Y \div 2
  IN  CASE X % 2 = 0 /\ Y % 2 = 0 -> Half(p, u, v)
        [] X % 2 = 1 /\ Y % 2 = 0 -> Two(Half(p, u, v), Half(p, u + 1, v))
        [] X % 2 = 0 /\ Y % 2 = 1 -> Two(Half(p, u, v), Half(p, u, v + 1))
        [] X % 2 = 1 /\ Y % 2 = 1 ->
             Two(Half(p, 2 * (X \div 4) + 1, Near(Y)), Half(p, Near(X), 2 * (Y \div 4) + 1))
Eighth(p, X, Y) ==
  LET weight(k, c) == IF k = 0 THEN 8 - (c % 8) ELSE c % 8
      part(k, j) == weight(k, X) * weight(j, Y) * Full(p, (X \div 8) + k, (Y \div 8) + j)
  IN  (part(0, 0) + part(1, 0) + part(0, 1) + part(1, 1) + 32) \div 64
InterMeant(m) ==
  LET Of(x, y) == MotionOf(m, 4 * y + x)
      pic(x, y) == Endless[Of(x, y).ref + 1]
  IN  <<[q \in (0 .. 15) \X (0 .. 15) |->
           LET x == q[1] \div 4
               y == q[2] \div 4
           IN  Quarter(pic(x, y).luma, 4 * (16 * m.mb_x + q[1]) + Of(x, y).x, 4 * (16 * m.mb_y + q[2]) + Of(x, y).y)],
        [q \in (0 .. 7) \X (0 .. 7) |->
           LET x == q[1] \div 2
               y == q[2] \div 2
           IN  Eighth(pic(x, y).chroma, 8 * (8 * m.mb_x + q[1]) + Of(x, y).x, 8 * (8 * m.mb_y + q[2]) + Of(x, y).y)]>>

-----------------------------------------------------------------------------
(* padd_image(): the ends of each row are repeated, then the outer rows as they     *)
(* are by then.                                                            *)
padd_image(p, pad) ==
  LET w == Max({q[1] : q \in DOMAIN p}) + 1
      h == Max({q[2] : q \in DOMAIN p}) + 1
      rows == [q \in (-pad .. w + pad - 1) \X (0 .. h - 1) |->
                 IF q[1] < 0 THEN p[<<0, q[2]>>] ELSE IF q[1] >= w THEN p[<<w - 1, q[2]>>] ELSE p[q]]
  IN  [q \in (-pad .. w + pad - 1) \X (-pad .. h + pad - 1) |->
         IF q[2] < 0 THEN rows[<<q[1], 0>>] ELSE IF q[2] >= h THEN rows[<<q[1], h - 1>>] ELSE rows[q]]
Padded == [r \in DOMAIN ReferencePictures |-> [luma |-> padd_image(ReferencePictures[r].luma, PADD_SIZE_LUMA),
                                    chroma |-> padd_image(ReferencePictures[r].chroma, PADD_SIZE_LUMA \div 2)]]

(* The table for filtered samples is made for one filter; two can lead past it.     *)
mc_clip1(v) == IF v \in -80 .. 335 THEN Clip255(v) ELSE PastTable
pixel_avg(a, b) == IF PastTable \in {a, b} THEN PastTable ELSE Two(a, b)
qpel_ref == <<-1, 0, -1, 0, 1, 2, 3, 2, -1, 4, -1, 5, 1, 2, 3, 2>>
(* mc_luma(): a sample at X, Y moved by mvx, mvy.                             *)
(* Mutant: the column to the right is never taken for the filter down.            *)
RightOfNone(mvx) == 0
RightOf(mvx) == IF mvx % 4 = 3 THEN 1 ELSE 0
mc_luma(p, X, Y, mvx, mvy) ==
  LET x == X + (mvx \div 4)
      y == Y + (mvy \div 4)
      y1 == y + (IF mvy % 4 = 3 THEN 1 ELSE 0)
      x2 == x + RightOf(mvx)
      Across(u, v) == SixTap(LAMBDA k : p[<<u + k, v>>])
      h(v) == mc_clip1((Across(x, v) + 16) \div 32)
      v(u) == mc_clip1((SixTap(LAMBDA k : p[<<u, y + k>>]) + 16) \div 32)
      hv(a, b) == mc_clip1((SixTap(LAMBDA k : Across(a, b + k)) + 512) \div 1024)
      idx == 4 * (mvy % 4) + (mvx % 4)
      pair == qpel_ref[idx + 1]
  IN  CASE idx = 0 -> p[<<x, y>>]
        [] idx = 2 -> h(y)
        [] idx = 8 -> v(x)
        [] idx = 10 -> hv(x, y)
        [] pair = 0 -> pixel_avg(h(y1), p[<<x2, y>>])
        [] pair = 1 -> pixel_avg(p[<<x, y1>>], v(x2))
        [] pair = 2 -> pixel_avg(h(y1), v(x2))
        [] pair = 3 -> pixel_avg(hv(x2, y), h(y1))
        [] pair \in {4, 5} -> pixel_avg(hv(x, y1), v(x2))
mc_chroma(p, X, Y, mvx, mvy) ==
  LET x == X + (mvx \div 8)
      y == Y + (mvy \div 8)
      d8x == mvx % 8
      d8y == mvy % 8
  IN  ((8 - d8x) * (8 - d8y) * p[<<x, y>>] + d8x * (8 - d8y) * p[<<x + 1, y>>]
       + (8 - d8x) * d8y * p[<<x, y + 1>>] + d8x * d8y * p[<<x + 1, y + 1>>] + 32) \div 64

(* mb_mc(): the rectangles of a macroblock, <<x, y, width, height>> in blocks.      *)
mb_mc_8x8(sub, x, y) ==
  CASE sub = "8x8" -> <<<<x, y, 2, 2>>>>
    [] sub = "8x4" -> <<<<x, y, 2, 1>>, <<x, y + 1, 2, 1>>>>
    [] sub = "4x8" -> <<<<x, y, 1, 2>>, <<x + 1, y, 1, 2>>>>
    [] sub = "4x4" -> <<<<x, y, 1, 1>>, <<x + 1, y, 1, 1>>, <<x, y + 1, 1, 1>>, <<x + 1, y + 1, 1, 1>>>>
mb_mc(m) ==
  CASE m.cut = "16x16" -> <<<<0, 0, 4, 4>>>>
    [] m.cut = "16x8" -> <<<<0, 0, 4, 2>>, <<0, 2, 4, 2>>>>
    [] m.cut = "8x16" -> <<<<0, 0, 2, 4>>, <<2, 0, 2, 4>>>>
    [] m.cut = "8x8" -> FlattenSeq([q \in 1 .. 4 |-> mb_mc_8x8(m.subs[q], 2 * ((q - 1) % 2), 2 * ((q - 1) \div 2))])
(* mb_mc_0xywh(), with the motion of the first block of the rectangle.            *)
RectangleOf(m, x, y) ==
  SelectSeq(mb_mc(m), LAMBDA r : x \in r[1] .. r[1] + r[3] - 1 /\ y \in r[2] .. r[2] + r[4] - 1)[1]
Moved(m) ==
  LET first(x, y) == MotionOf(m, 4 * RectangleOf(m, x, y)[2] + RectangleOf(m, x, y)[1])
      luma(q) == LET motion == first(q[1] \div 4, q[2] \div 4)
                 IN  mc_luma(Padded[motion.ref + 1].luma, 16 * m.mb_x + q[1], 16 * m.mb_y + q[2], motion.x, motion.y)
      chroma(q) == LET motion == first(q[1] \div 2, q[2] \div 2)
                   IN  mc_chroma(Padded[motion.ref + 1].chroma, 8 * m.mb_x + q[1], 8 * m.mb_y + q[2], motion.x, motion.y)
  IN  <<[q \in (0 .. 15) \X (0 .. 15) |-> luma(q)], [q \in (0 .. 7) \X (0 .. 7) |-> chroma(q)]>>
(* decode_macroblock_P_SKIP(): without motion, a copy of the first reference.       *)
Copied(m) ==
  <<[q \in (0 .. 15) \X (0 .. 15) |-> ReferencePictures[1].luma[<<16 * m.mb_x + q[1], 16 * m.mb_y + q[2]>>]],
    [q \in (0 .. 7) \X (0 .. 7) |-> ReferencePictures[1].chroma[<<8 * m.mb_x + q[1], 8 * m.mb_y + q[2]>>]]>>
PredictInter ==
  /\ rJob.kind = "inter" /\ samples = <<>>
  /\ samples' = (IF rJob.type = "P_SKIP_MV_0" THEN Copied(rJob) ELSE Moved(rJob))
  /\ UNCHANGED rJob

-----------------------------------------------------------------------------
Block == (0 .. 3) \X (0 .. 3)
Int16(v) == ((v + 32768) % 65536) - 32768
SNGL_SCAN_t ==
  <<<<0, 0>>, <<0, 1>>, <<1, 0>>, <<2, 0>>, <<1, 1>>, <<0, 2>>, <<0, 3>>, <<1, 2>>,
    <<2, 1>>, <<3, 0>>, <<3, 1>>, <<2, 2>>, <<1, 3>>, <<2, 3>>, <<3, 2>>, <<3, 3>>>>
Scanned(levels, i, j) == levels[CHOOSE k \in 1 .. 16 : SNGL_SCAN_t[k] = <<i, j>>]
Norms == <<<<10, 16, 13>>, <<11, 18, 14>>, <<13, 20, 16>>, <<14, 23, 18>>, <<16, 25, 20>>, <<18, 29, 23>>>>
Norm(qp, i, j) ==
  Norms[(qp % 6) + 1][CASE i % 2 = 0 /\ j % 2 = 0 -> 1 [] i % 2 = 1 /\ j % 2 = 1 -> 2 [] (i + j) % 2 = 1 -> 3]

(* The sender's residual: scaled by its norm and transformed along rows, then      *)
(* along columns; a block of DCs beforehand.                                  *)
Back4(a, b, c, d) ==
  <<a + c + b + (d \div 2), a - c + (b \div 2) - d, a - c - (b \div 2) + d, a + c - b - (d \div 2)>>
Sums(a, b, c, d) == <<a + b + c + d, a + b - c - d, a - b - c + d, a - b + c - d>>
TwoWays(f(_, _, _, _), at(_, _)) ==
  LET rows == [y \in 0 .. 3 |-> f(at(y, 0), at(y, 1), at(y, 2), at(y, 3))]
      cols == [x \in 1 .. 4 |-> f(rows[0][x], rows[1][x], rows[2][x], rows[3][x])]
  IN  [q \in Block |-> cols[q[2] + 1][q[1] + 1]]
Levels(levels) == [q \in Block |-> Scanned(levels, q[1], q[2])]
(* DCs stand for the first coefficients; without one the block has its own.        *)
BlockMeant(levels, hasDc, dc, qp, pred) ==
  LET c(y, x) == IF hasDc /\ y = 0 /\ x = 0 THEN dc ELSE Levels(levels)[<<y, x>>] * Norm(qp, y, x) * 2 ^ (qp \div 6)
      r == TwoWays(Back4, c)
  IN  [q \in Block |-> Clip255(pred + ((r[q] + 32) \div 64))]
ResidualMeant(job) ==
  LET scale == Norm(job.qp, 0, 0) * 2 ^ (job.qp \div 6)
      whole == TwoWays(Sums, LAMBDA y, x : Scanned(job.dc, y, x))
      d == job.dc
      quad == <<d[1] + d[2] + d[3] + d[4], d[1] - d[2] + d[3] - d[4], d[1] + d[2] - d[3] - d[4], d[1] - d[2] - d[3] + d[4]>>
      Dc(b) == CASE job.kind = "whole" -> (whole[<<b \div 4, b % 4>>] * scale + 2) \div 4
                 [] job.kind = "chroma" -> (quad[b + 1] * scale) \div 2
                 [] job.kind = "luma" -> 0
  IN  [b \in DOMAIN job.ac |-> BlockMeant(job.ac[b], job.kind # "luma", Dc(b), job.qp, job.pred)]

-----------------------------------------------------------------------------
(* readCBPandCoeffsFromNAL(): a coefficient is scaled and stored by column and row.    *)
Scale(v, qp, i, j, qbits) ==
  LET mf == 16 * Norm(qp, i, j)
  IN  Int16(IF qbits >= 0 THEN v * mf * 2 ^ qbits ELSE (v * mf + 2 ^ (-qbits - 1)) \div 2 ^ (-qbits))
cof_s(levels, qp, first) ==
  [q \in Block |-> IF q = <<0, 0>> /\ first > 0 THEN 0
                   ELSE Scale(Scanned(levels, q[2], q[1]), qp, q[2], q[1], (qp \div 6) - 4)]
(* idct4x4dc(), dequant_4x4_dc(): the DCs of a whole luma macroblock.            *)
Butterfly(a, b, c, d) == <<(a + b) + (c + d), (a + b) - (c + d), (a - b) - (c - d), (a - b) + (c - d)>>
dc_cof_luma(levels, qp) ==
  LET tmp == [i \in 0 .. 3 |-> Butterfly(Scanned(levels, i, 0), Scanned(levels, i, 1), Scanned(levels, i, 2),
                                         Scanned(levels, i, 3))]
      d == [i \in 0 .. 3 |-> Butterfly(tmp[0][i + 1], tmp[1][i + 1], tmp[2][i + 1], tmp[3][i + 1])]
  IN  [q \in Block |-> Scale(d[q[2]][q[1] + 1], qp, 0, 0, (qp \div 6) - 6)]
(* idct2x2dc(), dequant_2x2_dc(): the DCs of a chroma block, cut, not rounded; from    *)
(* quantizer 36 on they are shifted twice.                                    *)
dc_cof_chroma(d, qp) ==
  LET t == <<<<d[1] + d[2], d[3] + d[4]>>, <<d[1] - d[2], d[3] - d[4]>>>>
      f == <<t[1][1] + t[1][2], t[2][1] + t[2][2], t[1][1] - t[1][2], t[2][1] - t[2][2]>>
      qbits == (qp \div 6) - 5
      mf == 16 * Norm(qp, 0, 0)
  IN  [k \in 1 .. 4 |-> Int16(IF qbits >= 0 THEN f[k] * (mf * 2 ^ qbits) * 2 ^ qbits ELSE (f[k] * mf) \div 2 ^ (-qbits))]
(* add4x4_idct()                                                           *)
Step4(a, b, c, d) ==
  LET s02 == a + c
      d02 == a - c
      s13 == b + (d \div 2)
      d13 == (b \div 2) - d
  IN  <<s02 + s13, d02 + d13, d02 - d13, s02 - s13>>
add4x4_idct(dct, pred) ==
  LET tmp == [i \in 0 .. 3 |-> Step4(dct[<<0, i>>], dct[<<1, i>>], dct[<<2, i>>], dct[<<3, i>>])]
      out == [i \in 0 .. 3 |-> Step4(tmp[0][i + 1], tmp[1][i + 1], tmp[2][i + 1], tmp[3][i + 1])]
  IN  [q \in Block |-> allowed_pixel_value((Int16(out[q[2]][q[1] + 1]) + 64 * pred + 32) \div 64)]
Flat(pred) == [q \in Block |-> pred]
Some(levels) == \E k \in DOMAIN levels : levels[k] # 0
(* decode_macroblock_i16x16(), decode_macroblock_8x8_chroma(): the DCs take the      *)
(* first place of every block, but a block is transformed only if it must be.      *)
AddResidual ==
  /\ rJob.kind # "inter" /\ samples = <<>>
  /\ \E dcs \in {CASE rJob.kind = "whole" -> [b \in 0 .. 15 |-> dc_cof_luma(rJob.dc, rJob.qp)[<<b \div 4, b % 4>>]]
                   [] rJob.kind = "chroma" -> [b \in 0 .. 3 |-> dc_cof_chroma(rJob.dc, rJob.qp)[b + 1]]
                   [] rJob.kind = "luma" -> <<>>} :
       samples' = [b \in DOMAIN rJob.ac |->
         LET coefs == cof_s(rJob.ac[b], rJob.qp, IF rJob.kind = "luma" THEN 0 ELSE 1)
             cof == IF rJob.kind = "luma" THEN coefs ELSE [coefs EXCEPT ![<<0, 0>>] = dcs[b]]
         IN  IF Some(rJob.dc) \/ Some(rJob.ac[b]) THEN add4x4_idct(cof, rJob.pred) ELSE Flat(rJob.pred)]
  /\ UNCHANGED rJob

-----------------------------------------------------------------------------
SampleStart(job) == rJob = job /\ samples = <<>>
SampleInit == \E job \in InterJobs \cup ResidualJobs : SampleStart(job)
SampleNext == PredictInter \/ AddResidual
SampleSpec == SampleInit /\ [][SampleNext]_sampleVars

Like(have, meant) == \A q \in DOMAIN meant : have[q] \in {meant[q], PastTable}
(* mc.c, image.c:497-560, macroblock.c:2428-2795 and 2941-3765: the samples moved    *)
(* and the residual added are the sender's, except where a table of samples is       *)
(* left, for vectors that stay in the margin and chroma quantizers below 36.       *)
ReconstructionRight ==
  samples # <<>> =>
    IF rJob.kind = "inter" THEN \A k \in {1, 2} : Like(samples[k], InterMeant(rJob)[k])
    ELSE (rJob.kind = "chroma" => rJob.qp < 36) =>
           \A b \in DOMAIN rJob.ac : Like(samples[b], ResidualMeant(rJob)[b])
=============================================================================
