----------------------------- MODULE Deblocking -----------------------------
(***************************************************************************)
(* The loop filter (loopFilter.c) runs over a picture whose macroblocks are   *)
(* all decoded.  It passes over edges that cannot need it by rules of thumb   *)
(* on the macroblock's type, partition and coefficients, and must still       *)
(* filter, in the same order and with the same strength and quantizer, every   *)
(* edge that the sender filters; along an edge it must come to the sender's     *)
(* samples, since later pictures are predicted from them.                    *)
(***************************************************************************)
EXTENDS SliceDecoding, Reconstruction

CONSTANTS DecodedPictures,     \* kind "picture": a macroblock at each place, and the chroma offset
          SampledEdges             \* kind "edge": eight samples across on each line of an edge
(* A macroblock: [type, cut, subs, motion, coded, qp, slice, idc]: how it is cut and   *)
(* its quarters are, [ref, x, y] of each part, the blocks with coefficients, and     *)
(* LFDisableIdc of its slice.  An edge: [lines, bS, qp, chroma, alpha, beta].      *)

VARIABLES lfJob, lfMb,
          edges,               \* the edges of the last macroblock, in the order they were filtered
          pix                  \* the samples across the lines of an edge
filterVars == <<lfJob, lfMb, edges, pix>>

-----------------------------------------------------------------------------
Intra(m) == m.type \in {"I_4x4", "I_16x16"}
Far(u, v) == u - v >= 4 \/ v - u >= 4
Apart(a, b) == a.ref # b.ref \/ Far(a.x, b.x) \/ Far(a.y, b.y)
Close(u, v, limit) == u - v < limit /\ v - u < limit
EdgeOrder == [k \in 1 .. 8 |-> <<(k - 1) \div 4, (k - 1) % 4>>]

QP_SCALE_CR ==
  <<0, 1, 2, 3, 4, 5, 6, 7, 8, 9, 10, 11, 12, 13, 14, 15, 16, 17, 18, 19, 20, 21, 22, 23, 24, 25, 26, 27, 28, 29,
    29, 30, 31, 32, 32, 33, 34, 34, 35, 35, 36, 36, 37, 37, 37, 38, 38, 38, 39, 39, 39, 39>>
ChromaQp(qp) == QP_SCALE_CR[Clip3(qp + lfJob.offset, 0, 51) + 1]
(* The quantizers of an edge between two macroblocks, the chroma's on every other.  *)
Edge(dir, e, bS, a, b) ==
  [dir |-> dir, edge |-> e, bS |-> bS, qp |-> (a.qp + b.qp + 1) \div 2,
   qpc |-> IF e % 2 = 0 THEN (ChromaQp(a.qp) + ChromaQp(b.qp) + 1) \div 2 ELSE -1]

-----------------------------------------------------------------------------
(* The sender goes by the places of the blocks in the picture.                 *)
MbOver(p) == FrameWidthInMbs * (p[2] \div 4) + (p[1] \div 4)
BlkOver(p) == 4 * (p[2] % 4) + (p[1] % 4)
StrengthOver(p, q) ==
  LET a == lfJob.mbs[MbOver(p)]
      b == lfJob.mbs[MbOver(q)]
  IN  CASE Intra(a) \/ Intra(b) -> (IF MbOver(p) = MbOver(q) THEN 3 ELSE 4)
        [] ~Intra(a) /\ ~Intra(b) /\ (BlkOver(p) \in a.coded \/ BlkOver(q) \in b.coded) -> 2
        [] OTHER -> IF Apart(MotionOf(a, BlkOver(p)), MotionOf(b, BlkOver(q))) THEN 1 ELSE 0
Filters8(n, dir, e) ==
  LET m == lfJob.mbs[n]
      X == n % FrameWidthInMbs
      Y == n \div FrameWidthInMbs
      beside == IF e > 0 THEN n ELSE IF dir = 0 THEN n - 1 ELSE n - FrameWidthInMbs
      inside == e > 0 \/ (dir = 0 /\ X > 0) \/ (dir = 1 /\ Y > 0)
      may == inside /\ m.idc # 1 /\ (m.idc = 2 => lfJob.mbs[beside].slice = m.slice)
      bS == [i \in 1 .. 4 |-> IF dir = 0 THEN StrengthOver(<<4 * X + e - 1, 4 * Y + i - 1>>, <<4 * X + e, 4 * Y + i - 1>>)
                               ELSE StrengthOver(<<4 * X + i - 1, 4 * Y + e - 1>>, <<4 * X + i - 1, 4 * Y + e>>)]
  IN  IF may /\ bS # <<0, 0, 0, 0>> THEN <<Edge(dir, e, bS, m, lfJob.mbs[beside])>> ELSE <<>>
EdgesMeant(n) == FlattenSeq([k \in 1 .. 8 |-> Filters8(n, EdgeOrder[k][1], EdgeOrder[k][2])])

-----------------------------------------------------------------------------
(* What exit_macroblock() left in mb_data1.                                   *)
partition(m) == IF Intra(m) THEN "none" ELSE m.cut
num_sub_part(shape) == CASE shape = "8x8" -> 1 [] shape \in {"8x4", "4x8"} -> 2 [] shape = "4x4" -> 4
(* Mutant: every P macroblock is taken to have no small parts.                *)
NoSmallParts(m) == TRUE
NoMbPartLessThan8x8Flag(m) == m.cut = "8x8" => \A q \in 1 .. 4 : num_sub_part(m.subs[q]) = 1

(* DeblockPicture(): the edges of a direction it looks at, and their strength.    *)
i_edge_end(m) == IF partition(m) = "16x16" /\ m.coded = {} THEN 1 ELSE 4
i_start(n, dir) ==
  LET m == lfJob.mbs[n]
      avail == Neighbours(n, [u \in Mbs |-> lfJob.mbs[u].slice])
      place == IF dir = 0 THEN n % FrameWidthInMbs ELSE n \div FrameWidthInMbs
      neighbor == IF place = 0 THEN n ELSE IF dir = 0 THEN n - 1 ELSE n - FrameWidthInMbs
      still == m.type = "P_SKIP_MV_0" /\ lfJob.mbs[neighbor].type = "P_SKIP_MV_0"
      flag == IF m.idc # 0 THEN (IF dir = 0 THEN avail.A ELSE avail.B) ELSE place # 0
  IN  IF still \/ ~flag THEN 1 ELSE 0
StrengthAt(m, mbn, dir, e, i) ==
  LET x == IF dir = 0 THEN e ELSE i
      y == IF dir = 0 THEN i ELSE e
      b == 4 * y + x
      bn == IF dir = 0 THEN 4 * y + ((x + 3) % 4) ELSE (4 * ((y + 3) % 4)) + x
  IN  IF b \in m.coded \/ bn \in mbn.coded THEN 2
      ELSE IF NoMbPartLessThan8x8Flag(m) /\ e \in {1, 3} THEN 0
      ELSE IF Apart(MotionOf(m, b), MotionOf(mbn, bn)) THEN 1 ELSE 0
FilterEdge(n, dir, e) ==
  LET m == lfJob.mbs[n]
      mbn == IF e > 0 THEN m ELSE lfJob.mbs[IF dir = 0 THEN n - 1 ELSE n - FrameWidthInMbs]
      bS == IF Intra(m) \/ Intra(mbn) THEN [i \in 1 .. 4 |-> IF e = 0 THEN 4 ELSE 3]
            ELSE [i \in 1 .. 4 |-> StrengthAt(m, mbn, dir, e, i - 1)]
  IN  IF bS[1] + bS[2] + bS[3] + bS[4] = 0 THEN <<>> ELSE <<Edge(dir, e, bS, m, mbn)>>
DeblockMb ==
  /\ lfJob.kind = "picture" /\ lfMb \in Mbs
  /\ edges' = IF lfJob.mbs[lfMb].idc = 1 THEN <<>>
              ELSE FlattenSeq([k \in 1 .. 8 |->
                     LET dir == EdgeOrder[k][1]
                         e == EdgeOrder[k][2]
                     IN  IF e \in i_start(lfMb, dir) .. i_edge_end(lfJob.mbs[lfMb]) - 1
                         THEN FilterEdge(lfMb, dir, e) ELSE <<>>])
  /\ lfMb' = lfMb + 1
  /\ UNCHANGED <<lfJob, pix>>

-----------------------------------------------------------------------------
ALPHA_TABLE ==
  [i \in 1 .. 16 |-> 0] \o
  <<4, 4, 5, 6, 7, 8, 9, 10, 12, 13, 15, 17, 20, 22, 25, 28, 32, 36, 40, 45, 50, 56, 63, 71, 80, 90, 101, 113, 127,
    144, 162, 182, 203, 226, 255, 255>>
BETA_TABLE ==
  [i \in 1 .. 16 |-> 0] \o
  <<2, 2, 2, 3, 3, 3, 3, 4, 4, 4, 6, 6, 7, 7, 8, 8, 9, 9, 10, 10, 11, 11, 12, 12, 13, 13, 14, 14, 15, 15, 16, 16, 17,
    17, 18, 18>>
CLIP_TAB ==
  [i \in 1 .. 17 |-> <<0, 0, 0>>] \o
  <<<<0, 0, 1>>, <<0, 0, 1>>, <<0, 0, 1>>, <<0, 0, 1>>, <<0, 1, 1>>, <<0, 1, 1>>, <<1, 1, 1>>, <<1, 1, 1>>,
    <<1, 1, 1>>, <<1, 1, 1>>, <<1, 1, 2>>, <<1, 1, 2>>, <<1, 1, 2>>, <<1, 1, 2>>, <<1, 2, 3>>, <<1, 2, 3>>,
    <<2, 2, 3>>, <<2, 2, 4>>, <<2, 3, 4>>, <<2, 3, 4>>, <<3, 3, 5>>, <<3, 4, 6>>, <<3, 4, 6>>, <<4, 5, 7>>,
    <<4, 5, 8>>, <<4, 6, 9>>, <<5, 7, 10>>, <<6, 8, 11>>, <<6, 8, 13>>, <<7, 10, 14>>, <<8, 11, 16>>, <<9, 12, 18>>,
    <<10, 13, 20>>, <<11, 15, 23>>, <<13, 17, 25>>>>
index_a == Clip3(lfJob.qp + lfJob.alpha, 0, 51) + 1
alpha == ALPHA_TABLE[index_a]
beta == BETA_TABLE[Clip3(lfJob.qp + lfJob.beta, 0, 51) + 1]

(* A line is <<p3, p2, p1, p0, q0, q1, q2, q3>>.                              *)
Edged(s) == Close(s[4], s[5], alpha) /\ Close(s[3], s[4], beta) /\ Close(s[6], s[5], beta)
clip_uint8(a) == IF a \in 0 .. 255 THEN a ELSE IF a > 255 THEN 255 ELSE 0
Deltas(s, tc) ==
  LET delta == Clip3((4 * (s[5] - s[4]) + (s[3] - s[6]) + 4) \div 8, -tc, tc)
  IN  [s EXCEPT ![4] = clip_uint8(s[4] + delta), ![5] = clip_uint8(s[5] - delta)]
deblock_luma_c(s, tc0) ==
  LET mean == (s[4] + s[5] + 1) \div 2
      p == Close(s[2], s[4], beta)
      q == Close(s[7], s[5], beta)
      inner == [s EXCEPT ![3] = IF p THEN @ + Clip3(((s[2] + mean) \div 2) - @, -tc0, tc0) ELSE @,
                         ![6] = IF q THEN @ + Clip3(((s[7] + mean) \div 2) - @, -tc0, tc0) ELSE @]
      outer == Deltas(s, tc0 + (IF p THEN 1 ELSE 0) + (IF q THEN 1 ELSE 0))
  IN  [inner EXCEPT ![4] = outer[4], ![5] = outer[5]]
Third4(a, b, c) == (2 * a + b + c + 2) \div 4
deblock_luma_intra_c(s) ==
  LET weak == [s EXCEPT ![4] = Third4(s[3], s[4], s[6]), ![5] = Third4(s[6], s[5], s[3])]
      p == [weak EXCEPT ![4] = (s[2] + 2 * s[3] + 2 * s[4] + 2 * s[5] + s[6] + 4) \div 8,
                        ![3] = (s[2] + s[3] + s[4] + s[5] + 2) \div 4,
                        ![2] = (2 * s[1] + 3 * s[2] + s[3] + s[4] + s[5] + 4) \div 8]
      left == IF Close(s[2], s[4], beta) THEN p ELSE weak
      q == [left EXCEPT ![5] = (s[3] + 2 * s[4] + 2 * s[5] + 2 * s[6] + s[7] + 4) \div 8,
                        ![6] = (s[4] + s[5] + s[6] + s[7] + 2) \div 4,
                        ![7] = (2 * s[8] + 3 * s[7] + s[6] + s[5] + s[4] + 4) \div 8]
  IN  IF ~Close(s[4], s[5], (alpha \div 4) + 2) THEN weak
      ELSE IF Close(s[7], s[5], beta) THEN q ELSE left
deblock_chroma_intra_c(s) == [s EXCEPT ![4] = Third4(s[3], s[4], s[6]), ![5] = Third4(s[6], s[5], s[3])]
(* deblock_edge(): four strengths for as many lines each.                      *)
deblock_edge ==
  LET tc(b) == (IF b > 0 THEN CLIP_TAB[index_a][b] ELSE -1) + (IF lfJob.chroma THEN 1 ELSE 0)
      Across(s, t) ==
        CASE ~Edged(s) -> s
          [] Edged(s) /\ lfJob.bS[1] = 4 -> (IF lfJob.chroma THEN deblock_chroma_intra_c(s) ELSE deblock_luma_intra_c(s))
          [] Edged(s) /\ lfJob.bS[1] < 4 ->
               (IF lfJob.chroma THEN (IF t > 0 THEN Deltas(s, t) ELSE s) ELSE IF t >= 0 THEN deblock_luma_c(s, t) ELSE s)
  IN  [k \in DOMAIN pix |-> Across(pix[k], IF lfJob.bS[1] = 4 THEN 0
                                           ELSE tc(lfJob.bS[1 + (4 * (k - 1)) \div Len(pix)]))]
DeblockEdge ==
  /\ lfJob.kind = "edge" /\ lfMb = 0
  /\ pix' = deblock_edge /\ lfMb' = 1
  /\ UNCHANGED <<lfJob, edges>>

(* The sender takes one line with its own strength, each side of it alike.       *)
LineMeant(s, bS) ==
  LET mirrored == [i \in 1 .. 8 |-> s[9 - i]]
      smooth(t) == Close(t[2], t[4], beta)
      luma == ~lfJob.chroma
      tc0 == CLIP_TAB[index_a][bS]
      tc == IF luma THEN tc0 + Cardinality({t \in {<<1, s>>, <<2, mirrored>>} : smooth(t[2])}) ELSE tc0 + 1
      delta == Clip3((4 * (s[5] - s[4]) + (s[3] - s[6]) + 4) \div 8, -tc, tc)
      NearNormal(t, d) == [t EXCEPT ![4] = Clip3(@ + d, 0, 255),
                              ![3] = IF luma /\ smooth(t) THEN @ + Clip3((t[2] + ((t[4] + t[5] + 1) \div 2) - 2 * @) \div 2, -tc0, tc0)
                                     ELSE @]
      NearStrong(t) ==
        IF luma /\ smooth(t) /\ Close(t[4], t[5], (alpha \div 4) + 2)
        THEN [t EXCEPT ![4] = (t[2] + 2 * (t[3] + t[4] + t[5]) + t[6] + 4) \div 8,
                       ![3] = (t[2] + t[3] + t[4] + t[5] + 2) \div 4,
                       ![2] = (2 * (t[1] + t[2]) + t[2] + t[3] + t[4] + t[5] + 4) \div 8]
        ELSE [t EXCEPT ![4] = (2 * t[3] + t[4] + t[6] + 2) \div 4]
      p == IF bS = 4 THEN NearStrong(s) ELSE NearNormal(s, delta)
      q == IF bS = 4 THEN NearStrong(mirrored) ELSE NearNormal(mirrored, -delta)
  IN  IF bS = 0 \/ ~Edged(s) THEN s ELSE [i \in 1 .. 8 |-> IF i < 5 THEN p[i] ELSE q[9 - i]]

-----------------------------------------------------------------------------
FilterStart(job) ==
  lfJob = job /\ lfMb = 0 /\ edges = <<>> /\ pix = (IF job.kind = "edge" THEN job.lines ELSE <<>>)
DeblockInit == \E job \in DecodedPictures \cup SampledEdges : FilterStart(job)
DeblockNext == DeblockMb \/ DeblockEdge
DeblockSpec == DeblockInit /\ [][DeblockNext]_filterVars

(* loopFilter.c:97-601: every macroblock has exactly the edges filtered that its   *)
(* blocks call for, in order, with their strengths and quantizers, and along an   *)
(* edge every line is filtered by the strength of its own block.              *)
DeblockingRight ==
  lfMb > 0 =>
    IF lfJob.kind = "picture" THEN edges = EdgesMeant(lfMb - 1)
    ELSE pix = [k \in DOMAIN lfJob.lines |-> LineMeant(lfJob.lines[k], lfJob.bS[1 + (4 * (k - 1)) \div Len(lfJob.lines)])]
=============================================================================
