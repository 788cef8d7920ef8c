---------------------------- MODULE MotionVectors ----------------------------
(***************************************************************************)
(* The motion of the macroblocks of a P slice (macroblock.c): a vector is    *)
(* written as its difference from a prediction out of the blocks around it,  *)
(* so that the decoder must find at every block the neighbours and the       *)
(* vectors that the sender found, within the macroblock and across those of  *)
(* the slice.  Both components of a vector are treated alike: there is one.  *)
(***************************************************************************)
EXTENDS SliceDecoding, SequencesExt

CONSTANTS PSlices,             \* [first, number, active, profile_idc]: the macroblocks, the references, the profile
          MacroblocksWritten       \* for each macroblock what senders write there
(* A macroblock: [type, refs, shapes, mvs], the shapes of its quarters in shapes and *)
(* a vector for each part in the order of decoding.                          *)

VARIABLES pSlice, motionMb,
          ref_idx_l0, mvL0,        \* of each macroblock, by its sixteen blocks in rows of four
          written_l0,          \* history: the motion the sender meant, [ref, mv] of each block
          doubtful             \* history: a macroblock spoilt the motion that later ones build on
motionVars == <<pSlice, motionMb, ref_idx_l0, mvL0, written_l0, doubtful>>

-----------------------------------------------------------------------------
(* The parts of a macroblock, in order: where they start, how far they reach,  *)
(* and which blocks of the cache learn their vector before the next one.      *)
Blk == 0 .. 15
PartOf(idx, w, blocks, cached) == [idx |-> idx, w |-> w, blocks |-> blocks, cached |-> cached]
index8x8 == <<0, 2, 8, 10>>
SubParts(shape, idx) ==
  LET Sub(at, w, blocks) == PartOf(idx + at, w, {idx + b : b \in blocks}, {idx + b : b \in blocks})
  IN  CASE shape = "8x8" -> <<Sub(0, 2, {0, 1, 4, 5})>>
        [] shape = "8x4" -> <<Sub(0, 2, {0, 1}), Sub(4, 2, {4, 5})>>
        [] shape = "4x8" -> <<Sub(0, 1, {0, 4}), Sub(1, 1, {1, 5})>>
        [] shape = "4x4" -> <<Sub(0, 1, {0}), Sub(1, 1, {1}), Sub(4, 1, {4}), Sub(5, 1, {5})>>
Parts(mb) ==
  CASE mb.type \in {"skip", "16x16"} -> <<PartOf(0, 4, Blk, {})>>
    [] mb.type = "16x8" -> <<PartOf(0, 4, 0 .. 7, {4}), PartOf(8, 4, 8 .. 15, {12})>>
    [] mb.type = "8x16" -> <<PartOf(0, 2, {b \in Blk : b % 4 < 2}, {1}), PartOf(2, 2, {b \in Blk : b % 4 > 1}, {3})>>
    [] mb.type = "8x8" -> FlattenSeq([q \in 1 .. 4 |-> SubParts(mb.shapes[q], index8x8[q])])
IsInter(mb) == mb.type \notin {"intra", "pcm"}

(* set_ref_idx_mb(), set_ref_idx_part(): the references of the blocks.        *)
RefOf(mb, b) ==
  CASE mb.type = "16x16" -> mb.refs[1]
    [] mb.type = "16x8" -> mb.refs[(b \div 8) + 1]
    [] mb.type = "8x16" -> mb.refs[((b % 4) \div 2) + 1]
    [] mb.type = "8x8" -> mb.refs[2 * (b \div 8) + ((b % 4) \div 2) + 1]
    [] mb.type = "skip" -> 0

median(a, b, c) == a + b + c - Min({a, b, c}) - Max({a, b, c})

-----------------------------------------------------------------------------
(* The sender's prediction: the neighbours of a part by their place in the     *)
(* picture, those that are there already, and of the same slice.             *)
NoMotion == [ref |-> -1, mv |-> 0]
Missing == [ref |-> -2, mv |-> 0]
Place(n, x, y) == <<4 * (n % FrameWidthInMbs) + x, 4 * (n \div FrameWidthInMbs) + y>>
MbAt(p) == FrameWidthInMbs * (p[2] \div 4) + (p[1] \div 4)
BlkAt(p) == 4 * (p[2] % 4) + (p[1] % 4)
MotionAt(field, done, p) ==
  LET n == MbAt(p)
  IN  IF p[1] \notin 0 .. 4 * FrameWidthInMbs - 1 \/ p[2] < 0 \/ n < pSlice.first \/ n > motionMb THEN Missing
      ELSE IF n = motionMb /\ BlkAt(p) \notin done THEN Missing ELSE field[n][BlkAt(p)]
MedianOf(ref, a, b, c) ==
  LET same == {n \in {1, 2, 3} : (<<a, b, c>>)[n].ref = ref}
      onlyA == a # Missing /\ b = Missing /\ c = Missing
  IN  IF onlyA THEN a.mv
      ELSE IF Cardinality(same) = 1 THEN (<<a, b, c>>)[CHOOSE n \in same : TRUE].mv
      ELSE median(a.mv, b.mv, c.mv)
SenderPredicts(type, part, ref, field, done) ==
  LET x == part.idx % 4
      y == part.idx \div 4
      At(u, v) == MotionAt(field, done, Place(motionMb, u, v))
      a == At(x - 1, y)
      b == At(x, y - 1)
      c == IF At(x + part.w, y - 1) = Missing THEN At(x - 1, y - 1) ELSE At(x + part.w, y - 1)
      side == CASE type = "16x8" -> (IF y = 0 THEN b ELSE a)
                [] type = "8x16" -> (IF x = 0 THEN a ELSE c)
                [] type \notin {"16x8", "8x16"} -> Missing
      still == type = "skip" /\ (Missing \in {a, b} \/ [ref |-> 0, mv |-> 0] \in {a, b})
  IN  IF still THEN 0 ELSE IF side.ref = ref THEN side.mv ELSE MedianOf(ref, a, b, c)
(* Its field with the parts of the macroblock, and the differences it writes.  *)
Sender(mb) ==
  LET parts == Parts(mb)
      Step[k \in 0 .. Len(parts)] ==
        IF k = 0 THEN [field |-> written_l0, done |-> {}, mvds |-> <<>>]
        ELSE LET before == Step[k - 1]
                 ref == RefOf(mb, parts[k].idx)
                 mvp == SenderPredicts(mb.type, parts[k], ref, before.field, before.done)
                 mv == IF mb.type = "skip" THEN mvp ELSE mb.mvs[k]
             IN  [field |-> [before.field EXCEPT ![motionMb] =
                              [b \in Blk |-> IF b \in parts[k].blocks THEN [ref |-> ref, mv |-> mv] ELSE @[b]]],
                  done |-> before.done \cup parts[k].blocks, mvds |-> Append(before.mvds, mv - mvp)]
  IN  IF IsInter(mb) THEN Step[Len(parts)]
      ELSE [field |-> [written_l0 EXCEPT ![motionMb] = [b \in Blk |-> NoMotion]], done |-> {}, mvds |-> <<>>]

-----------------------------------------------------------------------------
(* The decoder's cache: five rows of six around and inside the macroblock.    *)
cache_scan_array(idx) == 6 * ((idx \div 4) + 1) + (idx % 4) + 1
SliceNrs == [mb \in Mbs |-> IF mb >= pSlice.first THEN 1 ELSE 0]
Around == Neighbours(motionMb, SliceNrs)
(* fill_structure_mv_idx(): the blocks above, to the left and at the corners,   *)
(* and of the macroblock itself what inside gives.                           *)
Cache(of, inside, none) ==
  [i \in 0 .. 29 |->
     LET x == (i % 6) - 1
         y == (i \div 6) - 1
     IN  CASE y >= 0 /\ x \in 0 .. 3 -> inside[4 * y + x]
           [] y >= 0 /\ x = -1 /\ Around.A -> of[motionMb - 1][4 * y + 3]
           [] y = -1 /\ x \in 0 .. 3 /\ Around.B -> of[motionMb - FrameWidthInMbs][12 + x]
           [] y = -1 /\ x = 4 /\ Around.C -> of[motionMb - FrameWidthInMbs + 1][12]
           [] y = -1 /\ x = -1 /\ Around.D -> of[motionMb - FrameWidthInMbs - 1][15]
           [] OTHER -> none]

(* What lies above to the right of a part in an odd row comes after it.        *)
(* Mutant: it does so for the smallest blocks only.                           *)
LateIfSmall(idx, i_width) == (idx \div 4) % 2 = 1 /\ idx % 2 = 1
Late(idx, i_width) == (idx \div 4) % 2 = 1 /\ (idx % 2 = 1 \/ i_width = 2)
mb_predict_mv(refs, mvs, idx, i_width, partition) ==
  LET i8 == cache_scan_array(idx)
      i8c == IF Late(idx, i_width) \/ refs[i8 - 6 + i_width] = -2 THEN i8 - 7 ELSE i8 - 6 + i_width
      side == CASE partition = "16x8" /\ idx = 0 -> i8 - 6
                [] partition = "16x8" /\ idx # 0 -> i8 - 1
                [] partition = "8x16" /\ idx = 0 -> i8 - 1
                [] partition = "8x16" /\ idx # 0 -> i8c
                [] partition \notin {"16x8", "8x16"} -> i8
      same == {i \in {i8 - 1, i8 - 6, i8c} : refs[i] = refs[i8]}
      middle == median(mvs[i8 - 1], mvs[i8 - 6], mvs[i8c])
      onlyA == same = {} /\ refs[i8 - 6] = -2 /\ refs[i8c] = -2 /\ refs[i8 - 1] # -2
  IN  IF side # i8 /\ refs[side] = refs[i8] THEN mvs[side]
      ELSE IF Cardinality(same) = 1 THEN mvs[CHOOSE i \in same : TRUE]
      ELSE IF onlyA THEN mvs[i8 - 1] ELSE middle

(* P_SKIP: no motion where a neighbour is missing or does not move.           *)
SkipStill ==
  \/ ~Around.A \/ ~Around.B
  \/ ref_idx_l0[motionMb - 1][3] = 0 /\ mvL0[motionMb - 1][3] = 0
  \/ ref_idx_l0[motionMb - FrameWidthInMbs][12] = 0 /\ mvL0[motionMb - FrameWidthInMbs][12] = 0

(* readMotionInfoFromNAL(): references are read where there is a choice; beyond *)
(* the baseline profile the one list that a P slice has not, or has one entry   *)
(* of, makes those of sub-macroblocks zero again.                            *)
RefsRead(mb) ==
  [b \in Blk |-> IF pSlice.active = 1 \/ (mb.type = "8x8" /\ pSlice.profile_idc > 66) THEN 0 ELSE RefOf(mb, b)]
(* get_motion_vector() part by part, each predicted from the cache so far.    *)
VectorsRead(mb, refs, mvds) ==
  LET parts == Parts(mb)
      refCache == Cache(ref_idx_l0, refs, -2)
      Step[k \in 0 .. Len(parts)] ==
        IF k = 0 THEN [cache |-> Cache(mvL0, [b \in Blk |-> 0], 0), mv |-> [b \in Blk |-> 0]]
        ELSE LET before == Step[k - 1]
                 mv == mb_predict_mv(refCache, before.cache, parts[k].idx, parts[k].w, mb.type) + mvds[k]
             IN  [cache |-> [i \in 0 .. 29 |-> IF i \in {cache_scan_array(b) : b \in parts[k].cached} THEN mv
                                               ELSE before.cache[i]],
                  mv |-> [b \in Blk |-> IF b \in parts[k].blocks THEN mv ELSE before.mv[b]]]
  IN  Step[Len(parts)].mv

-----------------------------------------------------------------------------
(* The buffer of a picture holds the references of the one it held before.    *)
UpTo(s) == 0 .. s.first + s.number - 1
MotionStart(s, old) ==
  /\ pSlice = s /\ motionMb = s.first
  /\ ref_idx_l0 = [mb \in UpTo(s) |-> [b \in Blk |-> old]]
  /\ mvL0 = [mb \in UpTo(s) |-> [b \in Blk |-> 3]]
  /\ written_l0 = [mb \in UpTo(s) |-> [b \in Blk |-> NoMotion]] /\ doubtful = FALSE
MotionInit == \E s \in PSlices, old \in {-1, 0} : MotionStart(s, old)

Set(refs, mvs) ==
  /\ ref_idx_l0' = [ref_idx_l0 EXCEPT ![motionMb] = refs]
  /\ mvL0' = [mvL0 EXCEPT ![motionMb] = mvs]
ReadSkip ==
  LET zero == [b \in Blk |-> 0]
      mv == IF SkipStill THEN 0 ELSE mb_predict_mv(Cache(ref_idx_l0, zero, -2), Cache(mvL0, zero, 0), 0, 4, "16x16")
  IN  Set(zero, [b \in Blk |-> mv])
ReadInter(mb, mvds) == Set(RefsRead(mb), VectorsRead(mb, RefsRead(mb), mvds))
ReadIntra == Set([b \in Blk |-> -1], [b \in Blk |-> 0])
(* The references stay those of the picture before.                          *)
ReadIPCM == Set(ref_idx_l0[motionMb], [b \in Blk |-> 0])

ReadMotion ==
  /\ motionMb \in UpTo(pSlice)
  /\ \E mb \in {m \in MacroblocksWritten[motionMb] : \A k \in 1 .. Len(m.refs) : m.refs[k] < pSlice.active} :
     \E sent \in {Sender(mb)} :
       /\ written_l0' = sent.field
       /\ \/ mb.type = "skip" /\ ReadSkip
          \/ mb.type \notin {"skip", "intra", "pcm"} /\ ReadInter(mb, sent.mvds)
          \/ mb.type = "intra" /\ ReadIntra
          \/ mb.type = "pcm" /\ ReadIPCM
       /\ doubtful' = (doubtful \/ mb.type = "pcm" \/ (mb.type = "8x8" /\ pSlice.profile_idc > 66))
  /\ motionMb' = motionMb + 1 /\ UNCHANGED pSlice

MotionSpec == MotionInit /\ [][ReadMotion]_motionVars

-----------------------------------------------------------------------------
(* macroblock.c:243-430, 901-965, 1735-2323: every block of the slice has the  *)
(* reference and the vector that the sender meant, however its macroblock and   *)
(* those around it are cut up, skipped or intra, and wherever the slice begins;  *)
(* but not once a PCM macroblock kept references of an earlier picture, or      *)
(* sub-macroblocks lost theirs beyond the baseline profile.                    *)
MotionRight ==
  ~doubtful => \A n \in pSlice.first .. motionMb - 1 : \A b \in Blk :
                 [ref |-> ref_idx_l0[n][b], mv |-> mvL0[n][b]] = written_l0[n][b]
=============================================================================
