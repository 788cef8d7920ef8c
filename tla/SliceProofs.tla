----------------------------- MODULE SliceProofs -----------------------------
(***************************************************************************)
(* From bytes to pictures.  Of any stream of units, in a byte stream file  *)
(* or in packets: the units are read as they were sent.  Of any pictures,  *)
(* any slice groups and any order and loss of slices: what a picture is    *)
(* made of, which neighbours a macroblock uses.                            *)
(***************************************************************************)
EXTENDS NalInput, SliceDecoding, FiniteSetTheorems, SequenceTheorems, WellFoundedInduction, TLAPS

(* A set of numbers has a least element. *)
LEMMA LeastOne ==
  ASSUME NEW K, K \subseteq Nat, K # {}
  PROVE  Min(K) \in K /\ \A j \in K : Min(K) <= j
<1>1. IsWellFoundedOn(OpToRel(<, Nat), Nat)
  BY NatLessThanWellFounded
<1>2. \E k \in K : \A j \in K : ~(<<j, k>> \in OpToRel(<, Nat))
  BY <1>1, WFMin
<1>3. \A j, k \in K : ~(j < k) => k <= j
  OBVIOUS
<1>4. \E k \in K : \A j \in K : k <= j
  BY <1>2, <1>3 DEF OpToRel
<1> QED
  BY <1>4 DEF Min

-----------------------------------------------------------------------------
(* The macroblocks of a picture, by number, row and column *)

LEMMA PictureSize ==
  /\ FrameWidthInMbs \in Nat /\ FrameWidthInMbs > 0
  /\ FrameSizeInMbs \in Nat /\ FrameSizeInMbs > 0
  /\ Mbs \subseteq Nat /\ 0 \in Mbs
  /\ \A m \in Int : m \in Mbs <=> 0 <= m /\ m < FrameSizeInMbs
<1>1. /\ FrameWidthInMbs \in Nat /\ FrameWidthInMbs > 0
      /\ FrameHeightInMbs \in Nat /\ FrameHeightInMbs > 0
  BY SliceGroupsAssumption
<1>2. \A a, b \in Nat : a > 0 /\ b > 0 => a * b \in Nat /\ a * b > 0
  OBVIOUS
<1>3. FrameSizeInMbs \in Nat /\ FrameSizeInMbs > 0
  BY <1>1, <1>2, Zenon DEF FrameSizeInMbs
<1> QED
  BY <1>1, <1>3 DEF Mbs

LEMMA MbsCounted == IsFiniteSet(Mbs) /\ Cardinality(Mbs) = FrameSizeInMbs
<1>1. FrameSizeInMbs \in Nat
  BY PictureSize
<1>2. 0 \in Int /\ FrameSizeInMbs - 1 \in Int
  BY <1>1
<1>3. /\ IsFiniteSet(0 .. FrameSizeInMbs - 1)
      /\ Cardinality(0 .. FrameSizeInMbs - 1) = IF 0 > FrameSizeInMbs - 1 THEN 0 ELSE (FrameSizeInMbs - 1) - 0 + 1
  BY <1>2, FS_Interval
<1> QED
  BY <1>1, <1>3, PictureSize DEF Mbs

(* Division with remainder. *)
LEMMA Division ==
  ASSUME NEW n \in Nat, NEW w \in Nat, w > 0
  PROVE  /\ n \div w \in Nat /\ n % w \in 0 .. w - 1
         /\ n = w * (n \div w) + (n % w)
OBVIOUS

LEMMA Quotient ==
  ASSUME NEW n \in Nat, NEW w \in Nat, w > 0, NEW q \in Nat, NEW r \in 0 .. w - 1, n = w * q + r
  PROVE  n \div w = q /\ n % w = r
OBVIOUS

LEMMA Place ==
  ASSUME NEW mb \in Mbs
  PROVE  /\ RowOf(mb) \in Nat /\ ColumnOf(mb) \in 0 .. FrameWidthInMbs - 1
         /\ RowOf(mb) = 0 <=> mb < FrameWidthInMbs
         /\ (mb + 1) % FrameWidthInMbs = 0 <=> ColumnOf(mb) = FrameWidthInMbs - 1
<1> DEFINE w == FrameWidthInMbs
           q == mb \div w
           r == mb % w
<1>1. mb \in Nat /\ w \in Nat /\ w > 0
  BY PictureSize
<1>2. q \in Nat /\ r \in 0 .. w - 1 /\ mb = w * q + r
  BY <1>1, Division
<1>3. q = RowOf(mb) /\ r = ColumnOf(mb)
  BY DEF RowOf, ColumnOf
<1>4. q = 0 <=> mb < w
  <2> HIDE DEF w, q, r
  <2>1. ASSUME q = 0 PROVE mb < w
    BY <1>1, <1>2, <2>1
  <2>2. ASSUME q > 0 PROVE ~(mb < w)
    <3>1. w * q >= w
      BY <1>1, <1>2, <2>2
    <3> QED
      BY <1>1, <1>2, <3>1
  <2> QED
    BY <1>2, <2>1, <2>2
<1>5. (mb + 1) % w = 0 <=> r = w - 1
  <2> HIDE DEF w, q, r
  <2>1. CASE r = w - 1
    <3>1. mb + 1 = w * (q + 1) + 0 /\ q + 1 \in Nat /\ 0 \in 0 .. w - 1 /\ mb + 1 \in Nat
      BY <1>1, <1>2, <2>1
    <3>2. (mb + 1) % w = 0
      BY <1>1, <3>1, Quotient
    <3> QED
      BY <2>1, <3>2
  <2>2. CASE r # w - 1
    <3>1. mb + 1 = w * q + (r + 1) /\ r + 1 \in 0 .. w - 1 /\ mb + 1 \in Nat
      BY <1>1, <1>2, <2>2
    <3>2. (mb + 1) % w = r + 1
      BY <1>1, <1>2, <3>1, Quotient
    <3> QED
      BY <1>2, <2>2, <3>2
  <2> QED
    BY <2>1, <2>2
<1> QED
  BY <1>2, <1>3, <1>4, <1>5

(* The four macroblocks that may be neighbours, or none outside the picture. *)
LEMMA BesideFour ==
  ASSUME NEW mb \in Mbs
  PROVE  /\ Beside(mb, -1, 0) = IF ColumnOf(mb) # 0 THEN mb - 1 ELSE NoMb
         /\ Beside(mb, 0, -1) = IF mb >= FrameWidthInMbs THEN mb - FrameWidthInMbs ELSE NoMb
         /\ Beside(mb, 1, -1) = IF (mb + 1) % FrameWidthInMbs # 0 /\ mb >= FrameWidthInMbs
                                THEN mb - FrameWidthInMbs + 1 ELSE NoMb
         /\ Beside(mb, -1, -1) = IF ColumnOf(mb) # 0 /\ mb >= FrameWidthInMbs
                                 THEN mb - FrameWidthInMbs - 1 ELSE NoMb
<1>1. mb \in Nat /\ FrameWidthInMbs \in Nat /\ FrameWidthInMbs > 0
  BY PictureSize
<1>2. /\ RowOf(mb) \in Nat /\ ColumnOf(mb) \in 0 .. FrameWidthInMbs - 1
      /\ RowOf(mb) = 0 <=> mb < FrameWidthInMbs
      /\ (mb + 1) % FrameWidthInMbs = 0 <=> ColumnOf(mb) = FrameWidthInMbs - 1
  BY Place
<1>3. FrameWidthInMbs * (-1) = -FrameWidthInMbs /\ FrameWidthInMbs * 0 = 0
  BY <1>1
<1>4. /\ -1 + ColumnOf(mb) \in 0 .. FrameWidthInMbs - 1 <=> ColumnOf(mb) # 0
      /\ 0 + ColumnOf(mb) \in 0 .. FrameWidthInMbs - 1
      /\ 1 + ColumnOf(mb) \in 0 .. FrameWidthInMbs - 1 <=> ColumnOf(mb) # FrameWidthInMbs - 1
      /\ RowOf(mb) + 0 >= 0 /\ (RowOf(mb) + (-1) >= 0 <=> ~(mb < FrameWidthInMbs))
  BY <1>1, <1>2
<1>5. Beside(mb, -1, 0) = IF ColumnOf(mb) # 0 THEN mb - 1 ELSE NoMb
  <2>1. mb + (-1) + FrameWidthInMbs * 0 = mb - 1
    BY <1>1, <1>3
  <2> QED
    BY <1>1, <1>2, <1>4, <2>1 DEF Beside
<1>6. Beside(mb, 0, -1) = IF mb >= FrameWidthInMbs THEN mb - FrameWidthInMbs ELSE NoMb
  <2>1. mb + 0 + FrameWidthInMbs * (-1) = mb - FrameWidthInMbs
    BY <1>1, <1>3
  <2> QED
    BY <1>1, <1>2, <1>4, <2>1 DEF Beside
<1>7. Beside(mb, 1, -1) = IF (mb + 1) % FrameWidthInMbs # 0 /\ mb >= FrameWidthInMbs
                          THEN mb - FrameWidthInMbs + 1 ELSE NoMb
  <2>1. mb + 1 + FrameWidthInMbs * (-1) = mb - FrameWidthInMbs + 1
    BY <1>1, <1>3
  <2> QED
    BY <1>1, <1>2, <1>4, <2>1 DEF Beside
<1>8. Beside(mb, -1, -1) = IF ColumnOf(mb) # 0 /\ mb >= FrameWidthInMbs
                           THEN mb - FrameWidthInMbs - 1 ELSE NoMb
  <2>1. mb + (-1) + FrameWidthInMbs * (-1) = mb - FrameWidthInMbs - 1
    BY <1>1, <1>3
  <2> QED
    BY <1>1, <1>2, <1>4, <2>1 DEF Beside
<1> QED
  BY <1>5, <1>6, <1>7, <1>8

(* If P holds those of the picture's other macroblocks that have mb's slice   *)
(* number, the neighbours used are those beside it in P.                     *)
LEMMA NeighboursBeside ==
  ASSUME NEW mb \in Mbs, NEW nrs, NEW P, P \subseteq Mbs,
         \A m \in Mbs : m # mb => (nrs[m] = nrs[mb] <=> m \in P)
  PROVE  Neighbours(mb, nrs) = [A |-> Beside(mb, -1, 0) \in P, B |-> Beside(mb, 0, -1) \in P,
                                C |-> Beside(mb, 1, -1) \in P, D |-> Beside(mb, -1, -1) \in P]
<1>1. mb \in Nat /\ FrameWidthInMbs \in Nat /\ FrameWidthInMbs > 0
  BY PictureSize
<1>2. \A m \in Int : m # mb => (mb_is_available(m, mb, nrs) <=> m \in P)
  BY DEF mb_is_available
<1>3. NoMb \notin P /\ \A m \in P : m >= 0
  BY PictureSize DEF NoMb
<1>4. ColumnOf(mb) = mb % FrameWidthInMbs
  BY DEF ColumnOf
<1>5. /\ RowOf(mb) \in Nat /\ ColumnOf(mb) \in 0 .. FrameWidthInMbs - 1
      /\ (mb + 1) % FrameWidthInMbs = 0 <=> ColumnOf(mb) = FrameWidthInMbs - 1
      /\ (mb < FrameWidthInMbs => ColumnOf(mb) = mb)
  <2>1. mb < FrameWidthInMbs => mb % FrameWidthInMbs = mb
    <3>1. ASSUME mb < FrameWidthInMbs PROVE mb = FrameWidthInMbs * 0 + mb /\ mb \in 0 .. FrameWidthInMbs - 1
      BY <1>1, <3>1
    <3> QED
      BY <1>1, <3>1, Quotient
  <2> QED
    BY <2>1, <1>4, Place
<1>6. (mb_is_available(mb - 1, mb, nrs) /\ mb % FrameWidthInMbs # 0) = (Beside(mb, -1, 0) \in P)
  <2>1. mb_is_available(mb - 1, mb, nrs) <=> mb - 1 \in P
    BY <1>1, <1>2
  <2> QED
    BY <1>3, <1>4, <2>1, BesideFour
<1>7. mb_is_available(mb - FrameWidthInMbs, mb, nrs) = (Beside(mb, 0, -1) \in P)
  <2>1. mb_is_available(mb - FrameWidthInMbs, mb, nrs) <=> mb - FrameWidthInMbs \in P
    BY <1>1, <1>2
  <2>2. mb_is_available(mb - FrameWidthInMbs, mb, nrs) \in BOOLEAN
    BY DEF mb_is_available
  <2>3. ~(mb >= FrameWidthInMbs) => mb - FrameWidthInMbs \notin P
    BY <1>1, <1>3
  <2> QED
    BY <1>3, <2>1, <2>2, <2>3, BesideFour
<1>8. (mb_is_available(mb - FrameWidthInMbs + 1, mb, nrs) /\ (mb + 1) % FrameWidthInMbs # 0)
      = (Beside(mb, 1, -1) \in P)
  <2>1. CASE (mb + 1) % FrameWidthInMbs # 0
    <3>1. ColumnOf(mb) <= FrameWidthInMbs - 2 /\ FrameWidthInMbs > 1
      BY <1>1, <1>5, <2>1
    <3>2. mb_is_available(mb - FrameWidthInMbs + 1, mb, nrs) <=> mb - FrameWidthInMbs + 1 \in P
      BY <1>1, <1>2, <3>1
    <3>3. ~(mb >= FrameWidthInMbs) => mb - FrameWidthInMbs + 1 \notin P
      BY <1>1, <1>3, <1>5, <3>1
    <3> QED
      BY <1>3, <2>1, <3>2, <3>3, BesideFour
  <2>2. CASE (mb + 1) % FrameWidthInMbs = 0
    BY <1>3, <2>2, BesideFour
  <2> QED
    BY <2>1, <2>2
<1>9. (mb_is_available(mb - FrameWidthInMbs - 1, mb, nrs) /\ mb % FrameWidthInMbs # 0)
      = (Beside(mb, -1, -1) \in P)
  <2>1. mb_is_available(mb - FrameWidthInMbs - 1, mb, nrs) <=> mb - FrameWidthInMbs - 1 \in P
    BY <1>1, <1>2
  <2>2. ~(mb >= FrameWidthInMbs) => mb - FrameWidthInMbs - 1 \notin P
    BY <1>1, <1>3
  <2> QED
    BY <1>3, <1>4, <2>1, <2>2, BesideFour
<1> QED
  BY <1>6, <1>7, <1>8, <1>9 DEF Neighbours

-----------------------------------------------------------------------------
(* The inductive invariant of the decoding of slices *)

Decode == [mb : Mbs, slice : Nat, neighbours : [A : BOOLEAN, B : BOOLEAN, C : BOOLEAN, D : BOOLEAN]]
StreamState ==
  [picture : 0 .. 2, pps : ParameterSets, cycle : Cycles, map : {InMap(p, c) : p \in ParameterSets, c \in Cycles},
   past : SUBSET Mbs, cuts : Nat, lost : Nat]
SliceTypeOK ==
  /\ stream \in StreamState /\ stream.map = InMap(stream.pps, stream.cycle)
  /\ current_mb_nr \in Mbs \cup {NoMb}
  /\ current_slice_nr \in Nat /\ num_dec_mb \in Nat
  /\ slice_nr \in [Mbs -> Int]
  /\ dec_picture \in 0 .. 2 \cup {NoPicture} /\ old_slice \in 0 .. 2 \cup {NoPicture}
  /\ decoded \in Seq(Decode)

DecodedMbs == {decoded[i].mb : i \in 1 .. Len(decoded)}
SameGroup(m, n) == stream.map[m] = stream.map[n]
(* A slice of the picture that goes by was read. *)
Begun == current_mb_nr # NoMb \/ old_slice = stream.picture

(* What went by of a group is its beginning. *)
PastInOrder ==
  \A m, n \in Mbs : SameGroup(m, n) /\ m < n /\ n \in stream.past => m \in stream.past

(* Within a slice: the next of its group is the one under way. *)
UnderWay ==
  current_mb_nr # NoMb =>
    /\ dec_picture = stream.picture
    /\ \A m \in Mbs : SameGroup(m, current_mb_nr) => (m \in stream.past <=> m < current_mb_nr)
    /\ stream.pps.groups > 1 => MbToSliceGroupMap = stream.map
    /\ num_dec_mb < FrameSizeInMbs

(* What was decoded went by, and without a loss the other way round. *)
DecodedPast ==
  /\ Begun => DecodedMbs \subseteq stream.past /\ (stream.lost = 0 => DecodedMbs = stream.past)
  /\ ~Begun /\ stream.lost = 0 => stream.past = {}

(* When the picture is open and when it is closed. *)
OpenOrWhole ==
  /\ current_mb_nr = NoMb => dec_picture \in {old_slice, NoPicture}
  /\ dec_picture = NoPicture /\ old_slice # NoPicture => num_dec_mb = FrameSizeInMbs
  /\ current_mb_nr = NoMb /\ num_dec_mb = FrameSizeInMbs => dec_picture = NoPicture

(* The numbers of the slices so far, and where they are kept. *)
NumbersSoFar ==
  Begun /\ dec_picture # NoPicture =>
    /\ current_slice_nr <= num_dec_mb
    /\ \A i \in 1 .. Len(decoded) :
         /\ decoded[i].slice <= current_slice_nr
         /\ current_mb_nr = NoMb => decoded[i].slice < current_slice_nr
         /\ current_mb_nr # NoMb /\ decoded[i].slice = current_slice_nr =>
              decoded[i].mb < current_mb_nr /\ SameGroup(decoded[i].mb, current_mb_nr)
    /\ \A m \in Mbs, k \in 0 .. FrameSizeInMbs - 1 :
         slice_nr[m] = Char(k) <=> \E i \in 1 .. Len(decoded) : decoded[i].mb = m /\ decoded[i].slice = k

SliceInv ==
  /\ SliceTypeOK /\ PastInOrder /\ UnderWay /\ DecodedPast /\ OpenOrWhole /\ NumbersSoFar
  /\ num_dec_mb = Cardinality(DecodedMbs)
  /\ NeighboursRight /\ SlicesInOrder

-----------------------------------------------------------------------------
LEMMA DecodedCounted ==
  ASSUME SliceInv
  PROVE  /\ DecodedMbs \subseteq Mbs /\ IsFiniteSet(DecodedMbs)
         /\ num_dec_mb <= FrameSizeInMbs
         /\ num_dec_mb = FrameSizeInMbs => DecodedMbs = Mbs
         /\ DecodedMbs = Mbs => num_dec_mb = FrameSizeInMbs
<1>1. DecodedMbs \subseteq Mbs
  <2>1. \A i \in 1 .. Len(decoded) : decoded[i] \in Decode
    BY ElementOfSeq DEF SliceInv, SliceTypeOK
  <2> QED
    BY <2>1 DEF DecodedMbs, Decode
<1>2. IsFiniteSet(DecodedMbs) /\ Cardinality(DecodedMbs) <= Cardinality(Mbs)
      /\ (Cardinality(Mbs) = Cardinality(DecodedMbs) => Mbs = DecodedMbs)
  BY <1>1, MbsCounted, FS_Subset
<1> QED
  BY <1>1, <1>2, MbsCounted DEF SliceInv

(* The picture is whole, or as much of it as came. *)
LEMMA InvIsRight ==
  ASSUME SliceInv
  PROVE  SlicesRight
<1>1. current_mb_nr # NoMb => dec_picture = stream.picture /\ ~WasDecoded(current_mb_nr)
  <2> SUFFICES ASSUME current_mb_nr # NoMb
               PROVE  dec_picture = stream.picture /\ ~WasDecoded(current_mb_nr)
    OBVIOUS
  <2>1. current_mb_nr \in Mbs /\ current_mb_nr \in Nat
    BY PictureSize DEF SliceInv, SliceTypeOK
  <2>2. current_mb_nr \notin stream.past
    <3>1. SameGroup(current_mb_nr, current_mb_nr)
      BY DEF SameGroup
    <3> QED
      BY <2>1, <3>1 DEF SliceInv, UnderWay
  <2>3. current_mb_nr \notin DecodedMbs
    BY <2>2 DEF SliceInv, DecodedPast, Begun
  <2> QED
    BY <2>3 DEF SliceInv, UnderWay, WasDecoded, DecodedMbs
<1>2. current_mb_nr = NoMb /\ stream.past = Mbs /\ stream.lost = 0 => num_dec_mb = FrameSizeInMbs
  <2> SUFFICES ASSUME current_mb_nr = NoMb, stream.past = Mbs, stream.lost = 0
               PROVE  num_dec_mb = FrameSizeInMbs
    OBVIOUS
  <2>1. Begun /\ DecodedMbs = stream.past
    BY PictureSize DEF SliceInv, DecodedPast
  <2> QED
    BY <2>1, DecodedCounted
<1>3. PicturesWhole
  BY <1>1, <1>2 DEF PicturesWhole, SliceInv, OpenOrWhole, DecodedMbs
<1> QED
  BY <1>3 DEF SlicesRight, SliceInv

LEMMA StartInv == SliceInit => SliceInv
<1> SUFFICES ASSUME NEW p \in ParameterSets, SliceStart(p)
             PROVE  SliceInv
  BY DEF SliceInit
<1>1. PICK c \in Cycles :
        stream = [picture |-> 0, pps |-> p, cycle |-> c, map |-> InMap(p, c), past |-> {}, cuts |-> 0, lost |-> 0]
  BY DEF SliceStart, NewPicture
<1>2. /\ current_mb_nr = NoMb /\ current_slice_nr = 0 /\ num_dec_mb = 0
      /\ slice_nr = [u \in Mbs |-> -1]
      /\ dec_picture = NoPicture /\ old_slice = NoPicture /\ decoded = <<>>
  BY DEF SliceStart
<1>3. /\ stream.picture = 0 /\ stream.pps = p /\ stream.cycle = c /\ stream.map = InMap(p, c)
      /\ stream.past = {} /\ stream.lost = 0
  BY <1>1
<1>4. SliceTypeOK
  <2>1. stream \in StreamState
    BY <1>1 DEF StreamState
  <2>2. decoded \in Seq(Decode)
    BY <1>2
  <2> QED
    BY <1>2, <1>3, <2>1, <2>2 DEF SliceTypeOK
<1>5. DecodedMbs = {} /\ Len(decoded) = 0
  BY <1>2 DEF DecodedMbs
<1>6. ~Begun
  BY <1>2, <1>3 DEF Begun, NoPicture
<1>7. Cardinality(DecodedMbs) = 0
  BY <1>5, FS_EmptySet
<1>8. NeighboursRight /\ SlicesInOrder
  BY <1>5 DEF NeighboursRight, SlicesInOrder
<1>9. PastInOrder /\ UnderWay /\ DecodedPast /\ NumbersSoFar
  BY <1>2, <1>3, <1>6 DEF PastInOrder, UnderWay, DecodedPast, NumbersSoFar
<1>10. OpenOrWhole
  BY <1>2 DEF OpenOrWhole
<1> QED
  BY <1>2, <1>4, <1>7, <1>8, <1>9, <1>10 DEF SliceInv

-----------------------------------------------------------------------------
LEMMA NeighboursKept ==
  ASSUME NeighboursRight, decoded' = decoded
  PROVE  NeighboursRight'
<1> DEFINE Usable(w, i, dx, dy) ==
             \E j \in 1 .. i - 1 : w[j].mb = Beside(w[i].mb, dx, dy) /\ w[j].slice = w[i].slice
           Right(w) ==
             \A i \in 1 .. Len(w) :
               w[i].neighbours = [A |-> Usable(w, i, -1, 0), B |-> Usable(w, i, 0, -1),
                                  C |-> Usable(w, i, 1, -1), D |-> Usable(w, i, -1, -1)]
<1>1. Right(decoded)
  BY Zenon DEF NeighboursRight, SameSlice
<1>2. NeighboursRight' <=> Right(decoded')
  BY DEF NeighboursRight, SameSlice, Beside, ColumnOf, RowOf, NoMb
<1> HIDE DEF Right
<1> QED
  BY <1>1, <1>2

(* A char tells the slice numbers of a picture apart, those it holds as they   *)
(* are and those that wrap to negative values, and -1 is none of them, if the  *)
(* picture has fewer macroblocks than a char has values.                       *)
LEMMA CharTellsApart ==
  ASSUME FrameSizeInMbs < 2 * HalfChar, NEW n \in 0 .. FrameSizeInMbs - 1
  PROVE  /\ Char(n) \in Int /\ Char(n) # -1
         /\ \A k \in 0 .. FrameSizeInMbs - 1 : Char(k) = Char(n) => k = n
<1>1. HalfChar \in Nat /\ FrameSizeInMbs \in Nat /\ HalfChar > 0
  BY SliceDecodingAssumption, PictureSize
<1>2. ASSUME NEW k \in 0 .. FrameSizeInMbs - 1
      PROVE  Char(k) = IF k < HalfChar THEN k ELSE k - 2 * HalfChar
  <2>1. k \in Nat /\ k + HalfChar \in Nat /\ 2 * HalfChar \in Nat /\ 2 * HalfChar > 0
    BY <1>1
  <2>2. CASE k < HalfChar
    <3>1. k + HalfChar \in 0 .. (2 * HalfChar) - 1 /\ k + HalfChar = (2 * HalfChar) * 0 + (k + HalfChar)
      BY <1>1, <2>1, <2>2
    <3>2. (k + HalfChar) % (2 * HalfChar) = k + HalfChar
      BY <2>1, <3>1, Quotient
    <3> QED
      BY <1>1, <2>2, <3>2 DEF Char
  <2>3. CASE ~(k < HalfChar)
    <3>1. k - HalfChar \in 0 .. (2 * HalfChar) - 1 /\ k + HalfChar = (2 * HalfChar) * 1 + (k - HalfChar)
      BY <1>1, <2>1, <2>3
    <3>2. (k + HalfChar) % (2 * HalfChar) = k - HalfChar
      BY <2>1, <3>1, Quotient
    <3> QED
      BY <1>1, <2>1, <2>3, <3>2 DEF Char
  <2> QED
    BY <2>2, <2>3
<1> QED
  BY <1>1, <1>2

(* A slice is read: it goes on where its group is, and may open a picture.    *)
LEMMA ReadSliceStep ==
  ASSUME SliceInv, ReadSlice, FrameSizeInMbs < 2 * HalfChar
  PROVE  SliceInv'
<1>1. PICK g \in GroupsAhead : current_mb_nr' = Min(Ahead(g))
  BY DEF ReadSlice
<1> DEFINE mb == current_mb_nr'
<1>2. mb \in Mbs /\ mb \notin stream.past /\ stream.map[mb] = g /\ \A m \in Ahead(g) : mb <= m
  <2>1. Ahead(g) # {} /\ Ahead(g) \subseteq Mbs /\ Ahead(g) \subseteq Nat
    BY PictureSize DEF GroupsAhead, Ahead
  <2> QED
    BY <1>1, <2>1, LeastOne DEF Ahead
<1>3. mb \in Nat /\ mb # NoMb /\ current_mb_nr = NoMb
  BY <1>2, PictureSize DEF ReadSlice, NoMb
<1>4. UNCHANGED <<stream, old_slice>>
  BY DEF ReadSlice
<1>5. \A m \in Mbs : SameGroup(m, mb) => (m \in stream.past <=> m < mb)
  <2> SUFFICES ASSUME NEW m \in Mbs, SameGroup(m, mb)
               PROVE  m \in stream.past <=> m < mb
    OBVIOUS
  <2>1. m \in Nat
    BY PictureSize
  <2>2. ASSUME m < mb PROVE m \in stream.past
    BY <1>2, <1>3, <2>1, <2>2 DEF Ahead, SameGroup
  <2>3. ASSUME m \in stream.past PROVE m < mb
    <3>1. m # mb
      BY <1>2, <2>3
    <3>2. ~(mb < m)
      BY <1>2, <2>3 DEF SliceInv, PastInOrder, SameGroup
    <3> QED
      BY <1>3, <2>1, <3>1, <3>2
  <2> QED
    BY <2>2, <2>3
<1>6. stream.pps.groups > 1 => MbToSliceGroupMap' = stream.map
  BY DEF ReadSlice, SliceInv, SliceTypeOK
<1>7. stream \in StreamState /\ stream.picture \in 0 .. 2
  BY DEF SliceInv, SliceTypeOK, StreamState
<1>8. PastInOrder'
  BY <1>4 DEF SliceInv, PastInOrder, SameGroup
<1>9. CASE old_slice # stream.picture
  <2>1. /\ current_slice_nr' = 0 /\ num_dec_mb' = 0 /\ slice_nr' = [u \in Mbs |-> -1]
        /\ dec_picture' = stream.picture /\ decoded' = <<>>
    BY <1>9 DEF ReadSlice
  <2>2. ~Begun /\ Begun'
    BY <1>3, <1>9 DEF Begun
  <2>3. DecodedMbs' = {} /\ Len(decoded') = 0 /\ decoded' \in Seq(Decode)
    BY <2>1 DEF DecodedMbs
  <2>4. Cardinality(DecodedMbs') = 0
    BY <2>3, FS_EmptySet
  <2>5. SliceTypeOK'
    BY <1>2, <1>4, <1>7, <2>1, <2>3 DEF SliceInv, SliceTypeOK
  <2>6. UnderWay'
    BY <1>4, <1>5, <1>6, <2>1, PictureSize DEF UnderWay, SameGroup
  <2>7. DecodedPast'
    BY <1>4, <2>2, <2>3 DEF SliceInv, DecodedPast
  <2>8. OpenOrWhole'
    BY <1>3, <1>7, <2>1 DEF OpenOrWhole, NoPicture
  <2>9. NumbersSoFar'
    <3>1. \A m \in Mbs, k \in 0 .. FrameSizeInMbs - 1 : slice_nr'[m] # Char(k)
      BY <2>1, CharTellsApart
    <3> QED
      BY <2>1, <2>3, <3>1 DEF NumbersSoFar
  <2>10. NeighboursRight' /\ SlicesInOrder'
    BY <2>3 DEF NeighboursRight, SlicesInOrder
  <2> QED
    BY <1>8, <2>1, <2>4, <2>5, <2>6, <2>7, <2>8, <2>9, <2>10 DEF SliceInv
<1>10. CASE old_slice = stream.picture
  <2>1. UNCHANGED <<current_slice_nr, num_dec_mb, slice_nr, dec_picture, decoded>>
    BY <1>10 DEF ReadSlice
  <2>2. Begun /\ Begun'
    BY <1>3, <1>10 DEF Begun
  <2>3. DecodedMbs \subseteq stream.past /\ DecodedMbs # Mbs
    BY <1>2, <2>2 DEF SliceInv, DecodedPast
  <2>4. num_dec_mb # FrameSizeInMbs /\ num_dec_mb < FrameSizeInMbs
    <3>1. num_dec_mb \in Nat /\ FrameSizeInMbs \in Nat
      BY PictureSize DEF SliceInv, SliceTypeOK
    <3> QED
      BY <2>3, <3>1, DecodedCounted
  <2>5. dec_picture = stream.picture /\ dec_picture # NoPicture
    BY <1>3, <1>7, <1>10, <2>4 DEF SliceInv, OpenOrWhole, NoPicture
  <2>6. DecodedMbs' = DecodedMbs
    BY <2>1 DEF DecodedMbs
  <2>7. SliceTypeOK'
    BY <1>2, <1>4, <2>1 DEF SliceInv, SliceTypeOK
  <2>8. UnderWay'
    BY <1>4, <1>5, <1>6, <2>1, <2>4, <2>5 DEF UnderWay, SameGroup
  <2>9. DecodedPast'
    BY <1>4, <2>2, <2>6 DEF SliceInv, DecodedPast
  <2>10. OpenOrWhole'
    BY <1>3, <2>1, <2>5 DEF OpenOrWhole
  <2>11. NumbersSoFar'
    <3>1. \A i \in 1 .. Len(decoded) : decoded[i].slice < current_slice_nr /\ decoded[i].slice \in Nat
      <4>1. \A i \in 1 .. Len(decoded) : decoded[i] \in Decode
        BY ElementOfSeq DEF SliceInv, SliceTypeOK
      <4> QED
        BY <1>3, <2>2, <2>5, <4>1 DEF SliceInv, NumbersSoFar, Decode
    <3>2. \A i \in 1 .. Len(decoded) : decoded[i].slice # current_slice_nr
      <4>1. current_slice_nr \in Nat
        BY DEF SliceInv, SliceTypeOK
      <4> QED
        BY <3>1, <4>1
    <3>3. current_slice_nr <= num_dec_mb /\ \A i \in 1 .. Len(decoded) : decoded[i].slice <= current_slice_nr
      BY <2>2, <2>5 DEF SliceInv, NumbersSoFar
    <3>4. \A m \in Mbs, k \in 0 .. FrameSizeInMbs - 1 :
            slice_nr[m] = Char(k) <=> \E i \in 1 .. Len(decoded) : decoded[i].mb = m /\ decoded[i].slice = k
      BY <2>2, <2>5 DEF SliceInv, NumbersSoFar
    <3> QED
      BY <1>3, <2>1, <3>2, <3>3, <3>4 DEF NumbersSoFar
  <2>12. NeighboursRight'
    BY <2>1, NeighboursKept DEF SliceInv
  <2>13. SlicesInOrder'
    BY <1>4, <2>1 DEF SliceInv, SlicesInOrder
  <2> QED
    BY <1>8, <2>1, <2>6, <2>7, <2>8, <2>9, <2>10, <2>11, <2>12, <2>13 DEF SliceInv
<1> QED
  BY <1>9, <1>10

(* The next macroblock is the next of the group, or there is none.           *)
LEMMA NextOne ==
  ASSUME SliceInv, current_mb_nr # NoMb
  PROVE  LET next == NextOf(current_mb_nr) IN
         /\ next \in Nat /\ current_mb_nr < next /\ next <= FrameSizeInMbs
         /\ next # FrameSizeInMbs => next \in Mbs /\ SameGroup(next, current_mb_nr)
         /\ \A m \in Mbs : current_mb_nr < m /\ m < next => ~SameGroup(m, current_mb_nr)
<1> DEFINE c == current_mb_nr
           next == NextOf(c)
<1>1. c \in Mbs /\ c \in Nat /\ FrameSizeInMbs \in Nat /\ c < FrameSizeInMbs
  BY PictureSize DEF SliceInv, SliceTypeOK
<1>2. stream.pps \in ParameterSets /\ stream.map = InMap(stream.pps, stream.cycle)
      /\ stream.pps.groups \in Nat \ {0}
  BY SliceDecodingAssumption DEF SliceInv, SliceTypeOK, StreamState
<1>3. CASE stream.pps.groups > 1
  <2> DEFINE K == {m \in c + 1 .. FrameSizeInMbs - 1 : MbToSliceGroupMap[m] = MbToSliceGroupMap[c]} \cup {FrameSizeInMbs}
  <2>1. K \subseteq Nat /\ FrameSizeInMbs \in K /\ K # {} /\ next = Min(K)
    BY <1>1, <1>3 DEF NextOf
  <2>2. next \in K /\ \A k \in K : next <= k
    BY <2>1, LeastOne
  <2>3. MbToSliceGroupMap = stream.map
    BY <1>3 DEF SliceInv, UnderWay
  <2>4. next \in Nat /\ c < next /\ next <= FrameSizeInMbs
    BY <1>1, <2>1, <2>2
  <2>5. next # FrameSizeInMbs => next \in Mbs /\ SameGroup(next, c)
    BY <1>1, <2>2, <2>3, <2>4, PictureSize DEF SameGroup
  <2>6. ASSUME NEW m \in Mbs, c < m, m < next PROVE ~SameGroup(m, c)
    <3>1. m \in Nat /\ m \in c + 1 .. FrameSizeInMbs - 1
      BY <1>1, <2>4, <2>6, PictureSize
    <3>2. m \notin K
      BY <2>2, <2>4, <2>6, <3>1
    <3> QED
      BY <2>3, <3>1, <3>2 DEF SameGroup
  <2> QED
    BY <2>4, <2>5, <2>6
<1>4. CASE stream.pps.groups = 1
  <2>1. stream.map = [u \in Mbs |-> 0]
    BY <1>2, <1>4 DEF InMap, MapUnitToSliceGroupMap
  <2>2. next = c + 1
    BY <1>4 DEF NextOf
  <2>3. next # FrameSizeInMbs => next \in Mbs
    BY <1>1, <2>2, PictureSize
  <2> QED
    BY <1>1, <2>1, <2>2, <2>3, PictureSize DEF SameGroup
<1> QED
  BY <1>2, <1>3, <1>4

-----------------------------------------------------------------------------
(* A macroblock is decoded: what is so whether or not the slice goes on.      *)

Decoded == [mb |-> current_mb_nr, slice |-> current_slice_nr,
            neighbours |-> Neighbours(current_mb_nr, slice_nr')]

LEMMA DecodedOne ==
  ASSUME SliceInv, DecodeMacroblock
  PROVE  /\ current_mb_nr \in Mbs /\ current_mb_nr \in Nat /\ current_mb_nr \notin stream.past
         /\ current_mb_nr # NoMb
         /\ current_mb_nr \notin DecodedMbs
         /\ Begun /\ dec_picture = stream.picture /\ dec_picture # NoPicture
         /\ num_dec_mb < FrameSizeInMbs /\ current_slice_nr <= num_dec_mb
         /\ num_dec_mb \in Nat /\ current_slice_nr \in Nat /\ FrameSizeInMbs \in Nat
         /\ slice_nr' = [slice_nr EXCEPT ![current_mb_nr] = Char(current_slice_nr)]
         /\ num_dec_mb' = num_dec_mb + 1
         /\ decoded' = Append(decoded, Decoded)
         /\ MbToSliceGroupMap' = MbToSliceGroupMap
         /\ stream' \in StreamState /\ stream'.past = stream.past \cup {current_mb_nr}
         /\ stream'.map = stream.map /\ stream'.pps = stream.pps /\ stream'.cycle = stream.cycle
         /\ stream'.picture = stream.picture /\ stream'.lost = stream.lost
<1>1. current_mb_nr # NoMb /\ current_mb_nr \in Mbs /\ current_mb_nr \in Nat
  BY PictureSize DEF DecodeMacroblock, SliceInv, SliceTypeOK
<1>2. current_mb_nr \notin stream.past
  <2>1. SameGroup(current_mb_nr, current_mb_nr)
    BY DEF SameGroup
  <2> QED
    BY <1>1, <2>1 DEF SliceInv, UnderWay
<1>3. Begun /\ current_mb_nr \notin DecodedMbs
  BY <1>1, <1>2 DEF Begun, SliceInv, DecodedPast
<1>4. dec_picture = stream.picture /\ num_dec_mb < FrameSizeInMbs /\ stream \in StreamState
  BY <1>1 DEF SliceInv, UnderWay, SliceTypeOK
<1>5. dec_picture # NoPicture
  BY <1>4 DEF StreamState, NoPicture
<1>6. current_slice_nr <= num_dec_mb
  BY <1>3, <1>5 DEF SliceInv, NumbersSoFar
<1>7. slice_nr' = [slice_nr EXCEPT ![current_mb_nr] = Char(current_slice_nr)]
      /\ num_dec_mb' = num_dec_mb + 1 /\ MbToSliceGroupMap' = MbToSliceGroupMap
      /\ decoded' = Append(decoded, Decoded)
  BY DEF DecodeMacroblock, Decoded
<1>8. \/ stream' = [stream EXCEPT !.past = @ \cup {current_mb_nr}, !.cuts = @ + 1]
      \/ stream' = [stream EXCEPT !.past = @ \cup {current_mb_nr}, !.cuts = @]
  <2>1. PICK ends \in BOOLEAN, next \in {NextOf(current_mb_nr)} :
          LET last == num_dec_mb + 1 = FrameSizeInMbs \/ next = FrameSizeInMbs
          IN  stream' = [stream EXCEPT !.past = @ \cup {current_mb_nr},
                                       !.cuts = IF ends /\ ~last THEN @ + 1 ELSE @]
    BY Zenon DEF DecodeMacroblock
  <2> QED
    BY <2>1
<1>9. /\ stream' \in StreamState /\ stream'.past = stream.past \cup {current_mb_nr}
      /\ stream'.map = stream.map /\ stream'.pps = stream.pps /\ stream'.cycle = stream.cycle
      /\ stream'.picture = stream.picture /\ stream'.lost = stream.lost
  <2>1. stream.cuts \in Nat /\ stream.past \cup {current_mb_nr} \in SUBSET Mbs
    BY <1>1, <1>4 DEF StreamState
  <2> DEFINE M == {InMap(p, c) : p \in ParameterSets, c \in Cycles}
             S == [picture : 0 .. 2, pps : ParameterSets, cycle : Cycles, map : M,
                   past : SUBSET Mbs, cuts : Nat, lost : Nat]
  <2>2. S = StreamState
    BY DEF StreamState
  <2> HIDE DEF M, S
  <2>5. stream \in S /\ S = [picture : 0 .. 2, pps : ParameterSets, cycle : Cycles, map : M,
                          past : SUBSET Mbs, cuts : Nat, lost : Nat]
    BY <1>4, <2>2 DEF S
  <2>3. CASE stream' = [stream EXCEPT !.past = @ \cup {current_mb_nr}, !.cuts = @ + 1]
    <3> DEFINE k == stream.cuts + 1
    <3>1. k \in Nat /\ stream' = [stream EXCEPT !.past = @ \cup {current_mb_nr}, !.cuts = k]
      BY <2>1, <2>3
    <3> HIDE DEF k
    <3> QED
      BY <2>5, <2>1, <2>2, <3>1
  <2>4. CASE stream' = [stream EXCEPT !.past = @ \cup {current_mb_nr}, !.cuts = @]
    BY <2>5, <2>1, <2>2, <2>4
  <2> QED
    BY <1>8, <2>3, <2>4
<1> QED
  BY <1>1, <1>2, <1>3, <1>4, <1>5, <1>6, <1>7, <1>9, PictureSize DEF SliceInv, SliceTypeOK

(* What is decoded is one more than before, the others as they were.          *)
LEMMA DecodedMore ==
  ASSUME SliceInv, DecodeMacroblock
  PROVE  /\ Len(decoded) \in Nat /\ Len(decoded') = Len(decoded) + 1
         /\ decoded'[Len(decoded) + 1] = Decoded /\ \A i \in 1 .. Len(decoded) : decoded'[i] = decoded[i]
         /\ DecodedMbs' = DecodedMbs \cup {current_mb_nr}
         /\ num_dec_mb' = Cardinality(DecodedMbs') /\ Decoded \in Decode /\ decoded' \in Seq(Decode)
<1>1. decoded \in Seq(Decode) /\ decoded' = Append(decoded, Decoded) /\ Len(decoded) \in Nat
  BY DecodedOne DEF SliceInv, SliceTypeOK
<1>2. Neighbours(current_mb_nr, slice_nr') \in [A : BOOLEAN, B : BOOLEAN, C : BOOLEAN, D : BOOLEAN]
  BY DEF Neighbours, mb_is_available
<1>3. Decoded \in Decode
  BY <1>2, DecodedOne DEF Decoded, Decode
<1>4. /\ decoded' \in Seq(Decode) /\ Len(decoded') = Len(decoded) + 1
      /\ decoded'[Len(decoded) + 1] = Decoded /\ \A i \in 1 .. Len(decoded) : decoded'[i] = decoded[i]
  BY <1>1, <1>3, AppendProperties
<1>5. DecodedMbs' = DecodedMbs \cup {current_mb_nr}
  <2>1. DecodedMbs' = {decoded'[i].mb : i \in 1 .. Len(decoded) + 1}
    BY <1>4 DEF DecodedMbs
  <2>2. Decoded.mb = current_mb_nr
    BY DEF Decoded
  <2>3. \A i \in 1 .. Len(decoded) + 1 : i \in 1 .. Len(decoded) \/ i = Len(decoded) + 1
    BY <1>1
  <2> QED
    BY <1>1, <1>4, <2>1, <2>2, <2>3 DEF DecodedMbs
<1>6. num_dec_mb' = Cardinality(DecodedMbs')
  <2>1. IsFiniteSet(DecodedMbs) /\ current_mb_nr \notin DecodedMbs
    BY DecodedCounted, DecodedOne
  <2>2. Cardinality(DecodedMbs \cup {current_mb_nr}) = Cardinality(DecodedMbs) + 1
    BY <2>1, FS_AddElement
  <2> QED
    BY <1>5, <2>2, DecodedOne DEF SliceInv
<1> QED
  BY <1>1, <1>3, <1>4, <1>5, <1>6

(* Where the slice numbers of the picture are kept, after one more.           *)
LEMMA DecodedNumbered ==
  ASSUME SliceInv, DecodeMacroblock, FrameSizeInMbs < 2 * HalfChar
  PROVE  /\ slice_nr' \in [Mbs -> Int] /\ slice_nr'[current_mb_nr] = Char(current_slice_nr)
         /\ current_slice_nr \in 0 .. FrameSizeInMbs - 1
         /\ \A m \in Mbs, k \in 0 .. FrameSizeInMbs - 1 :
              slice_nr'[m] = Char(k) <=> \E i \in 1 .. Len(decoded') : decoded'[i].mb = m /\ decoded'[i].slice = k
<1>1. current_slice_nr \in 0 .. FrameSizeInMbs - 1
  BY DecodedOne
<1>2. Char(current_slice_nr) \in Int
      /\ \A k \in 0 .. FrameSizeInMbs - 1 : Char(k) = Char(current_slice_nr) => k = current_slice_nr
  BY <1>1, CharTellsApart
<1>3. slice_nr \in [Mbs -> Int] /\ slice_nr' = [slice_nr EXCEPT ![current_mb_nr] = Char(current_slice_nr)]
  BY DecodedOne DEF SliceInv, SliceTypeOK
<1>4. slice_nr' \in [Mbs -> Int] /\ slice_nr'[current_mb_nr] = Char(current_slice_nr)
  BY <1>2, <1>3, DecodedOne
<1>5. Decoded.mb = current_mb_nr /\ Decoded.slice = current_slice_nr
  BY DEF Decoded
<1> DEFINE n == Len(decoded)
<1>6. n \in Nat /\ Len(decoded') = n + 1 /\ decoded'[n + 1] = Decoded /\ \A i \in 1 .. n : decoded'[i] = decoded[i]
  BY DecodedMore
<1>7. ASSUME NEW m \in Mbs, NEW k \in 0 .. FrameSizeInMbs - 1
      PROVE  slice_nr'[m] = Char(k) <=> \E i \in 1 .. Len(decoded') : decoded'[i].mb = m /\ decoded'[i].slice = k
  <2>1. CASE m = current_mb_nr
    <3>1. \A i \in 1 .. n : decoded'[i].mb # m
      BY <1>6, <2>1, DecodedOne DEF DecodedMbs
    <3>2. (\E i \in 1 .. n + 1 : decoded'[i].mb = m /\ decoded'[i].slice = k) <=> k = current_slice_nr
      BY <1>5, <1>6, <2>1, <3>1
    <3> QED
      BY <1>2, <1>4, <1>6, <2>1, <3>2
  <2>2. CASE m # current_mb_nr
    <3>1. slice_nr'[m] = slice_nr[m]
      BY <1>3, <2>2
    <3>2. slice_nr[m] = Char(k) <=> \E i \in 1 .. n : decoded[i].mb = m /\ decoded[i].slice = k
      BY DecodedOne DEF SliceInv, NumbersSoFar
    <3>3. (\E i \in 1 .. n + 1 : decoded'[i].mb = m /\ decoded'[i].slice = k)
          <=> \E i \in 1 .. n : decoded[i].mb = m /\ decoded[i].slice = k
      <4>1. \A i \in 1 .. n + 1 : decoded'[i].mb = m => i \in 1 .. n
        BY <1>5, <1>6, <2>2
      <4>2. \A i \in 1 .. n : i \in 1 .. n + 1
        BY <1>6
      <4> QED
        BY <1>6, <4>1, <4>2
    <3> QED
      BY <1>6, <3>1, <3>2, <3>3
  <2> QED
    BY <2>1, <2>2
<1> QED
  BY <1>1, <1>4, <1>7

(* The neighbours it used are those of its slice.                             *)
LEMMA DecodedNeighbours ==
  ASSUME SliceInv, DecodeMacroblock, FrameSizeInMbs < 2 * HalfChar
  PROVE  NeighboursRight'
<1>0. PICK n \in Nat : n = Len(decoded)
  BY DecodedMore
<1>13. PICK P : P = {m \in Mbs : \E j \in 1 .. n : decoded[j].mb = m /\ decoded[j].slice = current_slice_nr}
  OBVIOUS
<1>1. n \in Nat /\ n = Len(decoded) /\ Len(decoded') = n + 1 /\ decoded'[n + 1] = Decoded /\ \A i \in 1 .. n : decoded'[i] = decoded[i]
  BY <1>0, DecodedMore
<1>2. \A i \in 1 .. n : decoded[i].mb \in Mbs
  BY <1>0, DecodedCounted DEF DecodedMbs
<1>3. ASSUME NEW i \in 1 .. n + 1, NEW m
      PROVE  SameSlice(i, m)' <=> \E j \in 1 .. i - 1 : decoded[j].mb = m /\ decoded[j].slice = decoded'[i].slice
  <2>1. \A j \in 1 .. i - 1 : decoded'[j] = decoded[j]
    BY <1>1
  <2> QED
    BY <2>1 DEF SameSlice
<1>4. ASSUME NEW m PROVE SameSlice(n + 1, m)' <=> m \in P
  <2>1. SameSlice(n + 1, m)' <=> \E j \in 1 .. n : decoded[j].mb = m /\ decoded[j].slice = current_slice_nr
    BY <1>1, <1>3 DEF Decoded
  <2> QED
    BY <1>2, <1>13, <2>1
<1>5. ASSUME NEW i \in 1 .. n, NEW m PROVE SameSlice(i, m)' = SameSlice(i, m)
  <2>1. \A j \in 1 .. i - 1 : decoded'[j] = decoded[j] /\ decoded'[i] = decoded[i]
    BY <1>1
  <2> QED
    BY <2>1 DEF SameSlice
<1>6. \A m \in Mbs : m # current_mb_nr => (slice_nr'[m] = slice_nr'[current_mb_nr] <=> m \in P)
  <2> SUFFICES ASSUME NEW m \in Mbs, m # current_mb_nr
               PROVE  slice_nr'[m] = slice_nr'[current_mb_nr] <=> m \in P
    OBVIOUS
  <2>1. slice_nr'[current_mb_nr] = Char(current_slice_nr) /\ current_slice_nr \in 0 .. FrameSizeInMbs - 1
    BY DecodedNumbered
  <2>2. slice_nr'[m] = slice_nr[m]
    BY <2>1, DecodedOne DEF SliceInv, SliceTypeOK
  <2>3. slice_nr[m] = Char(current_slice_nr) <=> m \in P
    BY <1>1, <1>13, <2>1, DecodedOne DEF SliceInv, NumbersSoFar
  <2> QED
    BY <2>1, <2>2, <2>3
<1>7. Neighbours(current_mb_nr, slice_nr')
        = [A |-> Beside(current_mb_nr, -1, 0) \in P, B |-> Beside(current_mb_nr, 0, -1) \in P,
           C |-> Beside(current_mb_nr, 1, -1) \in P, D |-> Beside(current_mb_nr, -1, -1) \in P]
  <2>1. P \subseteq Mbs
    BY <1>13
  <2>2. current_mb_nr \in Mbs
    BY DecodedOne
  <2>5. PICK nrs : nrs = slice_nr'
    OBVIOUS
  <2>6. PICK mb \in Mbs : mb = current_mb_nr
    BY <2>2
  <2>3. \A m \in Mbs : m # mb => (nrs[m] = nrs[mb] <=> m \in P)
    BY <1>6, <2>5, <2>6
  <2>4. Neighbours(mb, nrs) = [A |-> Beside(mb, -1, 0) \in P, B |-> Beside(mb, 0, -1) \in P,
                               C |-> Beside(mb, 1, -1) \in P, D |-> Beside(mb, -1, -1) \in P]
    BY <2>1, <2>3, NeighboursBeside
  <2> QED
    BY <2>4, <2>5, <2>6
<1>8. \A i \in 1 .. n + 1 : i \in 1 .. n \/ i = n + 1
  BY <1>1
<1> DEFINE Right(i) ==
      decoded[i].neighbours = [A |-> SameSlice(i, Beside(decoded[i].mb, -1, 0)), B |-> SameSlice(i, Beside(decoded[i].mb, 0, -1)),
                               C |-> SameSlice(i, Beside(decoded[i].mb, 1, -1)), D |-> SameSlice(i, Beside(decoded[i].mb, -1, -1))]
<1>9. NeighboursRight <=> \A i \in 1 .. n : Right(i)
  BY <1>1 DEF NeighboursRight
<1>10. NeighboursRight' <=> \A i \in 1 .. n + 1 : Right(i)'
  BY <1>1 DEF NeighboursRight, Beside, ColumnOf, RowOf, NoMb
<1>11. ASSUME NEW i \in 1 .. n PROVE Right(i)'
  <2>1. Right(i)
    BY <1>9 DEF SliceInv
  <2> QED
    BY <1>1, <1>5, <2>1 DEF Beside, ColumnOf, RowOf, NoMb
<1>12. Right(n + 1)'
  <2>1. decoded'[n + 1].neighbours = Neighbours(current_mb_nr, slice_nr') /\ decoded'[n + 1].mb = current_mb_nr
    BY <1>1 DEF Decoded
  <2>2. \A m : SameSlice(n + 1, m)' \in BOOLEAN /\ (m \in P) \in BOOLEAN
    BY DEF SameSlice
  <2>3. \A m : SameSlice(n + 1, m)' = (m \in P)
    BY <1>4, <2>2
  <2> QED
    BY <1>7, <2>1, <2>3 DEF Beside, ColumnOf, RowOf, NoMb
<1> QED
  BY <1>8, <1>10, <1>11, <1>12
(* The order within its slice, and how the slice goes on or ends.             *)
LEMMA DecodedInOrder ==
  ASSUME SliceInv, DecodeMacroblock
  PROVE  SlicesInOrder'
<1>0. PICK n \in Nat : n = Len(decoded)
  BY DecodedMore
<1>1. Len(decoded') = n + 1 /\ decoded'[n + 1] = Decoded /\ \A i \in 1 .. n : decoded'[i] = decoded[i]
  BY <1>0, DecodedMore
<1>2. stream'.map = stream.map
  BY DecodedOne
<1> SUFFICES ASSUME NEW i \in 2 .. n + 1, decoded'[i].slice = decoded'[i - 1].slice
             PROVE  /\ decoded'[i].mb > decoded'[i - 1].mb
                    /\ stream.map[decoded'[i].mb] = stream.map[decoded'[i - 1].mb]
  BY <1>1, <1>2 DEF SlicesInOrder
<1>3. i - 1 \in 1 .. n /\ decoded'[i - 1] = decoded[i - 1]
  BY <1>0, <1>1
<1>4. CASE i \in 2 .. n
  <2>1. decoded'[i] = decoded[i]
    BY <1>0, <1>1, <1>4
  <2> QED
    BY <1>0, <1>3, <1>4, <2>1, DecodedOne DEF SliceInv, SlicesInOrder
<1>5. CASE i = n + 1
  <2>1. i - 1 = n /\ decoded'[i].mb = current_mb_nr /\ decoded'[i].slice = current_slice_nr
    BY <1>0, <1>1, <1>5 DEF Decoded
  <2>2. current_mb_nr # NoMb /\ dec_picture # NoPicture /\ Begun
    BY DecodedOne
  <2>3. decoded[i - 1].slice = current_slice_nr
    BY <1>3, <2>1
  <2>4. decoded[i - 1].mb < current_mb_nr /\ SameGroup(decoded[i - 1].mb, current_mb_nr)
    BY <1>0, <1>3, <2>2, <2>3 DEF SliceInv, NumbersSoFar
  <2>5. decoded[i - 1].mb \in Nat /\ current_mb_nr \in Nat
    <3>1. decoded[i - 1].mb \in DecodedMbs
      BY <1>0, <1>3 DEF DecodedMbs
    <3> QED
      BY <3>1, DecodedCounted, DecodedOne, PictureSize
  <2> QED
    BY <1>3, <2>1, <2>4, <2>5 DEF SameGroup
<1>6. i \in 2 .. n \/ i = n + 1
  BY <1>0
<1> QED
  BY <1>4, <1>5, <1>6

LEMMA SliceGoesOn ==
  ASSUME SliceInv, DecodeMacroblock
  PROVE  LET next == NextOf(current_mb_nr)
             done == num_dec_mb + 1 = FrameSizeInMbs
         IN  \/ /\ EndSlice(done)
             \/ /\ ~done /\ next # FrameSizeInMbs
                /\ current_mb_nr' = next /\ UNCHANGED <<old_slice, dec_picture, current_slice_nr>>
BY Zenon DEF DecodeMacroblock

LEMMA DecodeMacroblockStep ==
  ASSUME SliceInv, DecodeMacroblock, FrameSizeInMbs < 2 * HalfChar
  PROVE  SliceInv'
<1> DEFINE c == current_mb_nr
           next == NextOf(c)
           done == num_dec_mb + 1 = FrameSizeInMbs
<1>0. PICK n \in Nat : n = Len(decoded)
  BY DecodedMore
<1>1. /\ Len(decoded') = n + 1 /\ decoded'[n + 1] = Decoded /\ \A i \in 1 .. n : decoded'[i] = decoded[i]
      /\ Decoded.mb = c /\ Decoded.slice = current_slice_nr
  BY <1>0, DecodedMore DEF Decoded
<1>2. /\ c \in Mbs /\ c \in Nat /\ c # NoMb /\ Begun
      /\ num_dec_mb \in Nat /\ current_slice_nr \in Nat /\ FrameSizeInMbs \in Nat
      /\ num_dec_mb < FrameSizeInMbs /\ num_dec_mb' = num_dec_mb + 1
      /\ dec_picture = stream.picture /\ dec_picture # NoPicture /\ current_slice_nr <= num_dec_mb
  BY DecodedOne
<1>3. /\ stream' \in StreamState /\ stream'.past = stream.past \cup {c} /\ stream'.lost = stream.lost
      /\ stream'.map = stream.map /\ stream'.pps = stream.pps /\ stream'.cycle = stream.cycle
      /\ stream'.picture = stream.picture
  BY DecodedOne
<1>4. \A m \in Mbs : SameGroup(m, c) => (m \in stream.past <=> m < c)
  BY <1>2 DEF SliceInv, UnderWay
<1>5. PastInOrder'
  <2> SUFFICES ASSUME NEW m \in Mbs, NEW k \in Mbs, stream.map[m] = stream.map[k], m < k, k \in stream.past \cup {c}
               PROVE  m \in stream.past \cup {c}
    BY <1>3 DEF PastInOrder, SameGroup
  <2>1. CASE k \in stream.past
    BY <2>1 DEF SliceInv, PastInOrder, SameGroup
  <2>2. CASE k = c
    BY <1>4, <2>2 DEF SameGroup
  <2> QED
    BY <2>1, <2>2
<1>6. DecodedMbs' = DecodedMbs \cup {c} /\ num_dec_mb' = Cardinality(DecodedMbs') /\ decoded' \in Seq(Decode)
  BY DecodedMore
<1>7. \A i \in 1 .. n : decoded[i].slice \in Nat /\ decoded[i].mb \in Nat /\ decoded[i].mb \in Mbs
  <2>1. \A i \in 1 .. n : decoded[i] \in Decode
    BY <1>0, ElementOfSeq DEF SliceInv, SliceTypeOK
  <2> QED
    BY <2>1, PictureSize DEF Decode
<1>8. /\ \A i \in 1 .. n : decoded[i].slice <= current_slice_nr
      /\ \A i \in 1 .. n : decoded[i].slice = current_slice_nr => decoded[i].mb < c /\ SameGroup(decoded[i].mb, c)
  BY <1>0, <1>2 DEF SliceInv, NumbersSoFar
<1>9. /\ slice_nr' \in [Mbs -> Int]
      /\ \A m \in Mbs, k \in 0 .. FrameSizeInMbs - 1 :
           slice_nr'[m] = Char(k) <=> \E i \in 1 .. Len(decoded') : decoded'[i].mb = m /\ decoded'[i].slice = k
  BY DecodedNumbered
<1>10. DecodedMbs' \subseteq stream'.past /\ (stream'.lost = 0 => DecodedMbs' = stream'.past)
  BY <1>2, <1>3, <1>6 DEF SliceInv, DecodedPast
<1>11. stream.picture \in 0 .. 2 /\ stream'.map = InMap(stream'.pps, stream'.cycle)
  BY <1>3 DEF SliceInv, SliceTypeOK, StreamState
<1>12. CASE EndSlice(done)
  <2>1. current_mb_nr' = NoMb /\ old_slice' = stream.picture
    BY <1>12 DEF EndSlice
  <2>2. \/ done /\ dec_picture' = NoPicture /\ current_slice_nr' = 0
        \/ ~done /\ dec_picture' = stream.picture /\ current_slice_nr' = current_slice_nr + 1
    BY <1>2, <1>12 DEF EndSlice
  <2>3. Begun'
    BY <1>3, <2>1 DEF Begun
  <2>4. SliceTypeOK'
    BY <1>2, <1>3, <1>6, <1>9, <1>11, <2>1, <2>2 DEF SliceTypeOK, NoPicture, NoMb
  <2>5. UnderWay'
    BY <2>1 DEF UnderWay, NoMb
  <2>6. DecodedPast'
    BY <1>10, <2>3 DEF DecodedPast
  <2>7. OpenOrWhole'
    BY <1>2, <2>1, <2>2 DEF OpenOrWhole, NoPicture
  <2>8. NumbersSoFar'
    <3> SUFFICES ASSUME ~done, dec_picture' = stream.picture, current_slice_nr' = current_slice_nr + 1
                 PROVE  NumbersSoFar'
      BY <2>2 DEF NumbersSoFar, NoPicture
    <3>1. current_slice_nr' <= num_dec_mb'
      BY <1>2
    <3>2. ASSUME NEW i \in 1 .. n + 1 PROVE decoded'[i].slice <= current_slice_nr /\ decoded'[i].slice \in Nat
      <4>1. CASE i = n + 1
        BY <1>1, <1>2, <4>1
      <4>2. CASE i \in 1 .. n
        BY <1>1, <1>7, <1>8, <4>2
      <4> QED
        BY <1>0, <4>1, <4>2
    <3>3. \A i \in 1 .. Len(decoded') : decoded'[i].slice <= current_slice_nr' /\ decoded'[i].slice < current_slice_nr'
      BY <1>1, <1>2, <3>2
    <3> QED
      BY <1>9, <2>1, <3>1, <3>3 DEF NumbersSoFar, NoMb
  <2> QED
    BY <1>5, <1>6, <2>4, <2>5, <2>6, <2>7, <2>8, DecodedNeighbours, DecodedInOrder DEF SliceInv
<1>13. CASE /\ ~done /\ next # FrameSizeInMbs
            /\ current_mb_nr' = next /\ UNCHANGED <<old_slice, dec_picture, current_slice_nr>>
  <2>1. /\ next \in Nat /\ c < next /\ next \in Mbs /\ SameGroup(next, c) /\ next # NoMb
        /\ \A m \in Mbs : c < m /\ m < next => ~SameGroup(m, c)
    BY <1>2, <1>13, NextOne DEF NoMb
  <2>2. /\ current_mb_nr' = next /\ dec_picture' = dec_picture /\ current_slice_nr' = current_slice_nr
        /\ old_slice' = old_slice /\ num_dec_mb' < FrameSizeInMbs /\ current_mb_nr' # NoMb'
    BY <1>2, <1>13, <2>1 DEF NoMb
  <2>3. Begun'
    BY <2>2 DEF Begun
  <2>4. SliceTypeOK'
    BY <1>2, <1>3, <1>6, <1>9, <1>11, <2>1, <2>2 DEF SliceInv, SliceTypeOK
  <2>5. UnderWay'
    <3>1. \A m \in Mbs : stream.map[m] = stream.map[next] => (m \in stream.past \cup {c} <=> m < next)
      <4> SUFFICES ASSUME NEW m \in Mbs, stream.map[m] = stream.map[next]
                   PROVE  m \in stream.past \cup {c} <=> m < next
        OBVIOUS
      <4>1. m \in Nat /\ SameGroup(m, c)
        BY <2>1, PictureSize DEF SameGroup
      <4>2. m \in stream.past <=> m < c
        BY <1>4, <4>1
      <4>3. ~(c < m /\ m < next)
        BY <2>1, <4>1
      <4> QED
        BY <1>2, <2>1, <4>1, <4>2, <4>3
    <3>2. stream.pps.groups > 1 => MbToSliceGroupMap' = stream.map
      BY <1>2, DecodedOne DEF SliceInv, UnderWay
    <3> QED
      BY <1>2, <1>3, <2>2, <3>1, <3>2 DEF UnderWay, SameGroup
  <2>6. DecodedPast'
    BY <1>10, <2>3 DEF DecodedPast
  <2>7. OpenOrWhole'
    BY <1>2, <2>2 DEF OpenOrWhole, NoPicture
  <2>8. NumbersSoFar'
    <3>1. current_slice_nr' <= num_dec_mb'
      BY <1>2, <2>2
    <3>2. ASSUME NEW i \in 1 .. n + 1
          PROVE  /\ decoded'[i].slice <= current_slice_nr
                 /\ decoded'[i].slice = current_slice_nr =>
                      decoded'[i].mb < next /\ stream.map[decoded'[i].mb] = stream.map[next]
      <4>1. CASE i = n + 1
        BY <1>1, <1>2, <2>1, <4>1 DEF SameGroup
      <4>2. CASE i \in 1 .. n
        BY <1>1, <1>2, <1>7, <1>8, <2>1, <4>2 DEF SameGroup
      <4> QED
        BY <1>0, <4>1, <4>2
    <3> QED
      BY <1>1, <1>3, <1>9, <2>2, <3>1, <3>2 DEF NumbersSoFar, SameGroup
  <2> QED
    BY <1>5, <1>6, <2>4, <2>5, <2>6, <2>7, <2>8, DecodedNeighbours, DecodedInOrder DEF SliceInv
<1> QED
  BY <1>12, <1>13, SliceGoesOn
(* The rest of a slice is lost: more went by, and nothing else.               *)
LEMMA SliceLostStep ==
  ASSUME SliceInv, SliceLost
  PROVE  SliceInv'
<1>14. PICK g \in GroupsAhead : \E to \in Ahead(g) :
        stream' = [stream EXCEPT !.past = @ \cup {mb \in Ahead(g) : mb <= to}, !.lost = @ + 1,
                                 !.cuts = IF to = Max(Ahead(g)) THEN @ ELSE @ + 1]
  BY Zenon DEF SliceLost
<1>15. PICK to \in Ahead(g) :
        stream' = [stream EXCEPT !.past = @ \cup {mb \in Ahead(g) : mb <= to}, !.lost = @ + 1,
                                 !.cuts = IF to = Max(Ahead(g)) THEN @ ELSE @ + 1]
  BY <1>14, Zenon
<1> DEFINE k == IF to = Max(Ahead(g)) THEN stream.cuts ELSE stream.cuts + 1
<1>1. stream' = [stream EXCEPT !.past = @ \cup {mb \in Ahead(g) : mb <= to}, !.lost = @ + 1, !.cuts = k]
  BY <1>15, Zenon
<1>2. /\ current_mb_nr = NoMb
      /\ UNCHANGED <<MbToSliceGroupMap, current_mb_nr, current_slice_nr, num_dec_mb, slice_nr, dec_picture,
                     old_slice, decoded>>
  BY DEF SliceLost
<1> DEFINE gone == {mb \in Ahead(g) : mb <= to}
           M == {InMap(p, c) : p \in ParameterSets, c \in Cycles}
           S == [picture : 0 .. 2, pps : ParameterSets, cycle : Cycles, map : M,
                 past : SUBSET Mbs, cuts : Nat, lost : Nat]
<1>3. /\ stream' \in StreamState /\ stream'.past = stream.past \cup gone /\ stream'.lost \in Nat \ {0}
      /\ stream'.map = stream.map /\ stream'.pps = stream.pps /\ stream'.cycle = stream.cycle
      /\ stream'.picture = stream.picture
  <2>1. stream \in S /\ S = StreamState
    BY DEF StreamState, SliceInv, SliceTypeOK
  <2>2. stream.past \cup gone \in SUBSET Mbs /\ k \in Nat /\ stream.lost + 1 \in Nat \ {0}
    <3>1. stream.past \in SUBSET Mbs /\ stream.cuts \in Nat /\ stream.lost \in Nat
      BY <2>1
    <3> QED
      BY <3>1 DEF Ahead
  <2> DEFINE past == stream.past \cup gone
             lost == stream.lost + 1
  <2>3. stream' = [stream EXCEPT !.past = past, !.lost = lost, !.cuts = k]
    BY <1>1
  <2> HIDE DEF past, lost, M, k
  <2>4. stream' \in S /\ stream'.past = past /\ stream'.lost = lost
        /\ stream'.map = stream.map /\ stream'.pps = stream.pps /\ stream'.cycle = stream.cycle
        /\ stream'.picture = stream.picture
    BY <2>1, <2>2, <2>3 DEF past, lost
  <2> QED
    BY <2>1, <2>2, <2>4 DEF past, lost
<1>4. to \in Mbs /\ stream.map[to] = g /\ to \notin stream.past /\ Mbs \subseteq Nat
  BY PictureSize DEF Ahead
<1>5. PastInOrder'
  <2> SUFFICES ASSUME NEW m \in Mbs, NEW n \in Mbs, stream.map[m] = stream.map[n], m < n, n \in stream.past \cup gone
               PROVE  m \in stream.past \cup gone
    BY <1>3 DEF PastInOrder, SameGroup
  <2>1. CASE n \in stream.past
    BY <2>1 DEF SliceInv, PastInOrder, SameGroup
  <2>2. CASE n \in gone
    BY <1>4, <2>2 DEF Ahead
  <2> QED
    BY <2>1, <2>2
<1>6. DecodedMbs' = DecodedMbs /\ Begun' = Begun /\ (Begun \/ ~Begun)
  BY <1>2, <1>3 DEF DecodedMbs, Begun, NoMb
<1>7. SliceTypeOK'
  BY <1>2, <1>3 DEF SliceInv, SliceTypeOK
<1>8. UnderWay'
  BY <1>2 DEF UnderWay, NoMb
<1>9. DecodedPast'
  BY <1>3, <1>6 DEF SliceInv, DecodedPast
<1>10. OpenOrWhole'
  BY <1>2 DEF SliceInv, OpenOrWhole, NoMb, NoPicture
<1>11. NumbersSoFar'
  BY <1>2, <1>6 DEF SliceInv, NumbersSoFar, NoMb, NoPicture
<1>12. NeighboursRight'
  BY <1>2, NeighboursKept DEF SliceInv
<1>13. SlicesInOrder'
  BY <1>2, <1>3 DEF SliceInv, SlicesInOrder
<1> QED
  BY <1>2, <1>5, <1>6, <1>7, <1>8, <1>9, <1>10, <1>11, <1>12, <1>13 DEF SliceInv

(* The next picture: none of its slices was read, the last one's are kept.    *)
LEMMA NextPictureStep ==
  ASSUME SliceInv, NextPicture
  PROVE  SliceInv'
<1>1. PICK id \in 0 .. 2 \ {stream.picture, old_slice} : stream' \in NewPicture(id, stream.pps)
  BY DEF NextPicture
<1>2. /\ current_mb_nr = NoMb
      /\ UNCHANGED <<MbToSliceGroupMap, current_mb_nr, current_slice_nr, num_dec_mb, slice_nr, dec_picture,
                     old_slice, decoded>>
  BY DEF NextPicture
<1>3. stream.pps \in ParameterSets
  BY DEF SliceInv, SliceTypeOK, StreamState
<1>4. PICK c \in Cycles :
        stream' = [picture |-> id, pps |-> stream.pps, cycle |-> c, map |-> InMap(stream.pps, c),
                   past |-> {}, cuts |-> 0, lost |-> 0]
  BY <1>1 DEF NewPicture
<1>5. /\ stream'.picture = id /\ stream'.pps = stream.pps /\ stream'.cycle = c
      /\ stream'.map = InMap(stream.pps, c) /\ stream'.past = {} /\ stream'.lost = 0
  BY <1>4
<1>6. stream' \in StreamState
  BY <1>3, <1>4 DEF StreamState
<1>7. ~Begun' /\ current_mb_nr' = NoMb'
  BY <1>1, <1>2, <1>5 DEF Begun, NoMb
<1>8. DecodedMbs' = DecodedMbs
  BY <1>2 DEF DecodedMbs
<1>9. SliceTypeOK'
  BY <1>2, <1>5, <1>6 DEF SliceInv, SliceTypeOK
<1>10. PastInOrder' /\ UnderWay' /\ DecodedPast' /\ NumbersSoFar'
  BY <1>5, <1>7 DEF PastInOrder, UnderWay, DecodedPast, NumbersSoFar
<1>11. OpenOrWhole'
  BY <1>2 DEF SliceInv, OpenOrWhole, NoMb, NoPicture
<1>12. NeighboursRight'
  BY <1>2, NeighboursKept DEF SliceInv
<1>13. SlicesInOrder'
  <2>1. dec_picture' # stream'.picture
    BY <1>1, <1>2, <1>5 DEF SliceInv, OpenOrWhole, NoPicture
  <2> QED
    BY <1>2, <2>1 DEF SliceInv, SlicesInOrder
<1> QED
  BY <1>2, <1>8, <1>9, <1>10, <1>11, <1>12, <1>13 DEF SliceInv

LEMMA SliceStutter ==
  ASSUME SliceInv, UNCHANGED sliceVars
  PROVE  SliceInv'
<1>1. /\ UNCHANGED <<stream, MbToSliceGroupMap, current_mb_nr, current_slice_nr, num_dec_mb, slice_nr>>
      /\ UNCHANGED <<dec_picture, old_slice, decoded>>
  BY DEF sliceVars
<1>2. SliceTypeOK' /\ PastInOrder' /\ UnderWay' /\ DecodedPast' /\ OpenOrWhole'
  BY <1>1 DEF SliceInv, SliceTypeOK, PastInOrder, UnderWay, DecodedPast, OpenOrWhole, SameGroup, Begun, DecodedMbs,
              NoMb, NoPicture
<1>3. NumbersSoFar'
  BY <1>1 DEF SliceInv, NumbersSoFar, SameGroup, Begun, NoMb, NoPicture
<1>4. num_dec_mb' = Cardinality(DecodedMbs')
  BY <1>1 DEF SliceInv, DecodedMbs
<1>5. NeighboursRight'
  BY <1>1, NeighboursKept DEF SliceInv
<1>6. SlicesInOrder'
  BY <1>1 DEF SliceInv, SlicesInOrder
<1> QED
  BY <1>2, <1>3, <1>4, <1>5, <1>6 DEF SliceInv

(* image.c, macroblock.c: as long as a picture has fewer macroblocks than a    *)
(* char has values, so that slice numbers may wrap to negative values but none *)
(* meets another or the mark of a macroblock without a slice, a picture is     *)
(* closed when it is whole, no macroblock is decoded twice and each uses the   *)
(* neighbours of its own slice and no others, whatever the slice groups, the   *)
(* order of the slices and the losses.                                         *)
THEOREM SliceDecodingRight ==
  ASSUME FrameSizeInMbs < 2 * HalfChar
  PROVE  SliceSpec => []SlicesRight
<1>1. SliceInit => SliceInv
  BY StartInv
<1>2. SliceInv /\ [SliceNext]_sliceVars => SliceInv'
  BY ReadSliceStep, DecodeMacroblockStep, SliceLostStep, NextPictureStep, SliceStutter DEF SliceNext
<1>3. SliceInv => SlicesRight
  BY InvIsRight
<1> QED
  BY <1>1, <1>2, <1>3, PTL DEF SliceSpec

-----------------------------------------------------------------------------
(* Bytes and units *)

(* Something that is counted up step by step can be defined that way. *)
IsRecursion(f, n, S, a, g) == f \in [0 .. n -> S] /\ f[0] = a /\ \A k \in 1 .. n : f[k] = g[<<f[k - 1], k>>]

(* A function with a first value and a step has the values the step gives. *)
LEMMA Recursion ==
  ASSUME NEW n \in Nat, NEW S, NEW a \in S, NEW g, \A k \in 1 .. n, s \in S : g[<<s, k>>] \in S
  PROVE  \E f : IsRecursion(f, n, S, a, g)
<1> DEFINE SumIs(m) == \E f \in [0 .. m -> S] : f[0] = a /\ \A k \in 1 .. m : f[k] = g[<<f[k - 1], k>>]
           Failing == {m \in 0 .. n : ~SumIs(m)}
<1>1. SumIs(0)
  <2>1. [k \in 0 .. 0 |-> a] \in [0 .. 0 -> S] /\ [k \in 0 .. 0 |-> a][0] = a /\ 1 .. 0 = {}
    OBVIOUS
  <2> QED
    BY <2>1
<1>2. ASSUME NEW m \in 1 .. n, SumIs(m - 1)
      PROVE  SumIs(m)
  <2>1. PICK f \in [0 .. m - 1 -> S] : f[0] = a /\ \A k \in 1 .. m - 1 : f[k] = g[<<f[k - 1], k>>]
    BY <1>2
  <2>2. PICK v \in S : v = g[<<f[m - 1], m>>]
    BY <2>1
  <2>3. PICK h : h = [k \in 0 .. m |-> IF k = m THEN v ELSE f[k]]
    OBVIOUS
  <2>4. h \in [0 .. m -> S] /\ h[0] = a
    BY <2>1, <2>3
  <2>5. \A k \in 1 .. m : h[k] = g[<<h[k - 1], k>>]
    <3> SUFFICES ASSUME NEW k \in 1 .. m PROVE h[k] = g[<<h[k - 1], k>>]
      OBVIOUS
    <3>1. h[k - 1] = f[k - 1]
      BY <2>3
    <3>2. CASE k = m
      <4>1. h[k] = v
        BY <2>3, <3>2
      <4> QED
        BY <2>2, <3>1, <3>2, <4>1, Zenon
    <3>3. CASE k # m
      <4>1. h[k] = f[k] /\ k \in 1 .. m - 1
        BY <2>3, <3>3
      <4> QED
        BY <2>1, <3>1, <4>1, Zenon
    <3> QED
      BY <3>2, <3>3
  <2> QED
    BY <2>4, <2>5, Zenon
<1> HIDE DEF SumIs
<1>3. Failing = {}
  <2> SUFFICES ASSUME Failing # {} PROVE FALSE
    OBVIOUS
  <2>1. IsWellFoundedOn(OpToRel(<, Nat), Nat)
    BY NatLessThanWellFounded
  <2>2. Failing \subseteq Nat
    OBVIOUS
  <2>3. PICK m \in Failing : \A j \in Failing : ~(<<j, m>> \in OpToRel(<, Nat))
    BY <2>1, <2>2, WFMin
  <2>4. m \in 0 .. n /\ ~SumIs(m)
    OBVIOUS
  <2>5. CASE m = 0
    BY <2>4, <2>5, <1>1
  <2>6. CASE m # 0
    <3>1. m \in 1 .. n /\ m - 1 \in 0 .. n /\ m - 1 < m /\ m - 1 \in Nat /\ m \in Nat
      BY <2>4, <2>6
    <3>2. ~(m - 1 \in Failing)
      BY <2>3, <3>1 DEF OpToRel
    <3>3. SumIs(m - 1)
      BY <3>1, <3>2
    <3> QED
      BY <1>2, <2>4, <3>1, <3>3
  <2> QED
    BY <2>5, <2>6
<1>4. SumIs(n)
  BY <1>3
<1> QED
  BY <1>4 DEF SumIs, IsRecursion

(* What holds at the start and is handed on holds all along. *)
LEMMA Along ==
  ASSUME NEW n \in Nat, NEW f, NEW J, f[0] \in J[0], \A k \in 1 .. n : f[k - 1] \in J[k - 1] => f[k] \in J[k]
  PROVE  \A k \in 0 .. n : f[k] \in J[k]
<1> DEFINE Failing == {m \in 0 .. n : f[m] \notin J[m]}
<1>1. ASSUME Failing # {} PROVE FALSE
  <2>1. IsWellFoundedOn(OpToRel(<, Nat), Nat)
    BY NatLessThanWellFounded
  <2>2. Failing \subseteq Nat
    OBVIOUS
  <2>3. PICK m \in Failing : \A j \in Failing : ~(<<j, m>> \in OpToRel(<, Nat))
    BY <1>1, <2>1, <2>2, WFMin
  <2>4. m \in 0 .. n /\ f[m] \notin J[m]
    OBVIOUS
  <2>5. m \in 1 .. n /\ m - 1 \in 0 .. n /\ m - 1 < m /\ m - 1 \in Nat /\ m \in Nat
    BY <2>4
  <2>6. ~(m - 1 \in Failing)
    BY <2>3, <2>5 DEF OpToRel
  <2>7. f[m - 1] \in J[m - 1]
    BY <2>5, <2>6
  <2> QED
    BY <2>4, <2>5, <2>7
<1> QED
  BY <1>1

Bytes == 0 .. 255

(* Encapsulate(), byte by byte. *)
LEMMA EmulatingIs ==
  ASSUME NEW p \in Seq(Bytes)
  PROVE  LET F == Emulating(p)
         IN  /\ F[0] = <<>> /\ \A k \in 0 .. Len(p) : F[k] \in Seq(Bytes)
             /\ \A k \in 1 .. Len(p) : F[k] = Encapsulate(F[k - 1], p[k])
<1> DEFINE n == Len(p)
           IsFilled(F) == F = [k \in 0 .. n |-> IF k = 0 THEN <<>> ELSE Encapsulate(F[k - 1], p[k])]
<1>1. n \in Nat /\ \A k \in 1 .. n : p[k] \in Bytes
  OBVIOUS
<1>2. \A k \in 1 .. n, s \in Seq(Bytes) : Encapsulate(s, p[k]) \in Seq(Bytes)
  <2> SUFFICES ASSUME NEW k \in 1 .. n, NEW s \in Seq(Bytes) PROVE Encapsulate(s, p[k]) \in Seq(Bytes)
    OBVIOUS
  <2>1. PICK e \in Bytes : e = p[k]
    BY <1>1
  <2>2. Append(s, e) \in Seq(Bytes)
    BY <2>1
  <2>3. <<3, e>> \in Seq(Bytes)
    BY <2>1 DEF Bytes
  <2>4. s \o <<3, e>> \in Seq(Bytes)
    BY <2>3, ConcatProperties, Zenon
  <2> QED
    BY <2>1, <2>2, <2>4, Zenon DEF Encapsulate
<1> HIDE DEF n
<1>3. \E F : IsFilled(F)
  <2>1. PICK g : g = [x \in Seq(Bytes) \X (1 .. n) |-> Encapsulate(x[1], p[x[2]])]
    OBVIOUS
  <2>2. \A k \in 1 .. n, s \in Seq(Bytes) : g[<<s, k>>] = Encapsulate(s, p[k])
    BY <2>1
  <2>3. PICK F : F \in [0 .. n -> Seq(Bytes)] /\ F[0] = <<>> /\ \A k \in 1 .. n : F[k] = g[<<F[k - 1], k>>]
    <3>1. PICK S, a : S = Seq(Bytes) /\ a = <<>>
      OBVIOUS
    <3>2. a \in S /\ \A k \in 1 .. n, s \in S : g[<<s, k>>] \in S
      BY <1>2, <2>2, <3>1
    <3>3. PICK F : IsRecursion(F, n, S, a, g)
      BY <1>1, <3>2, Recursion, Zenon
    <3> QED
      BY <3>1, <3>3 DEF IsRecursion
  <2>4. \A k \in 1 .. n : F[k] = Encapsulate(F[k - 1], p[k])
    <3> SUFFICES ASSUME NEW k \in 1 .. n PROVE F[k] = Encapsulate(F[k - 1], p[k])
      OBVIOUS
    <3>1. k - 1 \in 0 .. n
      BY <1>1
    <3>2. F[k - 1] \in Seq(Bytes)
      BY <2>3, <3>1
    <3> QED
      BY <2>2, <2>3, <3>2, Zenon
  <2>5. \A k \in 0 .. n : F[k] = IF k = 0 THEN <<>> ELSE Encapsulate(F[k - 1], p[k])
    <3>1. \A k \in 0 .. n : k = 0 \/ k \in 1 .. n
      BY <1>1
    <3> QED
      BY <2>3, <2>4, <3>1, Zenon
  <2>6. F = [k \in 0 .. n |-> F[k]]
    BY <2>3, Zenon
  <2>7. IsFilled(F)
    BY <2>5, <2>6, Zenon
  <2> QED
    BY <2>7
<1>4. Emulating(p) = CHOOSE F : IsFilled(F)
  BY Zenon DEF Emulating, n
<1>5. PICK F : F = Emulating(p) /\ IsFilled(F)
  <2> HIDE DEF IsFilled
  <2>1. IsFilled(CHOOSE F : IsFilled(F))
    BY <1>3, Zenon
  <2> QED
    BY <1>4, <2>1, Zenon
<1>6. F[0] = <<>> /\ \A k \in 1 .. n : F[k] = Encapsulate(F[k - 1], p[k])
  <2>1. 0 \in 0 .. n /\ \A k \in 1 .. n : k \in 0 .. n /\ k # 0
    BY <1>1
  <2>2. \A k \in 0 .. n : F[k] = IF k = 0 THEN <<>> ELSE Encapsulate(F[k - 1], p[k])
    BY <1>5, Zenon
  <2> QED
    BY <2>1, <2>2, Zenon
<1>7. PICK J : J = [k \in 0 .. n |-> Seq(Bytes)]
  OBVIOUS
<1>8. \A k \in 0 .. n : J[k] = Seq(Bytes)
  BY <1>7
<1>9. F[0] \in J[0] /\ \A k \in 1 .. n : F[k - 1] \in J[k - 1] => F[k] \in J[k]
  <2>1. 0 \in 0 .. n /\ \A k \in 1 .. n : k \in 0 .. n /\ k - 1 \in 0 .. n
    BY <1>1
  <2>2. <<>> \in Seq(Bytes)
    OBVIOUS
  <2> QED
    BY <1>2, <1>6, <1>8, <2>1, <2>2, Zenon
<1>10. \A k \in 0 .. n : F[k] \in J[k]
  BY <1>1, <1>9, Along
<1> QED
  BY <1>5, <1>6, <1>8, <1>10, Zenon DEF n


(* What the two loops that take the emulation bytes out have done so far. *)
Unescaped == [bytes : Seq(Bytes), zeros : Nat]
Shortened == [bytes : Seq(Bytes), left : 0 .. 3, copyflag : BOOLEAN]

(* EBSPtoRBSP(), byte by byte. *)
LEMMA UnescapingIs ==
  ASSUME NEW b \in Seq(Bytes), Len(b) > 0
  PROVE  LET F == Unescaping(b)
         IN  /\ F[0] = [bytes |-> <<b[1]>>, zeros |-> 0] /\ \A k \in 0 .. Len(b) - 1 : F[k] \in Unescaped
             /\ \A k \in 1 .. Len(b) - 1 : F[k] = Unescape(F[k - 1], b[k + 1])
<1> DEFINE n == Len(b) - 1
           IsFilled(F) == F = [k \in 0 .. n |-> IF k = 0 THEN [bytes |-> <<b[1]>>, zeros |-> 0] ELSE Unescape(F[k - 1], b[k + 1])]
<1>1. n \in Nat
  OBVIOUS
<1>2. \A k \in 1 .. n, s \in Unescaped : Unescape(s, b[k + 1]) \in Unescaped
  <2> SUFFICES ASSUME NEW k \in 1 .. n, NEW s \in Unescaped PROVE Unescape(s, b[k + 1]) \in Unescaped
    OBVIOUS
  <2>1. PICK e \in Bytes : e = b[k + 1]
    OBVIOUS
  <2>2. Unescape(s, e) \in Unescaped
    <3>1. Append(s.bytes, e) \in Seq(Bytes) /\ s.zeros \in Nat
      BY DEF Unescaped
    <3> QED
      BY <3>1 DEF Unescape, Unescaped
  <2> QED
    BY <2>1, <2>2
<1>0. [bytes |-> <<b[1]>>, zeros |-> 0] \in Unescaped
  <2>1. b[1] \in Bytes
    OBVIOUS
  <2> QED
    BY <2>1 DEF Unescaped
<1> HIDE DEF n
<1>3. \E F : IsFilled(F)
  <2>1. PICK g : g = [x \in Unescaped \X (1 .. n) |-> Unescape(x[1], b[x[2] + 1])]
    OBVIOUS
  <2>2. \A k \in 1 .. n, s \in Unescaped : g[<<s, k>>] = Unescape(s, b[k + 1])
    BY <2>1
  <2>3. PICK F : F \in [0 .. n -> Unescaped] /\ F[0] = [bytes |-> <<b[1]>>, zeros |-> 0] /\ \A k \in 1 .. n : F[k] = g[<<F[k - 1], k>>]
    <3>1. PICK S, a : S = Unescaped /\ a = [bytes |-> <<b[1]>>, zeros |-> 0]
      OBVIOUS
    <3>2. a \in S /\ \A k \in 1 .. n, s \in S : g[<<s, k>>] \in S
      BY <1>0, <1>2, <2>2, <3>1, Zenon
    <3>3. PICK F : IsRecursion(F, n, S, a, g)
      BY <1>1, <3>2, Recursion, Zenon
    <3> QED
      BY <3>1, <3>3, Zenon DEF IsRecursion
  <2>4. \A k \in 1 .. n : F[k] = Unescape(F[k - 1], b[k + 1])
    <3> SUFFICES ASSUME NEW k \in 1 .. n PROVE F[k] = Unescape(F[k - 1], b[k + 1])
      OBVIOUS
    <3>1. k - 1 \in 0 .. n
      BY <1>1
    <3>2. F[k - 1] \in Unescaped
      BY <2>3, <3>1
    <3> QED
      BY <2>2, <2>3, <3>2, Zenon
  <2>5. \A k \in 0 .. n : F[k] = IF k = 0 THEN [bytes |-> <<b[1]>>, zeros |-> 0] ELSE Unescape(F[k - 1], b[k + 1])
    <3>1. \A k \in 0 .. n : k = 0 \/ k \in 1 .. n
      BY <1>1
    <3> QED
      BY <2>3, <2>4, <3>1, Zenon
  <2>6. F = [k \in 0 .. n |-> F[k]]
    BY <2>3, Zenon
  <2>7. IsFilled(F)
    BY <2>5, <2>6, Zenon
  <2> QED
    BY <2>7
<1>4. Unescaping(b) = CHOOSE F : IsFilled(F)
  BY Zenon DEF Unescaping, n
<1>5. PICK F : F = Unescaping(b) /\ IsFilled(F)
  <2> HIDE DEF IsFilled
  <2>1. IsFilled(CHOOSE F : IsFilled(F))
    BY <1>3, Zenon
  <2> QED
    BY <1>4, <2>1, Zenon
<1>6. F[0] = [bytes |-> <<b[1]>>, zeros |-> 0] /\ \A k \in 1 .. n : F[k] = Unescape(F[k - 1], b[k + 1])
  <2>1. 0 \in 0 .. n /\ \A k \in 1 .. n : k \in 0 .. n /\ k # 0
    BY <1>1
  <2>2. \A k \in 0 .. n : F[k] = IF k = 0 THEN [bytes |-> <<b[1]>>, zeros |-> 0] ELSE Unescape(F[k - 1], b[k + 1])
    BY <1>5, Zenon
  <2> QED
    BY <2>1, <2>2, Zenon
<1>7. PICK J : J = [k \in 0 .. n |-> Unescaped]
  OBVIOUS
<1>8. \A k \in 0 .. n : J[k] = Unescaped
  BY <1>7
<1>9. F[0] \in J[0] /\ \A k \in 1 .. n : F[k - 1] \in J[k - 1] => F[k] \in J[k]
  <2>1. 0 \in 0 .. n /\ \A k \in 1 .. n : k \in 0 .. n /\ k - 1 \in 0 .. n
    BY <1>1
  <2>2. F[0] \in Unescaped
    BY <1>0, <1>6
  <2>3. ASSUME NEW k \in 1 .. n, F[k - 1] \in Unescaped PROVE F[k] \in Unescaped
    BY <1>2, <1>6, <2>3, Zenon
  <2> QED
    BY <1>8, <2>1, <2>2, <2>3, Zenon
<1>10. \A k \in 0 .. n : F[k] \in J[k]
  BY <1>1, <1>9, Along
<1> QED
  BY <1>5, <1>6, <1>8, <1>10, Zenon DEF n

(* NALUtoRBSP(), byte by byte. *)
LEMMA ShorteningIs ==
  ASSUME NEW b \in Seq(Bytes), Len(b) > 0
  PROVE  LET F == Shortening(b)
         IN  /\ F[0] = [bytes |-> <<b[1]>>, left |-> 0, copyflag |-> FALSE] /\ \A k \in 0 .. Len(b) - 1 : F[k] \in Shortened
             /\ \A k \in 1 .. Len(b) - 1 : F[k] = Shorten(F[k - 1], b, k + 1)
<1> DEFINE n == Len(b) - 1
           IsFilled(F) == F = [k \in 0 .. n |-> IF k = 0 THEN [bytes |-> <<b[1]>>, left |-> 0, copyflag |-> FALSE] ELSE Shorten(F[k - 1], b, k + 1)]
<1>1. n \in Nat
  OBVIOUS
<1>2. \A k \in 1 .. n, s \in Shortened : Shorten(s, b, k + 1) \in Shortened
  <2> SUFFICES ASSUME NEW k \in 1 .. n, NEW s \in Shortened PROVE Shorten(s, b, k + 1) \in Shortened
    OBVIOUS
  <2>1. PICK e \in Bytes : e = b[k + 1]
    OBVIOUS
  <2>2. Append(s.bytes, e) \in Seq(Bytes) /\ s.bytes \in Seq(Bytes) /\ s.left \in 0 .. 3 /\ s.copyflag \in BOOLEAN
    BY DEF Shortened
  <2>3. PICK left \in 0 .. 3 : left = CASE s.left = 0 -> (IF EmulationAt(b, k + 1) THEN 3 ELSE 0)
                                         [] s.left = 3 -> 2
                                         [] s.left = 2 -> (IF s.copyflag THEN 1 ELSE 0)
                                         [] s.left = 1 -> 0
    BY <2>2
  <2>4. PICK bytes \in Seq(Bytes) : bytes = IF s.left = 2 THEN s.bytes ELSE Append(s.bytes, b[k + 1])
    BY <2>1, <2>2
  <2>5. PICK flag \in BOOLEAN : flag = (s.copyflag \/ s.left = 2)
    OBVIOUS
  <2>6. [bytes |-> bytes, left |-> left, copyflag |-> flag] \in Shortened
    BY DEF Shortened
  <2> QED
    BY <2>3, <2>4, <2>5, <2>6, Zenon DEF Shorten
<1>0. [bytes |-> <<b[1]>>, left |-> 0, copyflag |-> FALSE] \in Shortened
  <2>1. b[1] \in Bytes
    OBVIOUS
  <2> QED
    BY <2>1 DEF Shortened
<1> HIDE DEF n
<1>3. \E F : IsFilled(F)
  <2>1. PICK g : g = [x \in Shortened \X (1 .. n) |-> Shorten(x[1], b, x[2] + 1)]
    OBVIOUS
  <2>2. \A k \in 1 .. n, s \in Shortened : g[<<s, k>>] = Shorten(s, b, k + 1)
    BY <2>1
  <2>3. PICK F : F \in [0 .. n -> Shortened] /\ F[0] = [bytes |-> <<b[1]>>, left |-> 0, copyflag |-> FALSE] /\ \A k \in 1 .. n : F[k] = g[<<F[k - 1], k>>]
    <3>1. PICK S, a : S = Shortened /\ a = [bytes |-> <<b[1]>>, left |-> 0, copyflag |-> FALSE]
      OBVIOUS
    <3>2. a \in S /\ \A k \in 1 .. n, s \in S : g[<<s, k>>] \in S
      BY <1>0, <1>2, <2>2, <3>1, Zenon
    <3>3. PICK F : IsRecursion(F, n, S, a, g)
      BY <1>1, <3>2, Recursion, Zenon
    <3> QED
      BY <3>1, <3>3, Zenon DEF IsRecursion
  <2>4. \A k \in 1 .. n : F[k] = Shorten(F[k - 1], b, k + 1)
    <3> SUFFICES ASSUME NEW k \in 1 .. n PROVE F[k] = Shorten(F[k - 1], b, k + 1)
      OBVIOUS
    <3>1. k - 1 \in 0 .. n
      BY <1>1
    <3>2. F[k - 1] \in Shortened
      BY <2>3, <3>1
    <3> QED
      BY <2>2, <2>3, <3>2, Zenon
  <2>5. \A k \in 0 .. n : F[k] = IF k = 0 THEN [bytes |-> <<b[1]>>, left |-> 0, copyflag |-> FALSE] ELSE Shorten(F[k - 1], b, k + 1)
    <3>1. \A k \in 0 .. n : k = 0 \/ k \in 1 .. n
      BY <1>1
    <3> QED
      BY <2>3, <2>4, <3>1, Zenon
  <2>6. F = [k \in 0 .. n |-> F[k]]
    BY <2>3, Zenon
  <2>7. IsFilled(F)
    BY <2>5, <2>6, Zenon
  <2> QED
    BY <2>7
<1>4. Shortening(b) = CHOOSE F : IsFilled(F)
  BY Zenon DEF Shortening, n
<1>5. PICK F : F = Shortening(b) /\ IsFilled(F)
  <2> HIDE DEF IsFilled
  <2>1. IsFilled(CHOOSE F : IsFilled(F))
    BY <1>3, Zenon
  <2> QED
    BY <1>4, <2>1, Zenon
<1>6. F[0] = [bytes |-> <<b[1]>>, left |-> 0, copyflag |-> FALSE] /\ \A k \in 1 .. n : F[k] = Shorten(F[k - 1], b, k + 1)
  <2>1. 0 \in 0 .. n /\ \A k \in 1 .. n : k \in 0 .. n /\ k # 0
    BY <1>1
  <2>2. \A k \in 0 .. n : F[k] = IF k = 0 THEN [bytes |-> <<b[1]>>, left |-> 0, copyflag |-> FALSE] ELSE Shorten(F[k - 1], b, k + 1)
    BY <1>5, Zenon
  <2> QED
    BY <2>1, <2>2, Zenon
<1>7. PICK J : J = [k \in 0 .. n |-> Shortened]
  OBVIOUS
<1>8. \A k \in 0 .. n : J[k] = Shortened
  BY <1>7
<1>9. F[0] \in J[0] /\ \A k \in 1 .. n : F[k - 1] \in J[k - 1] => F[k] \in J[k]
  <2>1. 0 \in 0 .. n /\ \A k \in 1 .. n : k \in 0 .. n /\ k - 1 \in 0 .. n
    BY <1>1
  <2>2. F[0] \in Shortened
    BY <1>0, <1>6
  <2>3. ASSUME NEW k \in 1 .. n, F[k - 1] \in Shortened PROVE F[k] \in Shortened
    BY <1>2, <1>6, <2>3, Zenon
  <2> QED
    BY <1>8, <2>1, <2>2, <2>3, Zenon
<1>10. \A k \in 0 .. n : F[k] \in J[k]
  BY <1>1, <1>9, Along
<1> QED
  BY <1>5, <1>6, <1>8, <1>10, Zenon DEF n

(* No start code inside, and no emulation byte at the end. *)
Plain(s) ==
  /\ \A i \in 1 .. Len(s) - 2 : s[i] = 0 /\ s[i + 1] = 0 => s[i + 2] >= 3
  /\ Len(s) >= 3 /\ s[Len(s) - 2] = 0 /\ s[Len(s) - 1] = 0 => s[Len(s)] > 3

(* One byte more, with an emulation byte before it where one is needed. *)
LEMMA EmulateKeeps ==
  ASSUME NEW s \in Seq(Bytes), Plain(s), NEW e \in Bytes
  PROVE  LET t == Encapsulate(s, e)
         IN  /\ t \in Seq(Bytes) /\ Len(t) > Len(s) /\ t[Len(t)] = e /\ Plain(t)
             /\ \A i \in 1 .. Len(s) : t[i] = s[i]
             /\ EndsInZeros(s) /\ e <= 3 => Len(t) = Len(s) + 2 /\ t[Len(s) + 1] = 3
             /\ ~(EndsInZeros(s) /\ e <= 3) => Len(t) = Len(s) + 1
<1>1. CASE EndsInZeros(s) /\ e <= 3
  <2>1. PICK t : t = s \o <<3, e>>
    OBVIOUS
  <2>2. t = Encapsulate(s, e)
    BY <1>1, <2>1 DEF Encapsulate
  <2>3. <<3, e>> \in Seq(Bytes) /\ Len(<<3, e>>) = 2 /\ <<3, e>>[1] = 3 /\ <<3, e>>[2] = e
    BY DEF Bytes
  <2>4. /\ t \in Seq(Bytes) /\ Len(t) = Len(s) + 2
        /\ \A i \in 1 .. Len(s) + 2 : t[i] = IF i <= Len(s) THEN s[i] ELSE <<3, e>>[i - Len(s)]
    BY <2>1, <2>3, ConcatProperties
  <2>5. t[Len(s) + 1] = 3 /\ t[Len(s) + 2] = e /\ \A i \in 1 .. Len(s) : t[i] = s[i]
    BY <2>3, <2>4
  <2>6. \A i \in 1 .. Len(t) - 2 : t[i] = 0 /\ t[i + 1] = 0 => t[i + 2] >= 3
    <3> SUFFICES ASSUME NEW i \in 1 .. Len(t) - 2, t[i] = 0, t[i + 1] = 0 PROVE t[i + 2] >= 3
      OBVIOUS
    <3>1. CASE i <= Len(s) - 2
      BY <2>4, <2>5, <3>1 DEF Plain
    <3>2. CASE i = Len(s) - 1
      BY <2>4, <2>5, <3>2
    <3>3. CASE i = Len(s)
      BY <2>4, <2>5, <3>3
    <3> QED
      BY <2>4, <3>1, <3>2, <3>3
  <2>7. Plain(t)
    BY <2>4, <2>5, <2>6 DEF Plain
  <2> QED
    BY <1>1, <2>2, <2>4, <2>5, <2>7
<1>2. CASE ~(EndsInZeros(s) /\ e <= 3)
  <2>1. PICK t : t = Append(s, e)
    OBVIOUS
  <2>2. t = Encapsulate(s, e)
    BY <1>2, <2>1 DEF Encapsulate
  <2>3. t \in Seq(Bytes) /\ Len(t) = Len(s) + 1 /\ t[Len(s) + 1] = e /\ \A i \in 1 .. Len(s) : t[i] = s[i]
    BY <2>1
  <2>4. Len(t) >= 3 /\ t[Len(t) - 2] = 0 /\ t[Len(t) - 1] = 0 => t[Len(t)] > 3
    BY <1>2, <2>3 DEF EndsInZeros, Bytes
  <2>5. \A i \in 1 .. Len(t) - 2 : t[i] = 0 /\ t[i + 1] = 0 => t[i + 2] >= 3
    <3> SUFFICES ASSUME NEW i \in 1 .. Len(t) - 2, t[i] = 0, t[i + 1] = 0 PROVE t[i + 2] >= 3
      OBVIOUS
    <3>1. CASE i <= Len(s) - 2
      BY <2>3, <3>1 DEF Plain
    <3>2. CASE i = Len(s) - 1
      <4>1. t[Len(t)] > 3 /\ Len(t) = i + 2 /\ t[Len(t)] = e
        BY <2>3, <2>4, <3>2
      <4>2. t[i + 2] = e /\ e > 3 /\ e \in Int
        BY <4>1 DEF Bytes
      <4> QED
        BY <4>2
    <3> QED
      BY <2>3, <3>1, <3>2
  <2> QED
    BY <1>2, <2>2, <2>3, <2>4, <2>5 DEF Plain
<1> QED
  BY <1>1, <1>2

(* A payload is a sequence of bytes with a first and a last one that are not zero. *)
LEMMA PayloadTyped ==
  ASSUME NEW p \in Payloads
  PROVE  /\ p \in Seq(Bytes) /\ Len(p) \in Nat /\ Len(p) > 0 /\ p[1] # 0 /\ p[Len(p)] # 0
         /\ \A n \in 1 .. Len(p) : p[n] \in Bytes
<1>1. p \in Seq(Bytes) /\ Len(p) > 0 /\ p[1] # 0 /\ p[Len(p)] # 0
  BY DEF Payloads, Bytes
<1>2. \A n \in 1 .. Len(p) : p[n] \in Bytes
  BY <1>1, ElementOfSeq
<1> QED
  BY <1>1, <1>2

(* What the sender has written of a payload so far. *)
LEMMA EmulatingKeeps ==
  ASSUME NEW p \in Payloads
  PROVE  LET F == Emulating(p)
         IN  \A n \in 1 .. Len(p) :
               /\ F[n] \in Seq(Bytes) /\ Len(F[n]) > 0 /\ Plain(F[n])
               /\ F[n][1] = p[1] /\ F[n][Len(F[n])] = p[n]
<1>1. p \in Seq(Bytes) /\ Len(p) \in Nat /\ Len(p) > 0 /\ \A n \in 1 .. Len(p) : p[n] \in Bytes
  BY PayloadTyped
<1>2. PICK F : F = Emulating(p)
  OBVIOUS
<1>3. /\ F[0] = <<>> /\ \A k \in 0 .. Len(p) : F[k] \in Seq(Bytes)
      /\ \A k \in 1 .. Len(p) : F[k] = Encapsulate(F[k - 1], p[k])
  BY <1>1, <1>2, EmulatingIs, Zenon
<1> DEFINE Good(k, s) == /\ s \in Seq(Bytes) /\ Plain(s)
                         /\ k > 0 => Len(s) > 0 /\ s[1] = p[1] /\ s[Len(s)] = p[k]
<1>4. PICK J : J = [k \in 0 .. Len(p) |-> {s \in Seq(Bytes) : Good(k, s)}]
  OBVIOUS
<1>5. F[0] \in J[0]
  <2>1. <<>> \in Seq(Bytes) /\ Plain(<<>>)
    BY DEF Plain
  <2> QED
    BY <1>1, <1>3, <1>4, <2>1
<1>6. ASSUME NEW k \in 1 .. Len(p), F[k - 1] \in J[k - 1] PROVE F[k] \in J[k]
  <2>1. PICK s : s = F[k - 1] /\ s \in Seq(Bytes) /\ Good(k - 1, s)
    BY <1>1, <1>4, <1>6
  <2>2. PICK t : t = F[k]
    OBVIOUS
  <2>3. t = Encapsulate(s, p[k])
    BY <1>3, <2>1, <2>2
  <2>4. p[k] \in Bytes
    BY <1>1
  <2>5. /\ t \in Seq(Bytes) /\ Len(t) > Len(s) /\ t[Len(t)] = p[k] /\ Plain(t)
        /\ \A i \in 1 .. Len(s) : t[i] = s[i]
        /\ ~(EndsInZeros(s) /\ p[k] <= 3) => Len(t) = Len(s) + 1
    BY <2>1, <2>3, <2>4, EmulateKeeps, Zenon
  <2>6. t[1] = p[1]
    <3>1. CASE k = 1
      <4>1. s = <<>>
        BY <1>3, <2>1, <3>1
      <4>2. ~EndsInZeros(s) /\ Len(s) = 0
        BY <4>1 DEF EndsInZeros
      <4> QED
        BY <2>5, <3>1, <4>2
    <3>2. CASE k # 1
      <4>1. k - 1 > 0
        BY <3>2
      <4> QED
        BY <2>1, <2>5, <4>1
    <3> QED
      BY <3>1, <3>2
  <2>7. Len(s) \in Nat /\ Len(t) \in Nat
    BY <2>1, <2>5
  <2>8. Good(k, t)
    BY <2>5, <2>6, <2>7
  <2> QED
    BY <1>1, <1>4, <2>2, <2>5, <2>8
<1>7. \A k \in 0 .. Len(p) : F[k] \in J[k]
  BY <1>1, <1>5, <1>6, Along
<1>8. \A k \in 1 .. Len(p) : F[k] \in Seq(Bytes) /\ Good(k, F[k])
  <2>1. \A k \in 1 .. Len(p) : k \in 0 .. Len(p)
    OBVIOUS
  <2> QED
    BY <1>4, <1>7, <2>1
<1> QED
  BY <1>2, <1>8

(* What is written of a payload is written on. *)
LEMMA EmulatingPrefix ==
  ASSUME NEW p \in Payloads, NEW n \in 0 .. Len(p)
  PROVE  LET F == Emulating(p)
         IN  \A m \in n .. Len(p) : Len(F[n]) <= Len(F[m]) /\ \A i \in 1 .. Len(F[n]) : F[m][i] = F[n][i]
<1>1. p \in Seq(Bytes) /\ Len(p) \in Nat /\ Len(p) > 0 /\ \A k \in 1 .. Len(p) : p[k] \in Bytes
  BY PayloadTyped
<1>2. PICK F : F = Emulating(p)
  OBVIOUS
<1>3. /\ F[0] = <<>> /\ \A k \in 0 .. Len(p) : F[k] \in Seq(Bytes)
      /\ \A k \in 1 .. Len(p) : F[k] = Encapsulate(F[k - 1], p[k])
  BY <1>1, <1>2, EmulatingIs, Zenon
<1>4. \A k \in 0 .. Len(p) : Plain(F[k])
  <2>1. Plain(<<>>)
    BY DEF Plain
  <2>2. \A k \in 1 .. Len(p) : Plain(F[k])
    BY <1>2, EmulatingKeeps, Zenon
  <2>3. \A k \in 0 .. Len(p) : k = 0 \/ k \in 1 .. Len(p)
    OBVIOUS
  <2> QED
    BY <1>3, <2>1, <2>2, <2>3, Zenon
<1>5. PICK o : o = F[n] /\ o \in Seq(Bytes) /\ Len(o) \in Nat
  BY <1>3
<1> DEFINE Goes(s) == Len(o) <= Len(s) /\ \A i \in 1 .. Len(o) : s[i] = o[i]
<1>6. PICK J : J = [k \in 0 .. Len(p) |-> {s \in Seq(Bytes) : k >= n => Goes(s)}]
  OBVIOUS
<1>7. F[0] \in J[0]
  <2>1. 0 >= n => F[0] = o
    BY <1>5
  <2>2. F[0] \in Seq(Bytes) /\ (0 >= n => Goes(F[0]))
    BY <1>3, <1>5, <2>1
  <2> QED
    BY <1>1, <1>6, <2>2
<1>8. ASSUME NEW k \in 1 .. Len(p), F[k - 1] \in J[k - 1] PROVE F[k] \in J[k]
  <2>1. PICK s : s = F[k - 1] /\ s \in Seq(Bytes) /\ (k - 1 >= n => Goes(s)) /\ Plain(s)
    BY <1>1, <1>4, <1>6, <1>8
  <2>3. PICK e \in Bytes : e = p[k]
    BY <1>1
  <2>2. PICK t : t = F[k] /\ t = Encapsulate(s, e)
    BY <1>3, <2>1, <2>3
  <2>4. t \in Seq(Bytes) /\ Len(t) > Len(s) /\ \A i \in 1 .. Len(s) : t[i] = s[i]
    <3>1. /\ Encapsulate(s, e) \in Seq(Bytes) /\ Len(Encapsulate(s, e)) > Len(s)
          /\ \A i \in 1 .. Len(s) : Encapsulate(s, e)[i] = s[i]
      BY <2>1, EmulateKeeps, Zenon
    <3> QED
      BY <2>2, <3>1, Zenon
  <2>5. k - 1 >= n => Goes(t)
    BY <1>5, <2>1, <2>4
  <2>6. ASSUME k = n PROVE Goes(t)
    <3>1. t = o
      BY <1>5, <2>2, <2>6
    <3> QED
      BY <1>5, <3>1
  <2>7. k >= n => Goes(t)
    BY <2>5, <2>6
  <2> QED
    BY <1>1, <1>6, <2>2, <2>4, <2>7
<1>9. \A k \in 0 .. Len(p) : F[k] \in J[k]
  BY <1>1, <1>7, <1>8, Along
<1> QED
  BY <1>1, <1>2, <1>5, <1>6, <1>9

(* A unit as it is sent. *)
LEMMA EmulatedIs ==
  ASSUME NEW p \in Payloads
  PROVE  LET b == Emulated(p)
         IN  /\ b \in Seq(Bytes) /\ Len(b) > 0 /\ Plain(b)
             /\ b[1] = p[1] /\ b[1] # 0 /\ b[Len(b)] # 0
<1>1. Len(p) \in 1 .. Len(p) /\ p[1] # 0 /\ p[Len(p)] # 0
  BY PayloadTyped
<1>2. PICK F, n : F = Emulating(p) /\ n = Len(p) /\ n \in 1 .. Len(p)
  BY <1>1
<1>3. /\ F[n] \in Seq(Bytes) /\ Len(F[n]) > 0 /\ Plain(F[n])
      /\ F[n][1] = p[1] /\ F[n][Len(F[n])] = p[n]
  BY <1>2, EmulatingKeeps, Zenon
<1>4. Emulated(p) = F[n]
  BY <1>2, Zenon DEF Emulated
<1> QED
  BY <1>1, <1>2, <1>3, <1>4, Zenon

(* The zeros a sequence ends with, if it does not end with three. *)
EndZeros(s) == IF EndsInZeros(s) THEN 2 ELSE IF s[Len(s)] = 0 THEN 1 ELSE 0

(* One byte more at the end. *)
LEMMA OneByteMore ==
  ASSUME NEW p \in Seq(Bytes), NEW k \in 1 .. Len(p) - 1
  PROVE  SubSeq(p, 1, k + 1) = Append(SubSeq(p, 1, k), p[k + 1])
<1>1. SubSeq(p, 1, k) \in Seq(Bytes) /\ Len(SubSeq(p, 1, k)) = k /\ \A i \in 1 .. k : SubSeq(p, 1, k)[i] = p[i]
  OBVIOUS
<1>2. /\ SubSeq(p, 1, k + 1) \in Seq(Bytes) /\ Len(SubSeq(p, 1, k + 1)) = k + 1
      /\ \A i \in 1 .. k + 1 : SubSeq(p, 1, k + 1)[i] = p[i]
  OBVIOUS
<1>3. PICK s : s = SubSeq(p, 1, k) /\ s \in Seq(Bytes) /\ Len(s) = k /\ \A i \in 1 .. k : s[i] = p[i]
  BY <1>1
<1>4. PICK e \in Bytes : e = p[k + 1]
  OBVIOUS
<1>5. Append(s, e) \in Seq(Bytes) /\ Len(Append(s, e)) = k + 1 /\ \A i \in 1 .. k + 1 : Append(s, e)[i] = IF i <= k THEN s[i] ELSE e
  BY <1>3, <1>4
<1>6. \A i \in 1 .. k + 1 : Append(s, e)[i] = SubSeq(p, 1, k + 1)[i]
  BY <1>2, <1>3, <1>4, <1>5
<1>7. SubSeq(p, 1, k + 1) = Append(s, e)
  BY <1>2, <1>5, <1>6, SeqEqual
<1> QED
  BY <1>3, <1>4, <1>7

(* Reading what was written for one byte of the payload. *)
LEMMA UnescapeEmulated ==
  ASSUME NEW s \in Seq(Bytes), Len(s) > 0, Plain(s), NEW e \in Bytes, NEW bytes \in Seq(Bytes),
         NEW t, t = Encapsulate(s, e),
         NEW u, u = [bytes |-> bytes, zeros |-> EndZeros(s)],
         NEW after, after = [bytes |-> Append(bytes, e), zeros |-> EndZeros(t)]
  PROVE  /\ Len(t) = Len(s) + 1 => Unescape(u, t[Len(s) + 1]) = after
         /\ Len(t) = Len(s) + 2 => Unescape(Unescape(u, t[Len(s) + 1]), t[Len(s) + 2]) = after
         /\ Len(t) \in {Len(s) + 1, Len(s) + 2}
<1>1. /\ t \in Seq(Bytes) /\ Len(t) > Len(s) /\ t[Len(t)] = e /\ Plain(t)
      /\ \A i \in 1 .. Len(s) : t[i] = s[i]
      /\ EndsInZeros(s) /\ e <= 3 => Len(t) = Len(s) + 2 /\ t[Len(s) + 1] = 3
      /\ ~(EndsInZeros(s) /\ e <= 3) => Len(t) = Len(s) + 1
  BY EmulateKeeps, Zenon
<1>2. Len(s) \in Nat /\ Len(t) \in Nat /\ u.bytes = bytes /\ u.zeros = EndZeros(s)
  BY <1>1
<1>3. CASE EndsInZeros(s) /\ e <= 3
  <2>1. Len(t) = Len(s) + 2 /\ t[Len(s) + 1] = 3 /\ t[Len(s) + 2] = e
    BY <1>1, <1>3
  <2>2. u.zeros = 2
    BY <1>2, <1>3 DEF EndZeros
  <2>3. Unescape(u, 3) = [bytes |-> bytes, zeros |-> 0]
    BY <1>2, <2>2 DEF Unescape
  <2>4. EndZeros(t) = IF e = 0 THEN 1 ELSE 0
    <3>1. Len(t) - 1 = Len(s) + 1
      BY <1>2, <2>1
    <3>2. t[Len(t) - 1] = 3 /\ t[Len(t)] = e
      BY <2>1, <3>1, <1>1
    <3> QED
      BY <3>2 DEF EndZeros, EndsInZeros
  <2>5. Unescape([bytes |-> bytes, zeros |-> 0], e) = [bytes |-> Append(bytes, e), zeros |-> IF e = 0 THEN 1 ELSE 0]
    BY DEF Unescape
  <2> QED
    BY <1>2, <2>1, <2>3, <2>4, <2>5
<1>4. CASE ~(EndsInZeros(s) /\ e <= 3)
  <2>1. Len(t) = Len(s) + 1 /\ t[Len(s) + 1] = e
    BY <1>1, <1>4
  <2>2. ~(u.zeros = 2 /\ e = 3)
    BY <1>2, <1>4 DEF EndZeros
  <2>3. Unescape(u, e) = [bytes |-> Append(bytes, e), zeros |-> IF e = 0 THEN u.zeros + 1 ELSE 0]
    BY <1>2, <2>2 DEF Unescape
  <2>4. EndZeros(t) = IF e = 0 THEN u.zeros + 1 ELSE 0
    <3>1. t[Len(t)] = e /\ t[Len(t) - 1] = s[Len(s)] /\ Len(t) >= 2
      <4>1. Len(t) - 1 = Len(s) /\ Len(s) \in 1 .. Len(s) /\ Len(t) >= 2
        BY <1>2, <2>1
      <4> QED
        BY <1>1, <4>1
    <3>2. EndsInZeros(t) <=> e = 0 /\ s[Len(s)] = 0
      BY <3>1 DEF EndsInZeros
    <3>3. e = 0 => ~EndsInZeros(s)
      BY <1>4
    <3>4. EndsInZeros(s) => s[Len(s)] = 0
      BY DEF EndsInZeros
    <3> QED
      BY <1>2, <3>1, <3>2, <3>3, <3>4 DEF EndZeros
  <2> QED
    BY <1>2, <2>1, <2>3, <2>4
<1> QED
  BY <1>3, <1>4

(* EBSPtoRBSP() gives back the payload that was sent. *)
LEMMA EmulationUndone ==
  ASSUME NEW p \in Payloads
  PROVE  EBSPtoRBSP(Emulated(p)) = p
<1>1. p \in Seq(Bytes) /\ Len(p) \in Nat /\ Len(p) > 0 /\ \A k \in 1 .. Len(p) : p[k] \in Bytes
  BY PayloadTyped
<1>2. PICK F : F = Emulating(p)
  OBVIOUS
<1>3. /\ F[0] = <<>> /\ \A k \in 0 .. Len(p) : F[k] \in Seq(Bytes)
      /\ \A k \in 1 .. Len(p) : F[k] = Encapsulate(F[k - 1], p[k])
  BY <1>1, <1>2, EmulatingIs, Zenon
<1>4. \A n \in 1 .. Len(p) : F[n] \in Seq(Bytes) /\ Len(F[n]) > 0 /\ Plain(F[n]) /\ F[n][1] = p[1]
  BY <1>2, EmulatingKeeps, Zenon
<1>5. PICK b : b = Emulated(p) /\ b = F[Len(p)]
  BY <1>2 DEF Emulated
<1>6. b \in Seq(Bytes) /\ Len(b) > 0 /\ Len(b) \in Nat /\ b[1] = p[1] /\ b[1] # 0
  <2>1. /\ Emulated(p) \in Seq(Bytes) /\ Len(Emulated(p)) > 0 /\ Plain(Emulated(p))
        /\ Emulated(p)[1] = p[1] /\ Emulated(p)[1] # 0 /\ Emulated(p)[Len(Emulated(p))] # 0
    BY EmulatedIs, Zenon
  <2> QED
    BY <1>5, <2>1
<1>7. ASSUME NEW n \in 0 .. Len(p) PROVE Len(F[n]) <= Len(b) /\ \A i \in 1 .. Len(F[n]) : b[i] = F[n][i]
  <2>1. Len(p) \in n .. Len(p)
    BY <1>1
  <2> QED
    BY <1>2, <1>5, <2>1, EmulatingPrefix
<1>8. PICK U : U = Unescaping(b)
  OBVIOUS
<1>9. /\ U[0] = [bytes |-> <<b[1]>>, zeros |-> 0]
      /\ \A k \in 1 .. Len(b) - 1 : U[k] = Unescape(U[k - 1], b[k + 1])
  BY <1>6, <1>8, UnescapingIs, Zenon
<1> DEFINE Back(k) == [bytes |-> SubSeq(p, 1, k + 1), zeros |-> EndZeros(F[k + 1])]
<1>10. PICK G, J : /\ G = [k \in 0 .. Len(p) - 1 |-> U[Len(F[k + 1]) - 1]]
                   /\ J = [k \in 0 .. Len(p) - 1 |-> {Back(k)}]
  OBVIOUS
<1>11. G[0] \in J[0]
  <2>1. F[1] = Append(<<>>, p[1])
    <3>1. ~EndsInZeros(<<>>)
      BY DEF EndsInZeros
    <3>2. 1 \in 1 .. Len(p) /\ 1 - 1 = 0
      BY <1>1
    <3>3. F[1] = Encapsulate(<<>>, p[1])
      BY <1>3, <3>2
    <3> QED
      BY <3>1, <3>3, Zenon DEF Encapsulate
  <2>2. F[1] = <<p[1]>> /\ Len(F[1]) = 1
    BY <2>1
  <2>3. SubSeq(p, 1, 1) = <<p[1]>>
    <3>1. 1 \in 1 .. Len(p) /\ SubSeq(p, 1, 1 - 1) = <<>>
      BY <1>1
    <3>2. SubSeq(p, 1, 1) = SubSeq(p, 1, 1 - 1) \o <<p[1]>>
      BY <1>1, <3>1, SubSeqRecursiveSecond
    <3>3. <<p[1]>> \in Seq(Bytes)
      BY <1>1, <3>1
    <3> QED
      BY <3>1, <3>2, <3>3, ConcatEmptySeq
  <2>4. EndZeros(F[1]) = 0
    BY <1>6, <2>2 DEF EndZeros, EndsInZeros
  <2>5. 0 \in 0 .. Len(p) - 1
    BY <1>1
  <2>6. G[0] = U[Len(F[1]) - 1] /\ J[0] = {[bytes |-> SubSeq(p, 1, 1), zeros |-> EndZeros(F[1])]}
    BY <1>10, <2>5
  <2> QED
    BY <1>6, <1>9, <2>2, <2>3, <2>4, <2>6
<1>12. ASSUME NEW k \in 1 .. Len(p) - 1, G[k - 1] \in J[k - 1] PROVE G[k] \in J[k]
  <2>1. k - 1 \in 0 .. Len(p) - 1 /\ k \in 0 .. Len(p) - 1 /\ k \in 1 .. Len(p) /\ k + 1 \in 1 .. Len(p) /\ k \in Nat
        /\ (k - 1) + 1 = k /\ (k + 1) - 1 = k /\ k + 1 \in 0 .. Len(p)
    BY <1>1
  <2>2. G[k - 1] = U[Len(F[k]) - 1] /\ G[k - 1] = [bytes |-> SubSeq(p, 1, k), zeros |-> EndZeros(F[k])]
    BY <1>10, <1>12, <2>1
  <2>3. PICK s : s = F[k] /\ s \in Seq(Bytes) /\ Len(s) > 0 /\ Plain(s) /\ Len(s) \in Nat
    BY <1>4, <2>1
  <2>4. PICK e \in Bytes : e = p[k + 1]
    BY <1>1, <2>1
  <2>5. PICK t : t = F[k + 1] /\ t = Encapsulate(s, e)
    BY <1>3, <2>1, <2>3, <2>4
  <2>6. PICK bytes \in Seq(Bytes) : bytes = SubSeq(p, 1, k)
    <3>1. SubSeq(p, 1, k) \in Seq(Bytes)
      <4>1. 1 \in Int /\ k \in Int /\ \A i \in 1 .. k : p[i] \in Bytes
        BY <1>1, <2>1
      <4> QED
        BY <4>1, SubSeqProperties
    <3> QED
      BY <3>1
  <2>7. PICK u : u = [bytes |-> bytes, zeros |-> EndZeros(s)]
    OBVIOUS
  <2>8. PICK after : after = [bytes |-> Append(bytes, e), zeros |-> EndZeros(t)]
    OBVIOUS
  <2>9. /\ Len(t) = Len(s) + 1 => Unescape(u, t[Len(s) + 1]) = after
        /\ Len(t) = Len(s) + 2 => Unescape(Unescape(u, t[Len(s) + 1]), t[Len(s) + 2]) = after
        /\ Len(t) \in {Len(s) + 1, Len(s) + 2}
    <3>1. s \in Seq(Bytes) /\ Len(s) > 0 /\ Plain(s)
      BY <2>3
    <3>2. t = Encapsulate(s, e)
      BY <2>5
    <3> QED
      BY <2>7, <2>8, <3>1, <3>2, UnescapeEmulated
  <2>10. Len(t) <= Len(b) /\ \A i \in 1 .. Len(t) : b[i] = t[i]
    BY <1>7, <2>1, <2>5
  <2>11. U[Len(s) - 1] = u
    BY <2>2, <2>3, <2>6, <2>7
  <2>12. U[Len(t) - 1] = after
    <3>1. CASE Len(t) = Len(s) + 1
      <4>1. Len(s) \in 1 .. Len(b) - 1 /\ Len(t) - 1 = Len(s) /\ b[Len(s) + 1] = t[Len(s) + 1]
        BY <1>6, <2>3, <2>10, <3>1
      <4>2. U[Len(s)] = Unescape(U[Len(s) - 1], b[Len(s) + 1])
        BY <1>9, <4>1, Zenon
      <4> QED
        BY <2>9, <2>11, <3>1, <4>1, <4>2
    <3>2. CASE Len(t) = Len(s) + 2
      <4>1. /\ Len(s) \in 1 .. Len(b) - 1 /\ Len(s) + 1 \in 1 .. Len(b) - 1 /\ Len(t) - 1 = Len(s) + 1
            /\ b[Len(s) + 1] = t[Len(s) + 1] /\ b[Len(s) + 2] = t[Len(s) + 2]
            /\ (Len(s) + 1) - 1 = Len(s) /\ (Len(s) + 1) + 1 = Len(s) + 2
        <5>1. Len(s) + 1 \in 1 .. Len(t) /\ Len(s) + 2 \in 1 .. Len(t) /\ Len(s) + 2 <= Len(b)
          BY <2>3, <2>10, <3>2
        <5>2. b[Len(s) + 1] = t[Len(s) + 1] /\ b[Len(s) + 2] = t[Len(s) + 2]
          BY <2>10, <5>1, Zenon
        <5> QED
          BY <1>6, <2>3, <3>2, <5>1, <5>2
      <4>2. U[Len(s)] = Unescape(U[Len(s) - 1], b[Len(s) + 1])
        BY <1>9, <4>1, Zenon
      <4>3. U[Len(s) + 1] = Unescape(U[(Len(s) + 1) - 1], b[(Len(s) + 1) + 1])
        BY <1>9, <4>1, Zenon
      <4>4. U[Len(s) + 1] = Unescape(Unescape(u, t[Len(s) + 1]), t[Len(s) + 2])
        BY <2>11, <4>1, <4>2, <4>3
      <4> QED
        BY <2>9, <3>2, <4>1, <4>4
    <3> QED
      BY <2>9, <3>1, <3>2
  <2>13. Append(bytes, e) = SubSeq(p, 1, k + 1)
    BY <1>1, <2>4, <2>6, OneByteMore
  <2>14. G[k] = U[Len(t) - 1] /\ J[k] = {[bytes |-> SubSeq(p, 1, k + 1), zeros |-> EndZeros(t)]}
    BY <1>10, <2>1, <2>5
  <2> QED
    BY <2>8, <2>12, <2>13, <2>14
<1>13. Len(p) - 1 \in Nat
  BY <1>1
<1>14. \A k \in 0 .. Len(p) - 1 : G[k] \in J[k]
  BY <1>11, <1>12, <1>13, Along
<1>15. U[Len(b) - 1] = [bytes |-> SubSeq(p, 1, Len(p)), zeros |-> EndZeros(b)]
  <2>1. Len(p) - 1 \in 0 .. Len(p) - 1 /\ (Len(p) - 1) + 1 = Len(p)
    BY <1>1
  <2>2. G[Len(p) - 1] = U[Len(F[Len(p)]) - 1] /\ J[Len(p) - 1] = {[bytes |-> SubSeq(p, 1, Len(p)), zeros |-> EndZeros(F[Len(p)])]}
    BY <1>10, <2>1
  <2> QED
    BY <1>5, <1>14, <2>1, <2>2
<1>16. SubSeq(p, 1, Len(p)) = p
  BY <1>1, SubSeqFull
<1>17. EBSPtoRBSP(b) = U[Len(b) - 1].bytes
  BY <1>8 DEF EBSPtoRBSP
<1> QED
  BY <1>5, <1>15, <1>16, <1>17

(* What the sender hands over. *)
Escaped(b) == b \in Seq(Bytes) /\ Len(b) > 0 /\ Plain(b) /\ b[1] # 0 /\ b[Len(b)] # 0
At(b, i) == i \in 1 .. Len(b) /\ EmulationAt(b, i)

(* Emulation bytes stand three apart or more, and none ends the unit. *)
LEMMA AtApart ==
  ASSUME NEW b, Escaped(b), NEW i \in Int, At(b, i)
  PROVE  /\ ~At(b, i + 1) /\ ~At(b, i + 2) /\ i > 1 /\ i + 3 <= Len(b)
         /\ b[i] = 0 /\ b[i + 1] = 0 /\ b[i + 2] = 3
<1>1. i \in 1 .. Len(b) /\ i + 2 <= Len(b) /\ b[i] = 0 /\ b[i + 1] = 0 /\ b[i + 2] = 3 /\ Len(b) \in Nat
  BY DEF At, EmulationAt, Escaped
<1>2. i # 1
  BY <1>1 DEF Escaped
<1>3. i + 2 # Len(b)
  <2> SUFFICES ASSUME i + 2 = Len(b) PROVE FALSE
    OBVIOUS
  <2>1. Len(b) >= 3 /\ Len(b) - 2 = i /\ Len(b) - 1 = i + 1
    BY <1>1
  <2>2. b[Len(b)] > 3 /\ b[Len(b)] = 3
    BY <1>1, <2>1 DEF Escaped, Plain
  <2> QED
    BY <2>2
<1>4. ~EmulationAt(b, i + 1)
  <2>1. (i + 1) + 1 = i + 2
    BY <1>1
  <2> QED
    BY <1>1, <2>1 DEF EmulationAt
<1>5. ~EmulationAt(b, i + 2)
  BY <1>1 DEF EmulationAt
<1> QED
  BY <1>1, <1>2, <1>3, <1>4, <1>5 DEF At

(* The count of zeros is that of the bytes before. *)
ZerosAt(b, i) == IF i >= 2 /\ b[i] = 0 /\ b[i - 1] = 0 THEN 2 ELSE IF b[i] = 0 THEN 1 ELSE 0

(* The zeros EBSPtoRBSP() has counted are those that stand before the byte. *)
LEMMA ZerosCounted ==
  ASSUME NEW b, Escaped(b)
  PROVE  \A k \in 0 .. Len(b) - 1 : Unescaping(b)[k].zeros = ZerosAt(b, k + 1)
<1>1. b \in Seq(Bytes) /\ Len(b) \in Nat /\ Len(b) > 0 /\ b[1] # 0 /\ \A i \in 1 .. Len(b) : b[i] \in Bytes
  BY DEF Escaped
<1>2. PICK U : U = Unescaping(b)
  OBVIOUS
<1>3. /\ U[0] = [bytes |-> <<b[1]>>, zeros |-> 0] /\ \A k \in 0 .. Len(b) - 1 : U[k] \in Unescaped
      /\ \A k \in 1 .. Len(b) - 1 : U[k] = Unescape(U[k - 1], b[k + 1])
  BY <1>1, <1>2, UnescapingIs, Zenon
<1>4. PICK J : J = [k \in 0 .. Len(b) - 1 |-> {s \in Unescaped : s.zeros = ZerosAt(b, k + 1)}]
  OBVIOUS
<1>5. U[0] \in J[0]
  <2>1. ZerosAt(b, 0 + 1) = 0
    BY <1>1 DEF ZerosAt
  <2>2. 0 \in 0 .. Len(b) - 1
    BY <1>1
  <2>3. U[0] \in Unescaped /\ U[0].zeros = 0
    BY <1>3, <2>2
  <2> QED
    BY <1>4, <2>1, <2>2, <2>3
<1>6. ASSUME NEW k \in 1 .. Len(b) - 1, U[k - 1] \in J[k - 1] PROVE U[k] \in J[k]
  <2>1. /\ k - 1 \in 0 .. Len(b) - 1 /\ k \in 0 .. Len(b) - 1 /\ k \in 1 .. Len(b) /\ k + 1 \in 1 .. Len(b)
        /\ (k - 1) + 1 = k /\ (k + 1) - 1 = k
    BY <1>1
  <2>2. PICK s : s = U[k - 1] /\ s \in Unescaped /\ s.zeros = ZerosAt(b, k)
    BY <1>4, <1>6, <2>1
  <2>3. PICK e \in Bytes : e = b[k + 1]
    BY <1>1, <2>1
  <2>4. PICK t : t = U[k] /\ t = Unescape(s, e) /\ t \in Unescaped
    BY <1>3, <2>1, <2>2, <2>3
  <2>5. CASE s.zeros = 2 /\ e = 3
    <3>1. t.zeros = 0
      <4>1. t = [s EXCEPT !.zeros = 0]
        BY <2>4, <2>5, Zenon DEF Unescape
      <4> QED
        BY <2>2, <4>1 DEF Unescaped
    <3>2. ZerosAt(b, k + 1) = 0
      BY <2>3, <2>5 DEF ZerosAt
    <3> QED
      BY <1>4, <2>1, <2>4, <3>1, <3>2
  <2>6. CASE ~(s.zeros = 2 /\ e = 3)
    <3>1. t.zeros = IF e = 0 THEN s.zeros + 1 ELSE 0
      <4>1. t = [bytes |-> Append(s.bytes, e), zeros |-> IF e = 0 THEN s.zeros + 1 ELSE 0]
        BY <2>4, <2>6, Zenon DEF Unescape
      <4> QED
        BY <4>1
    <3>2. e = 0 => ~(k >= 2 /\ b[k] = 0 /\ b[k - 1] = 0)
      <4> SUFFICES ASSUME e = 0, k >= 2, b[k] = 0, b[k - 1] = 0 PROVE FALSE
        OBVIOUS
      <4>1. k - 1 \in 1 .. Len(b) - 2 /\ (k - 1) + 1 = k /\ (k - 1) + 2 = k + 1
        BY <1>1
      <4>2. b[(k - 1) + 2] >= 3
        BY <4>1 DEF Escaped, Plain
      <4>3. b[(k - 1) + 2] = 0
        BY <2>3, <4>1
      <4> QED
        BY <4>2, <4>3
    <3>3. ZerosAt(b, k + 1) = IF e = 0 THEN ZerosAt(b, k) + 1 ELSE 0
      <4>1. k + 1 >= 2 /\ (k + 1) - 1 = k
        BY <1>1
      <4> QED
        BY <2>3, <3>2, <4>1 DEF ZerosAt
    <3> QED
      BY <1>4, <2>1, <2>2, <2>4, <3>1, <3>3
  <2> QED
    BY <2>5, <2>6
<1>7. Len(b) - 1 \in Nat
  BY <1>1
<1>8. \A k \in 0 .. Len(b) - 1 : U[k] \in J[k]
  BY <1>5, <1>6, <1>7, Along
<1> QED
  BY <1>2, <1>4, <1>8

(* EBSPtoRBSP() leaves out the emulation bytes and nothing else. *)
LEMMA UnescapedStep ==
  ASSUME NEW b, Escaped(b), NEW k \in 1 .. Len(b) - 1
  PROVE  LET U == Unescaping(b)
         IN  /\ At(b, k - 1) => U[k].bytes = U[k - 1].bytes
             /\ ~At(b, k - 1) => U[k].bytes = Append(U[k - 1].bytes, b[k + 1])
<1>1. b \in Seq(Bytes) /\ Len(b) \in Nat /\ Len(b) > 0 /\ b[1] # 0
  BY DEF Escaped
<1>2. PICK U : U = Unescaping(b)
  OBVIOUS
<1>3. /\ \A j \in 0 .. Len(b) - 1 : U[j] \in Unescaped
      /\ \A j \in 1 .. Len(b) - 1 : U[j] = Unescape(U[j - 1], b[j + 1])
  BY <1>1, <1>2, UnescapingIs, Zenon
<1>4. k - 1 \in 0 .. Len(b) - 1 /\ (k - 1) + 1 = k /\ (k - 1) + 2 = k + 1
  BY <1>1
<1>5. PICK s, t : s = U[k - 1] /\ t = U[k] /\ s \in Unescaped /\ t = Unescape(s, b[k + 1])
  BY <1>3, <1>4
<1>6. s.zeros = ZerosAt(b, k)
  <2>1. Unescaping(b)[k - 1].zeros = ZerosAt(b, (k - 1) + 1)
    BY <1>4, ZerosCounted
  <2> QED
    BY <1>2, <1>4, <1>5, <2>1
<1>7. At(b, k - 1) <=> s.zeros = 2 /\ b[k + 1] = 3
  <2>1. s.zeros = 2 <=> k >= 2 /\ b[k] = 0 /\ b[k - 1] = 0
    BY <1>6 DEF ZerosAt
  <2>2. k - 1 \in 1 .. Len(b) /\ (k - 1) + 2 <= Len(b) <=> k >= 2
    BY <1>1
  <2> QED
    BY <1>4, <2>1, <2>2 DEF At, EmulationAt
<1>8. CASE At(b, k - 1)
  <2>1. t = [s EXCEPT !.zeros = 0]
    BY <1>5, <1>7, <1>8, Zenon DEF Unescape
  <2>2. t.bytes = s.bytes
    BY <1>5, <2>1 DEF Unescaped
  <2> QED
    BY <1>2, <1>5, <1>8, <2>2
<1>9. CASE ~At(b, k - 1)
  <2>1. t = [bytes |-> Append(s.bytes, b[k + 1]), zeros |-> IF b[k + 1] = 0 THEN s.zeros + 1 ELSE 0]
    BY <1>5, <1>7, <1>9, Zenon DEF Unescape
  <2>2. t.bytes = Append(s.bytes, b[k + 1])
    BY <2>1
  <2> QED
    BY <1>2, <1>5, <1>9, <2>2
<1> QED
  BY <1>8, <1>9

(* NALUtoRBSP(), one byte on: a turn of the loop begins at an emulation byte. *)
LEMMA ShortenedStep ==
  ASSUME NEW b, Escaped(b), NEW k \in 1 .. Len(b) - 1
  PROVE  LET v == Shortening(b)[k - 1]
             w == Shortening(b)[k]
         IN  /\ v \in Shortened /\ w \in Shortened
             /\ v.left = 0 /\ At(b, k + 1) => w.left = 3
             /\ v.left = 0 /\ ~At(b, k + 1) => w.left = 0
             /\ v.left = 3 => w.left = 2
             /\ v.left = 2 /\ v.copyflag => w.left = 1
             /\ v.left = 2 /\ ~v.copyflag => w.left = 0
             /\ v.left = 1 => w.left = 0
             /\ w.copyflag <=> v.copyflag \/ v.left = 2
             /\ v.left = 2 => w.bytes = v.bytes
             /\ v.left # 2 => w.bytes = Append(v.bytes, b[k + 1])
<1>1. b \in Seq(Bytes) /\ Len(b) \in Nat /\ Len(b) > 0
  BY DEF Escaped
<1>2. PICK V : V = Shortening(b)
  OBVIOUS
<1>3. /\ \A j \in 0 .. Len(b) - 1 : V[j] \in Shortened
      /\ \A j \in 1 .. Len(b) - 1 : V[j] = Shorten(V[j - 1], b, j + 1)
  BY <1>1, <1>2, ShorteningIs, Zenon
<1>4. k - 1 \in 0 .. Len(b) - 1 /\ k \in 0 .. Len(b) - 1 /\ k + 1 \in 1 .. Len(b)
  BY <1>1
<1>5. PICK v, w : v = V[k - 1] /\ w = V[k] /\ v \in Shortened /\ w \in Shortened /\ w = Shorten(v, b, k + 1)
  BY <1>3, <1>4
<1>6. v.left \in 0 .. 3 /\ (At(b, k + 1) <=> EmulationAt(b, k + 1))
  BY <1>4, <1>5 DEF Shortened, At
<1>7. /\ w.bytes = IF v.left = 2 THEN v.bytes ELSE Append(v.bytes, b[k + 1])
      /\ w.left = CASE v.left = 0 -> (IF EmulationAt(b, k + 1) THEN 3 ELSE 0)
                    [] v.left = 3 -> 2
                    [] v.left = 2 -> (IF v.copyflag THEN 1 ELSE 0)
                    [] v.left = 1 -> 0
      /\ w.copyflag = (v.copyflag \/ v.left = 2)
  <2>1. PICK bytes : bytes = IF v.left = 2 THEN v.bytes ELSE Append(v.bytes, b[k + 1])
    OBVIOUS
  <2>2. PICK left : left = CASE v.left = 0 -> (IF EmulationAt(b, k + 1) THEN 3 ELSE 0)
                             [] v.left = 3 -> 2
                             [] v.left = 2 -> (IF v.copyflag THEN 1 ELSE 0)
                             [] v.left = 1 -> 0
    OBVIOUS
  <2>3. PICK flag : flag = (v.copyflag \/ v.left = 2)
    OBVIOUS
  <2>4. w = [bytes |-> bytes, left |-> left, copyflag |-> flag]
    BY <1>5, <2>1, <2>2, <2>3, Zenon DEF Shorten
  <2>5. w.bytes = bytes /\ w.left = left /\ w.copyflag = flag
    BY <2>4
  <2> QED
    BY <2>1, <2>2, <2>3, <2>5, Zenon
<1>8. /\ v.left = 0 /\ At(b, k + 1) => w.left = 3
      /\ v.left = 0 /\ ~At(b, k + 1) => w.left = 0
      /\ v.left = 3 => w.left = 2
      /\ v.left = 2 /\ v.copyflag => w.left = 1
      /\ v.left = 2 /\ ~v.copyflag => w.left = 0
      /\ v.left = 1 => w.left = 0
  BY <1>6, <1>7
<1>9. /\ w.copyflag <=> v.copyflag \/ v.left = 2
      /\ v.left = 2 => w.bytes = v.bytes
      /\ v.left # 2 => w.bytes = Append(v.bytes, b[k + 1])
  BY <1>7
<1> QED
  BY <1>2, <1>5, <1>8, <1>9

(* Whatever it leaves out is an emulation byte, so it never writes less. *)
LEMMA ShortenedTurns ==
  ASSUME NEW b, Escaped(b)
  PROVE  \A k \in 0 .. Len(b) - 1 :
           LET v == Shortening(b)[k]
           IN  /\ v.left = 3 => At(b, k + 1)
               /\ v.left = 2 => At(b, k)
               /\ v.left = 1 => At(b, k - 1) /\ v.copyflag
               /\ Len(v.bytes) >= Len(Unescaping(b)[k].bytes)
<1>1. b \in Seq(Bytes) /\ Len(b) \in Nat /\ Len(b) > 0
  BY DEF Escaped
<1>2. PICK V, U : V = Shortening(b) /\ U = Unescaping(b)
  OBVIOUS
<1>3. V[0] = [bytes |-> <<b[1]>>, left |-> 0, copyflag |-> FALSE] /\ \A j \in 0 .. Len(b) - 1 : V[j] \in Shortened
  BY <1>1, <1>2, ShorteningIs, Zenon
<1>4. U[0] = [bytes |-> <<b[1]>>, zeros |-> 0] /\ \A j \in 0 .. Len(b) - 1 : U[j] \in Unescaped
  BY <1>1, <1>2, UnescapingIs, Zenon
<1> DEFINE Turn(k, v) == /\ v.left = 3 => At(b, k + 1)
                         /\ v.left = 2 => At(b, k)
                         /\ v.left = 1 => At(b, k - 1) /\ v.copyflag
                         /\ Len(v.bytes) >= Len(U[k].bytes)
<1>5. PICK J : J = [k \in 0 .. Len(b) - 1 |-> {v \in Shortened : Turn(k, v)}]
  OBVIOUS
<1>6. V[0] \in J[0]
  <2>1. 0 \in 0 .. Len(b) - 1
    BY <1>1
  <2>2. V[0].bytes = U[0].bytes /\ V[0].left = 0 /\ Len(U[0].bytes) = 1
    BY <1>3, <1>4
  <2>3. Turn(0, V[0])
    BY <2>2
  <2> QED
    BY <1>3, <1>5, <2>1, <2>3
<1>7. ASSUME NEW k \in 1 .. Len(b) - 1, V[k - 1] \in J[k - 1] PROVE V[k] \in J[k]
  <2>1. k - 1 \in 0 .. Len(b) - 1 /\ k \in 0 .. Len(b) - 1 /\ (k - 1) + 1 = k /\ k + 1 \in 1 .. Len(b)
    BY <1>1
  <2>2. PICK v, w : v = V[k - 1] /\ w = V[k] /\ v \in Shortened /\ w \in Shortened
    BY <1>3, <2>1
  <2>3. Turn(k - 1, v)
    BY <1>5, <1>7, <2>1, <2>2
  <2>4. /\ v.left = 0 /\ At(b, k + 1) => w.left = 3
        /\ v.left = 0 /\ ~At(b, k + 1) => w.left = 0
        /\ v.left = 3 => w.left = 2
        /\ v.left = 2 /\ v.copyflag => w.left = 1
        /\ v.left = 2 /\ ~v.copyflag => w.left = 0
        /\ v.left = 1 => w.left = 0
        /\ w.copyflag <=> v.copyflag \/ v.left = 2
        /\ v.left = 2 => w.bytes = v.bytes
        /\ v.left # 2 => w.bytes = Append(v.bytes, b[k + 1])
    BY <1>2, <2>2, ShortenedStep
  <2>5. v.left \in 0 .. 3
    BY <2>2 DEF Shortened
  <2>6. w.left = 3 => At(b, k + 1)
    BY <2>4, <2>5
  <2>7. w.left = 2 => At(b, k)
    BY <2>1, <2>3, <2>4, <2>5
  <2>8. w.left = 1 => At(b, k - 1) /\ w.copyflag
    BY <2>3, <2>4, <2>5
  <2>9. Len(w.bytes) >= Len(U[k].bytes)
    <3>1. PICK e \in Bytes : e = b[k + 1]
      BY <1>1, <2>1
    <3>2. PICK s \in Unescaped : s = U[k - 1]
      BY <1>4, <2>1
    <3>3. v.bytes \in Seq(Bytes) /\ s.bytes \in Seq(Bytes)
      BY <2>2 DEF Shortened, Unescaped
    <3>4. Len(Append(v.bytes, e)) = Len(v.bytes) + 1 /\ Len(Append(s.bytes, e)) = Len(s.bytes) + 1
          /\ Len(v.bytes) \in Nat /\ Len(s.bytes) \in Nat
      BY <3>3
    <3>5. Len(v.bytes) >= Len(s.bytes)
      BY <2>3, <3>2
    <3>6. U[k].bytes = IF At(b, k - 1) THEN s.bytes ELSE Append(s.bytes, e)
      BY <1>2, <3>1, <3>2, UnescapedStep
    <3>7. v.left = 2 => At(b, k - 1)
      BY <2>3
    <3> QED
      BY <2>4, <3>1, <3>4, <3>5, <3>6, <3>7
  <2> QED
    BY <1>5, <2>1, <2>2, <2>6, <2>7, <2>8, <2>9
<1>8. Len(b) - 1 \in Nat
  BY <1>1
<1>9. \A k \in 0 .. Len(b) - 1 : V[k] \in J[k]
  BY <1>6, <1>7, <1>8, Along
<1> QED
  BY <1>2, <1>5, <1>9

(* No emulation byte before this place follows closely on another that is not the first. *)
FarApart(b, k) == \A c, d \in 1 .. Len(b) : At(b, c) /\ At(b, d) /\ d < c /\ At(b, c + 3) => c + 1 >= k
(* Where both loops are while they agree. *)
Agreeing(b, k, v, u) ==
  /\ v.left = 0 => ~At(b, k) /\ ~At(b, k + 1)
  /\ v.left = 3 => At(b, k + 1)
  /\ v.left = 2 => At(b, k)
  /\ v.left = 1 => At(b, k - 1) /\ \E d \in 1 .. Len(b) : At(b, d) /\ d < k - 1
  /\ v.copyflag <=> \E c \in 1 .. Len(b) : At(b, c) /\ c + 1 <= k
  /\ v.bytes = u.bytes

(* Up to the first emulation byte close behind another, NALUtoRBSP() writes what EBSPtoRBSP() writes. *)
LEMMA ShortenedAgrees ==
  ASSUME NEW b, Escaped(b)
  PROVE  \A k \in 0 .. Len(b) - 1 : FarApart(b, k) => Agreeing(b, k, Shortening(b)[k], Unescaping(b)[k])
<1>1. b \in Seq(Bytes) /\ Len(b) \in Nat /\ Len(b) > 0 /\ b[1] # 0
  BY DEF Escaped
<1>2. PICK V, U : V = Shortening(b) /\ U = Unescaping(b)
  OBVIOUS
<1>3. V[0] = [bytes |-> <<b[1]>>, left |-> 0, copyflag |-> FALSE] /\ \A j \in 0 .. Len(b) - 1 : V[j] \in Shortened
  BY <1>1, <1>2, ShorteningIs, Zenon
<1>4. U[0] = [bytes |-> <<b[1]>>, zeros |-> 0]
  BY <1>1, <1>2, UnescapingIs, Zenon
<1>5. PICK J : J = [k \in 0 .. Len(b) - 1 |-> {v \in Shortened : FarApart(b, k) => Agreeing(b, k, v, U[k])}]
  OBVIOUS
<1>6. V[0] \in J[0]
  <2>1. 0 \in 0 .. Len(b) - 1
    BY <1>1
  <2>2. V[0].bytes = U[0].bytes /\ V[0].left = 0 /\ V[0].copyflag = FALSE
    BY <1>3, <1>4
  <2>3. ~At(b, 0) /\ ~At(b, 0 + 1)
    BY <1>1 DEF At, EmulationAt
  <2>4. ~\E c \in 1 .. Len(b) : At(b, c) /\ c + 1 <= 0
    BY <1>1
  <2>5. Agreeing(b, 0, V[0], U[0])
    BY <2>2, <2>3, <2>4 DEF Agreeing
  <2> QED
    BY <1>3, <1>5, <2>1, <2>5
<1>7. ASSUME NEW k \in 1 .. Len(b) - 1, V[k - 1] \in J[k - 1] PROVE V[k] \in J[k]
  <2>1. k - 1 \in 0 .. Len(b) - 1 /\ k \in 0 .. Len(b) - 1 /\ (k - 1) + 1 = k /\ k + 1 \in 1 .. Len(b) /\ k \in Nat
    BY <1>1
  <2>2. PICK v, w : v = V[k - 1] /\ w = V[k] /\ v \in Shortened /\ w \in Shortened
    BY <1>3, <2>1
  <2> SUFFICES ASSUME FarApart(b, k) PROVE Agreeing(b, k, w, U[k])
    BY <1>5, <2>1, <2>2
  <2>3. FarApart(b, k - 1)
    BY <2>1 DEF FarApart
  <2>4. Agreeing(b, k - 1, v, U[k - 1])
    BY <1>5, <1>7, <2>1, <2>2, <2>3
  <2>5. /\ v.left = 0 /\ At(b, k + 1) => w.left = 3
        /\ v.left = 0 /\ ~At(b, k + 1) => w.left = 0
        /\ v.left = 3 => w.left = 2
        /\ v.left = 2 /\ v.copyflag => w.left = 1
        /\ v.left = 2 /\ ~v.copyflag => w.left = 0
        /\ v.left = 1 => w.left = 0
        /\ w.copyflag <=> v.copyflag \/ v.left = 2
        /\ v.left = 2 => w.bytes = v.bytes
        /\ v.left # 2 => w.bytes = Append(v.bytes, b[k + 1])
    BY <1>2, <2>2, ShortenedStep
  <2>6. v.left \in 0 .. 3 /\ v.copyflag \in BOOLEAN
    BY <2>2 DEF Shortened
  <2>7. /\ At(b, k - 1) <=> v.left = 2
        /\ At(b, k) <=> v.left = 3
    <3>1. v.left = 0 => ~At(b, k - 1) /\ ~At(b, k)
      BY <2>1, <2>4 DEF Agreeing
    <3>2. v.left = 3 => At(b, k) /\ ~At(b, k - 1)
      <4>1. At(b, k - 1) => ~At(b, (k - 1) + 1)
        BY <2>1, AtApart
      <4> QED
        BY <2>1, <2>4, <4>1 DEF Agreeing
    <3>3. v.left = 2 => At(b, k - 1) /\ ~At(b, k)
      <4>1. At(b, k - 1) => ~At(b, (k - 1) + 1)
        BY <2>1, AtApart
      <4> QED
        BY <2>1, <2>4, <4>1 DEF Agreeing
    <3>4. v.left = 1 => ~At(b, k - 1) /\ ~At(b, k)
      <4>1. At(b, k - 2) => ~At(b, (k - 2) + 1) /\ ~At(b, (k - 2) + 2)
        BY <2>1, AtApart
      <4>2. (k - 2) + 1 = k - 1 /\ (k - 2) + 2 = k /\ (k - 1) - 1 = k - 2
        BY <2>1
      <4> QED
        BY <2>4, <4>1, <4>2 DEF Agreeing
    <3> QED
      BY <2>6, <3>1, <3>2, <3>3, <3>4
  <2>8. w.left = 0 => ~At(b, k) /\ ~At(b, k + 1)
    <3>1. CASE v.left = 0
      BY <2>5, <2>7, <3>1
    <3>2. CASE v.left = 2
      <4>1. ~At(b, (k - 1) + 1) /\ ~At(b, (k - 1) + 2) /\ (k - 1) + 2 = k + 1
        BY <2>1, <2>7, <3>2, AtApart
      <4> QED
        BY <2>1, <4>1
    <3>3. CASE v.left = 1
      <4>1. ~At(b, k)
        BY <2>7, <3>3
      <4>2. At(b, (k - 1) - 1) /\ \E d \in 1 .. Len(b) : At(b, d) /\ d < (k - 1) - 1
        BY <2>4, <3>3 DEF Agreeing
      <4>3. (k - 1) - 1 \in 1 .. Len(b) /\ ((k - 1) - 1) + 3 = k + 1 /\ ~(((k - 1) - 1) + 1 >= k)
        BY <2>1, <4>2 DEF At
      <4>4. ~At(b, k + 1)
        BY <4>2, <4>3 DEF FarApart
      <4> QED
        BY <4>1, <4>4
    <3>4. CASE v.left = 3
      BY <2>5, <3>4
    <3> QED
      BY <2>6, <3>1, <3>2, <3>3, <3>4
  <2>9. w.left = 3 => At(b, k + 1)
    BY <2>5, <2>6
  <2>10. w.left = 2 => At(b, k)
    BY <2>5, <2>6, <2>7
  <2>11. w.left = 1 => At(b, k - 1) /\ \E d \in 1 .. Len(b) : At(b, d) /\ d < k - 1
    <3> SUFFICES ASSUME w.left = 1 PROVE At(b, k - 1) /\ \E d \in 1 .. Len(b) : At(b, d) /\ d < k - 1
      OBVIOUS
    <3>1. v.left = 2 /\ v.copyflag
      BY <2>5, <2>6
    <3>2. PICK d \in 1 .. Len(b) : At(b, d) /\ d + 1 <= k - 1
      BY <2>4, <3>1 DEF Agreeing
    <3>3. d < k - 1
      BY <2>1, <3>2
    <3> QED
      BY <2>7, <3>1, <3>2, <3>3
  <2>12. w.copyflag <=> \E c \in 1 .. Len(b) : At(b, c) /\ c + 1 <= k
    <3>1. v.copyflag <=> \E c \in 1 .. Len(b) : At(b, c) /\ c + 1 <= k - 1
      BY <2>4 DEF Agreeing
    <3>2. v.left = 2 <=> \E c \in 1 .. Len(b) : At(b, c) /\ c + 1 = k
      <4>1. v.left = 2 => k - 1 \in 1 .. Len(b) /\ At(b, k - 1) /\ (k - 1) + 1 = k
        BY <2>1, <2>7 DEF At
      <4>2. ASSUME NEW c \in 1 .. Len(b), At(b, c), c + 1 = k PROVE v.left = 2
        <5>1. c = k - 1
          BY <4>2
        <5> QED
          BY <2>7, <4>2, <5>1
      <4> QED
        BY <4>1, <4>2
    <3>3. \A c \in 1 .. Len(b) : c + 1 <= k <=> c + 1 <= k - 1 \/ c + 1 = k
      BY <2>1
    <3> QED
      BY <2>5, <3>1, <3>2, <3>3
  <2>13. w.bytes = U[k].bytes
    <3>1. U[k].bytes = IF At(b, k - 1) THEN U[k - 1].bytes ELSE Append(U[k - 1].bytes, b[k + 1])
      BY <1>2, UnescapedStep
    <3>2. v.bytes = U[k - 1].bytes
      BY <2>4 DEF Agreeing
    <3>3. v.left = 2 => w.bytes = v.bytes
      BY <2>5
    <3>4. v.left # 2 => w.bytes = Append(v.bytes, b[k + 1])
      BY <2>5
    <3>5. CASE At(b, k - 1)
      BY <2>7, <3>1, <3>2, <3>3, <3>5
    <3>6. CASE ~At(b, k - 1)
      <4>1. w.bytes = Append(v.bytes, b[k + 1])
        BY <2>7, <3>4, <3>6
      <4>2. U[k].bytes = Append(U[k - 1].bytes, b[k + 1])
        BY <3>1, <3>6
      <4> QED
        BY <3>2, <4>1, <4>2
    <3> QED
      BY <3>5, <3>6
  <2> QED
    BY <2>8, <2>9, <2>10, <2>11, <2>12, <2>13 DEF Agreeing
<1>8. Len(b) - 1 \in Nat
  BY <1>1
<1>9. \A k \in 0 .. Len(b) - 1 : V[k] \in J[k]
  BY <1>6, <1>7, <1>8, Along
<1> QED
  BY <1>2, <1>5, <1>9

(* CloseBehind, without the least of the emulation bytes: one that follows on a second or later one. *)
LEMMA CloseIs ==
  ASSUME NEW b, Escaped(b)
  PROVE  CloseBehind(b) <=> \E c, d \in 1 .. Len(b) : At(b, c) /\ At(b, d) /\ d < c /\ At(b, c + 3)
<1>1. PICK K : K = {k \in 1 .. Len(b) : EmulationAt(b, k)}
  OBVIOUS
<1>2. \A k : k \in K <=> At(b, k)
  BY <1>1 DEF At
<1>3. K \subseteq Nat /\ K \subseteq 1 .. Len(b) /\ Len(b) \in Nat
  BY <1>1 DEF Escaped
<1>4. CloseBehind(b) <=> \E c \in K : c # Min(K) /\ c + 3 \in K
  BY <1>1, Zenon DEF CloseBehind
<1>5. ASSUME NEW c \in K, c # Min(K) PROVE \E d \in K : d < c
  <2>1. K # {}
    BY <1>5
  <2>2. Min(K) \in K /\ Min(K) <= c
    BY <1>3, <2>1, LeastOne
  <2>3. Min(K) \in Nat /\ c \in Nat
    BY <1>3, <2>2
  <2>4. Min(K) < c
    BY <1>5, <2>2, <2>3
  <2> QED
    BY <2>2, <2>4
<1>6. ASSUME NEW c \in K, NEW d \in K, d < c PROVE c # Min(K)
  <2>1. Min(K) <= d
    BY <1>3, LeastOne
  <2>2. K # {}
    BY <1>6
  <2>3. Min(K) \in K
    BY <1>3, <2>2, LeastOne
  <2> QED
    BY <1>3, <1>6, <2>1, <2>3
<1>7. (\E c \in K : c # Min(K) /\ c + 3 \in K) <=> \E c, d \in K : d < c /\ c + 3 \in K
  BY <1>5, <1>6, Zenon
<1>8. (\E c, d \in K : d < c /\ c + 3 \in K) <=> \E c, d \in 1 .. Len(b) : At(b, c) /\ At(b, d) /\ d < c /\ At(b, c + 3)
  BY <1>2, <1>3, Zenon
<1> QED
  BY <1>4, <1>7, <1>8, Zenon

(* A second one close behind is kept, and more is written. *)
LEMMA CloseLonger ==
  ASSUME NEW b, Escaped(b), CloseBehind(b)
  PROVE  NALUtoRBSP(b) # EBSPtoRBSP(b)
<1>1. b \in Seq(Bytes) /\ Len(b) \in Nat /\ Len(b) > 0
  BY DEF Escaped
<1> DEFINE K == {c \in 1 .. Len(b) : At(b, c) /\ At(b, c + 3) /\ \E d \in 1 .. Len(b) : At(b, d) /\ d < c}
<1>2. PICK e \in 1 .. Len(b) : /\ At(b, e) /\ At(b, e + 3)
                               /\ \E d \in 1 .. Len(b) : At(b, d) /\ d < e
                               /\ \A c \in K : e <= c
  <2>1. K # {}
    BY CloseIs
  <2>2. K \subseteq Nat
    BY <1>1
  <2>3. Min(K) \in K /\ \A c \in K : Min(K) <= c
    BY <2>1, <2>2, LeastOne
  <2> QED
    BY <2>3
<1>3. e \in Nat /\ e > 1 /\ e + 6 <= Len(b) /\ ~At(b, e + 1) /\ ~At(b, (e + 3) + 1)
  <2>1. e \in Int /\ e + 3 \in Int
    BY <1>1
  <2>2. ~At(b, e + 1) /\ e > 1
    BY <1>2, <2>1, AtApart
  <2>3. ~At(b, (e + 3) + 1) /\ (e + 3) + 3 <= Len(b)
    BY <1>2, <2>1, AtApart
  <2> QED
    BY <1>1, <2>1, <2>2, <2>3
<1>4. ~At(b, e - 1)
  <2>1. e - 1 \in Int /\ (e - 1) + 1 = e
    BY <1>3
  <2> QED
    BY <1>2, <2>1, AtApart
<1>5. FarApart(b, e)
  <2> SUFFICES ASSUME NEW c \in 1 .. Len(b), NEW d \in 1 .. Len(b), At(b, c), At(b, d), d < c, At(b, c + 3)
               PROVE  c + 1 >= e
    BY DEF FarApart
  <2>1. c \in K
    OBVIOUS
  <2> QED
    BY <1>1, <1>2, <2>1
<1>6. PICK V, U : V = Shortening(b) /\ U = Unescaping(b)
  OBVIOUS
<1>7. \A j \in 0 .. Len(b) - 1 : V[j] \in Shortened
  BY <1>1, <1>6, ShorteningIs, Zenon
<1>8. \A j \in 0 .. Len(b) - 1 : U[j] \in Unescaped
  BY <1>1, <1>6, UnescapingIs, Zenon
<1>9. V[e].left = 2 /\ V[e].copyflag
  <2>1. e \in 0 .. Len(b) - 1
    BY <1>3
  <2>2. Agreeing(b, e, V[e], U[e])
    BY <1>5, <1>6, <2>1, ShortenedAgrees, Zenon
  <2>3. V[e].left \in 0 .. 3
    BY <1>7, <2>1 DEF Shortened
  <2>4. V[e].left = 2
    BY <1>2, <1>3, <1>4, <2>2, <2>3 DEF Agreeing
  <2>5. \E c \in 1 .. Len(b) : At(b, c) /\ c + 1 <= e
    BY <1>2
  <2> QED
    BY <2>2, <2>4, <2>5 DEF Agreeing
<1>10. V[e + 1].left = 1
  <2>1. e + 1 \in 1 .. Len(b) - 1 /\ (e + 1) - 1 = e
    BY <1>3
  <2> QED
    BY <1>6, <1>9, <2>1, ShortenedStep
<1>11. V[e + 2].left = 0
  <2>1. e + 2 \in 1 .. Len(b) - 1 /\ (e + 2) - 1 = e + 1
    BY <1>3
  <2> QED
    BY <1>6, <1>10, <2>1, ShortenedStep
<1>12. V[e + 3].left = 0
  <2>1. e + 3 \in 1 .. Len(b) - 1 /\ (e + 3) - 1 = e + 2
    BY <1>3
  <2> QED
    BY <1>3, <1>6, <1>11, <2>1, ShortenedStep
<1>13. Len(V[e + 4].bytes) > Len(U[e + 4].bytes)
  <2>1. e + 4 \in 1 .. Len(b) - 1 /\ (e + 4) - 1 = e + 3 /\ e + 3 \in 0 .. Len(b) - 1 /\ (e + 4) + 1 \in 1 .. Len(b)
    BY <1>3
  <2>2. PICK v, u, byte : v = V[e + 3] /\ u = U[e + 3] /\ byte = b[(e + 4) + 1] /\ v \in Shortened /\ u \in Unescaped /\ byte \in Bytes
    BY <1>1, <1>7, <1>8, <2>1
  <2>3. V[e + 4].bytes = Append(v.bytes, byte)
    <3>1. PICK k : k = e + 4
      OBVIOUS
    <3>2. k \in 1 .. Len(b) - 1 /\ k - 1 = e + 3 /\ byte = b[k + 1]
      BY <2>1, <2>2, <3>1
    <3>3. Shortening(b)[k - 1].left # 2 => Shortening(b)[k].bytes = Append(Shortening(b)[k - 1].bytes, b[k + 1])
      BY <3>2, ShortenedStep
    <3>4. V[k - 1].left # 2
      BY <1>12, <3>2
    <3>5. V[k].bytes = Append(V[k - 1].bytes, b[k + 1])
      BY <1>6, <3>3, <3>4
    <3> QED
      BY <2>2, <3>1, <3>2, <3>5
  <2>4. U[e + 4].bytes = u.bytes
    BY <1>2, <1>6, <2>1, <2>2, UnescapedStep
  <2>5. Len(v.bytes) >= Len(u.bytes)
    BY <1>6, <2>1, <2>2, ShortenedTurns
  <2>6. v.bytes \in Seq(Bytes) /\ u.bytes \in Seq(Bytes)
    BY <2>2 DEF Shortened, Unescaped
  <2>7. Len(Append(v.bytes, byte)) = Len(v.bytes) + 1 /\ Len(v.bytes) \in Nat /\ Len(u.bytes) \in Nat
    BY <2>2, <2>6
  <2> QED
    BY <2>3, <2>4, <2>5, <2>7
<1>14. PICK J : J = [k \in 0 .. Len(b) - 1 |-> {v \in Shortened : k >= e + 4 => Len(v.bytes) > Len(U[k].bytes)}]
  OBVIOUS
<1>15. V[0] \in J[0]
  <2>1. 0 \in 0 .. Len(b) - 1 /\ ~(0 >= e + 4)
    BY <1>1, <1>3
  <2> QED
    BY <1>7, <1>14, <2>1
<1>16. ASSUME NEW k \in 1 .. Len(b) - 1, V[k - 1] \in J[k - 1] PROVE V[k] \in J[k]
  <2>1. k - 1 \in 0 .. Len(b) - 1 /\ k \in 0 .. Len(b) - 1 /\ k + 1 \in 1 .. Len(b) /\ k \in Nat
    BY <1>1
  <2>2. PICK v, u, byte : v = V[k - 1] /\ u = U[k - 1] /\ byte = b[k + 1] /\ v \in Shortened /\ u \in Unescaped /\ byte \in Bytes
    BY <1>1, <1>7, <1>8, <2>1
  <2>3. v.bytes \in Seq(Bytes) /\ u.bytes \in Seq(Bytes)
    BY <2>2 DEF Shortened, Unescaped
  <2>4. Len(Append(v.bytes, byte)) = Len(v.bytes) + 1 /\ Len(v.bytes) \in Nat /\ Len(u.bytes) \in Nat
        /\ Len(Append(u.bytes, byte)) = Len(u.bytes) + 1
    BY <2>2, <2>3
  <2>5. CASE k - 1 >= e + 4
    <3>1. Len(v.bytes) > Len(u.bytes)
      BY <1>14, <1>16, <2>1, <2>2, <2>5
    <3>2. v.left = 2 => At(b, k - 1)
      BY <1>6, <2>1, <2>2, ShortenedTurns
    <3>3. (v.left = 2 => V[k].bytes = v.bytes) /\ (v.left # 2 => V[k].bytes = Append(v.bytes, byte))
      BY <1>6, <2>2, ShortenedStep
    <3>4. (At(b, k - 1) => U[k].bytes = u.bytes) /\ (~At(b, k - 1) => U[k].bytes = Append(u.bytes, byte))
      BY <1>6, <2>2, UnescapedStep
    <3>5. Len(V[k].bytes) > Len(U[k].bytes)
      <4>1. CASE v.left = 2
        <5>1. V[k].bytes = v.bytes /\ U[k].bytes = u.bytes
          BY <3>2, <3>3, <3>4, <4>1
        <5> QED
          BY <3>1, <5>1
      <4>2. CASE v.left # 2
        <5>1. Len(V[k].bytes) = Len(v.bytes) + 1
          BY <2>4, <3>3, <4>2
        <5>2. Len(U[k].bytes) \in {Len(u.bytes), Len(u.bytes) + 1}
          <6>1. CASE At(b, k - 1)
            BY <3>4, <6>1
          <6>2. CASE ~At(b, k - 1)
            BY <2>4, <3>4, <6>2
          <6> QED
            BY <6>1, <6>2
        <5>3. PICK x, y \in Nat : x = Len(v.bytes) /\ y = Len(u.bytes)
          BY <2>4
        <5>4. x > y /\ Len(V[k].bytes) = x + 1 /\ Len(U[k].bytes) \in {y, y + 1}
          BY <3>1, <5>1, <5>2, <5>3, Zenon
        <5>5. x + 1 > y /\ x + 1 > y + 1
          BY <5>4
        <5> QED
          BY <5>4, <5>5
      <4> QED
        BY <4>1, <4>2
    <3> QED
      BY <1>7, <1>14, <2>1, <3>5
  <2>6. CASE k = e + 4
    BY <1>7, <1>13, <1>14, <2>1, <2>6
  <2>7. CASE ~(k >= e + 4)
    BY <1>7, <1>14, <2>1, <2>7
  <2>8. k - 1 >= e + 4 \/ k = e + 4 \/ ~(k >= e + 4)
    BY <1>3, <2>1
  <2> QED
    BY <2>5, <2>6, <2>7, <2>8
<1>17. Len(b) - 1 \in Nat
  BY <1>1
<1>18. \A k \in 0 .. Len(b) - 1 : V[k] \in J[k]
  BY <1>15, <1>16, <1>17, Along
<1>19. Len(V[Len(b) - 1].bytes) > Len(U[Len(b) - 1].bytes)
  <2>1. Len(b) - 1 \in 0 .. Len(b) - 1 /\ Len(b) - 1 >= e + 4
    BY <1>3, <1>17
  <2> QED
    BY <1>14, <1>18, <2>1
<1>20. Len(U[Len(b) - 1].bytes) \in Nat
  <2>1. U[Len(b) - 1] \in Unescaped
    BY <1>8, <1>17
  <2> QED
    BY <2>1 DEF Unescaped
<1>21. V[Len(b) - 1].bytes # U[Len(b) - 1].bytes
  BY <1>19, <1>20
<1> QED
  BY <1>6, <1>21 DEF NALUtoRBSP, EBSPtoRBSP

(* NALUtoRBSP() does what EBSPtoRBSP() did but for those. *)
LEMMA ShortenedIff ==
  ASSUME NEW b, Escaped(b)
  PROVE  NALUtoRBSP(b) = EBSPtoRBSP(b) <=> ~CloseBehind(b)
<1>1. Len(b) \in Nat /\ Len(b) > 0
  BY DEF Escaped
<1>2. ASSUME ~CloseBehind(b) PROVE NALUtoRBSP(b) = EBSPtoRBSP(b)
  <2>1. PICK k : k = Len(b) - 1 /\ k \in 0 .. Len(b) - 1
    BY <1>1
  <2>2. FarApart(b, k)
    BY <1>2, CloseIs, Zenon DEF FarApart
  <2>3. Agreeing(b, k, Shortening(b)[k], Unescaping(b)[k])
    BY <2>1, <2>2, ShortenedAgrees
  <2> QED
    BY <2>1, <2>3, Zenon DEF Agreeing, NALUtoRBSP, EBSPtoRBSP
<1> QED
  BY <1>2, CloseLonger

(* The last byte stays, so that nothing is cut off behind it. *)
LEMMA ShortenedEnds ==
  ASSUME NEW b, Escaped(b)
  PROVE  RBSPtoSODB(NALUtoRBSP(b)) = NALUtoRBSP(b)
<1>1. b \in Seq(Bytes) /\ Len(b) \in Nat /\ Len(b) > 0 /\ b[1] # 0 /\ b[Len(b)] # 0
  BY DEF Escaped
<1>2. PICK V, n : V = Shortening(b) /\ n = Len(b) - 1
  OBVIOUS
<1>3. V[0] = [bytes |-> <<b[1]>>, left |-> 0, copyflag |-> FALSE] /\ \A j \in 0 .. Len(b) - 1 : V[j] \in Shortened
  BY <1>1, <1>2, ShorteningIs, Zenon
<1>4. n \in 0 .. Len(b) - 1 /\ n \in Nat /\ n + 1 = Len(b)
  BY <1>1, <1>2
<1>5. PICK r : r = V[n].bytes /\ r \in Seq(Bytes) /\ Len(r) \in Nat
  <2>1. V[n] \in Shortened
    BY <1>3, <1>4
  <2>2. V[n].bytes \in Seq(Bytes)
    BY <2>1 DEF Shortened
  <2> QED
    BY <2>2
<1>6. Len(r) > 0 /\ r[Len(r)] = b[Len(b)]
  <2>1. CASE n = 0
    <3>1. r = <<b[1]>>
      BY <1>3, <1>5, <2>1
    <3>2. Len(r) = 1 /\ r[1] = b[1] /\ Len(b) = 1
      BY <1>4, <2>1, <3>1
    <3> QED
      BY <3>2
  <2>2. CASE n # 0
    <3>1. n \in 1 .. Len(b) - 1 /\ n - 1 \in 0 .. Len(b) - 1
      BY <1>4, <2>2
    <3>2. PICK v, e : v = V[n - 1] /\ v \in Shortened /\ e = b[n + 1] /\ e \in Bytes
      BY <1>1, <1>3, <1>4, <3>1
    <3>3. v.left # 2
      <4>1. v.left = 2 => At(b, n - 1)
        BY <1>2, <3>1, <3>2, ShortenedTurns
      <4>2. n - 1 \in Int /\ ~((n - 1) + 3 <= Len(b))
        BY <1>4
      <4> QED
        BY <4>1, <4>2, AtApart
    <3>4. r = Append(v.bytes, e)
      BY <1>2, <1>5, <3>1, <3>2, <3>3, ShortenedStep
    <3>5. v.bytes \in Seq(Bytes)
      BY <3>2 DEF Shortened
    <3>6. Len(r) = Len(v.bytes) + 1 /\ r[Len(v.bytes) + 1] = e /\ Len(v.bytes) \in Nat
      BY <3>2, <3>4, <3>5
    <3> QED
      BY <1>4, <3>2, <3>6
  <2> QED
    BY <2>1, <2>2
<1>7. Max({k \in 1 .. Len(r) : r[k] # 0}) = Len(r)
  <2>1. PICK K : K = {k \in 1 .. Len(r) : r[k] # 0}
    OBVIOUS
  <2>2. Len(r) \in K /\ \A k \in K : Len(r) >= k
    BY <1>1, <1>5, <1>6, <2>1
  <2>3. \A x \in K : (\A k \in K : x >= k) => x = Len(r)
    <3>1. \A x \in K : x \in Nat
      BY <2>1
    <3> QED
      BY <1>5, <2>2, <3>1
  <2> QED
    BY <2>1, <2>2, <2>3 DEF Max
<1>8. SubSeq(r, 1, Len(r)) = r
  BY <1>5, SubSeqFull
<1>9. NALUtoRBSP(b) = r
  BY <1>2, <1>5 DEF NALUtoRBSP
<1> QED
  BY <1>7, <1>8, <1>9, Zenon DEF RBSPtoSODB


(* Units as they are sent, and the bytes of each. *)
Unit == [payload : Payloads, zeros : Nat, after : Nat, starts : BOOLEAN]

(* So many zeros are a sequence of bytes of that length. *)
LEMMA ZerosTyped ==
  ASSUME NEW n \in Nat
  PROVE  Zeros(n) \in Seq(Bytes) /\ Len(Zeros(n)) = n /\ \A i \in 1 .. n : Zeros(n)[i] = 0
<1>1. Zeros(n) \in [1 .. n -> Bytes]
  BY DEF Zeros, Bytes
<1>2. Zeros(n) \in Seq(Bytes) /\ Len(Zeros(n)) = n
  BY <1>1, SeqDef
<1> QED
  BY <1>2 DEF Zeros

(* Zeros, a one, the unit, zeros. *)
LEMMA FrameIs ==
  ASSUME NEW unit \in Unit
  PROVE  LET f == Frame(unit)
             b == Emulated(unit.payload)
         IN  /\ f \in Seq(Bytes) /\ Len(f) = unit.zeros + 1 + Len(b) + unit.after
             /\ \A i \in 1 .. Len(f) : i <= unit.zeros => f[i] = 0
             /\ f[unit.zeros + 1] = 1
             /\ \A i \in 1 .. Len(b) : f[unit.zeros + 1 + i] = b[i]
             /\ \A i \in 1 .. Len(f) : i > unit.zeros + 1 + Len(b) => f[i] = 0
<1>1. PICK z, a, b : z = unit.zeros /\ a = unit.after /\ b = Emulated(unit.payload)
  OBVIOUS
<1>2. z \in Nat /\ a \in Nat /\ unit.payload \in Payloads
  BY <1>1 DEF Unit
<1>3. b \in Seq(Bytes) /\ Len(b) \in Nat
  BY <1>1, <1>2, EmulatedIs
<1>4. PICK x, y : x = Zeros(z) /\ y = Zeros(a)
  OBVIOUS
<1>5. x \in Seq(Bytes) /\ Len(x) = z /\ y \in Seq(Bytes) /\ Len(y) = a
  BY <1>2, <1>4, ZerosTyped
<1>6. (\A i \in 1 .. z : x[i] = 0) /\ \A i \in 1 .. a : y[i] = 0
  BY <1>2, <1>4, ZerosTyped
<1>7. <<1>> \in Seq(Bytes) /\ Len(<<1>>) = 1 /\ <<1>>[1] = 1
  BY DEF Bytes
<1>8. PICK c : c = x \o <<1>>
  OBVIOUS
<1>9. c \in Seq(Bytes) /\ Len(c) = z + 1 /\ \A i \in 1 .. z + 1 : c[i] = IF i <= z THEN x[i] ELSE <<1>>[i - z]
  BY <1>5, <1>7, <1>8, ConcatProperties
<1>10. PICK d : d = b \o y
  OBVIOUS
<1>11. d \in Seq(Bytes) /\ Len(d) = Len(b) + a /\ \A i \in 1 .. Len(b) + a : d[i] = IF i <= Len(b) THEN b[i] ELSE y[i - Len(b)]
  BY <1>3, <1>5, <1>10, ConcatProperties
<1>12. PICK f : f = c \o d
  OBVIOUS
<1>13. f \in Seq(Bytes) /\ Len(f) = Len(c) + Len(d)
       /\ \A i \in 1 .. Len(c) + Len(d) : f[i] = IF i <= Len(c) THEN c[i] ELSE d[i - Len(c)]
  BY <1>9, <1>11, <1>12, ConcatProperties
<1>14. Len(f) = z + 1 + Len(b) + a /\ Len(c) = z + 1 /\ Len(d) = Len(b) + a
  BY <1>2, <1>3, <1>9, <1>11, <1>13
<1>15. ASSUME NEW i \in 1 .. Len(f), i <= z PROVE f[i] = 0
  <2>1. i \in 1 .. Len(c) + Len(d) /\ i <= Len(c) /\ i \in 1 .. z + 1 /\ i \in 1 .. z
    BY <1>2, <1>3, <1>13, <1>14, <1>15
  <2>2. f[i] = c[i] /\ c[i] = x[i] /\ x[i] = 0
    BY <1>6, <1>9, <1>13, <1>15, <2>1
  <2> QED
    BY <2>2
<1>16. f[z + 1] = 1
  <2>1. z + 1 \in 1 .. Len(c) + Len(d) /\ z + 1 <= Len(c) /\ z + 1 \in 1 .. z + 1 /\ ~(z + 1 <= z) /\ (z + 1) - z = 1
    BY <1>2, <1>3, <1>14
  <2>2. f[z + 1] = c[z + 1]
    BY <1>13, <2>1
  <2>3. c[z + 1] = <<1>>[(z + 1) - z]
    BY <1>9, <2>1
  <2> QED
    BY <1>7, <2>1, <2>2, <2>3
<1>17. ASSUME NEW i \in 1 .. Len(b) PROVE f[z + 1 + i] = b[i]
  <2>1. PICK m : m = z + 1 + i
    OBVIOUS
  <2>2. m \in 1 .. Len(c) + Len(d) /\ ~(m <= Len(c)) /\ m - Len(c) = i /\ i \in 1 .. Len(b) + a /\ i <= Len(b)
    BY <1>2, <1>3, <1>14, <2>1
  <2>3. f[m] = d[m - Len(c)]
    BY <1>13, <2>2
  <2>4. d[i] = b[i]
    BY <1>11, <2>2
  <2> QED
    BY <2>1, <2>2, <2>3, <2>4
<1>18. ASSUME NEW i \in 1 .. Len(f), i > z + 1 + Len(b) PROVE f[i] = 0
  <2>1. PICK m : m = i - Len(c)
    OBVIOUS
  <2>2. i \in 1 .. Len(c) + Len(d) /\ ~(i <= Len(c)) /\ m \in 1 .. Len(b) + a /\ ~(m <= Len(b)) /\ m - Len(b) \in 1 .. a
    BY <1>2, <1>3, <1>13, <1>14, <1>18, <2>1
  <2>3. f[i] = d[m]
    BY <1>13, <2>1, <2>2
  <2>4. d[m] = y[m - Len(b)]
    BY <1>11, <2>2
  <2> QED
    BY <1>6, <2>2, <2>3, <2>4
<1>19. f = Frame(unit)
  BY <1>1, <1>4, <1>8, <1>10, <1>12 DEF Frame
<1> QED
  BY <1>1, <1>13, <1>14, <1>15, <1>16, <1>17, <1>18, <1>19

(* What is known of each unit sent. *)
LEMMA SentTyped ==
  ASSUME NEW units, IsSent(units)
  PROVE  /\ units \in Seq(Unit) /\ Len(units) \in Nat
         /\ \A k \in 1 .. Len(units) :
              /\ units[k] \in Unit /\ units[k].payload \in Payloads /\ units[k].zeros \in Nat
              /\ units[k].after \in Nat /\ units[k].starts \in BOOLEAN /\ units[k].zeros >= 2
              /\ k > 1 /\ units[k - 1].after > 0 => units[k].zeros >= 3
              /\ units[k].starts => TypeOf(units[k].payload) \in SliceTypes
              /\ TypeOf(units[k].payload) \in VclTypes /\ ~units[k].starts => SliceBefore(units, k)
<1>1. units \in Seq(Unit) /\ Len(units) \in Nat
  BY DEF IsSent, Unit
<1> SUFFICES ASSUME NEW k \in 1 .. Len(units)
    PROVE  /\ units[k] \in Unit /\ units[k].payload \in Payloads /\ units[k].zeros \in Nat
           /\ units[k].after \in Nat /\ units[k].starts \in BOOLEAN /\ units[k].zeros >= 2
           /\ k > 1 /\ units[k - 1].after > 0 => units[k].zeros >= 3
           /\ units[k].starts => TypeOf(units[k].payload) \in SliceTypes
           /\ TypeOf(units[k].payload) \in VclTypes /\ ~units[k].starts => SliceBefore(units, k)
  BY <1>1
<1>2. units[k] \in Unit
  BY <1>1, ElementOfSeq
<1>3. /\ units[k].zeros >= 2
      /\ k > 1 /\ units[k - 1].after > 0 => units[k].zeros >= 3
      /\ units[k].starts => TypeOf(units[k].payload) \in SliceTypes
      /\ TypeOf(units[k].payload) \in VclTypes /\ ~units[k].starts => SliceBefore(units, k)
  BY DEF IsSent
<1> QED
  BY <1>2, <1>3 DEF Unit

(* The file, unit by unit. *)
LEMMA FramingIs ==
  ASSUME NEW units, IsSent(units)
  PROVE  LET F == Framing(units)
         IN  /\ F[0] = <<>> /\ \A k \in 0 .. Len(units) : F[k] \in Seq(Bytes)
             /\ \A k \in 1 .. Len(units) : F[k] = F[k - 1] \o Frame(units[k])
<1> DEFINE n == Len(units)
           IsFilled(F) == F = [k \in 0 .. n |-> IF k = 0 THEN <<>> ELSE F[k - 1] \o Frame(units[k])]
<1>1. n \in Nat
  BY SentTyped
<1>2. \A k \in 1 .. n, s \in Seq(Bytes) : s \o Frame(units[k]) \in Seq(Bytes)
  <2> SUFFICES ASSUME NEW k \in 1 .. n, NEW s \in Seq(Bytes) PROVE s \o Frame(units[k]) \in Seq(Bytes)
    OBVIOUS
  <2>1. Frame(units[k]) \in Seq(Bytes)
    BY SentTyped, FrameIs, Zenon
  <2> QED
    BY <2>1, ConcatProperties
<1>0. <<>> \in Seq(Bytes)
  OBVIOUS
<1> HIDE DEF n
<1>3. \E F : IsFilled(F)
  <2>1. PICK g : g = [x \in Seq(Bytes) \X (1 .. n) |-> x[1] \o Frame(units[x[2]])]
    OBVIOUS
  <2>2. \A k \in 1 .. n, s \in Seq(Bytes) : g[<<s, k>>] = s \o Frame(units[k])
    BY <2>1
  <2>3. PICK F : F \in [0 .. n -> Seq(Bytes)] /\ F[0] = <<>> /\ \A k \in 1 .. n : F[k] = g[<<F[k - 1], k>>]
    <3>1. PICK S, a : S = Seq(Bytes) /\ a = <<>>
      OBVIOUS
    <3>2. a \in S /\ \A k \in 1 .. n, s \in S : g[<<s, k>>] \in S
      BY <1>0, <1>2, <2>2, <3>1, Zenon
    <3>3. PICK F : IsRecursion(F, n, S, a, g)
      BY <1>1, <3>2, Recursion, Zenon
    <3> QED
      BY <3>1, <3>3, Zenon DEF IsRecursion
  <2>4. \A k \in 1 .. n : F[k] = F[k - 1] \o Frame(units[k])
    <3> SUFFICES ASSUME NEW k \in 1 .. n PROVE F[k] = F[k - 1] \o Frame(units[k])
      OBVIOUS
    <3>1. k - 1 \in 0 .. n
      BY <1>1
    <3>2. F[k - 1] \in Seq(Bytes)
      BY <2>3, <3>1
    <3> QED
      BY <2>2, <2>3, <3>2, Zenon
  <2>5. \A k \in 0 .. n : F[k] = IF k = 0 THEN <<>> ELSE F[k - 1] \o Frame(units[k])
    <3>1. \A k \in 0 .. n : k = 0 \/ k \in 1 .. n
      BY <1>1
    <3> QED
      BY <2>3, <2>4, <3>1, Zenon
  <2>6. F = [k \in 0 .. n |-> F[k]]
    BY <2>3, Zenon
  <2>7. IsFilled(F)
    BY <2>5, <2>6, Zenon
  <2> QED
    BY <2>7
<1>4. Framing(units) = CHOOSE F : IsFilled(F)
  BY Zenon DEF Framing, n
<1>5. PICK F : F = Framing(units) /\ IsFilled(F)
  <2> HIDE DEF IsFilled
  <2>1. IsFilled(CHOOSE F : IsFilled(F))
    BY <1>3, Zenon
  <2> QED
    BY <1>4, <2>1, Zenon
<1>6. F[0] = <<>> /\ \A k \in 1 .. n : F[k] = F[k - 1] \o Frame(units[k])
  <2>1. 0 \in 0 .. n /\ \A k \in 1 .. n : k \in 0 .. n /\ k # 0
    BY <1>1
  <2>2. \A k \in 0 .. n : F[k] = IF k = 0 THEN <<>> ELSE F[k - 1] \o Frame(units[k])
    BY <1>5, Zenon
  <2> QED
    BY <2>1, <2>2, Zenon
<1>7. PICK J : J = [k \in 0 .. n |-> Seq(Bytes)]
  OBVIOUS
<1>8. \A k \in 0 .. n : J[k] = Seq(Bytes)
  BY <1>7
<1>9. F[0] \in J[0] /\ \A k \in 1 .. n : F[k - 1] \in J[k - 1] => F[k] \in J[k]
  <2>1. 0 \in 0 .. n /\ \A k \in 1 .. n : k \in 0 .. n /\ k - 1 \in 0 .. n
    BY <1>1
  <2>2. F[0] \in Seq(Bytes)
    BY <1>0, <1>6
  <2>3. ASSUME NEW k \in 1 .. n, F[k - 1] \in Seq(Bytes) PROVE F[k] \in Seq(Bytes)
    BY <1>2, <1>6, <2>3, Zenon
  <2> QED
    BY <1>8, <2>1, <2>2, <2>3, Zenon
<1>10. \A k \in 0 .. n : F[k] \in J[k]
  BY <1>1, <1>9, Along
<1> QED
  BY <1>5, <1>6, <1>8, <1>10, Zenon DEF n


(* One piece behind another. *)
LEMMA JoinIs ==
  ASSUME NEW s \in Seq(Bytes), NEW f \in Seq(Bytes), NEW t, t = s \o f
  PROVE  /\ t \in Seq(Bytes) /\ Len(s) \in Nat /\ Len(f) \in Nat /\ Len(t) \in Nat
         /\ Len(t) = Len(s) + Len(f) /\ Len(s) <= Len(t)
         /\ \A i \in 1 .. Len(s) : t[i] = s[i]
         /\ \A i \in 1 .. Len(f) : t[Len(s) + i] = f[i] /\ Len(s) + i \in 1 .. Len(t)
<1>1. PICK l, m \in Nat : l = Len(s) /\ m = Len(f)
  OBVIOUS
<1>2. t \in Seq(Bytes) /\ Len(t) = l + m /\ \A i \in 1 .. l + m : t[i] = IF i <= l THEN s[i] ELSE f[i - l]
  BY <1>1, ConcatProperties
<1>3. \A i \in 1 .. l : i \in 1 .. l + m /\ i <= l
  OBVIOUS
<1>4. \A i \in 1 .. l : t[i] = s[i]
  BY <1>2, <1>3
<1>5. ASSUME NEW i \in 1 .. m PROVE t[l + i] = f[i] /\ l + i \in 1 .. l + m
  <2>1. PICK j : j = l + i
    OBVIOUS
  <2>2. j \in 1 .. l + m /\ ~(j <= l) /\ j - l = i
    BY <2>1
  <2>3. t[j] = f[j - l]
    BY <1>2, <2>2
  <2> QED
    BY <2>1, <2>2, <2>3
<1>6. l + m \in Nat /\ l <= l + m
  OBVIOUS
<1> QED
  BY <1>1, <1>2, <1>4, <1>5, <1>6, Zenon

(* What is written of a stream is written on. *)
LEMMA FramingGrows ==
  ASSUME NEW units, IsSent(units), NEW n \in 0 .. Len(units)
  PROVE  LET F == Framing(units)
         IN  \A m \in n .. Len(units) : Len(F[n]) <= Len(F[m]) /\ \A i \in 1 .. Len(F[n]) : F[m][i] = F[n][i]
<1>1. Len(units) \in Nat /\ \A k \in 1 .. Len(units) : Frame(units[k]) \in Seq(Bytes)
  BY SentTyped, FrameIs
<1>2. PICK F : F = Framing(units)
  OBVIOUS
<1>3. /\ F[0] = <<>> /\ \A k \in 0 .. Len(units) : F[k] \in Seq(Bytes)
      /\ \A k \in 1 .. Len(units) : F[k] = F[k - 1] \o Frame(units[k])
  BY <1>2, FramingIs, Zenon
<1>4. PICK o : o = F[n] /\ o \in Seq(Bytes) /\ Len(o) \in Nat
  BY <1>3
<1> DEFINE Goes(s) == Len(o) <= Len(s) /\ \A i \in 1 .. Len(o) : s[i] = o[i]
<1>5. PICK J : J = [k \in 0 .. Len(units) |-> {s \in Seq(Bytes) : k >= n => Goes(s)}]
  OBVIOUS
<1>6. F[0] \in J[0]
  <2>1. 0 >= n => F[0] = o
    BY <1>4
  <2>2. F[0] \in Seq(Bytes) /\ (0 >= n => Goes(F[0]))
    BY <1>3, <1>4, <2>1
  <2> QED
    BY <1>1, <1>5, <2>2
<1>7. ASSUME NEW k \in 1 .. Len(units), F[k - 1] \in J[k - 1] PROVE F[k] \in J[k]
  <2>1. PICK s, f : s = F[k - 1] /\ s \in Seq(Bytes) /\ f = Frame(units[k]) /\ f \in Seq(Bytes)
    BY <1>1, <1>5, <1>7
  <2>9. k - 1 >= n => Goes(s)
    BY <1>1, <1>5, <1>7, <2>1
  <2>2. PICK t : t = F[k] /\ t = s \o f
    BY <1>3, <2>1
  <2>3. t \in Seq(Bytes) /\ Len(s) \in Nat /\ Len(t) \in Nat /\ Len(s) <= Len(t) /\ \A i \in 1 .. Len(s) : t[i] = s[i]
    <3>1. s \in Seq(Bytes) /\ f \in Seq(Bytes)
      BY <2>1
    <3>2. t = s \o f
      BY <2>2
    <3> HIDE DEF Goes
    <3> QED
      BY <3>1, <3>2, JoinIs
  <2>5. ASSUME k - 1 >= n PROVE Goes(t)
    <3>1. Len(o) <= Len(s) /\ \A i \in 1 .. Len(o) : s[i] = o[i]
      BY <2>9, <2>5
    <3>2. Len(o) <= Len(t)
      BY <1>4, <2>3, <3>1
    <3>3. \A i \in 1 .. Len(o) : i \in 1 .. Len(s)
      BY <1>4, <2>3, <3>1
    <3> QED
      BY <2>3, <3>1, <3>2, <3>3
  <2>6. ASSUME k = n PROVE Goes(t)
    <3>1. t = o
      BY <1>4, <2>2, <2>6
    <3> QED
      BY <1>4, <3>1
  <2>7. k >= n => Goes(t)
    <3>1. k >= n => k - 1 >= n \/ k = n
      OBVIOUS
    <3> QED
      BY <2>5, <2>6, <3>1
  <2>8. k \in 0 .. Len(units) /\ t \in Seq(Bytes)
    BY <1>1, <2>3
  <2> HIDE DEF Goes
  <2> QED
    BY <1>5, <2>2, <2>7, <2>8
<1>8. \A k \in 0 .. Len(units) : F[k] \in J[k]
  BY <1>1, <1>6, <1>7, Along
<1> QED
  BY <1>1, <1>2, <1>4, <1>5, <1>8

(* Where the file has its units. *)
Base(units, k) == Len(Framing(units)[k])
One(units, k) == Base(units, k - 1) + units[k].zeros + 1
Ends(units, k) == One(units, k) + Len(Emulated(units[k].payload))

(* Each unit stands in the file behind its zeros and its one, and before its own zeros. *)
LEMMA FileIs ==
  ASSUME NEW units, IsSent(units)
  PROVE  LET s == ByteStream(units)
         IN  /\ s \in Seq(Bytes) /\ Len(s) \in Nat /\ Base(units, 0) = 0 /\ Base(units, Len(units)) = Len(s)
             /\ \A k \in 1 .. Len(units) :
                  /\ Base(units, k - 1) \in Nat /\ Base(units, k) \in Nat
                  /\ Base(units, k) = Ends(units, k) + units[k].after /\ Base(units, k) <= Len(s)
                  /\ \A i \in 1 .. Len(s) : Base(units, k - 1) < i /\ i < One(units, k) => s[i] = 0
                  /\ s[One(units, k)] = 1
                  /\ \A i \in 1 .. Len(Emulated(units[k].payload)) :
                       s[One(units, k) + i] = Emulated(units[k].payload)[i]
                  /\ \A i \in 1 .. Len(s) : Ends(units, k) < i /\ i <= Base(units, k) => s[i] = 0
<1>1. PICK F, s, N : F = Framing(units) /\ s = ByteStream(units) /\ N = Len(units)
  OBVIOUS
<1>2. /\ F[0] = <<>> /\ \A k \in 0 .. N : F[k] \in Seq(Bytes)
      /\ \A k \in 1 .. N : F[k] = F[k - 1] \o Frame(units[k])
  BY <1>1, FramingIs, Zenon
<1>3. N \in Nat /\ s = F[N]
  BY <1>1, SentTyped DEF ByteStream
<1>4. s \in Seq(Bytes) /\ Len(s) \in Nat /\ Base(units, 0) = 0 /\ Base(units, N) = Len(s)
  <2>1. N \in 0 .. N /\ Len(F[0]) = 0
    BY <1>2, <1>3
  <2> QED
    BY <1>1, <1>2, <1>3, <2>1 DEF Base
<1>5. ASSUME NEW k \in 1 .. N
      PROVE  /\ Base(units, k - 1) \in Nat /\ Base(units, k) \in Nat
             /\ Base(units, k) = Ends(units, k) + units[k].after /\ Base(units, k) <= Len(s)
             /\ \A i \in 1 .. Len(s) : Base(units, k - 1) < i /\ i < One(units, k) => s[i] = 0
             /\ s[One(units, k)] = 1
             /\ \A i \in 1 .. Len(Emulated(units[k].payload)) :
                  s[One(units, k) + i] = Emulated(units[k].payload)[i]
             /\ \A i \in 1 .. Len(s) : Ends(units, k) < i /\ i <= Base(units, k) => s[i] = 0
  <2>1. units[k] \in Unit /\ units[k].payload \in Payloads /\ units[k].zeros \in Nat /\ units[k].after \in Nat
    BY <1>1, SentTyped
  <2>2. PICK u, f, b, z, a : u = units[k] /\ f = Frame(u) /\ b = Emulated(u.payload) /\ z = u.zeros /\ a = u.after
    OBVIOUS
  <2>3. /\ f \in Seq(Bytes) /\ Len(f) = z + 1 + Len(b) + a
        /\ \A i \in 1 .. Len(f) : i <= z => f[i] = 0
        /\ f[z + 1] = 1
        /\ \A i \in 1 .. Len(b) : f[z + 1 + i] = b[i]
        /\ \A i \in 1 .. Len(f) : i > z + 1 + Len(b) => f[i] = 0
    BY <2>1, <2>2, FrameIs
  <2>4. z \in Nat /\ a \in Nat /\ Len(b) \in Nat
    BY <2>1, <2>2, EmulatedIs
  <2>5. k - 1 \in 0 .. N /\ k \in 0 .. N /\ N \in k .. N
    BY <1>3
  <2>6. PICK o, t : o = F[k - 1] /\ o \in Seq(Bytes) /\ t = F[k] /\ t = o \o f
    <3>1. F[k] = F[k - 1] \o f
      BY <1>2, <2>2
    <3>2. F[k - 1] \in Seq(Bytes)
      BY <1>2, <2>5
    <3> QED
      BY <3>1, <3>2
  <2>7. /\ Len(o) \in Nat /\ Len(f) \in Nat /\ Len(t) \in Nat /\ Len(t) = Len(o) + Len(f)
        /\ \A i \in 1 .. Len(f) : t[Len(o) + i] = f[i] /\ Len(o) + i \in 1 .. Len(t)
    BY <2>3, <2>6, JoinIs, Zenon
  <2>8. Len(t) <= Len(s) /\ \A i \in 1 .. Len(t) : s[i] = t[i]
    <3>1. \A m \in k .. N : Len(F[k]) <= Len(F[m]) /\ \A i \in 1 .. Len(F[k]) : F[m][i] = F[k][i]
      <4>1. k \in 0 .. Len(units)
        BY <1>1, <2>5
      <4>2. \A m \in k .. Len(units) : /\ Len(Framing(units)[k]) <= Len(Framing(units)[m])
                                       /\ \A i \in 1 .. Len(Framing(units)[k]) : Framing(units)[m][i] = Framing(units)[k][i]
        BY <4>1, FramingGrows, Zenon
      <4> QED
        BY <1>1, <4>2, Zenon
    <3> QED
      BY <1>3, <2>5, <2>6, <3>1, Zenon
  <2>9. PICK O, L, B, T \in Nat : O = Len(o) /\ L = Len(f) /\ B = Len(b) /\ T = Len(t)
    BY <2>4, <2>7
  <2>10. \A i \in 1 .. L : s[O + i] = f[i]
    BY <2>7, <2>8, <2>9, Zenon
  <2>11. Base(units, k - 1) = O /\ Base(units, k) = T /\ T <= Len(s) /\ T = O + L /\ L = z + 1 + B + a
    <3>1. Base(units, k - 1) = O /\ Base(units, k) = T
      BY <1>1, <2>6, <2>9 DEF Base
    <3> QED
      BY <2>3, <2>7, <2>8, <2>9, <3>1
  <2>12. One(units, k) = O + z + 1 /\ Ends(units, k) = O + z + 1 + B
    <3>1. One(units, k) = O + z + 1
      BY <2>2, <2>11, Zenon DEF One
    <3> QED
      BY <2>2, <2>9, <3>1, Zenon DEF Ends
  <2>13. Base(units, k) = Ends(units, k) + a
    BY <2>4, <2>11, <2>12
  <2>14. ASSUME NEW i \in 1 .. Len(s), O < i, i < O + z + 1 PROVE s[i] = 0
    <3>1. PICK m : m = i - O
      OBVIOUS
    <3>2. m \in 1 .. L /\ m <= z /\ O + m = i
      BY <2>4, <2>11, <2>14, <3>1
    <3>3. f[m] = 0
      BY <2>3, <2>9, <3>2
    <3> QED
      BY <2>10, <3>2, <3>3
  <2>15. s[O + z + 1] = 1
    <3>1. z + 1 \in 1 .. L /\ O + (z + 1) = O + z + 1
      BY <2>4, <2>11
    <3>2. s[O + (z + 1)] = f[z + 1]
      BY <2>10, <3>1, Zenon
    <3> QED
      BY <2>3, <3>1, <3>2
  <2>16. ASSUME NEW i \in 1 .. B PROVE s[O + z + 1 + i] = b[i]
    <3>1. PICK m : m = z + 1 + i
      OBVIOUS
    <3>2. m \in 1 .. L /\ O + m = O + z + 1 + i
      BY <2>4, <2>11, <3>1
    <3>3. s[O + m] = f[m]
      BY <2>10, <3>2
    <3>4. f[m] = b[i]
      BY <2>3, <2>9, <3>1, Zenon
    <3> QED
      BY <3>2, <3>3, <3>4
  <2>17. ASSUME NEW i \in 1 .. Len(s), O + z + 1 + B < i, i <= T PROVE s[i] = 0
    <3>1. PICK m : m = i - O
      OBVIOUS
    <3>2. m \in 1 .. L /\ m > z + 1 + B /\ O + m = i
      BY <2>4, <2>11, <2>17, <3>1
    <3>3. f[m] = 0
      BY <2>3, <2>9, <3>2
    <3> QED
      BY <2>10, <3>2, <3>3
  <2>18. Emulated(units[k].payload) = b /\ units[k].after = a /\ O \in Nat /\ T \in Nat
    BY <2>2, <2>9
  <2>19. \A i \in 1 .. Len(s) : Base(units, k - 1) < i /\ i < One(units, k) => s[i] = 0
    BY <2>11, <2>12, <2>14, Zenon
  <2>20. \A i \in 1 .. Len(b) : s[One(units, k) + i] = b[i]
    BY <2>9, <2>12, <2>16, Zenon
  <2>21. \A i \in 1 .. Len(s) : Ends(units, k) < i /\ i <= Base(units, k) => s[i] = 0
    BY <2>11, <2>12, <2>17, Zenon
  <2> QED
    BY <2>11, <2>12, <2>13, <2>15, <2>18, <2>19, <2>20, <2>21, Zenon
<1> QED
  BY <1>1, <1>4, <1>5, Zenon

(* The one of a start code stands two zeros or more behind the unit before, and the unit behind it. *)
LEMMA OnesIs ==
  ASSUME NEW units, IsSent(units), NEW k \in 1 .. Len(units)
  PROVE  LET s == ByteStream(units)
             b == Emulated(units[k].payload)
         IN  /\ Base(units, k - 1) \in Nat /\ One(units, k) \in Nat /\ Ends(units, k) \in Nat /\ Len(s) \in Nat
             /\ Base(units, k - 1) + 2 < One(units, k) /\ One(units, k) < Ends(units, k) /\ Ends(units, k) <= Len(s)
             /\ Ends(units, k) = One(units, k) + Len(b) /\ Len(b) \in Nat /\ Len(b) > 0
             /\ s[One(units, k)] = 1 /\ s[Ends(units, k)] # 0
             /\ \A i \in 1 .. Len(b) : s[One(units, k) + i] = b[i]
<1>1. PICK u, b : u = units[k] /\ b = Emulated(u.payload)
  OBVIOUS
<1>2. u.payload \in Payloads /\ u.zeros \in Nat /\ u.after \in Nat /\ u.zeros >= 2
  BY <1>1, SentTyped
<1>3. b \in Seq(Bytes) /\ Len(b) \in Nat /\ Len(b) > 0 /\ b[Len(b)] # 0
  BY <1>1, <1>2, EmulatedIs
<1>4. PICK s : s = ByteStream(units)
  OBVIOUS
<1>5. /\ Base(units, k - 1) \in Nat /\ Base(units, k) \in Nat /\ Len(s) \in Nat
      /\ Base(units, k) = Ends(units, k) + u.after /\ Base(units, k) <= Len(s)
      /\ s[One(units, k)] = 1
      /\ \A i \in 1 .. Len(b) : s[One(units, k) + i] = b[i]
  BY <1>1, <1>4, FileIs, Zenon
<1>6. One(units, k) = Base(units, k - 1) + u.zeros + 1 /\ Ends(units, k) = One(units, k) + Len(b)
  BY <1>1, Zenon DEF One, Ends
<1>7. s[Ends(units, k)] # 0
  <2>1. Len(b) \in 1 .. Len(b)
    BY <1>3
  <2> QED
    BY <1>3, <1>5, <1>6, <2>1, Zenon
<1>8. /\ One(units, k) \in Nat /\ Ends(units, k) \in Nat
      /\ Base(units, k - 1) + 2 < One(units, k) /\ One(units, k) < Ends(units, k) /\ Ends(units, k) <= Len(s)
  <2>1. PICK x, y, z, w, B, L, E : /\ x = Base(units, k - 1) /\ y = Base(units, k) /\ z = u.zeros /\ w = u.after
                                   /\ B = Len(b) /\ L = Len(s) /\ E = Ends(units, k)
    OBVIOUS
  <2>2. /\ x \in Nat /\ y \in Nat /\ z \in Nat /\ w \in Nat /\ B \in Nat /\ L \in Nat /\ z >= 2 /\ B > 0
        /\ y = E + w /\ y <= L
    BY <1>2, <1>3, <1>5, <2>1
  <2>3. One(units, k) = x + z + 1 /\ E = One(units, k) + B
    BY <1>6, <2>1, Zenon
  <2>4. x + z + 1 \in Nat /\ E \in Nat /\ x + 2 < x + z + 1 /\ x + z + 1 < E /\ E <= L
    BY <2>2, <2>3
  <2> QED
    BY <2>1, <2>3, <2>4, Zenon
<1> QED
  BY <1>1, <1>3, <1>4, <1>5, <1>6, <1>7, <1>8, Zenon

(* The zeros between a unit and the next. *)
Gap(units, k) == units[k].after + units[k + 1].zeros

(* Between a unit and the next start code's one stand zeros only, two where the code is short. *)
LEMMA BetweenIs ==
  ASSUME NEW units, IsSent(units), NEW k \in 1 .. Len(units) - 1
  PROVE  LET s == ByteStream(units)
         IN  /\ Gap(units, k) \in Nat /\ Gap(units, k) >= 2 /\ (Gap(units, k) >= 3 <=> units[k + 1].zeros # 2)
             /\ One(units, k + 1) = Ends(units, k) + Gap(units, k) + 1
             /\ \A i \in 1 .. Len(s) : Ends(units, k) < i /\ i < One(units, k + 1) => s[i] = 0
<1>1. PICK s : s = ByteStream(units)
  OBVIOUS
<1>2. k \in 1 .. Len(units) /\ k + 1 \in 1 .. Len(units) /\ (k + 1) - 1 = k /\ k + 1 > 1
  BY SentTyped
<1>3. PICK z, a : z = units[k + 1].zeros /\ a = units[k].after
  OBVIOUS
<1>4. z \in Nat /\ a \in Nat /\ z >= 2 /\ (a > 0 => z >= 3)
  BY <1>2, <1>3, SentTyped
<1>5. /\ Base(units, k) \in Nat /\ Base(units, k) = Ends(units, k) + a
      /\ \A i \in 1 .. Len(s) : Ends(units, k) < i /\ i <= Base(units, k) => s[i] = 0
  BY <1>1, <1>2, <1>3, FileIs, Zenon
<1>6. \A i \in 1 .. Len(s) : Base(units, k) < i /\ i < One(units, k + 1) => s[i] = 0
  BY <1>1, <1>2, FileIs
<1>7. One(units, k + 1) = Base(units, k) + z + 1
  BY <1>2, <1>3 DEF One
<1>8. Ends(units, k) \in Nat /\ Len(s) \in Nat
  BY <1>1, <1>2, OnesIs, Zenon
<1>9. Gap(units, k) = a + z
  BY <1>3 DEF Gap
<1>10. Gap(units, k) \in Nat /\ Gap(units, k) >= 2 /\ (Gap(units, k) >= 3 <=> z # 2)
  BY <1>4, <1>9
<1>11. One(units, k + 1) = Ends(units, k) + Gap(units, k) + 1
  BY <1>4, <1>5, <1>7, <1>8, <1>9
<1>12. \A i \in 1 .. Len(s) : i <= Base(units, k) \/ Base(units, k) < i
  BY <1>5, <1>8
<1>13. \A i \in 1 .. Len(s) : Ends(units, k) < i /\ i < One(units, k + 1) => s[i] = 0
  BY <1>5, <1>6, <1>12, Zenon
<1> QED
  BY <1>1, <1>3, <1>10, <1>11, <1>13, Zenon

(* Zeros at the end go. *)
LEMMA StripIs ==
  ASSUME NEW s \in Seq(Bytes), NEW b \in Seq(Bytes), Len(b) > 0, Len(b) <= Len(s), b[Len(b)] # 0,
         \A i \in 1 .. Len(b) : s[i] = b[i], \A i \in 1 .. Len(s) : i > Len(b) => s[i] = 0
  PROVE  StripZeros(s) = b
<1>0. Len(b) \in Nat /\ Len(s) \in Nat /\ Len(b) \in 1 .. Len(s)
  OBVIOUS
<1>1. PICK K, n : K = {k \in 1 .. Len(s) : s[k] # 0} /\ n = Len(b) /\ n \in Nat /\ n > 0 /\ n \in 1 .. Len(s) /\ Len(s) \in Nat
  BY <1>0
<1>2. n \in K /\ \A k \in K : n >= k
  BY <1>1
<1>3. Max(K) = n
  <2>1. \A x \in K : (\A k \in K : x >= k) => x = n
    <3>1. \A x \in K : x \in Nat
      BY <1>1
    <3> QED
      BY <1>1, <1>2, <3>1
  <2> QED
    BY <1>2, <2>1 DEF Max
<1>4. SubSeq(s, 1, n) = b
  <2>1. PICK t : t = SubSeq(s, 1, n)
    OBVIOUS
  <2>2. \A i \in 1 .. n : s[i] \in Bytes
    BY <1>1
  <2>3. t \in Seq(Bytes) /\ Len(t) = n /\ \A i \in 1 .. n : t[i] = s[i]
    BY <1>1, <2>1, <2>2
  <2>4. \A i \in 1 .. n : t[i] = b[i]
    BY <1>1, <2>3
  <2> QED
    BY <1>1, <2>1, <2>3, <2>4, SeqEqual
<1>5. \E k \in 1 .. Len(s) : s[k] # 0
  BY <1>1, <1>2
<1> QED
  BY <1>1, <1>3, <1>4, <1>5, Zenon DEF StripZeros, RBSPtoSODB

(* Part of the file. *)
LEMMA PartIs ==
  ASSUME NEW s \in Seq(Bytes), NEW m \in Nat, NEW n \in Nat, m <= n, n <= Len(s), NEW t, t = SubSeq(s, m + 1, n)
  PROVE  t \in Seq(Bytes) /\ Len(t) = n - m /\ \A i \in 1 .. n - m : t[i] = s[m + i]
<1>1. \A i \in m + 1 .. n : s[i] \in Bytes
  <2>1. \A i \in m + 1 .. n : i \in 1 .. Len(s)
    OBVIOUS
  <2> QED
    BY <2>1
<1>2. t \in Seq(Bytes) /\ Len(t) = n - m /\ \A i \in 1 .. n - m : t[i] = s[(m + 1) + i - 1]
  <2>1. m + 1 \in Int /\ n \in Int /\ (IF m + 1 <= n THEN n - (m + 1) + 1 ELSE 0) = n - m
    OBVIOUS
  <2> QED
    BY <1>1, <2>1, SubSeqProperties
<1>3. \A i \in 1 .. n - m : (m + 1) + i - 1 = m + i
  OBVIOUS
<1> QED
  BY <1>2, <1>3

(* Where GetAnnexbNALU() goes on when k units were read. *)
Rest(units, k) == IF Gap(units, k) >= 3 THEN 4 ELSE 3
ReadTo(units, k) ==
  IF k = 0 THEN 0
  ELSE IF k = Len(units) THEN Len(ByteStream(units)) ELSE One(units, k + 1) - Rest(units, k)
Prefix(units, k) == IF units[k].zeros = 2 THEN 3 ELSE 4

(* Before a unit's start code there are the zeros that belong to it, and no other byte. *)
LEMMA BeforeIs ==
  ASSUME NEW units, IsSent(units), NEW k \in 0 .. Len(units) - 1
  PROVE  LET s == ByteStream(units)
             from == ReadTo(units, k) + 1
             one == One(units, k + 1)
         IN  /\ ReadTo(units, k) \in Nat /\ ReadTo(units, k) < Len(s) /\ from < one
             /\ \A i \in 1 .. Len(s) : from <= i /\ i < one => s[i] = 0
             /\ one - from >= 2 /\ (k > 0 => one - from <= 3)
             /\ (one - from = 2 <=> units[k + 1].zeros = 2)
<1>1. PICK s, one, z : s = ByteStream(units) /\ one = One(units, k + 1) /\ z = units[k + 1].zeros
  OBVIOUS
<1>2. Len(units) \in Nat /\ k + 1 \in 1 .. Len(units) /\ (k + 1) - 1 = k /\ k \in Nat
  BY SentTyped
<1>3. z \in Nat /\ z >= 2
  BY <1>1, <1>2, SentTyped
<1>4. /\ Base(units, k) \in Nat /\ one \in Nat /\ Len(s) \in Nat /\ Ends(units, k + 1) \in Nat
      /\ one < Ends(units, k + 1) /\ Ends(units, k + 1) <= Len(s)
  <2>1. /\ Base(units, (k + 1) - 1) \in Nat /\ One(units, k + 1) \in Nat /\ Ends(units, k + 1) \in Nat /\ Len(s) \in Nat
        /\ One(units, k + 1) < Ends(units, k + 1) /\ Ends(units, k + 1) <= Len(s)
    BY <1>1, <1>2, OnesIs, Zenon
  <2> QED
    BY <1>1, <1>2, <2>1
<1>5. one < Len(s)
  BY <1>4
<1>6. CASE k = 0
  <2>1. ReadTo(units, k) = 0
    BY <1>6 DEF ReadTo
  <2>2. Base(units, k) = 0
    <3>1. Base(units, 0) = 0
      BY FileIs, Zenon
    <3> QED
      BY <1>6, <3>1
  <2>3. one = z + 1
    <3>1. one = Base(units, k) + z + 1
      BY <1>1, <1>2 DEF One
    <3> QED
      BY <1>3, <2>2, <3>1
  <2>4. \A i \in 1 .. Len(s) : Base(units, k) < i /\ i < one => s[i] = 0
    <3>1. \A i \in 1 .. Len(s) : Base(units, (k + 1) - 1) < i /\ i < One(units, k + 1) => s[i] = 0
      BY <1>1, <1>2, FileIs, Zenon
    <3> QED
      BY <1>1, <1>2, <3>1
  <2>5. \A i \in 1 .. Len(s) : i < one => s[i] = 0
    BY <2>2, <2>4
  <2> QED
    BY <1>1, <1>3, <1>4, <1>5, <1>6, <2>1, <2>3, <2>5
<1>7. CASE k # 0
  <2>1. k \in 1 .. Len(units) - 1
    BY <1>2, <1>7
  <2>2. PICK g, e, r : g = Gap(units, k) /\ e = Ends(units, k) /\ r = Rest(units, k)
    OBVIOUS
  <2>3. /\ g \in Nat /\ g >= 2 /\ (g >= 3 <=> z # 2) /\ one = e + g + 1
        /\ \A i \in 1 .. Len(s) : e < i /\ i < one => s[i] = 0
    BY <1>1, <2>1, <2>2, BetweenIs, Zenon
  <2>4. e \in Nat
    <3>1. k \in 1 .. Len(units)
      BY <1>2, <2>1
    <3> QED
      BY <2>2, <3>1, OnesIs
  <2>5. r = IF g >= 3 THEN 4 ELSE 3
    BY <2>2 DEF Rest
  <2>6. ReadTo(units, k) = one - r
    BY <1>1, <1>2, <2>1, <2>2 DEF ReadTo
  <2>7. one - r \in Nat /\ one - r < Len(s) /\ one - r >= e
    BY <1>4, <1>5, <2>3, <2>4, <2>5
  <2>8. \A i \in 1 .. Len(s) : (one - r) + 1 <= i => e < i
    BY <1>4, <2>4, <2>5, <2>7
  <2>9. \A i \in 1 .. Len(s) : (one - r) + 1 <= i /\ i < one => s[i] = 0
    BY <2>3, <2>8, Zenon
  <2>10. one - ((one - r) + 1) >= 2 /\ one - ((one - r) + 1) <= 3 /\ (one - ((one - r) + 1) = 2 <=> z = 2) /\ (one - r) + 1 < one
    BY <1>4, <2>3, <2>5
  <2> QED
    BY <1>1, <2>6, <2>7, <2>9, <2>10, Zenon
<1> QED
  BY <1>6, <1>7

(* Behind a unit there is no start code before that of the next unit. *)
LEMMA BehindIs ==
  ASSUME NEW units, IsSent(units), NEW k \in 1 .. Len(units)
  PROVE  LET s == ByteStream(units)
         IN  \A p \in 1 .. Len(s) : p >= One(units, k) + 3 /\ s[p] = 1 /\ s[p - 1] = 0 /\ s[p - 2] = 0
                                   => k < Len(units) /\ One(units, k + 1) <= p
<1>0. PICK s : s = ByteStream(units)
  OBVIOUS
<1>1. PICK b, one, e : b = Emulated(units[k].payload) /\ one = One(units, k) /\ e = Ends(units, k)
  OBVIOUS
<1>2. /\ one \in Nat /\ Len(s) \in Nat /\ e = one + Len(b) /\ Len(b) \in Nat
      /\ \A i \in 1 .. Len(b) : s[one + i] = b[i]
  <2>1. One(units, k) \in Nat /\ Len(ByteStream(units)) \in Nat
    BY OnesIs
  <2>2. Ends(units, k) = One(units, k) + Len(Emulated(units[k].payload)) /\ Len(Emulated(units[k].payload)) \in Nat
    BY OnesIs
  <2>3. ASSUME NEW i \in 1 .. Len(Emulated(units[k].payload))
        PROVE  ByteStream(units)[One(units, k) + i] = Emulated(units[k].payload)[i]
    BY OnesIs
  <2> QED
    BY <1>0, <1>1, <2>1, <2>2, <2>3
<1>3. b \in Seq(Bytes) /\ Plain(b)
  <2>1. units[k].payload \in Payloads
    BY SentTyped
  <2> QED
    BY <1>1, <2>1, EmulatedIs
<1>4. Len(units) \in Nat /\ k \in Nat
  BY SentTyped
<1> SUFFICES ASSUME NEW p \in 1 .. Len(s), p >= One(units, k) + 3, s[p] = 1, s[p - 1] = 0, s[p - 2] = 0
             PROVE  k < Len(units) /\ One(units, k + 1) <= p
  BY <1>0
<1>5. e < p
  <2> SUFFICES ASSUME p <= e PROVE FALSE
    BY <1>2
  <2>1. PICK i : i = p - one - 2
    OBVIOUS
  <2>2. i \in 1 .. Len(b) - 2 /\ i \in 1 .. Len(b) /\ i + 1 \in 1 .. Len(b) /\ i + 2 \in 1 .. Len(b)
        /\ one + i = p - 2 /\ one + (i + 1) = p - 1 /\ one + (i + 2) = p
    <3>1. PICK l : l = Len(b) /\ l \in Nat /\ e = one + l
      BY <1>2
    <3>2. one \in Nat /\ p \in Nat /\ p >= one + 3
      BY <1>1, <1>2
    <3>3. i \in 1 .. l - 2 /\ i \in 1 .. l /\ i + 1 \in 1 .. l /\ i + 2 \in 1 .. l
          /\ one + i = p - 2 /\ one + (i + 1) = p - 1 /\ one + (i + 2) = p
      BY <2>1, <3>1, <3>2
    <3> QED
      BY <3>1, <3>3, Zenon
  <2>3. b[i] = 0 /\ b[i + 1] = 0 /\ b[i + 2] = 1
    BY <1>2, <2>2
  <2>4. b[i + 2] >= 3
    BY <1>3, <2>2, <2>3 DEF Plain
  <2> QED
    BY <2>3, <2>4
<1>6. CASE k < Len(units)
  <2>1. k \in 1 .. Len(units) - 1
    BY <1>4, <1>6
  <2>2. \A i \in 1 .. Len(s) : e < i /\ i < One(units, k + 1) => s[i] = 0
    BY <1>0, <1>1, <2>1, BetweenIs, Zenon
  <2>3. ~(p < One(units, k + 1))
    BY <1>5, <2>2
  <2>4. One(units, k + 1) \in Nat
    <3>1. k + 1 \in 1 .. Len(units)
      BY <1>4, <1>6
    <3> QED
      BY <3>1, OnesIs
  <2> QED
    BY <1>2, <1>6, <2>3, <2>4
<1>7. CASE k = Len(units)
  <2>1. \A i \in 1 .. Len(s) : e < i /\ i <= Base(units, k) => s[i] = 0
    BY <1>0, <1>1, FileIs, Zenon
  <2>2. Base(units, k) = Len(s)
    <3>1. Base(units, Len(units)) = Len(s)
      BY <1>0, FileIs, Zenon
    <3> QED
      BY <1>7, <3>1
  <2>3. s[p] = 0
    BY <1>2, <1>5, <2>1, <2>2
  <2> QED
    BY <2>3
<1> QED
  BY <1>4, <1>6, <1>7

(* A least element is what Min gives. *)
LEMMA LeastIs ==
  ASSUME NEW K, K \subseteq Nat, NEW x \in K, \A p \in K : x <= p
  PROVE  Min(K) = x
<1>1. PICK m : m = Min(K)
  OBVIOUS
<1>2. m \in K /\ m <= x
  BY <1>1, LeastOne
<1>3. m \in Nat /\ x \in Nat /\ x <= m
  BY <1>2
<1> QED
  BY <1>1, <1>2, <1>3

(* The first byte that is not zero is the one of the start code. *)
LEMMA StartIs ==
  ASSUME IsSent(sentUnits), file = ByteStream(sentUnits), NEW k \in 0 .. Len(sentUnits) - 1, filePos = ReadTo(sentUnits, k)
  PROVE  /\ NonZeros(filePos + 1) # {} /\ Min(NonZeros(filePos + 1)) = One(sentUnits, k + 1)
         /\ file[One(sentUnits, k + 1)] = 1
<1>1. PICK one, from : one = One(sentUnits, k + 1) /\ from = filePos + 1
  OBVIOUS
<1>2. k + 1 \in 1 .. Len(sentUnits)
  BY SentTyped
<1>3. one \in Nat /\ Len(file) \in Nat /\ one < Ends(sentUnits, k + 1) /\ Ends(sentUnits, k + 1) <= Len(file)
      /\ Ends(sentUnits, k + 1) \in Nat
  <2>1. /\ One(sentUnits, k + 1) \in Nat /\ Len(ByteStream(sentUnits)) \in Nat
        /\ One(sentUnits, k + 1) < Ends(sentUnits, k + 1) /\ Ends(sentUnits, k + 1) <= Len(ByteStream(sentUnits))
        /\ Ends(sentUnits, k + 1) \in Nat
    BY <1>2, OnesIs
  <2> QED
    BY <1>1, <2>1
<1>4. file[one] = 1
  <2>1. ByteStream(sentUnits)[One(sentUnits, k + 1)] = 1
    BY <1>2, OnesIs
  <2> QED
    BY <1>1, <2>1
<1>5. filePos \in Nat /\ from < one
  <2>1. ReadTo(sentUnits, k) \in Nat /\ ReadTo(sentUnits, k) + 1 < One(sentUnits, k + 1)
    BY BeforeIs
  <2> QED
    BY <1>1, <2>1
<1>6. \A i \in 1 .. Len(file) : from <= i /\ i < one => file[i] = 0
  <2>1. \A i \in 1 .. Len(ByteStream(sentUnits)) : ReadTo(sentUnits, k) + 1 <= i /\ i < One(sentUnits, k + 1)
                                                   => ByteStream(sentUnits)[i] = 0
    BY BeforeIs
  <2> QED
    BY <1>1, <2>1
<1>7. PICK K : K = NonZeros(from)
  OBVIOUS
<1>8. K = {p \in from .. Len(file) : file[p] # 0}
  BY <1>7 DEF NonZeros
<1>9. one \in K
  BY <1>1, <1>3, <1>4, <1>5, <1>8
<1>10. \A p \in K : one <= p
  <2> SUFFICES ASSUME NEW p \in K, p < one PROVE FALSE
    <3>1. \A p \in K : p \in Int
      BY <1>1, <1>5, <1>8
    <3> QED
      BY <1>3, <3>1
  <2>1. p \in 1 .. Len(file) /\ from <= p /\ file[p] # 0
    BY <1>1, <1>3, <1>5, <1>8
  <2> QED
    BY <1>6, <2>1
<1>11. Min(K) = one
  <2>1. K \subseteq Nat
    BY <1>1, <1>3, <1>5, <1>8
  <2> QED
    BY <1>9, <1>10, <2>1, LeastIs
<1> QED
  BY <1>1, <1>4, <1>7, <1>9, <1>11

(* And the next start code that is found is that of the next unit. *)
LEMMA NextIs ==
  ASSUME IsSent(sentUnits), file = ByteStream(sentUnits), NEW k \in 1 .. Len(sentUnits)
  PROVE  LET next == StartCodes(One(sentUnits, k) + 1)
         IN  /\ k = Len(sentUnits) => next = {}
             /\ k < Len(sentUnits) => next # {} /\ Min(next) = One(sentUnits, k + 1)
<1>1. PICK one, K : one = One(sentUnits, k) /\ K = StartCodes(One(sentUnits, k) + 1)
  OBVIOUS
<1>2. Len(sentUnits) \in Nat /\ k \in Nat
  BY SentTyped
<1>3. one \in Nat /\ Len(file) \in Nat /\ Ends(sentUnits, k) \in Nat /\ one < Ends(sentUnits, k)
  BY <1>1, OnesIs
<1>4. K = {p \in one + 3 .. Len(file) : file[p] = 1 /\ file[p - 1] = 0 /\ file[p - 2] = 0}
  <2>1. (one + 1) + 2 = one + 3
    BY <1>3
  <2> QED
    BY <1>1, <2>1 DEF StartCodes
<1>5. ASSUME NEW p \in K PROVE k < Len(sentUnits) /\ One(sentUnits, k + 1) <= p /\ p \in Nat
  <2>1. p \in 1 .. Len(file) /\ p >= one + 3 /\ file[p] = 1 /\ file[p - 1] = 0 /\ file[p - 2] = 0
    BY <1>3, <1>4
  <2>2. \A q \in 1 .. Len(ByteStream(sentUnits)) :
          q >= One(sentUnits, k) + 3 /\ ByteStream(sentUnits)[q] = 1 /\ ByteStream(sentUnits)[q - 1] = 0 /\ ByteStream(sentUnits)[q - 2] = 0
          => k < Len(sentUnits) /\ One(sentUnits, k + 1) <= q
    BY BehindIs, Zenon
  <2>3. k < Len(sentUnits) /\ One(sentUnits, k + 1) <= p
    BY <1>1, <2>1, <2>2
  <2> QED
    BY <2>1, <2>3
<1>6. CASE k = Len(sentUnits)
  <2>1. K = {}
    BY <1>2, <1>5, <1>6
  <2> QED
    BY <1>1, <1>2, <1>6, <2>1
<1>7. CASE k < Len(sentUnits)
  <2>1. k \in 1 .. Len(sentUnits) - 1 /\ k + 1 \in 1 .. Len(sentUnits)
    BY <1>2, <1>7
  <2>2. PICK n, e, g : n = One(sentUnits, k + 1) /\ e = Ends(sentUnits, k) /\ g = Gap(sentUnits, k)
    OBVIOUS
  <2>3. g \in Nat /\ g >= 2 /\ n = e + g + 1
    BY <2>1, <2>2, BetweenIs
  <2>4. \A i \in 1 .. Len(file) : e < i /\ i < n => file[i] = 0
    <3>1. \A i \in 1 .. Len(ByteStream(sentUnits)) : Ends(sentUnits, k) < i /\ i < One(sentUnits, k + 1) => ByteStream(sentUnits)[i] = 0
      BY <2>1, BetweenIs
    <3> QED
      BY <2>2, <3>1
  <2>5. file[n] = 1 /\ n \in Nat /\ n <= Len(file)
    <3>1. /\ ByteStream(sentUnits)[One(sentUnits, k + 1)] = 1 /\ One(sentUnits, k + 1) \in Nat
          /\ One(sentUnits, k + 1) < Ends(sentUnits, k + 1) /\ Ends(sentUnits, k + 1) <= Len(ByteStream(sentUnits))
          /\ Ends(sentUnits, k + 1) \in Nat
      BY <2>1, OnesIs
    <3> QED
      BY <1>3, <2>2, <3>1
  <2>6. n - 1 \in 1 .. Len(file) /\ e < n - 1 /\ n - 2 \in 1 .. Len(file) /\ e < n - 2 /\ n - 1 < n /\ n - 2 < n
        /\ n \in one + 3 .. Len(file)
    <3>1. PICK l : l = Len(file) /\ l \in Nat /\ n <= l
      BY <1>3, <2>5
    <3>2. e \in Nat /\ one \in Nat /\ one < e
      BY <1>3, <2>2
    <3>3. n - 1 \in 1 .. l /\ e < n - 1 /\ n - 2 \in 1 .. l /\ e < n - 2 /\ n - 1 < n /\ n - 2 < n
          /\ n \in one + 3 .. l
      BY <2>3, <3>1, <3>2
    <3> QED
      BY <3>1, <3>3, Zenon
  <2>7. file[n - 1] = 0 /\ file[n - 2] = 0
    BY <2>4, <2>6
  <2>8. n \in K
    BY <1>4, <2>5, <2>6, <2>7
  <2>9. K \subseteq Nat
    BY <1>5
  <2>10. \A p \in K : n <= p
    BY <1>5, <2>2
  <2>12. Min(K) = n
    BY <2>8, <2>9, <2>10, LeastIs
  <2> QED
    BY <1>1, <1>2, <1>7, <2>2, <2>8, <2>12
<1> QED
  BY <1>2, <1>6, <1>7

(* What is cut out of the file is the unit, with some of the zeros behind it. *)
LEMMA BodyIs ==
  ASSUME NEW units, IsSent(units), NEW k \in 1 .. Len(units), NEW n \in Nat,
         Ends(units, k) <= n, n <= Len(ByteStream(units)),
         NEW end, end = IF k < Len(units) THEN One(units, k + 1) - 1 ELSE Len(ByteStream(units)), n <= end,
         NEW body, body = SubSeq(ByteStream(units), One(units, k) + 1, n)
  PROVE  /\ StripZeros(body) = Emulated(units[k].payload)
         /\ n = Ends(units, k) => body = Emulated(units[k].payload)
<1>0. PICK b : b = Emulated(units[k].payload)
  OBVIOUS
<1>1. PICK s, one, e : s = ByteStream(units) /\ one = One(units, k) /\ e = Ends(units, k)
  OBVIOUS
<1>2. b \in Seq(Bytes) /\ Len(b) \in Nat /\ Len(b) > 0 /\ b[Len(b)] # 0
  <2>1. units[k].payload \in Payloads
    BY SentTyped
  <2> QED
    BY <1>0, <2>1, EmulatedIs
<1>3. s \in Seq(Bytes) /\ Len(s) \in Nat
  BY <1>1, FileIs
<1>4. one \in Nat /\ e = one + Len(b)
  BY <1>0, <1>1, OnesIs
<1>5. \A i \in 1 .. Len(b) : s[one + i] = b[i]
  <2>1. ASSUME NEW i \in 1 .. Len(Emulated(units[k].payload))
        PROVE  ByteStream(units)[One(units, k) + i] = Emulated(units[k].payload)[i]
    BY OnesIs
  <2> QED
    BY <1>0, <1>1, <2>1
<1>6. ASSUME NEW i \in 1 .. Len(s), e < i, i <= n PROVE s[i] = 0
  <2>1. Len(units) \in Nat /\ k \in Nat
    BY SentTyped
  <2>2. CASE k < Len(units)
    <3>1. k \in 1 .. Len(units) - 1 /\ k + 1 \in 1 .. Len(units)
      BY <2>1, <2>2
    <3>2. One(units, k + 1) \in Nat
      BY <3>1, OnesIs
    <3>3. i < One(units, k + 1)
      BY <1>3, <1>6, <2>2, <3>2
    <3>4. ByteStream(units)[i] = 0
      BY <1>1, <1>6, <3>1, <3>3, BetweenIs
    <3> QED
      BY <1>1, <3>4
  <2>3. CASE k = Len(units)
    <3>1. Base(units, k) = Len(s)
      <4>1. Base(units, Len(units)) = Len(ByteStream(units))
        BY FileIs, Zenon
      <4> QED
        BY <1>1, <2>3, <4>1
    <3>2. i <= Base(units, k) /\ Ends(units, k) < i
      BY <1>1, <1>6, <3>1
    <3>3. ByteStream(units)[i] = 0
      BY <1>1, <3>2, FileIs
    <3> QED
      BY <1>1, <3>3
  <2> QED
    BY <2>1, <2>2, <2>3
<1>7. one <= n /\ n <= Len(s)
  BY <1>1, <1>2, <1>4
<1>8. body = SubSeq(s, one + 1, n)
  BY <1>1
<1>9. body \in Seq(Bytes) /\ Len(body) = n - one /\ \A i \in 1 .. n - one : body[i] = s[one + i]
  <2>1. PICK t : t = SubSeq(s, one + 1, n)
    OBVIOUS
  <2>2. t \in Seq(Bytes) /\ Len(t) = n - one /\ \A i \in 1 .. n - one : t[i] = s[one + i]
    BY <1>3, <1>4, <1>7, <2>1, PartIs
  <2> QED
    BY <1>8, <2>1, <2>2
<1>10. PICK l, m \in Nat : l = Len(b) /\ m = n - one /\ l <= m
  BY <1>1, <1>2, <1>4, <1>7
<1>11. \A i \in 1 .. l : body[i] = b[i]
  <2>1. \A i \in 1 .. l : i \in 1 .. m
    BY <1>10
  <2> QED
    BY <1>5, <1>9, <1>10, <2>1
<1>12. ASSUME NEW i \in 1 .. m, i > l PROVE body[i] = 0
  <2>1. one + i \in 1 .. Len(s) /\ e < one + i /\ one + i <= n
    BY <1>3, <1>4, <1>7, <1>10, <1>12
  <2>2. s[one + i] = 0
    BY <1>6, <2>1
  <2> QED
    BY <1>9, <1>10, <2>2
<1>13. Len(body) = m
  BY <1>9, <1>10
<1>14. StripZeros(body) = b
  <2>1. \A i \in 1 .. Len(b) : body[i] = b[i]
    BY <1>10, <1>11
  <2>2. \A i \in 1 .. Len(body) : i > Len(b) => body[i] = 0
    BY <1>10, <1>12, <1>13
  <2>3. Len(b) <= Len(body)
    BY <1>10, <1>13
  <2> QED
    BY <1>2, <1>9, <2>1, <2>2, <2>3, StripIs
<1>15. ASSUME n = Ends(units, k) PROVE body = b
  <2>1. m = l
    <3>1. n = one + l /\ m = n - one
      BY <1>1, <1>4, <1>10, <1>15
    <3> QED
      BY <1>4, <3>1
  <2> QED
    BY <1>2, <1>9, <1>10, <1>11, <1>13, <2>1, SeqEqual
<1> QED
  BY <1>0, <1>14, <1>15

(* The lesser of two numbers. *)
LEMMA LeastOfTwo ==
  ASSUME NEW x \in Nat, NEW y \in Nat, x <= y
  PROVE  Min({x, y}) = x /\ Min({y, x}) = x
<1>1. PICK K : K = {x, y}
  OBVIOUS
<1>2. K \subseteq Nat /\ x \in K /\ \A p \in K : x <= p
  BY <1>1
<1>3. Min(K) = x
  BY <1>2, LeastIs
<1>4. K = {y, x}
  BY <1>1
<1> QED
  BY <1>1, <1>3, <1>4, Zenon

(* GetAnnexbNALU(), where a start code is found. *)
LEMMA GetAnnexbUnfolds ==
  ASSUME filePos \in Nat, Len(file) \in Nat, filePos < Len(file)
  PROVE  LET one == Min(NonZeros(filePos + 1))
             zeros == one - (filePos + 1)
             next == StartCodes(one + 1)
             long == next # {} /\ file[Min(next) - 3] = 0
             end == IF next = {} THEN Len(file) ELSE Min(next) - (IF long THEN 4 ELSE 3)
             body == SubSeq(file, one + 1, end)
         IN  NonZeros(filePos + 1) # {} /\ file[one] = 1 /\ ~(zeros < 2) /\ ~(~IsFirstByteStreamNALU /\ zeros > 3)
             => GetAnnexbNALU = [ret |-> 1, startcodeprefix_len |-> Min({zeros, 3}) + 1,
                                 buf |-> IF next # {} /\ ~long THEN body ELSE StripZeros(body), pos |-> end]
<1> DEFINE From == filePos + 1
           O == Min(NonZeros(From))
           Z == O - From
           B == \/ NonZeros(From) = {} \/ file[O] # 1 \/ Z < 2
                \/ ~IsFirstByteStreamNALU /\ Z > 3
           N == StartCodes(O + 1)
           G == N # {} /\ file[Min(N) - 3] = 0
           Y == IF N = {} THEN SubSeq(file, O + 1, Len(file))
                ELSE SubSeq(file, O + 1, Min(N) - (IF G THEN 4 ELSE 3))
           R == [ret |-> 1, startcodeprefix_len |-> Min({Z, 3}) + 1,
                 buf |-> IF N # {} /\ ~G THEN Y ELSE StripZeros(Y),
                 pos |-> IF N = {} THEN Len(file) ELSE Min(N) - (IF G THEN 4 ELSE 3)]
<1>1. GetAnnexbNALU = CASE filePos = Len(file) -> [ret |-> 0]
                        [] filePos < Len(file) /\ B -> [ret |-> -1]
                        [] filePos < Len(file) /\ ~B -> R
  BY Zenon DEF GetAnnexbNALU
<1> DEFINE E == IF N = {} THEN Len(file) ELSE Min(N) - (IF G THEN 4 ELSE 3)
<1>2. Y = SubSeq(file, O + 1, E)
  <2> HIDE DEF N, G, O
  <2> QED
    OBVIOUS
<1> SUFFICES ASSUME ~B
             PROVE  GetAnnexbNALU = [ret |-> 1, startcodeprefix_len |-> Min({Z, 3}) + 1,
                                     buf |-> IF N # {} /\ ~G THEN SubSeq(file, O + 1, E) ELSE StripZeros(SubSeq(file, O + 1, E)),
                                     pos |-> E]
  BY Zenon
<1>3. R = [ret |-> 1, startcodeprefix_len |-> Min({Z, 3}) + 1,
           buf |-> IF N # {} /\ ~G THEN SubSeq(file, O + 1, E) ELSE StripZeros(SubSeq(file, O + 1, E)),
           pos |-> E]
  <2> HIDE DEF N, G, O, Y, Z
  <2> QED
    BY <1>2, Zenon
<1>4. GetAnnexbNALU = R
  <2> HIDE DEF B, R
  <2> QED
    BY <1>1
<1> QED
  BY <1>3, <1>4, Zenon

(* GetAnnexbNALU() gives the units that were sent, one after the other. *)
LEMMA GetAnnexbIs ==
  ASSUME IsSent(sentUnits), file = ByteStream(sentUnits), NEW k \in 0 .. Len(sentUnits) - 1, filePos = ReadTo(sentUnits, k),
         ~IsFirstByteStreamNALU => k > 0
  PROVE  GetAnnexbNALU = [ret |-> 1, startcodeprefix_len |-> Prefix(sentUnits, k + 1),
                          buf |-> Emulated(sentUnits[k + 1].payload), pos |-> ReadTo(sentUnits, k + 1)]
<1>1. PICK q, one, from, zeros, L : /\ q = k + 1 /\ one = Min(NonZeros(filePos + 1)) /\ from = filePos + 1
                                    /\ zeros = one - from /\ L = Len(file)
  OBVIOUS
<1>2. q \in 1 .. Len(sentUnits) /\ Len(sentUnits) \in Nat /\ q \in Nat /\ k \in Nat
  BY <1>1, SentTyped
<1>3. NonZeros(from) # {} /\ one = One(sentUnits, q) /\ file[one] = 1
  <2>1. /\ NonZeros(filePos + 1) # {} /\ Min(NonZeros(filePos + 1)) = One(sentUnits, k + 1)
        /\ file[One(sentUnits, k + 1)] = 1
    BY StartIs
  <2> QED
    BY <1>1, <2>1
<1>4. /\ filePos \in Nat /\ filePos < L /\ L \in Nat /\ one \in Nat
      /\ zeros >= 2 /\ (k > 0 => zeros <= 3) /\ (zeros = 2 <=> sentUnits[q].zeros = 2) /\ zeros \in Nat
  <2>1. /\ ReadTo(sentUnits, k) \in Nat /\ ReadTo(sentUnits, k) < Len(ByteStream(sentUnits))
        /\ One(sentUnits, k + 1) - (ReadTo(sentUnits, k) + 1) >= 2
        /\ (k > 0 => One(sentUnits, k + 1) - (ReadTo(sentUnits, k) + 1) <= 3)
        /\ (One(sentUnits, k + 1) - (ReadTo(sentUnits, k) + 1) = 2 <=> sentUnits[k + 1].zeros = 2)
    BY BeforeIs
  <2>2. zeros = One(sentUnits, k + 1) - (ReadTo(sentUnits, k) + 1)
    BY <1>1, <1>3
  <2>3. One(sentUnits, q) \in Nat /\ Len(ByteStream(sentUnits)) \in Nat
    BY <1>2, OnesIs
  <2> QED
    BY <1>1, <1>3, <2>1, <2>2, <2>3
<1>6. ~(zeros < 2) /\ ~(~IsFirstByteStreamNALU /\ zeros > 3)
  BY <1>4
<1>7. Min({zeros, 3}) + 1 = Prefix(sentUnits, q)
  <2>1. Min({zeros, 3}) = IF zeros = 2 THEN 2 ELSE 3
    <3>2. CASE zeros = 2
      <4>1. zeros <= 3 /\ 3 \in Nat
        BY <3>2
      <4> QED
        BY <1>4, <3>2, <4>1, LeastOfTwo
    <3>3. CASE zeros # 2
      <4>1. PICK three \in Nat : three = 3 /\ three <= zeros
        BY <1>4, <3>3
      <4>2. Min({zeros, three}) = three
        BY <1>4, <4>1, LeastOfTwo, Zenon
      <4> QED
        BY <3>3, <4>1, <4>2
    <3> QED
      BY <3>2, <3>3
  <2> QED
    BY <1>4, <2>1 DEF Prefix
<1>8. PICK next, m, b, e : /\ next = StartCodes(one + 1) /\ m = Min(next)
                           /\ b = Emulated(sentUnits[q].payload) /\ e = Ends(sentUnits, q)
  OBVIOUS
<1>9. /\ q = Len(sentUnits) => next = {}
      /\ q < Len(sentUnits) => next # {} /\ m = One(sentUnits, q + 1)
  BY <1>2, <1>3, <1>8, NextIs
<1>10. PICK long \in BOOLEAN : long = (next # {} /\ file[m - 3] = 0)
  OBVIOUS
<1>11. PICK n, body : n = (IF next = {} THEN L ELSE m - (IF long THEN 4 ELSE 3)) /\ body = SubSeq(file, one + 1, n)
  OBVIOUS
<1>16. long <=> next # {} /\ file[m - 3] = 0
  BY <1>10
<1>15. GetAnnexbNALU = [ret |-> 1, startcodeprefix_len |-> Min({zeros, 3}) + 1,
                        buf |-> IF next # {} /\ ~long THEN body ELSE StripZeros(body), pos |-> n]
  <2>1. PICK g, end : (g <=> next # {} /\ file[Min(next) - 3] = 0) /\ end = IF next = {} THEN Len(file) ELSE Min(next) - (IF g THEN 4 ELSE 3)
    OBVIOUS
  <2> QED
    BY <1>1, <1>3, <1>4, <1>6, <1>8, <1>11, <1>16, GetAnnexbUnfolds, Zenon
<1>12. e \in Nat /\ one < e /\ e <= L
  <2>1. /\ One(sentUnits, q) \in Nat /\ Ends(sentUnits, q) \in Nat /\ One(sentUnits, q) < Ends(sentUnits, q)
        /\ Ends(sentUnits, q) <= Len(ByteStream(sentUnits))
    BY <1>2, OnesIs
  <2> QED
    BY <1>1, <1>3, <1>8, <2>1
<1>13. CASE q = Len(sentUnits)
  <2>1. next = {} /\ ~(q < Len(sentUnits))
    BY <1>2, <1>9, <1>13
  <2>2. n = L /\ body = SubSeq(ByteStream(sentUnits), One(sentUnits, q) + 1, n)
    BY <1>1, <1>3, <1>11, <2>1
  <2>3. StripZeros(body) = b
    <3>1. PICK end : end = IF q < Len(sentUnits) THEN One(sentUnits, q + 1) - 1 ELSE Len(ByteStream(sentUnits))
      OBVIOUS
    <3>2. n \in Nat /\ Ends(sentUnits, q) <= n /\ n <= Len(ByteStream(sentUnits)) /\ n <= end
      BY <1>1, <1>4, <1>8, <1>12, <2>1, <2>2, <3>1
    <3> QED
      BY <1>2, <1>8, <2>2, <3>1, <3>2, BodyIs
  <2>4. ReadTo(sentUnits, q) = n
    BY <1>1, <1>2, <1>13, <2>2 DEF ReadTo
  <2>5. (IF next # {} /\ ~long THEN body ELSE StripZeros(body)) = b
    BY <2>1, <2>3
  <2> QED
    BY <1>1, <1>7, <1>8, <1>15, <2>4, <2>5
<1>14. CASE q < Len(sentUnits)
  <2>1. q \in 1 .. Len(sentUnits) - 1 /\ q + 1 \in 1 .. Len(sentUnits) /\ next # {} /\ m = One(sentUnits, q + 1)
    BY <1>2, <1>9, <1>14
  <2>2. PICK g : g = Gap(sentUnits, q) /\ n = m - (IF long THEN 4 ELSE 3)
    BY <1>11, <2>1
  <2>3. g \in Nat /\ g >= 2 /\ m = e + g + 1
    BY <1>8, <2>1, <2>2, BetweenIs
  <2>4. \A i \in 1 .. L : e < i /\ i < m => file[i] = 0
    <3>1. \A i \in 1 .. Len(ByteStream(sentUnits)) : Ends(sentUnits, q) < i /\ i < One(sentUnits, q + 1) => ByteStream(sentUnits)[i] = 0
      BY <2>1, BetweenIs
    <3> QED
      BY <1>1, <1>8, <2>1, <3>1
  <2>5. m \in Nat /\ m < L
    <3>1. /\ One(sentUnits, q + 1) \in Nat /\ One(sentUnits, q + 1) < Ends(sentUnits, q + 1)
          /\ Ends(sentUnits, q + 1) <= Len(ByteStream(sentUnits)) /\ Ends(sentUnits, q + 1) \in Nat
      BY <2>1, OnesIs
    <3>2. PICK x : x = Ends(sentUnits, q + 1) /\ x \in Nat /\ m \in Nat /\ m < x /\ x <= L
      BY <1>1, <2>1, <3>1
    <3> QED
      BY <1>4, <3>2
  <2>6. long <=> g >= 3
    <3>1. CASE g >= 3
      <4>1. m - 3 \in 1 .. L /\ e < m - 3 /\ m - 3 < m
        BY <1>4, <1>12, <2>3, <2>5, <3>1
      <4>2. file[m - 3] = 0
        BY <2>4, <4>1
      <4> QED
        BY <1>10, <2>1, <3>1, <4>2
    <3>2. CASE ~(g >= 3)
      <4>1. m - 3 = e
        BY <1>12, <2>3, <3>2
      <4>2. file[e] # 0
        <5>1. ByteStream(sentUnits)[Ends(sentUnits, q)] # 0
          BY <1>2, OnesIs
        <5> QED
          BY <1>8, <5>1
      <4> QED
        BY <1>10, <3>2, <4>1, <4>2
    <3> QED
      BY <3>1, <3>2
  <2>7. n \in Nat /\ e <= n /\ n <= L /\ n <= m - 1 /\ (~long => n = e)
    <3>1. CASE g >= 3
      <4>1. n = m - 4
        BY <2>2, <2>6, <3>1
      <4> QED
        BY <1>4, <1>12, <2>3, <2>5, <2>6, <3>1, <4>1
    <3>2. CASE ~(g >= 3)
      <4>1. n = m - 3 /\ g = 2
        BY <2>2, <2>3, <2>6, <3>2
      <4> QED
        BY <1>4, <1>12, <2>3, <2>5, <4>1
    <3> QED
      BY <3>1, <3>2
  <2>8. n = ReadTo(sentUnits, q)
    <3>1. Rest(sentUnits, q) = IF long THEN 4 ELSE 3
      BY <2>2, <2>6 DEF Rest
    <3>2. ReadTo(sentUnits, q) = One(sentUnits, q + 1) - Rest(sentUnits, q)
      BY <1>2, <1>14 DEF ReadTo
    <3> QED
      BY <2>1, <2>2, <3>1, <3>2
  <2>9. StripZeros(body) = b /\ (~long => body = b)
    <3>1. body = SubSeq(ByteStream(sentUnits), One(sentUnits, q) + 1, n)
      BY <1>1, <1>3, <1>11, <2>1, <2>2
    <3>2. PICK end : end = IF q < Len(sentUnits) THEN One(sentUnits, q + 1) - 1 ELSE Len(ByteStream(sentUnits))
      OBVIOUS
    <3>3. Ends(sentUnits, q) <= n /\ n <= Len(ByteStream(sentUnits)) /\ n <= end
      BY <1>1, <1>8, <1>14, <2>1, <2>7, <3>2
    <3>4. StripZeros(body) = Emulated(sentUnits[q].payload) /\ (n = Ends(sentUnits, q) => body = Emulated(sentUnits[q].payload))
      BY <1>2, <2>7, <3>1, <3>2, <3>3, BodyIs
    <3> QED
      BY <1>8, <2>7, <3>4
  <2>10. (IF next # {} /\ ~long THEN body ELSE StripZeros(body)) = b
    BY <2>1, <2>9
  <2> QED
    BY <1>1, <1>7, <1>8, <1>15, <2>8, <2>10
<1> QED
  BY <1>2, <1>13, <1>14

(* At the end of the file there is no unit. *)
LEMMA GetAnnexbEnds ==
  ASSUME filePos = Len(file), filePos \in Nat
  PROVE  GetAnnexbNALU = [ret |-> 0]
BY DEF GetAnnexbNALU

(* A bounded set of numbers has a greatest element. *)
LEMMA GreatestOne ==
  ASSUME NEW n \in Nat, NEW K, K \subseteq 1 .. n, K # {}
  PROVE  Max(K) \in K /\ \A j \in K : j <= Max(K)
<1>1. PICK B : B = {b \in Nat : \A j \in K : j <= b}
  OBVIOUS
<1>2. PICK m : m = Min(B)
  OBVIOUS
<1>3. n \in B /\ B \subseteq Nat
  BY <1>1
<1>4. m \in B /\ \A b \in B : m <= b
  BY <1>2, <1>3, LeastOne
<1>5. m \in Nat /\ \A j \in K : j <= m
  BY <1>1, <1>4
<1>6. m \in K
  <2> SUFFICES ASSUME m \notin K PROVE FALSE
    OBVIOUS
  <2>1. PICK j \in K : j \in 1 .. n
    OBVIOUS
  <2>2. m > 0
    BY <1>5, <2>1
  <2>3. \A i \in K : i <= m - 1
    <3>1. ASSUME NEW i \in K PROVE i <= m - 1
      <4>1. i # m /\ i <= m /\ i \in Nat
        BY <1>5
      <4> QED
        BY <1>5, <4>1
    <3> QED
      BY <3>1
  <2>4. m - 1 \in B
    BY <1>1, <1>5, <2>2, <2>3
  <2>5. m <= m - 1
    BY <1>4, <2>4
  <2> QED
    BY <1>5, <2>5
<1>7. \E x \in K : \A y \in K : x >= y
  BY <1>5, <1>6
<1>8. Max(K) \in K /\ \A y \in K : Max(K) >= y
  BY <1>7, Zenon DEF Max
<1> QED
  BY <1>8

-----------------------------------------------------------------------------
(* Access units *)
TypeAt(units, k) == TypeOf(units[k].payload)
HasSlice(units, k) == \E j \in 1 .. k : TypeAt(units, j) \in VclTypes

(* A slice neither starts an access unit by its type nor is a parameter set. *)
LEMMA TypesApart ==
  ASSUME NEW type, type \in VclTypes
  PROVE  ~StartsAccessUnit(type) /\ type \notin {NALU_TYPE_SPS, NALU_TYPE_PPS}
BY DEF VclTypes, StartsAccessUnit, NALU_TYPE_SPS, NALU_TYPE_PPS, NALU_TYPE_SEI, NALU_TYPE_AUD

(* One unit more. *)
LEMMA SliceBeforeNext ==
  ASSUME NEW units, NEW k \in Nat
  PROVE  /\ SliceBefore(units, k + 2) <=>
              TypeAt(units, k + 1) \in VclTypes \/ (SliceBefore(units, k + 1) /\ ~StartsAccessUnit(TypeAt(units, k + 1)))
         /\ HasSlice(units, k + 1) <=> HasSlice(units, k) \/ TypeAt(units, k + 1) \in VclTypes
         /\ SliceBefore(units, k + 1) => HasSlice(units, k)
<1> DEFINE Stays(j, n) == \A i \in j + 1 .. n : ~StartsAccessUnit(TypeAt(units, i))
<1>1. SliceBefore(units, k + 1) <=> \E j \in 1 .. k : TypeAt(units, j) \in VclTypes /\ Stays(j, k)
  <2>1. (k + 1) - 1 = k
    OBVIOUS
  <2> QED
    BY <2>1 DEF SliceBefore, TypeAt
<1>2. SliceBefore(units, k + 2) <=> \E j \in 1 .. k + 1 : TypeAt(units, j) \in VclTypes /\ Stays(j, k + 1)
  <2>1. (k + 2) - 1 = k + 1
    OBVIOUS
  <2> QED
    BY <2>1 DEF SliceBefore, TypeAt
<1>3. \A j \in 1 .. k : Stays(j, k + 1) <=> Stays(j, k) /\ ~StartsAccessUnit(TypeAt(units, k + 1))
  <2> SUFFICES ASSUME NEW j \in 1 .. k PROVE Stays(j, k + 1) <=> Stays(j, k) /\ ~StartsAccessUnit(TypeAt(units, k + 1))
    OBVIOUS
  <2>1. k + 1 \in j + 1 .. k + 1 /\ \A i \in j + 1 .. k + 1 : i \in j + 1 .. k \/ i = k + 1
    OBVIOUS
  <2>2. \A i \in j + 1 .. k : i \in j + 1 .. k + 1
    OBVIOUS
  <2> QED
    BY <2>1, <2>2, Zenon
<1>4. Stays(k + 1, k + 1)
  <2>1. (k + 1) + 1 .. k + 1 = {}
    OBVIOUS
  <2> QED
    BY <2>1
<1> HIDE DEF Stays
<1>5. k + 1 \in 1 .. k + 1 /\ (\A j \in 1 .. k + 1 : j \in 1 .. k \/ j = k + 1) /\ \A j \in 1 .. k : j \in 1 .. k + 1
  OBVIOUS
<1>6. SliceBefore(units, k + 2) <=>
        TypeAt(units, k + 1) \in VclTypes \/ (SliceBefore(units, k + 1) /\ ~StartsAccessUnit(TypeAt(units, k + 1)))
  BY <1>1, <1>2, <1>3, <1>4, <1>5, Zenon
<1>7. HasSlice(units, k + 1) <=> HasSlice(units, k) \/ TypeAt(units, k + 1) \in VclTypes
  BY <1>5, Zenon DEF HasSlice
<1>8. SliceBefore(units, k + 1) => HasSlice(units, k)
  BY <1>1, Zenon DEF HasSlice
<1> QED
  BY <1>6, <1>7, <1>8, Zenon

Begins(units, j) == IF TypeAt(units, j) \in VclTypes THEN units[j].starts ELSE StartsAccessUnit(TypeAt(units, j))

(* What the first unit of an access unit is, from the units before. *)
LEMMA FirstIs ==
  ASSUME NEW k \in Nat
  PROVE  /\ ~HasSlice(sentUnits, k) => (FirstOfAccessUnit(k + 1) <=> k = 0)
         /\ HasSlice(sentUnits, k) =>
              (FirstOfAccessUnit(k + 1) <=> Begins(sentUnits, k + 1) /\ SliceBefore(sentUnits, k + 1))
<1>1. PICK K : K = {j \in 1 .. k : TypeAt(sentUnits, j) \in VclTypes}
  OBVIOUS
<1>2. FirstOfAccessUnit(k + 1) <=>
        IF K = {} THEN k + 1 = 1
        ELSE Begins(sentUnits, k + 1) /\ \A j \in Max(K) + 1 .. k : ~Begins(sentUnits, j)
  <2>1. (k + 1) - 1 = k
    OBVIOUS
  <2>2. FirstOfAccessUnit(k + 1) <=>
          LET before == {j \in 1 .. (k + 1) - 1 : TypeAt(sentUnits, j) \in VclTypes}
          IN  IF before = {} THEN k + 1 = 1
              ELSE Begins(sentUnits, k + 1) /\ \A j \in Max(before) + 1 .. (k + 1) - 1 : ~Begins(sentUnits, j)
    BY Zenon DEF FirstOfAccessUnit, Begins, TypeAt
  <2> QED
    BY <1>1, <2>1, <2>2, Zenon
<1>3. HasSlice(sentUnits, k) <=> K # {}
  BY <1>1 DEF HasSlice
<1>4. CASE K = {}
  <2>1. k + 1 = 1 <=> k = 0
    OBVIOUS
  <2> QED
    BY <1>2, <1>3, <1>4, <2>1
<1>5. CASE K # {}
  <2>1. PICK m : m = Max(K) /\ m \in K /\ \A j \in K : j <= m
    BY <1>1, <1>5, GreatestOne
  <2>2. m \in 1 .. k /\ TypeAt(sentUnits, m) \in VclTypes
    BY <1>1, <2>1
  <2>3. ASSUME NEW j \in m + 1 .. k PROVE TypeAt(sentUnits, j) \notin VclTypes /\ j \in 1 .. k
    <3>1. j \in 1 .. k /\ ~(j <= m)
      BY <2>2
    <3>2. j \notin K
      BY <2>1, <3>1
    <3> QED
      BY <1>1, <3>1, <3>2
  <2>4. \A j \in m + 1 .. k : Begins(sentUnits, j) <=> StartsAccessUnit(TypeAt(sentUnits, j))
    BY <2>3 DEF Begins
  <2>5. SliceBefore(sentUnits, k + 1) <=>
          \E j \in 1 .. k : /\ TypeAt(sentUnits, j) \in VclTypes
                            /\ \A i \in j + 1 .. k : ~StartsAccessUnit(TypeAt(sentUnits, i))
    <3>1. (k + 1) - 1 = k
      OBVIOUS
    <3> QED
      BY <3>1 DEF SliceBefore, TypeAt
  <2>6. SliceBefore(sentUnits, k + 1) <=> \A i \in m + 1 .. k : ~StartsAccessUnit(TypeAt(sentUnits, i))
    <3>1. ASSUME SliceBefore(sentUnits, k + 1), NEW i \in m + 1 .. k PROVE ~StartsAccessUnit(TypeAt(sentUnits, i))
      <4>1. PICK j \in 1 .. k : /\ TypeAt(sentUnits, j) \in VclTypes
                                /\ \A n \in j + 1 .. k : ~StartsAccessUnit(TypeAt(sentUnits, n))
        BY <2>5, <3>1
      <4>2. j \in K
        BY <1>1, <4>1
      <4>3. j <= m
        BY <2>1, <4>2
      <4>4. i \in j + 1 .. k
        BY <2>2, <4>3
      <4> QED
        BY <4>1, <4>4
    <3> QED
      BY <2>2, <2>5, <3>1, Zenon
  <2> QED
    BY <1>2, <1>3, <1>5, <2>1, <2>4, <2>6, Zenon
<1> QED
  BY <1>4, <1>5

(* How the counters stand when k units were read. *)
Counted(units, k, exists, count) ==
  /\ exists <=> SliceBefore(units, k + 1)
  /\ count \in Nat
  /\ ~HasSlice(units, k) => count = k
  /\ HasSlice(units, k) => count >= 1

(* CheckZeroByteNonVCL() and CheckZeroByteVCL() keep them so, and complain where they must. *)
LEMMA CheckedIs ==
  ASSUME IsSent(sentUnits), NEW k \in 0 .. Len(sentUnits) - 1,
         Counted(sentUnits, k, LastAccessUnitExists, NALUCount), NEW prefix,
         NEW type, type = TypeAt(sentUnits, k + 1), NEW new \in BOOLEAN, new <=> type \in SliceTypes /\ sentUnits[k + 1].starts
  PROVE  LET check == CheckZeroByte(type, prefix, new)
         IN  /\ Counted(sentUnits, k + 1, check.exists, check.count)
             /\ check.warned <=>
                  prefix = 3 /\ (FirstOfAccessUnit(k + 1) \/ type \in {NALU_TYPE_SPS, NALU_TYPE_PPS})
<1>1. k \in Nat /\ k + 1 \in 1 .. Len(sentUnits)
  BY SentTyped
<1>2. /\ new <=> sentUnits[k + 1].starts
      /\ new => type \in VclTypes
      /\ type \in VclTypes /\ ~new => SliceBefore(sentUnits, k + 1)
  <2>1. /\ sentUnits[k + 1].starts => TypeOf(sentUnits[k + 1].payload) \in SliceTypes
        /\ TypeOf(sentUnits[k + 1].payload) \in VclTypes /\ ~sentUnits[k + 1].starts => SliceBefore(sentUnits, k + 1)
    BY <1>1, SentTyped
  <2>2. SliceTypes \subseteq VclTypes
    BY DEF SliceTypes, VclTypes, NALU_TYPE_SLICE, NALU_TYPE_IDR
  <2>3. new <=> sentUnits[k + 1].starts
    BY <2>1 DEF TypeAt
  <2> QED
    BY <2>1, <2>2, <2>3 DEF TypeAt
<1>3. PICK vcl, sau, ps, before, has \in BOOLEAN :
        /\ vcl <=> type \in VclTypes
        /\ sau <=> StartsAccessUnit(type)
        /\ ps <=> type \in {NALU_TYPE_SPS, NALU_TYPE_PPS}
        /\ before <=> SliceBefore(sentUnits, k + 1)
        /\ has <=> HasSlice(sentUnits, k)
  <2>2. PICK a \in BOOLEAN : a <=> type \in VclTypes
    OBVIOUS
  <2>3. PICK b \in BOOLEAN : b <=> StartsAccessUnit(type)
    BY DEF StartsAccessUnit
  <2>4. PICK c \in BOOLEAN : c <=> type \in {NALU_TYPE_SPS, NALU_TYPE_PPS}
    OBVIOUS
  <2>5. PICK d \in BOOLEAN : d <=> SliceBefore(sentUnits, k + 1)
    BY DEF SliceBefore
  <2>6. PICK e \in BOOLEAN : e <=> HasSlice(sentUnits, k)
    BY DEF HasSlice
  <2> QED
    BY <2>2, <2>3, <2>4, <2>5, <2>6, Zenon
<1>4. vcl => ~sau /\ ~ps
  BY <1>3, TypesApart
<1>5. /\ LastAccessUnitExists <=> before
      /\ NALUCount \in Nat /\ (~has => NALUCount = k) /\ (has => NALUCount >= 1)
  BY <1>3 DEF Counted
<1>6. /\ SliceBefore(sentUnits, k + 2) <=> vcl \/ (before /\ ~sau)
      /\ HasSlice(sentUnits, k + 1) <=> has \/ vcl
      /\ before => has
  BY <1>1, <1>3, SliceBeforeNext
<1>7. FirstOfAccessUnit(k + 1) <=> IF has THEN (IF vcl THEN new ELSE sau) /\ before ELSE k = 0
  <2>1. Begins(sentUnits, k + 1) <=> IF vcl THEN new ELSE sau
    BY <1>2, <1>3 DEF Begins
  <2>2. /\ ~has => (FirstOfAccessUnit(k + 1) <=> k = 0)
        /\ has => (FirstOfAccessUnit(k + 1) <=> Begins(sentUnits, k + 1) /\ before)
    BY <1>1, <1>3, FirstIs
  <2> QED
    BY <2>1, <2>2
<1>8. PICK check, count : check = CheckZeroByte(type, prefix, new) /\ count = check.count
  OBVIOUS
<1>9. /\ count = IF vcl /\ ~new THEN NALUCount ELSE IF before /\ (vcl \/ sau) THEN 1 ELSE NALUCount + 1
      /\ check.exists <=> IF vcl THEN before \/ new ELSE before /\ ~sau
      /\ check.warned <=> (~vcl \/ new) /\ prefix = 3 /\ (count = 1 \/ ps)
  <2> DEFINE c == IF ~(~(type \in VclTypes) \/ new) THEN NALUCount
                  ELSE IF LastAccessUnitExists /\ (type \in VclTypes \/ StartsAccessUnit(type)) THEN 1 ELSE NALUCount + 1
             x == IF type \in VclTypes THEN LastAccessUnitExists \/ (~(type \in VclTypes) \/ new)
                  ELSE LastAccessUnitExists /\ ~StartsAccessUnit(type)
             v == /\ (~(type \in VclTypes) \/ new) /\ prefix = 3
                  /\ c = 1 \/ type \in {NALU_TYPE_SPS, NALU_TYPE_PPS}
  <2>1. check = [exists |-> x, count |-> c, warned |-> v]
    BY <1>8, Zenon DEF CheckZeroByte
  <2>2. check.exists = x /\ check.count = c /\ check.warned = v
    <3> HIDE DEF x, c, v
    <3> QED
      BY <2>1
  <2>3. count = c
    BY <1>8, <2>2, Zenon
  <2>4. c = IF vcl /\ ~new THEN NALUCount ELSE IF before /\ (vcl \/ sau) THEN 1 ELSE NALUCount + 1
    BY <1>3, <1>5
  <2>5. x <=> IF vcl THEN before \/ new ELSE before /\ ~sau
    BY <1>3, <1>4, <1>5
  <2>6. v <=> (~vcl \/ new) /\ prefix = 3 /\ (c = 1 \/ ps)
    <3> HIDE DEF c
    <3> QED
      BY <1>3
  <2> HIDE DEF x, c, v
  <2> QED
    BY <2>2, <2>3, <2>4, <2>5, <2>6, Zenon
<1>10. check.exists <=> SliceBefore(sentUnits, k + 2)
  <2>1. vcl /\ ~new => before
    BY <1>2, <1>3
  <2> QED
    BY <1>6, <1>9, <2>1
<1>11. count \in Nat /\ (~(has \/ vcl) => count = k + 1) /\ (has \/ vcl => count >= 1)
  <2>1. vcl /\ ~new => has
    BY <1>2, <1>3, <1>6
  <2> QED
    BY <1>1, <1>5, <1>6, <1>9, <2>1
<1>12. check.warned <=> prefix = 3 /\ (FirstOfAccessUnit(k + 1) \/ ps)
  <2>1. (~vcl \/ new) /\ count = 1 <=> FirstOfAccessUnit(k + 1)
    <3>1. CASE has
      BY <1>4, <1>5, <1>7, <1>9, <3>1
    <3>2. CASE ~has
      <4>1. ~before /\ NALUCount = k /\ (FirstOfAccessUnit(k + 1) <=> k = 0)
        BY <1>5, <1>6, <1>7, <3>2
      <4>2. ~vcl \/ new
        BY <1>2, <1>3, <4>1
      <4>3. count = k + 1
        BY <1>9, <4>1, <4>2
      <4> QED
        BY <1>1, <4>1, <4>2, <4>3
    <3> QED
      BY <3>1, <3>2
  <2>2. ps => ~vcl
    BY <1>4
  <2> QED
    BY <1>9, <2>1, <2>2
<1>13. Counted(sentUnits, k + 1, check.exists, check.count)
  <2>1. (k + 1) + 1 = k + 2
    BY <1>1
  <2> QED
    BY <1>6, <1>8, <1>10, <1>11, <2>1 DEF Counted
<1> QED
  BY <1>3, <1>8, <1>12, <1>13

-----------------------------------------------------------------------------
(* Where the reader is *)
UnitsReadSet == [encapsulated : Seq(Bytes), warned : BOOLEAN, payload : Seq(Bytes)]
IsStream == \E s \in Streams : /\ sentUnits = s.units /\ FileFormat = s.format
                              /\ file = (IF s.format = "RTP" THEN Packets(s.units) ELSE ByteStream(s.units))
ReadRight(k) ==
  LET read == unitsRead[k]
      b == Emulated(sentUnits[k].payload)
  IN  /\ read.encapsulated = b /\ read.payload = NALUtoRBSP(b)
      /\ FileFormat = "ANNEXB" =>
           (read.warned <=> /\ sentUnits[k].zeros = 2
                            /\ FirstOfAccessUnit(k) \/ TypeAt(sentUnits, k) \in {NALU_TYPE_SPS, NALU_TYPE_PPS})

(* The units read are the first ones sent, and the reader stands behind them. *)
NalInv ==
  /\ IsStream
  /\ unitsRead \in Seq(UnitsReadSet) /\ Len(unitsRead) <= Len(sentUnits)
  /\ \A k \in 1 .. Len(unitsRead) : ReadRight(k)
  /\ filePos = IF FileFormat = "RTP" THEN Len(unitsRead) ELSE ReadTo(sentUnits, Len(unitsRead))
  /\ FileFormat = "ANNEXB" /\ ~IsFirstByteStreamNALU => Len(unitsRead) > 0
  /\ LastAccessUnitExists \in BOOLEAN
  /\ Counted(sentUnits, Len(unitsRead), LastAccessUnitExists, NALUCount)

(* What the sender makes of a payload has its header and no start code in it. *)
LEMMA EscapedIs ==
  ASSUME NEW p \in Payloads, NEW b, b = Emulated(p)
  PROVE  Escaped(b) /\ b \in Seq(Bytes) /\ TypeOf(b) = TypeOf(p)
<1>1. b \in Seq(Bytes) /\ Len(b) > 0 /\ Plain(b) /\ b[1] = p[1] /\ b[1] # 0 /\ b[Len(b)] # 0
  BY EmulatedIs
<1> QED
  BY <1>1 DEF Escaped, TypeOf

(* NALUtoRBSP() gives bytes. *)
LEMMA ShortenedTyped ==
  ASSUME NEW b, Escaped(b)
  PROVE  NALUtoRBSP(b) \in Seq(Bytes)
<1>1. b \in Seq(Bytes) /\ Len(b) > 0 /\ Len(b) - 1 \in 0 .. Len(b) - 1
  BY DEF Escaped
<1>2. Shortening(b)[Len(b) - 1] \in Shortened
  BY <1>1, ShorteningIs
<1> QED
  BY <1>2 DEF Shortened, NALUtoRBSP

(* A stream that is being read was sent, and its file is what the sender made. *)
LEMMA StreamIs ==
  ASSUME IsStream
  PROVE  /\ IsSent(sentUnits) /\ FileFormat \in {"ANNEXB", "RTP"} /\ Len(sentUnits) \in Nat
         /\ FileFormat = "ANNEXB" => file = ByteStream(sentUnits)
         /\ FileFormat = "RTP" => file = Packets(sentUnits) /\ Len(file) = Len(sentUnits)
<1>1. PICK s \in Streams : /\ sentUnits = s.units /\ FileFormat = s.format
                           /\ file = (IF s.format = "RTP" THEN Packets(s.units) ELSE ByteStream(s.units))
  BY DEF IsStream
<1>2. s.format \in {"ANNEXB", "RTP"} /\ IsSent(s.units)
  BY NalAssumption
<1>3. IsSent(sentUnits) /\ FileFormat \in {"ANNEXB", "RTP"}
  BY <1>1, <1>2
<1>4. Len(sentUnits) \in Nat
  BY <1>3, SentTyped
<1>5. FileFormat = "RTP" => file = Packets(sentUnits)
  BY <1>1
<1>6. Len(Packets(sentUnits)) = Len(sentUnits)
  BY <1>4 DEF Packets
<1>7. FileFormat = "ANNEXB" => file = ByteStream(sentUnits)
  BY <1>1
<1> QED
  BY <1>3, <1>4, <1>5, <1>6, <1>7

(* The file is read to its end exactly when every unit is. *)
LEMMA PlaceEnds ==
  ASSUME NEW units, IsSent(units), NEW k \in 0 .. Len(units)
  PROVE  /\ ReadTo(units, k) \in Nat /\ Len(ByteStream(units)) \in Nat
         /\ ReadTo(units, k) = Len(ByteStream(units)) <=> k = Len(units)
<1>1. Len(units) \in Nat /\ Len(ByteStream(units)) \in Nat
  BY SentTyped, FileIs
<1>2. CASE k = Len(units)
  <2>1. CASE k = 0
    <3>1. Base(units, 0) = 0 /\ Base(units, Len(units)) = Len(ByteStream(units))
      BY FileIs, Zenon
    <3> QED
      BY <1>1, <1>2, <2>1, <3>1 DEF ReadTo
  <2>2. CASE k # 0
    BY <1>1, <1>2, <2>2 DEF ReadTo
  <2> QED
    BY <2>1, <2>2
<1>3. CASE k # Len(units)
  <2>1. k \in 0 .. Len(units) - 1
    BY <1>1, <1>3
  <2>2. ReadTo(units, k) \in Nat /\ ReadTo(units, k) < Len(ByteStream(units))
    BY <2>1, BeforeIs
  <2> QED
    BY <1>1, <1>3, <2>2
<1> QED
  BY <1>2, <1>3

(* Whatever the format, the next call gives the next unit, or none when there is none. *)
LEMMA NextUnitIs ==
  ASSUME NalInv
  PROVE  LET k == Len(unitsRead)
         IN  /\ FileFormat = "ANNEXB" /\ k < Len(sentUnits) =>
                  GetAnnexbNALU = [ret |-> 1, startcodeprefix_len |-> Prefix(sentUnits, k + 1),
                                   buf |-> Emulated(sentUnits[k + 1].payload), pos |-> ReadTo(sentUnits, k + 1)]
             /\ FileFormat = "RTP" /\ k < Len(sentUnits) =>
                  GetRTPNALU = [ret |-> 1, startcodeprefix_len |-> nalu.startcodeprefix_len,
                                buf |-> Emulated(sentUnits[k + 1].payload), pos |-> k + 1]
             /\ filePos = Len(file) <=> k = Len(sentUnits)
             /\ FileFormat = "ANNEXB" /\ k = Len(sentUnits) => GetAnnexbNALU = [ret |-> 0]
             /\ FileFormat = "RTP" /\ k = Len(sentUnits) => GetRTPNALU = [ret |-> 0]
<1>1. PICK k : k = Len(unitsRead)
  OBVIOUS
<1>2. /\ IsSent(sentUnits) /\ FileFormat \in {"ANNEXB", "RTP"} /\ Len(sentUnits) \in Nat
      /\ FileFormat = "ANNEXB" => file = ByteStream(sentUnits)
      /\ FileFormat = "RTP" => file = Packets(sentUnits) /\ Len(file) = Len(sentUnits)
  BY StreamIs DEF NalInv
<1>3. k \in 0 .. Len(sentUnits)
  <2>1. k \in Nat /\ k <= Len(sentUnits)
    BY <1>1 DEF NalInv
  <2> QED
    BY <1>2, <2>1
<1>4. CASE FileFormat = "ANNEXB"
  <2>1. file = ByteStream(sentUnits) /\ filePos = ReadTo(sentUnits, k) /\ (~IsFirstByteStreamNALU => k > 0)
    BY <1>1, <1>2, <1>4 DEF NalInv
  <2>2. filePos \in Nat /\ Len(file) \in Nat /\ (filePos = Len(file) <=> k = Len(sentUnits))
    BY <1>2, <1>3, <2>1, PlaceEnds
  <2>3. ASSUME k < Len(sentUnits)
        PROVE  GetAnnexbNALU = [ret |-> 1, startcodeprefix_len |-> Prefix(sentUnits, k + 1),
                                buf |-> Emulated(sentUnits[k + 1].payload), pos |-> ReadTo(sentUnits, k + 1)]
    <3>1. k \in 0 .. Len(sentUnits) - 1
      BY <1>2, <1>3, <2>3
    <3> QED
      BY <1>2, <2>1, <3>1, GetAnnexbIs
  <2>4. k = Len(sentUnits) => GetAnnexbNALU = [ret |-> 0]
    BY <2>2, GetAnnexbEnds
  <2> QED
    BY <1>1, <1>4, <2>2, <2>3, <2>4
<1>5. CASE FileFormat = "RTP"
  <2>1. file = Packets(sentUnits) /\ Len(file) = Len(sentUnits) /\ filePos = k
    BY <1>1, <1>2, <1>5 DEF NalInv
  <2>2. ASSUME k < Len(sentUnits)
        PROVE  GetRTPNALU = [ret |-> 1, startcodeprefix_len |-> nalu.startcodeprefix_len,
                             buf |-> Emulated(sentUnits[k + 1].payload), pos |-> k + 1]
    <3>1. k + 1 \in 1 .. Len(sentUnits) /\ k # Len(sentUnits)
      BY <1>2, <1>3, <2>2
    <3>2. file[k + 1] = Emulated(sentUnits[k + 1].payload)
      BY <2>1, <3>1 DEF Packets
    <3> QED
      BY <2>1, <3>1, <3>2 DEF GetRTPNALU
  <2>3. k = Len(sentUnits) => GetRTPNALU = [ret |-> 0]
    BY <2>1 DEF GetRTPNALU
  <2> QED
    BY <1>1, <1>5, <2>1, <2>2, <2>3
<1> QED
  BY <1>2, <1>4, <1>5

(* The invariant is enough. *)
LEMMA InvImpliesRight ==
  ASSUME NalInv
  PROVE  UnitsRight
<1>1. /\ IsSent(sentUnits) /\ FileFormat \in {"ANNEXB", "RTP"} /\ Len(sentUnits) \in Nat
      /\ Len(unitsRead) \in Nat /\ Len(unitsRead) <= Len(sentUnits)
  BY StreamIs DEF NalInv
<1>2. ASSUME NEW k \in 1 .. Len(unitsRead)
      PROVE  /\ EBSPtoRBSP(unitsRead[k].encapsulated) = sentUnits[k].payload
             /\ unitsRead[k].payload = sentUnits[k].payload <=> ~CloseBehind(unitsRead[k].encapsulated)
             /\ FileFormat = "ANNEXB" =>
                  (unitsRead[k].warned <=>
                     /\ sentUnits[k].zeros = 2
                     /\ FirstOfAccessUnit(k) \/ TypeOf(sentUnits[k].payload) \in {NALU_TYPE_SPS, NALU_TYPE_PPS})
  <2>1. PICK p, b : p = sentUnits[k].payload /\ b = Emulated(p)
    OBVIOUS
  <2>2. p \in Payloads
    <3>1. k \in 1 .. Len(sentUnits)
      BY <1>1
    <3> QED
      BY <1>1, <2>1, <3>1, SentTyped
  <2>3. Escaped(b)
    BY <2>1, <2>2, EscapedIs
  <2>4. ReadRight(k)
    BY DEF NalInv
  <2>5. unitsRead[k].encapsulated = b /\ unitsRead[k].payload = NALUtoRBSP(b)
    BY <2>1, <2>4 DEF ReadRight
  <2>6. EBSPtoRBSP(b) = p
    BY <2>1, <2>2, EmulationUndone
  <2>7. NALUtoRBSP(b) = EBSPtoRBSP(b) <=> ~CloseBehind(b)
    BY <2>3, ShortenedIff
  <2>8. FileFormat = "ANNEXB" =>
          (unitsRead[k].warned <=>
             /\ sentUnits[k].zeros = 2
             /\ FirstOfAccessUnit(k) \/ TypeOf(sentUnits[k].payload) \in {NALU_TYPE_SPS, NALU_TYPE_PPS})
    BY <2>4, Zenon DEF ReadRight, TypeAt
  <2> QED
    BY <2>1, <2>5, <2>6, <2>7, <2>8, Zenon
<1>3. filePos = Len(file) <=> Len(unitsRead) = Len(sentUnits)
  BY NextUnitIs
<1>4. ASSUME FileFormat = "ANNEXB" PROVE GetAnnexbNALU.ret # -1
  <2>1. CASE Len(unitsRead) < Len(sentUnits)
    BY <1>4, <2>1, NextUnitIs
  <2>2. CASE Len(unitsRead) = Len(sentUnits)
    BY <1>4, <2>2, NextUnitIs
  <2> QED
    BY <1>1, <2>1, <2>2
<1> QED
  BY <1>2, <1>3, <1>4, Zenon DEF UnitsRight

(* Before the first unit is read. *)
LEMMA NalStarts ==
  ASSUME NalInit
  PROVE  NalInv
<1>1. IsStream
  BY DEF NalInit, IsStream
<1>2. filePos = 0 /\ unitsRead = <<>> /\ LastAccessUnitExists = FALSE /\ NALUCount = 0 /\ IsFirstByteStreamNALU = TRUE
  BY DEF NalInit
<1>3. Len(unitsRead) = 0 /\ unitsRead \in Seq(UnitsReadSet)
  BY <1>2
<1>4. Len(sentUnits) \in Nat
  BY <1>1, StreamIs
<1>5. ReadTo(sentUnits, 0) = 0
  BY DEF ReadTo
<1>6. Counted(sentUnits, 0, LastAccessUnitExists, NALUCount)
  <2>1. ~HasSlice(sentUnits, 0) /\ ~SliceBefore(sentUnits, 0 + 1)
    BY DEF HasSlice, SliceBefore
  <2> QED
    BY <1>2, <2>1 DEF Counted
<1>7. filePos = IF FileFormat = "RTP" THEN Len(unitsRead) ELSE ReadTo(sentUnits, Len(unitsRead))
  BY <1>2, <1>3, <1>5
<1>8. \A k \in 1 .. Len(unitsRead) : ReadRight(k)
  BY <1>3
<1>9. Len(unitsRead) <= Len(sentUnits)
  BY <1>3, <1>4
<1>10. LastAccessUnitExists \in BOOLEAN /\ (FileFormat = "ANNEXB" /\ ~IsFirstByteStreamNALU => Len(unitsRead) > 0)
  BY <1>2
<1>11. Counted(sentUnits, Len(unitsRead), LastAccessUnitExists, NALUCount)
  BY <1>3, <1>6
<1> QED
  BY <1>1, <1>3, <1>7, <1>8, <1>9, <1>10, <1>11, Zenon DEF NalInv

(* One turn of read_new_slice()'s loop, with the unit that comes next. *)
LEMMA ReadKeeps ==
  ASSUME NalInv, NEW unit, Read(unit), NEW k, k = Len(unitsRead), k < Len(sentUnits),
         unit.buf = Emulated(sentUnits[k + 1].payload),
         unit.pos = IF FileFormat = "RTP" THEN k + 1 ELSE ReadTo(sentUnits, k + 1),
         FileFormat = "ANNEXB" => unit.startcodeprefix_len = Prefix(sentUnits, k + 1)
  PROVE  NalInv'
<1>1. /\ IsSent(sentUnits) /\ FileFormat \in {"ANNEXB", "RTP"} /\ Len(sentUnits) \in Nat
      /\ k \in Nat /\ unitsRead \in Seq(UnitsReadSet)
  BY StreamIs DEF NalInv
<1>2. k \in 0 .. Len(sentUnits) - 1 /\ k + 1 \in 1 .. Len(sentUnits)
  BY <1>1
<1>3. PICK p, b : p = sentUnits[k + 1].payload /\ b = unit.buf
  OBVIOUS
<1>4. p \in Payloads /\ b = Emulated(p)
  BY <1>1, <1>2, <1>3, SentTyped
<1>5. Escaped(b) /\ b \in Seq(Bytes) /\ TypeOf(b) = TypeOf(p)
  BY <1>4, EscapedIs
<1>6. PICK type, new : /\ type = TypeOf(unit.buf) /\ new = (type \in SliceTypes /\ sentUnits[Len(unitsRead) + 1].starts)
  OBVIOUS
<1>7. type = TypeAt(sentUnits, k + 1)
  BY <1>3, <1>5, <1>6 DEF TypeAt
<1>8. PICK check : check = CheckZeroByte(type, unit.startcodeprefix_len, new)
  OBVIOUS
<1>9. /\ filePos' = unit.pos /\ LastAccessUnitExists' = check.exists /\ NALUCount' = check.count
      /\ unitsRead' = Append(unitsRead, [encapsulated |-> unit.buf, warned |-> check.warned,
                                         payload |-> RBSPtoSODB(nalu'.buf)])
      /\ nalu' = [startcodeprefix_len |-> unit.startcodeprefix_len, buf |-> NALUtoRBSP(unit.buf)]
      /\ sentUnits' = sentUnits /\ FileFormat' = FileFormat /\ file' = file
  BY <1>6, <1>8 DEF Read
<1>10. new \in BOOLEAN /\ (new <=> type \in SliceTypes /\ sentUnits[k + 1].starts)
  BY <1>6
<1>11. /\ Counted(sentUnits, k + 1, check.exists, check.count)
       /\ check.warned <=>
            unit.startcodeprefix_len = 3 /\ (FirstOfAccessUnit(k + 1) \/ type \in {NALU_TYPE_SPS, NALU_TYPE_PPS})
  <2>1. Counted(sentUnits, k, LastAccessUnitExists, NALUCount)
    BY DEF NalInv
  <2> QED
    BY <1>1, <1>2, <1>7, <1>8, <1>10, <2>1, CheckedIs
<1>12. check.exists \in BOOLEAN /\ check.warned \in BOOLEAN
  BY <1>8, <1>10 DEF CheckZeroByte, StartsAccessUnit, NalInv
<1>13. RBSPtoSODB(nalu'.buf) = NALUtoRBSP(b) /\ NALUtoRBSP(b) \in Seq(Bytes)
  <2>1. nalu'.buf = NALUtoRBSP(b)
    BY <1>3, <1>9
  <2> QED
    BY <1>5, <2>1, ShortenedEnds, ShortenedTyped
<1>14. PICK read : read = [encapsulated |-> b, warned |-> check.warned, payload |-> NALUtoRBSP(b)]
  OBVIOUS
<1>15. read \in UnitsReadSet /\ unitsRead' = Append(unitsRead, read)
  BY <1>3, <1>5, <1>9, <1>12, <1>13, <1>14 DEF UnitsReadSet
<1>16. /\ unitsRead' \in Seq(UnitsReadSet) /\ Len(unitsRead') = k + 1
       /\ unitsRead'[k + 1] = read /\ \A j \in 1 .. k : unitsRead'[j] = unitsRead[j]
  BY <1>1, <1>15
<1>17. IsStream'
  BY <1>9 DEF NalInv, IsStream
<1>18. \A j : FirstOfAccessUnit(j)' <=> FirstOfAccessUnit(j)
  BY <1>9 DEF FirstOfAccessUnit
<1>19. ASSUME NEW j \in 1 .. k + 1 PROVE ReadRight(j)'
  <2>1. CASE j = k + 1
    <3>1. read.encapsulated = b /\ read.payload = NALUtoRBSP(b) /\ read.warned = check.warned
      BY <1>14
    <3>2. ASSUME FileFormat = "ANNEXB"
          PROVE  read.warned <=> /\ sentUnits[j].zeros = 2
                                 /\ FirstOfAccessUnit(j) \/ TypeAt(sentUnits, j) \in {NALU_TYPE_SPS, NALU_TYPE_PPS}
      <4>1. unit.startcodeprefix_len = 3 <=> sentUnits[k + 1].zeros = 2
        BY <3>2 DEF Prefix
      <4> QED
        BY <1>7, <1>11, <2>1, <3>1, <4>1
    <3>3. b = Emulated(sentUnits[j].payload)
      BY <1>3, <1>4, <2>1
    <3>4. unitsRead'[j] = read
      BY <1>16, <2>1
    <3> QED
      BY <1>9, <1>18, <3>1, <3>2, <3>3, <3>4, Zenon DEF ReadRight, TypeAt
  <2>2. CASE j # k + 1
    <3>1. j \in 1 .. k
      BY <1>1, <2>2
    <3>2. ReadRight(j)
      BY <3>1 DEF NalInv
    <3>3. unitsRead'[j] = unitsRead[j]
      BY <1>16, <3>1
    <3> QED
      BY <1>9, <1>18, <3>2, <3>3, Zenon DEF ReadRight, TypeAt
  <2> QED
    BY <2>1, <2>2
<1>20. filePos' = IF FileFormat = "RTP" THEN k + 1 ELSE ReadTo(sentUnits, k + 1)
  BY <1>9
<1>21. k + 1 > 0 /\ k + 1 <= Len(sentUnits)
  BY <1>1
<1> QED
  BY <1>9, <1>11, <1>12, <1>16, <1>17, <1>19, <1>20, <1>21, Zenon DEF NalInv

(* A unit of a byte stream. *)
LEMMA ReadByteStreamKeeps ==
  ASSUME NalInv, ReadByteStream
  PROVE  NalInv'
<1>1. PICK unit : unit = GetAnnexbNALU /\ Read(unit) /\ FileFormat = "ANNEXB"
  BY DEF ReadByteStream
<1>2. PICK k : k = Len(unitsRead)
  OBVIOUS
<1>3. k \in Nat /\ k <= Len(sentUnits) /\ Len(sentUnits) \in Nat
  BY <1>2, StreamIs DEF NalInv
<1>4. unit.ret = 1
  BY <1>1 DEF Read
<1>5. k < Len(sentUnits)
  <2>1. k = Len(sentUnits) => unit = [ret |-> 0]
    BY <1>1, <1>2, NextUnitIs
  <2>2. k # Len(sentUnits)
    BY <1>4, <2>1
  <2> QED
    BY <1>3, <2>2
<1>6. unit = [ret |-> 1, startcodeprefix_len |-> Prefix(sentUnits, k + 1),
              buf |-> Emulated(sentUnits[k + 1].payload), pos |-> ReadTo(sentUnits, k + 1)]
  BY <1>1, <1>2, <1>5, NextUnitIs
<1>7. /\ unit.buf = Emulated(sentUnits[k + 1].payload) /\ unit.startcodeprefix_len = Prefix(sentUnits, k + 1)
      /\ unit.pos = IF FileFormat = "RTP" THEN k + 1 ELSE ReadTo(sentUnits, k + 1)
  BY <1>1, <1>6
<1> QED
  BY <1>1, <1>2, <1>5, <1>7, ReadKeeps

(* A unit of a packet file. *)
LEMMA ReadPacketKeeps ==
  ASSUME NalInv, ReadPacket
  PROVE  NalInv'
<1>1. PICK unit : unit = GetRTPNALU /\ Read(unit) /\ FileFormat = "RTP"
  BY DEF ReadPacket
<1>2. PICK k : k = Len(unitsRead)
  OBVIOUS
<1>3. k \in Nat /\ k <= Len(sentUnits) /\ Len(sentUnits) \in Nat
  BY <1>2, StreamIs DEF NalInv
<1>4. unit.ret = 1
  BY <1>1 DEF Read
<1>5. k < Len(sentUnits)
  <2>1. k = Len(sentUnits) => unit = [ret |-> 0]
    BY <1>1, <1>2, NextUnitIs
  <2>2. k # Len(sentUnits)
    BY <1>4, <2>1
  <2> QED
    BY <1>3, <2>2
<1>6. unit = [ret |-> 1, startcodeprefix_len |-> nalu.startcodeprefix_len,
              buf |-> Emulated(sentUnits[k + 1].payload), pos |-> k + 1]
  BY <1>1, <1>2, <1>5, NextUnitIs
<1>7. /\ unit.buf = Emulated(sentUnits[k + 1].payload)
      /\ unit.pos = IF FileFormat = "RTP" THEN k + 1 ELSE ReadTo(sentUnits, k + 1)
  BY <1>1, <1>6
<1>8. FileFormat # "ANNEXB"
  BY <1>1
<1> QED
  BY <1>1, <1>2, <1>5, <1>7, <1>8, ReadKeeps

(* Every step keeps the invariant. *)
LEMMA NalKeeps ==
  ASSUME NalInv, [NalNext]_nalVars
  PROVE  NalInv'
<1>1. CASE ReadByteStream
  BY <1>1, ReadByteStreamKeeps
<1>2. CASE ReadPacket
  BY <1>2, ReadPacketKeeps
<1>3. CASE UNCHANGED nalVars
  <2>1. \A j : FirstOfAccessUnit(j)' <=> FirstOfAccessUnit(j)
    BY <1>3 DEF nalVars, FirstOfAccessUnit
  <2>2. \A j : ReadRight(j)' <=> ReadRight(j)
    BY <1>3, <2>1, Zenon DEF nalVars, ReadRight, TypeAt
  <2>3. IsStream'
    BY <1>3 DEF nalVars, NalInv, IsStream
  <2> QED
    BY <1>3, <2>2, <2>3, Zenon DEF NalInv, nalVars
<1> QED
  BY <1>1, <1>2, <1>3 DEF NalNext

(* annexb.c:40-221, nalu.c:75-117: of every stream of units, framed with start  *)
(* codes or in packets, the units are read in their order, each whole, with the *)
(* payload that was sent but where two emulation bytes stand closest.          *)
THEOREM UnitsReadRight == NalSpec => []UnitsRight
<1>1. NalInit => NalInv
  BY NalStarts
<1>2. NalInv /\ [NalNext]_nalVars => NalInv'
  BY NalKeeps
<1>3. NalInv => UnitsRight
  BY InvImpliesRight
<1> QED
  BY <1>1, <1>2, <1>3, PTL DEF NalSpec
=============================================================================
