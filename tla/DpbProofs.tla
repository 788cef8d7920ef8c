----------------------------- MODULE DpbProofs -----------------------------
(***************************************************************************)
(* The safety of the decoded picture buffer for any number of frame stores *)
(* and any stream.  The marks and lists follow the buffer, and a picture   *)
(* that is not empty is held or at hand; as the pool has one picture more  *)
(* than the buffer has frame stores, an empty one is always left, unless   *)
(* the stream says no_output_of_prior_pics.                                *)
(***************************************************************************)
EXTENDS Dpb, FiniteSetTheorems, FunctionTheorems, SequenceTheorems, NaturalsInduction,
        WellFoundedInduction, TLAPS

Distinct(s) == \A j, k \in 1 .. Len(s) : s[j] = s[k] => j = k
RangeOf(s) == {s[k] : k \in 1 .. Len(s)}

PicType == [used : BOOLEAN, long : BOOLEAN, idx : LongIdx, empty : BOOLEAN]
SlotType == [ref : BOOLEAN, long : BOOLEAN, idx : LongIdx,
             num : FrameNums, poc : Pocs, out : BOOLEAN]

-----------------------------------------------------------------------------
(* A set of numbers has a least element. *)
LEMMA Least ==
  ASSUME NEW K, K \subseteq Nat, K # {}
  PROVE  \E k \in K : \A j \in K : ~(j < k)
<1>1. IsWellFoundedOn(OpToRel(<, Nat), Nat)
  BY NatLessThanWellFounded
<1>2. \E k \in K : \A j \in K : ~(<<j, k>> \in OpToRel(<, Nat))
  BY <1>1, WFMin
<1> QED
  BY <1>2 DEF OpToRel

(* A frame store of T is found when the buffer holds one. *)
LEMMA FirstHeld ==
  ASSUME fs \in Seq(Pictures), NEW T, NEW q \in Held, q \in T
  PROVE  First(T) \in T /\ First(T) \in Held
<1> DEFINE K == {k \in 1 .. Len(fs) : fs[k] \in T}
<1>1. K \subseteq Nat /\ K # {}
  BY DEF Held
<1>2. \E k \in K : \A j \in K : ~(j < k)
  <2> HIDE DEF K
  <2> QED
    BY <1>1, Least
<1>3. \E k \in 1 .. Len(fs) : fs[k] \in T /\ \A j \in 1 .. k - 1 : fs[j] \notin T
  <2>1. PICK k \in K : \A j \in K : ~(j < k)
    BY <1>2
  <2>2. \A j \in 1 .. k - 1 : j \in 1 .. Len(fs) /\ j < k
    OBVIOUS
  <2> QED
    BY <2>1, <2>2
<1> QED
  BY <1>3 DEF First, Held

(* The removal of a frame store leaves the others, in their order. *)
LEMMA WithoutOne ==
  ASSUME fs \in Seq(Pictures), Distinct(fs), NEW p \in Held
  PROVE  /\ Without(p) \in Seq(Pictures)
         /\ Len(Without(p)) = Len(fs) - 1
         /\ Distinct(Without(p))
         /\ RangeOf(Without(p)) = Held \ {p}
<1> DEFINE k == CHOOSE i \in 1 .. Len(fs) : fs[i] = p
           s == [j \in 1 .. Len(fs) - 1 |-> fs[IF j < k THEN j ELSE j + 1]]
<1>1. k \in 1 .. Len(fs) /\ fs[k] = p
  BY DEF Held
<1> HIDE DEF k
<1>2. Without(p) = s
  BY DEF Without, k
<1>3. Len(fs) - 1 \in Nat /\ Len(fs) \in Nat /\ k \in Nat
  BY <1>1
<1>4. \A j \in 1 .. Len(fs) - 1 : (IF j < k THEN j ELSE j + 1) \in 1 .. Len(fs)
  BY <1>1, <1>3
<1>5. s \in Seq(Pictures) /\ Len(s) = Len(fs) - 1
  BY <1>3, <1>4
<1>6. Distinct(s)
  BY <1>1, <1>3, <1>4, <1>5 DEF Distinct
<1>7. \A j \in 1 .. Len(s) : s[j] \in Held /\ s[j] # p
  BY <1>1, <1>3, <1>4, <1>5 DEF Distinct, Held
<1>8. \A i \in 1 .. Len(fs) : fs[i] # p => \E j \in 1 .. Len(s) : s[j] = fs[i]
  <2> SUFFICES ASSUME NEW i \in 1 .. Len(fs), fs[i] # p
               PROVE  \E j \in 1 .. Len(s) : s[j] = fs[i]
    OBVIOUS
  <2>1. CASE i < k
    BY <2>1, <1>1, <1>3, <1>5
  <2>2. CASE i > k
    <3>1. i - 1 \in 1 .. Len(s) /\ s[i - 1] = fs[i]
      BY <2>2, <1>1, <1>3, <1>5
    <3> QED
      BY <3>1
  <2> QED
    BY <2>1, <2>2, <1>1, <1>3
<1> HIDE DEF s
<1>9. RangeOf(s) = Held \ {p}
  BY <1>5, <1>7, <1>8 DEF RangeOf, Held
<1> QED
  BY <1>2, <1>5, <1>6, <1>9

-----------------------------------------------------------------------------
(* The inductive invariant: to the properties it adds that the picture to be *)
(* decoded after the gap is filled stays empty, and that the lists are right *)
(* already when a picture has been stored.                                   *)

GapLeavesPicture == pc \in Storing /\ cur.gap => pic[offset].empty

ListsRight ==
  pc \in {"idle", "header", "next"} =>
    /\ fs_ref = {p \in Held : pic[p].used /\ ~pic[p].long}
    /\ fs_ltref = {p \in Held : pic[p].used /\ pic[p].long}
    /\ ~TooManyRefs(fs_ref, fs_ltref)

IInv == TypeOK /\ SafeRecycling /\ MarksAgree /\ GapLeavesPicture /\ ListsRight

StoreTyped == /\ pic \in [Pictures -> PicType]
              /\ slot \in [Pictures -> SlotType]
              /\ fs \in Seq(Pictures) /\ Len(fs) <= Size
RestTyped == /\ fs_ref \subseteq Pictures /\ fs_ltref \subseteq Pictures
             /\ cur \in [frame : Pictures, gap : BOOLEAN, idr : BOOLEAN, noOutput : BOOLEAN,
                         adaptive : BOOLEAN, long : BOOLEAN, num : FrameNums, poc : Pocs]
             /\ header \in [idr : BOOLEAN, num : FrameNums, noOutput : BOOLEAN]
             /\ offset \in Pool /\ pre \in FrameNums /\ last \in Pocs \cup {INT_MIN}
             /\ mmco5 \in BOOLEAN
             /\ pc \in Active \cup Exits

(* The type invariant is that of the buffer and that of the rest. *)
LEMMA TypeSplit == TypeOK <=> StoreTyped /\ RestTyped
  BY DEF TypeOK, StoreTyped, RestTyped, PicType, SlotType

(* A step that only marks and unmarks pictures. *)
Remarks == /\ pic' \in [Pictures -> PicType]
           /\ slot' \in [Pictures -> SlotType]
           /\ fs' = fs
           /\ \A p \in Pictures : pic'[p].empty = pic[p].empty
           /\ \A p \in Held : slot'[p].out = slot[p].out /\ slot'[p].poc = slot[p].poc
           /\ \A p \in Held : pic'[p].used => pic[p].used
           /\ MarksAgree'

(* A step that makes no picture a long-term reference. *)
StaysShort == \A p \in Pictures : pic'[p].long => pic[p].long

(* A step that only takes pictures out of the buffer. *)
Shrinks == /\ pic' \in [Pictures -> PicType]
           /\ slot' \in [Pictures -> SlotType]
           /\ fs' \in Seq(Pictures) /\ Len(fs') <= Size /\ Distinct(fs')
           /\ Held' \subseteq Held
           /\ \A p \in Pictures : (p \in Held' \/ p \notin Held) => pic'[p] = pic[p]
           /\ StaysShort
           /\ \A p \in Held' : /\ slot'[p].ref = slot[p].ref /\ slot'[p].long = slot[p].long
                               /\ slot'[p].idx = slot[p].idx

(* What is not empty afterwards was not before, and is held if it was. *)
Tidy == \A p \in Pictures : ~pic'[p].empty => ~pic[p].empty /\ (p \in Held => p \in Held')

(* Neither starts nor ends the storing of a picture. *)
Quietly == /\ Remarks \/ Shrinks
           /\ cur'.frame = cur.frame /\ cur'.gap = cur.gap
           /\ offset' = offset
           /\ pc' \in Storing => pc \in Storing
           /\ pc' \notin {"idle", "header", "next"}

(* Such a step keeps what the invariant says of the buffer. *)
LEMMA QuietStep ==
  IInv /\ Quietly => StoreTyped' /\ SafeRecycling' /\ MarksAgree' /\ GapLeavesPicture' /\ ListsRight'
<1> SUFFICES ASSUME IInv, Quietly
             PROVE  StoreTyped' /\ SafeRecycling' /\ MarksAgree' /\ GapLeavesPicture' /\ ListsRight'
  OBVIOUS
<1>0. StoreTyped /\ RestTyped /\ offset \in Pictures /\ cur.frame \in Pictures /\ Held \subseteq Pictures
  BY TypeSplit DEF IInv, RestTyped, StoreTyped, Pictures, Held
<1>1. ListsRight'
  BY DEF Quietly, ListsRight
<1>2. CASE Remarks
  <2>1. StoreTyped' /\ Held' = Held
    BY <1>0, <1>2 DEF Remarks, StoreTyped, Held
  <2>2. SafeRecycling'
    <3>1. \A p \in Held' : ~pic'[p].empty
      BY <1>0, <1>2, <2>1 DEF Remarks, IInv, SafeRecycling
    <3>2. pc' \in Storing => cur'.frame \notin Held' /\ ~pic'[cur'.frame].empty
      BY <1>0, <1>2, <2>1 DEF Remarks, IInv, SafeRecycling, Quietly
    <3>3. \A j, k \in 1 .. Len(fs') : fs'[j] = fs'[k] => j = k
      BY <1>2 DEF Remarks, IInv, SafeRecycling
    <3> QED
      BY <3>1, <3>2, <3>3 DEF SafeRecycling, Quietly
  <2>3. GapLeavesPicture'
    BY <1>0, <1>2 DEF Remarks, IInv, GapLeavesPicture, Quietly
  <2> QED
    BY <1>1, <1>2, <2>1, <2>2, <2>3 DEF Remarks
<1>3. CASE Shrinks
  <2>1. StoreTyped'
    BY <1>3 DEF Shrinks, StoreTyped
  <2>2. SafeRecycling'
    <3>1. \A p \in Held' : ~pic'[p].empty
      BY <1>0, <1>3 DEF Shrinks, IInv, SafeRecycling
    <3>2. pc' \in Storing => cur'.frame \notin Held' /\ ~pic'[cur'.frame].empty
      BY <1>0, <1>3 DEF Shrinks, IInv, SafeRecycling, Quietly
    <3>3. \A j, k \in 1 .. Len(fs') : fs'[j] = fs'[k] => j = k
      BY <1>3 DEF Shrinks, Distinct
    <3> QED
      BY <3>1, <3>2, <3>3 DEF SafeRecycling, Quietly
  <2>3. GapLeavesPicture'
    <3> SUFFICES ASSUME pc' \in Storing, cur'.gap
                 PROVE  pic'[offset'].empty
      BY DEF GapLeavesPicture
    <3>1. pic[offset].empty
      BY DEF Quietly, IInv, GapLeavesPicture
    <3>2. offset \notin Held
      BY <3>1 DEF IInv, SafeRecycling
    <3> QED
      BY <1>0, <1>3, <3>1, <3>2 DEF Shrinks, Quietly
  <2>4. MarksAgree'
    BY <1>0, <1>3 DEF Shrinks, IInv, MarksAgree
  <2> QED
    BY <1>1, <2>1, <2>2, <2>3, <2>4
<1> QED
  BY <1>2, <1>3 DEF Quietly

(* Removing a picture, and removing none. *)
LEMMA RemovalShrinks ==
  ASSUME StoreTyped, Distinct(fs), NEW p \in Held, remove_frame_from_dpb(p)
  PROVE  Shrinks /\ Tidy
<1>1. /\ fs' \in Seq(Pictures) /\ Len(fs') = Len(fs) - 1
      /\ Distinct(fs') /\ RangeOf(fs') = Held \ {p}
  BY WithoutOne DEF remove_frame_from_dpb, StoreTyped
<1>2. Held' = Held \ {p} /\ Held \subseteq Pictures
  <2>1. Held' = RangeOf(fs')
    BY DEF RangeOf, Held
  <2>2. Held \subseteq Pictures
    BY DEF Held, StoreTyped
  <2> QED
    BY <1>1, <2>1, <2>2
<1>3. Len(fs') <= Size
  BY <1>1, SizeAssumption DEF StoreTyped
<1>4. EmptySlot \in SlotType
  BY SizeAssumption, PocAssumption, NameAssumption DEF EmptySlot, SlotType, FrameNums
<1>5. slot' \in [Pictures -> SlotType] /\ \A q \in Pictures : q # p => slot'[q] = slot[q]
  BY <1>4 DEF remove_frame_from_dpb, StoreTyped
<1>6. /\ pic' \in [Pictures -> PicType] /\ pic'[p].empty /\ pic'[p].long = pic[p].long
      /\ \A q \in Pictures : q # p => pic'[q] = pic[q]
  BY <1>2 DEF remove_frame_from_dpb, StoreTyped, PicType
<1>7. Shrinks
  BY <1>1, <1>2, <1>3, <1>5, <1>6 DEF Shrinks, StaysShort
<1>8. Tidy
  BY <1>2, <1>6 DEF Tidy
<1> QED
  BY <1>7, <1>8

(* Leaving the buffer as it is. *)
LEMMA NothingShrinks ==
  ASSUME StoreTyped, Distinct(fs), UNCHANGED store
  PROVE  Shrinks /\ Tidy
<1>1. Held' = Held
  BY DEF store, Held
<1> QED
  BY <1>1 DEF Shrinks, Tidy, StaysShort, store, StoreTyped

(* Removing a frame that is not used any more. *)
LEMMA UnusedShrinks ==
  ASSUME StoreTyped, Distinct(fs), remove_unused_frame_from_dpb
  PROVE  Shrinks /\ Tidy
<1>1. PICK q \in Held : q \in Unused
  BY DEF remove_unused_frame_from_dpb, Unused
<1>2. fs \in Seq(Pictures)
  BY DEF StoreTyped
<1>3. First(Unused) \in Held
  BY <1>1, <1>2, FirstHeld
<1> QED
  BY <1>3, RemovalShrinks DEF remove_unused_frame_from_dpb

(* Some frame that waits has the smallest count. *)
LEMMA SmallestWaits ==
  ASSUME StoreTyped, Waiting # {}
  PROVE  /\ Smallest \in Waiting /\ Smallest \in Held
         /\ \A q \in Waiting : slot[Smallest].poc <= slot[q].poc
<1> DEFINE D == {slot[p].poc - INT_MIN : p \in Waiting}
           T == {p \in Waiting : \A q \in Waiting : slot[p].poc <= slot[q].poc}
<1>1. \A p \in Waiting : /\ slot[p].poc \in Int /\ INT_MIN \in Int
                         /\ slot[p].poc - INT_MIN \in Nat
  <2> SUFFICES ASSUME NEW p \in Waiting
               PROVE  /\ slot[p].poc \in Int /\ INT_MIN \in Int
                      /\ slot[p].poc - INT_MIN \in Nat
    OBVIOUS
  <2>1. p \in Pictures
    BY DEF StoreTyped, Waiting, Held
  <2>2. slot[p].poc \in Pocs
    BY <2>1 DEF StoreTyped, SlotType
  <2>3. \A n \in Pocs : n \in Int /\ INT_MIN \in Int /\ n - INT_MIN \in Nat
    BY PocAssumption
  <2> QED
    BY <2>2, <2>3
<1>2. D \subseteq Nat /\ D # {}
  BY <1>1
<1>3. \E d \in D : \A e \in D : ~(e < d)
  <2> HIDE DEF D
  <2> QED
    BY <1>2, Least
<1>4. PICK p \in Waiting : \A q \in Waiting : ~(slot[q].poc - INT_MIN < slot[p].poc - INT_MIN)
  BY <1>3
<1>5. p \in T /\ p \in Held
  BY <1>1, <1>4 DEF Waiting
<1> HIDE DEF T
<1>6. fs \in Seq(Pictures)
  BY DEF StoreTyped
<1>7. First(T) \in T /\ First(T) \in Held
  BY <1>5, <1>6, FirstHeld
<1> USE DEF T
<1> QED
  BY <1>7 DEF Smallest

(* Writing a frame, and removing it when it is no reference. *)
LEMMA OutputShrinks ==
  ASSUME StoreTyped, RestTyped, Distinct(fs), output_one_frame_from_dpb
  PROVE  /\ Shrinks /\ Tidy
         /\ last' \in Pocs \cup {INT_MIN}
         /\ pc' = pc \/ pc' \in Exits
<1>1. CASE Waiting = {}
  BY <1>1, NothingShrinks DEF output_one_frame_from_dpb, Exits, store, RestTyped
<1>2. CASE Waiting # {}
  <2>1. Smallest \in Held /\ Smallest \in Pictures
    BY <1>2, SmallestWaits DEF StoreTyped, Held
  <2>2. slot[Smallest].poc \in Pocs
    BY <2>1 DEF StoreTyped, SlotType
  <2>3. (pc' = pc \/ pc' \in Exits) /\ last' \in Pocs \cup {INT_MIN}
    BY <1>2, <2>2 DEF output_one_frame_from_dpb, Exits, RestTyped
  <2>4. CASE is_used_for_reference(Smallest)
    <3>1. slot' = [slot EXCEPT ![Smallest].out = TRUE] /\ pic' = pic /\ fs' = fs
      BY <1>2, <2>4 DEF output_one_frame_from_dpb
    <3>2. Held' = Held /\ Held \subseteq Pictures
      BY <3>1 DEF Held, StoreTyped
    <3>3. /\ slot' \in [Pictures -> SlotType]
          /\ \A p \in Pictures : /\ slot'[p].ref = slot[p].ref /\ slot'[p].long = slot[p].long
                                 /\ slot'[p].idx = slot[p].idx
      BY <2>1, <3>1 DEF StoreTyped, SlotType
    <3> QED
      BY <2>3, <3>1, <3>2, <3>3 DEF Shrinks, Tidy, StaysShort, StoreTyped
  <2>5. CASE ~is_used_for_reference(Smallest)
    <3>1. remove_frame_from_dpb(Smallest)
      BY <1>2, <2>5 DEF output_one_frame_from_dpb
    <3> QED
      BY <2>1, <2>3, <3>1, RemovalShrinks
  <2> QED
    BY <2>4, <2>5
<1> QED
  BY <1>1, <1>2

-----------------------------------------------------------------------------
(* One lemma per action: it keeps the invariant. *)

(* The parts of the invariant the steps use. *)
LEMMA Parts ==
  IInv => /\ StoreTyped /\ RestTyped /\ Distinct(fs) /\ Held \subseteq Pictures
          /\ offset \in Pictures /\ cur.frame \in Pictures
          /\ pc \in Storing => cur.frame \notin Held
<1> SUFFICES ASSUME IInv
             PROVE  /\ StoreTyped /\ RestTyped /\ Distinct(fs) /\ Held \subseteq Pictures
                    /\ offset \in Pictures /\ cur.frame \in Pictures
                    /\ pc \in Storing => cur.frame \notin Held
  OBVIOUS
<1>1. StoreTyped /\ RestTyped
  BY TypeSplit DEF IInv
<1>2. offset \in Pictures /\ cur.frame \in Pictures
  BY <1>1 DEF RestTyped, Pictures
<1>3. Held \subseteq Pictures
  BY <1>1 DEF StoreTyped, Held
<1> QED
  BY <1>1, <1>2, <1>3 DEF IInv, SafeRecycling, Distinct

(* A quiet step that keeps the types of the rest keeps the invariant. *)
LEMMA QuietKeeps == IInv /\ Quietly /\ RestTyped' => IInv'
<1>1. StoreTyped' /\ RestTyped' => TypeOK'
  BY DEF TypeOK, StoreTyped, RestTyped, PicType, SlotType
<1> QED
  BY <1>1, QuietStep DEF IInv

(* The lists that are brought up to date hold pictures. *)
LEMMA ListsTyped ==
  ASSUME fs' \in Seq(Pictures)
  PROVE  /\ update_ref_list => fs_ref' \subseteq Pictures
         /\ update_ltref_list => fs_ltref' \subseteq Pictures
<1>1. Held' \subseteq Pictures
  BY DEF Held
<1> QED
  BY <1>1 DEF update_ref_list, update_ltref_list

(* The buffer of a step that leaves it alone. *)
LEMMA SameRemarks == IInv /\ UNCHANGED store => Remarks
<1> SUFFICES ASSUME IInv, UNCHANGED store
             PROVE  Remarks
  OBVIOUS
<1>1. MarksAgree'
  BY DEF IInv, MarksAgree, store, Held
<1> QED
  BY <1>1, Parts DEF Remarks, StoreTyped, store

(* The marks a step leaves: those of U are unmarked, those of V are no longer  *)
(* long-term, those of M become long-term with index i.                        *)
PicMarks(U, V, M, i) ==
  /\ pic' = [p \in Pictures |-> pic'[p]]
  /\ \A p \in Pictures : /\ pic'[p] \in PicType /\ pic'[p].empty = pic[p].empty
                         /\ pic'[p].used = (pic[p].used /\ p \notin U)
                         /\ pic'[p].long = ((pic[p].long /\ p \notin V) \/ p \in M)
                         /\ pic'[p].idx = IF p \in M THEN i ELSE pic[p].idx
SlotMarks(U, V, M, i) ==
  /\ slot' = [p \in Pictures |-> slot'[p]]
  /\ \A p \in Pictures : /\ slot'[p] \in SlotType
                         /\ slot'[p].out = slot[p].out /\ slot'[p].poc = slot[p].poc
                         /\ slot'[p].ref = (slot[p].ref /\ p \notin U)
                         /\ slot'[p].long = ((slot[p].long /\ p \notin V) \/ p \in M)
                         /\ slot'[p].idx = IF p \in M THEN i ELSE slot[p].idx

(* Pictures and frame stores are marked alike, where they are held and still used. *)
Alike(U, V, M, W, N) ==
  \A p \in Held : (p \in U \/ (p \in V <=> p \in W)) /\ (p \in M <=> p \in N)

(* Such a step keeps them in agreement. *)
LEMMA MarksAlike ==
  ASSUME IInv, NEW U, NEW V, NEW M, NEW W, NEW N, NEW i,
         PicMarks(U, V, M, i), SlotMarks(U, W, N, i), fs' = fs, Alike(U, V, M, W, N)
  PROVE  Remarks
<1>1. MarksAgree /\ Held' = Held /\ Held \subseteq Pictures
  BY Parts DEF Held, IInv
<1>2. MarksAgree'
  <2> SUFFICES ASSUME NEW p \in Held
               PROVE  /\ slot'[p].ref = pic'[p].used
                      /\ slot'[p].ref => slot'[p].long = pic'[p].long
                      /\ slot'[p].ref /\ slot'[p].long => slot'[p].idx = pic'[p].idx
    BY <1>1 DEF MarksAgree
  <2>1. p \in Pictures
    BY <1>1
  <2>2. /\ slot[p].ref = pic[p].used
        /\ slot[p].ref => slot[p].long = pic[p].long
        /\ slot[p].ref /\ slot[p].long => slot[p].idx = pic[p].idx
    BY <1>1 DEF MarksAgree
  <2>3. /\ pic'[p].used = (pic[p].used /\ p \notin U)
        /\ pic'[p].long = ((pic[p].long /\ p \notin V) \/ p \in M)
        /\ pic'[p].idx = IF p \in M THEN i ELSE pic[p].idx
    BY <2>1 DEF PicMarks
  <2>4. /\ slot'[p].ref = (slot[p].ref /\ p \notin U)
        /\ slot'[p].long = ((slot[p].long /\ p \notin W) \/ p \in N)
        /\ slot'[p].idx = IF p \in N THEN i ELSE slot[p].idx
    BY <2>1 DEF SlotMarks
  <2> QED
    BY <2>2, <2>3, <2>4 DEF Alike
<1>3. pic' \in [Pictures -> PicType] /\ slot' \in [Pictures -> SlotType]
  BY DEF PicMarks, SlotMarks
<1>4. \A p \in Held : slot'[p].out = slot[p].out /\ slot'[p].poc = slot[p].poc
  BY <1>1 DEF SlotMarks
<1>5. \A p \in Held : pic'[p].used => pic[p].used
  BY <1>1 DEF PicMarks
<1>6. \A p \in Pictures : pic'[p].empty = pic[p].empty
  BY DEF PicMarks
<1> QED
  BY <1>2, <1>3, <1>4, <1>5, <1>6 DEF Remarks

(* Marks leave the buffer tidy. *)
LEMMA RemarksTidy == Remarks => Tidy
<1> SUFFICES ASSUME Remarks
             PROVE  Tidy
  OBVIOUS
<1>1. Held' = Held
  BY DEF Remarks, Held
<1> QED
  BY <1>1 DEF Remarks, Tidy

(* Unmarking. *)
LEMMA UnmarkRemarks ==
  ASSUME IInv, NEW S, unmark_for_reference(S), fs' = fs
  PROVE  Remarks /\ StaysShort
<1>1. StoreTyped
  BY Parts
<1>2. /\ pic' = [p \in Pictures |-> pic'[p]]
      /\ \A p \in Pictures : /\ pic[p] \in PicType
                             /\ pic'[p] = [pic[p] EXCEPT !.used = @ /\ p \notin S]
  BY <1>1 DEF unmark_for_reference, StoreTyped
<1>3. /\ slot' = [p \in Pictures |-> slot'[p]]
      /\ \A p \in Pictures : /\ slot[p] \in SlotType
                             /\ slot'[p] = [slot[p] EXCEPT !.ref = @ /\ p \notin S]
  BY <1>1 DEF unmark_for_reference, StoreTyped
<1>4. PicMarks(S, {}, {}, 0)
  BY <1>2 DEF PicMarks, PicType
<1>5. SlotMarks(S, {}, {}, 0)
  BY <1>3 DEF SlotMarks, SlotType
<1>6. Alike(S, {}, {}, {}, {})
  BY DEF Alike
<1>9. StaysShort
  BY <1>4 DEF PicMarks, StaysShort
<1> QED
  BY <1>4, <1>5, <1>6, <1>9, MarksAlike

(* Unmarking of long-term references. *)
LEMMA UnmarkLongRemarks ==
  ASSUME IInv, NEW S, unmark_for_long_term_reference(S), fs' = fs
  PROVE  Remarks /\ StaysShort
<1>1. StoreTyped
  BY Parts
<1>2. /\ pic' = [p \in Pictures |-> pic'[p]]
      /\ \A p \in Pictures : /\ pic[p] \in PicType
                             /\ pic'[p] = [pic[p] EXCEPT !.used = @ /\ p \notin S, !.long = @ /\ p \notin S]
  BY <1>1 DEF unmark_for_long_term_reference, StoreTyped
<1>3. /\ slot' = [p \in Pictures |-> slot'[p]]
      /\ \A p \in Pictures : /\ slot[p] \in SlotType
                             /\ slot'[p] = [slot[p] EXCEPT !.ref = @ /\ p \notin S, !.long = @ /\ p \notin S]
  BY <1>1 DEF unmark_for_long_term_reference, StoreTyped
<1>4. PicMarks(S, S, {}, 0)
  BY <1>2 DEF PicMarks, PicType
<1>5. SlotMarks(S, S, {}, 0)
  BY <1>3 DEF SlotMarks, SlotType
<1>6. Alike(S, S, {}, S, {})
  BY DEF Alike
<1>9. StaysShort
  BY <1>4 DEF PicMarks, StaysShort
<1> QED
  BY <1>4, <1>5, <1>6, <1>9, MarksAlike

(* The sliding window. *)
LEMMA SlideRemarks ==
  ASSUME IInv, sliding_window_memory_management
  PROVE  Remarks /\ StaysShort
<1>0. PICK S : /\ pic' = [p \in Pictures |-> [pic[p] EXCEPT !.used = @ /\ p \notin S,
                                                       !.long = @ /\ p # cur.frame]]
               /\ slot' = [p \in Pictures |-> [slot[p] EXCEPT !.ref = @ /\ p \notin S]]
               /\ fs' = fs
  BY DEF sliding_window_memory_management
<1>6. cur.frame \notin Held
  BY Parts DEF sliding_window_memory_management, Storing
<1>1. StoreTyped
  BY Parts
<1>2. /\ pic' = [p \in Pictures |-> pic'[p]]
      /\ \A p \in Pictures : /\ pic[p] \in PicType
                             /\ pic'[p] = [pic[p] EXCEPT !.used = @ /\ p \notin S, !.long = @ /\ p # cur.frame]
  BY <1>1, <1>0 DEF StoreTyped
<1>3. /\ slot' = [p \in Pictures |-> slot'[p]]
      /\ \A p \in Pictures : /\ slot[p] \in SlotType
                             /\ slot'[p] = [slot[p] EXCEPT !.ref = @ /\ p \notin S]
  BY <1>1, <1>0 DEF StoreTyped
<1>7. Alike(S, {cur.frame}, {}, {}, {})
  BY <1>6 DEF Alike
<1>4. PicMarks(S, {cur.frame}, {}, 0)
  BY <1>2 DEF PicMarks, PicType
<1>5. SlotMarks(S, {}, {}, 0)
  BY <1>3 DEF SlotMarks, SlotType
<1>9. StaysShort
  BY <1>4 DEF PicMarks, StaysShort
<1> QED
  BY <1>4, <1>5, <1>7, <1>0, <1>9, MarksAlike

(* Command 3. *)
LEMMA AssignRemarks ==
  ASSUME IInv, NEW d \in FrameNums, NEW j \in LongIdx, mm_assign_long_term_frame_idx(d, j)
  PROVE  Remarks
<1>0. PICK U, M : /\ pic' = [p \in Pictures |->
                              [pic[p] EXCEPT !.used = @ /\ p \notin U,
                                             !.long = (@ /\ p \notin U) \/ p \in M,
                                             !.idx = IF p \in M THEN j ELSE @]]
                  /\ slot' = [p \in Pictures |->
                               [slot[p] EXCEPT !.ref = @ /\ p \notin U,
                                               !.long = (@ /\ p \notin U) \/ p \in M,
                                               !.idx = IF p \in M THEN j ELSE @]]
                  /\ fs' = fs
  BY DEF mm_assign_long_term_frame_idx, Marking
<1>1. StoreTyped
  BY Parts
<1>2. /\ pic' = [p \in Pictures |-> pic'[p]]
      /\ \A p \in Pictures : /\ pic[p] \in PicType
                             /\ pic'[p] = [pic[p] EXCEPT !.used = @ /\ p \notin U,
                                                           !.long = (@ /\ p \notin U) \/ p \in M,
                                                           !.idx = IF p \in M THEN j ELSE @]
  BY <1>1, <1>0 DEF StoreTyped
<1>3. /\ slot' = [p \in Pictures |-> slot'[p]]
      /\ \A p \in Pictures : /\ slot[p] \in SlotType
                             /\ slot'[p] = [slot[p] EXCEPT !.ref = @ /\ p \notin U,
                                                             !.long = (@ /\ p \notin U) \/ p \in M,
                                                             !.idx = IF p \in M THEN j ELSE @]
  BY <1>1, <1>0 DEF StoreTyped
<1>4. PicMarks(U, U, M, j)
  <2>1. ASSUME NEW p \in Pictures
        PROVE  /\ pic'[p] \in PicType /\ pic'[p].empty = pic[p].empty
               /\ pic'[p].used = (pic[p].used /\ p \notin U)
               /\ pic'[p].long = ((pic[p].long /\ p \notin U) \/ p \in M)
               /\ pic'[p].idx = IF p \in M THEN j ELSE pic[p].idx
    <3> DEFINE r == pic[p]
               q == pic'[p]
    <3>1. /\ r \in PicType
          /\ q = [r EXCEPT !.used = @ /\ p \notin U, !.long = (@ /\ p \notin U) \/ p \in M,
                           !.idx = IF p \in M THEN j ELSE @]
      BY <1>2
    <3> HIDE DEF r, q
    <3>2. /\ q \in PicType /\ q.empty = r.empty
          /\ q.used = (r.used /\ p \notin U) /\ q.long = ((r.long /\ p \notin U) \/ p \in M)
          /\ q.idx = IF p \in M THEN j ELSE r.idx
      BY <3>1 DEF PicType
    <3> QED
      BY <3>2 DEF r, q
  <2> QED
    BY <2>1, <1>2 DEF PicMarks
<1>5. SlotMarks(U, U, M, j)
  <2>1. ASSUME NEW p \in Pictures
        PROVE  /\ slot'[p] \in SlotType
               /\ slot'[p].out = slot[p].out /\ slot'[p].poc = slot[p].poc
               /\ slot'[p].ref = (slot[p].ref /\ p \notin U)
               /\ slot'[p].long = ((slot[p].long /\ p \notin U) \/ p \in M)
               /\ slot'[p].idx = IF p \in M THEN j ELSE slot[p].idx
    <3> DEFINE r == slot[p]
               q == slot'[p]
    <3>1. /\ r \in SlotType
          /\ q = [r EXCEPT !.ref = @ /\ p \notin U, !.long = (@ /\ p \notin U) \/ p \in M,
                           !.idx = IF p \in M THEN j ELSE @]
      BY <1>3
    <3> HIDE DEF r, q
    <3>2. /\ q \in SlotType /\ q.out = r.out /\ q.poc = r.poc
          /\ q.ref = (r.ref /\ p \notin U) /\ q.long = ((r.long /\ p \notin U) \/ p \in M)
          /\ q.idx = IF p \in M THEN j ELSE r.idx
      BY <3>1 DEF SlotType
    <3> QED
      BY <3>2 DEF r, q
  <2> QED
    BY <2>1, <1>3 DEF SlotMarks
<1>6. Alike(U, U, M, U, M)
  BY DEF Alike
<1> QED
  BY <1>4, <1>5, <1>6, <1>0, MarksAlike

(* Command 5. *)
LEMMA UnmarkAllRemarks ==
  ASSUME IInv, UnmarkAll
  PROVE  Remarks /\ StaysShort
<1>0. PICK U, V : /\ pic' = [p \in Pictures |-> [pic[p] EXCEPT !.used = @ /\ p \notin U,
                                                          !.long = @ /\ p \notin V]]
                  /\ slot' = [p \in Pictures |-> [slot[p] EXCEPT !.ref = @ /\ p \notin U,
                                                            !.long = @ /\ p \notin V]]
                  /\ fs' = fs
  BY DEF UnmarkAll, Marking
<1>1. StoreTyped
  BY Parts
<1>2. /\ pic' = [p \in Pictures |-> pic'[p]]
      /\ \A p \in Pictures : /\ pic[p] \in PicType
                             /\ pic'[p] = [pic[p] EXCEPT !.used = @ /\ p \notin U, !.long = @ /\ p \notin V]
  BY <1>1, <1>0 DEF StoreTyped
<1>3. /\ slot' = [p \in Pictures |-> slot'[p]]
      /\ \A p \in Pictures : /\ slot[p] \in SlotType
                             /\ slot'[p] = [slot[p] EXCEPT !.ref = @ /\ p \notin U, !.long = @ /\ p \notin V]
  BY <1>1, <1>0 DEF StoreTyped
<1>4. PicMarks(U, V, {}, 0)
  BY <1>2 DEF PicMarks, PicType
<1>5. SlotMarks(U, V, {}, 0)
  <2>1. ASSUME NEW p \in Pictures
        PROVE  /\ slot'[p] \in SlotType
               /\ slot'[p].out = slot[p].out /\ slot'[p].poc = slot[p].poc
               /\ slot'[p].ref = (slot[p].ref /\ p \notin U)
               /\ slot'[p].long = (slot[p].long /\ p \notin V)
               /\ slot'[p].idx = slot[p].idx
    <3> DEFINE r == slot[p]
               q == slot'[p]
    <3>1. r \in SlotType /\ q = [r EXCEPT !.ref = @ /\ p \notin U, !.long = @ /\ p \notin V]
      BY <1>3
    <3> HIDE DEF r, q
    <3>2. /\ q \in SlotType /\ q.out = r.out /\ q.poc = r.poc
          /\ q.ref = (r.ref /\ p \notin U) /\ q.long = (r.long /\ p \notin V)
          /\ q.idx = r.idx
      BY <3>1 DEF SlotType
    <3> QED
      BY <3>2 DEF r, q
  <2> QED
    BY <2>1, <1>3 DEF SlotMarks
<1>6. Alike(U, V, {}, V, {})
  BY DEF Alike
<1>9. StaysShort
  BY <1>4 DEF PicMarks, StaysShort
<1> QED
  BY <1>4, <1>5, <1>6, <1>0, <1>9, MarksAlike

(* Command 6. *)
LEMMA MarkCurrentRemarks ==
  ASSUME IInv, NEW j \in LongIdx, mm_mark_current_picture_long_term(j)
  PROVE  Remarks
<1>0. PICK U, M : /\ pic' = [p \in Pictures |->
                              [pic[p] EXCEPT !.used = @ /\ p \notin U,
                                             !.long = (@ /\ p \notin U) \/ p \in M,
                                             !.idx = IF p \in M THEN j ELSE @]]
                  /\ slot' = [p \in Pictures |->
                               [slot[p] EXCEPT !.ref = @ /\ p \notin U, !.long = @ /\ p \notin U]]
                  /\ fs' = fs
                  /\ M = {cur.frame}
  <2> DEFINE M == {cur.frame}
  <2>1. \A p : p = cur.frame <=> p \in M
    OBVIOUS
  <2> HIDE DEF M
  <2>2. pic' = [p \in Pictures |->
                 [pic[p] EXCEPT !.used = @ /\ p \notin WithIdx(j),
                                !.long = (@ /\ p \notin WithIdx(j)) \/ p \in M,
                                !.idx = IF p \in M THEN j ELSE @]]
    BY <2>1 DEF mm_mark_current_picture_long_term
  <2> QED
    BY <2>2 DEF mm_mark_current_picture_long_term, Marking, M
<1>1. StoreTyped /\ cur.frame \notin Held
  BY Parts DEF mm_mark_current_picture_long_term, Marking, Storing
<1>2. /\ pic' = [p \in Pictures |-> pic'[p]]
      /\ \A p \in Pictures : /\ pic[p] \in PicType
                             /\ pic'[p] = [pic[p] EXCEPT !.used = @ /\ p \notin U,
                                                           !.long = (@ /\ p \notin U) \/ p \in M,
                                                           !.idx = IF p \in M THEN j ELSE @]
  BY <1>1, <1>0 DEF StoreTyped
<1>3. /\ slot' = [p \in Pictures |-> slot'[p]]
      /\ \A p \in Pictures : /\ slot[p] \in SlotType
                             /\ slot'[p] = [slot[p] EXCEPT !.ref = @ /\ p \notin U, !.long = @ /\ p \notin U]
  BY <1>1, <1>0 DEF StoreTyped
<1>4. PicMarks(U, U, M, j)
  <2>1. ASSUME NEW p \in Pictures
        PROVE  /\ pic'[p] \in PicType /\ pic'[p].empty = pic[p].empty
               /\ pic'[p].used = (pic[p].used /\ p \notin U)
               /\ pic'[p].long = ((pic[p].long /\ p \notin U) \/ p \in M)
               /\ pic'[p].idx = IF p \in M THEN j ELSE pic[p].idx
    <3> DEFINE r == pic[p]
               q == pic'[p]
    <3>1. /\ r \in PicType
          /\ q = [r EXCEPT !.used = @ /\ p \notin U, !.long = (@ /\ p \notin U) \/ p \in M,
                           !.idx = IF p \in M THEN j ELSE @]
      BY <1>2
    <3> HIDE DEF r, q
    <3>2. /\ q \in PicType /\ q.empty = r.empty
          /\ q.used = (r.used /\ p \notin U) /\ q.long = ((r.long /\ p \notin U) \/ p \in M)
          /\ q.idx = IF p \in M THEN j ELSE r.idx
      BY <3>1 DEF PicType
    <3> QED
      BY <3>2 DEF r, q
  <2> QED
    BY <2>1, <1>2 DEF PicMarks
<1>5. SlotMarks(U, U, {}, j)
  BY <1>3 DEF SlotMarks, SlotType
<1>6. Alike(U, U, M, U, {})
  BY <1>0, <1>1 DEF Alike
<1> QED
  BY <1>4, <1>5, <1>6, <1>0, MarksAlike

(* The flags of a flush. *)
LEMMA FlushRemarks ==
  ASSUME IInv, NEW then, Flush(then), fs' = fs
  PROVE  Remarks /\ StaysShort /\ pc' = then
  BY UnmarkRemarks DEF Flush

(* Dropping the whole buffer, its pictures left as they are. *)
LEMMA DropShrinks ==
  ASSUME IInv, fs' = << >>, slot' = [p \in Pictures |-> EmptySlot], UNCHANGED pic
  PROVE  Shrinks
<1>1. EmptySlot \in SlotType
  BY SizeAssumption, PocAssumption, NameAssumption DEF EmptySlot, SlotType, FrameNums
<1>2. Held' = {}
  BY DEF Held
<1>3. StoreTyped /\ Size \in Nat
  BY Parts, SizeAssumption
<1>4. fs' \in Seq(Pictures) /\ Len(fs') <= Size /\ Distinct(fs')
  BY <1>3 DEF Distinct
<1> QED
  BY <1>1, <1>2, <1>3, <1>4 DEF Shrinks, StaysShort, StoreTyped

(* Steps that only take pictures out. *)
LEMMA ShrinkingSteps ==
  ASSUME IInv, FlushRemoves \/ FlushOutputs \/ RemoveUnused \/ OutputOne
  PROVE  IInv' /\ Tidy
<1>0. StoreTyped /\ RestTyped /\ Distinct(fs)
  BY Parts
<1>1. CASE FlushRemoves
  <2>1. Shrinks /\ Tidy
    BY <1>0, <1>1, UnusedShrinks DEF FlushRemoves
  <2>2. RestTyped' /\ Quietly
    BY <1>0, <1>1, <2>1 DEF FlushRemoves, Flushing, RestTyped, Quietly, lists, image
  <2> QED
    BY <2>1, <2>2, QuietKeeps
<1>2. CASE FlushOutputs
  <2>1. Shrinks /\ Tidy /\ last' \in Pocs \cup {INT_MIN} /\ (pc' = pc \/ pc' \in Exits)
    BY <1>0, <1>2, OutputShrinks DEF FlushOutputs
  <2>2. RestTyped' /\ Quietly
    BY <1>0, <1>2, <2>1 DEF FlushOutputs, Flushing, RestTyped, Quietly, lists, image, Exits, Storing
  <2> QED
    BY <2>1, <2>2, QuietKeeps
<1>3. CASE RemoveUnused
  <2>1. Shrinks /\ Tidy
    BY <1>0, <1>3, UnusedShrinks, NothingShrinks DEF RemoveUnused
  <2>2. RestTyped' /\ Quietly
    BY <1>0, <1>3, <2>1 DEF RemoveUnused, RestTyped, Quietly, lists, image, Active, Storing
  <2> QED
    BY <2>1, <2>2, QuietKeeps
<1>4. CASE OutputOne
  <2>1. Shrinks /\ Tidy /\ last' \in Pocs \cup {INT_MIN} /\ (pc' = pc \/ pc' \in Exits)
    BY <1>0, <1>4, OutputShrinks DEF OutputOne
  <2>2. RestTyped' /\ Quietly
    BY <1>0, <1>4, <2>1 DEF OutputOne, RestTyped, Quietly, lists, image, Exits, Storing
  <2> QED
    BY <2>1, <2>2, QuietKeeps
<1> QED
  BY <1>1, <1>2, <1>3, <1>4

(* Steps that leave the buffer alone. *)
LEMMA StillSteps ==
  ASSUME IInv,
         \/ PicturesLost \/ StoreNonReference \/ StoreAdaptive
         \/ Mmco5Flushed \/ DuplicateFrameNum \/ EndFlushed
  PROVE  IInv' /\ Tidy
<1>0. RestTyped
  BY Parts
<1>1. UNCHANGED store
  BY DEF PicturesLost, StoreNonReference, StoreAdaptive, Mmco5Flushed, DuplicateFrameNum, EndFlushed
<1>2. Remarks /\ Tidy
  BY <1>1, SameRemarks, RemarksTidy
<1>3. /\ UNCHANGED <<lists, image>> /\ last' \in {last, INT_MIN} /\ mmco5' \in {mmco5, FALSE}
      /\ \/ pc \in Storing /\ pc' \in {"full", "marking"}
         \/ pc' \in Exits \cup {"done"}
  <2>1. CASE PicturesLost
    BY <2>1 DEF PicturesLost, Storing, Exits, lists, image
  <2>2. CASE StoreNonReference
    BY <2>2 DEF StoreNonReference, Storing, Exits, lists, image
  <2>3. CASE StoreAdaptive
    BY <2>3 DEF StoreAdaptive, Storing, Exits, lists, image
  <2>4. CASE Mmco5Flushed
    BY <2>4 DEF Mmco5Flushed, Storing, Exits, lists, image
  <2>5. CASE DuplicateFrameNum
    BY <2>5 DEF DuplicateFrameNum, Storing, Exits, lists, image
  <2>6. CASE EndFlushed
    BY <2>6 DEF EndFlushed, Storing, Exits, lists, image
  <2> QED
    BY <2>1, <2>2, <2>3, <2>4, <2>5, <2>6
<1>4. RestTyped'
  <2>1. pc' \in Active \cup Exits
    BY <1>3 DEF Active, Storing
  <2>2. last' \in Pocs \cup {INT_MIN} /\ mmco5' \in BOOLEAN
    BY <1>0, <1>3 DEF RestTyped
  <2>3. UNCHANGED <<fs_ref, fs_ltref, cur, header, offset, pre>>
    BY <1>3 DEF lists, image
  <2> QED
    BY <1>0, <2>1, <2>2, <2>3 DEF RestTyped
<1>5. (pc' \in Storing => pc \in Storing) /\ pc' \notin {"idle", "header", "next"}
  BY <1>3 DEF Storing, Exits
<1>6. cur' = cur /\ offset' = offset
  BY <1>3 DEF image
<1>7. Quietly
  BY <1>2, <1>5, <1>6 DEF Quietly
<1> QED
  BY <1>2, <1>4, <1>7, QuietKeeps

(* Steps that unmark every picture, or drop the buffer. *)
LEMMA FlushingSteps ==
  ASSUME IInv, StoreIdr \/ MarkingEnds \/ NewSps \/ EndOfStream
  PROVE  IInv' /\ (~cur.noOutput /\ ~header.noOutput => Tidy)
<1>0. RestTyped
  BY Parts
<1>1. CASE StoreIdr
  <2>1. (Remarks \/ Shrinks) /\ pc' = "flush for idr"
    BY <1>1, FlushRemarks, DropShrinks DEF StoreIdr
  <2>0. ~cur.noOutput => Remarks
    BY <1>1, FlushRemarks DEF StoreIdr
  <2>2. RestTyped' /\ Quietly
    BY <1>0, <1>1, <2>1 DEF StoreIdr, RestTyped, Quietly, lists, image, Active, Storing
  <2> QED
    BY <2>2, <2>0, RemarksTidy, QuietKeeps
<1>2. CASE MarkingEnds
  <2>1. Remarks /\ pc' \in {"flush for mmco5", "full"}
    BY <1>2, FlushRemarks, SameRemarks DEF MarkingEnds, store
  <2>2. 0 \in FrameNums /\ 0 \in Pocs
    BY SizeAssumption, PocAssumption DEF FrameNums
  <2>3. /\ cur' \in [frame : Pictures, gap : BOOLEAN, idr : BOOLEAN, noOutput : BOOLEAN,
                     adaptive : BOOLEAN, long : BOOLEAN, num : FrameNums, poc : Pocs]
        /\ cur'.frame = cur.frame /\ cur'.gap = cur.gap
    BY <1>0, <1>2, <2>2 DEF MarkingEnds, RestTyped
  <2>4. RestTyped' /\ Quietly
    BY <1>0, <1>2, <2>1, <2>3 DEF MarkingEnds, RestTyped, Quietly, lists, image, Active, Storing
  <2> QED
    BY <2>1, <2>4, RemarksTidy, QuietKeeps
<1>3. CASE NewSps
  <2>1. (Remarks \/ Shrinks) /\ pc' = "flush for sps"
    BY <1>3, FlushRemarks, DropShrinks DEF NewSps
  <2>0. ~header.noOutput => Remarks
    BY <1>3, FlushRemarks DEF NewSps
  <2>2. RestTyped' /\ Quietly
    BY <1>0, <1>3, <2>1 DEF NewSps, RestTyped, Quietly, lists, image, Active, Storing
  <2> QED
    BY <2>2, <2>0, RemarksTidy, QuietKeeps
<1>4. CASE EndOfStream
  <2>1. Remarks /\ pc' = "flush at end"
    BY <1>4, FlushRemarks DEF EndOfStream
  <2>2. RestTyped' /\ Quietly
    BY <1>0, <1>4, <2>1 DEF EndOfStream, RestTyped, Quietly, lists, image, Active, Storing
  <2> QED
    BY <2>1, <2>2, RemarksTidy, QuietKeeps
<1> QED
  BY <1>1, <1>2, <1>3, <1>4

(* Each command, and the sliding window, only marks. *)
LEMMA CommandRemarks ==
  ASSUME IInv, sliding_window_memory_management \/ Command
  PROVE  Remarks
<1>1. CASE sliding_window_memory_management
  BY <1>1, SlideRemarks
<1>2. ASSUME NEW d \in FrameNums, mm_unmark_short_term_for_reference(d)
      PROVE  Remarks
  BY <1>2, UnmarkRemarks DEF mm_unmark_short_term_for_reference, Marking
<1>3. ASSUME NEW n \in LongIdx, mm_unmark_long_term_for_reference(n)
      PROVE  Remarks
  BY <1>3, UnmarkLongRemarks DEF mm_unmark_long_term_for_reference, Marking
<1>4. ASSUME NEW d \in FrameNums, NEW i \in LongIdx, mm_assign_long_term_frame_idx(d, i)
      PROVE  Remarks
  BY <1>4, AssignRemarks
<1>5. ASSUME NEW m \in LongIdx, mm_update_max_long_term_frame_idx(m)
      PROVE  Remarks
  BY <1>5, UnmarkLongRemarks DEF mm_update_max_long_term_frame_idx, Marking
<1>6. CASE UnmarkAll
  BY <1>6, UnmarkAllRemarks
<1>7. ASSUME NEW i \in LongIdx, mm_mark_current_picture_long_term(i)
      PROVE  Remarks
  BY <1>7, MarkCurrentRemarks
<1> QED
  BY <1>1, <1>2, <1>3, <1>4, <1>5, <1>6, <1>7 DEF Command

(* Marking of the pictures held. *)
LEMMA MarkingSteps ==
  ASSUME IInv, sliding_window_memory_management \/ Command
  PROVE  IInv' /\ Tidy
<1>0. RestTyped /\ fs \in Seq(Pictures)
  BY Parts DEF StoreTyped
<1>1. Remarks
  BY CommandRemarks
<1>2. fs' \in Seq(Pictures)
  BY <1>0, <1>1 DEF Remarks
<1>3. /\ fs_ref' = fs_ref \/ update_ref_list
      /\ fs_ltref' = fs_ltref \/ update_ltref_list
      /\ UNCHANGED <<image, last>> /\ mmco5' \in BOOLEAN
      /\ pc \in Storing
      /\ pc' \in {"full", "marking"} \cup Exits
  <2>1. mmco5 \in BOOLEAN
    BY <1>0 DEF RestTyped
  <2> QED
    BY <2>1 DEF sliding_window_memory_management, Command, mm_unmark_short_term_for_reference,
                mm_unmark_long_term_for_reference, mm_assign_long_term_frame_idx,
                mm_update_max_long_term_frame_idx, UnmarkAll, mm_mark_current_picture_long_term,
                Marking, Storing, Exits, lists
<1>4. fs_ref' \subseteq Pictures /\ fs_ltref' \subseteq Pictures
  BY <1>0, <1>2, <1>3, ListsTyped DEF RestTyped
<1>5. RestTyped'
  BY <1>0, <1>3, <1>4 DEF RestTyped, image, Active, Storing
<1>6. Quietly
  BY <1>1, <1>3 DEF Quietly, image, Storing, Exits
<1> QED
  BY <1>1, <1>5, <1>6, RemarksTidy, QuietKeeps

(* An empty buffer holds no picture. *)
LEMMA EmptyHeld ==
  ASSUME fs' = << >>
  PROVE  Held' = {}
  BY DEF Held

(* The pictures of the stream stored are marked, the buffer emptied. *)
LEMMA IdrFlushedStep ==
  ASSUME IInv, IdrFlushed
  PROVE  IInv' /\ Tidy
<1>0. StoreTyped /\ RestTyped /\ cur.frame \in Pictures /\ 0 \in LongIdx
  BY Parts, NameAssumption
<1>1. pc = "flush for idr" /\ fs = << >> /\ fs' = << >> /\ slot' = slot /\ Held' = {}
  <2>1. pc = "flush for idr" /\ fs = << >> /\ fs' = << >> /\ slot' = slot
    BY DEF IdrFlushed
  <2> QED
    BY <2>1, EmptyHeld
<1>2. cur.long \in BOOLEAN
  BY <1>0 DEF RestTyped
<1>3. /\ pic' \in [Pictures -> PicType]
      /\ \A p \in Pictures : pic'[p].empty = pic[p].empty
  BY <1>0, <1>2 DEF IdrFlushed, StoreTyped, PicType
<1>4. Remarks
  <2>1. Held = {}
    BY <1>1 DEF Held
  <2>2. MarksAgree'
    BY <1>1 DEF MarksAgree
  <2> QED
    BY <1>0, <1>1, <1>3, <2>1, <2>2 DEF Remarks, StoreTyped
<1>5. fs_ref' = {} /\ fs_ltref' = {}
  BY <1>1 DEF IdrFlushed, update_ref_list, update_ltref_list
<1>6. RestTyped'
  BY <1>0, <1>5 DEF IdrFlushed, RestTyped, image, Active, Storing
<1>7. Quietly
  BY <1>1, <1>4 DEF IdrFlushed, Quietly, image, Storing
<1> QED
  BY <1>4, <1>6, <1>7, RemarksTidy, QuietKeeps

(* Reading a slice header. *)
LEMMA SliceHeaderStep ==
  ASSUME IInv, NEW idr \in BOOLEAN, NEW n \in FrameNums, NEW noOutput \in NoOutput,
         SliceHeader(idr, n, noOutput)
  PROVE  IInv'
<1>1. StoreTyped /\ RestTyped /\ noOutput \in BOOLEAN /\ 0 \in FrameNums
  BY Parts, FlagAssumption, SizeAssumption DEF FrameNums
<1>2. UNCHANGED <<store, lists, cur, offset>> /\ pc = "idle" /\ pc' = "header"
  BY DEF SliceHeader
<1>3. StoreTyped' /\ RestTyped'
  <2>1. StoreTyped'
    BY <1>1, <1>2 DEF StoreTyped, store
  <2>2. header' \in [idr : BOOLEAN, num : FrameNums, noOutput : BOOLEAN] /\ pre' \in FrameNums
    BY <1>1 DEF SliceHeader, RestTyped
  <2> QED
    BY <1>1, <1>2, <2>1, <2>2 DEF SliceHeader, RestTyped, lists, Active
<1>4. TypeOK'
  BY <1>3 DEF TypeOK, StoreTyped, RestTyped, PicType, SlotType
<1>5. Held' = Held
  BY <1>2 DEF store, Held
<1>6. SafeRecycling' /\ MarksAgree' /\ GapLeavesPicture' /\ ListsRight'
  <2>1. SafeRecycling'
    BY <1>2, <1>5 DEF IInv, SafeRecycling, store, Storing
  <2>2. MarksAgree'
    BY <1>2, <1>5 DEF IInv, MarksAgree, store
  <2>3. GapLeavesPicture'
    BY <1>2 DEF GapLeavesPicture, Storing
  <2>4. ListsRight'
    BY <1>2, <1>5 DEF IInv, ListsRight, store, lists, TooManyRefs
  <2> QED
    BY <2>1, <2>2, <2>3, <2>4
<1> QED
  BY <1>4, <1>6 DEF IInv

(* A picture is begun: one that is not held is marked as not empty. *)
LEMMA Begun ==
  ASSUME IInv, NEW p \in Pictures, p \notin Held, pc' = "store",
         pic' \in [Pictures -> PicType], ~pic'[p].empty,
         \A q \in Pictures : q # p => pic'[q] = pic[q],
         UNCHANGED <<slot, fs>>, cur'.frame = p, RestTyped',
         cur'.gap => offset' # p /\ pic[offset'].empty
  PROVE  IInv'
<1>1. StoreTyped /\ Held' = Held /\ Held \subseteq Pictures
  BY Parts DEF Held
<1>2. StoreTyped'
  BY <1>1 DEF StoreTyped
<1>3. TypeOK'
  BY <1>2 DEF TypeOK, StoreTyped, RestTyped, PicType, SlotType
<1>4. SafeRecycling'
  BY <1>1 DEF IInv, SafeRecycling
<1>5. MarksAgree'
  BY <1>1 DEF IInv, MarksAgree
<1>6. GapLeavesPicture'
  BY DEF GapLeavesPicture, RestTyped, Pictures
<1>7. ListsRight'
  BY DEF ListsRight
<1> QED
  BY <1>3, <1>4, <1>5, <1>6, <1>7 DEF IInv

(* Filling a gap, and beginning a picture of the stream. *)
LEMMA FillGapStep ==
  ASSUME IInv, FillGap
  PROVE  IInv'
<1>0. StoreTyped /\ RestTyped /\ Held \subseteq Pictures
  BY Parts
<1>1. PICK p \in Gaps \ Held :
        /\ cur' = [NoPicture EXCEPT !.frame = p, !.gap = TRUE, !.num = After(pre)]
        /\ pic' = [pic EXCEPT ![p] = [EmptyPicture EXCEPT !.used = TRUE, !.empty = FALSE]]
  BY DEF FillGap
<1>2. p \in Pictures /\ p \notin Pool /\ 0 \in LongIdx /\ 0 \in Pocs
  BY NameAssumption, PocAssumption DEF Pictures
<1>3. After(pre) \in FrameNums
  BY <1>0, SizeAssumption DEF After, FrameNums, RestTyped
<1>4. /\ pic' \in [Pictures -> PicType] /\ ~pic'[p].empty
      /\ \A q \in Pictures : q # p => pic'[q] = pic[q]
  BY <1>0, <1>1, <1>2 DEF StoreTyped, PicType, EmptyPicture
<1>5. /\ cur' \in [frame : Pictures, gap : BOOLEAN, idr : BOOLEAN, noOutput : BOOLEAN,
                   adaptive : BOOLEAN, long : BOOLEAN, num : FrameNums, poc : Pocs]
      /\ cur'.frame = p
  BY <1>1, <1>2, <1>3 DEF NoPicture
<1>6. UNCHANGED <<slot, fs, lists, header, offset, last, mmco5>> /\ pre' = After(pre) /\ pc' = "store"
      /\ pc = "header"
  BY DEF FillGap
<1>7. RestTyped'
  BY <1>0, <1>3, <1>5, <1>6 DEF RestTyped, lists, Active, Storing
<1>8. offset' # p /\ pic[offset'].empty
  BY <1>0, <1>2, <1>6 DEF RestTyped, IInv, SafeRecycling
<1> QED
  BY <1>1, <1>2, <1>4, <1>5, <1>6, <1>7, <1>8, Begun

LEMMA InitPictureStep ==
  ASSUME IInv, NEW used \in BOOLEAN, NEW adaptive \in Adaptive, NEW long \in LongTerm, NEW poc \in Pocs,
         init_picture(used, adaptive, long, poc)
  PROVE  IInv'
<1>0. StoreTyped /\ RestTyped /\ offset \in Pictures /\ Held \subseteq Pictures
  BY Parts
<1>1. adaptive \in BOOLEAN /\ long \in BOOLEAN
  BY FlagAssumption
<1>2. /\ pic' = [pic EXCEPT ![offset].empty = FALSE, ![offset].used = used]
      /\ cur' = [frame |-> offset, gap |-> FALSE, idr |-> header.idr, noOutput |-> header.noOutput,
                 adaptive |-> adaptive, long |-> long, num |-> header.num, poc |-> poc]
      /\ pre' = header.num /\ pc' = "store" /\ pc = "header"
      /\ UNCHANGED <<slot, fs, lists, header, offset, last, mmco5>>
  BY DEF init_picture
<1>3. /\ pic' \in [Pictures -> PicType] /\ ~pic'[offset].empty
      /\ \A q \in Pictures : q # offset => pic'[q] = pic[q]
  BY <1>0, <1>2 DEF StoreTyped, PicType
<1>4. /\ cur' \in [frame : Pictures, gap : BOOLEAN, idr : BOOLEAN, noOutput : BOOLEAN,
                   adaptive : BOOLEAN, long : BOOLEAN, num : FrameNums, poc : Pocs]
      /\ cur'.frame = offset /\ ~cur'.gap
  BY <1>0, <1>1, <1>2 DEF RestTyped
<1>5. RestTyped'
  BY <1>0, <1>2, <1>4 DEF RestTyped, lists, Active, Storing
<1>6. offset \notin Held
  BY <1>2 DEF IInv, SafeRecycling
<1> QED
  BY <1>0, <1>2, <1>3, <1>4, <1>5, <1>6, Begun

(* The picture is stored. *)
LEMMA InsertStep ==
  ASSUME IInv, Insert
  PROVE  IInv' /\ Held' = Held \cup {cur.frame}
<1> DEFINE p == cur.frame
           r == [ref |-> pic[p].used, long |-> pic[p].used /\ pic[p].long, idx |-> pic[p].idx,
                 num |-> cur.num, poc |-> cur.poc, out |-> cur.gap]
<1>0. StoreTyped /\ RestTyped /\ Distinct(fs) /\ p \in Pictures /\ p \notin Held /\ Held \subseteq Pictures
      /\ pic[p] \in PicType
  BY Parts DEF Insert, Storing, StoreTyped
<1>1. fs' = Append(fs, p) /\ slot' = [slot EXCEPT ![p] = r] /\ pic' = pic
  BY DEF Insert
<1>2. r \in SlotType
  BY <1>0 DEF RestTyped, SlotType, PicType
<1>3. /\ r.ref = pic[p].used /\ (r.ref => r.long = pic[p].long) /\ r.idx = pic[p].idx
  BY <1>0 DEF PicType
<1> HIDE DEF r
<1>4. /\ fs' \in Seq(Pictures) /\ Len(fs') = Len(fs) + 1 /\ Len(fs) \in Nat
      /\ \A k \in 1 .. Len(fs) : fs'[k] = fs[k]
      /\ fs'[Len(fs) + 1] = p
  BY <1>0, <1>1, AppendProperties, LenProperties DEF StoreTyped
<1>5. Held' = Held \cup {p}
  <2>1. \A k \in 1 .. Len(fs') : k \in 1 .. Len(fs) \/ k = Len(fs) + 1
    BY <1>4
  <2>2. \A k \in 1 .. Len(fs) : k \in 1 .. Len(fs')
    BY <1>4
  <2>3. Len(fs) + 1 \in 1 .. Len(fs')
    BY <1>4
  <2> QED
    BY <1>4, <2>1, <2>2, <2>3 DEF Held
<1>6. Distinct(fs')
  <2> SUFFICES ASSUME NEW j \in 1 .. Len(fs'), NEW k \in 1 .. Len(fs'), fs'[j] = fs'[k]
               PROVE  j = k
    BY DEF Distinct
  <2>1. \A i \in 1 .. Len(fs) : fs[i] \in Held
    BY DEF Held
  <2> QED
    BY <1>0, <1>4, <2>1 DEF Distinct
<1>7. StoreTyped'
  <2>0. Len(fs) < Size
    BY DEF Insert
  <2>1. Len(fs') <= Size
    BY <1>4, <2>0, SizeAssumption
  <2>2. slot' \in [Pictures -> SlotType]
    BY <1>0, <1>1, <1>2 DEF StoreTyped
  <2> QED
    BY <1>0, <1>1, <1>4, <2>1, <2>2 DEF StoreTyped
<1>8. pc' \in {"exit: too many reference frames", "header", "next"} /\ (pc' = "header" => cur.gap)
  BY DEF Insert
<1>9. RestTyped'
  <2>1. fs_ref' \subseteq Pictures /\ fs_ltref' \subseteq Pictures
    BY <1>4, ListsTyped DEF Insert
  <2>2. cur' \in [frame : Pictures, gap : BOOLEAN, idr : BOOLEAN, noOutput : BOOLEAN,
                  adaptive : BOOLEAN, long : BOOLEAN, num : FrameNums, poc : Pocs]
    <3>1. 0 \in Pictures /\ 0 \in FrameNums /\ 0 \in Pocs
      BY SizeAssumption, PocAssumption DEF Pictures, Pool, FrameNums
    <3> QED
      BY <3>1 DEF Insert, NoPicture
  <2>3. pre' \in FrameNums
    <3>1. pre' = 0 \/ pre' = pre
      BY DEF Insert
    <3>2. pre \in FrameNums /\ 0 \in FrameNums
      BY <1>0, SizeAssumption DEF RestTyped, FrameNums
    <3> QED
      BY <3>1, <3>2
  <2>4. pc' \in Active \cup Exits
    BY <1>8 DEF Active, Exits
  <2>5. UNCHANGED <<header, offset, last, mmco5>>
    BY DEF Insert
  <2> QED
    BY <1>0, <2>1, <2>2, <2>3, <2>4, <2>5 DEF RestTyped
<1>10. TypeOK'
  BY <1>7, <1>9 DEF TypeOK, StoreTyped, RestTyped, PicType, SlotType
<1>11. SafeRecycling'
  <2>1. \A q \in Held' : ~pic'[q].empty
    BY <1>1, <1>5 DEF IInv, SafeRecycling, Insert, Storing
  <2>2. pc' = "header" => pic'[offset'].empty
    BY <1>1, <1>8 DEF IInv, GapLeavesPicture, Insert, Storing
  <2> QED
    BY <1>6, <1>8, <2>1, <2>2 DEF SafeRecycling, Distinct, Storing
<1>12. MarksAgree'
  <2>1. slot'[p] = r /\ \A q \in Held : q # p /\ slot'[q] = slot[q]
    BY <1>0, <1>1 DEF StoreTyped
  <2>2. MarksAgree
    BY DEF IInv
  <2> SUFFICES ASSUME NEW q \in Held'
               PROVE  /\ slot'[q].ref = pic'[q].used
                      /\ slot'[q].ref => slot'[q].long = pic'[q].long
                      /\ slot'[q].ref /\ slot'[q].long => slot'[q].idx = pic'[q].idx
    BY DEF MarksAgree
  <2>3. CASE q = p
    BY <1>1, <1>3, <2>1, <2>3
  <2>4. CASE q \in Held
    BY <1>1, <2>1, <2>2, <2>4 DEF MarksAgree
  <2> QED
    BY <1>5, <2>3, <2>4
<1>13. GapLeavesPicture'
  BY <1>8 DEF GapLeavesPicture, Storing
<1>14. ListsRight'
  <2>1. pc' # "exit: too many reference frames" => ~TooManyRefs(fs_ref', fs_ltref')
    BY DEF Insert
  <2>2. update_ref_list /\ update_ltref_list
    BY DEF Insert
  <2> QED
    BY <2>1, <2>2 DEF ListsRight, update_ref_list, update_ltref_list
<1> QED
  BY <1>5, <1>10, <1>11, <1>12, <1>13, <1>14 DEF IInv

(* The next picture of the pool. *)
LEMMA NextPictureStep ==
  ASSUME IInv, NextPicture
  PROVE  IInv'
<1>1. StoreTyped /\ RestTyped
  BY Parts
<1>2. /\ UNCHANGED <<store, lists, cur, pre, last, mmco5>>
      /\ pc' \in {"idle", "next"} /\ (pc' = "idle" => pic'[offset'].empty) /\ pc = "next"
  BY DEF NextPicture, store
<1>3. StoreTyped' /\ Held' = Held
  BY <1>1, <1>2 DEF StoreTyped, store, Held
<1>4. RestTyped'
  <2>1. offset' \in Pool
    BY <1>1, SizeAssumption DEF NextPicture, Pool, RestTyped
  <2>2. header' \in [idr : BOOLEAN, num : FrameNums, noOutput : BOOLEAN]
    <3>1. header' = [NoHeader EXCEPT !.noOutput = header.noOutput] /\ header.noOutput \in BOOLEAN
      BY <1>1 DEF NextPicture, RestTyped
    <3>2. 0 \in FrameNums
      BY SizeAssumption DEF FrameNums
    <3> QED
      BY <3>1, <3>2 DEF NoHeader
  <2> QED
    BY <1>1, <1>2, <2>1, <2>2 DEF RestTyped, lists, Active
<1>5. TypeOK'
  BY <1>3, <1>4 DEF TypeOK, StoreTyped, RestTyped, PicType, SlotType
<1>6. SafeRecycling'
  BY <1>2, <1>3 DEF IInv, SafeRecycling, store, Storing
<1>7. MarksAgree' /\ GapLeavesPicture'
  BY <1>2, <1>3 DEF IInv, MarksAgree, GapLeavesPicture, store, Storing
<1>8. ListsRight'
  BY <1>2, <1>3 DEF IInv, ListsRight, store, lists, TooManyRefs
<1> QED
  BY <1>5, <1>6, <1>7, <1>8 DEF IInv

(* No references are not too many. *)
LEMMA NoneIsFew == ~TooManyRefs({}, {})
<1>1. Cardinality({}) = 0
  BY FS_EmptySet
<1> QED
  BY <1>1, SizeAssumption DEF TooManyRefs, max

(* The buffer of init_dpb(), at the start and for a new SPS. *)
LEMMA Fresh ==
  /\ [p \in Pictures |-> EmptyPicture] \in [Pictures -> PicType]
  /\ [p \in Pictures |-> EmptySlot] \in [Pictures -> SlotType]
  /\ << >> \in Seq(Pictures) /\ Len(<< >>) <= Size
  /\ NoPicture \in [frame : Pictures, gap : BOOLEAN, idr : BOOLEAN, noOutput : BOOLEAN,
                    adaptive : BOOLEAN, long : BOOLEAN, num : FrameNums, poc : Pocs]
  /\ NoHeader \in [idr : BOOLEAN, num : FrameNums, noOutput : BOOLEAN]
  /\ 0 \in Pool /\ 0 \in FrameNums /\ 0 \in Pictures
<1>1. 0 \in Pool /\ 0 \in FrameNums /\ 0 \in Pictures /\ 0 \in LongIdx /\ 0 \in Pocs /\ Size \in Nat
  BY SizeAssumption, PocAssumption, NameAssumption DEF Pool, FrameNums, Pictures
<1>2. EmptyPicture \in PicType /\ EmptySlot \in SlotType
  BY <1>1 DEF EmptyPicture, EmptySlot, PicType, SlotType
<1>3. << >> \in Seq(Pictures) /\ Len(<< >>) <= Size
  BY <1>1
<1> QED
  BY <1>1, <1>2, <1>3 DEF NoPicture, NoHeader

LEMMA InitDpbStep ==
  ASSUME IInv, init_dpb
  PROVE  IInv'
<1>1. RestTyped
  BY Parts
<1>2. /\ pic' = [p \in Pictures |-> EmptyPicture] /\ slot' = [p \in Pictures |-> EmptySlot]
      /\ fs' = << >> /\ fs_ref' = {} /\ fs_ltref' = {} /\ offset' = 0 /\ last' = INT_MIN
      /\ mmco5' = FALSE /\ pc' = "idle" /\ UNCHANGED <<cur, header, pre>>
  BY DEF init_dpb
<1>3. StoreTyped'
  BY <1>2, Fresh DEF StoreTyped
<1>4. RestTyped'
  BY <1>1, <1>2, Fresh DEF RestTyped, Active
<1>5. TypeOK'
  BY <1>3, <1>4 DEF TypeOK, StoreTyped, RestTyped, PicType, SlotType
<1>6. Held' = {}
  BY <1>2 DEF Held
<1>7. SafeRecycling'
  BY <1>2, <1>6, Fresh DEF SafeRecycling, Storing, EmptyPicture
<1>8. MarksAgree' /\ GapLeavesPicture'
  BY <1>2, <1>6 DEF MarksAgree, GapLeavesPicture, Storing
<1>9. ListsRight'
  BY <1>2, <1>6, NoneIsFew DEF ListsRight
<1> QED
  BY <1>5, <1>7, <1>8, <1>9 DEF IInv

(* The invariant holds at first. *)
LEMMA InitHolds == Init => IInv
<1> SUFFICES ASSUME Init
             PROVE  IInv
  OBVIOUS
<1>1. StoreTyped
  BY Fresh DEF Init, StoreTyped
<1>2. RestTyped
  BY Fresh DEF Init, RestTyped, Active
<1>3. TypeOK
  BY <1>1, <1>2, TypeSplit
<1>4. Held = {}
  BY DEF Init, Held
<1>5. SafeRecycling
  BY <1>4, Fresh DEF Init, SafeRecycling, Storing, EmptyPicture
<1>6. MarksAgree /\ GapLeavesPicture
  BY <1>4 DEF Init, MarksAgree, GapLeavesPicture, Storing
<1>7. ListsRight
  BY <1>4, NoneIsFew DEF Init, ListsRight
<1> QED
  BY <1>3, <1>5, <1>6, <1>7 DEF IInv

(* A step that changes nothing. *)
LEMMA Stutters == IInv /\ UNCHANGED vars => IInv'
  BY DEF IInv, TypeOK, SafeRecycling, MarksAgree, GapLeavesPicture, ListsRight, TooManyRefs, Held,
         vars, store, lists, image

(* Every step keeps the invariant. *)
LEMMA StepHolds == IInv /\ [Next]_vars => IInv'
<1> SUFFICES ASSUME IInv, [Next]_vars
             PROVE  IInv'
  OBVIOUS
<1>1. CASE Stream
  <2>1. CASE \E idr \in BOOLEAN, n \in FrameNums, noOutput \in NoOutput : SliceHeader(idr, n, noOutput)
    BY <2>1, SliceHeaderStep
  <2>2. CASE \E used \in BOOLEAN, adaptive \in Adaptive, long \in LongTerm, poc \in Pocs :
               init_picture(used, adaptive, long, poc)
    BY <2>2, InitPictureStep
  <2>3. CASE Command
    BY <2>3, MarkingSteps
  <2>4. CASE NewSps \/ EndOfStream
    BY <2>4, FlushingSteps
  <2> QED
    BY <1>1, <2>1, <2>2, <2>3, <2>4 DEF Stream
<1>2. CASE Decoder
  <2>1. CASE PicturesLost \/ StoreNonReference \/ StoreAdaptive \/ Mmco5Flushed \/ DuplicateFrameNum \/ EndFlushed
    BY <2>1, StillSteps
  <2>2. CASE FillGap
    BY <2>2, FillGapStep
  <2>3. CASE StoreIdr \/ MarkingEnds
    BY <2>3, FlushingSteps
  <2>4. CASE IdrFlushed
    BY <2>4, IdrFlushedStep
  <2>5. CASE sliding_window_memory_management
    BY <2>5, MarkingSteps
  <2>6. CASE FlushRemoves \/ FlushOutputs \/ RemoveUnused \/ OutputOne
    BY <2>6, ShrinkingSteps
  <2>7. CASE Insert
    BY <2>7, InsertStep
  <2>8. CASE NextPicture
    BY <2>8, NextPictureStep
  <2>9. CASE init_dpb
    BY <2>9, InitDpbStep
  <2> QED
    BY <1>2, <2>1, <2>2, <2>3, <2>4, <2>5, <2>6, <2>7, <2>8, <2>9 DEF Decoder
<1>3. CASE UNCHANGED vars
  BY <1>3, Stutters
<1> QED
  BY <1>1, <1>2, <1>3 DEF Next

-----------------------------------------------------------------------------
(* The theorems *)

LEMMA Inductive == Spec => []IInv
<1>1. Init => IInv
  BY InitHolds
<1>2. IInv /\ [Next]_vars => IInv'
  BY StepHolds
<1> QED
  BY <1>1, <1>2, PTL DEF Spec

(* The marks, the lists and the picture at hand always have their types: no   *)
(* more frame stores are used than there are, and picture_offset stays within *)
(* the pool.                                                                  *)
THEOREM TypeCorrect == Spec => []TypeOK
<1>1. IInv => TypeOK
  BY DEF IInv
<1> QED
  BY <1>1, Inductive, PTL

(* No picture that waits for output or may be referred to is overwritten: the *)
(* next one is decoded into a picture that is empty and not in the buffer.    *)
THEOREM Recycling == Spec => []SafeRecycling
<1>1. IInv => SafeRecycling
  BY DEF IInv
<1> QED
  BY <1>1, Inductive, PTL

(* The marks of a picture and those of its frame store agree, whatever order  *)
(* the commands come in.                                                      *)
THEOREM Marks == Spec => []MarksAgree
<1>1. IInv => MarksAgree
  BY DEF IInv
<1> QED
  BY <1>1, Inductive, PTL

(* Between pictures the reference lists are those of the buffer, within       *)
(* num_ref_frames, although commands 5 and 6 do not refresh one of them.      *)
THEOREM Lists == Spec => []ListsCurrent
<1>1. IInv => ListsCurrent
  BY DEF IInv, ListsRight, ListsCurrent
<1> QED
  BY <1>1, Inductive, PTL

-----------------------------------------------------------------------------
(* The pool, when the stream never drops the pictures of the buffer *)

PoolInv == PoolAccounted /\ ~header.noOutput /\ ~cur.noOutput

(* A tidy step loses no picture. *)
LEMMA TidyPool ==
  ASSUME PoolAccounted, Tidy, cur'.frame = cur.frame, pc \notin Exits,
         pc \in Storing => pc' \in Storing \cup Exits
  PROVE  PoolAccounted'
<1>1. Pool \subseteq Pictures
  BY DEF Pictures
<1> QED
  BY <1>1 DEF PoolAccounted, Tidy

(* The picture at hand stays at hand, until the decoder exits. *)
Onward == /\ cur'.frame = cur.frame /\ cur'.noOutput = cur.noOutput
          /\ header'.noOutput = header.noOutput
          /\ pc \notin Exits
          /\ pc \in Storing => pc' \in Storing \cup Exits

(* A tidy step keeps the pool accounted for. *)
LEMMA PoolQuiet == PoolInv /\ Tidy /\ Onward => PoolInv'
  BY TidyPool DEF PoolInv, Onward

(* So does every step of a stream that never drops the buffer. *)
LEMMA PoolStep ==
  ASSUME NoOutput = {FALSE}, IInv, PoolInv, [Next]_vars
  PROVE  PoolInv'
<1>0. StoreTyped /\ RestTyped /\ Pool \subseteq Pictures /\ offset \in Pictures
  BY Parts DEF Pictures
<1>1. ASSUME PicturesLost \/ StoreNonReference \/ StoreAdaptive \/ Mmco5Flushed \/ DuplicateFrameNum \/ EndFlushed
      PROVE  PoolInv'
  <2>1. Tidy
    BY <1>1, StillSteps
  <2>2. Onward
    <3>1. CASE PicturesLost
      BY <3>1 DEF PicturesLost, Onward, image, Storing, Exits
    <3>2. CASE StoreNonReference
      BY <3>2 DEF StoreNonReference, Onward, image, Storing, Exits
    <3>3. CASE StoreAdaptive
      BY <3>3 DEF StoreAdaptive, Onward, image, Storing, Exits
    <3>4. CASE Mmco5Flushed
      BY <3>4 DEF Mmco5Flushed, Onward, image, Storing, Exits
    <3>5. CASE DuplicateFrameNum
      BY <3>5 DEF DuplicateFrameNum, Onward, image, Storing, Exits
    <3>6. CASE EndFlushed
      BY <3>6 DEF EndFlushed, Onward, image, Storing, Exits
    <3> QED
      BY <1>1, <3>1, <3>2, <3>3, <3>4, <3>5, <3>6
  <2> QED
    BY <2>1, <2>2, PoolQuiet
<1>2. ASSUME StoreIdr \/ MarkingEnds \/ NewSps \/ EndOfStream
      PROVE  PoolInv'
  <2>1. Tidy
    BY <1>2, FlushingSteps DEF PoolInv
  <2>2. Onward
    <3>1. CASE StoreIdr
      BY <3>1 DEF StoreIdr, Flush, Onward, image, Storing, Exits
    <3>2. CASE MarkingEnds
      BY <1>0, <3>2 DEF RestTyped, MarkingEnds, Flush, Onward, image, Storing, Exits
    <3>3. CASE NewSps
      BY <3>3 DEF NewSps, Flush, Onward, image, Storing, Exits
    <3>4. CASE EndOfStream
      BY <3>4 DEF EndOfStream, Flush, Onward, image, Storing, Exits
    <3> QED
      BY <1>2, <3>1, <3>2, <3>3, <3>4
  <2> QED
    BY <2>1, <2>2, PoolQuiet
<1>3. ASSUME sliding_window_memory_management \/ Command
      PROVE  PoolInv'
  <2>1. Tidy
    BY <1>3, MarkingSteps
  <2>2. Onward
    <3>1. CASE sliding_window_memory_management
      BY <3>1 DEF sliding_window_memory_management, Onward, image, Storing, Exits
    <3>2. CASE Command
      BY <3>2 DEF Command, mm_unmark_short_term_for_reference,
                     mm_unmark_long_term_for_reference, mm_assign_long_term_frame_idx,
                     mm_update_max_long_term_frame_idx, UnmarkAll, mm_mark_current_picture_long_term, Marking, Onward, image, Storing, Exits
    <3> QED
      BY <1>3, <3>1, <3>2
  <2> QED
    BY <2>1, <2>2, PoolQuiet
<1>4. ASSUME FlushRemoves \/ FlushOutputs \/ RemoveUnused \/ OutputOne
      PROVE  PoolInv'
  <2>1. Tidy
    BY <1>4, ShrinkingSteps
  <2>2. Onward
    <3>1. CASE FlushRemoves
      BY <3>1 DEF FlushRemoves, Flushing, Onward, image, Storing, Exits
    <3>2. CASE FlushOutputs
      BY <3>2 DEF FlushOutputs, output_one_frame_from_dpb, Flushing, Onward, image, Storing, Exits
    <3>3. CASE RemoveUnused
      BY <3>3 DEF RemoveUnused, Onward, image, Storing, Exits
    <3>4. CASE OutputOne
      BY <3>4 DEF OutputOne, output_one_frame_from_dpb, Onward, image, Storing, Exits
    <3> QED
      BY <1>4, <3>1, <3>2, <3>3, <3>4
  <2> QED
    BY <2>1, <2>2, PoolQuiet
<1>5. ASSUME IdrFlushed
      PROVE  PoolInv'
  <2>1. Tidy
    BY <1>5, IdrFlushedStep
  <2>2. Onward
    <3>1. CASE IdrFlushed
      BY <3>1 DEF IdrFlushed, Onward, image, Storing, Exits
    <3> QED
      BY <1>5, <3>1
  <2> QED
    BY <2>1, <2>2, PoolQuiet
<1>6. ASSUME NEW idr \in BOOLEAN, NEW n \in FrameNums, NEW noOutput \in NoOutput,
             SliceHeader(idr, n, noOutput)
      PROVE  PoolInv'
  <2>1. UNCHANGED <<pic, fs, cur>> /\ pc = "idle" /\ pc' = "header" /\ ~header'.noOutput
    BY <1>6 DEF SliceHeader, store
  <2>2. Held' = Held
    BY <2>1 DEF Held
  <2> QED
    BY <2>1, <2>2 DEF PoolInv, PoolAccounted, Storing, Exits
<1>7. ASSUME FillGap
      PROVE  PoolInv'
  <2>1. PICK p \in Gaps \ Held :
          /\ cur' = [NoPicture EXCEPT !.frame = p, !.gap = TRUE, !.num = After(pre)]
          /\ pic' = [pic EXCEPT ![p] = [EmptyPicture EXCEPT !.used = TRUE, !.empty = FALSE]]
    BY <1>7 DEF FillGap
  <2>2. ~cur'.noOutput
    BY <2>1 DEF NoPicture
  <2>3. p \in Pictures /\ p \notin Pool
    BY NameAssumption DEF Pictures
  <2>4. \A q \in Pool : pic'[q] = pic[q]
    BY <1>0, <2>1, <2>3 DEF StoreTyped
  <2>5. fs' = fs /\ header' = header /\ pc = "header"
    BY <1>7 DEF FillGap
  <2>6. Held' = Held
    BY <2>5 DEF Held
  <2> QED
    BY <2>2, <2>4, <2>5, <2>6 DEF PoolInv, PoolAccounted, Storing, Exits
<1>8. ASSUME NEW used \in BOOLEAN, NEW adaptive \in Adaptive, NEW long \in LongTerm, NEW poc \in Pocs,
             init_picture(used, adaptive, long, poc)
      PROVE  PoolInv'
  <2>1. /\ pic' = [pic EXCEPT ![offset].empty = FALSE, ![offset].used = used]
        /\ cur' = [frame |-> offset, gap |-> FALSE, idr |-> header.idr, noOutput |-> header.noOutput,
                   adaptive |-> adaptive, long |-> long, num |-> header.num, poc |-> poc]
        /\ pc' = "store" /\ pc = "header" /\ fs' = fs /\ header' = header
    BY <1>8 DEF init_picture
  <2>2. cur'.frame = offset /\ ~cur'.noOutput
    BY <2>1 DEF PoolInv
  <2>3. \A q \in Pool : q # offset => pic'[q] = pic[q]
    BY <1>0, <2>1 DEF StoreTyped
  <2>4. Held' = Held
    BY <2>1 DEF Held
  <2> QED
    BY <2>1, <2>2, <2>3, <2>4 DEF PoolInv, PoolAccounted, Storing, Exits
<1>9. ASSUME Insert
      PROVE  PoolInv'
  <2>1. Held' = Held \cup {cur.frame}
    BY <1>9, InsertStep
  <2>2. pic' = pic /\ header' = header /\ cur' = NoPicture /\ pc = "output"
    BY <1>9 DEF Insert
  <2> QED
    BY <2>1, <2>2 DEF PoolInv, PoolAccounted, NoPicture, Exits
<1>10. ASSUME NextPicture
       PROVE  PoolInv'
  <2>1. UNCHANGED <<pic, fs, cur>> /\ pc = "next" /\ pc' \in {"idle", "next"}
        /\ header' = [NoHeader EXCEPT !.noOutput = header.noOutput]
    BY <1>10 DEF NextPicture, store
  <2>2. Held' = Held
    BY <2>1 DEF Held
  <2>3. ~header'.noOutput
    BY <2>1 DEF NoHeader, PoolInv
  <2> QED
    BY <2>1, <2>2, <2>3 DEF PoolInv, PoolAccounted, Storing, Exits
<1>11. ASSUME init_dpb
       PROVE  PoolInv'
  <2>1. pic' = [p \in Pictures |-> EmptyPicture] /\ UNCHANGED <<cur, header>>
    BY <1>11 DEF init_dpb
  <2> QED
    BY <1>0, <2>1 DEF PoolInv, PoolAccounted, EmptyPicture
<1>12. CASE UNCHANGED vars
  <2>1. UNCHANGED <<pic, fs, cur, header, pc>>
    BY <1>12 DEF vars, store, image
  <2>2. Held' = Held
    BY <2>1 DEF Held
  <2> QED
    BY <2>1, <2>2 DEF PoolInv, PoolAccounted
<1> QED
  BY <1>1, <1>2, <1>3, <1>4, <1>5, <1>6, <1>7, <1>8, <1>9, <1>10, <1>11, <1>12 DEF Next, Stream, Decoder

(* If every picture of the pool is accounted for, one is empty between        *)
(* pictures: there are not frame stores enough for all.                       *)
LEMMA OneLeft == IInv /\ PoolAccounted => EmptyPictureLeft
<1> SUFFICES ASSUME IInv, PoolAccounted, pc = "next", \A p \in Pool : ~pic[p].empty
             PROVE  FALSE
  BY DEF EmptyPictureLeft
<1>1. Pool \subseteq Held
  BY DEF PoolAccounted, Storing, Exits
<1>2. fs \in Seq(Pictures) /\ Len(fs) \in Nat /\ Len(fs) <= Size /\ Size \in Nat
  BY Parts, SizeAssumption DEF StoreTyped
<1> DEFINE I == 1 .. Len(fs)
           f == [k \in I |-> fs[k]]
<1>3. IsFiniteSet(I) /\ Cardinality(I) = Len(fs)
  <2>1. 1 \in Int /\ Len(fs) \in Int
    BY <1>2
  <2>2. /\ IsFiniteSet(1 .. Len(fs))
        /\ Cardinality(1 .. Len(fs)) = IF 1 > Len(fs) THEN 0 ELSE Len(fs) - 1 + 1
    BY <2>1, FS_Interval
  <2> QED
    BY <1>2, <2>2
<1>4. f \in Surjection(I, Held)
  BY DEF Surjection, Held
<1> HIDE DEF I, f
<1>5. IsFiniteSet(Held) /\ Cardinality(Held) <= Cardinality(I)
  BY <1>3, <1>4, FS_Surjection
<1>6. IsFiniteSet(Pool) /\ Cardinality(Pool) = Size + 1
  <2>1. IsFiniteSet(0 .. Size) /\ Cardinality(0 .. Size) = IF 0 > Size THEN 0 ELSE Size - 0 + 1
    BY <1>2, FS_Interval
  <2> QED
    BY <1>2, <2>1 DEF Pool
<1>7. Cardinality(Pool) <= Cardinality(Held)
  BY <1>1, <1>5, FS_Subset
<1>8. Cardinality(Held) \in Nat
  BY <1>5, FS_CardinalityType
<1> QED
  BY <1>2, <1>3, <1>5, <1>6, <1>7, <1>8

LEMMA PoolInductive == ASSUME NoOutput = {FALSE} PROVE Spec => []PoolInv
<1>1. Init => PoolInv
  <2> SUFFICES ASSUME Init
               PROVE  PoolInv
    OBVIOUS
  <2>1. Pool \subseteq Pictures
    BY DEF Pictures
  <2> QED
    BY <2>1 DEF Init, PoolInv, PoolAccounted, EmptyPicture, NoHeader, NoPicture
<1>2. IInv /\ PoolInv /\ [Next]_vars => PoolInv'
  BY PoolStep
<1> QED
  BY <1>1, <1>2, Inductive, PTL DEF Spec

(* Every picture of the pool that is not empty is held or at hand, if the     *)
(* stream never sets no_output_of_prior_pics_flag.                            *)
THEOREM Accounted == ASSUME NoOutput = {FALSE} PROVE Spec => []PoolAccounted
<1>1. PoolInv => PoolAccounted
  BY DEF PoolInv
<1> QED
  BY <1>1, PoolInductive, PTL

(* Under the same assumption the search of exit_picture() for an empty        *)
(* picture finds one. The run dpb_leak shows that the assumption is needed.   *)
THEOREM PoolSuffices == ASSUME NoOutput = {FALSE} PROVE Spec => []EmptyPictureLeft
<1>1. IInv /\ PoolInv => EmptyPictureLeft
  BY OneLeft DEF PoolInv
<1> QED
  BY <1>1, Inductive, PoolInductive, PTL

(* Under that assumption the whole pool is safe. *)
THEOREM PoolCorrect == ASSUME NoOutput = {FALSE} PROVE Spec => []PoolSafe
<1>1. SafeRecycling /\ PoolAccounted => PoolSafe
  BY DEF PoolSafe
<1> QED
  BY <1>1, Recycling, Accounted, PTL

(* Flags, marks and lists agree, whatever order the commands come in. *)
THEOREM MarkingCorrect == Spec => []MarkingRight
<1>1. MarksAgree /\ ListsCurrent => MarkingRight
  BY DEF MarkingRight
<1> QED
  BY <1>1, Marks, Lists, PTL

-----------------------------------------------------------------------------
(* What a step does to the pictures held: it marks them, empties the buffer   *)
(* at once, starts a sequence over in an empty buffer, removes a frame that   *)
(* was output and is not used, outputs one, or inserts the picture at hand.   *)

OnlyMarks == /\ fs' = fs /\ last' = last
             /\ \A p \in Held : slot'[p].out = slot[p].out /\ slot'[p].poc = slot[p].poc
             /\ \A p \in Held : pic'[p].used => pic[p].used
Drops == /\ pc' \in {"flush for idr", "flush for sps"} /\ fs' = << >> /\ last' = last
         /\ cur.noOutput \/ header.noOutput
StartsOver == /\ fs = << >> /\ fs' = << >> /\ last' = INT_MIN
              /\ Flushing
              /\ pc' \in {"full", "idle", "done"}
Removes == /\ \E p \in Unused : remove_frame_from_dpb(p)
           /\ last' = last /\ pc' \notin Exits
Outputs == /\ output_one_frame_from_dpb
           /\ \/ Flushing /\ fs # << >> /\ Unused = {}
              \/ pc = "output" /\ Len(fs) = Size

(* The first of the unused frames is one of them. *)
LEMMA UnusedRemoved ==
  ASSUME IInv, remove_unused_frame_from_dpb
  PROVE  \E p \in Unused : remove_frame_from_dpb(p)
<1>1. PICK q \in Held : q \in Unused
  BY DEF remove_unused_frame_from_dpb, Unused
<1>2. fs \in Seq(Pictures)
  BY Parts DEF StoreTyped
<1>3. First(Unused) \in Unused
  BY <1>1, <1>2, FirstHeld
<1> QED
  BY <1>3 DEF remove_unused_frame_from_dpb

(* The flags of a flush, which only marks; none of the frames is used after. *)
LEMMA FlushUnmarks ==
  ASSUME IInv, NEW then, Flush(then), fs' = fs
  PROVE  \A p \in Held' : ~pic'[p].used
<1>1. pic \in [Pictures -> PicType] /\ Held \subseteq Pictures /\ Held' = Held
  BY Parts DEF StoreTyped, Held
<1>2. \A p \in Held : pic'[p] = [pic[p] EXCEPT !.used = @ /\ p \notin Held]
  BY <1>1 DEF Flush, unmark_for_reference
<1>3. \A p \in Held : ~pic'[p].used
  BY <1>1, <1>2 DEF PicType
<1> QED
  BY <1>1, <1>3

(* Every step of the decoder is of one of these kinds. *)
LEMMA Kinds ==
  ASSUME IInv, [Next]_vars
  PROVE  OnlyMarks \/ Drops \/ StartsOver \/ Removes \/ Outputs \/ Insert
<1>0. /\ pic \in [Pictures -> PicType] /\ Held \subseteq Pictures /\ offset \in Pictures
  BY Parts DEF StoreTyped
<1>1. Remarks /\ last' = last => OnlyMarks
  BY DEF Remarks, OnlyMarks
<1>2. CASE Stream
  <2>1. ASSUME NEW idr \in BOOLEAN, NEW n \in FrameNums, NEW noOutput \in NoOutput,
               SliceHeader(idr, n, noOutput)
        PROVE  OnlyMarks
    BY <2>1 DEF SliceHeader, store, OnlyMarks
  <2>2. ASSUME NEW used \in BOOLEAN, NEW adaptive \in Adaptive, NEW long \in LongTerm, NEW poc \in Pocs,
               init_picture(used, adaptive, long, poc)
        PROVE  OnlyMarks
    <3>1. offset \notin Held
      BY <2>2 DEF init_picture, IInv, SafeRecycling
    <3>2. \A p \in Held : pic'[p] = pic[p]
      BY <1>0, <2>2, <3>1 DEF init_picture
    <3> QED
      BY <2>2, <3>2 DEF init_picture, OnlyMarks
  <2>3. CASE Command
    <3>1. last' = last
      BY <2>3 DEF Command, mm_unmark_short_term_for_reference,
                  mm_unmark_long_term_for_reference, mm_assign_long_term_frame_idx,
                  mm_update_max_long_term_frame_idx, UnmarkAll, mm_mark_current_picture_long_term,
                  Marking
    <3> QED
      BY <1>1, <2>3, <3>1, CommandRemarks
  <2>4. CASE NewSps
    <3>1. CASE header.noOutput
      BY <2>4, <3>1 DEF NewSps, Drops
    <3>2. CASE ~header.noOutput
      BY <1>1, <2>4, <3>2, FlushRemarks DEF NewSps
    <3> QED
      BY <3>1, <3>2
  <2>5. CASE EndOfStream
    BY <1>1, <2>5, FlushRemarks DEF EndOfStream
  <2> QED
    BY <1>2, <2>1, <2>2, <2>3, <2>4, <2>5 DEF Stream
<1>3. CASE Decoder
  <2>1. CASE PicturesLost \/ StoreNonReference \/ StoreAdaptive \/ DuplicateFrameNum
    BY <2>1 DEF PicturesLost, StoreNonReference, StoreAdaptive, DuplicateFrameNum, store, OnlyMarks
  <2>2. CASE FillGap
    <3>1. PICK q \in Gaps \ Held : pic' = [pic EXCEPT ![q] = [EmptyPicture EXCEPT !.used = TRUE, !.empty = FALSE]]
      BY <2>2 DEF FillGap
    <3>2. \A p \in Held : pic'[p] = pic[p]
      BY <1>0, <3>1
    <3> QED
      BY <2>2, <3>2 DEF FillGap, OnlyMarks
  <2>3. CASE StoreIdr
    <3>1. CASE cur.noOutput
      BY <2>3, <3>1 DEF StoreIdr, Drops
    <3>2. CASE ~cur.noOutput
      BY <1>1, <2>3, <3>2, FlushRemarks DEF StoreIdr
    <3> QED
      BY <3>1, <3>2
  <2>4. CASE MarkingEnds
    <3>1. CASE mmco5
      BY <1>1, <2>4, <3>1, FlushRemarks DEF MarkingEnds
    <3>2. CASE ~mmco5
      BY <2>4, <3>2 DEF MarkingEnds, OnlyMarks
    <3> QED
      BY <3>1, <3>2
  <2>5. CASE IdrFlushed \/ Mmco5Flushed \/ EndFlushed \/ init_dpb
    BY <2>5 DEF IdrFlushed, Mmco5Flushed, EndFlushed, init_dpb, StartsOver, Flushing, store
  <2>6. CASE sliding_window_memory_management
    BY <1>1, <2>6, CommandRemarks DEF sliding_window_memory_management
  <2>7. CASE FlushRemoves
    BY <2>7, UnusedRemoved DEF FlushRemoves, Flushing, Removes, Exits
  <2>8. CASE RemoveUnused
    <3>1. CASE UNCHANGED store
      BY <2>8, <3>1 DEF RemoveUnused, store, OnlyMarks
    <3>2. CASE remove_unused_frame_from_dpb
      BY <2>8, <3>2, UnusedRemoved DEF RemoveUnused, Removes, Exits
    <3> QED
      BY <2>8, <3>1, <3>2 DEF RemoveUnused
  <2>9. CASE FlushOutputs \/ OutputOne
    BY <2>9 DEF FlushOutputs, OutputOne, Outputs
  <2>10. CASE Insert
    BY <2>10
  <2>11. CASE NextPicture
    BY <2>11 DEF NextPicture, store, OnlyMarks
  <2> QED
    BY <1>3, <2>1, <2>2, <2>3, <2>4, <2>5, <2>6, <2>7, <2>8, <2>9, <2>10, <2>11 DEF Decoder
<1>4. CASE UNCHANGED vars
  BY <1>4 DEF vars, store, OnlyMarks
<1> QED
  BY <1>2, <1>3, <1>4 DEF Next

(* A picture leaves the buffer only when it is no reference and was written,  *)
(* or is written in the same step: unless the stream drops the pictures.      *)
THEOREM NoneLost == ASSUME NoOutput = {FALSE} PROVE Spec => KeepsReferences
<1>1. ASSUME IInv, PoolInv, [Next]_vars
      PROVE  [\A p \in Held \ Held' : /\ ~is_used_for_reference(p)
                                     /\ (slot[p].out \/ last' = slot[p].poc \/ pc' \in Exits)]_vars
  <2>0. StoreTyped /\ Distinct(fs) /\ Held \subseteq Pictures
    BY <1>1, Parts
  <2> SUFFICES ASSUME NEW p \in Held \ Held'
               PROVE  /\ ~is_used_for_reference(p)
                      /\ (slot[p].out \/ last' = slot[p].poc \/ pc' \in Exits)
    OBVIOUS
  <2>1. ASSUME NEW q \in Held, remove_frame_from_dpb(q)
        PROVE  p = q
    <3>1. fs' = Without(q) /\ RangeOf(Without(q)) = Held \ {q}
      BY <2>0, <2>1, WithoutOne DEF remove_frame_from_dpb, StoreTyped
    <3>2. Held' = Held \ {q}
      BY <3>1 DEF RangeOf, Held
    <3> QED
      BY <3>2
  <2>2. CASE OnlyMarks
    BY <2>2 DEF OnlyMarks, Held
  <2>3. CASE Drops
    BY <1>1, <2>3 DEF Drops, PoolInv
  <2>4. CASE StartsOver
    BY <2>4 DEF StartsOver, Held
  <2>5. CASE Removes
    BY <2>1, <2>5 DEF Removes, Unused
  <2>6. CASE Outputs
    <3>1. Waiting # {}
      BY <2>6 DEF Outputs, output_one_frame_from_dpb, store, Held
    <3>2. Smallest \in Held
      BY <2>0, <3>1, SmallestWaits
    <3>3. ~is_used_for_reference(Smallest) /\ remove_frame_from_dpb(Smallest)
      BY <2>6, <3>1 DEF Outputs, output_one_frame_from_dpb, Held
    <3>4. p = Smallest
      BY <2>1, <3>2, <3>3
    <3>5. last' = slot[Smallest].poc \/ pc' \in Exits
      BY <2>6, <3>1 DEF Outputs, output_one_frame_from_dpb, Exits
    <3> QED
      BY <3>3, <3>4, <3>5
  <2>7. CASE Insert
    BY <1>1, <2>7, InsertStep
  <2> QED
    BY <1>1, <2>2, <2>3, <2>4, <2>5, <2>6, <2>7, Kinds
<1> QED
  BY <1>1, Inductive, PoolInductive, PTL DEF Spec, KeepsReferences

-----------------------------------------------------------------------------
(* The buffer writes as PictureOutput says.                                    *)

Waits == {<<p, slot[p].poc>> : p \in Waiting}

(* A decoder that has exited does nothing. *)
LEMMA Stopped ==
  ASSUME [Next]_vars, pc \in Exits
  PROVE  UNCHANGED vars
<1>1. pc \notin Active
  BY DEF Exits, Active, Storing
<1>2. ~Command
  BY <1>1 DEF Command, mm_unmark_short_term_for_reference,
              mm_unmark_long_term_for_reference, mm_assign_long_term_frame_idx,
              mm_update_max_long_term_frame_idx, UnmarkAll, mm_mark_current_picture_long_term,
              Marking, Active, Storing
<1>3. ~Stream
  BY <1>1, <1>2 DEF Stream, SliceHeader, init_picture, NewSps, EndOfStream, Active
<1>4. ~Decoder
  BY <1>1 DEF Decoder, PicturesLost, FillGap, StoreIdr, IdrFlushed, StoreNonReference,
              sliding_window_memory_management, StoreAdaptive, MarkingEnds, Mmco5Flushed,
              FlushRemoves, FlushOutputs, Flushing, RemoveUnused, OutputOne, DuplicateFrameNum,
              Insert, NextPicture, init_dpb, EndFlushed, Active, Storing
<1> QED
  BY <1>3, <1>4 DEF Next

(* Those that wait when a frame is removed. *)
LEMMA WaitsRemoved ==
  ASSUME IInv, NEW p \in Held, remove_frame_from_dpb(p)
  PROVE  Waits' = Waits \ {<<p, slot[p].poc>>} /\ Waiting' = Waiting \ {p}
<1>0. StoreTyped /\ Distinct(fs) /\ Held \subseteq Pictures
  BY Parts
<1>1. fs' = Without(p) /\ RangeOf(Without(p)) = Held \ {p}
  BY <1>0, WithoutOne DEF remove_frame_from_dpb, StoreTyped
<1>2. Held' = Held \ {p}
  BY <1>1 DEF RangeOf, Held
<1>3. \A q \in Held : q # p => slot'[q] = slot[q]
  BY <1>0 DEF remove_frame_from_dpb, StoreTyped
<1>4. Waiting' = Waiting \ {p}
  BY <1>2, <1>3 DEF Waiting
<1>5. \A q \in Waiting : q \in Held
  BY DEF Waiting
<1> QED
  BY <1>3, <1>4, <1>5 DEF Waits

(* What the abstract machine sees of each kind of step. *)
LEMMA MarksSeen ==
  ASSUME OnlyMarks
  PROVE  Waits' = Waits /\ last' = last
<1>1. Held' = Held /\ \A p \in Held : slot'[p].out = slot[p].out /\ slot'[p].poc = slot[p].poc
  BY DEF OnlyMarks, Held
<1>2. Waiting' = Waiting
  BY <1>1 DEF Waiting
<1>3. \A p \in Waiting : slot'[p].poc = slot[p].poc
  BY <1>1 DEF Waiting
<1> QED
  BY <1>2, <1>3 DEF Waits, OnlyMarks

LEMMA OutputSeen ==
  ASSUME IInv, Outputs, Waiting # {}
  PROVE  \E w \in Waits : /\ \A v \in Waits : w[2] <= v[2]
                          /\ Waits' = Waits \ {w}
                          /\ IF last < w[2] THEN last' = w[2] /\ pc' = pc
                                            ELSE last' = last /\ pc' \in Exits
<1> DEFINE p == Smallest
           w == <<p, slot[p].poc>>
<1>0. StoreTyped /\ RestTyped /\ Held \subseteq Pictures
  BY Parts
<1>1. p \in Waiting /\ p \in Held /\ \A q \in Waiting : slot[p].poc <= slot[q].poc
  BY <1>0, SmallestWaits
<1>2. slot[p].poc \in Pocs /\ last \in Pocs \cup {INT_MIN}
  BY <1>0, <1>1 DEF StoreTyped, RestTyped, SlotType
<1>3. slot[p].poc \in Int /\ last \in Int
  BY <1>2, PocAssumption
<1>4. /\ \/ last >= slot[p].poc /\ pc' \in Exits /\ last' = last
         \/ ~(last >= slot[p].poc) /\ pc' = pc /\ last' = slot[p].poc
      /\ IF is_used_for_reference(p)
           THEN slot' = [slot EXCEPT ![p].out = TRUE] /\ UNCHANGED <<pic, fs>>
           ELSE remove_frame_from_dpb(p)
  BY DEF Outputs, output_one_frame_from_dpb, Exits
<1>5. Waits' = Waits \ {w}
  <2>1. CASE is_used_for_reference(p)
    <3>1. Held' = Held /\ slot' = [slot EXCEPT ![p].out = TRUE]
      BY <1>4, <2>1 DEF Held
    <3>2. slot'[p].out /\ \A q \in Held : q # p => slot'[q] = slot[q]
      BY <1>0, <1>1, <3>1 DEF StoreTyped, SlotType
    <3>3. Waiting' = Waiting \ {p}
      BY <3>1, <3>2 DEF Waiting
    <3>4. \A q \in Waiting : q \in Held
      BY DEF Waiting
    <3> QED
      BY <3>2, <3>3, <3>4 DEF Waits
  <2>2. CASE ~is_used_for_reference(p)
    BY <1>1, <1>4, <2>2, WaitsRemoved
  <2> QED
    BY <2>1, <2>2
<1>6. w \in Waits /\ \A v \in Waits : w[2] <= v[2]
  BY <1>1 DEF Waits
<1>7. IF last < w[2] THEN last' = w[2] /\ pc' = pc ELSE last' = last /\ pc' \in Exits
  <2>1. w[2] = slot[p].poc
    OBVIOUS
  <2> HIDE DEF w
  <2>2. last >= slot[p].poc <=> ~(last < w[2])
    BY <1>3, <2>1
  <2> QED
    BY <1>4, <2>1, <2>2
<1> QED
  BY <1>5, <1>6, <1>7

LEMMA InsertSeen ==
  ASSUME IInv, Insert
  PROVE  /\ cur.frame \in Pictures /\ cur.poc \in Pocs /\ \A w \in Waits : w[1] # cur.frame
         /\ Waits' = IF cur.gap THEN Waits ELSE Waits \cup {<<cur.frame, cur.poc>>}
         /\ last' = last
<1>0. StoreTyped /\ RestTyped /\ Held \subseteq Pictures /\ cur.frame \in Pictures /\ cur.frame \notin Held
  BY Parts DEF Insert, Storing
<1>1. Held' = Held \cup {cur.frame}
  BY InsertStep
<1>2. /\ \A q \in Held : slot'[q] = slot[q]
      /\ slot'[cur.frame].out = cur.gap /\ slot'[cur.frame].poc = cur.poc
  BY <1>0 DEF Insert, StoreTyped
<1>3. Waiting' = IF cur.gap THEN Waiting ELSE Waiting \cup {cur.frame}
  BY <1>0, <1>1, <1>2 DEF Waiting
<1>4. Waiting \subseteq Held
  BY DEF Waiting
<1>5. Waits' = IF cur.gap THEN Waits ELSE Waits \cup {<<cur.frame, cur.poc>>}
  <2>1. CASE cur.gap
    BY <1>2, <1>3, <1>4, <2>1 DEF Waits
  <2>2. CASE ~cur.gap
    <3>1. Waits' = {<<p, slot'[p].poc>> : p \in Waiting \cup {cur.frame}}
      BY <1>3, <2>2 DEF Waits
    <3> QED
      BY <1>2, <1>4, <2>2, <3>1 DEF Waits
  <2> QED
    BY <2>1, <2>2
<1>6. cur.poc \in Pocs /\ \A w \in Waits : w[1] # cur.frame
  BY <1>0, <1>4 DEF RestTyped, Waits
<1> QED
  BY <1>0, <1>5, <1>6 DEF Insert

(* Every step of the decoder is one of the abstract machine, or none. *)
LEMMA OutputStep ==
  ASSUME IInv, PoolInv, [Next]_vars
  PROVE  [Output!Next]_Output!vars
<1> DEFINE running == pc \notin Exits
<1>0. Waits = {<<p, slot[p].poc>> : p \in Waiting}
  BY DEF Waits
<1>1. ASSUME Waits' = Waits, last' = last, running' = running
      PROVE  UNCHANGED Output!vars
  BY <1>1 DEF Output!vars, Waits
<1>2. ASSUME Waits' = Waits, last' = last, running, ~running'
      PROVE  Output!Next
  BY <1>2 DEF Output!Next, Output!Stop, Waits
<1>3. CASE pc \in Exits
  BY <1>1, <1>3, Stopped DEF vars, store, Waits, Waiting, Held
<1>4. CASE running
  <2>1. CASE OnlyMarks
    BY <1>1, <1>2, <1>4, <2>1, MarksSeen
  <2>2. CASE Drops
    BY <2>2 DEF Drops, PoolInv
  <2>3. CASE StartsOver
    <3>1. Waits = {} /\ Waits' = {} /\ last' = INT_MIN
      BY <2>3 DEF StartsOver, Waits, Waiting, Held
    <3>2. running'
      BY <2>3 DEF StartsOver, Exits
    <3> QED
      BY <1>4, <3>1, <3>2 DEF Output!Next, Output!NewSequence, Waits
  <2>4. CASE Removes
    <3>1. PICK p \in Unused : remove_frame_from_dpb(p)
      BY <2>4 DEF Removes
    <3>2. p \in Held /\ <<p, slot[p].poc>> \notin Waits
      BY <3>1 DEF Unused, Waits, Waiting
    <3>3. Waits' = Waits
      BY <3>1, <3>2, WaitsRemoved
    <3> QED
      BY <1>1, <1>4, <2>4, <3>3 DEF Removes
  <2>5. CASE Outputs
    <3>1. CASE Waiting = {}
      <4>1. UNCHANGED store /\ last' = last /\ pc' \in Exits
        BY <2>5, <3>1 DEF Outputs, output_one_frame_from_dpb, Exits
      <4>2. Waits' = Waits
        BY <4>1 DEF store, Waits, Waiting, Held
      <4> QED
        BY <1>2, <1>4, <4>1, <4>2
    <3>2. CASE Waiting # {}
      <4>1. PICK w \in Waits : /\ \A v \in Waits : w[2] <= v[2]
                               /\ Waits' = Waits \ {w}
                               /\ IF last < w[2] THEN last' = w[2] /\ pc' = pc
                                                 ELSE last' = last /\ pc' \in Exits
        BY <2>5, <3>2, OutputSeen
      <4>2. Output!Write(w)
        BY <1>4, <4>1 DEF Output!Write, Waits
      <4> QED
        BY <4>1, <4>2 DEF Output!Next, Waits
    <3> QED
      BY <3>1, <3>2
  <2>6. CASE Insert
    <3>1. /\ cur.frame \in Pictures /\ cur.poc \in Pocs /\ \A w \in Waits : w[1] # cur.frame
          /\ Waits' = IF cur.gap THEN Waits ELSE Waits \cup {<<cur.frame, cur.poc>>}
          /\ last' = last
      BY <2>6, InsertSeen
    <3>2. CASE cur.gap
      BY <1>1, <1>2, <1>4, <3>1, <3>2
    <3>3. CASE ~cur.gap
      <4>1. PICK p \in Pictures, n \in Pocs : p = cur.frame /\ n = cur.poc
        BY <3>1
      <4>2. Output!Store(p, n)
        BY <1>4, <3>1, <3>3, <4>1 DEF Output!Store, Waits
      <4> QED
        BY <4>2 DEF Output!Next
    <3> QED
      BY <3>2, <3>3
  <2> QED
    BY <2>1, <2>2, <2>3, <2>4, <2>5, <2>6, Kinds
<1> QED
  BY <1>3, <1>4

(* Every picture stored, but those that fill gaps, is written once, in the     *)
(* order of their counts, all of a sequence before the next one starts: the    *)
(* buffer implements PictureOutput, unless the stream drops the pictures.      *)
THEOREM WritesOrderly == ASSUME NoOutput = {FALSE} PROVE Spec => WritesInOrder
<1>1. Init => Output!Init
  <2> SUFFICES ASSUME Init
               PROVE  Output!Init
    OBVIOUS
  <2>1. fs = << >> /\ last = INT_MIN /\ pc = "idle"
    BY DEF Init
  <2>2. Waiting = {}
    BY <2>1 DEF Waiting, Held
  <2>3. pc \notin Exits
    BY <2>1 DEF Exits
  <2> QED
    BY <2>1, <2>2, <2>3 DEF Output!Init
<1> QED
  BY <1>1, OutputStep, Inductive, PoolInductive, PTL DEF Spec, WritesInOrder, Output!Spec

-----------------------------------------------------------------------------
(* The references held, their number, and the room they leave.                 *)

RefsHeld == {p \in Held : pic[p].used}

(* The buffer holds as many pictures as it has frame stores in use. *)
LEMMA HeldCounted ==
  ASSUME StoreTyped, Distinct(fs)
  PROVE  IsFiniteSet(Held) /\ Cardinality(Held) = Len(fs)
<1>1. Len(fs) \in Nat
  BY LenProperties DEF StoreTyped
<1> DEFINE I == 1 .. Len(fs)
           f == [k \in I |-> fs[k]]
<1>2. IsFiniteSet(I) /\ Cardinality(I) = Len(fs)
  <2>1. 1 \in Int /\ Len(fs) \in Int
    BY <1>1
  <2>2. /\ IsFiniteSet(1 .. Len(fs))
        /\ Cardinality(1 .. Len(fs)) = IF 1 > Len(fs) THEN 0 ELSE Len(fs) - 1 + 1
    BY <2>1, FS_Interval
  <2> QED
    BY <1>1, <2>2
<1>3. f \in Surjection(I, Held)
  BY DEF Surjection, Held
<1>4. f \in Injection(I, Held)
  BY DEF Injection, IsInjective, Held, Distinct
<1> HIDE DEF I, f
<1> QED
  BY <1>2, <1>3, <1>4, FS_Surjection

LEMMA RefsFinite ==
  IInv => IsFiniteSet(Held) /\ IsFiniteSet(RefsHeld) /\ Cardinality(RefsHeld) \in Nat
<1> SUFFICES ASSUME IInv
             PROVE  IsFiniteSet(Held) /\ IsFiniteSet(RefsHeld) /\ Cardinality(RefsHeld) \in Nat
  OBVIOUS
<1>1. IsFiniteSet(Held) /\ RefsHeld \in SUBSET Held
  BY Parts, HeldCounted DEF RefsHeld
<1> QED
  BY <1>1, FS_Subset, FS_CardinalityType

(* Only the insertion of a picture adds to the references held. *)
LEMMA RefsShrink ==
  ASSUME IInv, [Next]_vars, ~Insert
  PROVE  Held' \subseteq Held /\ RefsHeld' \subseteq RefsHeld
<1>0. StoreTyped /\ RestTyped /\ Distinct(fs) /\ Held \subseteq Pictures
  BY Parts
<1>1. CASE OnlyMarks
  BY <1>1 DEF OnlyMarks, RefsHeld, Held
<1>2. CASE Drops \/ StartsOver
  <2>1. Held' = {}
    BY <1>2, EmptyHeld DEF Drops, StartsOver
  <2> QED
    BY <2>1 DEF RefsHeld
<1>3. CASE Removes \/ Outputs
  <2>1. Shrinks
    BY <1>0, <1>3, RemovalShrinks, OutputShrinks DEF Removes, Outputs, Unused
  <2> QED
    BY <1>0, <2>1 DEF Shrinks, RefsHeld
<1> QED
  BY <1>1, <1>2, <1>3, Kinds

(* check_num_ref() counts them. *)
LEMMA RefsInserted ==
  ASSUME IInv, Insert, pc' \notin Exits
  PROVE  Cardinality(RefsHeld') <= max(1, NumRefFrames)
<1>1. IInv'
  BY InsertStep
<1>2. pc' \in {"idle", "header", "next"}
  BY DEF Insert, Exits
<1>3. /\ fs_ref' = {p \in Held' : pic'[p].used /\ ~pic'[p].long}
      /\ fs_ltref' = {p \in Held' : pic'[p].used /\ pic'[p].long}
      /\ ~TooManyRefs(fs_ref', fs_ltref')
  BY <1>1, <1>2 DEF IInv, ListsRight
<1>4. IsFiniteSet(Held')
  BY RefsFinite, InsertStep, FS_AddElement
<1>5. /\ IsFiniteSet(fs_ref') /\ IsFiniteSet(fs_ltref')
      /\ Cardinality(fs_ref') \in Nat /\ Cardinality(fs_ltref') \in Nat
  <2>1. fs_ref' \in SUBSET Held' /\ fs_ltref' \in SUBSET Held'
    BY <1>3
  <2> QED
    BY <1>4, <2>1, FS_Subset, FS_CardinalityType
<1>6. RefsHeld' = fs_ref' \cup fs_ltref' /\ fs_ref' \cap fs_ltref' = {}
  BY <1>3 DEF RefsHeld
<1>7. Cardinality(RefsHeld') = Cardinality(fs_ref') + Cardinality(fs_ltref') - Cardinality({})
  BY <1>5, <1>6, FS_Union
<1>8. Cardinality({}) = 0
  BY FS_EmptySet
<1>9. max(1, NumRefFrames) \in Int
  BY SizeAssumption DEF max
<1> QED
  BY <1>3, <1>5, <1>7, <1>8, <1>9 DEF TooManyRefs

(* The references held are no more than the SPS allows; a flush has unmarked   *)
(* all frames; before one is output, none is unused; and so one waits.         *)
RefsFew == pc \notin Exits => Cardinality(RefsHeld) <= max(1, NumRefFrames)
FlushInv == Flushing => RefsHeld = {}
RoomMade == pc = "output" /\ Len(fs) = Size => Unused = {}
RoomInv == RefsFew /\ FlushInv /\ RoomMade /\ OutputMakesRoom

LEMMA RefsFewStep ==
  ASSUME IInv, RefsFew, [Next]_vars
  PROVE  RefsFew'
<1> SUFFICES ASSUME pc' \notin Exits
             PROVE  Cardinality(RefsHeld') <= max(1, NumRefFrames)
  BY DEF RefsFew
<1>1. CASE Insert
  BY <1>1, RefsInserted
<1>2. CASE ~Insert
  <2>1. RefsHeld' \in SUBSET RefsHeld
    BY <1>2, RefsShrink
  <2>2. IsFiniteSet(RefsHeld) /\ Cardinality(RefsHeld) \in Nat
    BY RefsFinite
  <2>3. /\ IsFiniteSet(RefsHeld') /\ Cardinality(RefsHeld') <= Cardinality(RefsHeld)
        /\ Cardinality(RefsHeld') \in Nat
    BY <2>1, <2>2, FS_Subset, FS_CardinalityType
  <2>4. pc \notin Exits
    BY Stopped DEF vars
  <2>5. max(1, NumRefFrames) \in Int
    BY SizeAssumption DEF max
  <2> QED
    BY <2>2, <2>3, <2>4, <2>5 DEF RefsFew
<1> QED
  BY <1>1, <1>2

LEMMA FlushStep ==
  ASSUME IInv, FlushInv, [Next]_vars
  PROVE  FlushInv'
<1> SUFFICES ASSUME Flushing'
             PROVE  RefsHeld' = {}
  BY DEF FlushInv
<1>1. ~Insert
  BY DEF Insert, Flushing
<1>2. CASE Flushing
  BY <1>1, <1>2, RefsShrink DEF FlushInv
<1>3. CASE ~Flushing
  <2>1. StoreIdr \/ MarkingEnds \/ NewSps \/ EndOfStream
    <3>1. ~Command
      BY <1>3 DEF Command, mm_unmark_short_term_for_reference,
                  mm_unmark_long_term_for_reference, mm_assign_long_term_frame_idx,
                  mm_update_max_long_term_frame_idx, UnmarkAll, mm_mark_current_picture_long_term,
                  Marking, Flushing
    <3>2. Stream => NewSps \/ EndOfStream
      BY <3>1 DEF Stream, SliceHeader, init_picture, Flushing
    <3>3. Decoder => StoreIdr \/ MarkingEnds
      BY <1>1, <1>3 DEF Decoder, PicturesLost, FillGap, IdrFlushed, StoreNonReference,
                  sliding_window_memory_management, StoreAdaptive, Mmco5Flushed,
                  FlushRemoves, FlushOutputs, RemoveUnused, OutputOne, DuplicateFrameNum,
                  output_one_frame_from_dpb, NextPicture, init_dpb, EndFlushed, Flushing
    <3> QED
      BY <1>3, <3>2, <3>3 DEF Next, vars, Flushing
  <2>2. fs' = << >> \/ ((\E then : Flush(then)) /\ fs' = fs)
    BY <2>1 DEF StoreIdr, MarkingEnds, NewSps, EndOfStream, Flushing
  <2> QED
    BY <2>2, FlushUnmarks DEF RefsHeld, Held
<1> QED
  BY <1>2, <1>3

LEMMA RoomMadeStep ==
  ASSUME IInv, RoomMade, [Next]_vars
  PROVE  RoomMade'
<1> SUFFICES ASSUME pc' = "output", Len(fs') = Size
             PROVE  Unused' = {}
  BY DEF RoomMade
<1>0. StoreTyped /\ RestTyped /\ Distinct(fs) /\ Held \subseteq Pictures /\ Len(fs) \in Nat /\ Size \in Nat
  BY Parts, LenProperties, SizeAssumption DEF StoreTyped
<1>1. ASSUME NEW p \in Held, remove_frame_from_dpb(p)
      PROVE  FALSE
  BY <1>0, <1>1, WithoutOne DEF remove_frame_from_dpb, StoreTyped
<1>2. CASE UNCHANGED vars
  BY <1>2 DEF RoomMade, vars, store, Unused, is_used_for_reference, Held
<1>3. CASE RemoveUnused
  <2>1. CASE Len(fs) = Size /\ Unused # {}
    BY <1>1, <1>3, <2>1, UnusedRemoved DEF RemoveUnused, Unused
  <2>2. CASE ~(Len(fs) = Size /\ Unused # {})
    BY <1>3, <2>2 DEF RemoveUnused, store, Unused, is_used_for_reference, Held
  <2> QED
    BY <2>1, <2>2
<1>4. CASE OutputOne
  <2>1. Waiting # {}
    BY <1>4 DEF OutputOne, output_one_frame_from_dpb
  <2>2. Smallest \in Held
    BY <1>0, <2>1, SmallestWaits
  <2>3. is_used_for_reference(Smallest) /\ slot' = [slot EXCEPT ![Smallest].out = TRUE] /\ UNCHANGED <<pic, fs>>
    BY <1>1, <1>4, <2>1, <2>2 DEF OutputOne, output_one_frame_from_dpb
  <2>4. Unused = {}
    BY <1>4 DEF OutputOne, RoomMade
  <2>5. Held' = Held
    BY <2>3 DEF Held
  <2>6. \A p \in Held : p # Smallest => slot'[p] = slot[p]
    BY <1>0, <2>3 DEF StoreTyped
  <2>7. slot'[Smallest].ref = slot[Smallest].ref
    BY <1>0, <2>2, <2>3 DEF StoreTyped, SlotType
  <2> QED
    BY <2>3, <2>4, <2>5, <2>6, <2>7 DEF Unused, is_used_for_reference
<1>5. RemoveUnused \/ OutputOne \/ UNCHANGED vars
  <2>1. ~Command
    BY DEF Command, mm_unmark_short_term_for_reference,
           mm_unmark_long_term_for_reference, mm_assign_long_term_frame_idx,
           mm_update_max_long_term_frame_idx, UnmarkAll, mm_mark_current_picture_long_term,
           Marking
  <2>2. ~Stream
    BY <2>1 DEF Stream, SliceHeader, init_picture, NewSps, EndOfStream, Flush
  <2>3. Decoder => RemoveUnused \/ OutputOne
    BY DEF Decoder, PicturesLost, FillGap, StoreIdr, Flush, IdrFlushed, StoreNonReference,
           sliding_window_memory_management, StoreAdaptive, MarkingEnds, Mmco5Flushed,
           FlushRemoves, FlushOutputs, Flushing, DuplicateFrameNum, output_one_frame_from_dpb,
           Insert, NextPicture, init_dpb, EndFlushed
  <2> QED
    BY <2>2, <2>3 DEF Next
<1> QED
  BY <1>2, <1>3, <1>4, <1>5

(* Only when no frame waits does the decoder exit for want of one. *)
LEMMA ExitsForWant ==
  ASSUME OutputMakesRoom, [Next]_vars, ~OutputMakesRoom'
  PROVE  Waiting = {} /\ (FlushOutputs \/ OutputOne)
<1>1. ~UNCHANGED vars
  BY DEF vars, OutputMakesRoom
<1>2. ~Command
  BY DEF Command, mm_unmark_short_term_for_reference, OutputMakesRoom,
         mm_unmark_long_term_for_reference, mm_assign_long_term_frame_idx,
         mm_update_max_long_term_frame_idx, UnmarkAll, mm_mark_current_picture_long_term,
         Marking
<1>3. ~Stream
  BY <1>2 DEF Stream, SliceHeader, init_picture, NewSps, EndOfStream, Flush, OutputMakesRoom
<1>4. Decoder => FlushOutputs \/ OutputOne
  BY DEF Decoder, PicturesLost, FillGap, StoreIdr, Flush, IdrFlushed, StoreNonReference,
         sliding_window_memory_management, StoreAdaptive, MarkingEnds, Mmco5Flushed,
         FlushRemoves, RemoveUnused, DuplicateFrameNum,
         Insert, NextPicture, init_dpb, EndFlushed, OutputMakesRoom
<1>5. FlushOutputs \/ OutputOne
  BY <1>1, <1>3, <1>4 DEF Next
<1>6. Waiting = {}
  BY <1>5 DEF FlushOutputs, OutputOne, output_one_frame_from_dpb, OutputMakesRoom
<1> QED
  BY <1>5, <1>6

LEMMA RoomStep ==
  ASSUME max(1, NumRefFrames) < Size, IInv, RoomInv, [Next]_vars
  PROVE  RoomInv'
<1>0. StoreTyped /\ Distinct(fs) /\ Held \subseteq Pictures
  BY Parts
<1>1. RefsFew' /\ FlushInv' /\ RoomMade'
  BY RefsFewStep, FlushStep, RoomMadeStep DEF RoomInv
<1>2. ASSUME ~OutputMakesRoom' PROVE FALSE
  <2>1. Waiting = {} /\ (FlushOutputs \/ OutputOne)
    BY <1>2, ExitsForWant DEF RoomInv
  <2>2. \A p \in Held : is_used_for_reference(p) => p \in RefsHeld
    BY DEF IInv, MarksAgree, is_used_for_reference, RefsHeld
  <2>3. \A p \in Held : slot[p].out
    BY <2>1 DEF Waiting
  <2>4. CASE FlushOutputs
    <3>1. fs # << >> /\ Unused = {} /\ RefsHeld = {}
      BY <2>4 DEF FlushOutputs, RoomInv, FlushInv
    <3>2. Held # {}
      <4>1. Len(fs) \in Nat /\ Len(fs) # 0
        BY <1>0, <3>1, LenProperties, EmptySeq DEF StoreTyped
      <4>2. 1 \in 1 .. Len(fs)
        BY <4>1
      <4> QED
        BY <4>2 DEF Held
    <3> QED
      BY <2>2, <2>3, <3>1, <3>2 DEF Unused
  <2>5. CASE OutputOne
    <3>1. pc = "output" /\ Len(fs) = Size
      BY <2>5 DEF OutputOne
    <3>2. Unused = {} /\ pc \notin Exits
      BY <3>1 DEF RoomInv, RoomMade, Exits
    <3>3. RefsHeld = Held
      BY <2>2, <2>3, <3>2 DEF Unused, RefsHeld
    <3>4. Cardinality(Held) = Size
      BY <1>0, <3>1, HeldCounted
    <3>5. Cardinality(RefsHeld) <= max(1, NumRefFrames)
      BY <3>2 DEF RoomInv, RefsFew
    <3>6. max(1, NumRefFrames) \in Int /\ Size \in Int
      BY SizeAssumption DEF max
    <3> QED
      BY <3>3, <3>4, <3>5, <3>6
  <2> QED
    BY <2>1, <2>4, <2>5
<1> QED
  BY <1>1, <1>2 DEF RoomInv

LEMMA RoomInit == Init => RoomInv
<1> SUFFICES ASSUME Init
             PROVE  RoomInv
  OBVIOUS
<1>1. fs = << >> /\ pc = "idle"
  BY DEF Init
<1>2. Held = {} /\ RefsHeld = {}
  BY <1>1 DEF Held, RefsHeld
<1>3. Cardinality(RefsHeld) = 0
  BY <1>2, FS_EmptySet
<1>4. RefsFew
  BY <1>3, SizeAssumption DEF RefsFew, max
<1> QED
  BY <1>1, <1>2, <1>4 DEF RoomInv, FlushInv, RoomMade, OutputMakesRoom

(* "then output frames until one can be removed": where the buffer is larger   *)
(* than the number of references the SPS allows, one can always be.            *)
THEOREM RoomToOutput ==
  ASSUME max(1, NumRefFrames) < Size
  PROVE  Spec => []OutputMakesRoom
<1>1. IInv /\ RoomInv /\ [Next]_vars => RoomInv'
  BY RoomStep
<1>2. RoomInv => OutputMakesRoom
  BY DEF RoomInv
<1> QED
  BY <1>1, <1>2, RoomInit, Inductive, PTL DEF Spec

-----------------------------------------------------------------------------
(* The sliding window.  In a stream without long-term references, it leaves    *)
(* room for the picture at hand among the references.                          *)

NoLong == fs_ltref = {} /\ ~cur.long /\ \A p \in Pictures : ~pic[p].long
AtStore == pc = "store" => fs_ref = RefsHeld
ByCommands == pc \in {"marking", "flush for mmco5"} => cur.adaptive
Slid == pc \in {"full", "output"} /\ ~cur.adaptive /\ pic[cur.frame].used =>
          Cardinality(RefsHeld) < NumRefFrames
SlideInv == NoLong /\ AtStore /\ ByCommands /\ Slid

ShortTermOnly == Commands \cap {3, 6} = {} /\ LongTerm \subseteq {FALSE}

LEMMA NoLongStep ==
  ASSUME ShortTermOnly, IInv, NoLong, [Next]_vars
  PROVE  NoLong'
<1>0. StoreTyped /\ RestTyped /\ Distinct(fs) /\ Held \subseteq Pictures /\ offset \in Pictures
  BY Parts
<1>1. Held' \subseteq Pictures
  BY StepHolds, Parts DEF IInv, TypeOK, Held
<1>2. StaysShort
  <2>1. CASE Stream
    <3>1. ASSUME NEW idr \in BOOLEAN, NEW n \in FrameNums, NEW noOutput \in NoOutput,
                 SliceHeader(idr, n, noOutput)
          PROVE  StaysShort
      BY <3>1 DEF SliceHeader, store, StaysShort
    <3>2. ASSUME NEW used \in BOOLEAN, NEW adaptive \in Adaptive, NEW long \in LongTerm, NEW poc \in Pocs,
                 init_picture(used, adaptive, long, poc)
          PROVE  StaysShort
      BY <1>0, <3>2 DEF init_picture, StoreTyped, PicType, StaysShort
    <3>3. CASE Command
      <4>1. 3 \notin Commands /\ 6 \notin Commands
        BY DEF ShortTermOnly
      <4>2. ASSUME NEW d \in FrameNums, mm_unmark_short_term_for_reference(d)
            PROVE  StaysShort
        BY <4>2, UnmarkRemarks DEF mm_unmark_short_term_for_reference, Marking
      <4>3. ASSUME NEW n \in LongIdx, mm_unmark_long_term_for_reference(n)
            PROVE  StaysShort
        BY <4>3, UnmarkLongRemarks DEF mm_unmark_long_term_for_reference, Marking
      <4>4. ASSUME NEW m \in LongIdx, mm_update_max_long_term_frame_idx(m)
            PROVE  StaysShort
        BY <4>4, UnmarkLongRemarks DEF mm_update_max_long_term_frame_idx, Marking
      <4>5. CASE UnmarkAll
        BY <4>5, UnmarkAllRemarks
      <4> QED
        BY <3>3, <4>1, <4>2, <4>3, <4>4, <4>5 DEF Command
    <3>4. CASE NewSps \/ EndOfStream
      BY <3>4, FlushRemarks DEF NewSps, EndOfStream, StaysShort
    <3> QED
      BY <2>1, <3>1, <3>2, <3>3, <3>4 DEF Stream
  <2>2. CASE Decoder
    <3>1. CASE UNCHANGED pic
      BY <3>1 DEF StaysShort
    <3>2. CASE FillGap
      <4>1. PICK q \in Gaps \ Held : pic' = [pic EXCEPT ![q] = [EmptyPicture EXCEPT !.used = TRUE, !.empty = FALSE]]
        BY <3>2 DEF FillGap
      <4>2. ASSUME NEW p \in Pictures PROVE pic'[p].long => pic[p].long
        BY <1>0, <4>1 DEF StoreTyped, EmptyPicture
      <4> QED
        BY <4>2 DEF StaysShort
    <3>3. CASE StoreIdr \/ MarkingEnds
      BY <3>1, <3>3, FlushRemarks DEF StoreIdr, MarkingEnds
    <3>4. CASE IdrFlushed
      <4>1. pic' = [pic EXCEPT ![cur.frame].long = cur.long, ![cur.frame].idx = IF cur.long THEN 0 ELSE @]
        BY <3>4 DEF IdrFlushed
      <4>2. ~cur.long
        BY DEF NoLong
      <4>3. ASSUME NEW p \in Pictures PROVE pic'[p].long => pic[p].long
        BY <1>0, <4>1, <4>2 DEF StoreTyped, PicType
      <4> QED
        BY <4>3 DEF StaysShort
    <3>5. CASE sliding_window_memory_management
      BY <3>5, SlideRemarks
    <3>6. CASE FlushRemoves \/ RemoveUnused
      BY <1>0, <3>1, <3>6, UnusedShrinks DEF FlushRemoves, RemoveUnused, store, Shrinks
    <3>7. CASE FlushOutputs \/ OutputOne
      BY <1>0, <3>7, OutputShrinks DEF FlushOutputs, OutputOne, Shrinks
    <3>8. CASE init_dpb
      <4>1. ASSUME NEW p \in Pictures PROVE ~pic'[p].long
        BY <3>8 DEF init_dpb, EmptyPicture
      <4> QED
        BY <4>1 DEF StaysShort
    <3> QED
      BY <2>2, <3>1, <3>2, <3>3, <3>4, <3>5, <3>6, <3>7, <3>8
         DEF Decoder, PicturesLost, StoreNonReference, StoreAdaptive, Mmco5Flushed,
             DuplicateFrameNum, Insert, NextPicture, EndFlushed, store
  <2>3. CASE UNCHANGED vars
    BY <2>3 DEF vars, store, StaysShort
  <2> QED
    BY <2>1, <2>2, <2>3 DEF Next
<1>3. \A p \in Pictures : ~pic'[p].long
  BY <1>2 DEF StaysShort, NoLong
<1>4. fs_ltref' = fs_ltref \/ fs_ltref' = {} \/ update_ltref_list
  <2>1. Command => fs_ltref' = fs_ltref \/ update_ltref_list
    BY DEF Command, mm_unmark_short_term_for_reference,
           mm_unmark_long_term_for_reference, mm_assign_long_term_frame_idx,
           mm_update_max_long_term_frame_idx, UnmarkAll, mm_mark_current_picture_long_term, lists
  <2>2. Stream => fs_ltref' = fs_ltref \/ update_ltref_list
    BY <2>1 DEF Stream, SliceHeader, init_picture, NewSps, EndOfStream, lists
  <2>3. Decoder => fs_ltref' = fs_ltref \/ fs_ltref' = {} \/ update_ltref_list
    BY DEF Decoder, PicturesLost, FillGap, StoreIdr, IdrFlushed, StoreNonReference,
           sliding_window_memory_management, StoreAdaptive, MarkingEnds, Mmco5Flushed,
           FlushRemoves, FlushOutputs, RemoveUnused, OutputOne, DuplicateFrameNum,
           Insert, NextPicture, init_dpb, EndFlushed, lists
  <2> QED
    BY <2>2, <2>3 DEF Next, vars, lists
<1>5. fs_ltref' = {}
  BY <1>1, <1>3, <1>4 DEF NoLong, update_ltref_list
<1>6. ~cur'.long
  <2>0. NoPicture.long = FALSE
    BY DEF NoPicture
  <2>1. Command => cur' = cur
    BY DEF Command, mm_unmark_short_term_for_reference,
           mm_unmark_long_term_for_reference, mm_assign_long_term_frame_idx,
           mm_update_max_long_term_frame_idx, UnmarkAll, mm_mark_current_picture_long_term,
           Marking, image
  <2>2. ASSUME NEW used \in BOOLEAN, NEW adaptive \in Adaptive, NEW long \in LongTerm, NEW poc \in Pocs,
               init_picture(used, adaptive, long, poc)
        PROVE  ~cur'.long
    <3>1. long = FALSE
      BY DEF ShortTermOnly
    <3> QED
      BY <2>2, <3>1 DEF init_picture
  <2>3. Stream => ~cur'.long
    BY <2>1, <2>2 DEF Stream, SliceHeader, NewSps, EndOfStream, image, NoLong
  <2>4. CASE FillGap
    BY <2>4 DEF FillGap, NoPicture
  <2>5. CASE MarkingEnds
    BY <1>0, <2>5 DEF MarkingEnds, RestTyped, NoLong
  <2>6. Decoder => FillGap \/ MarkingEnds \/ cur' = cur \/ cur' = NoPicture
    BY DEF Decoder, PicturesLost, StoreIdr, IdrFlushed, StoreNonReference,
           sliding_window_memory_management, StoreAdaptive, Mmco5Flushed,
           FlushRemoves, FlushOutputs, RemoveUnused, OutputOne, DuplicateFrameNum,
           Insert, NextPicture, init_dpb, EndFlushed, image
  <2>7. Decoder => ~cur'.long
    BY <2>0, <2>4, <2>5, <2>6 DEF NoLong
  <2> QED
    BY <2>3, <2>7 DEF Next, vars, image, NoLong
<1> QED
  BY <1>3, <1>5, <1>6 DEF NoLong

(* Between pictures the list of short-term references is all of them. *)
LEMMA AtStoreStep ==
  ASSUME IInv, NoLong, AtStore, [Next]_vars
  PROVE  AtStore'
<1> SUFFICES ASSUME pc' = "store"
             PROVE  fs_ref' = RefsHeld'
  BY DEF AtStore
<1>0. StoreTyped /\ Held \subseteq Pictures /\ offset \in Pictures
  BY Parts
<1>1. CASE UNCHANGED vars
  BY <1>1 DEF AtStore, RefsHeld, Held, vars, store, lists
<1>2. ASSUME pc = "header", fs' = fs, fs_ref' = fs_ref, \A p \in Held : pic'[p] = pic[p]
      PROVE  fs_ref' = RefsHeld'
  <2>1. fs_ref = {p \in Held : pic[p].used /\ ~pic[p].long}
    BY <1>2 DEF IInv, ListsRight
  <2>2. fs_ref = RefsHeld
    BY <1>0, <2>1 DEF NoLong, RefsHeld
  <2>3. Held' = Held
    BY <1>2 DEF Held
  <2> QED
    BY <1>2, <2>2, <2>3 DEF RefsHeld
<1>3. ASSUME NEW used \in BOOLEAN, NEW adaptive \in Adaptive, NEW long \in LongTerm, NEW poc \in Pocs,
             init_picture(used, adaptive, long, poc)
      PROVE  fs_ref' = RefsHeld'
  <2>1. offset \notin Held
    BY <1>3 DEF init_picture, IInv, SafeRecycling
  <2>2. \A p \in Held : pic'[p] = pic[p]
    BY <1>0, <1>3, <2>1 DEF init_picture, StoreTyped
  <2> QED
    BY <1>2, <1>3, <2>2 DEF init_picture, lists
<1>4. CASE FillGap
  <2>1. PICK q \in Gaps \ Held : pic' = [pic EXCEPT ![q] = [EmptyPicture EXCEPT !.used = TRUE, !.empty = FALSE]]
    BY <1>4 DEF FillGap
  <2>2. \A p \in Held : pic'[p] = pic[p]
    BY <1>0, <2>1
  <2> QED
    BY <1>2, <1>4, <2>2 DEF FillGap, lists
<1>5. ~Command
  BY DEF Command, mm_unmark_short_term_for_reference,
         mm_unmark_long_term_for_reference, mm_assign_long_term_frame_idx,
         mm_update_max_long_term_frame_idx, UnmarkAll, mm_mark_current_picture_long_term, Marking
<1>6. Stream => \E used \in BOOLEAN, adaptive \in Adaptive, long \in LongTerm, poc \in Pocs :
                  init_picture(used, adaptive, long, poc)
  BY <1>5 DEF Stream, SliceHeader, NewSps, EndOfStream, Flush
<1>7. Decoder => FillGap
  BY DEF Decoder, PicturesLost, StoreIdr, Flush, IdrFlushed, StoreNonReference,
         sliding_window_memory_management, StoreAdaptive, MarkingEnds, Mmco5Flushed,
         FlushRemoves, FlushOutputs, Flushing, RemoveUnused, OutputOne, output_one_frame_from_dpb,
         DuplicateFrameNum, Insert, NextPicture, init_dpb, EndFlushed
<1> QED
  BY <1>1, <1>3, <1>4, <1>6, <1>7 DEF Next

(* Commands are read for a picture that has them. *)
LEMMA ByCommandsStep ==
  ASSUME IInv, ByCommands, [Next]_vars
  PROVE  ByCommands'
<1> SUFFICES ASSUME pc' \in {"marking", "flush for mmco5"}
             PROVE  cur'.adaptive
  BY DEF ByCommands
<1>0. RestTyped
  BY Parts
<1>1. CASE pc \in {"marking", "flush for mmco5"} /\ cur' = cur
  BY <1>1 DEF ByCommands
<1>2. CASE StoreAdaptive
  BY <1>2 DEF StoreAdaptive, image
<1>3. CASE MarkingEnds
  <2>1. cur.adaptive /\ (cur' = cur \/ cur' = [cur EXCEPT !.num = 0, !.poc = 0])
    BY <1>3 DEF MarkingEnds, ByCommands
  <2> QED
    BY <1>0, <2>1 DEF RestTyped
<1>4. Command => pc \in {"marking", "flush for mmco5"} /\ cur' = cur
  BY DEF Command, mm_unmark_short_term_for_reference,
         mm_unmark_long_term_for_reference, mm_assign_long_term_frame_idx,
         mm_update_max_long_term_frame_idx, UnmarkAll, mm_mark_current_picture_long_term,
         Marking, image
<1>5. Stream => Command
  BY DEF Stream, SliceHeader, init_picture, NewSps, EndOfStream, Flush
<1>6. Decoder => StoreAdaptive \/ MarkingEnds \/ (pc \in {"marking", "flush for mmco5"} /\ cur' = cur)
  BY DEF Decoder, PicturesLost, FillGap, StoreIdr, Flush, IdrFlushed, StoreNonReference,
         sliding_window_memory_management, Mmco5Flushed,
         FlushRemoves, FlushOutputs, RemoveUnused, OutputOne, output_one_frame_from_dpb,
         DuplicateFrameNum, Insert, NextPicture, init_dpb, EndFlushed, image
<1> QED
  BY <1>1, <1>2, <1>3, <1>4, <1>5, <1>6 DEF Next, vars, image

(* The window slides before a picture is stored that it would be too many for. *)
LEMMA SlideMakesRoom ==
  ASSUME NumRefFrames > 0, IInv, NoLong, AtStore, RefsFew, sliding_window_memory_management
  PROVE  Cardinality(RefsHeld') < NumRefFrames
<1>0. StoreTyped /\ Held \subseteq Pictures /\ fs \in Seq(Pictures)
  BY Parts DEF StoreTyped
<1> DEFINE short == {p \in Held : slot[p].ref /\ ~slot[p].long}
           S == IF Cardinality(fs_ref) = NumRefFrames - Cardinality(fs_ltref) /\ short # {}
                  THEN {First(short)} ELSE {}
<1>1. pc = "store" /\ fs' = fs /\ pic' = [p \in Pictures |-> [pic[p] EXCEPT !.used = @ /\ p \notin S,
                                                                        !.long = @ /\ p # cur.frame]]
  BY DEF sliding_window_memory_management
<1>2. short = RefsHeld
  BY <1>0 DEF NoLong, RefsHeld, IInv, MarksAgree
<1>3. fs_ref = RefsHeld /\ fs_ltref = {}
  BY <1>1 DEF AtStore, NoLong
<1>4. Cardinality(fs_ltref) = 0
  BY <1>3, FS_EmptySet
<1>5. IsFiniteSet(RefsHeld) /\ Cardinality(RefsHeld) \in Nat /\ NumRefFrames \in Nat
  BY RefsFinite, SizeAssumption
<1>6. Cardinality(RefsHeld) <= NumRefFrames
  <2>1. pc \notin Exits
    BY <1>1 DEF Exits
  <2> QED
    BY <1>5, <2>1 DEF RefsFew, max
<1>7. RefsHeld' \subseteq RefsHeld \ S
  <2> HIDE DEF S
  <2>1. Held' = Held
    BY <1>1 DEF Held
  <2>2. ASSUME NEW p \in Held PROVE pic'[p].used = (pic[p].used /\ p \notin S)
    <3>1. pic[p] \in PicType /\ pic'[p] = [pic[p] EXCEPT !.used = @ /\ p \notin S, !.long = @ /\ p # cur.frame]
      BY <1>0, <1>1 DEF StoreTyped
    <3> QED
      BY <3>1 DEF PicType
  <2> QED
    BY <2>1, <2>2 DEF RefsHeld
<1>8. CASE Cardinality(RefsHeld) = NumRefFrames
  <2>1. RefsHeld # {}
    BY <1>5, <1>8, FS_EmptySet
  <2>2. PICK q \in Held : q \in short
    BY <1>2, <2>1 DEF RefsHeld
  <2>3. First(short) \in short
    <3> HIDE DEF short
    <3> QED
      BY <1>0, <2>2, FirstHeld
  <2>4. S = {First(short)}
    <3> HIDE DEF short
    <3>1. Cardinality(fs_ref) = NumRefFrames - Cardinality(fs_ltref)
      BY <1>3, <1>4, <1>5, <1>8
    <3> QED
      BY <2>2, <3>1
  <2> HIDE DEF short, S
  <2>5. /\ IsFiniteSet(RefsHeld \ {First(short)})
        /\ Cardinality(RefsHeld \ {First(short)}) = Cardinality(RefsHeld) - 1
    BY <1>2, <1>5, <2>3, FS_RemoveElement
  <2>6. RefsHeld' \in SUBSET (RefsHeld \ {First(short)})
    BY <1>7, <2>4
  <2>7. /\ Cardinality(RefsHeld') <= Cardinality(RefsHeld \ {First(short)})
        /\ Cardinality(RefsHeld') \in Nat
    BY <2>5, <2>6, FS_Subset, FS_CardinalityType
  <2> QED
    BY <1>5, <1>8, <2>5, <2>7
<1>9. CASE Cardinality(RefsHeld) # NumRefFrames
  <2>1. RefsHeld' \in SUBSET RefsHeld
    BY <1>7
  <2>2. Cardinality(RefsHeld') <= Cardinality(RefsHeld) /\ Cardinality(RefsHeld') \in Nat
    BY <1>5, <2>1, FS_Subset, FS_CardinalityType
  <2> QED
    BY <1>5, <1>6, <1>9, <2>2
<1> QED
  BY <1>8, <1>9

LEMMA SlidStep ==
  ASSUME NumRefFrames > 0, IInv, SlideInv, RefsFew, [Next]_vars
  PROVE  Slid'
<1> SUFFICES ASSUME pc' \in {"full", "output"}, ~cur'.adaptive, pic'[cur'.frame].used
             PROVE  Cardinality(RefsHeld') < NumRefFrames
  BY DEF Slid
<1>0. StoreTyped /\ RestTyped /\ Distinct(fs) /\ Held \subseteq Pictures /\ cur.frame \in Pictures
  BY Parts
<1>1. CASE IdrFlushed
  <2>1. RefsHeld' = {}
    BY <1>1, EmptyHeld DEF IdrFlushed, RefsHeld
  <2>2. Cardinality(RefsHeld') = 0
    BY <2>1, FS_EmptySet
  <2> QED
    BY <2>2
<1>2. ~StoreNonReference
  BY DEF StoreNonReference, store, image
<1>3. CASE sliding_window_memory_management
  BY <1>3, SlideMakesRoom DEF SlideInv
<1>4. ~MarkingEnds /\ ~Mmco5Flushed
  <2>1. pc = "marking" \/ pc = "flush for mmco5" => cur.adaptive
    BY DEF SlideInv, ByCommands
  <2>2. ~Mmco5Flushed
    BY <2>1 DEF Mmco5Flushed, image
  <2>3. ASSUME MarkingEnds PROVE FALSE
    <3>1. cur.adaptive /\ (cur' = cur \/ cur' = [cur EXCEPT !.num = 0, !.poc = 0])
      BY <2>1, <2>3 DEF MarkingEnds
    <3> QED
      BY <1>0, <3>1 DEF RestTyped
  <2> QED
    BY <2>2, <2>3
<1>5. CASE RemoveUnused \/ OutputOne
  <2>1. Shrinks
    BY <1>0, <1>5, UnusedShrinks, NothingShrinks, OutputShrinks DEF RemoveUnused, OutputOne
  <2>2. pc \in {"full", "output"} /\ cur' = cur
    BY <1>5 DEF RemoveUnused, OutputOne, image
  <2>3. cur.frame \notin Held
    BY <2>2, Parts DEF Storing
  <2>4. pic'[cur.frame] = pic[cur.frame]
    BY <1>0, <2>1, <2>3 DEF Shrinks
  <2>5. Cardinality(RefsHeld) < NumRefFrames
    BY <2>2, <2>4 DEF SlideInv, Slid
  <2>6. RefsHeld' \in SUBSET RefsHeld
    BY <1>0, <2>1 DEF Shrinks, RefsHeld
  <2>7. IsFiniteSet(RefsHeld) /\ Cardinality(RefsHeld) \in Nat /\ NumRefFrames \in Nat
    BY RefsFinite, SizeAssumption
  <2>8. Cardinality(RefsHeld') <= Cardinality(RefsHeld) /\ Cardinality(RefsHeld') \in Nat
    BY <2>6, <2>7, FS_Subset, FS_CardinalityType
  <2> QED
    BY <2>5, <2>7, <2>8
<1>6. CASE UNCHANGED vars
  BY <1>6 DEF SlideInv, Slid, RefsHeld, Held, vars, store, image
<1>7. ~Command
  BY DEF Command, mm_unmark_short_term_for_reference,
         mm_unmark_long_term_for_reference, mm_assign_long_term_frame_idx,
         mm_update_max_long_term_frame_idx, UnmarkAll, mm_mark_current_picture_long_term, Marking
<1>8. ~Stream
  BY <1>7 DEF Stream, SliceHeader, init_picture, NewSps, EndOfStream, Flush
<1>9. Decoder => \/ IdrFlushed \/ StoreNonReference \/ sliding_window_memory_management
                 \/ MarkingEnds \/ Mmco5Flushed \/ RemoveUnused \/ OutputOne
  BY DEF Decoder, PicturesLost, FillGap, StoreIdr, Flush, StoreAdaptive,
         FlushRemoves, FlushOutputs, Flushing, output_one_frame_from_dpb,
         DuplicateFrameNum, Insert, NextPicture, init_dpb, EndFlushed
<1> QED
  BY <1>1, <1>2, <1>3, <1>4, <1>5, <1>6, <1>8, <1>9 DEF Next

LEMMA SlideStep ==
  ASSUME NumRefFrames > 0, ShortTermOnly, IInv, SlideInv, RefsFew, [Next]_vars
  PROVE  SlideInv'
BY NoLongStep, AtStoreStep, ByCommandsStep, SlidStep DEF SlideInv

(* A picture for which the window has made room is not one too many. *)
LEMMA NotTooMany ==
  ASSUME NumRefFrames > 0, ShortTermOnly, IInv, SlideInv, RefsFew, Insert, ~cur.adaptive
  PROVE  ~TooManyRefs(fs_ref', fs_ltref')
<1>0. StoreTyped /\ Held \subseteq Pictures /\ cur.frame \in Pictures /\ cur.frame \notin Held
  BY Parts DEF Insert, Storing
<1>1. pc = "output" /\ pic' = pic /\ update_ref_list /\ update_ltref_list /\ Held' = Held \cup {cur.frame}
  BY InsertStep DEF Insert
<1>2. \A p \in Pictures : ~pic[p].long
  BY DEF SlideInv, NoLong
<1>3. fs_ltref' = {} /\ fs_ref' = IF pic[cur.frame].used THEN RefsHeld \cup {cur.frame} ELSE RefsHeld
  BY <1>0, <1>1, <1>2 DEF update_ref_list, update_ltref_list, RefsHeld
<1>4. Cardinality(fs_ltref') = 0
  BY <1>3, FS_EmptySet
<1>5. IsFiniteSet(RefsHeld) /\ Cardinality(RefsHeld) \in Nat /\ NumRefFrames \in Nat
  BY RefsFinite, SizeAssumption
<1>6. Cardinality(fs_ref') <= NumRefFrames /\ Cardinality(fs_ref') \in Nat
  <2>1. CASE pic[cur.frame].used
    <3>1. Cardinality(RefsHeld) < NumRefFrames
      BY <1>1, <2>1 DEF SlideInv, Slid
    <3>2. cur.frame \notin RefsHeld
      BY <1>0 DEF RefsHeld
    <3>3. Cardinality(fs_ref') = Cardinality(RefsHeld) + 1
      BY <1>3, <1>5, <2>1, <3>2, FS_AddElement
    <3> QED
      BY <1>5, <3>1, <3>3
  <2>2. CASE ~pic[cur.frame].used
    <3>1. pc \notin Exits
      BY <1>1 DEF Exits
    <3>2. Cardinality(RefsHeld) <= NumRefFrames
      BY <1>5, <3>1 DEF RefsFew, max
    <3> QED
      BY <1>3, <1>5, <2>2, <3>2
  <2> QED
    BY <2>1, <2>2
<1> QED
  BY <1>4, <1>5, <1>6 DEF TooManyRefs, max

(* Only the count of the references ends the program with too many of them. *)
LEMMA ExitsForReferences ==
  ASSUME ShortTermOnly, [Next]_vars, vars' # vars, pc' = "exit: too many reference frames"
  PROVE  Insert /\ TooManyRefs(fs_ref', fs_ltref')
<1>1. 6 \notin Commands
  BY DEF ShortTermOnly
<1>2. ~Command
  BY <1>1 DEF Command, mm_unmark_short_term_for_reference,
         mm_unmark_long_term_for_reference, mm_assign_long_term_frame_idx,
         mm_update_max_long_term_frame_idx, UnmarkAll, Marking
<1>3. ~Stream
  BY <1>2 DEF Stream, SliceHeader, init_picture, NewSps, EndOfStream, Flush
<1>4. Decoder => Insert
  BY DEF Decoder, PicturesLost, FillGap, StoreIdr, Flush, IdrFlushed, StoreNonReference,
         sliding_window_memory_management, StoreAdaptive, MarkingEnds, Mmco5Flushed,
         FlushRemoves, FlushOutputs, Flushing, RemoveUnused, OutputOne, output_one_frame_from_dpb,
         DuplicateFrameNum, NextPicture, init_dpb, EndFlushed
<1>5. Insert
  BY <1>3, <1>4 DEF Next
<1> QED
  BY <1>5 DEF Insert

LEMMA SlideInit == Init => SlideInv
<1> SUFFICES ASSUME Init
             PROVE  SlideInv
  OBVIOUS
<1>1. pc = "idle" /\ fs_ltref = {} /\ cur = NoPicture /\ pic = [p \in Pictures |-> EmptyPicture]
  BY DEF Init
<1>2. NoLong
  BY <1>1 DEF NoLong, NoPicture, EmptyPicture
<1> QED
  BY <1>1, <1>2 DEF SlideInv, AtStore, ByCommands, Slid

(* The sliding window keeps the references within num_ref_frames: storing a    *)
(* picture it marked never ends the program with too many of them, in a stream *)
(* without long-term references.                                               *)
THEOREM WindowKeeps ==
  ASSUME NumRefFrames > 0, ShortTermOnly
  PROVE  Spec => WindowSlides
<1>1. IInv /\ RefsFew /\ SlideInv /\ [Next]_vars => RefsFew' /\ SlideInv'
  BY RefsFewStep, SlideStep
<1>2. IInv /\ RefsFew /\ SlideInv /\ [Next]_vars =>
        [~cur.adaptive => pc' # "exit: too many reference frames"]_vars
  BY ExitsForReferences, NotTooMany
<1>3. Init => RefsFew /\ SlideInv
  BY RoomInit, SlideInit DEF RoomInv
<1> QED
  BY <1>1, <1>2, <1>3, Inductive, PTL DEF Spec, WindowSlides
=============================================================================
