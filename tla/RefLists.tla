------------------------------- MODULE RefLists -------------------------------
(***************************************************************************)
(* The reference picture lists of a slice (mbuffer.c, image.c): they start *)
(* in the order init_lists_baseline() gives them, and the commands of the  *)
(* slice header then put pictures to the front, one by one.  The sender    *)
(* names short-term pictures by differences of frame numbers, which wrap.  *)
(***************************************************************************)
EXTENDS Integers, Sequences, FiniteSets, FiniteSetsExt

CONSTANTS MaxPicNum,           \* MaxFrameNum: the lists are those of frames
          MaxListSize,         \* MAX_LIST_SIZE
          Slices               \* slices and the references there are when they come:
                               \* [type, frame_num, poc, active, refs]
(* What a stream keeps to: the list has room for one entry more than there     *)
(* are active, no two short-term references have a frame_num, no two long-term  *)
(* ones an index, and none is at the slice's own place in the order of output.  *)
ASSUME RefListsAssumption ==
  /\ MaxPicNum \in Nat \ {0} /\ MaxListSize \in Nat
  /\ \A s \in Slices :
       /\ s.type \in {"I", "P", "B"} /\ s.frame_num \in 0 .. MaxPicNum - 1 /\ s.poc \in Int
       /\ s.active \in 1 .. MaxListSize - 1
       /\ IsFiniteSet(s.refs)
       /\ \A p \in s.refs :
            /\ p \in [long : BOOLEAN, num : Nat, poc : Int]
            /\ ~p.long => p.num < MaxPicNum /\ p.poc # s.poc
            /\ \A q \in s.refs : p.long = q.long /\ p.num = q.num => p = q

(* A reference picture is [long, num, poc]; num is its frame_num, or its     *)
(* long_term_frame_idx.                                                     *)
VARIABLES slice,
          listX,               \* the lists: indices from 0, NoRef where there is none
          reordering,          \* "none", the list under way, or how it ended
          refIdxLX, picNumLXPred,
          wanted               \* history: the list the standard's process makes
listVars == <<slice, listX, reordering, refIdxLX, picNumLXPred, wanted>>

NoRef == [long |-> FALSE, num |-> MaxPicNum, poc |-> 0]
Indices == 0 .. MaxListSize - 1
Short(s) == {p \in s.refs : ~p.long}
Long(s) == s.refs \ Short(s)
pic_num(s, p) == IF p.num > s.frame_num THEN p.num - MaxPicNum ELSE p.num

-----------------------------------------------------------------------------
(* The elements of a set by a key (qsort), and a sequence without those of a set. *)
Sorted(S, key) ==
  CHOOSE s \in [1 .. Cardinality(S) -> S] :
    \A i, j \in 1 .. Cardinality(S) : i < j => s[i] # s[j] /\ key[s[i]] <= key[s[j]]
Without(s, gone) ==
  LET Stays == {k \in 1 .. Len(s) : s[k] \notin gone}
      places == Sorted(Stays, [k \in Stays |-> k])
  IN  [j \in 1 .. Cardinality(Stays) |-> s[places[j]]]

(* init_lists_baseline() *)
ByPicNum(s) == Sorted(Short(s), [p \in Short(s) |-> -pic_num(s, p)])
ByLongIdx(s) == Sorted(Long(s), [p \in Long(s) |-> p.num])
ShortBefore(s) == {p \in Short(s) : p.poc < s.poc}
ShortAfter(s) == {p \in Short(s) : p.poc > s.poc}
Before(s) == Sorted(ShortBefore(s), [p \in ShortBefore(s) |-> -p.poc])
After(s) == Sorted(ShortAfter(s), [p \in ShortAfter(s) |-> p.poc])
SwapIfSame(l0, l1) ==
  IF l0 = l1 /\ Len(l1) > 1 THEN <<l1[2], l1[1]>> \o SubSeq(l1, 3, Len(l1)) ELSE l1
InitialList(s, X) ==
  CASE s.type = "I" -> <<>>
    [] s.type = "P" -> IF X = 0 THEN ByPicNum(s) \o ByLongIdx(s) ELSE <<>>
    [] s.type = "B" -> LET l0 == Before(s) \o After(s) \o ByLongIdx(s)
                           l1 == After(s) \o Before(s) \o ByLongIdx(s)
                       IN  IF X = 0 THEN l0 ELSE SwapIfSame(l0, l1)
(* Cut to the active size, and empty behind that.                            *)
Entries(s, list) ==
  [i \in Indices |-> IF i < Min({Len(list), s.active}) THEN list[i + 1] ELSE NoRef]

ListsStart(s) ==
  /\ slice = s
  /\ listX = [X \in 0 .. 1 |-> [i \in Indices |-> NoRef]]
  /\ reordering = "none" /\ refIdxLX = 0 /\ picNumLXPred = 0 /\ wanted = <<>>
ListsInit == \E s \in Slices : ListsStart(s)

(* What has to come of it: as many entries as are active, NoRef in the rest.  *)
Expected(s, X) == [i \in 1 .. s.active |-> Entries(s, InitialList(s, X))[i - 1]]
init_lists_baseline ==
  /\ reordering = "none"
  /\ listX' = [X \in 0 .. 1 |-> Entries(slice, InitialList(slice, X))]
  /\ reordering' = (IF slice.type = "I" THEN "ready" ELSE "list_0")
  /\ refIdxLX' = 0 /\ picNumLXPred' = slice.frame_num /\ wanted' = Expected(slice, 0)
  /\ UNCHANGED slice

-----------------------------------------------------------------------------
(* The list from refIdx on moves down one, pic goes in, and behind it those    *)
(* that are not gone close up.  What is behind the last one kept stays there.   *)
ListOf == IF reordering = "list_1" THEN 1 ELSE 0
(* Mutant: the last active entry is pushed out and not kept behind the others. *)
ShiftInActive(list, refIdx, active, pic) ==
  [i \in Indices |-> IF i = refIdx THEN pic ELSE IF i \in refIdx + 1 .. active - 1 THEN list[i - 1] ELSE list[i]]
ShiftIn(list, refIdx, active, pic) ==
  [i \in Indices |-> IF i = refIdx THEN pic ELSE IF i \in refIdx + 1 .. active THEN list[i - 1] ELSE list[i]]
CloseUp(list, refIdx, active, gone) ==
  LET kept == Without([k \in 1 .. active - refIdx |-> list[refIdx + k]], gone)
  IN  [i \in Indices |-> IF i \in refIdx + 1 .. refIdx + Len(kept) THEN kept[i - refIdx] ELSE list[i]]

get_short_term_pic(s, picNum) ==
  IF \E p \in Short(s) : pic_num(s, p) = picNum
  THEN CHOOSE p \in Short(s) : pic_num(s, p) = picNum ELSE NoRef
get_long_term_pic(s, idx) ==
  IF \E p \in Long(s) : p.num = idx THEN CHOOSE p \in Long(s) : p.num = idx ELSE NoRef

reorder_short_term(list, picNumLX) ==
  CloseUp(ShiftIn(list, refIdxLX, slice.active, get_short_term_pic(slice, picNumLX)), refIdxLX, slice.active,
          {NoRef} \cup {p \in Short(slice) : pic_num(slice, p) = picNumLX})
reorder_long_term(list, idx) ==
  CloseUp(ShiftIn(list, refIdxLX, slice.active, get_long_term_pic(slice, idx)), refIdxLX, slice.active,
          {p \in Long(slice) : p.num = idx})
(* An empty entry among those compared is dereferenced.                     *)
NullRead(list) == \E i \in refIdxLX .. slice.active - 1 : list[i] = NoRef

(* The number without wrap that a command gives, and the one with its wrap. *)
picNumLXNoWrap(idc, abs_diff) ==
  IF idc = 0
  THEN IF picNumLXPred - abs_diff < 0 THEN picNumLXPred - abs_diff + MaxPicNum ELSE picNumLXPred - abs_diff
  ELSE IF picNumLXPred + abs_diff >= MaxPicNum THEN picNumLXPred + abs_diff - MaxPicNum
       ELSE picNumLXPred + abs_diff
WrappedNum(noWrap) == IF noWrap > slice.frame_num THEN noWrap - MaxPicNum ELSE noWrap

(* The sender gives the difference up or down, whichever it likes.          *)
AbsDiff(idc, p) ==
  LET d == (IF idc = 0 THEN picNumLXPred - p.num ELSE p.num - picNumLXPred) % MaxPicNum
  IN  IF d = 0 THEN MaxPicNum ELSE d
MoveToFront(p) ==
  LET rest == Without(SubSeq(wanted, refIdxLX + 1, Len(wanted)), {p})
      all == SubSeq(wanted, 1, refIdxLX) \o <<p>> \o rest
  IN  [i \in 1 .. slice.active |-> IF i <= Len(all) THEN all[i] ELSE NoRef]

Reordering == reordering \in {"list_0", "list_1"} /\ refIdxLX < slice.active
(* A command of reorder_ref_pic_list(), numbers 0 and 1 ...                 *)
ReorderShortTerm ==
  /\ Reordering
  /\ \E p \in Short(slice), idc \in {0, 1} :
       \E noWrap \in {picNumLXNoWrap(idc, AbsDiff(idc, p))} :
         /\ listX' = [listX EXCEPT ![ListOf] = reorder_short_term(@, WrappedNum(noWrap))]
         /\ picNumLXPred' = noWrap
         /\ wanted' = MoveToFront(p)
  /\ refIdxLX' = refIdxLX + 1
  /\ UNCHANGED <<slice, reordering>>
(* ... and number 2.                                                         *)
ReorderLongTerm ==
  /\ Reordering
  /\ \E p \in Long(slice) :
       IF NullRead(listX[ListOf])
       THEN reordering' = "null_read" /\ UNCHANGED <<listX, wanted, refIdxLX>>
       ELSE /\ listX' = [listX EXCEPT ![ListOf] = reorder_long_term(@, p.num)]
            /\ wanted' = MoveToFront(p)
            /\ refIdxLX' = refIdxLX + 1
            /\ UNCHANGED reordering
  /\ UNCHANGED <<slice, picNumLXPred>>

(* The end of the commands in reorder_lists_baseline(), for one list.        *)
EndOfCommands ==
  /\ reordering \in {"list_0", "list_1"}
  /\ IF listX[ListOf][slice.active - 1] = NoRef
     THEN reordering' = "exit" /\ UNCHANGED <<refIdxLX, picNumLXPred, wanted>>
     ELSE /\ reordering' = (IF reordering = "list_0" /\ slice.type = "B" THEN "list_1" ELSE "ready")
          /\ refIdxLX' = 0 /\ picNumLXPred' = slice.frame_num
          /\ wanted' = (IF reordering' = "list_1" THEN Expected(slice, 1) ELSE wanted)
  /\ UNCHANGED <<slice, listX>>

ListsNext == init_lists_baseline \/ ReorderShortTerm \/ ReorderLongTerm \/ EndOfCommands
ListsSpec == ListsInit /\ [][ListsNext]_listVars

-----------------------------------------------------------------------------
(* mbuffer.c:857-1355, image.c:150-209: whichever pictures the sender puts to  *)
(* the front, again or for the first time, and however the frame numbers wrap, *)
(* the list is the one the standard's process makes, wherever that leaves no    *)
(* entry empty; the decoder gives up only on a list the standard leaves empty   *)
(* somewhere, and reads an empty entry only where the slice has more entries    *)
(* active than there are pictures.                                            *)
Whole == \A i \in 1 .. Len(wanted) : wanted[i] # NoRef
ListsRight ==
  /\ reordering \in {"list_0", "list_1"} /\ Whole =>
       \A i \in 1 .. slice.active : listX[ListOf][i - 1] = wanted[i]
  /\ reordering = "exit" => ~Whole
  /\ reordering = "null_read" => slice.active > Cardinality(slice.refs)
  /\ reordering = "ready" /\ slice.type # "I" => listX[0][slice.active - 1] # NoRef
  /\ slice.type = "B" /\ reordering = "list_0" /\ refIdxLX = 0 /\ Cardinality(slice.refs) > 1 /\ slice.active > 1 =>
       listX[0] # listX[1]
=============================================================================
