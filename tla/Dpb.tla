-------------------------------- MODULE Dpb --------------------------------
(***************************************************************************)
(* The decoded picture buffer of the H.264 decoder (mbuffer.c), with the   *)
(* pool its pictures come from (image.c): storing a picture marks or       *)
(* unmarks reference pictures, outputs frames until a frame store is free, *)
(* and then looks for an empty picture to decode the next one into.        *)
(*                                                                         *)
(* A frame store in use holds one picture, so it is named by the picture:  *)
(* fs is dpb.fs[0 .. used_size-1] as a sequence of pictures, and slot[p]   *)
(* is the frame store that holds p.  The flags of a frame store and those  *)
(* of its picture are kept apart, as in the code.                          *)
(*                                                                         *)
(* The bitstream is external: it may hold any slice headers and any        *)
(* memory management commands.                                             *)
(***************************************************************************)
EXTENDS Integers, Sequences, FiniteSets

CONSTANTS Size,           \* dpb.size
          NumRefFrames,   \* num_ref_frames of the active SPS
          MaxFrameNum,
          Pocs,           \* bound: the picture order counts in the stream
          INT_MIN,
          LongIdx,        \* bound: the long_term_frame_idx in the stream
          Gaps,           \* names for the pictures fill_frame_num_gap allocates
          GapsAllowed,    \* gaps_in_frame_num_value_allowed_flag
          Adaptive,       \* values of adaptive_ref_pic_buffering_flag in the stream
          Commands,       \* the memory_management_control_operations there
          LongTerm,       \* ... of long_term_reference_flag
          NoOutput        \* ... of no_output_of_prior_pics_flag

Pool == 0 .. Size
Pictures == Pool \cup Gaps
FrameNums == 0 .. MaxFrameNum - 1

ASSUME SizeAssumption == /\ Size \in Nat \ {0} /\ NumRefFrames \in 0 .. Size
                         /\ MaxFrameNum \in Nat \ {0}
ASSUME PocAssumption == 0 \in Pocs /\ Pocs \subseteq Int
                        /\ INT_MIN \in Int /\ \A n \in Pocs : INT_MIN < n
ASSUME NameAssumption == Gaps \cap Pool = {} /\ LongIdx \subseteq Nat /\ 0 \in LongIdx
ASSUME FlagAssumption == /\ GapsAllowed \in BOOLEAN /\ Adaptive \subseteq BOOLEAN
                         /\ Commands \subseteq 1 .. 6 /\ LongTerm \subseteq BOOLEAN /\ NoOutput \subseteq BOOLEAN

VARIABLES pic,        \* the pictures: used_for_reference, is_long_term, ...
          slot,       \* the frame store that holds each picture
          fs,         \* the pictures held, in the order of dpb.fs
          fs_ref,     \* dpb.fs_ref, the short-term references
          fs_ltref,   \* dpb.fs_ltref, the long-term references
          cur,        \* the picture to be stored
          pc,         \* where the decoder stands; a reason to exit ends it
          header,     \* the slice header that was read
          offset,     \* picture_offset
          pre,        \* pre_frame_num
          last,       \* last_output_poc
          mmco5       \* last_has_mmco_5

store == <<pic, slot, fs>>
lists == <<fs_ref, fs_ltref>>
image == <<cur, header, offset, pre>>
vars == <<store, lists, image, pc, last, mmco5>>

Storing == {"store", "flush for idr", "marking", "flush for mmco5", "full", "output"}
Active == Storing \cup {"idle", "header", "next", "flush for sps", "flush at end", "done"}
Exits == {"exit: no frames for output available", "exit: output POC must be in ascending order",
          "exit: an unintentional loss of pictures occurs", "exit: too many reference frames",
          "exit: duplicate frame_num"}

Held == {fs[k] : k \in 1 .. Len(fs)}

EmptyPicture == [used |-> FALSE, long |-> FALSE, idx |-> 0, empty |-> TRUE]
EmptySlot == [ref |-> FALSE, long |-> FALSE, idx |-> 0, num |-> 0, poc |-> 0, out |-> FALSE]
NoHeader == [idr |-> FALSE, num |-> 0, noOutput |-> FALSE]
NoPicture == [frame |-> 0, gap |-> FALSE, idr |-> FALSE, noOutput |-> FALSE,
              adaptive |-> FALSE, long |-> FALSE, num |-> 0, poc |-> 0]

(* init_dpb() *)
Init ==
  /\ pic = [p \in Pictures |-> EmptyPicture]
  /\ slot = [p \in Pictures |-> EmptySlot]
  /\ fs = << >>
  /\ fs_ref = {} /\ fs_ltref = {}
  /\ cur = NoPicture
  /\ pc = "idle"
  /\ header = NoHeader
  /\ offset = 0
  /\ pre = 0
  /\ last = INT_MIN
  /\ mmco5 = FALSE

-----------------------------------------------------------------------------
(* Frame stores *)

(* the one of T that comes first in dpb.fs *)
First(T) == fs[CHOOSE k \in 1 .. Len(fs) : fs[k] \in T /\ \A j \in 1 .. k - 1 : fs[j] \notin T]

update_ref_list == fs_ref' = {p \in Held' : pic'[p].used /\ ~pic'[p].long}
update_ltref_list == fs_ltref' = {p \in Held' : pic'[p].used /\ pic'[p].long}

(* Mutant: the picture's own mark is left. *)
unmark_for_referenceStoreOnly(S) ==
  /\ slot' = [p \in Pictures |-> [slot[p] EXCEPT !.ref = @ /\ p \notin S]]
  /\ UNCHANGED pic

unmark_for_reference(S) ==
  /\ pic' = [p \in Pictures |-> [pic[p] EXCEPT !.used = @ /\ p \notin S]]
  /\ slot' = [p \in Pictures |-> [slot[p] EXCEPT !.ref = @ /\ p \notin S]]

unmark_for_long_term_reference(S) ==
  /\ pic' = [p \in Pictures |-> [pic[p] EXCEPT !.used = @ /\ p \notin S, !.long = @ /\ p \notin S]]
  /\ slot' = [p \in Pictures |-> [slot[p] EXCEPT !.ref = @ /\ p \notin S, !.long = @ /\ p \notin S]]

is_used_for_reference(p) == slot[p].ref \/ pic[p].used

(* the frame stores behind that of p move up *)
Without(p) == LET k == CHOOSE i \in 1 .. Len(fs) : fs[i] = p
              IN [j \in 1 .. Len(fs) - 1 |-> fs[IF j < k THEN j ELSE j + 1]]

(* Mutant: the picture removed stays marked as not empty. *)
remove_frame_from_dpbKeepsPicture(p) ==
  /\ fs' = Without(p)
  /\ slot' = [slot EXCEPT ![p] = EmptySlot]
  /\ UNCHANGED pic

remove_frame_from_dpb(p) ==
  /\ fs' = Without(p)
  /\ pic' = [pic EXCEPT ![p].empty = TRUE]
  /\ slot' = [slot EXCEPT ![p] = EmptySlot]

Unused == {p \in Held : slot[p].out /\ ~is_used_for_reference(p)}

remove_unused_frame_from_dpb == Unused # {} /\ remove_frame_from_dpb(First(Unused))

(* get_smallest_poc() *)
Waiting == {p \in Held : ~slot[p].out}
(* Mutant: the first frame that waits is output, whatever its count. *)
FirstWaiting == First(Waiting)

Smallest == First({p \in Waiting : \A q \in Waiting : slot[p].poc <= slot[q].poc})

(* Mutant: the frame is removed even when it is used for reference. *)
output_one_frame_from_dpbRemoves ==
  IF Waiting = {}
    THEN pc' = "exit: no frames for output available" /\ UNCHANGED <<store, last>>
    ELSE LET p == Smallest
         IN /\ IF last >= slot[p].poc
                 THEN pc' = "exit: output POC must be in ascending order" /\ UNCHANGED last
                 ELSE UNCHANGED pc /\ last' = slot[p].poc
            /\ remove_frame_from_dpb(p)

output_one_frame_from_dpb ==
  IF Waiting = {}
    THEN pc' = "exit: no frames for output available" /\ UNCHANGED <<store, last>>
    ELSE LET p == Smallest
         IN /\ IF last >= slot[p].poc
                 THEN pc' = "exit: output POC must be in ascending order" /\ UNCHANGED last
                 ELSE UNCHANGED pc /\ last' = slot[p].poc
            /\ IF is_used_for_reference(p)
                 THEN slot' = [slot EXCEPT ![p].out = TRUE] /\ UNCHANGED <<pic, fs>>
                 ELSE remove_frame_from_dpb(p)

max(a, b) == IF a >= b THEN a ELSE b
TooManyRefs(short, long) == Cardinality(short) + Cardinality(long) > max(1, NumRefFrames)

-----------------------------------------------------------------------------
(* flush_dpb(): all frames are unmarked, those that were output are removed,  *)
(* the others are output.                                                     *)

Flush(then) == unmark_for_reference(Held) /\ pc' = then

Flushing == pc \in {"flush for idr", "flush for mmco5", "flush for sps", "flush at end"}

FlushRemoves ==
  /\ Flushing
  /\ remove_unused_frame_from_dpb
  /\ UNCHANGED <<lists, image, pc, last, mmco5>>

FlushOutputs ==
  /\ Flushing /\ fs # << >> /\ Unused = {}
  /\ output_one_frame_from_dpb
  /\ UNCHANGED <<lists, image, mmco5>>

-----------------------------------------------------------------------------
(* Reading slice headers, init_picture() *)

(* The first slice header of a picture; an IDR picture has frame_num 0.  The  *)
(* flag no_output_of_prior_pics_flag stays in img until the next IDR picture. *)
SliceHeader(idr, n, noOutput) ==
  /\ pc = "idle"
  /\ idr => n = 0
  /\ ~idr => noOutput = header.noOutput
  /\ header' = [idr |-> idr, num |-> n, noOutput |-> noOutput]
  /\ pre' = IF idr THEN n ELSE pre
  /\ pc' = "header"
  /\ UNCHANGED <<store, lists, cur, offset, last, mmco5>>

After(n) == (n + 1) % MaxFrameNum
Gap == header.num # pre /\ header.num # After(pre)

PicturesLost ==
  /\ pc = "header" /\ Gap /\ ~GapsAllowed
  /\ pc' = "exit: an unintentional loss of pictures occurs"
  /\ UNCHANGED <<store, lists, image, last, mmco5>>

(* fill_frame_num_gap(): one picture that was never coded *)
FillGap ==
  /\ pc = "header" /\ Gap /\ GapsAllowed
  /\ \E p \in Gaps \ Held :
        /\ cur' = [NoPicture EXCEPT !.frame = p, !.gap = TRUE, !.num = After(pre)]
        /\ pic' = [pic EXCEPT ![p] = [EmptyPicture EXCEPT !.used = TRUE, !.empty = FALSE]]
  /\ pre' = After(pre)
  /\ pc' = "store"
  /\ UNCHANGED <<slot, fs, lists, header, offset, last, mmco5>>

init_picture(used, adaptive, long, poc) ==
  /\ pc = "header" /\ ~Gap
  /\ header.idr => used /\ ~adaptive
  /\ ~header.idr => ~long
  /\ adaptive => used
  /\ pic' = [pic EXCEPT ![offset].empty = FALSE, ![offset].used = used]
  /\ cur' = [frame |-> offset, gap |-> FALSE, idr |-> header.idr, noOutput |-> header.noOutput,
             adaptive |-> adaptive, long |-> long, num |-> header.num, poc |-> poc]
  /\ pre' = header.num
  /\ pc' = "store"
  /\ UNCHANGED <<slot, fs, lists, header, offset, last, mmco5>>

-----------------------------------------------------------------------------
(* store_picture_in_dpb_baseline(): marking *)

(* idr_memory_management() *)
StoreIdr ==
  /\ pc = "store" /\ cur.idr
  /\ mmco5' = FALSE
  /\ IF cur.noOutput
       THEN /\ fs' = << >>
            /\ slot' = [p \in Pictures |-> EmptySlot]
            /\ pc' = "flush for idr"
            /\ UNCHANGED pic
       ELSE Flush("flush for idr") /\ UNCHANGED fs
  /\ UNCHANGED <<lists, image, last>>

IdrFlushed ==
  /\ pc = "flush for idr" /\ fs = << >>
  /\ pic' = [pic EXCEPT ![cur.frame].long = cur.long, ![cur.frame].idx = IF cur.long THEN 0 ELSE @]
  /\ last' = INT_MIN
  /\ pc' = "full"
  /\ UNCHANGED <<slot, fs, image, mmco5>>
  /\ update_ref_list /\ update_ltref_list

StoreNonReference ==
  /\ pc = "store" /\ ~pic[cur.frame].used
  /\ mmco5' = FALSE
  /\ pc' = "full"
  /\ UNCHANGED <<store, lists, image, last>>

(* Mutant: the window slides only once it is too large. *)
sliding_window_memory_managementLate ==
  /\ pc = "store" /\ ~cur.idr /\ pic[cur.frame].used /\ ~cur.adaptive
  /\ LET short == {p \in Held : slot[p].ref /\ ~slot[p].long}
         S == IF Cardinality(fs_ref) > NumRefFrames - Cardinality(fs_ltref) /\ short # {}
                THEN {First(short)} ELSE {}
     IN /\ pic' = [p \in Pictures |-> [pic[p] EXCEPT !.used = @ /\ p \notin S,
                                                     !.long = @ /\ p # cur.frame]]
        /\ slot' = [p \in Pictures |-> [slot[p] EXCEPT !.ref = @ /\ p \notin S]]
        /\ UNCHANGED fs
        /\ IF S # {} THEN update_ref_list ELSE UNCHANGED fs_ref
  /\ mmco5' = FALSE
  /\ pc' = "full"
  /\ UNCHANGED <<fs_ltref, image, last>>

sliding_window_memory_management ==
  /\ pc = "store" /\ ~cur.idr /\ pic[cur.frame].used /\ ~cur.adaptive
  /\ LET short == {p \in Held : slot[p].ref /\ ~slot[p].long}
         S == IF Cardinality(fs_ref) = NumRefFrames - Cardinality(fs_ltref) /\ short # {}
                THEN {First(short)} ELSE {}
     IN /\ pic' = [p \in Pictures |-> [pic[p] EXCEPT !.used = @ /\ p \notin S,
                                                     !.long = @ /\ p # cur.frame]]
        /\ slot' = [p \in Pictures |-> [slot[p] EXCEPT !.ref = @ /\ p \notin S]]
        /\ UNCHANGED fs
        /\ IF S # {} THEN update_ref_list ELSE UNCHANGED fs_ref
  /\ mmco5' = FALSE
  /\ pc' = "full"
  /\ UNCHANGED <<fs_ltref, image, last>>

StoreAdaptive ==
  /\ pc = "store" /\ ~cur.idr /\ pic[cur.frame].used /\ cur.adaptive
  /\ mmco5' = FALSE
  /\ pc' = "marking"
  /\ UNCHANGED <<store, lists, image, last>>

(* The PicNum init_lists_baseline() gave a short-term reference. *)
PicNum(p) == IF slot[p].num > cur.num THEN slot[p].num - MaxFrameNum ELSE slot[p].num
PicNumX(d) == cur.num - (d + 1)

(* adaptive_memory_management(): its loop, one command of the stream at a time *)
Marking == pc = "marking" /\ UNCHANGED <<fs, image, last>>

FirstOf(T) == IF T = {} THEN {} ELSE {First(T)}

mm_unmark_short_term_for_reference(d) ==
  /\ Marking
  /\ unmark_for_reference(FirstOf({p \in fs_ref : slot[p].ref /\ ~slot[p].long /\ PicNum(p) = PicNumX(d)}))
  /\ update_ref_list
  /\ UNCHANGED <<fs_ltref, pc, mmco5>>

mm_unmark_long_term_for_reference(n) ==
  /\ Marking
  /\ unmark_for_long_term_reference({p \in fs_ltref : slot[p].ref /\ slot[p].long /\ pic[p].idx = n})
  /\ update_ltref_list
  /\ UNCHANGED <<fs_ref, pc, mmco5>>

WithIdx(i) == {p \in fs_ltref : slot[p].idx = i}

mm_assign_long_term_frame_idx(d, i) ==
  /\ Marking
  /\ LET U == WithIdx(i)
         M == FirstOf({p \in fs_ref \ U : slot[p].ref /\ ~pic[p].long /\ PicNum(p) = PicNumX(d)})
     IN /\ pic' = [p \in Pictures |->
                     [pic[p] EXCEPT !.used = @ /\ p \notin U, !.long = (@ /\ p \notin U) \/ p \in M,
                                    !.idx = IF p \in M THEN i ELSE @]]
        /\ slot' = [p \in Pictures |->
                      [slot[p] EXCEPT !.ref = @ /\ p \notin U, !.long = (@ /\ p \notin U) \/ p \in M,
                                      !.idx = IF p \in M THEN i ELSE @]]
  /\ update_ref_list /\ update_ltref_list
  /\ UNCHANGED <<pc, mmco5>>

mm_update_max_long_term_frame_idx(m) ==
  /\ Marking
  /\ unmark_for_long_term_reference({p \in fs_ltref : slot[p].idx > m - 1})
  /\ update_ltref_list
  /\ UNCHANGED <<fs_ref, pc, mmco5>>

(* command 5: fs_ltref is not brought up to date *)
UnmarkAll ==
  /\ Marking
  /\ pic' = [p \in Pictures |-> [pic[p] EXCEPT !.used = @ /\ p \notin fs_ref \cup fs_ltref,
                                               !.long = @ /\ p \notin fs_ltref]]
  /\ slot' = [p \in Pictures |-> [slot[p] EXCEPT !.ref = @ /\ p \notin fs_ref \cup fs_ltref,
                                                 !.long = @ /\ p \notin fs_ltref]]
  /\ update_ref_list
  /\ mmco5' = TRUE
  /\ UNCHANGED <<fs_ltref, pc>>

(* command 6: fs_ltref is not brought up to date *)
mm_mark_current_picture_long_term(i) ==
  /\ Marking
  /\ LET U == WithIdx(i)
     IN /\ pic' = [p \in Pictures |->
                     [pic[p] EXCEPT !.used = @ /\ p \notin U, !.long = (@ /\ p \notin U) \/ p = cur.frame,
                                    !.idx = IF p = cur.frame THEN i ELSE @]]
        /\ slot' = [p \in Pictures |->
                      [slot[p] EXCEPT !.ref = @ /\ p \notin U, !.long = @ /\ p \notin U]]
  /\ pc' = IF TooManyRefs(fs_ref, fs_ltref) THEN "exit: too many reference frames" ELSE pc
  /\ UNCHANGED <<lists, mmco5>>

MarkingEnds ==
  /\ pc = "marking"
  /\ IF mmco5
       THEN /\ cur' = [cur EXCEPT !.num = 0, !.poc = 0]
            /\ Flush("flush for mmco5")
       ELSE pc' = "full" /\ UNCHANGED <<pic, slot, cur>>
  /\ UNCHANGED <<fs, lists, header, offset, pre, last, mmco5>>

Mmco5Flushed ==
  /\ pc = "flush for mmco5" /\ fs = << >>
  /\ last' = INT_MIN
  /\ pc' = "full"
  /\ UNCHANGED <<store, lists, image, mmco5>>

-----------------------------------------------------------------------------
(* store_picture_in_dpb_baseline(): making room, and storing *)

(* Mutant: frames no longer used are not removed first. *)
RemoveUnusedSkipped ==
  /\ pc = "full"
  /\ pc' = "output"
  /\ UNCHANGED <<store, lists, image, last, mmco5>>

RemoveUnused ==
  /\ pc = "full"
  /\ IF Len(fs) = Size /\ Unused # {}
       THEN remove_unused_frame_from_dpb
       ELSE UNCHANGED store
  /\ pc' = "output"
  /\ UNCHANGED <<lists, image, last, mmco5>>

OutputOne ==
  /\ pc = "output" /\ Len(fs) = Size
  /\ output_one_frame_from_dpb
  /\ UNCHANGED <<lists, image, mmco5>>

Duplicate == /\ pic[cur.frame].used /\ ~pic[cur.frame].long
             /\ \E p \in fs_ref : slot[p].num = cur.num

DuplicateFrameNum ==
  /\ pc = "output" /\ Len(fs) < Size /\ Duplicate
  /\ pc' = "exit: duplicate frame_num"
  /\ UNCHANGED <<store, lists, image, last, mmco5>>

(* Mutant: a picture is inserted past the last frame store. *)
InsertOneMore ==
  /\ pc = "output" /\ Len(fs) <= Size /\ ~Duplicate
  /\ fs' = Append(fs, cur.frame)
  /\ slot' = [slot EXCEPT ![cur.frame] = [EmptySlot EXCEPT !.num = cur.num, !.poc = cur.poc]]
  /\ UNCHANGED <<pic, header, offset, last, mmco5, pre>>
  /\ update_ref_list /\ update_ltref_list
  /\ pc' = "next"
  /\ cur' = NoPicture

(* Mutant: the list of long-term references is not brought up to date. *)
InsertOldList ==
  /\ pc = "output" /\ Len(fs) < Size /\ ~Duplicate
  /\ fs' = Append(fs, cur.frame)
  /\ LET p == pic[cur.frame]
     IN slot' = [slot EXCEPT ![cur.frame] =
                   [ref |-> p.used, long |-> p.used /\ p.long, idx |-> p.idx,
                    num |-> cur.num, poc |-> cur.poc, out |-> cur.gap]]
  /\ UNCHANGED <<pic, fs_ltref, header, offset, last, mmco5>>
  /\ update_ref_list
  /\ pc' = IF cur.gap THEN "header" ELSE "next"
  /\ cur' = NoPicture
  /\ pre' = IF mmco5 THEN 0 ELSE pre

(* insert_picture_in_dpb_baseline(), check_num_ref(), and back to            *)
(* fill_frame_num_gap() or to exit_picture()                                 *)
Insert ==
  /\ pc = "output" /\ Len(fs) < Size /\ ~Duplicate
  /\ fs' = Append(fs, cur.frame)
  /\ LET p == pic[cur.frame]
     IN slot' = [slot EXCEPT ![cur.frame] =
                   [ref |-> p.used, long |-> p.used /\ p.long, idx |-> p.idx,
                    num |-> cur.num, poc |-> cur.poc, out |-> cur.gap]]
  /\ UNCHANGED <<pic, header, offset, last, mmco5>>
  /\ update_ref_list /\ update_ltref_list
  /\ pc' = IF TooManyRefs(fs_ref', fs_ltref') THEN "exit: too many reference frames"
           ELSE IF cur.gap THEN "header" ELSE "next"
  /\ cur' = NoPicture
  /\ pre' = IF mmco5 THEN 0 ELSE pre

(* Mutant: the next picture of the pool is taken without a look at is_empty. *)
NextPictureUnchecked ==
  /\ pc = "next"
  /\ offset' = (offset + 1) % (Size + 1)
  /\ pc' = "idle"
  /\ header' = [NoHeader EXCEPT !.noOutput = header.noOutput]
  /\ UNCHANGED <<store, lists, cur, pre, last, mmco5>>

(* exit_picture(): the next picture of the pool, until an empty one is found *)
NextPicture ==
  /\ pc = "next"
  /\ offset' = (offset + 1) % (Size + 1)
  /\ pc' = IF pic[offset'].empty THEN "idle" ELSE "next"
  /\ header' = [NoHeader EXCEPT !.noOutput = header.noOutput]
  /\ UNCHANGED <<store, lists, cur, pre, last, mmco5>>

-----------------------------------------------------------------------------
(* activate_sps_baseline() with another SPS, and the end of main() *)

(* It is activated before the rest of the slice header is read: the flag is   *)
(* that of the IDR picture before.                                            *)
NewSps ==
  /\ pc = "idle"
  /\ IF header.noOutput
       THEN fs' = << >> /\ slot' = [p \in Pictures |-> EmptySlot] /\ pc' = "flush for sps" /\ UNCHANGED pic
       ELSE Flush("flush for sps") /\ UNCHANGED fs
  /\ UNCHANGED <<lists, image, last, mmco5>>

init_dpb ==
  /\ pc = "flush for sps" /\ fs = << >>
  /\ pic' = [p \in Pictures |-> EmptyPicture]
  /\ slot' = [p \in Pictures |-> EmptySlot]
  /\ fs_ref' = {} /\ fs_ltref' = {}
  /\ offset' = 0
  /\ last' = INT_MIN
  /\ mmco5' = FALSE
  /\ pc' = "idle"
  /\ UNCHANGED <<fs, cur, header, pre>>

EndOfStream ==
  /\ pc = "idle"
  /\ Flush("flush at end")
  /\ UNCHANGED <<fs, lists, image, last, mmco5>>

EndFlushed ==
  /\ pc = "flush at end" /\ fs = << >>
  /\ last' = INT_MIN
  /\ pc' = "done"
  /\ UNCHANGED <<store, lists, image, mmco5>>

-----------------------------------------------------------------------------
Command ==
  \/ 1 \in Commands /\ \E d \in FrameNums : mm_unmark_short_term_for_reference(d)
  \/ 2 \in Commands /\ \E n \in LongIdx : mm_unmark_long_term_for_reference(n)
  \/ 3 \in Commands /\ \E d \in FrameNums, i \in LongIdx : mm_assign_long_term_frame_idx(d, i)
  \/ 4 \in Commands /\ \E m \in LongIdx : mm_update_max_long_term_frame_idx(m)
  \/ 5 \in Commands /\ UnmarkAll
  \/ 6 \in Commands /\ \E i \in LongIdx : mm_mark_current_picture_long_term(i)

Stream ==
  \/ \E idr \in BOOLEAN, n \in FrameNums, noOutput \in NoOutput : SliceHeader(idr, n, noOutput)
  \/ \E used \in BOOLEAN, adaptive \in Adaptive, long \in LongTerm, poc \in Pocs :
       init_picture(used, adaptive, long, poc)
  \/ Command
  \/ NewSps
  \/ EndOfStream

Decoder ==
  \/ PicturesLost \/ FillGap
  \/ StoreIdr \/ IdrFlushed \/ StoreNonReference
  \/ sliding_window_memory_management
  \/ StoreAdaptive \/ MarkingEnds \/ Mmco5Flushed
  \/ FlushRemoves \/ FlushOutputs
  \/ RemoveUnused \/ OutputOne \/ DuplicateFrameNum \/ Insert
  \/ NextPicture
  \/ init_dpb \/ EndFlushed

Next == Stream \/ Decoder

Spec == Init /\ [][Next]_vars

(* The decoder does its steps, and the list of commands of a picture ends.   *)
FairSpec == Spec /\ WF_vars(Decoder) /\ WF_vars(MarkingEnds)
-----------------------------------------------------------------------------
(* The marks of a picture and of its frame store, the lists, the program      *)
(* counter and the picture at hand keep their types.                          *)
TypeOK ==
  /\ pic \in [Pictures -> [used : BOOLEAN, long : BOOLEAN, idx : LongIdx, empty : BOOLEAN]]
  /\ slot \in [Pictures -> [ref : BOOLEAN, long : BOOLEAN, idx : LongIdx,
                            num : FrameNums, poc : Pocs, out : BOOLEAN]]
  /\ fs \in Seq(Pictures) /\ Len(fs) <= Size
  /\ fs_ref \subseteq Pictures /\ fs_ltref \subseteq Pictures
  /\ cur \in [frame : Pictures, gap : BOOLEAN, idr : BOOLEAN, noOutput : BOOLEAN,
               adaptive : BOOLEAN, long : BOOLEAN, num : FrameNums, poc : Pocs]
  /\ header \in [idr : BOOLEAN, num : FrameNums, noOutput : BOOLEAN]
  /\ offset \in Pool /\ pre \in FrameNums /\ last \in Pocs \cup {INT_MIN}
  /\ mmco5 \in BOOLEAN
  /\ pc \in Active \cup Exits

(* While a picture is decoded and stored it is not in the buffer, the buffer  *)
(* holds no picture twice, and the next picture is decoded into one that is   *)
(* empty and not held: no frame that waits for output or is referred to is    *)
(* overwritten.                                                               *)
SafeRecycling ==
  /\ \A j, k \in 1 .. Len(fs) : fs[j] = fs[k] => j = k
  /\ pc \in Storing => cur.frame \notin Held /\ ~pic[cur.frame].empty
  /\ \A p \in Held : ~pic[p].empty
  /\ pc \in {"idle", "header"} => pic[offset].empty

(* Every picture of the pool that is not empty is held or being stored: the   *)
(* pool of Size + 1 pictures never runs out, and the search for an empty one  *)
(* at the end of a picture succeeds.                                          *)
PoolAccounted ==
  pc \notin Exits =>
    \A p \in Pool : ~pic[p].empty => p \in Held \/ (pc \in Storing /\ p = cur.frame)

(* The flags of a frame store and of the picture it holds say the same.       *)
MarksAgree ==
  \A p \in Held : /\ slot[p].ref = pic[p].used
                  /\ slot[p].ref => slot[p].long = pic[p].long
                  /\ slot[p].ref /\ slot[p].long => slot[p].idx = pic[p].idx

(* Between pictures the reference lists hold the references of the buffer,    *)
(* short-term and long-term, and no more of them than the SPS allows: a       *)
(* picture is never predicted from one that was unmarked or removed.          *)
ListsCurrent ==
  pc \in {"idle", "header"} =>
    /\ fs_ref = {p \in Held : pic[p].used /\ ~pic[p].long}
    /\ fs_ltref = {p \in Held : pic[p].used /\ pic[p].long}
    /\ ~TooManyRefs(fs_ref, fs_ltref)

(* A picture leaves the buffer only when it is no reference and was written,  *)
(* or is written in the same step.                                            *)
KeepsReferences ==
  [][\A p \in Held \ Held' : /\ ~is_used_for_reference(p)
                            /\ (slot[p].out \/ last' = slot[p].poc \/ pc' \in Exits)]_vars

(* "then output frames until one can be removed" (mbuffer.c:1979): making     *)
(* room never finds the buffer full of pictures that were all output.         *)
OutputMakesRoom == pc # "exit: no frames for output available"

(* The sliding window keeps the references within num_ref_frames: storing a  *)
(* picture that it marked never ends the program with too many of them.       *)
WindowSlides == [][~cur.adaptive => pc' # "exit: too many reference frames"]_vars

(* "remove long term pictures with same long_term_frame_idx"                  *)
(* (mbuffer.c:1816): no two references share an index.                        *)
LongIndexUnique ==
  pc = "idle" => \A p, q \in fs_ltref : slot[p].idx = slot[q].idx => p = q

(* Every picture stored, but those that fill gaps, is written once, in the    *)
(* order of their counts, all of a sequence before the next one starts.       *)
Output == INSTANCE PictureOutput
            WITH waiting <- {<<p, slot[p].poc>> : p \in Waiting},
                 running <- pc \notin Exits
WritesInOrder == Output!Spec

(* A picture whose slice header was read is decoded and stored and an empty   *)
(* one found for the next, or the decoder exits.                              *)
PictureCompletes == pc = "store" /\ ~cur.gap ~> pc = "idle" \/ pc \in Exits

(* "check the is_empty flag and select the next dpb buffer pointer to be used *)
(* for the reconstruction of the frame" (image.c:743): there is an empty one. *)
EmptyPictureLeft == pc = "next" => \E p \in Pool : pic[p].empty

(* Every picture of the pool is where it should be: held and not decoded     *)
(* over, or empty.                                                           *)
PoolSafe == SafeRecycling /\ PoolAccounted

(* Flags, lists and marks tell the same, whatever the order of commands.     *)
MarkingRight == MarksAgree /\ ListsCurrent
=============================================================================
