------------------------------ MODULE PicOrder ------------------------------
(***************************************************************************)
(* The picture order count (header.c, decode_poc()) with what it is        *)
(* computed from: frame_num and its gaps (image.c, mbuffer.c) and the      *)
(* reset by memory management command 5.  A sender numbers its pictures as *)
(* the standard says, and may leave out frame numbers.                     *)
(***************************************************************************)
EXTENDS Integers, Sequences, FiniteSets, FiniteSetsExt

CONSTANTS PocSps,              \* sequence parameter sets: pic_order_cnt_type and the offsets of
                               \* type 1; gaps in frame_num are allowed
          MaxFrameNum, MaxPicOrderCntLsb,
          PocSteps,            \* bound: how far a picture's count is from the last reference's
          BottomDeltas,        \* bound: delta_pic_order_cnt_bottom
          Skips,               \* bound: frame numbers left out before a picture
          MaxPictures          \* bound: pictures sent
ASSUME PicOrderAssumption ==
  /\ MaxFrameNum \in Nat \ {0, 1} /\ MaxPicOrderCntLsb \in Nat \ {0}
  /\ PocSps \subseteq [pic_order_cnt_type : 0 .. 2, offset_for_ref_frame : Seq(Int),
                       offset_for_non_ref_pic : Int, offset_for_top_to_bottom_field : Int]
  /\ \A d \in PocSteps : d \in Int /\ -MaxPicOrderCntLsb < 2 * d /\ 2 * d <= MaxPicOrderCntLsb
  /\ \A b \in BottomDeltas : b \in Int /\ -b < MaxPicOrderCntLsb
  /\ Skips \subseteq 0 .. MaxFrameNum - 2 /\ MaxPictures \in Nat

VARIABLES pocSps,              \* the active one
          sender,              \* what the sender counts, without any wrap
          img,                 \* the decoder's counters
          ordered,             \* history: true and decoded count of each picture
                               \* since all counts started again
          oddities             \* history: what happened since then that shifts the counts
pocVars == <<pocSps, sender, img, ordered, oddities>>

Mode == pocSps.pic_order_cnt_type

-----------------------------------------------------------------------------
(* decode_poc(), for a picture with that header.                            *)
(* Mutant: half the range counts as a step back.                            *)
MsbHalfBack(lsb, prevMsb, prevLsb) ==
  CASE lsb < prevLsb /\ 2 * (prevLsb - lsb) > MaxPicOrderCntLsb -> prevMsb + MaxPicOrderCntLsb
    [] lsb > prevLsb /\ 2 * (lsb - prevLsb) > MaxPicOrderCntLsb -> prevMsb - MaxPicOrderCntLsb
    [] OTHER -> prevMsb
Msb(lsb, prevMsb, prevLsb) ==
  CASE lsb < prevLsb /\ 2 * (prevLsb - lsb) >= MaxPicOrderCntLsb -> prevMsb + MaxPicOrderCntLsb
    [] lsb > prevLsb /\ 2 * (lsb - prevLsb) > MaxPicOrderCntLsb -> prevMsb - MaxPicOrderCntLsb
    [] OTHER -> prevMsb

WithPoc(m, top, bottom) ==
  [m EXCEPT !.toppoc = top, !.bottompoc = bottom, !.framepoc = Min({top, bottom})]
PocMode0(m, h) ==
  LET prevMsb == IF h.idr \/ m.last_has_mmco_5 THEN 0 ELSE m.PrevPicOrderCntMsb
      prevLsb == IF h.idr THEN 0 ELSE IF m.last_has_mmco_5 THEN m.toppoc ELSE m.PrevPicOrderCntLsb
      msb == Msb(h.lsb, prevMsb, prevLsb)
      top == msb + h.lsb
      n == WithPoc([m EXCEPT !.PreviousFrameNum = m.frame_num], top, top + h.bottom)
  IN  [n EXCEPT !.PrevPicOrderCntMsb = IF h.disposable THEN prevMsb ELSE msb,
                !.PrevPicOrderCntLsb = IF h.disposable THEN prevLsb ELSE h.lsb]

(* The frame numbers so far, as long as they wrap at most once between calls. *)
OffsetNow(m, h) ==
  IF h.idr THEN 0
  ELSE LET prevNum == IF m.last_has_mmco_5 THEN 0 ELSE m.PreviousFrameNum
           prevOffset == IF m.last_has_mmco_5 THEN 0 ELSE m.PreviousFrameNumOffset
       IN  prevOffset + (IF m.frame_num < prevNum THEN MaxFrameNum ELSE 0)

PartialSums(f, n) == LET Sum[k \in 0 .. n] == IF k = 0 THEN 0 ELSE Sum[k - 1] + f[k] IN Sum
SumTo(offsets, n) == PartialSums(offsets, n)[n]
ExpectedPoc(n, disposable) ==
  LET offsets == pocSps.offset_for_ref_frame
      cycle == Len(offsets)
      counted == IF cycle = 0 THEN 0 ELSE n
      abs == IF disposable /\ counted > 0 THEN counted - 1 ELSE counted
  IN  (IF abs = 0 THEN 0
       ELSE ((abs - 1) \div cycle) * SumTo(offsets, cycle) + SumTo(offsets, ((abs - 1) % cycle) + 1))
      + (IF disposable THEN pocSps.offset_for_non_ref_pic ELSE 0)
PocMode1(m, h) ==
  LET top == ExpectedPoc(OffsetNow(m, h) + m.frame_num, h.disposable) + (IF h.idr THEN 0 ELSE h.delta)
  IN  WithPoc([m EXCEPT !.PreviousFrameNum = m.frame_num, !.PreviousFrameNumOffset = OffsetNow(m, h)],
              top, top + pocSps.offset_for_top_to_bottom_field + h.bottom)

(* Only a reference picture's frame_num is remembered here.                 *)
PocMode2(m, h) ==
  LET poc == IF h.idr THEN 0
             ELSE 2 * (OffsetNow(m, h) + m.frame_num) - (IF h.disposable THEN 1 ELSE 0)
      prevNum == IF ~h.disposable THEN m.frame_num
                 ELSE IF ~h.idr /\ m.last_has_mmco_5 THEN 0 ELSE m.PreviousFrameNum
  IN  WithPoc([m EXCEPT !.PreviousFrameNum = prevNum, !.PreviousFrameNumOffset = OffsetNow(m, h)],
              poc, poc)

decode_poc(m, h) ==
  CASE Mode = 0 -> PocMode0(m, h) [] Mode = 1 -> PocMode1(m, h) [] Mode = 2 -> PocMode2(m, h)

-----------------------------------------------------------------------------
(* RestOfSliceHeader_baseline(), init_picture() and fill_frame_num_gap(): a   *)
(* picture that is neither the last one's frame_num nor the next one's finds  *)
(* a gap, which is filled with pictures of their own, each counted.          *)
WithHeader(m, h) == [m EXCEPT !.frame_num = h.frame_num, !.pre_frame_num = IF h.idr THEN h.frame_num ELSE @]
Gap(m) == m.frame_num # m.pre_frame_num /\ m.frame_num # (m.pre_frame_num + 1) % MaxFrameNum
Filler(m, num, h) ==
  LET counted == IF Mode = 0 THEN [m EXCEPT !.frame_num = num]
                 ELSE decode_poc([m EXCEPT !.frame_num = num], [h EXCEPT !.delta = 0, !.bottom = 0])
  IN  [counted EXCEPT !.last_has_mmco_5 = FALSE, !.pre_frame_num = num]
Unsent(m) == (m.frame_num - m.pre_frame_num - 1) % MaxFrameNum
Filled(m, h) ==
  LET After[k \in 0 .. Unsent(m)] ==
        IF k = 0 THEN m ELSE Filler(After[k - 1], (m.pre_frame_num + k) % MaxFrameNum, h)
  IN  After
FillGap(m, h) == [Filled(m, h)[Unsent(m)] EXCEPT !.frame_num = m.frame_num]
init_picture(m, h) ==
  LET n == IF Gap(m) THEN FillGap(m, h) ELSE m
  IN  decode_poc([n EXCEPT !.pre_frame_num = m.frame_num], h)

(* exit_picture() with what store_picture_in_dpb() does to the counts: after  *)
(* command 5 the picture's own count is taken off.                          *)
exit_picture(m, h) ==
  IF h.mmco5
  THEN [WithPoc(m, m.toppoc - m.framepoc, m.bottompoc - m.framepoc)
          EXCEPT !.last_has_mmco_5 = TRUE, !.pre_frame_num = 0]
  ELSE [m EXCEPT !.last_has_mmco_5 = FALSE]

-----------------------------------------------------------------------------
(* The sender.  num is the frame number of the last reference picture, base   *)
(* its top count, both counted on from the last reset; numbers not sent count *)
(* as reference pictures.                                                   *)
TrueExpected(num, disposable) ==
  LET offsets == pocSps.offset_for_ref_frame
      refs == IF disposable /\ num > 0 THEN num - 1 ELSE num
  IN  IF Len(offsets) = 0 THEN 0
      ELSE PartialSums([k \in 1 .. refs |-> offsets[((k - 1) % Len(offsets)) + 1]], refs)[refs]
TrueTop(idr, num, disposable, step) ==
  CASE Mode = 0 -> (IF idr THEN 0 ELSE sender.base + step)
    [] Mode = 1 -> TrueExpected(num, disposable) + (IF idr THEN 0 ELSE step)
                   + (IF disposable THEN pocSps.offset_for_non_ref_pic ELSE 0)
    [] Mode = 2 -> 2 * num - (IF disposable THEN 1 ELSE 0)
TrueBottom(top, bottom) ==
  top + (CASE Mode = 0 -> bottom [] Mode = 1 -> pocSps.offset_for_top_to_bottom_field + bottom [] Mode = 2 -> 0)

(* One picture: kinds are "idr", "ref", "non-ref" and "mmco5".                *)
PicInit ==
  /\ pocSps \in PocSps
  /\ sender = [num |-> 0, base |-> 0, disposable |-> FALSE, pictures |-> 0]
  /\ img = [frame_num |-> 0, pre_frame_num |-> 0, PrevPicOrderCntMsb |-> 0, PrevPicOrderCntLsb |-> 0,
            PreviousFrameNum |-> 0, PreviousFrameNumOffset |-> 0, last_has_mmco_5 |-> FALSE,
            toppoc |-> 0, bottompoc |-> 0, framepoc |-> 0]
  /\ ordered = <<>> /\ oddities = {}

Steps(kind) == IF Mode = 2 \/ kind = "idr" THEN {0} ELSE PocSteps
Picture(kind, step, bottom, skip) ==
  LET idr == kind = "idr"
      disposable == kind = "non-ref"
      num == IF idr THEN 0 ELSE sender.num + 1 + skip
      top == TrueTop(idr, num, disposable, step)
      true == Min({top, TrueBottom(top, bottom)})
      h == [idr |-> idr, disposable |-> disposable, mmco5 |-> kind = "mmco5",
            frame_num |-> num % MaxFrameNum, lsb |-> top % MaxPicOrderCntLsb,
            delta |-> step, bottom |-> bottom]
      read == WithHeader(img, h)
      restart == kind \in {"idr", "mmco5"}
  IN  /\ Mode = 2 => ~(disposable /\ sender.disposable)
      /\ idr \/ \A k \in 1 .. Len(ordered) : ordered[k].true # true /\ true > ordered[1].true
      /\ \E m \in {init_picture(read, h)} :
           /\ img' = exit_picture(m, h)
           /\ sender' = [num |-> IF disposable THEN num - 1 ELSE IF restart THEN 0 ELSE num,
                         base |-> IF disposable THEN sender.base
                                  ELSE IF kind = "mmco5" THEN top - true ELSE top,
                         disposable |-> disposable, pictures |-> sender.pictures + 1]
           /\ ordered' = (IF restart THEN <<[true |-> IF idr THEN true ELSE 0, got |-> img'.framepoc]>>
                          ELSE Append(ordered, [true |-> true, got |-> m.framepoc]))
      /\ oddities' = (IF restart THEN {} ELSE oddities)
           \cup (IF img.last_has_mmco_5 /\ Gap(read) THEN {"gap after command 5"} ELSE {})
           \cup (IF disposable /\ read.frame_num < img.PreviousFrameNum THEN {"wrap at a non-reference"} ELSE {})
           \cup (IF disposable /\ Gap(read) THEN {"gap before a non-reference"} ELSE {})
DecodePicture ==
  /\ sender.pictures < MaxPictures
  /\ \E kind \in (IF sender.pictures = 0 THEN {"idr"} ELSE {"idr", "ref", "non-ref", "mmco5"}) :
     \E step \in Steps(kind), bottom \in (IF Mode = 2 \/ kind = "idr" THEN {0} ELSE BottomDeltas),
        skip \in (IF kind = "idr" THEN {0} ELSE Skips) : Picture(kind, step, bottom, skip)
  /\ UNCHANGED pocSps
PicNext == DecodePicture
PicSpec == PicInit /\ [][PicNext]_pocVars

-----------------------------------------------------------------------------
(* header.c:452-621, mbuffer.c:1896-1917, mbuffer.c:2585-2634: however the     *)
(* counts wrap, whatever frame numbers are left out and wherever command 5     *)
(* starts them again, pictures come out in the order they were given, unless a *)
(* gap follows command 5 (type 0) or comes before a non-reference (type 2).    *)
SameOrder ==
  (CASE Mode = 0 -> "gap after command 5" \notin oddities [] Mode = 1 -> TRUE
     [] Mode = 2 -> "gap before a non-reference" \notin oddities) =>
  \A i, j \in 1 .. Len(ordered) : ordered[i].true < ordered[j].true <=> ordered[i].got < ordered[j].got
(* The counts themselves are the sender's but in two cases: a gap right after  *)
(* command 5 makes type 0 forget the command, and type 2 adds MaxFrameNum      *)
(* again for each picture after a non-reference one at the wrap.               *)
SameCounts ==
  (CASE Mode = 0 -> "gap after command 5" \notin oddities [] Mode = 1 -> TRUE
     [] Mode = 2 -> oddities = {}) => \A k \in 1 .. Len(ordered) : ordered[k].got = ordered[k].true
(* decode_poc(), fill_frame_num_gap(), store_picture_in_dpb(): order and counts *)
(* both, each outside the cases named for it.                                  *)
OrderRight == SameOrder /\ SameCounts
=============================================================================
