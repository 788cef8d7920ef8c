---------------------------- MODULE SliceDecoding ----------------------------
(***************************************************************************)
(* How slices become pictures (image.c, macroblock.c): decode_one_frame()  *)
(* reads slice after slice, the first one of a picture opens it, every     *)
(* slice decodes macroblocks of one slice group in scan order, and the     *)
(* picture is closed when as many macroblocks were decoded as it has, or   *)
(* when a slice of another picture comes first.  Slices of a picture may   *)
(* come in any order and may be lost.  Which slice group a macroblock       *)
(* belongs to (fmo.c) a picture parameter set tells: a record with the      *)
(* number of groups, the type of the map and what that type needs.         *)
(***************************************************************************)
EXTENDS Integers, Sequences, FiniteSets, FiniteSetsExt

CONSTANTS FrameWidthInMbs, FrameHeightInMbs
ASSUME SliceGroupsAssumption ==
  FrameWidthInMbs \in Nat \ {0} /\ FrameHeightInMbs \in Nat \ {0}

FrameSizeInMbs == FrameWidthInMbs * FrameHeightInMbs
Mbs == 0 .. FrameSizeInMbs - 1
ColumnOf(u) == u % FrameWidthInMbs
RowOf(u) == u \div FrameWidthInMbs

(* Runs of the groups in turn, again and again until the picture is full.   *)
Type0Map(pps) ==
  LET RunsTo[g \in 0 .. pps.groups] == IF g = 0 THEN 0 ELSE RunsTo[g - 1] + pps.run_length[g]
      round_ == RunsTo[pps.groups]
  IN  [u \in Mbs |-> Min({g \in 0 .. pps.groups - 1 : u % round_ < RunsTo[g + 1]})]

(* A checkerboard, each row shifted by half the number of groups.           *)
Type1Map(pps) ==
  [u \in Mbs |-> (ColumnOf(u) + ((RowOf(u) * pps.groups) \div 2)) % pps.groups]

(* Rectangles, the first one on top; the rest is the last group's.          *)
InRectangle(u, from, to) ==
  ColumnOf(u) \in ColumnOf(from) .. ColumnOf(to) /\ RowOf(u) \in RowOf(from) .. RowOf(to)
Type2Map(pps) ==
  [u \in Mbs |->
     Min({g \in 0 .. pps.groups - 2 : InRectangle(u, pps.top_left[g + 1], pps.bottom_right[g + 1])}
         \cup {pps.groups - 1})]

(* Types 3 to 5 have two groups, the first of which grows with the cycle    *)
(* the slice header tells.                                                  *)
UnitsInGroup0(pps, cycle) == Min({pps.change_rate * cycle, FrameSizeInMbs})
SizeOfUpperLeft(pps, cycle) ==
  IF pps.flag = 1 THEN FrameSizeInMbs - UnitsInGroup0(pps, cycle) ELSE UnitsInGroup0(pps, cycle)

(* Box-out: a spiral from the middle.  One pass of the loop; a unit that     *)
(* was met before, as happens along the border, is passed over.             *)
Vacant == 2
Pass(s, flag, size0) ==
  LET at == s.y * FrameWidthInMbs + s.x
      vacant == s.map[at] = Vacant
      t == [s EXCEPT !.map[at] = IF vacant THEN (IF s.k >= size0 THEN 1 ELSE 0) ELSE @,
                     !.k = IF vacant THEN @ + 1 ELSE @]
      Turned(xDir, yDir) == [t EXCEPT !.xDir = xDir, !.yDir = yDir]
      left == Max({s.left - 1, 0})
      right == Min({s.right + 1, FrameWidthInMbs - 1})
      top == Max({s.top - 1, 0})
      bottom == Min({s.bottom + 1, FrameHeightInMbs - 1})
  IN  CASE s.xDir = -1 /\ s.x = s.left -> [Turned(0, 2 * flag - 1) EXCEPT !.left = left, !.x = left]
        [] s.xDir = 1 /\ s.x = s.right -> [Turned(0, 1 - 2 * flag) EXCEPT !.right = right, !.x = right]
        [] s.yDir = -1 /\ s.y = s.top -> [Turned(1 - 2 * flag, 0) EXCEPT !.top = top, !.y = top]
        [] s.yDir = 1 /\ s.y = s.bottom -> [Turned(2 * flag - 1, 0) EXCEPT !.bottom = bottom, !.y = bottom]
        [] OTHER -> [t EXCEPT !.x = @ + s.xDir, !.y = @ + s.yDir]

Middle(size, flag) == (size - flag) \div 2
MostPasses == 4 * FrameSizeInMbs
BoxOut(flag, size0) ==
  LET x0 == Middle(FrameWidthInMbs, flag)
      y0 == Middle(FrameHeightInMbs, flag)
      Walk[n \in 0 .. MostPasses] ==
        IF n = 0
        THEN [map |-> [u \in Mbs |-> Vacant], k |-> 0, x |-> x0, y |-> y0, left |-> x0, right |-> x0,
              top |-> y0, bottom |-> y0, xDir |-> flag - 1, yDir |-> flag]
        ELSE CHOOSE t \in {IF s.k < FrameSizeInMbs THEN Pass(s, flag, size0) ELSE s : s \in {Walk[n - 1]}} : TRUE
  IN  Walk[MostPasses].map
Type3Map(pps, cycle) == BoxOut(pps.flag, UnitsInGroup0(pps, cycle))

(* Raster scan, and wipe: down the columns.                                 *)
Type4Map(pps, cycle) ==
  [u \in Mbs |-> IF u < SizeOfUpperLeft(pps, cycle) THEN pps.flag ELSE 1 - pps.flag]
Type5Map(pps, cycle) ==
  [u \in Mbs |-> IF ColumnOf(u) * FrameHeightInMbs + RowOf(u) < SizeOfUpperLeft(pps, cycle)
                 THEN 1 - pps.flag ELSE pps.flag]
Type6Map(pps) == [u \in Mbs |-> pps.slice_group_id[u + 1]]

MapUnitToSliceGroupMap(pps, cycle) ==
  CASE pps.groups = 1 -> [u \in Mbs |-> 0]
    [] pps.groups > 1 /\ pps.type = 0 -> Type0Map(pps)
    [] pps.groups > 1 /\ pps.type = 1 -> Type1Map(pps)
    [] pps.groups > 1 /\ pps.type = 2 -> Type2Map(pps)
    [] pps.groups > 1 /\ pps.type = 3 -> Type3Map(pps, cycle)
    [] pps.groups > 1 /\ pps.type = 4 -> Type4Map(pps, cycle)
    [] pps.groups > 1 /\ pps.type = 5 -> Type5Map(pps, cycle)
    [] pps.groups > 1 /\ pps.type = 6 -> Type6Map(pps)

-----------------------------------------------------------------------------
CONSTANTS ParameterSets,       \* picture parameter sets
          Cycles,              \* slice_group_change_cycle of a slice header
          MaxCuts,             \* bound: slices that end before their group does
          MaxLost,             \* bound: slices lost, of each picture
          HalfChar             \* 2^7: a char holds -HalfChar .. HalfChar - 1
ASSUME SliceDecodingAssumption ==
  /\ MaxCuts \in Nat /\ MaxLost \in Nat /\ HalfChar \in Nat \ {0}
  /\ \A p \in ParameterSets : p.groups \in Nat \ {0}

(* The stream: the parameter set and cycle of its picture, what of it went   *)
(* by, and how many cuts and losses there were.                             *)
VARIABLES stream
(* The decoder's img: the map, the counters and the slice of each macroblock. *)
VARIABLES MbToSliceGroupMap, current_mb_nr, current_slice_nr, num_dec_mb, slice_nr,
          dec_picture,         \* the picture that is open, or NoPicture
          old_slice            \* the picture of the last slice
(* History: the order in which the open picture's macroblocks were decoded,  *)
(* each with its slice and the neighbours it could use.                      *)
VARIABLES decoded
sliceVars == <<stream, MbToSliceGroupMap, current_mb_nr, current_slice_nr, num_dec_mb, slice_nr,
               dec_picture, old_slice, decoded>>

NoPicture == -1
NoMb == -1
Char(n) == ((n + HalfChar) % (2 * HalfChar)) - HalfChar

-----------------------------------------------------------------------------
(* What a sender does: each group's macroblocks in scan order, cut into      *)
(* slices, the groups' slices in any order.                                 *)
InMap(pps, cycle) == MapUnitToSliceGroupMap(pps, cycle)
NewPicture(id, p) ==
  {[picture |-> id, pps |-> p, cycle |-> c, map |-> InMap(p, c), past |-> {}, cuts |-> 0, lost |-> 0] :
     c \in Cycles}
Ahead(g) == {mb \in Mbs : stream.map[mb] = g} \ stream.past
GroupsAhead == {g \in {stream.map[mb] : mb \in Mbs} : Ahead(g) # {}}

-----------------------------------------------------------------------------
mb_is_available(mb, mb_nr, nrs) == mb \in Mbs /\ nrs[mb] = nrs[mb_nr]
(* start_macroblock(): left, up, up right and up left.                      *)
Neighbours(mb_nr, nrs) ==
  [A |-> mb_is_available(mb_nr - 1, mb_nr, nrs) /\ mb_nr % FrameWidthInMbs # 0,
   B |-> mb_is_available(mb_nr - FrameWidthInMbs, mb_nr, nrs),
   C |-> mb_is_available(mb_nr - FrameWidthInMbs + 1, mb_nr, nrs) /\ (mb_nr + 1) % FrameWidthInMbs # 0,
   D |-> mb_is_available(mb_nr - FrameWidthInMbs - 1, mb_nr, nrs) /\ mb_nr % FrameWidthInMbs # 0]

(* Mutant: the macroblocks of the other groups are not passed over.         *)
NextOfAnyGroup(mb) == mb + 1
(* exit_macroblock(): the next macroblock of the group, or the picture's end. *)
NextOf(mb) ==
  IF stream.pps.groups > 1
  THEN Min({m \in mb + 1 .. FrameSizeInMbs - 1 : MbToSliceGroupMap[m] = MbToSliceGroupMap[mb]}
           \cup {FrameSizeInMbs})
  ELSE mb + 1

SliceStart(p) ==
  /\ stream \in NewPicture(0, p)
  /\ MbToSliceGroupMap = [u \in Mbs |-> 0]
  /\ current_mb_nr = NoMb /\ current_slice_nr = 0 /\ num_dec_mb = 0
  /\ slice_nr = [u \in Mbs |-> -1]
  /\ dec_picture = NoPicture /\ old_slice = NoPicture
  /\ decoded = <<>>
SliceInit == \E p \in ParameterSets : SliceStart(p)

(* read_new_slice(): the map is made anew when there are slice groups; a      *)
(* slice unlike the last one opens a picture, which closes one still open.    *)
ReadSlice ==
  /\ current_mb_nr = NoMb
  /\ \E g \in GroupsAhead : current_mb_nr' = Min(Ahead(g))
  /\ MbToSliceGroupMap' = (IF stream.pps.groups > 1 THEN InMap(stream.pps, stream.cycle)
                           ELSE MbToSliceGroupMap)
  /\ IF old_slice # stream.picture
     THEN /\ current_slice_nr' = 0 /\ num_dec_mb' = 0
          /\ slice_nr' = [u \in Mbs |-> -1]
          /\ dec_picture' = stream.picture /\ decoded' = <<>>
     ELSE UNCHANGED <<current_slice_nr, num_dec_mb, slice_nr, dec_picture, decoded>>
  /\ UNCHANGED <<stream, old_slice>>

(* exit_slice_baseline() and the end of decode_one_frame()'s loop.           *)
EndSlice(picture_done) ==
  /\ current_mb_nr' = NoMb /\ old_slice' = stream.picture
  /\ IF picture_done
     THEN dec_picture' = NoPicture /\ current_slice_nr' = 0
     ELSE current_slice_nr' = current_slice_nr + 1 /\ UNCHANGED dec_picture

(* A macroblock from start_macroblock() to exit_macroblock().  Whether there  *)
(* is more of the slice is the stream's choice, unless its group is at its    *)
(* end.                                                                     *)
DecodeMacroblock ==
  /\ current_mb_nr # NoMb
  /\ \E nrs \in {[slice_nr EXCEPT ![current_mb_nr] = Char(current_slice_nr)]} :
     \E next \in {NextOf(current_mb_nr)}, ends \in BOOLEAN :
       /\ slice_nr' = nrs /\ num_dec_mb' = num_dec_mb + 1
       /\ decoded' = Append(decoded, [mb |-> current_mb_nr, slice |-> current_slice_nr,
                                      neighbours |-> Neighbours(current_mb_nr, nrs)])
       /\ LET last == num_dec_mb + 1 = FrameSizeInMbs \/ next = FrameSizeInMbs
              cut == ends /\ ~last
          IN  /\ (ends = FALSE) \/ (~last /\ stream.cuts < MaxCuts)
              /\ stream' = [stream EXCEPT !.past = @ \cup {current_mb_nr},
                                          !.cuts = IF cut THEN @ + 1 ELSE @]
              /\ IF last \/ cut THEN EndSlice(num_dec_mb + 1 = FrameSizeInMbs)
                 ELSE current_mb_nr' = next /\ UNCHANGED <<old_slice, dec_picture, current_slice_nr>>
  /\ UNCHANGED MbToSliceGroupMap

(* The rest of a group, or a part of it that is cut off, never arrives.       *)
SliceLost ==
  /\ current_mb_nr = NoMb /\ stream.lost < MaxLost
  /\ \E g \in GroupsAhead : \E to \in Ahead(g) :
       /\ to = Max(Ahead(g)) \/ stream.cuts < MaxCuts
       /\ stream' = [stream EXCEPT !.past = @ \cup {mb \in Ahead(g) : mb <= to}, !.lost = @ + 1,
                                   !.cuts = IF to = Max(Ahead(g)) THEN @ ELSE @ + 1]
  /\ UNCHANGED <<MbToSliceGroupMap, current_mb_nr, current_slice_nr, num_dec_mb, slice_nr, dec_picture,
                 old_slice, decoded>>

(* The next picture, with the same parameter set here.  Its slices differ     *)
(* from those of the last picture of which a slice came, however much was     *)
(* lost between.                                                            *)
NextPicture ==
  /\ current_mb_nr = NoMb /\ stream.past = Mbs
  /\ \E id \in 0 .. 2 \ {stream.picture, old_slice} : stream' \in NewPicture(id, stream.pps)
  /\ UNCHANGED <<MbToSliceGroupMap, current_mb_nr, current_slice_nr, num_dec_mb, slice_nr, dec_picture,
                 old_slice, decoded>>

SliceNext == ReadSlice \/ DecodeMacroblock \/ SliceLost \/ NextPicture
SliceSpec == SliceInit /\ [][SliceNext]_sliceVars

-----------------------------------------------------------------------------
WasDecoded(mb) == \E i \in 1 .. Len(decoded) : decoded[i].mb = mb
SameSlice(i, mb) == \E j \in 1 .. i - 1 : decoded[j].mb = mb /\ decoded[j].slice = decoded[i].slice
Beside(mb, dx, dy) ==              \* the macroblock there, or none
  IF ColumnOf(mb) + dx \in 0 .. FrameWidthInMbs - 1 /\ RowOf(mb) + dy >= 0
  THEN mb + dx + FrameWidthInMbs * dy ELSE NoMb

(* image.c:77-136, macroblock.c:631-656: num_dec_mb counts macroblocks and     *)
(* not which ones, and yet no macroblock is decoded twice, none into a         *)
(* picture that is closed or another one's, a picture is closed by itself      *)
(* exactly when it is whole, and without a loss it always is.                  *)
PicturesWhole ==
  /\ num_dec_mb = Cardinality({decoded[i].mb : i \in 1 .. Len(decoded)})
  /\ current_mb_nr # NoMb => dec_picture = stream.picture /\ ~WasDecoded(current_mb_nr)
  /\ dec_picture = NoPicture /\ old_slice # NoPicture => num_dec_mb = FrameSizeInMbs
  /\ current_mb_nr = NoMb /\ num_dec_mb = FrameSizeInMbs => dec_picture = NoPicture
  /\ current_mb_nr = NoMb /\ stream.past = Mbs /\ stream.lost = 0 => num_dec_mb = FrameSizeInMbs

(* macroblock.c:508-585: a neighbour is used exactly when it lies in the       *)
(* picture and was decoded before in the same slice, whatever slice it was     *)
(* part of in the picture before and wherever the slice groups put it.         *)
NeighboursRight ==
  \A i \in 1 .. Len(decoded) :
    LET d == decoded[i]
        Usable(dx, dy) == SameSlice(i, Beside(d.mb, dx, dy))
    IN  d.neighbours = [A |-> Usable(-1, 0), B |-> Usable(0, -1), C |-> Usable(1, -1), D |-> Usable(-1, -1)]

(* macroblock.c:642: a slice stays in its group and in scan order.             *)
SlicesInOrder ==
  \A i \in 2 .. Len(decoded) :
    decoded[i].slice = decoded[i - 1].slice =>
      /\ decoded[i].mb > decoded[i - 1].mb
      /\ stream.picture = dec_picture => stream.map[decoded[i].mb] = stream.map[decoded[i - 1].mb]

SlicesRight == PicturesWhole /\ NeighboursRight /\ SlicesInOrder

(* fmo.c:366-632: every unit gets one of the picture's groups.  As the cycle   *)
(* goes on the box, the raster or the wipe grows by whole steps and never      *)
(* loses a unit; in the wipe it is the other group that starts at the left.    *)
Growing(pps) == IF pps.type = 5 THEN 1 ELSE 0
MapsRight ==
  stream.past = {} =>
    LET pps == stream.pps
        Grown(map) == {u \in Mbs : map[u] = Growing(pps)}
    IN  /\ \A u \in Mbs : stream.map[u] \in 0 .. pps.groups - 1
        /\ pps.groups > 1 /\ pps.type \in 3 .. 5 =>
             /\ Cardinality(Grown(stream.map)) = UnitsInGroup0(pps, stream.cycle)
             /\ \A c \in Cycles :
                  c < stream.cycle => Grown(InMap(pps, c)) \subseteq Grown(stream.map)
=============================================================================
