---------------------------- MODULE ParameterSets ----------------------------
(***************************************************************************)
(* Sequence and picture parameter sets (parset.c, parsetcommon.c,          *)
(* UseParameterSet_baseline() in macroblock.c): a set that comes is        *)
(* written over the one of its number, the active ones stay pointers into  *)
(* the tables, and a slice activates the sets it refers to.  A picture may *)
(* still be open then, since slices can be lost.                           *)
(***************************************************************************)
EXTENDS Integers, FiniteSets

CONSTANTS SpsSent,             \* sequence parameter sets: [id, profile, mbs, level]
          PpsSent,             \* picture parameter sets: [id, sps, groups]
          MaxSets, MaxSetPictures, \* bounds: parameter sets and pictures sent
          SlicesPerPicture
ASSUME ParameterSetsAssumption ==
  /\ SpsSent \subseteq [id : Nat, profile : Nat, mbs : Nat, level : Nat]
  /\ \A p \in PpsSent : p.id \in Nat /\ \E s \in SpsSent : p.sps = s.id
  /\ MaxSets \in Nat /\ MaxSetPictures \in Nat /\ SlicesPerPicture \in Nat \ {0}

VARIABLES setSender            \* what was sent: sets, and the picture under way
VARIABLES SeqParSet, PicParSet, sps, active_sps, active_pps,
          profile_idc,         \* the profile img has: macroblocks are parsed by it
          sized,               \* the set the buffers and img were made for
          openPicture          \* dec_picture: the number and sets it started with
VARIABLES lastUse,             \* history: the last slice's reset, and how a picture was closed
          excuses              \* history: what may explain a reset or a stale size
setVars == <<setSender, SeqParSet, PicParSet, sps, active_sps, active_pps, profile_idc, sized, openPicture, lastUse,
             excuses>>

NoSet == [id |-> -1]
NULL == -1
NoOpen == [picture |-> -1]
SpsIds == {s.id : s \in SpsSent}
PpsIds == {p.id : p \in PpsSent}
Supported(profile) == profile \in {66, 77, 88, 100, 110, 122, 144}

SetsInit ==
  /\ setSender = [sps |-> [i \in SpsIds |-> NoSet], pps |-> [i \in PpsIds |-> NoSet], active |-> NULL,
                  sets |-> 0, pictures |-> 0, left |-> 0, with |-> NULL, idr |-> FALSE, idrNext |-> TRUE]
  /\ SeqParSet = [i \in SpsIds |-> NoSet] /\ PicParSet = [i \in PpsIds |-> NoSet]
  /\ sps = NoSet /\ active_sps = NULL /\ active_pps = NULL /\ profile_idc = 0
  /\ sized = NoSet /\ openPicture = NoOpen
  /\ lastUse = [is |-> "none"] /\ excuses = {}

-----------------------------------------------------------------------------
(* sps_is_equal() leaves the level out, pps_is_equal() nothing kept here.     *)
(* Mutant: the size is left out as well.                                    *)
sps_is_equalBySize(s, t) == s # NoSet /\ t # NoSet /\ s.profile = t.profile /\ s.id = t.id
sps_is_equal(s, t) ==
  s # NoSet /\ t # NoSet /\ s.profile = t.profile /\ s.id = t.id /\ s.mbs = t.mbs
pps_is_equal(p, q) == p = q

(* InterpretSPS() into the one struct there is: of a profile it does not know *)
(* it takes the profile and nothing else, and the struct stays valid.        *)
InterpretSPS(s) ==
  IF Supported(s.profile) THEN s
  ELSE IF sps = NoSet THEN NoSet ELSE [sps EXCEPT !.profile = s.profile]

(* exit_picture(): an open picture is closed with the sizes img has.         *)
Closed(open) == IF open = NoOpen THEN {} ELSE {[opened |-> open, sized |-> sized]}

(* Between two pictures the sender sends a set; changing the active sequence  *)
(* parameter set it goes on with an IDR picture.                            *)
BetweenPictures == setSender.left = 0 /\ setSender.sets < MaxSets
ProcessSPS_baseline ==
  /\ BetweenPictures
  /\ \E sent \in SpsSent : \E s \in {InterpretSPS(sent)} :
       /\ setSender' = [setSender EXCEPT !.sps[sent.id] = sent, !.sets = @ + 1,
                          !.idrNext = @ \/ (sent.id = setSender.active /\ setSender.sps[sent.id] # sent)]
       /\ sps' = s
       /\ IF s = NoSet THEN UNCHANGED <<SeqParSet, active_sps, profile_idc, openPicture, lastUse>>
          ELSE LET changed == active_sps = s.id /\ ~sps_is_equal(s, SeqParSet[active_sps])
               IN  /\ SeqParSet' = [SeqParSet EXCEPT ![s.id] = s]
                   /\ profile_idc' = s.profile
                   /\ active_sps' = (IF changed THEN NULL ELSE active_sps)
                   /\ openPicture' = (IF changed THEN NoOpen ELSE openPicture)
                   /\ lastUse' = [is |-> "set", closed |-> IF changed THEN Closed(openPicture) ELSE {}]
       /\ excuses' = excuses \cup
            (IF ~Supported(sent.profile) THEN {"unsupported"}
             ELSE IF sized # NoSet /\ sized.id = sent.id /\ sized.level # sent.level THEN {"level"} ELSE {})
  /\ UNCHANGED <<PicParSet, active_pps, sized>>

ProcessPPS_baseline ==
  /\ BetweenPictures
  /\ \E p \in PpsSent :
       LET changed == active_pps = p.id /\ ~pps_is_equal(p, PicParSet[active_pps])
       IN  /\ setSender' = [setSender EXCEPT !.pps[p.id] = p, !.sets = @ + 1]
           /\ PicParSet' = [PicParSet EXCEPT ![p.id] = p]
           /\ active_pps' = (IF changed THEN NULL ELSE active_pps)
           /\ openPicture' = (IF changed THEN NoOpen ELSE openPicture)
           /\ lastUse' = [is |-> "set", closed |-> IF changed THEN Closed(openPicture) ELSE {}]
           /\ excuses' = excuses \cup (IF changed THEN {"no slice since"} ELSE {})
  /\ UNCHANGED <<SeqParSet, sps, active_sps, profile_idc, sized>>

-----------------------------------------------------------------------------
(* The sender starts a picture with sets that are there; other than the ones  *)
(* of the pictures before only with an IDR picture.                         *)
Usable(p) ==
  /\ setSender.pps[p] # NoSet
  /\ setSender.sps[setSender.pps[p].sps] # NoSet /\ Supported(setSender.sps[setSender.pps[p].sps].profile)
StartPicture ==
  /\ setSender.left = 0 /\ setSender.pictures < MaxSetPictures
  /\ \E p \in {q \in PpsIds : Usable(q)}, idr \in BOOLEAN :
       /\ setSender.idrNext \/ setSender.pps[p].sps # setSender.active => idr
       /\ setSender' = [setSender EXCEPT !.active = setSender.pps[p].sps, !.pictures = @ + 1, !.with = p,
                                         !.left = SlicesPerPicture, !.idr = idr, !.idrNext = FALSE]
       /\ excuses' = (IF idr THEN excuses \cup {"idr lost"} ELSE excuses)
  /\ lastUse' = [is |-> "sent", closed |-> {}]
  /\ UNCHANGED <<SeqParSet, PicParSet, sps, active_sps, active_pps, profile_idc, sized, openPicture>>

SetSliceLost ==
  /\ setSender.left > 0
  /\ setSender' = [setSender EXCEPT !.left = @ - 1]
  /\ lastUse' = [is |-> "sent", closed |-> {}]
  /\ UNCHANGED <<SeqParSet, PicParSet, sps, active_sps, active_pps, profile_idc, sized, openPicture, excuses>>

(* No table entry has the profile of a set that the decoder does not know. *)
NoneSpoilt == \A i \in SpsIds : SeqParSet[i] # NoSet => Supported(SeqParSet[i].profile)

(* A slice in read_new_slice(): the sets it refers to are made the active     *)
(* ones, a new picture is opened, and the last slice of a whole one closes it. *)
UseParameterSet_baseline ==
  /\ setSender.left > 0
  /\ LET pps == setSender.with
         s == PicParSet[pps].sps
         reset == active_sps # s
         again == active_pps # pps
         other == openPicture # NoOpen /\ openPicture.picture # setSender.pictures
         starts == openPicture = NoOpen \/ reset \/ again \/ other
         slices == IF starts THEN 1 ELSE openPicture.slices + 1
     IN  /\ active_sps' = s /\ active_pps' = pps
         /\ sized' = (IF reset THEN SeqParSet[s] ELSE sized)
         /\ openPicture' = (IF slices = SlicesPerPicture THEN NoOpen
                            ELSE [picture |-> setSender.pictures, slices |-> slices, sized |-> sized',
                                  set |-> SeqParSet[s]])
         /\ lastUse' = [is |-> "slice", reset |-> reset, idr |-> setSender.idr, excuses |-> excuses,
                        closed |-> IF starts THEN Closed(openPicture) ELSE {}]
         /\ setSender' = [setSender EXCEPT !.left = @ - 1]
         /\ excuses' = excuses \ ({"no slice since"} \cup (IF setSender.idr THEN {"idr lost"} ELSE {})
                                    \cup (IF reset THEN {"level"} ELSE {})
                                    \cup (IF NoneSpoilt THEN {"unsupported"} ELSE {}))
  /\ UNCHANGED <<SeqParSet, PicParSet, sps, profile_idc>>

(* The end of main() looks into the active picture parameter set.           *)
EndOfSets ==
  /\ setSender.left = 0 /\ lastUse.is # "end"
  /\ lastUse' = [is |-> "end", null |-> active_pps = NULL, closed |-> {}]
  /\ setSender' = [setSender EXCEPT !.sets = MaxSets, !.pictures = MaxSetPictures]
  /\ UNCHANGED <<SeqParSet, PicParSet, sps, active_sps, active_pps, profile_idc, sized, openPicture, excuses>>

SetsNext == ProcessSPS_baseline \/ ProcessPPS_baseline \/ StartPicture \/ SetSliceLost
            \/ UseParameterSet_baseline \/ EndOfSets
SetsSpec == SetsInit /\ [][SetsNext]_setVars

-----------------------------------------------------------------------------
(* parset.c:497-674, parsetcommon.c:127-245: whatever sets come between        *)
(* pictures and whichever slices are lost, a slice is decoded with the sets it *)
(* refers to as they were sent last and with buffers made for their size, and  *)
(* a picture is closed with the sizes it was opened with.  The level is not    *)
(* compared: buffers of another level stay.  References are thrown away only   *)
(* for an IDR picture, or when one was lost, but also after a set of a profile *)
(* the decoder does not know, which spoils the set read last.  A picture       *)
(* parameter set that changed after the last slice leaves main() nothing to    *)
(* look into.  The profile that img has is the slice's set's only while no set *)
(* of another number was read since.                                           *)
ParametersRight ==
  /\ lastUse.is = "slice" =>
       LET sent == setSender.sps[setSender.pps[setSender.with].sps]
       IN  /\ active_pps = setSender.with /\ active_sps = sent.id
           /\ SeqParSet[active_sps].mbs = sent.mbs /\ SeqParSet[active_sps].level = sent.level
           /\ sps.id = active_sps => profile_idc = SeqParSet[active_sps].profile
           /\ sized.mbs = sent.mbs
           /\ sized.level # sent.level => "level" \in excuses
           /\ lastUse.reset /\ ~lastUse.idr => lastUse.excuses \cap {"unsupported", "idr lost"} # {}
  /\ lastUse.is # "none" => \A c \in lastUse.closed : c.opened.sized = c.sized /\ c.opened.set.mbs = c.sized.mbs
  /\ lastUse.is = "end" => (lastUse.null => "no slice since" \in excuses \/ sized = NoSet)
=============================================================================
