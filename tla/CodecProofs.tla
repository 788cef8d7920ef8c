---------------------------- MODULE CodecProofs ----------------------------
(***************************************************************************)
(* Proofs about the two decoders: what coder and decoder of the speech     *)
(* codec remember alike after an erasure, which parameter sets a slice of  *)
(* a video is decoded with, and what becomes of a speech frame on its way  *)
(* from the coder to the decoder.                                          *)
(***************************************************************************)
EXTENDS SpeechMemory, SpeechFrames, ParameterSets, SequenceTheorems, WellFoundedInduction, TLAPS

-----------------------------------------------------------------------------
(* The memories of the speech codec *)

(* A history is four entries long; what each side remembers is a record.      *)
IsFour(h) == \E a, b, c, d : h = <<a, b, c, d>>
IsMemory(m) ==
  /\ DOMAIN m = {"freq_prev", "prev_lsp", "lsp_old", "past_qua_en", "sharp"}
  /\ IsFour(m.freq_prev) /\ IsFour(m.past_qua_en)

(* The newest k entries are alike. *)
AgreeUpTo(k, g, h) == \A i \in 1 .. 4 : i <= k => g[i] = h[i]

(* How much of the histories is alike again after so many good frames: one   *)
(* vector and two energies more with each of them.                           *)
PrefixesAgree ==
  /\ AgreeUpTo(goodFrames, coder.freq_prev, decoder.freq_prev)
  /\ AgreeUpTo(2 * goodFrames, coder.past_qua_en, decoder.past_qua_en)

MemoryInv ==
  /\ IsMemory(coder) /\ IsMemory(decoder)
  /\ goodFrames \in 0 .. MaxGood
  /\ PrefixesAgree
  /\ HistoriesAgree

(* A history takes the new entry in front and loses its last.                *)
LEMMA RememberedFour ==
  ASSUME NEW v, NEW a, NEW b, NEW c, NEW d
  PROVE  Remembered(v, <<a, b, c, d>>) = <<v, a, b, c>>
<1> DEFINE S == {v, a, b, c, d}
           h == <<a, b, c, d>>
           o == <<v>>
           w == o \o h
           r == SubSeq(w, 1, 4)
           q == <<v, a, b, c>>
<1>1. h \in Seq(S) /\ Len(h) = 4 /\ o \in Seq(S) /\ Len(o) = 1
  OBVIOUS
<1>2. h[1] = a /\ h[2] = b /\ h[3] = c /\ o[1] = v
  OBVIOUS
<1>3. q \in Seq(S) /\ Len(q) = 4 /\ q[1] = v /\ q[2] = a /\ q[3] = b /\ q[4] = c
  OBVIOUS
<1>4. w \in Seq(S) /\ Len(w) = 5 /\ \A i \in 1 .. 5 : w[i] = IF i <= 1 THEN o[i] ELSE h[i - 1]
  <2> HIDE DEF h, S, o
  <2>1. /\ w \in Seq(S) /\ Len(w) = Len(o) + Len(h)
        /\ \A i \in 1 .. Len(o) + Len(h) : w[i] = IF i <= Len(o) THEN o[i] ELSE h[i - Len(o)]
    BY <1>1, ConcatProperties, Zenon
  <2> HIDE DEF w
  <2> QED
    BY <1>1, <2>1
<1>5. w[1] = v /\ w[2] = a /\ w[3] = b /\ w[4] = c /\ \A i \in 1 .. 4 : w[i] \in S
  <2>1. w[1] = v /\ w[2] = a /\ w[3] = b /\ w[4] = c
    <3> HIDE DEF w, h, S, o
    <3> QED
      BY <1>4, <1>2
  <2>2. v \in S /\ a \in S /\ b \in S /\ c \in S
    OBVIOUS
  <2> HIDE DEF w, S
  <2>3. \A i \in 1 .. 4 : i = 1 \/ i = 2 \/ i = 3 \/ i = 4
    OBVIOUS
  <2> QED
    BY <2>1, <2>2, <2>3
<1>6. r \in Seq(S) /\ Len(r) = 4 /\ \A i \in 1 .. 4 : r[i] = w[i]
  <2> HIDE DEF w, S
  <2> QED
    BY <1>5, SubSeqProperties
<1>7. \A i \in 1 .. 4 : r[i] = q[i]
  <2> HIDE DEF w, S, r, q
  <2>1. \A i \in 1 .. 4 : i = 1 \/ i = 2 \/ i = 3 \/ i = 4
    OBVIOUS
  <2> QED
    BY <1>3, <1>5, <1>6, <2>1
<1>8. r = q
  <2> HIDE DEF w, S, r, q
  <2> QED
    BY <1>3, <1>6, <1>7, SeqEqual
<1> QED
  BY <1>8 DEF Remembered, Last4

(* A history is determined by its four entries. *)
LEMMA FourEqual ==
  ASSUME NEW g, NEW h, IsFour(g), IsFour(h), AgreeUpTo(4, g, h)
  PROVE  g = h
<1>1. PICK a, b, c, d : g = <<a, b, c, d>>
  BY DEF IsFour
<1>2. PICK p, q, r, s : h = <<p, q, r, s>>
  BY DEF IsFour
<1>3. g[1] = h[1] /\ g[2] = h[2] /\ g[3] = h[3] /\ g[4] = h[4]
  BY DEF AgreeUpTo
<1>4. a = p /\ b = q /\ c = r /\ d = s
  BY <1>1, <1>2, <1>3
<1> QED
  BY <1>1, <1>2, <1>4

(* What a frame leaves on a side that takes it as it is.                     *)
LEMMA AfterFrameEffect ==
  ASSUME NEW m, IsMemory(m), NEW code
  PROVE  /\ IsMemory(AfterFrame(code, m))
         /\ AfterFrame(code, m).freq_prev = <<code, m.freq_prev[1], m.freq_prev[2], m.freq_prev[3]>>
         /\ AfterFrame(code, m).past_qua_en = <<code, code, m.past_qua_en[1], m.past_qua_en[2]>>
         /\ AfterFrame(code, m).lsp_old = <<code, m.freq_prev>>
         /\ AfterFrame(code, m).sharp = code
<1> DEFINE f == m.freq_prev
           q == m.past_qua_en
           F == <<code, f[1], f[2], f[3]>>
           Q1 == <<code, q[1], q[2], q[3]>>
           Q2 == <<code, code, q[1], q[2]>>
           m1 == WithLsp(code, m)
           m2 == AfterGain(code, m1)
           m3 == AfterGain(code, m2)
           Fields == {"freq_prev", "prev_lsp", "lsp_old", "past_qua_en", "sharp"}
<1>1. DOMAIN m = Fields /\ IsFour(f) /\ IsFour(q)
  BY DEF IsMemory
<1>2. Remembered(code, f) = F /\ Remembered(code, q) = Q1 /\ Remembered(code, Q1) = Q2
  <2>1. PICK a, b, c, d : f = <<a, b, c, d>>
    BY <1>1 DEF IsFour
  <2>2. PICK a2, b2, c2, d2 : q = <<a2, b2, c2, d2>>
    BY <1>1 DEF IsFour
  <2>3. Remembered(code, f) = F
    BY <2>1, RememberedFour
  <2>4. Remembered(code, q) = Q1
    BY <2>2, RememberedFour
  <2>5. Remembered(code, Q1) = Q2
    BY RememberedFour
  <2> QED
    BY <2>3, <2>4, <2>5
<1> HIDE DEF F, Q1, Q2, f, q
<1>3. DOMAIN m1 = Fields /\ m1.freq_prev = F /\ m1.lsp_old = <<code, f>> /\ m1.past_qua_en = q
  BY <1>1, <1>2 DEF WithLsp, Lsp_get_quant, f, q
<1> HIDE DEF m1
<1>4. DOMAIN m2 = Fields /\ m2.freq_prev = F /\ m2.lsp_old = <<code, f>> /\ m2.past_qua_en = Q1
  BY <1>2, <1>3 DEF AfterGain
<1> HIDE DEF m2
<1>5. /\ DOMAIN m3 = Fields /\ m3.freq_prev = F /\ m3.lsp_old = <<code, f>> /\ m3.past_qua_en = Q2
      /\ m3.sharp = code
  BY <1>2, <1>4 DEF AfterGain
<1>6. m3 = AfterFrame(code, m)
  BY DEF AfterFrame, m1, m2
<1> HIDE DEF m3
<1>7. IsFour(F) /\ IsFour(Q2)
  BY DEF F, Q2, IsFour
<1>8. IsMemory(m3)
  BY <1>5, <1>7 DEF IsMemory
<1> QED
  BY <1>5, <1>6, <1>8 DEF F, Q2, f, q

(* An erased frame leaves four entries in each history as well.              *)
LEMMA ConcealedEffect ==
  ASSUME NEW m, IsMemory(m)
  PROVE  IsMemory(Concealed(m))
<1>1. \A h : IsFour(h) => IsFour(Remembered(Own, h))
  BY RememberedFour DEF IsFour
<1>2. /\ IsFour(Remembered(Own, m.freq_prev))
      /\ IsFour(Remembered(Own, Remembered(Own, m.past_qua_en)))
  BY <1>1 DEF IsMemory
<1>3. /\ DOMAIN Concealed(m) = DOMAIN m
      /\ Concealed(m).freq_prev = Remembered(Own, m.freq_prev)
      /\ Concealed(m).past_qua_en = Remembered(Own, Remembered(Own, m.past_qua_en))
  BY DEF Concealed, IsMemory
<1> QED
  BY <1>2, <1>3 DEF IsMemory

LEMMA FrameReceivedStep ==
  ASSUME MemoryInv, FrameReceived
  PROVE  MemoryInv'
<1>1. PICK code \in FrameCodes :
        /\ coder' = AfterFrame(code, coder) /\ decoder' = AfterFrame(code, decoder)
        /\ filters' = [coder |-> FiltersOf(code, coder), decoder |-> FiltersOf(code, decoder)]
        /\ gains' = [coder |-> GainsOf(code, coder), decoder |-> GainsOf(code, decoder)]
  BY DEF FrameReceived
<1>2. /\ MaxGood \in Nat /\ goodFrames \in 0 .. MaxGood
      /\ goodFrames' = (IF goodFrames < MaxGood THEN goodFrames + 1 ELSE MaxGood)
      /\ IsMemory(coder) /\ IsMemory(decoder)
  BY SpeechMemoryAssumption DEF MemoryInv, FrameReceived
<1>3. goodFrames' \in 0 .. MaxGood /\ goodFrames' <= goodFrames + 1 /\ goodFrames \in Nat
  BY <1>2
<1>4. IsMemory(coder') /\ IsMemory(decoder')
  BY <1>1, <1>2, AfterFrameEffect
<1>5. /\ coder.freq_prev[1] = decoder.freq_prev[1] \/ goodFrames < 1
      /\ coder.freq_prev[2] = decoder.freq_prev[2] \/ goodFrames < 2
      /\ coder.freq_prev[3] = decoder.freq_prev[3] \/ goodFrames < 3
      /\ coder.past_qua_en[1] = decoder.past_qua_en[1] \/ 2 * goodFrames < 1
      /\ coder.past_qua_en[2] = decoder.past_qua_en[2] \/ 2 * goodFrames < 2
  BY <1>3 DEF MemoryInv, PrefixesAgree, AgreeUpTo
<1>6. AgreeUpTo(goodFrames', coder'.freq_prev, decoder'.freq_prev)
  <2>1. /\ coder'.freq_prev = <<code, coder.freq_prev[1], coder.freq_prev[2], coder.freq_prev[3]>>
        /\ decoder'.freq_prev = <<code, decoder.freq_prev[1], decoder.freq_prev[2], decoder.freq_prev[3]>>
    BY <1>1, <1>2, AfterFrameEffect
  <2> QED
    BY <1>3, <1>5, <2>1 DEF AgreeUpTo
<1>7. AgreeUpTo(2 * goodFrames', coder'.past_qua_en, decoder'.past_qua_en)
  <2>1. /\ coder'.past_qua_en = <<code, code, coder.past_qua_en[1], coder.past_qua_en[2]>>
        /\ decoder'.past_qua_en = <<code, code, decoder.past_qua_en[1], decoder.past_qua_en[2]>>
    BY <1>1, <1>2, AfterFrameEffect
  <2> QED
    BY <1>3, <1>5, <2>1 DEF AgreeUpTo
<1>8. goodFrames' >= MA_NP => coder'.freq_prev = decoder'.freq_prev
  BY <1>3, <1>4, <1>6, FourEqual DEF AgreeUpTo, IsMemory, MA_NP
<1>9. goodFrames' >= 2 => coder'.past_qua_en = decoder'.past_qua_en
  <2>1. goodFrames' >= 2 => AgreeUpTo(4, coder'.past_qua_en, decoder'.past_qua_en)
    BY <1>2, <1>3, <1>7 DEF AgreeUpTo
  <2> QED
    BY <1>4, <2>1, FourEqual DEF IsMemory
<1>10. coder'.sharp = decoder'.sharp
  BY <1>1, <1>2, AfterFrameEffect
<1>11. goodFrames' >= MA_NP + 1 => coder.freq_prev = decoder.freq_prev
  BY <1>3 DEF MemoryInv, HistoriesAgree, MA_NP
<1>12. goodFrames' >= MA_NP + 1 =>
          coder'.lsp_old = decoder'.lsp_old /\ filters'["coder"][2] = filters'["decoder"][2]
  <2>1. coder'.lsp_old = <<code, coder.freq_prev>> /\ decoder'.lsp_old = <<code, decoder.freq_prev>>
    BY <1>1, <1>2, AfterFrameEffect
  <2>2. /\ filters'["coder"][2] = <<code, coder.freq_prev>>
        /\ filters'["decoder"][2] = <<code, decoder.freq_prev>>
    BY <1>1 DEF FiltersOf, Int_qlpc, Lsp_get_quant
  <2> QED
    BY <1>11, <2>1, <2>2
<1>13. goodFrames' >= MA_NP + 2 => filters'["coder"] = filters'["decoder"]
  <2>1. goodFrames' >= MA_NP + 2 => coder.lsp_old = decoder.lsp_old
    BY <1>3 DEF MemoryInv, HistoriesAgree, MA_NP
  <2>2. goodFrames' >= MA_NP + 2 => goodFrames' >= MA_NP + 1
    BY <1>3 DEF MA_NP
  <2> QED
    BY <1>1, <1>11, <2>1, <2>2 DEF FiltersOf, Int_qlpc, Lsp_get_quant
<1>14. goodFrames' >= 3 => gains'["coder"] = gains'["decoder"]
  <2>1. goodFrames' >= 3 => coder.past_qua_en = decoder.past_qua_en /\ coder.sharp = decoder.sharp
    BY <1>3 DEF MemoryInv, HistoriesAgree
  <2>2. ASSUME NEW m, IsMemory(m)
        PROVE  GainsOf(code, m) = <<[index |-> code, energies |-> m.past_qua_en, sharp |-> m.sharp],
                                    [index |-> code, energies |-> Remembered(code, m.past_qua_en), sharp |-> code]>>
    <3>1. AfterGain(code, m).past_qua_en = Remembered(code, m.past_qua_en) /\ AfterGain(code, m).sharp = code
      BY <2>2 DEF AfterGain, IsMemory
    <3> QED
      BY <3>1 DEF GainsOf, Predicted
  <2>3. goodFrames' >= 3 => GainsOf(code, coder) = GainsOf(code, decoder)
    BY <1>2, <2>1, <2>2
  <2> QED
    BY <1>1, <2>3
<1> QED
  BY <1>3, <1>4, <1>6, <1>7, <1>8, <1>9, <1>10, <1>12, <1>13, <1>14
     DEF MemoryInv, PrefixesAgree, HistoriesAgree

LEMMA FrameErasedStep ==
  ASSUME MemoryInv, FrameErased
  PROVE  MemoryInv'
<1>1. PICK code \in FrameCodes : coder' = AfterFrame(code, coder) /\ decoder' = Concealed(decoder)
  BY DEF FrameErased
<1>2. IsMemory(coder') /\ IsMemory(decoder')
  BY <1>1, AfterFrameEffect, ConcealedEffect DEF MemoryInv
<1>3. goodFrames' = 0 /\ MaxGood \in Nat
  BY SpeechMemoryAssumption DEF FrameErased
<1>4. PrefixesAgree' /\ HistoriesAgree'
  BY <1>3 DEF PrefixesAgree, HistoriesAgree, AgreeUpTo, MA_NP
<1> QED
  BY <1>2, <1>3, <1>4 DEF MemoryInv

(* However many frames are erased, and whatever the decoder makes up for them: *)
(* after the frames that the code waits for, coder and decoder go on alike.   *)
THEOREM MemoriesAgree == MemorySpec => []HistoriesAgree
<1>1. MemoryInit => MemoryInv
  <2> SUFFICES ASSUME MemoryInit
               PROVE  MemoryInv
    OBVIOUS
  <2>1. [k \in 1 .. 4 |-> Reset] = <<Reset, Reset, Reset, Reset>>
    OBVIOUS
  <2>2. IsFour(Fresh.freq_prev) /\ IsFour(Fresh.past_qua_en)
    BY <2>1 DEF Fresh, MA_NP, IsFour
  <2>3. IsMemory(Fresh)
    BY <2>2 DEF IsMemory, Fresh
  <2>4. coder = decoder /\ coder = Fresh /\ goodFrames = MaxGood /\ MaxGood \in Nat
        /\ filters["coder"] = filters["decoder"] /\ gains["coder"] = gains["decoder"]
    BY SpeechMemoryAssumption DEF MemoryInit, Sides
  <2> QED
    BY <2>3, <2>4 DEF MemoryInv, PrefixesAgree, HistoriesAgree, AgreeUpTo
<1>2. MemoryInv /\ [MemoryNext]_memoryVars => MemoryInv'
  <2>1. MemoryInv /\ UNCHANGED memoryVars => MemoryInv'
    BY DEF MemoryInv, PrefixesAgree, HistoriesAgree, memoryVars
  <2> QED
    BY <2>1, FrameReceivedStep, FrameErasedStep DEF MemoryNext
<1>3. MemoryInv => HistoriesAgree
  BY DEF MemoryInv
<1> QED
  BY <1>1, <1>2, <1>3, PTL DEF MemorySpec

-----------------------------------------------------------------------------
(* The parameter sets of the video decoder *)

SpsRec == [id : SpsIds, profile : Nat, mbs : Nat, level : Nat]
SpsOrNone == SpsRec \cup {NoSet}

ParTypeOK ==
  /\ setSender \in [sps : [SpsIds -> SpsOrNone], pps : [PpsIds -> PpsSent \cup {NoSet}],
                    active : SpsIds \cup {NULL}, sets : Nat, pictures : Nat, left : Nat,
                    with : PpsIds \cup {NULL}, idr : BOOLEAN, idrNext : BOOLEAN]
  /\ SeqParSet \in [SpsIds -> SpsOrNone]
  /\ sps \in SpsOrNone /\ sized \in SpsOrNone
  /\ active_sps \in SpsIds \cup {NULL} /\ active_pps \in PpsIds \cup {NULL}

(* The tables, the decoder's and the sender's, are filed by number; a picture *)
(* parameter set is taken as it was sent.                                    *)
Filed ==
  /\ PicParSet = setSender.pps
  /\ \A i \in SpsIds : /\ setSender.sps[i] # NoSet => setSender.sps[i].id = i
                       /\ SeqParSet[i] # NoSet => SeqParSet[i].id = i /\ sps # NoSet
  /\ \A p \in PpsIds : setSender.pps[p] # NoSet => setSender.pps[p].id = p

(* What was read last is in the table, and img has its profile.              *)
LastRead == sps # NoSet => SeqParSet[sps.id] = sps /\ profile_idc = sps.profile

(* A set that was sent and can be used is in the table, but for the profile   *)
(* of one that could not be.                                                 *)
SentUsable(i) == setSender.sps[i] # NoSet /\ Supported(setSender.sps[i].profile)
Stored(i) ==
  /\ SeqParSet[i] # NoSet
  /\ SeqParSet[i].mbs = setSender.sps[i].mbs /\ SeqParSet[i].level = setSender.sps[i].level
  /\ Supported(SeqParSet[i].profile) => SeqParSet[i] = setSender.sps[i]
SentStored == \A i \in SpsIds : SentUsable(i) => Stored(i)

(* The buffers are those of the active set, but perhaps for the level.        *)
SizedRight ==
  active_sps # NULL =>
    /\ sized # NoSet /\ SeqParSet[active_sps] # NoSet
    /\ sized.id = active_sps /\ sized.mbs = SeqParSet[active_sps].mbs
    /\ sized.level = SeqParSet[active_sps].level \/ "level" \in excuses

SpoiltExcused == "unsupported" \in excuses \/ NoneSpoilt

(* Without an IDR picture to come, decoder and sender use the same set.       *)
SameUse == \/ setSender.idrNext \/ active_sps = setSender.active
           \/ "unsupported" \in excuses \/ "idr lost" \in excuses

(* A picture under way has sets that can be used, and the sender goes on with *)
(* its sequence parameter set.                                               *)
UnderWay ==
  setSender.left > 0 =>
    /\ ~setSender.idrNext
    /\ setSender.with \in PpsIds /\ setSender.pps[setSender.with] # NoSet
    /\ setSender.active = setSender.pps[setSender.with].sps
    /\ SentUsable(setSender.pps[setSender.with].sps)

(* An open picture has the sizes of the buffers there are.                   *)
OpenRight == openPicture # NoOpen => openPicture.sized = sized /\ openPicture.set.mbs = sized.mbs

NullExcused == active_pps = NULL => "no slice since" \in excuses \/ sized = NoSet
SliceHadSets == lastUse.is = "slice" => sps # NoSet

SetsInv ==
  /\ ParTypeOK /\ Filed /\ LastRead /\ SentStored
  /\ SizedRight /\ SpoiltExcused /\ SameUse /\ UnderWay
  /\ OpenRight /\ NullExcused /\ SliceHadSets
  /\ ParametersRight

LEMMA SetsFacts ==
  /\ NoSet \notin SpsRec /\ NULL \notin SpsIds /\ NULL \notin PpsIds
  /\ SpsSent \subseteq SpsRec
  /\ \A s \in SpsRec : s.id \in SpsIds /\ s # NoSet
  /\ \A p \in PpsSent : p # NoSet /\ p.id \in PpsIds /\ p.sps \in SpsIds
  /\ MaxSets \in Nat /\ MaxSetPictures \in Nat /\ SlicesPerPicture \in Nat \ {0}
<1>1. \A i \in SpsIds : i \in Nat
  BY ParameterSetsAssumption DEF SpsIds
<1>2. \A i \in PpsIds : i \in Nat
  BY ParameterSetsAssumption DEF PpsIds
<1>3. \A s \in SpsRec : s.id \in SpsIds /\ s # NoSet
  BY <1>1 DEF SpsRec, NoSet
<1>4. NoSet \notin SpsRec
  BY <1>3
<1>5. SpsSent \subseteq SpsRec
  BY ParameterSetsAssumption DEF SpsRec, SpsIds
<1>6. \A p \in PpsSent : p # NoSet /\ p.id \in PpsIds /\ p.sps \in SpsIds
  BY ParameterSetsAssumption DEF PpsIds, SpsIds, NoSet
<1> QED
  BY <1>1, <1>2, <1>3, <1>4, <1>5, <1>6, ParameterSetsAssumption DEF NULL

(* What a set of any profile is read as.                                     *)
LEMMA Interpreted ==
  ASSUME ParTypeOK, NEW given \in SpsSent
  PROVE  /\ InterpretSPS(given) \in SpsOrNone
         /\ Supported(given.profile) => InterpretSPS(given) = given
         /\ ~Supported(given.profile) /\ sps = NoSet => InterpretSPS(given) = NoSet
         /\ ~Supported(given.profile) /\ sps # NoSet =>
              /\ InterpretSPS(given) # NoSet /\ InterpretSPS(given).id = sps.id
              /\ InterpretSPS(given).mbs = sps.mbs /\ InterpretSPS(given).level = sps.level
              /\ ~Supported(InterpretSPS(given).profile)
<1>1. given \in SpsRec /\ given.profile \in Nat
  BY SetsFacts DEF SpsRec
<1>2. CASE Supported(given.profile)
  BY <1>1, <1>2 DEF InterpretSPS, SpsOrNone
<1>3. CASE ~Supported(given.profile) /\ sps = NoSet
  BY <1>3 DEF InterpretSPS, SpsOrNone
<1>4. CASE ~Supported(given.profile) /\ sps # NoSet
  <2>1. sps \in SpsRec
    BY <1>4 DEF ParTypeOK, SpsOrNone
  <2>2. InterpretSPS(given) = [sps EXCEPT !.profile = given.profile]
    BY <1>4 DEF InterpretSPS
  <2>3. InterpretSPS(given) \in SpsRec /\ InterpretSPS(given).profile = given.profile
    BY <1>1, <2>1, <2>2 DEF SpsRec
  <2>4. /\ InterpretSPS(given).id = sps.id
        /\ InterpretSPS(given).mbs = sps.mbs /\ InterpretSPS(given).level = sps.level
    BY <2>1, <2>2 DEF SpsRec
  <2>5. InterpretSPS(given) # NoSet
    BY <2>3, SetsFacts
  <2> QED
    BY <1>4, <2>3, <2>4, <2>5 DEF SpsOrNone
<1> QED
  BY <1>2, <1>3, <1>4

(* A picture that is closed has the sizes it was opened with.                *)
ClosedRight(closed) == \A c \in closed : c.opened.sized = c.sized /\ c.opened.set.mbs = c.sized.mbs

LEMMA ClosedIsRight ==
  ASSUME OpenRight
  PROVE  ClosedRight(Closed(openPicture)) /\ ClosedRight({})
BY DEF OpenRight, Closed, ClosedRight

LEMMA SpsStep ==
  ASSUME SetsInv, ProcessSPS_baseline
  PROVE  SetsInv'
<1>0. PICK given \in SpsSent : \E s \in {InterpretSPS(given)} :
        /\ setSender' = [setSender EXCEPT !.sps[given.id] = given, !.sets = @ + 1,
                           !.idrNext = @ \/ (given.id = setSender.active /\ setSender.sps[given.id] # given)]
        /\ sps' = s
        /\ IF s = NoSet THEN UNCHANGED <<SeqParSet, active_sps, profile_idc, openPicture, lastUse>>
           ELSE LET changed == active_sps = s.id /\ ~sps_is_equal(s, SeqParSet[active_sps])
                IN  /\ SeqParSet' = [SeqParSet EXCEPT ![s.id] = s]
                    /\ profile_idc' = s.profile
                    /\ active_sps' = (IF changed THEN NULL ELSE active_sps)
                    /\ openPicture' = (IF changed THEN NoOpen ELSE openPicture)
                    /\ lastUse' = [is |-> "set", closed |-> IF changed THEN Closed(openPicture) ELSE {}]
        /\ excuses' = excuses \cup
             (IF ~Supported(given.profile) THEN {"unsupported"}
              ELSE IF sized # NoSet /\ sized.id = given.id /\ sized.level # given.level THEN {"level"} ELSE {})
  BY DEF ProcessSPS_baseline
<1>1. PICK s \in {InterpretSPS(given)} :
        /\ setSender' = [setSender EXCEPT !.sps[given.id] = given, !.sets = @ + 1,
                           !.idrNext = @ \/ (given.id = setSender.active /\ setSender.sps[given.id] # given)]
        /\ sps' = s
        /\ IF s = NoSet THEN UNCHANGED <<SeqParSet, active_sps, profile_idc, openPicture, lastUse>>
           ELSE LET changed == active_sps = s.id /\ ~sps_is_equal(s, SeqParSet[active_sps])
                IN  /\ SeqParSet' = [SeqParSet EXCEPT ![s.id] = s]
                    /\ profile_idc' = s.profile
                    /\ active_sps' = (IF changed THEN NULL ELSE active_sps)
                    /\ openPicture' = (IF changed THEN NoOpen ELSE openPicture)
                    /\ lastUse' = [is |-> "set", closed |-> IF changed THEN Closed(openPicture) ELSE {}]
        /\ excuses' = excuses \cup
             (IF ~Supported(given.profile) THEN {"unsupported"}
              ELSE IF sized # NoSet /\ sized.id = given.id /\ sized.level # given.level THEN {"level"} ELSE {})
  BY <1>0
<1> DEFINE changed == active_sps = s.id /\ ~sps_is_equal(s, SeqParSet[active_sps])
<1>2. /\ ParTypeOK /\ Filed /\ LastRead /\ SentStored /\ SizedRight /\ SpoiltExcused
      /\ SameUse /\ UnderWay /\ OpenRight /\ NullExcused /\ SliceHadSets /\ ParametersRight
  BY DEF SetsInv
<1>3. /\ setSender.left = 0
      /\ PicParSet' = PicParSet /\ active_pps' = active_pps /\ sized' = sized
  BY DEF ProcessSPS_baseline, BetweenPictures
<1>4. given \in SpsRec /\ given # NoSet /\ given.id \in SpsIds /\ given.mbs \in Nat
  BY SetsFacts DEF SpsRec
<1>5. /\ setSender'.sps = [setSender.sps EXCEPT ![given.id] = given]
      /\ setSender'.pps = setSender.pps /\ setSender'.active = setSender.active
      /\ setSender'.left = 0 /\ setSender'.with = setSender.with
      /\ setSender'.idrNext = (setSender.idrNext
                                 \/ (given.id = setSender.active /\ setSender.sps[given.id] # given))
  BY <1>1, <1>2, <1>3 DEF ParTypeOK
<1>6. /\ setSender'.sps[given.id] = given
      /\ \A i \in SpsIds : i # given.id => setSender'.sps[i] = setSender.sps[i]
  BY <1>2, <1>4, <1>5 DEF ParTypeOK
<1>7. s = InterpretSPS(given) /\ s \in SpsOrNone
  BY <1>1, <1>2, Interpreted
<1>8. /\ Supported(given.profile) => s = given
      /\ ~Supported(given.profile) /\ sps = NoSet => s = NoSet
      /\ ~Supported(given.profile) /\ sps # NoSet =>
           /\ s # NoSet /\ s.id = sps.id /\ s.mbs = sps.mbs /\ s.level = sps.level
           /\ ~Supported(s.profile)
  BY <1>2, <1>7, Interpreted
<1>9. excuses \subseteq excuses' /\ (~Supported(given.profile) => "unsupported" \in excuses')
  BY <1>1
<1>10. setSender' \in [sps : [SpsIds -> SpsOrNone], pps : [PpsIds -> PpsSent \cup {NoSet}],
                       active : SpsIds \cup {NULL}, sets : Nat, pictures : Nat, left : Nat,
                       with : PpsIds \cup {NULL}, idr : BOOLEAN, idrNext : BOOLEAN]
  <2>1. [setSender.sps EXCEPT ![given.id] = given] \in [SpsIds -> SpsOrNone]
    BY <1>2, <1>4 DEF ParTypeOK, SpsOrNone
  <2>2. setSender.sets + 1 \in Nat
    BY <1>2 DEF ParTypeOK
  <2>3. (setSender.idrNext \/ (given.id = setSender.active /\ setSender.sps[given.id] # given)) \in BOOLEAN
    OBVIOUS
  <2> QED
    BY <1>1, <1>2, <2>1, <2>2, <2>3 DEF ParTypeOK
<1>11. CASE s = NoSet
  <2>1. sps = NoSet /\ ~Supported(given.profile)
    BY <1>4, <1>8, <1>11
  <2>2. UNCHANGED <<SeqParSet, active_sps, profile_idc, openPicture, lastUse, sps>>
    BY <1>1, <1>11, <2>1
  <2>3. ParTypeOK'
    BY <1>2, <1>3, <1>10, <2>2 DEF ParTypeOK
  <2>4. Filed' /\ LastRead'
    BY <1>2, <1>3, <1>4, <1>5, <1>6, <2>2 DEF Filed, LastRead
  <2>5. SentStored'
    BY <1>2, <1>6, <2>1, <2>2 DEF SentStored, SentUsable, Stored
  <2>6. /\ SizedRight' /\ SpoiltExcused' /\ SameUse' /\ UnderWay'
        /\ OpenRight' /\ NullExcused' /\ SliceHadSets'
    <3>1. SizedRight'
      BY <1>2, <1>3, <1>9, <2>2 DEF SizedRight
    <3>2. SpoiltExcused' /\ SameUse'
      BY <1>9, <2>1 DEF SpoiltExcused, SameUse
    <3>3. UnderWay'
      BY <1>5 DEF UnderWay
    <3>4. OpenRight' /\ NullExcused' /\ SliceHadSets'
      BY <1>2, <1>3, <1>9, <2>2 DEF OpenRight, NullExcused, SliceHadSets
    <3> QED
      BY <3>1, <3>2, <3>3, <3>4
  <2>7. ParametersRight'
    BY <1>2, <1>3, <1>9, <2>1, <2>2 DEF ParametersRight, SliceHadSets
  <2> QED
    BY <2>3, <2>4, <2>5, <2>6, <2>7 DEF SetsInv
<1>12. CASE s # NoSet
  <2>1. /\ s \in SpsRec /\ s.id \in SpsIds
        /\ SeqParSet' = [SeqParSet EXCEPT ![s.id] = s] /\ profile_idc' = s.profile
        /\ active_sps' = (IF changed THEN NULL ELSE active_sps)
        /\ openPicture' = (IF changed THEN NoOpen ELSE openPicture)
        /\ lastUse' = [is |-> "set", closed |-> IF changed THEN Closed(openPicture) ELSE {}]
    BY <1>1, <1>7, <1>12, SetsFacts DEF SpsOrNone
  <2>2. SeqParSet'[s.id] = s /\ \A i \in SpsIds : i # s.id => SeqParSet'[i] = SeqParSet[i]
    BY <1>2, <2>1 DEF ParTypeOK
  <2>3. sps' = s
    BY <1>1
  <2>4. ~Supported(given.profile) => /\ sps # NoSet /\ s.id = sps.id /\ ~Supported(s.profile)
                                    /\ s.mbs = SeqParSet[s.id].mbs /\ s.level = SeqParSet[s.id].level
    BY <1>2, <1>8, <1>12 DEF LastRead
  <2>5. ParTypeOK'
    <3>1. SeqParSet' \in [SpsIds -> SpsOrNone]
      BY <1>2, <2>1 DEF ParTypeOK, SpsOrNone
    <3>2. active_sps' \in SpsIds \cup {NULL}
      BY <1>2, <2>1 DEF ParTypeOK
    <3> QED
      BY <1>2, <1>3, <1>7, <1>10, <2>3, <3>1, <3>2 DEF ParTypeOK
  <2>6. Filed' /\ LastRead'
    BY <1>2, <1>3, <1>4, <1>5, <1>6, <1>12, <2>1, <2>2, <2>3 DEF Filed, LastRead
  <2>7. SentStored'
    <3> SUFFICES ASSUME NEW i \in SpsIds, SentUsable(i)'
                 PROVE  Stored(i)'
      BY DEF SentStored
    <3>1. CASE Supported(given.profile)
      <4>1. s = given
        BY <1>8, <3>1
      <4>2. CASE i = given.id
        BY <1>6, <1>12, <2>2, <4>1, <4>2 DEF Stored
      <4>3. CASE i # given.id
        BY <1>2, <1>6, <2>2, <4>1, <4>3 DEF SentStored, SentUsable, Stored
      <4> QED
        BY <4>2, <4>3
    <3>2. CASE ~Supported(given.profile)
      <4>1. i # given.id
        BY <1>6, <3>2 DEF SentUsable
      <4>2. SentUsable(i) /\ Stored(i)
        BY <1>2, <1>6, <4>1 DEF SentStored, SentUsable
      <4>3. CASE i = s.id
        BY <1>6, <1>12, <2>2, <2>4, <3>2, <4>1, <4>2, <4>3 DEF Stored
      <4>4. CASE i # s.id
        BY <1>6, <2>2, <4>1, <4>2, <4>4 DEF Stored
      <4> QED
        BY <4>3, <4>4
    <3> QED
      BY <3>1, <3>2
  <2>8. SizedRight'
    <3> SUFFICES ASSUME active_sps' # NULL
                 PROVE  /\ sized # NoSet /\ SeqParSet'[active_sps'] # NoSet
                        /\ sized.id = active_sps' /\ sized.mbs = SeqParSet'[active_sps'].mbs
                        /\ sized.level = SeqParSet'[active_sps'].level \/ "level" \in excuses'
      BY <1>3 DEF SizedRight
    <3>1. ~changed /\ active_sps' = active_sps /\ active_sps \in SpsIds
      BY <1>2, <2>1 DEF ParTypeOK
    <3>2. /\ sized # NoSet /\ SeqParSet[active_sps] # NoSet
          /\ sized.id = active_sps /\ sized.mbs = SeqParSet[active_sps].mbs
          /\ sized.level = SeqParSet[active_sps].level \/ "level" \in excuses
      BY <1>2, <3>1 DEF SizedRight
    <3>3. CASE active_sps # s.id
      BY <1>9, <2>2, <3>1, <3>2, <3>3
    <3>4. CASE active_sps = s.id
      <4>1. s.mbs = SeqParSet[active_sps].mbs
        BY <3>1, <3>4 DEF sps_is_equal
      <4>2. sized.level = s.level \/ "level" \in excuses'
        <5>1. CASE Supported(given.profile)
          BY <1>1, <1>8, <3>2, <3>4, <5>1
        <5>2. CASE ~Supported(given.profile)
          BY <1>9, <2>4, <3>2, <3>4, <5>2
        <5> QED
          BY <5>1, <5>2
      <4> QED
        BY <1>12, <2>2, <3>1, <3>2, <3>4, <4>1, <4>2
    <3> QED
      BY <3>3, <3>4
  <2>9. SpoiltExcused'
    <3>1. CASE ~Supported(given.profile)
      BY <1>9, <3>1 DEF SpoiltExcused
    <3>2. CASE Supported(given.profile)
      BY <1>2, <1>8, <1>9, <2>2, <3>2 DEF SpoiltExcused, NoneSpoilt
    <3> QED
      BY <3>1, <3>2
  <2>10. SameUse'
    <3>1. CASE ~changed \/ "unsupported" \in excuses' \/ "idr lost" \in excuses' \/ setSender.idrNext
      BY <1>2, <1>5, <1>9, <2>1, <3>1 DEF SameUse
    <3>2. CASE changed /\ "unsupported" \notin excuses' /\ "idr lost" \notin excuses' /\ ~setSender.idrNext
      <4>1. active_sps = setSender.active /\ s = given /\ Supported(given.profile) /\ NoneSpoilt
        BY <1>2, <1>8, <1>9, <3>2 DEF SameUse, SpoiltExcused
      <4>2. active_sps = given.id /\ SeqParSet[given.id] # NoSet /\ SeqParSet[given.id] \in SpsRec
        BY <1>2, <1>4, <3>2, <4>1, SetsFacts DEF SizedRight, ParTypeOK, SpsOrNone
      <4>3. SeqParSet[given.id].id = given.id
        BY <1>2, <1>4, <4>2 DEF Filed
      <4>4. SeqParSet[given.id] # given
        BY <1>4, <3>2, <4>1, <4>2 DEF sps_is_equal
      <4>5. setSender.sps[given.id] # given
        BY <1>2, <1>4, <4>1, <4>2, <4>4 DEF SentStored, SentUsable, Stored, NoneSpoilt
      <4> QED
        BY <1>5, <4>1, <4>2, <4>5 DEF SameUse
    <3> QED
      BY <3>1, <3>2
  <2>11. UnderWay' /\ OpenRight' /\ NullExcused' /\ SliceHadSets'
    <3>1. UnderWay'
      BY <1>5 DEF UnderWay
    <3>2. OpenRight'
      BY <1>2, <1>3, <2>1 DEF OpenRight
    <3>3. NullExcused' /\ SliceHadSets'
      BY <1>2, <1>3, <1>9, <1>12, <2>1, <2>3 DEF NullExcused, SliceHadSets
    <3> QED
      BY <3>1, <3>2, <3>3
  <2>12. ParametersRight'
    <3>1. lastUse'.is = "set" /\ ClosedRight(lastUse'.closed)
      BY <1>2, <2>1, ClosedIsRight
    <3> QED
      BY <3>1 DEF ParametersRight, ClosedRight
  <2> QED
    BY <2>5, <2>6, <2>7, <2>8, <2>9, <2>10, <2>11, <2>12 DEF SetsInv
<1> QED
  BY <1>11, <1>12

(* Parts of the invariant that no change of the sender, of the open picture or *)
(* of what was used last disturbs.                                           *)
LEMMA TablesStay ==
  ASSUME SetsInv, UNCHANGED <<SeqParSet, sps, active_sps, profile_idc, sized>>,
         setSender'.sps = setSender.sps, setSender'.active = setSender.active,
         setSender'.idrNext = setSender.idrNext,
         excuses \subseteq excuses'
  PROVE  LastRead' /\ SentStored' /\ SizedRight' /\ SpoiltExcused' /\ SameUse'
<1>1. LastRead'
  BY DEF SetsInv, LastRead
<1>2. SentStored'
  BY DEF SetsInv, SentStored, SentUsable, Stored
<1>3. SizedRight'
  BY DEF SetsInv, SizedRight
<1>4. SpoiltExcused'
  BY DEF SetsInv, SpoiltExcused, NoneSpoilt
<1>5. SameUse'
  BY DEF SetsInv, SameUse
<1> QED
  BY <1>1, <1>2, <1>3, <1>4, <1>5

LEMMA PpsStep ==
  ASSUME SetsInv, ProcessPPS_baseline
  PROVE  SetsInv'
<1>1. PICK p \in PpsSent :
        LET changed == active_pps = p.id /\ ~pps_is_equal(p, PicParSet[active_pps])
        IN  /\ setSender' = [setSender EXCEPT !.pps[p.id] = p, !.sets = @ + 1]
            /\ PicParSet' = [PicParSet EXCEPT ![p.id] = p]
            /\ active_pps' = (IF changed THEN NULL ELSE active_pps)
            /\ openPicture' = (IF changed THEN NoOpen ELSE openPicture)
            /\ lastUse' = [is |-> "set", closed |-> IF changed THEN Closed(openPicture) ELSE {}]
            /\ excuses' = excuses \cup (IF changed THEN {"no slice since"} ELSE {})
  BY DEF ProcessPPS_baseline
<1> DEFINE changed == active_pps = p.id /\ ~pps_is_equal(p, PicParSet[active_pps])
<1>2. ParTypeOK /\ Filed /\ OpenRight /\ NullExcused /\ UnderWay
  BY DEF SetsInv
<1>3. setSender.left = 0 /\ UNCHANGED <<SeqParSet, sps, active_sps, profile_idc, sized>>
  BY DEF ProcessPPS_baseline, BetweenPictures
<1>4. p.id \in PpsIds /\ p # NoSet
  BY SetsFacts
<1>5. /\ setSender'.sps = setSender.sps /\ setSender'.active = setSender.active
      /\ setSender'.idrNext = setSender.idrNext /\ setSender'.left = 0
      /\ setSender'.pps = [setSender.pps EXCEPT ![p.id] = p]
  BY <1>1, <1>2, <1>3 DEF ParTypeOK
<1>6. ParTypeOK'
  <2>1. [setSender.pps EXCEPT ![p.id] = p] \in [PpsIds -> PpsSent \cup {NoSet}]
    BY <1>2, <1>4 DEF ParTypeOK
  <2>2. setSender.sets + 1 \in Nat
    BY <1>2 DEF ParTypeOK
  <2>3. setSender' \in [sps : [SpsIds -> SpsOrNone], pps : [PpsIds -> PpsSent \cup {NoSet}],
                        active : SpsIds \cup {NULL}, sets : Nat, pictures : Nat, left : Nat,
                        with : PpsIds \cup {NULL}, idr : BOOLEAN, idrNext : BOOLEAN]
    BY <1>1, <1>2, <2>1, <2>2 DEF ParTypeOK
  <2>4. active_pps' \in PpsIds \cup {NULL}
    BY <1>1, <1>2 DEF ParTypeOK
  <2> QED
    BY <1>2, <1>3, <2>3, <2>4 DEF ParTypeOK
<1>7. Filed'
  <2>1. PicParSet' = setSender'.pps
    BY <1>1, <1>2, <1>5 DEF Filed
  <2>2. \A q \in PpsIds : setSender'.pps[q] # NoSet => setSender'.pps[q].id = q
    BY <1>2, <1>4, <1>5 DEF Filed, ParTypeOK
  <2> QED
    BY <1>2, <1>3, <1>5, <2>1, <2>2 DEF Filed
<1>8. excuses \subseteq excuses'
  BY <1>1
<1>9. LastRead' /\ SentStored' /\ SizedRight' /\ SpoiltExcused' /\ SameUse'
  BY <1>3, <1>5, <1>8, TablesStay
<1>10. UnderWay'
  BY <1>5 DEF UnderWay
<1>11. OpenRight'
  BY <1>1, <1>2, <1>3 DEF OpenRight
<1>12. NullExcused'
  BY <1>1, <1>2, <1>3 DEF NullExcused
<1>13. lastUse'.is = "set" /\ ClosedRight(lastUse'.closed)
  BY <1>1, <1>2, ClosedIsRight
<1>14. SliceHadSets' /\ ParametersRight'
  BY <1>13 DEF SliceHadSets, ParametersRight, ClosedRight
<1> QED
  BY <1>6, <1>7, <1>9, <1>10, <1>11, <1>12, <1>14 DEF SetsInv

LEMMA StartStep ==
  ASSUME SetsInv, StartPicture
  PROVE  SetsInv'
<1>1. PICK p \in {q \in PpsIds : Usable(q)}, idr \in BOOLEAN :
        /\ setSender.idrNext \/ setSender.pps[p].sps # setSender.active => idr
        /\ setSender' = [setSender EXCEPT !.active = setSender.pps[p].sps, !.pictures = @ + 1, !.with = p,
                                          !.left = SlicesPerPicture, !.idr = idr, !.idrNext = FALSE]
        /\ excuses' = (IF idr THEN excuses \cup {"idr lost"} ELSE excuses)
  BY DEF StartPicture
<1>2. /\ ParTypeOK /\ Filed /\ LastRead /\ SentStored /\ SizedRight /\ SpoiltExcused
      /\ SameUse /\ UnderWay /\ OpenRight /\ NullExcused
  BY DEF SetsInv
<1>3. /\ lastUse' = [is |-> "sent", closed |-> {}]
      /\ UNCHANGED <<SeqParSet, PicParSet, sps, active_sps, active_pps, profile_idc, sized, openPicture>>
  BY DEF StartPicture
<1>4. p \in PpsIds /\ setSender.pps[p] # NoSet /\ SentUsable(setSender.pps[p].sps)
  BY DEF Usable, SentUsable
<1>5. setSender.pps[p].sps \in SpsIds
  BY <1>2, <1>4, SetsFacts DEF ParTypeOK
<1>6. /\ setSender'.sps = setSender.sps /\ setSender'.pps = setSender.pps
      /\ setSender'.active = setSender.pps[p].sps /\ setSender'.with = p /\ setSender'.idrNext = FALSE
      /\ setSender'.idr = idr
  BY <1>1, <1>2 DEF ParTypeOK
<1>7. ParTypeOK'
  <2>1. setSender.pictures + 1 \in Nat /\ SlicesPerPicture \in Nat
    BY <1>2, SetsFacts DEF ParTypeOK
  <2>2. setSender' \in [sps : [SpsIds -> SpsOrNone], pps : [PpsIds -> PpsSent \cup {NoSet}],
                        active : SpsIds \cup {NULL}, sets : Nat, pictures : Nat, left : Nat,
                        with : PpsIds \cup {NULL}, idr : BOOLEAN, idrNext : BOOLEAN]
    BY <1>1, <1>2, <1>4, <1>5, <2>1 DEF ParTypeOK
  <2> QED
    BY <1>2, <1>3, <2>2 DEF ParTypeOK
<1>8. Filed'
  BY <1>2, <1>3, <1>6 DEF Filed
<1>9. excuses \subseteq excuses'
  BY <1>1
<1>10. LastRead' /\ SentStored' /\ OpenRight' /\ SpoiltExcused'
  <2>1. LastRead' /\ OpenRight' /\ SpoiltExcused'
    BY <1>2, <1>3, <1>9 DEF LastRead, OpenRight, SpoiltExcused, NoneSpoilt
  <2>2. SentStored'
    BY <1>2, <1>3, <1>6 DEF SentStored, SentUsable, Stored
  <2> QED
    BY <2>1, <2>2
<1>11. SizedRight' /\ NullExcused'
  BY <1>2, <1>3, <1>9 DEF SizedRight, NullExcused
<1>12. SameUse'
  <2>1. CASE idr
    BY <1>1, <2>1 DEF SameUse
  <2>2. CASE ~idr
    BY <1>1, <1>2, <1>3, <1>6, <1>9, <2>2 DEF SameUse
  <2> QED
    BY <2>1, <2>2
<1>13. UnderWay'
  BY <1>4, <1>6 DEF UnderWay, SentUsable
<1>14. SliceHadSets' /\ ParametersRight'
  BY <1>3 DEF SliceHadSets, ParametersRight
<1> QED
  BY <1>7, <1>8, <1>10, <1>11, <1>12, <1>13, <1>14 DEF SetsInv

LEMMA LostStep ==
  ASSUME SetsInv, SetSliceLost \/ EndOfSets
  PROVE  SetsInv'
<1>1. ParTypeOK /\ Filed /\ OpenRight /\ NullExcused /\ UnderWay
  BY DEF SetsInv
<1>2. UNCHANGED <<SeqParSet, PicParSet, sps, active_sps, active_pps, profile_idc, sized, openPicture, excuses>>
  BY DEF SetSliceLost, EndOfSets
<1>3. /\ setSender'.sps = setSender.sps /\ setSender'.pps = setSender.pps
      /\ setSender'.active = setSender.active /\ setSender'.with = setSender.with
      /\ setSender'.idrNext = setSender.idrNext
      /\ setSender'.left > 0 => setSender.left > 0
  BY <1>1 DEF SetSliceLost, EndOfSets, ParTypeOK
<1>4. ParTypeOK'
  <2>1. setSender' \in [sps : [SpsIds -> SpsOrNone], pps : [PpsIds -> PpsSent \cup {NoSet}],
                        active : SpsIds \cup {NULL}, sets : Nat, pictures : Nat, left : Nat,
                        with : PpsIds \cup {NULL}, idr : BOOLEAN, idrNext : BOOLEAN]
    <3>1. CASE SetSliceLost
      <4>1. setSender' = [setSender EXCEPT !.left = @ - 1] /\ setSender.left - 1 \in Nat
        BY <1>1, <3>1 DEF SetSliceLost, ParTypeOK
      <4> QED
        BY <1>1, <4>1 DEF ParTypeOK
    <3>2. CASE EndOfSets
      BY <1>1, <3>2, SetsFacts DEF EndOfSets, ParTypeOK
    <3> QED
      BY <3>1, <3>2
  <2> QED
    BY <1>1, <1>2, <2>1 DEF ParTypeOK
<1>5. Filed' /\ OpenRight' /\ NullExcused'
  BY <1>1, <1>2, <1>3 DEF Filed, OpenRight, NullExcused
<1>6. LastRead' /\ SentStored' /\ SizedRight' /\ SpoiltExcused' /\ SameUse'
  BY <1>2, <1>3, TablesStay
<1>7. UnderWay'
  BY <1>1, <1>3 DEF UnderWay, SentUsable
<1>8. /\ lastUse'.closed = {}
      /\ lastUse'.is = "sent" \/ (lastUse'.is = "end" /\ lastUse'.null = (active_pps = NULL))
  BY DEF SetSliceLost, EndOfSets
<1>9. SliceHadSets' /\ ParametersRight'
  BY <1>1, <1>2, <1>8 DEF SliceHadSets, ParametersRight, NullExcused
<1> QED
  BY <1>4, <1>5, <1>6, <1>7, <1>9 DEF SetsInv

LEMMA SliceStep ==
  ASSUME SetsInv, UseParameterSet_baseline
  PROVE  SetsInv'
<1> DEFINE pps == setSender.with
           s == PicParSet[pps].sps
           reset == active_sps # s
           again == active_pps # pps
           other == openPicture # NoOpen /\ openPicture.picture # setSender.pictures
           starts == openPicture = NoOpen \/ reset \/ again \/ other
           slices == IF starts THEN 1 ELSE openPicture.slices + 1
<1>1. /\ ParTypeOK /\ Filed /\ LastRead /\ SentStored /\ SizedRight /\ SpoiltExcused
      /\ SameUse /\ UnderWay /\ OpenRight /\ NullExcused /\ SliceHadSets
  BY DEF SetsInv
<1>2. /\ setSender.left > 0
      /\ active_sps' = s /\ active_pps' = pps
      /\ sized' = (IF reset THEN SeqParSet[s] ELSE sized)
      /\ openPicture' = (IF slices = SlicesPerPicture THEN NoOpen
                         ELSE [picture |-> setSender.pictures, slices |-> slices, sized |-> sized',
                               set |-> SeqParSet[s]])
      /\ lastUse' = [is |-> "slice", reset |-> reset, idr |-> setSender.idr, excuses |-> excuses,
                     closed |-> IF starts THEN Closed(openPicture) ELSE {}]
      /\ setSender' = [setSender EXCEPT !.left = @ - 1]
      /\ excuses' = excuses \ ({"no slice since"} \cup (IF setSender.idr THEN {"idr lost"} ELSE {})
                                 \cup (IF reset THEN {"level"} ELSE {})
                                 \cup (IF NoneSpoilt THEN {"unsupported"} ELSE {}))
      /\ UNCHANGED <<SeqParSet, PicParSet, sps, profile_idc>>
  BY DEF UseParameterSet_baseline
<1>3. /\ ~setSender.idrNext
      /\ pps \in PpsIds /\ setSender.pps[pps] # NoSet
      /\ setSender.active = setSender.pps[pps].sps
      /\ SentUsable(setSender.pps[pps].sps)
  BY <1>1, <1>2 DEF UnderWay
<1>4. /\ PicParSet[pps] = setSender.pps[pps] /\ s \in SpsIds
      /\ s = setSender.active /\ SentUsable(s) /\ pps # NULL /\ s # NULL
  BY <1>1, <1>3, SetsFacts DEF Filed, ParTypeOK
<1>5. Stored(s) /\ SeqParSet[s].id = s /\ setSender.sps[s].id = s /\ sps # NoSet
  BY <1>1, <1>4 DEF SentStored, Filed, Stored, SentUsable
<1>6. /\ setSender'.sps = setSender.sps /\ setSender'.pps = setSender.pps
      /\ setSender'.active = setSender.active /\ setSender'.with = setSender.with
      /\ setSender'.idrNext = setSender.idrNext
      /\ setSender'.left > 0 => setSender.left > 0
  BY <1>1, <1>2 DEF ParTypeOK
<1>7. /\ sized' # NoSet /\ sized'.id = s /\ sized'.mbs = SeqParSet[s].mbs
      /\ sized'.level = SeqParSet[s].level \/ "level" \in excuses'
  <2>1. CASE reset
    BY <1>2, <1>5, <2>1 DEF Stored
  <2>2. CASE ~reset
    BY <1>1, <1>2, <1>4, <2>2 DEF SizedRight
  <2> QED
    BY <2>1, <2>2
<1>8. ParTypeOK'
  <2>1. setSender.left - 1 \in Nat
    <3>1. setSender.left \in Nat
      BY <1>1 DEF ParTypeOK
    <3>2. setSender.left > 0
      BY <1>2
    <3> QED
      BY <3>1, <3>2
  <2>2. setSender' \in [sps : [SpsIds -> SpsOrNone], pps : [PpsIds -> PpsSent \cup {NoSet}],
                        active : SpsIds \cup {NULL}, sets : Nat, pictures : Nat, left : Nat,
                        with : PpsIds \cup {NULL}, idr : BOOLEAN, idrNext : BOOLEAN]
    BY <1>1, <1>2, <2>1 DEF ParTypeOK
  <2>3. sized' \in SpsOrNone
    BY <1>1, <1>2, <1>4 DEF ParTypeOK
  <2> QED
    BY <1>1, <1>2, <1>3, <1>4, <2>2, <2>3 DEF ParTypeOK
<1>9. Filed' /\ LastRead'
  BY <1>1, <1>2, <1>6 DEF Filed, LastRead
<1>10. SentStored'
  BY <1>1, <1>2, <1>6 DEF SentStored, SentUsable, Stored
<1>11. SizedRight'
  BY <1>2, <1>5, <1>7 DEF SizedRight, Stored
<1>12. SpoiltExcused'
  <2>1. NoneSpoilt' <=> NoneSpoilt
    BY <1>2 DEF NoneSpoilt
  <2> QED
    BY <1>1, <1>2, <2>1 DEF SpoiltExcused
<1>13. SameUse'
  BY <1>2, <1>4, <1>6 DEF SameUse
<1>14. UnderWay'
  BY <1>1, <1>6 DEF UnderWay, SentUsable
<1>15. OpenRight'
  <2>1. CASE slices = SlicesPerPicture
    BY <1>2, <2>1 DEF OpenRight
  <2>2. CASE slices # SlicesPerPicture
    BY <1>2, <1>7, <2>2 DEF OpenRight
  <2> QED
    BY <2>1, <2>2
<1>16. NullExcused' /\ SliceHadSets'
  BY <1>2, <1>4, <1>5 DEF NullExcused, SliceHadSets
<1>17. /\ lastUse'.is = "slice" /\ lastUse'.reset = reset /\ lastUse'.idr = setSender.idr
       /\ lastUse'.excuses = excuses /\ ClosedRight(lastUse'.closed)
  BY <1>1, <1>2, ClosedIsRight
<1>18. reset => excuses \cap {"unsupported", "idr lost"} # {}
  BY <1>1, <1>3, <1>4 DEF SameUse
<1>19. setSender'.sps[setSender'.pps[setSender'.with].sps] = setSender.sps[s]
  BY <1>4, <1>6
<1>20. /\ active_pps' = setSender'.with /\ active_sps' = setSender.sps[s].id
       /\ SeqParSet'[active_sps'].mbs = setSender.sps[s].mbs
       /\ SeqParSet'[active_sps'].level = setSender.sps[s].level
       /\ sized'.mbs = setSender.sps[s].mbs
       /\ sized'.level # setSender.sps[s].level => "level" \in excuses'
  BY <1>2, <1>5, <1>6, <1>7 DEF Stored
<1>21. sps'.id = active_sps' => profile_idc' = SeqParSet'[active_sps'].profile
  BY <1>2, <1>5, <1>9 DEF LastRead
<1>22. ParametersRight'
  BY <1>17, <1>18, <1>19, <1>20, <1>21 DEF ParametersRight, ClosedRight
<1> QED
  BY <1>8, <1>9, <1>10, <1>11, <1>12, <1>13, <1>14, <1>15, <1>16, <1>22 DEF SetsInv

(* Whatever sets come and whichever slices are lost: the sets in use are the   *)
(* ones referred to, and pictures are closed with the sizes they were opened   *)
(* with; references go for a reason.                                          *)
THEOREM SetsRight == SetsSpec => []ParametersRight
<1>1. SetsInit => SetsInv
  <2> SUFFICES ASSUME SetsInit
               PROVE  SetsInv
    OBVIOUS
  <2>1. ParTypeOK
    BY DEF SetsInit, ParTypeOK, SpsOrNone
  <2>2. Filed /\ LastRead
    BY DEF SetsInit, Filed, LastRead
  <2>3. SentStored /\ SizedRight
    BY DEF SetsInit, SentStored, SentUsable, SizedRight
  <2>4. SpoiltExcused /\ SameUse /\ UnderWay
    BY DEF SetsInit, SpoiltExcused, NoneSpoilt, SameUse, UnderWay
  <2>5. OpenRight /\ NullExcused /\ SliceHadSets /\ ParametersRight
    BY DEF SetsInit, OpenRight, NullExcused, SliceHadSets, ParametersRight
  <2> QED
    BY <2>1, <2>2, <2>3, <2>4, <2>5 DEF SetsInv
<1>2. SetsInv /\ [SetsNext]_setVars => SetsInv'
  <2>1. SetsInv /\ UNCHANGED setVars => SetsInv'
    <3> SUFFICES ASSUME SetsInv, UNCHANGED setVars
                 PROVE  SetsInv'
      OBVIOUS
    <3>1. ParTypeOK' /\ Filed' /\ LastRead' /\ SentStored' /\ SizedRight'
      BY DEF setVars, SetsInv, ParTypeOK, Filed, LastRead, SentStored, SentUsable, Stored, SizedRight
    <3>2. SpoiltExcused' /\ SameUse' /\ UnderWay' /\ OpenRight' /\ NullExcused' /\ SliceHadSets'
      BY DEF setVars, SetsInv, SpoiltExcused, NoneSpoilt, SameUse, UnderWay, SentUsable, OpenRight,
             NullExcused, SliceHadSets
    <3>3. ParametersRight'
      BY DEF setVars, SetsInv, ParametersRight
    <3> QED
      BY <3>1, <3>2, <3>3 DEF SetsInv
  <2> QED
    BY <2>1, SpsStep, PpsStep, StartStep, LostStep, SliceStep DEF SetsNext
<1>3. SetsInv => ParametersRight
  BY DEF SetsInv
<1> QED
  BY <1>1, <1>2, <1>3, PTL DEF SetsSpec

-----------------------------------------------------------------------------
(* The frames of the speech codec *)

(* The powers of two that the widths of the parameters come to. *)
LEMMA Powers ==
  /\ 2 ^ 0 = 1 /\ 2 ^ 1 = 2 /\ 2 ^ 2 = 4 /\ 2 ^ 3 = 8 /\ 2 ^ 4 = 16 /\ 2 ^ 5 = 32 /\ 2 ^ 6 = 64
  /\ 2 ^ 7 = 128 /\ 2 ^ 8 = 256 /\ 2 ^ 9 = 512 /\ 2 ^ 10 = 1024 /\ 2 ^ 11 = 2048
  /\ 2 ^ 12 = 4096 /\ 2 ^ 13 = 8192
  OBVIOUS

(* The values of a parameter of n bits. *)
Values(n) == 0 .. 2 ^ n - 1

(* The ranges of the widths there are. *)
LEMMA ValuesAre ==
  /\ Values(1) = 0 .. 1 /\ Values(4) = 0 .. 15 /\ Values(5) = 0 .. 31 /\ Values(7) = 0 .. 127
  /\ Values(8) = 0 .. 255 /\ Values(10) = 0 .. 1023 /\ Values(13) = 0 .. 8191
  BY Powers DEF Values

(* A number cut at a bit is twice the number cut one bit higher, and the bit. *)
LEMMA Halves ==
  ASSUME NEW v \in Nat, NEW m \in 0 .. 12
  PROVE  v \div (2 ^ m) = 2 * (v \div (2 ^ (m + 1))) + Bit(v, m)
<1> DEFINE Half(k) == v \div (2 ^ k) = 2 * (v \div (2 ^ (k + 1))) + Bit(v, k)
<1>0. Half(0)
  BY Powers DEF Bit
<1>1. Half(1)
  BY Powers DEF Bit
<1>2. Half(2)
  BY Powers DEF Bit
<1>3. Half(3)
  BY Powers DEF Bit
<1>4. Half(4)
  BY Powers DEF Bit
<1>5. Half(5)
  BY Powers DEF Bit
<1>6. Half(6)
  BY Powers DEF Bit
<1>7. Half(7)
  BY Powers DEF Bit
<1>8. Half(8)
  BY Powers DEF Bit
<1>9. Half(9)
  BY Powers DEF Bit
<1>10. Half(10)
  BY Powers DEF Bit
<1>11. Half(11)
  BY Powers DEF Bit
<1>12. Half(12)
  BY Powers DEF Bit
<1>13. m \in {0, 1, 2, 3, 4, 5, 6, 7, 8, 9, 10, 11, 12}
  OBVIOUS
<1> HIDE DEF Half
<1>14. Half(m)
  BY <1>0, <1>1, <1>2, <1>3, <1>4, <1>5, <1>6, <1>7, <1>8, <1>9, <1>10, <1>11, <1>12, <1>13, Zenon
<1> QED
  BY <1>14 DEF Half

(* The powers of two are positive numbers. *)
LEMMA PowersPositive ==
  ASSUME NEW m \in 0 .. 13
  PROVE  2 ^ m \in Nat /\ 2 ^ m > 0
<1> DEFINE Positive(k) == 2 ^ k \in Nat /\ 2 ^ k > 0
<1>1. Positive(0) /\ Positive(1) /\ Positive(2) /\ Positive(3) /\ Positive(4) /\ Positive(5) /\ Positive(6)
  BY Powers
<1>2. Positive(7) /\ Positive(8) /\ Positive(9) /\ Positive(10) /\ Positive(11) /\ Positive(12) /\ Positive(13)
  BY Powers
<1>3. m \in {0, 1, 2, 3, 4, 5, 6, 7, 8, 9, 10, 11, 12, 13}
  OBVIOUS
<1> HIDE DEF Positive
<1>4. Positive(m)
  BY <1>1, <1>2, <1>3, Zenon
<1> QED
  BY <1>4 DEF Positive

(* A set of numbers has a least element. *)
LEMMA LeastPlace ==
  ASSUME NEW K, K \subseteq Nat, K # {}
  PROVE  \E k \in K : \A j \in K : k <= j
<1>1. IsWellFoundedOn(OpToRel(<, Nat), Nat)
  BY NatLessThanWellFounded
<1>2. \E k \in K : \A j \in K : ~(<<j, k>> \in OpToRel(<, Nat))
  BY <1>1, WFMin
<1>3. \A j, k \in K : ~(j < k) => k <= j
  OBVIOUS
<1> QED
  BY <1>2, <1>3 DEF OpToRel

(* bin2int() reads what int2bin() wrote: the sum over the words is, after each of
   them, the value cut at the bits still to come. *)
LEMMA BackAgain ==
  ASSUME NEW n \in 1 .. 13, NEW v \in Nat, v < 2 ^ n, NEW start \in Nat, NEW bits,
         \A k \in 1 .. n : bits[start + k] = int2bin(v, n, k)
  PROVE  bin2int(bits, start, n) = v
<1> DEFINE h(k) == v \div (2 ^ (n - k))
           w == [k \in 0 .. n |-> h(k)]
           Sum(g) == [k \in 0 .. n |-> IF k = 0 THEN 0 ELSE 2 * g[k - 1] + (IF bits[start + k] = BIT_1 THEN 1 ELSE 0)]
<1>1. h(0) = 0 /\ h(n) = v
  <2>1. \A p \in Nat : p > 0 /\ v < p => v \div p = 0
    OBVIOUS
  <2>2. n - 0 = n /\ n - n = 0 /\ v \div 1 = v /\ n \in 0 .. 13
    OBVIOUS
  <2>3. v \div (2 ^ n) = 0
    BY <2>1, <2>2, PowersPositive
  <2> QED
    BY <2>2, <2>3, Powers
<1>2. ASSUME NEW k \in 1 .. n
      PROVE  h(k) = 2 * h(k - 1) + (IF bits[start + k] = BIT_1 THEN 1 ELSE 0)
  <2> DEFINE m == n - k
  <2>1. m \in 0 .. 12 /\ m + 1 = n - (k - 1)
    OBVIOUS
  <2>2. 2 ^ m \in Nat /\ 2 ^ m > 0
    <3>1. m \in 0 .. 13
      BY <2>1
    <3> HIDE DEF m
    <3> QED
      BY <3>1, PowersPositive
  <2>3. \A p \in Nat : p > 0 => (v \div p) \in Nat
    OBVIOUS
  <2>4. Bit(v, m) \in {0, 1}
    <3>1. v \div (2 ^ m) \in Nat
      BY <2>2, <2>3
    <3> HIDE DEF m
    <3> QED
      BY <3>1 DEF Bit
  <2>5. bits[start + k] = IF Bit(v, m) = 0 THEN BIT_0 ELSE BIT_1
    BY DEF int2bin
  <2>6. v \div (2 ^ m) = 2 * (v \div (2 ^ (m + 1))) + Bit(v, m)
    BY <2>1, Halves
  <2>7. (IF bits[start + k] = BIT_1 THEN 1 ELSE 0) = Bit(v, m)
    BY <2>4, <2>5 DEF BIT_0, BIT_1
  <2>8. h(k) = 2 * h(k - 1) + Bit(v, m)
    BY <2>1, <2>6, Zenon
  <2> QED
    BY <2>7, <2>8, Zenon
<1> HIDE DEF h
<1>3. w = Sum(w)
  <2>1. \A k \in 0 .. n : w[k] = Sum(w)[k]
    BY <1>1, <1>2
  <2> QED
    BY <2>1
<1>4. PICK g : g = Sum(g) /\ bin2int(bits, start, n) = g[n]
  BY <1>3, Zenon DEF bin2int
<1>5. \A k \in 0 .. n : g[k] = h(k)
  <2> DEFINE Wrong == {k \in 0 .. n : g[k] # h(k)}
  <2> SUFFICES ASSUME Wrong # {}
               PROVE  FALSE
    OBVIOUS
  <2>1. PICK k \in Wrong : \A j \in Wrong : k <= j
    <3>1. Wrong \subseteq Nat
      OBVIOUS
    <3> QED
      BY <3>1, LeastPlace
  <2>2. CASE k = 0
    BY <2>2, <2>1, <1>4, <1>1
  <2>3. CASE k # 0
    <3>1. k \in 1 .. n /\ k - 1 \in 0 .. n /\ k - 1 \notin Wrong
      BY <2>1, <2>3
    <3>2. g[k - 1] = h(k - 1)
      BY <3>1
    <3>3. g[k] = 2 * g[k - 1] + (IF bits[start + k] = BIT_1 THEN 1 ELSE 0)
      BY <1>4, <3>1
    <3> QED
      BY <2>1, <3>1, <3>2, <3>3, <1>2
  <2> QED
    BY <2>2, <2>3
<1> QED
  BY <1>4, <1>5, <1>1

(* The words of the parameters lie one behind the other. *)
LEMMA Intervals ==
  /\ \A i \in 1 .. 11 : /\ bitsno[i] \in 1 .. 13 /\ StartOf[i] \in Nat
                        /\ StartOf[i] + bitsno[i] <= SpeechBits
  /\ \A i, j \in 1 .. 11 : i < j => StartOf[i] + bitsno[i] <= StartOf[j]
<1>1. /\ bitsno[1] = 8 /\ bitsno[2] = 10 /\ bitsno[3] = 8 /\ bitsno[4] = 1 /\ bitsno[5] = 13 /\ bitsno[6] = 4
      /\ bitsno[7] = 7 /\ bitsno[8] = 5 /\ bitsno[9] = 13 /\ bitsno[10] = 4 /\ bitsno[11] = 7
  BY DEF bitsno
<1>2. /\ StartOf[1] = 0 /\ StartOf[2] = 8 /\ StartOf[3] = 18 /\ StartOf[4] = 26 /\ StartOf[5] = 27
      /\ StartOf[6] = 40 /\ StartOf[7] = 44 /\ StartOf[8] = 51 /\ StartOf[9] = 56 /\ StartOf[10] = 69
      /\ StartOf[11] = 73
  BY DEF StartOf
<1>3. \A i \in 1 .. 11 : i \in {1, 2, 3, 4, 5, 6, 7, 8, 9, 10, 11}
  OBVIOUS
<1> QED
  BY <1>1, <1>2, <1>3 DEF SpeechBits

(* Each word belongs to one parameter. *)
LEMMA WordOfParameter ==
  ASSUME NEW i \in 1 .. 11, NEW k \in 1 .. bitsno[i]
  PROVE  StartOf[i] + k \in 1 .. SpeechBits /\ ParamOf[StartOf[i] + k] = i
<1> DEFINE b == StartOf[i] + k
           Owner(j) == j \in 1 .. 11 /\ b - StartOf[j] \in 1 .. bitsno[j]
<1>0. k \in Nat /\ 1 <= k /\ k <= bitsno[i]
  BY Intervals
<1>1. b \in 1 .. SpeechBits
  <2>1. bitsno[i] \in Nat /\ StartOf[i] \in Nat /\ StartOf[i] + bitsno[i] <= SpeechBits
    BY Intervals
  <2> QED
    BY <1>0, <2>1 DEF SpeechBits
<1>2. Len(bitsno) = 11
  BY DEF bitsno
<1>3. Owner(i)
  BY Intervals
<1>4. ASSUME NEW j, Owner(j)
      PROVE  j = i
  <2>1. /\ j \in 1 .. 11 /\ StartOf[j] + 1 <= StartOf[i] + k /\ StartOf[i] + k <= StartOf[j] + bitsno[j]
        /\ StartOf[j] \in Nat /\ StartOf[i] \in Nat /\ bitsno[i] \in Nat /\ bitsno[j] \in Nat
    BY <1>0, <1>4, Intervals
  <2>2. ~(i < j)
    BY <1>0, <2>1, Intervals
  <2>3. ~(j < i)
    BY <1>0, <2>1, Intervals
  <2> QED
    BY <2>1, <2>2, <2>3
<1>5. ParamOf[b] = CHOOSE j \in 1 .. 11 : b - StartOf[j] \in 1 .. bitsno[j]
  BY <1>1, <1>2, Zenon DEF ParamOf
<1> QED
  BY <1>1, <1>3, <1>4, <1>5

(* Words as the coder wrote them are read as the value it wrote. *)
LEMMA ParameterBack ==
  ASSUME NEW i \in 1 .. 11, NEW prm, prm[i] \in Values(bitsno[i]), NEW bits,
         \A k \in 1 .. bitsno[i] : bits[StartOf[i] + k] = prm2bits(prm)[StartOf[i] + k]
  PROVE  bin2int(bits, StartOf[i], bitsno[i]) = prm[i]
<1>1. bitsno[i] \in 1 .. 13 /\ StartOf[i] \in Nat
  BY Intervals
<1>2. ASSUME NEW k \in 1 .. bitsno[i]
      PROVE  bits[StartOf[i] + k] = int2bin(prm[i], bitsno[i], k)
  <2>1. PICK b : b = StartOf[i] + k
    OBVIOUS
  <2>2. b \in 1 .. SpeechBits /\ ParamOf[b] = i
    BY <2>1, WordOfParameter, Zenon
  <2>3. b - StartOf[i] = k
    BY <1>1, <2>1
  <2>4. prm2bits(prm)[b] = int2bin(prm[ParamOf[b]], bitsno[ParamOf[b]], b - StartOf[ParamOf[b]])
    BY <2>2, Zenon DEF prm2bits
  <2>5. prm2bits(prm)[b] = int2bin(prm[i], bitsno[i], k)
    BY <2>2, <2>3, <2>4, Zenon
  <2>6. bits[b] = prm2bits(prm)[b]
    BY <2>1, Zenon
  <2> QED
    BY <2>1, <2>5, <2>6, Zenon
<1>3. prm[i] \in Nat /\ prm[i] < 2 ^ bitsno[i]
  <2>1. PICK p \in Nat : p = 2 ^ bitsno[i]
    <3>1. PICK m \in 0 .. 13 : m = bitsno[i]
      BY <1>1
    <3>2. 2 ^ m \in Nat
      BY PowersPositive
    <3> QED
      BY <3>1, <3>2, Zenon
  <2> QED
    BY <2>1 DEF Values
<1> QED
  BY <1>1, <1>2, <1>3, BackAgain, Zenon

(* Multiplying by 2^15 / d + 1 and shifting divides by d. *)
LEMMA Dividing ==
  /\ \A n \in 0 .. 257 : Third(n) = n \div 3
  /\ \A n \in 0 .. 39 : Fifth(n) = n \div 5
<1>1. 2 ^ 15 = 32768
  OBVIOUS
<1>2. \A n \in 0 .. 257 : (n * 10923) \div 32768 = n \div 3
  OBVIOUS
<1>3. \A n \in 0 .. 39 : (n * 6554) \div 32768 = n \div 5
  OBVIOUS
<1> QED
  BY <1>1, <1>2, <1>3 DEF Third, Fifth

(* Dec_lag3() gives back the first lag that Enc_lag3() coded. *)
LEMMA FirstLagBack ==
  ASSUME NEW T0 \in 20 .. 143, NEW f \in -1 .. 1, T0 >= 85 => f = 0
  PROVE  /\ Enc_lag3(Lag(T0, f), 0, TRUE) \in Values(8)
         /\ Dec_lag3_first(Enc_lag3(Lag(T0, f), 0, TRUE)) = Lag(T0, f)
<1> DEFINE n == Enc_lag3(Lag(T0, f), 0, TRUE)
<1>1. n = IF T0 <= 85 THEN T0 * 3 - 58 + f ELSE T0 + 112
  BY DEF Enc_lag3, Lag
<1> HIDE DEF n
<1>2. n \in Values(8) /\ n \in 1 .. 255
  BY <1>1, ValuesAre
<1>3. CASE n < 197
  <2>1. T0 <= 84 /\ n = T0 * 3 - 58 + f
    BY <1>1, <1>3
  <2>2. Third(n + 2) = T0 - 19
    <3>1. Third(n + 2) = (n + 2) \div 3
      BY <1>2, <1>3, Dividing
    <3> QED
      BY <3>1, <2>1
  <2>3. Third(n + 2) + 19 = T0 /\ n - 3 * T0 + 58 = f
    BY <2>1, <2>2
  <2> QED
    BY <1>2, <1>3, <2>3, Zenon DEF Dec_lag3_first, n
<1>4. CASE ~(n < 197)
  <2>1. n - 112 = T0 /\ f = 0
    BY <1>1, <1>4, <1>2
  <2> QED
    BY <1>2, <1>4, <2>1, Zenon DEF Dec_lag3_first, n
<1> QED
  BY <1>3, <1>4

(* The range of nine lags of the second search lies inside that of all lags. *)
LEMMA LowestSecond ==
  ASSUME NEW T0 \in 19 .. 143
  PROVE  SecondMin(T0) \in 20 .. 134
  BY DEF SecondMin, PIT_MIN, PIT_MAX

(* Dec_lag3() gives back the second lag, from the same range. *)
LEMMA SecondLagBack ==
  ASSUME NEW T0 \in 19 .. 143, NEW s \in 0 .. 9, NEW f \in -1 .. 1
  PROVE  \E n \in 1 .. 30 :
           /\ n \in Values(5)
           /\ n = Enc_lag3(Lag(SecondMin(T0) + s, f), SecondMin(T0), FALSE)
           /\ Dec_lag3_second(n, T0) = Lag(SecondMin(T0) + s, f)
<1>1. PICK m \in 20 .. 134 : m = SecondMin(T0)
  BY LowestSecond
<1>2. PICK n \in 1 .. 30 : n = 3 * s + 2 + f
  OBVIOUS
<1>0. n \in Values(5)
  BY ValuesAre
<1>3. n = Enc_lag3(Lag(SecondMin(T0) + s, f), SecondMin(T0), FALSE)
  BY <1>1, <1>2 DEF Enc_lag3, Lag
<1>4. Third(n + 2) - 1 = s
  BY <1>2, Dividing
<1>5. n - 2 - 3 * s = f /\ s + m = m + s
  BY <1>2, <1>1
<1>6. Dec_lag3_second(n, T0) = Lag(SecondMin(T0) + s, f)
  BY <1>1, <1>4, <1>5, Zenon DEF Dec_lag3_second
<1> QED
  BY <1>0, <1>3, <1>6

(* Decod_ACELP() gives back the places and signs of the pulses. *)
LEMMA PulsesBack ==
  ASSUME NEW p \in Pulses
  PROVE  /\ ACELP_index(p) \in Values(13) /\ ACELP_signs(p) \in Values(4)
         /\ Decod_ACELP(ACELP_signs(p), ACELP_index(p)) = p
<1>1. PICK q1 \in 0 .. 7, q2 \in 0 .. 7, q3 \in 0 .. 7, q4 \in 0 .. 7, j \in 0 .. 1 :
        p.place = <<5 * q1, 5 * q2 + 1, 5 * q3 + 2, 5 * q4 + 3 + j>>
  <2>1. p.place \in Track(0) \X Track(1) \X Track(2) \X (Track(3) \cup Track(4))
    BY DEF Pulses
  <2>2. PICK a \in Track(0), b \in Track(1), c \in Track(2), d \in Track(3) \cup Track(4) : p.place = <<a, b, c, d>>
    BY <2>1
  <2>3. PICK q1 \in 0 .. 7 : a = 5 * q1
    BY DEF Track
  <2>4. PICK q2 \in 0 .. 7 : b = 5 * q2 + 1
    BY DEF Track
  <2>5. PICK q3 \in 0 .. 7 : c = 5 * q3 + 2
    BY DEF Track
  <2>6. PICK q4 \in 0 .. 7, j \in 0 .. 1 : d = 5 * q4 + 3 + j
    BY DEF Track
  <2> QED
    BY <2>2, <2>3, <2>4, <2>5, <2>6
<1>2. PICK index : index = q1 + 8 * q2 + 64 * q3 + 512 * (2 * q4 + j)
  OBVIOUS
<1>3. ACELP_index(p) = index
  <2>1. /\ p.place[1] = 5 * q1 /\ p.place[2] = 5 * q2 + 1 /\ p.place[3] = 5 * q3 + 2 /\ p.place[4] = 5 * q4 + 3 + j
    BY <1>1
  <2>2. /\ Fifth(5 * q1) = q1 /\ Fifth(5 * q2 + 1) = q2 /\ Fifth(5 * q3 + 2) = q3 /\ Fifth(5 * q4 + 3 + j) = q4
    BY Dividing
  <2> DEFINE q == [t \in 1 .. 4 |-> Fifth(p.place[t])]
  <2>3. q[1] = q1 /\ q[2] = q2 /\ q[3] = q3 /\ q[4] = q4
    BY <2>1, <2>2
  <2>4. ACELP_index(p) = q[1] + 8 * q[2] + 64 * q[3] + 512 * (2 * q[4] + (p.place[4] - (5 * q[4] + 3)))
    BY DEF ACELP_index
  <2> HIDE DEF q
  <2> QED
    BY <2>1, <2>3, <2>4, <1>2
<1>4. /\ index \in 0 .. 8191
      /\ index % 8 = q1 /\ (index \div 8) % 8 = q2 /\ (index \div 64) % 8 = q3 /\ (index \div 1024) % 8 = q4
      /\ (index \div 512) % 2 = j
  <2>1. PICK h \in 0 .. 15 : h = 2 * q4 + j
    OBVIOUS
  <2>2. index = q1 + 8 * q2 + 64 * q3 + 512 * h
    BY <1>2, <2>1
  <2>3. index \in 0 .. 8191 /\ index % 8 = q1 /\ (index \div 8) = q2 + 8 * q3 + 64 * h
        /\ (index \div 64) = q3 + 8 * h
    BY <2>2
  <2>4. (index \div 512) = h /\ (index \div 1024) = q4
    BY <2>1, <2>2
  <2>5. (q2 + 8 * q3 + 64 * h) % 8 = q2 /\ (q3 + 8 * h) % 8 = q3 /\ q4 % 8 = q4 /\ h % 2 = j
    BY <2>1
  <2> QED
    BY <2>3, <2>4, <2>5
<1>5. Bit(index, 9) = j
  BY <1>4, Powers DEF Bit
<1>6. PICK s1 \in {0, 1}, s2 \in {0, 1}, s3 \in {0, 1}, s4 \in {0, 1} :
        p.sign = [t \in 1 .. 4 |-> IF t = 1 THEN 2 * s1 - 1 ELSE IF t = 2 THEN 2 * s2 - 1
                                  ELSE IF t = 3 THEN 2 * s3 - 1 ELSE 2 * s4 - 1]
  <2>1. p.sign \in [1 .. 4 -> {-1, 1}]
    BY DEF Pulses
  <2>2. \A x \in {-1, 1} : \E y \in {0, 1} : x = 2 * y - 1
    OBVIOUS
  <2>3. PICK s1 \in {0, 1}, s2 \in {0, 1}, s3 \in {0, 1}, s4 \in {0, 1} :
          p.sign[1] = 2 * s1 - 1 /\ p.sign[2] = 2 * s2 - 1 /\ p.sign[3] = 2 * s3 - 1 /\ p.sign[4] = 2 * s4 - 1
    BY <2>1, <2>2
  <2> QED
    BY <2>1, <2>3
<1>7. PICK sign : sign = s1 + 2 * s2 + 4 * s3 + 8 * s4
  OBVIOUS
<1>8. ACELP_signs(p) = sign
  <2>1. p.sign[1] = 2 * s1 - 1 /\ p.sign[2] = 2 * s2 - 1 /\ p.sign[3] = 2 * s3 - 1 /\ p.sign[4] = 2 * s4 - 1
    BY <1>6
  <2> QED
    BY <2>1, <1>7 DEF ACELP_signs
<1>9. /\ sign \in 0 .. 15
      /\ Bit(sign, 0) = s1 /\ Bit(sign, 1) = s2 /\ Bit(sign, 2) = s3 /\ Bit(sign, 3) = s4
  BY <1>7, Powers DEF Bit
<1>10. Decod_ACELP(sign, index) = [place |-> p.place, sign |-> p.sign]
  <2> DEFINE d == [t \in 1 .. 4 |-> IF Bit(sign, t - 1) # 0 THEN 1 ELSE -1]
             places == <<(index % 8) * 5, ((index \div 8) % 8) * 5 + 1, ((index \div 64) % 8) * 5 + 2,
                         ((index \div 1024) % 8) * 5 + 3 + Bit(index, 9)>>
  <2>1. places = p.place
    BY <1>1, <1>4, <1>5
  <2>2. d = p.sign
    <3>1. \A t \in 1 .. 4 : d[t] = p.sign[t]
      BY <1>6, <1>9
    <3> QED
      BY <3>1, <1>6
  <2>3. Decod_ACELP(sign, index) = [place |-> places, sign |-> d]
    BY DEF Decod_ACELP
  <2> HIDE DEF places, d
  <2> QED
    BY <2>1, <2>2, <2>3
<1>11. p = [place |-> p.place, sign |-> p.sign]
  BY DEF Pulses
<1>12. index \in Values(13)
  <2>1. index \in 0 .. 8191
    BY <1>4
  <2> QED
    BY <2>1, Powers DEF Values
<1>13. sign \in Values(4)
  <2>1. sign \in 0 .. 15
    BY <1>9
  <2> QED
    BY <2>1, ValuesAre
<1> QED
  BY <1>3, <1>8, <1>10, <1>11, <1>12, <1>13

(* The codebook entries of the gains come back through both tables. *)
LEMMA GainsBack ==
  ASSUME NEW g \in GainEntries
  PROVE  Gain_index(g) \in Values(7) /\ Dec_gain_index(Gain_index(g)) = g
<1>1. PICK a \in 0 .. 7, b \in 0 .. 15 : g = <<a, b>>
  BY DEF GainEntries
<1>2. map1[a + 1] \in 0 .. 7 /\ imap1[map1[a + 1] + 1] = a
  BY DEF map1, imap1
<1>3. map2[b + 1] \in 0 .. 15 /\ imap2[map2[b + 1] + 1] = b
  BY DEF map2, imap2
<1>4. PICK x \in 0 .. 7, y \in 0 .. 15 : x = map1[a + 1] /\ y = map2[b + 1]
  BY <1>2, <1>3
<1>5. x * 16 + y \in 0 .. 127 /\ ((x * 16 + y) \div 16) = x /\ ((x * 16 + y) % 16) = y
  OBVIOUS
<1>6. Gain_index(g) = x * 16 + y
  BY <1>1, <1>4 DEF Gain_index
<1>7. Dec_gain_index(x * 16 + y) = <<a, b>>
  BY <1>2, <1>3, <1>4, <1>5, Zenon DEF Dec_gain_index
<1>8. x * 16 + y \in Values(7)
  BY <1>5, ValuesAre
<1> QED
  BY <1>1, <1>6, <1>7, <1>8

(* The codes of the LSPs come back from their two words. *)
LEMMA LspBack ==
  ASSUME NEW lsp \in LspCodes
  PROVE  /\ LspWords(lsp)[1] \in Values(8) /\ LspWords(lsp)[2] \in Values(10)
         /\ Dec_lsp(LspWords(lsp)[1], LspWords(lsp)[2]) = lsp
<1>1. PICK a \in 0 .. 1, b \in 0 .. 127, c \in 0 .. 31, d \in 0 .. 31 : lsp = <<a, b, c, d>>
  <2> DEFINE M == 0 .. 1
             F == 0 .. 127
             S == 0 .. 31
  <2>1. lsp \in M \X F \X S \X S
    BY DEF LspCodes
  <2> HIDE DEF M, F, S
  <2>2. \E a \in M, b \in F, c \in S, d \in S : lsp = <<a, b, c, d>>
    BY <2>1
  <2> QED
    BY <2>2 DEF M, F, S
<1>2. LspWords(lsp)[1] = a * 128 + b /\ LspWords(lsp)[2] = c * 32 + d
  BY <1>1 DEF LspWords
<1>3. PICK v, w : v = a * 128 + b /\ w = c * 32 + d
  OBVIOUS
<1>4. v \in 0 .. 255 /\ Bit(v, 7) = a /\ v % 128 = b
  BY <1>3, Powers DEF Bit
<1>5. w \in 0 .. 1023 /\ (w \div 32) % 32 = c /\ w % 32 = d
  BY <1>3
<1> QED
  <2>1. Dec_lsp(v, w) = <<a, b, c, d>>
    BY <1>4, <1>5, Zenon DEF Dec_lsp
  <2>2. LspWords(lsp)[1] = v /\ LspWords(lsp)[2] = w
    BY <1>2, <1>3, Zenon
  <2>3. Dec_lsp(LspWords(lsp)[1], LspWords(lsp)[2]) = lsp
    BY <1>1, <2>1, <2>2, Zenon
  <2> QED
    BY <1>4, <1>5, <2>2, <2>3, ValuesAre

(* A byte is the sum of its bits, and the bits of such a sum are its terms. *)
IsByteOf(v, b0, b1, b2, b3, b4, b5, b6, b7) ==
  /\ v = b0 + 2 * b1 + 4 * b2 + 8 * b3 + 16 * b4 + 32 * b5 + 64 * b6 + 128 * b7
  /\ Bit(v, 0) = b0 /\ Bit(v, 1) = b1 /\ Bit(v, 2) = b2 /\ Bit(v, 3) = b3
  /\ Bit(v, 4) = b4 /\ Bit(v, 5) = b5 /\ Bit(v, 6) = b6 /\ Bit(v, 7) = b7

(* A bit is 0 or 1. *)
LEMMA BitIsBit ==
  ASSUME NEW v \in Nat, NEW i \in 0 .. 7
  PROVE  Bit(v, i) \in 0 .. 1
<1>1. 2 ^ i \in Nat /\ 2 ^ i > 0
  <2>1. i \in 0 .. 13
    OBVIOUS
  <2> QED
    BY <2>1, PowersPositive
<1>2. \A p \in Nat : p > 0 => (v \div p) \in Nat
  OBVIOUS
<1>3. \A n \in Nat : (n % 2) \in 0 .. 1
  OBVIOUS
<1> QED
  BY <1>1, <1>2, <1>3, Zenon DEF Bit

LEMMA ByteBits ==
  ASSUME NEW v \in 0 .. 255
  PROVE  \E b0 \in 0 .. 1, b1 \in 0 .. 1, b2 \in 0 .. 1, b3 \in 0 .. 1, b4 \in 0 .. 1, b5 \in 0 .. 1, b6 \in 0 .. 1, b7 \in 0 .. 1 :
           IsByteOf(v, b0, b1, b2, b3, b4, b5, b6, b7)
<1>1. PICK b0 \in 0 .. 1, b1 \in 0 .. 1, b2 \in 0 .. 1, b3 \in 0 .. 1, b4 \in 0 .. 1, b5 \in 0 .. 1, b6 \in 0 .. 1, b7 \in 0 .. 1 :
        /\ Bit(v, 0) = b0 /\ Bit(v, 1) = b1 /\ Bit(v, 2) = b2 /\ Bit(v, 3) = b3
        /\ Bit(v, 4) = b4 /\ Bit(v, 5) = b5 /\ Bit(v, 6) = b6 /\ Bit(v, 7) = b7
  <2>1. \A i \in 0 .. 7 : Bit(v, i) \in 0 .. 1
    BY BitIsBit
  <2>2. 0 \in 0 .. 7 /\ 1 \in 0 .. 7 /\ 2 \in 0 .. 7 /\ 3 \in 0 .. 7
        /\ 4 \in 0 .. 7 /\ 5 \in 0 .. 7 /\ 6 \in 0 .. 7 /\ 7 \in 0 .. 7
    OBVIOUS
  <2> QED
    BY <2>1, <2>2, Zenon
<1>2. /\ v = 2 * (v \div 2) + b0 /\ v \div 2 = 2 * (v \div 4) + b1
      /\ v \div 4 = 2 * (v \div 8) + b2 /\ v \div 8 = 2 * (v \div 16) + b3
  BY <1>1, Powers DEF Bit
<1>3. /\ v \div 16 = 2 * (v \div 32) + b4 /\ v \div 32 = 2 * (v \div 64) + b5
      /\ v \div 64 = 2 * (v \div 128) + b6 /\ v \div 128 = b7
  BY <1>1, Powers DEF Bit
<1>4. v = b0 + 2 * b1 + 4 * b2 + 8 * b3 + 16 * b4 + 32 * b5 + 64 * b6 + 128 * b7
  BY <1>2, <1>3
<1>5. IsByteOf(v, b0, b1, b2, b3, b4, b5, b6, b7)
  BY <1>1, <1>4, Zenon DEF IsByteOf
<1> QED
  BY <1>5, Zenon

(* The bits of a sum of eight bits. *)
LEMMA BitsOfSum ==
  ASSUME NEW b0 \in 0 .. 1, NEW b1 \in 0 .. 1, NEW b2 \in 0 .. 1, NEW b3 \in 0 .. 1,
         NEW b4 \in 0 .. 1, NEW b5 \in 0 .. 1, NEW b6 \in 0 .. 1, NEW b7 \in 0 .. 1,
         NEW v, v = b0 + 2 * b1 + 4 * b2 + 8 * b3 + 16 * b4 + 32 * b5 + 64 * b6 + 128 * b7
  PROVE  v \in 0 .. 255 /\ IsByteOf(v, b0, b1, b2, b3, b4, b5, b6, b7)
<1>1. v \in 0 .. 255
  OBVIOUS
<1>2. v % 2 = b0 /\ v \div 2 = b1 + 2 * b2 + 4 * b3 + 8 * b4 + 16 * b5 + 32 * b6 + 64 * b7
  OBVIOUS
<1>3. v \div 4 = b2 + 2 * b3 + 4 * b4 + 8 * b5 + 16 * b6 + 32 * b7
  OBVIOUS
<1>4. v \div 8 = b3 + 2 * b4 + 4 * b5 + 8 * b6 + 16 * b7 /\ v \div 16 = b4 + 2 * b5 + 4 * b6 + 8 * b7
  OBVIOUS
<1>5. v \div 32 = b5 + 2 * b6 + 4 * b7 /\ v \div 64 = b6 + 2 * b7 /\ v \div 128 = b7
  OBVIOUS
<1>6. /\ Bit(v, 0) = v % 2 /\ Bit(v, 1) = (v \div 2) % 2 /\ Bit(v, 2) = (v \div 4) % 2
      /\ Bit(v, 3) = (v \div 8) % 2 /\ Bit(v, 4) = (v \div 16) % 2 /\ Bit(v, 5) = (v \div 32) % 2
      /\ Bit(v, 6) = (v \div 64) % 2 /\ Bit(v, 7) = (v \div 128) % 2
  BY <1>1, Powers DEF Bit
<1>7. (v \div 2) % 2 = b1 /\ (v \div 4) % 2 = b2 /\ (v \div 8) % 2 = b3
  BY <1>2, <1>3, <1>4
<1>8. (v \div 16) % 2 = b4 /\ (v \div 32) % 2 = b5 /\ (v \div 64) % 2 = b6 /\ (v \div 128) % 2 = b7
  BY <1>4, <1>5
<1> QED
  BY <1>1, <1>2, <1>6, <1>7, <1>8 DEF IsByteOf

(* A byte with one bit turned over. *)
Flips(v, w, j) ==
  /\ Bit(w, j) = 1 - Bit(v, j)
  /\ \A i \in 0 .. 7 : i # j => Bit(w, i) = Bit(v, i)

LEMMA TurnedOver ==
  ASSUME NEW v \in Values(8), NEW j \in 0 .. 7
  PROVE  \E w \in Values(8) : Flips(v, w, j) /\ (j <= 1 => w - v \in -2 .. 2)
<1>0. v \in 0 .. 255
  BY ValuesAre
<1>1. PICK b0 \in 0 .. 1, b1 \in 0 .. 1, b2 \in 0 .. 1, b3 \in 0 .. 1, b4 \in 0 .. 1, b5 \in 0 .. 1, b6 \in 0 .. 1, b7 \in 0 .. 1 : IsByteOf(v, b0, b1, b2, b3, b4, b5, b6, b7)
  BY <1>0, ByteBits
<1> DEFINE t(i, x) == IF i = j THEN 1 - x ELSE x
<1>2. PICK c0 \in 0 .. 1, c1 \in 0 .. 1, c2 \in 0 .. 1, c3 \in 0 .. 1, c4 \in 0 .. 1, c5 \in 0 .. 1, c6 \in 0 .. 1, c7 \in 0 .. 1 :
        /\  /\c0 = t(0, b0) /\ c1 = t(1, b1) /\ c2 = t(2, b2) /\ c3 = t(3, b3)
        /\ c4 = t(4, b4) /\ c5 = t(5, b5) /\ c6 = t(6, b6) /\ c7 = t(7, b7)
  <2>1. \A i \in 0 .. 7, x \in 0 .. 1 : t(i, x) \in 0 .. 1
    OBVIOUS
  <2>2. 0 \in 0 .. 7 /\ 1 \in 0 .. 7 /\ 2 \in 0 .. 7 /\ 3 \in 0 .. 7
        /\ 4 \in 0 .. 7 /\ 5 \in 0 .. 7 /\ 6 \in 0 .. 7 /\ 7 \in 0 .. 7
    OBVIOUS
  <2> HIDE DEF t
  <2> QED
    BY <2>1, <2>2, Zenon
<1>3. PICK w : w = c0 + 2 * c1 + 4 * c2 + 8 * c3 + 16 * c4 + 32 * c5 + 64 * c6 + 128 * c7
  OBVIOUS
<1>4. w \in 0 .. 255 /\ IsByteOf(w, c0, c1, c2, c3, c4, c5, c6, c7)
  BY <1>3, BitsOfSum
<1>5. \A i \in 0 .. 7 : Bit(w, i) = t(i, Bit(v, i))
  <2> HIDE DEF t
  <2>1. Bit(w, 0) = t(0, Bit(v, 0))
    BY <1>1, <1>2, <1>4, Zenon DEF IsByteOf
  <2>2. Bit(w, 1) = t(1, Bit(v, 1))
    BY <1>1, <1>2, <1>4, Zenon DEF IsByteOf
  <2>3. Bit(w, 2) = t(2, Bit(v, 2))
    BY <1>1, <1>2, <1>4, Zenon DEF IsByteOf
  <2>4. Bit(w, 3) = t(3, Bit(v, 3))
    BY <1>1, <1>2, <1>4, Zenon DEF IsByteOf
  <2>5. Bit(w, 4) = t(4, Bit(v, 4))
    BY <1>1, <1>2, <1>4, Zenon DEF IsByteOf
  <2>6. Bit(w, 5) = t(5, Bit(v, 5))
    BY <1>1, <1>2, <1>4, Zenon DEF IsByteOf
  <2>7. Bit(w, 6) = t(6, Bit(v, 6))
    BY <1>1, <1>2, <1>4, Zenon DEF IsByteOf
  <2>8. Bit(w, 7) = t(7, Bit(v, 7))
    BY <1>1, <1>2, <1>4, Zenon DEF IsByteOf
  <2>9. \A i \in 0 .. 7 : i \in {0, 1, 2, 3, 4, 5, 6, 7}
    OBVIOUS
  <2> QED
    BY <2>1, <2>2, <2>3, <2>4, <2>5, <2>6, <2>7, <2>8, <2>9, Zenon
<1>6. j <= 1 => w - v \in -2 .. 2
  BY <1>1, <1>2, <1>3 DEF IsByteOf
<1> QED
  BY <1>4, <1>5, <1>6, ValuesAre DEF Flips

(* The parity is right for the lag it was computed of, wrong when it is itself
   turned over, and after a bit of the lag is turned over it is wrong unless the
   bit is one of the two lowest. *)
LEMMA ParityCaught ==
  ASSUME NEW v \in Values(8)
  PROVE  /\ Parity_Pitch(v) \in Values(1)
         /\ Check_Parity_Pitch(v, Parity_Pitch(v)) = 0
         /\ Check_Parity_Pitch(v, 1 - Parity_Pitch(v)) = 1
         /\ \A w \in Values(8), j \in 0 .. 7 :
              Flips(v, w, j) => Check_Parity_Pitch(w, Parity_Pitch(v)) = IF j <= 1 THEN 0 ELSE 1
<1>0. v \in 0 .. 255
  BY ValuesAre
<1>1. PICK b0 \in 0 .. 1, b1 \in 0 .. 1, b2 \in 0 .. 1, b3 \in 0 .. 1, b4 \in 0 .. 1, b5 \in 0 .. 1, b6 \in 0 .. 1, b7 \in 0 .. 1 : IsByteOf(v, b0, b1, b2, b3, b4, b5, b6, b7)
  BY <1>0, ByteBits
<1>2. PICK c \in 0 .. 6 : c = b2 + b3 + b4 + b5 + b6 + b7
  OBVIOUS
<1>3. UpperOnes(v) = c
  BY <1>1, <1>2 DEF UpperOnes, IsByteOf
<1>4. Parity_Pitch(v) = (1 + c) % 2
  BY <1>3 DEF Parity_Pitch
<1>5. ASSUME NEW w \in Values(8), NEW j \in 0 .. 7, Flips(v, w, j)
      PROVE  Check_Parity_Pitch(w, Parity_Pitch(v)) = IF j <= 1 THEN 0 ELSE 1
  <2>1. \A i \in 2 .. 7 : Bit(w, i) = IF i = j THEN 1 - Bit(v, i) ELSE Bit(v, i)
    BY <1>5 DEF Flips
  <2>2. PICK e2 \in 0 .. 1, e3 \in 0 .. 1, e4 \in 0 .. 1, e5 \in 0 .. 1, e6 \in 0 .. 1, e7 \in 0 .. 1 :
          /\ e2 = Bit(w, 2) /\ e3 = Bit(w, 3) /\ e4 = Bit(w, 4)
          /\ e5 = Bit(w, 5) /\ e6 = Bit(w, 6) /\ e7 = Bit(w, 7)
    <3>1. \A i \in 0 .. 7 : Bit(w, i) \in 0 .. 1
      <4>1. w \in Nat
        BY ValuesAre
      <4> QED
        BY <4>1, BitIsBit
    <3>2. 2 \in 0 .. 7 /\ 3 \in 0 .. 7 /\ 4 \in 0 .. 7 /\ 5 \in 0 .. 7 /\ 6 \in 0 .. 7 /\ 7 \in 0 .. 7
      OBVIOUS
    <3> QED
      BY <3>1, <3>2, Zenon
  <2>3. /\ e2 = (IF j = 2 THEN 1 - b2 ELSE b2) /\ e3 = (IF j = 3 THEN 1 - b3 ELSE b3)
        /\ e4 = (IF j = 4 THEN 1 - b4 ELSE b4) /\ e5 = (IF j = 5 THEN 1 - b5 ELSE b5)
        /\ e6 = (IF j = 6 THEN 1 - b6 ELSE b6) /\ e7 = (IF j = 7 THEN 1 - b7 ELSE b7)
    BY <2>1, <2>2, <1>1 DEF IsByteOf
  <2>4. UpperOnes(w) = e2 + e3 + e4 + e5 + e6 + e7
    BY <2>2 DEF UpperOnes
  <2>5. CASE j <= 1
    <3>1. UpperOnes(w) = c
      BY <2>3, <2>4, <2>5, <1>2
    <3> QED
      BY <3>1, <2>5, <1>4 DEF Check_Parity_Pitch
  <2>6. CASE j > 1
    <3>1. PICK d \in {-1, 1} : UpperOnes(w) = c + d
      BY <2>3, <2>4, <2>6, <1>2
    <3> QED
      BY <3>1, <2>6, <1>4 DEF Check_Parity_Pitch
  <2> QED
    BY <2>5, <2>6
<1>6. Parity_Pitch(v) \in 0 .. 1 /\ Check_Parity_Pitch(v, Parity_Pitch(v)) = 0
      /\ Check_Parity_Pitch(v, 1 - Parity_Pitch(v)) = 1
  BY <1>3, <1>4 DEF Check_Parity_Pitch
<1> QED
  BY <1>5, <1>6, ValuesAre

(* What the coder may find in a frame. *)
IsFrame(f) ==
  /\ f.lsp \in LspCodes /\ f.pulses \in Pulses \X Pulses /\ f.gains \in GainEntries \X GainEntries
  /\ \E T0 \in 20 .. 143, fr \in -1 .. 1, s \in 0 .. 9, g \in -1 .. 1 :
       (T0 >= 85 => fr = 0) /\ f.lag = <<Lag(T0, fr), Lag(SecondMin(T0) + s, g)>>

(* The results of the searches are such a frame. *)
LEMMA FoundIsFrame ==
  ASSUME NEW c \in Contents, NEW l1 \in FirstFound, NEW l2 \in SecondFound(l1.T0)
  PROVE  IsFrame([lsp |-> c.lsp, pulses |-> c.pulses, gains |-> c.gains, lag |-> <<l1, l2>>])
<1>1. c \in [lsp : LspCodes, pulses : Pulses \X Pulses, gains : GainEntries \X GainEntries]
  BY SpeechFramesAssumption
<1>2. PICK T0 \in 20 .. 143, fr \in -1 .. 1 : l1 = Lag(T0, fr) /\ (T0 >= 85 => fr = 0)
  <2>1. PICK T0 \in FirstLags, fr \in -1 .. 1 : l1 = Lag(T0, fr)
    BY DEF FirstFound
  <2>2. T0 \in 20 .. 143
    BY SpeechFramesAssumption DEF PIT_MIN, PIT_MAX
  <2>3. T0 >= 85 => fr = 0
    <3> SUFFICES ASSUME T0 >= 85, fr # 0
                 PROVE  FALSE
      OBVIOUS
    <3>1. T0 \in 85 .. PIT_MAX /\ fr \in {-1, 1}
      BY <2>2 DEF PIT_MAX
    <3>2. l1 \in {Lag(T, f) : T \in 85 .. PIT_MAX, f \in {-1, 1}}
      BY <2>1, <3>1
    <3>3. l1 \notin {Lag(T, f) : T \in 85 .. PIT_MAX, f \in {-1, 1}}
      BY DEF FirstFound
    <3> QED
      BY <3>2, <3>3
  <2> QED
    BY <2>1, <2>2, <2>3
<1>3. PICK s \in 0 .. 9, g \in -1 .. 1 : l2 = Lag(SecondMin(T0) + s, g)
  <2>1. l1.T0 = T0
    BY <1>2 DEF Lag
  <2>2. PICK s \in SecondSteps, g \in -1 .. 1 : l2 = Lag(SecondMin(T0) + s, g)
    BY <2>1 DEF SecondFound
  <2>3. s \in 0 .. 9
    BY SpeechFramesAssumption
  <2> QED
    BY <2>2, <2>3
<1>4. PICK f : f = [lsp |-> c.lsp, pulses |-> c.pulses, gains |-> c.gains, lag |-> <<l1, l2>>]
  OBVIOUS
<1>5. f.lsp = c.lsp /\ f.pulses = c.pulses /\ f.gains = c.gains /\ f.lag = <<l1, l2>>
  BY <1>4
<1>6. IsFrame(f)
  BY <1>1, <1>2, <1>3, <1>5, Zenon DEF IsFrame
<1> QED
  BY <1>4, <1>6

(* What is coded, parameter by parameter. *)
IsCodedContent(p, f) ==
  /\ p[1] \in Values(8) /\ p[2] \in Values(10) /\ Dec_lsp(p[1], p[2]) = f.lsp
  /\ p[5] \in Values(13) /\ p[6] \in Values(4) /\ Decod_ACELP(p[6], p[5]) = f.pulses[1]
  /\ p[7] \in Values(7) /\ Dec_gain_index(p[7]) = f.gains[1]
  /\ p[9] \in Values(13) /\ p[10] \in Values(4) /\ Decod_ACELP(p[10], p[9]) = f.pulses[2]
  /\ p[11] \in Values(7) /\ Dec_gain_index(p[11]) = f.gains[2]
IsCodedLag(p, f) ==
  /\ p[3] \in Values(8) /\ Dec_lag3_first(p[3]) = f.lag[1]
  /\ p[4] \in Values(1) /\ p[4] = Parity_Pitch(p[3])
  /\ p[8] \in Values(5) /\ p[8] \in 1 .. 30 /\ Dec_lag3_second(p[8], f.lag[1].T0) = f.lag[2]
IsCoded(p, f) == IsCodedContent(p, f) /\ IsCodedLag(p, f)

(* Coder_ld8a() codes them as parameters that decode to what they were. *)
LEMMA CodedRight ==
  ASSUME NEW f, IsFrame(f)
  PROVE  IsCoded(Coded(f), f)
<1>1. PICK T0 \in 20 .. 143, fr \in -1 .. 1, s \in 0 .. 9, g \in -1 .. 1 :
        (T0 >= 85 => fr = 0) /\ f.lag = <<Lag(T0, fr), Lag(SecondMin(T0) + s, g)>>
  BY DEF IsFrame
<1>2. f.lag[1] = Lag(T0, fr) /\ f.lag[2] = Lag(SecondMin(T0) + s, g) /\ f.lag[1].T0 = T0
  BY <1>1 DEF Lag
<1>3. PICK first \in Values(8) : first = Enc_lag3(f.lag[1], 0, TRUE) /\ Dec_lag3_first(first) = f.lag[1]
  BY <1>1, <1>2, FirstLagBack, Zenon
<1>4. PICK second \in 1 .. 30 : /\ second \in Values(5) /\ second = Enc_lag3(f.lag[2], SecondMin(f.lag[1].T0), FALSE)
                                /\ Dec_lag3_second(second, f.lag[1].T0) = f.lag[2]
  <2>1. T0 \in 19 .. 143
    OBVIOUS
  <2> QED
    BY <1>2, <2>1, SecondLagBack, Zenon
<1>5. PICK a \in Values(8), b \in Values(10) : a = LspWords(f.lsp)[1] /\ b = LspWords(f.lsp)[2] /\ Dec_lsp(a, b) = f.lsp
  <2>1. f.lsp \in LspCodes
    BY Zenon DEF IsFrame
  <2>2. /\ LspWords(f.lsp)[1] \in Values(8) /\ LspWords(f.lsp)[2] \in Values(10)
        /\ Dec_lsp(LspWords(f.lsp)[1], LspWords(f.lsp)[2]) = f.lsp
    BY <2>1, LspBack
  <2> QED
    BY <2>2, Zenon
<1>6. ASSUME NEW s1 \in {1, 2}
      PROVE  \E i \in Values(13), n \in Values(4) :
               i = ACELP_index(f.pulses[s1]) /\ n = ACELP_signs(f.pulses[s1]) /\ Decod_ACELP(n, i) = f.pulses[s1]
  <2>1. PICK x \in Pulses : x = f.pulses[s1]
    BY <1>6 DEF IsFrame
  <2>2. /\ ACELP_index(x) \in Values(13) /\ ACELP_signs(x) \in Values(4)
        /\ Decod_ACELP(ACELP_signs(x), ACELP_index(x)) = x
    BY PulsesBack
  <2> QED
    BY <2>1, <2>2, Zenon
<1>7. ASSUME NEW s1 \in {1, 2}
      PROVE  \E n \in Values(7) : n = Gain_index(f.gains[s1]) /\ Dec_gain_index(n) = f.gains[s1]
  <2>1. PICK x \in GainEntries : x = f.gains[s1]
    BY <1>7 DEF IsFrame
  <2>2. Gain_index(x) \in Values(7) /\ Dec_gain_index(Gain_index(x)) = x
    BY GainsBack
  <2> QED
    BY <2>1, <2>2, Zenon
<1>8. 1 \in {1, 2} /\ 2 \in {1, 2}
  OBVIOUS
<1>9. PICK i1 \in Values(13), s1 \in Values(4) :
        i1 = ACELP_index(f.pulses[1]) /\ s1 = ACELP_signs(f.pulses[1]) /\ Decod_ACELP(s1, i1) = f.pulses[1]
  BY <1>6, <1>8, Zenon
<1>10. PICK i2 \in Values(13), s2 \in Values(4) :
        i2 = ACELP_index(f.pulses[2]) /\ s2 = ACELP_signs(f.pulses[2]) /\ Decod_ACELP(s2, i2) = f.pulses[2]
  BY <1>6, <1>8, Zenon
<1>11. PICK g1 \in Values(7) : g1 = Gain_index(f.gains[1]) /\ Dec_gain_index(g1) = f.gains[1]
  BY <1>7, <1>8, Zenon
<1>12. PICK g2 \in Values(7) : g2 = Gain_index(f.gains[2]) /\ Dec_gain_index(g2) = f.gains[2]
  BY <1>7, <1>8, Zenon
<1>13. PICK parity \in Values(1) : parity = Parity_Pitch(first)
  <2>2. Parity_Pitch(first) \in Values(1)
    BY ParityCaught
  <2> QED
    BY <2>2, Zenon
<1> DEFINE p == <<a, b, first, parity, i1, s1, g1, second, i2, s2, g2>>
<1>14. Coded(f) = p
  BY <1>3, <1>4, <1>5, <1>9, <1>10, <1>11, <1>12, <1>13, Zenon DEF Coded
<1>15. /\ p[1] = a /\ p[2] = b /\ p[3] = first /\ p[4] = parity /\ p[5] = i1 /\ p[6] = s1 /\ p[7] = g1
       /\ p[8] = second /\ p[9] = i2 /\ p[10] = s2 /\ p[11] = g2
  OBVIOUS
<1> HIDE DEF p
<1>16. IsCodedContent(p, f)
  BY <1>5, <1>9, <1>10, <1>11, <1>12, <1>15, Zenon DEF IsCodedContent
<1>17. IsCodedLag(p, f)
  BY <1>3, <1>4, <1>13, <1>15, Zenon DEF IsCodedLag
<1> QED
  BY <1>14, <1>16, <1>17, Zenon DEF IsCoded

(* Each parameter fits into its words. *)
LEMMA CodedFits ==
  ASSUME NEW p, NEW f, IsCoded(p, f), NEW i \in 1 .. 11
  PROVE  p[i] \in Values(bitsno[i])
<1>1. /\ bitsno[1] = 8 /\ bitsno[2] = 10 /\ bitsno[3] = 8 /\ bitsno[4] = 1 /\ bitsno[5] = 13 /\ bitsno[6] = 4
      /\ bitsno[7] = 7 /\ bitsno[8] = 5 /\ bitsno[9] = 13 /\ bitsno[10] = 4 /\ bitsno[11] = 7
  BY DEF bitsno
<1>2. /\ p[1] \in Values(8) /\ p[2] \in Values(10) /\ p[5] \in Values(13) /\ p[6] \in Values(4)
      /\ p[7] \in Values(7) /\ p[9] \in Values(13) /\ p[10] \in Values(4) /\ p[11] \in Values(7)
  BY Zenon DEF IsCoded, IsCodedContent
<1>3. p[3] \in Values(8) /\ p[4] \in Values(1) /\ p[8] \in Values(5)
  BY Zenon DEF IsCoded, IsCodedLag
<1> DEFINE Fits(k) == p[k] \in Values(bitsno[k])
<1>4. /\ Fits(1) /\ Fits(2) /\ Fits(3) /\ Fits(4) /\ Fits(5) /\ Fits(6)
      /\ Fits(7) /\ Fits(8) /\ Fits(9) /\ Fits(10) /\ Fits(11)
  <2>1. Fits(1)
    BY <1>1, <1>2, <1>3, Zenon
  <2>2. Fits(2)
    BY <1>1, <1>2, <1>3, Zenon
  <2>3. Fits(3)
    BY <1>1, <1>2, <1>3, Zenon
  <2>4. Fits(4)
    BY <1>1, <1>2, <1>3, Zenon
  <2>5. Fits(5)
    BY <1>1, <1>2, <1>3, Zenon
  <2>6. Fits(6)
    BY <1>1, <1>2, <1>3, Zenon
  <2>7. Fits(7)
    BY <1>1, <1>2, <1>3, Zenon
  <2>8. Fits(8)
    BY <1>1, <1>2, <1>3, Zenon
  <2>9. Fits(9)
    BY <1>1, <1>2, <1>3, Zenon
  <2>10. Fits(10)
    BY <1>1, <1>2, <1>3, Zenon
  <2>11. Fits(11)
    BY <1>1, <1>2, <1>3, Zenon
  <2> QED
    BY <2>1, <2>2, <2>3, <2>4, <2>5, <2>6, <2>7, <2>8, <2>9, <2>10, <2>11
<1>5. i \in {1, 2, 3, 4, 5, 6, 7, 8, 9, 10, 11}
  OBVIOUS
<1> HIDE DEF Fits
<1>6. Fits(i)
  BY <1>4, <1>5, Zenon
<1> QED
  BY <1>6 DEF Fits

(* bits2prm() reads the parameters one by one. *)
LEMMA ReadEach ==
  ASSUME NEW bits, NEW i \in 1 .. 11
  PROVE  bits2prm(bits)[i] = bin2int(bits, StartOf[i], bitsno[i])
<1>1. i \in {1, 2, 3, 4, 5, 6, 7, 8, 9, 10, 11}
  OBVIOUS
<1> QED
  BY <1>1 DEF bits2prm

(* A parameter whose words arrive as they were written is read as it was coded. *)
LEMMA SameWords ==
  ASSUME NEW p, NEW f, IsCoded(p, f), NEW i \in 1 .. 11, NEW bits,
         \A k \in 1 .. bitsno[i] : bits[StartOf[i] + k] = prm2bits(p)[StartOf[i] + k]
  PROVE  bits2prm(bits)[i] = p[i]
  BY CodedFits, ParameterBack, ReadEach, Zenon

(* What becomes of a frame on the way: nothing, an erasure, or one bit.      *)
Turned(w, d) == [w EXCEPT ![d] = BIT_0 + BIT_1 - @]
Arrived(f, d, words) ==
  \/ d = NoDamage /\ words = prm2bits(Coded(f))
  \/ d = Erased /\ words = [b \in 1 .. SpeechBits |-> 0]
  \/ d \in LagBits /\ words = Turned(prm2bits(Coded(f)), d)

(* What the decoder takes for an erased frame. *)
IsErased(words) == \E b \in 1 .. SpeechBits : words[b] = 0

(* Every word written is one of the two bits. *)
LEMMA WordsAreBits ==
  ASSUME NEW p
  PROVE  /\ prm2bits(p) = [b \in 1 .. SpeechBits |-> prm2bits(p)[b]]
         /\ \A b \in 1 .. SpeechBits : prm2bits(p)[b] \in {BIT_0, BIT_1}
  BY Zenon DEF prm2bits, int2bin

(* Where the words of the first lag and of its parity lie. *)
LEMMA LagPlaces ==
  /\ LagBits = 19 .. 27 /\ SpeechBits = 80
  /\ bitsno[3] = 8 /\ StartOf[3] = 18 /\ bitsno[4] = 1 /\ StartOf[4] = 26
  /\ \A i \in {1, 2} : StartOf[i] + bitsno[i] <= 18
  /\ \A i \in 5 .. 11 : StartOf[i] >= 27
<1>1. /\ bitsno[1] = 8 /\ bitsno[2] = 10 /\ bitsno[3] = 8 /\ bitsno[4] = 1
      /\ StartOf[1] = 0 /\ StartOf[2] = 8 /\ StartOf[3] = 18 /\ StartOf[4] = 26
  BY DEF bitsno, StartOf
<1>2. /\ StartOf[5] = 27 /\ StartOf[6] = 40 /\ StartOf[7] = 44 /\ StartOf[8] = 51 /\ StartOf[9] = 56
      /\ StartOf[10] = 69 /\ StartOf[11] = 73
  BY DEF StartOf
<1>3. \A i \in 5 .. 11 : i \in {5, 6, 7, 8, 9, 10, 11}
  OBVIOUS
<1>4. SpeechBits = 80 /\ LagBits = StartOf[3] + 1 .. StartOf[3] + 9
  BY DEF SpeechBits, LagBits
<1>5. LagBits = 19 .. 27
  BY <1>1, <1>4
<1> QED
  BY <1>1, <1>2, <1>3, <1>4, <1>5

(* The decoder takes a frame for erased exactly when it was. *)
LEMMA WhenErased ==
  ASSUME NEW f, NEW d, NEW words, Arrived(f, d, words)
  PROVE  IsErased(words) <=> d = Erased
<1> DEFINE w == prm2bits(Coded(f))
<1>1. w = [b \in 1 .. SpeechBits |-> w[b]] /\ \A b \in 1 .. SpeechBits : w[b] \in {BIT_0, BIT_1}
  BY WordsAreBits
<1>2. d \in LagBits => d \in 1 .. SpeechBits /\ d # Erased
  BY LagPlaces DEF Erased
<1>3. BIT_0 = 127 /\ BIT_1 = 129 /\ Erased # NoDamage /\ 1 \in 1 .. SpeechBits
  BY DEF BIT_0, BIT_1, Erased, NoDamage, SpeechBits
<1> HIDE DEF w
<1>4. CASE d = NoDamage
  <2>1. words = w
    BY <1>2, <1>3, <1>4, LagPlaces DEF Arrived, w, NoDamage
  <2> QED
    BY <2>1, <1>1, <1>3, <1>4 DEF IsErased
<1>5. CASE d = Erased
  BY <1>2, <1>3, <1>5 DEF IsErased, Arrived
<1>6. CASE d \in LagBits
  <2>1. words = Turned(w, d)
    BY <1>2, <1>6, LagPlaces DEF Arrived, w, NoDamage
  <2>2. \A b \in 1 .. SpeechBits : words[b] = IF b = d THEN BIT_0 + BIT_1 - w[b] ELSE w[b]
    BY <2>1, <1>1, <1>2, <1>6 DEF Turned
  <2> QED
    BY <2>2, <1>1, <1>2, <1>3, <1>6 DEF IsErased
<1> QED
  BY <1>4, <1>5, <1>6 DEF Arrived

(* Without damage every parameter is read as it was coded. *)
LEMMA ReadUndamaged ==
  ASSUME NEW f, IsFrame(f), NEW words, Arrived(f, NoDamage, words), NEW i \in 1 .. 11
  PROVE  bits2prm(words)[i] = Coded(f)[i]
<1>1. words = prm2bits(Coded(f))
  BY LagPlaces DEF Arrived, NoDamage, Erased
<1> QED
  BY <1>1, CodedRight, SameWords, Zenon

(* With one bit turned over the other parameters are read as they were sent. *)
LEMMA ReadTurned ==
  ASSUME NEW f, IsFrame(f), NEW d \in LagBits, NEW words, words = Turned(prm2bits(Coded(f)), d)
  PROVE  /\ \A i \in 1 .. 11 : i # 3 /\ i # 4 => bits2prm(words)[i] = Coded(f)[i]
         /\ d = 27 => /\ bits2prm(words)[3] = Coded(f)[3]
                      /\ bits2prm(words)[4] = 1 - Coded(f)[4]
         /\ d # 27 => /\ bits2prm(words)[4] = Coded(f)[4]
                      /\ \E w \in Values(8) :
                           /\ bits2prm(words)[3] = w /\ Flips(Coded(f)[3], w, 26 - d)
                           /\ 26 - d <= 1 => w - Coded(f)[3] \in -2 .. 2
<1> DEFINE p == Coded(f)
           v == prm2bits(p)
<1>1. IsCoded(p, f) /\ p[3] \in Values(8) /\ p[4] \in Values(1)
  BY CodedRight, Zenon DEF IsCoded, IsCodedLag
<1>2. v = [b \in 1 .. SpeechBits |-> v[b]]
  BY WordsAreBits
<1>3. d \in 19 .. 27
  BY LagPlaces
<1> HIDE DEF p
<1>4. \A b \in 1 .. SpeechBits : words[b] = IF b = d THEN BIT_0 + BIT_1 - v[b] ELSE v[b]
  BY <1>2 DEF Turned, p
<1>5. ASSUME NEW i \in 1 .. 11, \A k \in 1 .. bitsno[i] : StartOf[i] + k # d
      PROVE  bits2prm(words)[i] = p[i]
  <2>1. \A k \in 1 .. bitsno[i] : StartOf[i] + k \in 1 .. SpeechBits
    BY WordOfParameter
  <2>2. \A k \in 1 .. bitsno[i] : words[StartOf[i] + k] = v[StartOf[i] + k]
    BY <2>1, <1>4, <1>5, Zenon
  <2> QED
    BY <2>2, <1>1, SameWords, Zenon
<1>6. \A i \in 1 .. 11 : i # 3 /\ i # 4 => bits2prm(words)[i] = p[i]
  <2> SUFFICES ASSUME NEW i \in 1 .. 11, i # 3, i # 4
               PROVE  bits2prm(words)[i] = p[i]
    OBVIOUS
  <2>1. bitsno[i] \in Nat /\ StartOf[i] \in Nat /\ (i \in {1, 2} \/ i \in 5 .. 11)
    BY Intervals
  <2>2. \A k \in 1 .. bitsno[i] : StartOf[i] + k # d
    BY <2>1, <1>3, LagPlaces
  <2> QED
    BY <2>2, <1>5
<1>7. CASE d = 27
  <2>1. bits2prm(words)[3] = p[3]
    <3>1. \A k \in 1 .. bitsno[3] : StartOf[3] + k # d
      BY <1>7, LagPlaces
    <3>2. 3 \in 1 .. 11
      OBVIOUS
    <3> QED
      BY <3>1, <3>2, <1>5, Zenon
  <2>2. bits2prm(words)[4] = 1 - p[4]
    <3>1. PICK x \in 0 .. 1 : x = p[4]
      BY <1>1, ValuesAre
    <3>2. PICK y \in 0 .. 1 : y = 1 - x
      OBVIOUS
    <3>3. Bit(x, 0) = x /\ Bit(y, 0) = y /\ 1 - 1 = 0
      BY Powers DEF Bit
    <3>4. v[27] = int2bin(x, 1, 1)
      <4>1. 4 \in 1 .. 11 /\ 1 \in 1 .. bitsno[4] /\ StartOf[4] + 1 = 27 /\ 27 - StartOf[4] = 1 /\ 27 \in 1 .. SpeechBits
        BY LagPlaces
      <4>2. ParamOf[27] = 4
        BY <4>1, WordOfParameter, Zenon
      <4>3. v[27] = int2bin(p[ParamOf[27]], bitsno[ParamOf[27]], 27 - StartOf[ParamOf[27]])
        BY <4>1, Zenon DEF prm2bits
      <4> QED
        BY <4>1, <4>2, <4>3, <3>1, LagPlaces
    <3>5. words[27] = int2bin(y, 1, 1)
      <4>1. words[27] = BIT_0 + BIT_1 - v[27]
        BY <1>4, <1>7, LagPlaces
      <4> QED
        BY <4>1, <3>2, <3>3, <3>4 DEF int2bin, BIT_0, BIT_1
    <3>6. \A k \in 1 .. 1 : words[26 + k] = int2bin(y, 1, k)
      BY <3>5
    <3>7. bin2int(words, 26, 1) = y
      <4>1. y \in Nat /\ y < 2 ^ 1 /\ 1 \in 1 .. 13 /\ 26 \in Nat
        BY Powers
      <4> QED
        BY <4>1, <3>6, BackAgain
    <3>8. bits2prm(words)[4] = bin2int(words, 26, 1)
      BY ReadEach, LagPlaces
    <3> QED
      BY <3>1, <3>2, <3>7, <3>8
  <2> QED
    BY <2>1, <2>2, <1>6, <1>7 DEF p
<1>8. CASE d # 27
  <2>1. bits2prm(words)[4] = p[4]
    <3>1. \A k \in 1 .. bitsno[4] : StartOf[4] + k # d
      BY <1>8, <1>3, LagPlaces
    <3>2. 4 \in 1 .. 11
      OBVIOUS
    <3> QED
      BY <3>1, <3>2, <1>5, Zenon
  <2>2. PICK j \in 0 .. 7 : j = 26 - d
    BY <1>3, <1>8
  <2>3. PICK w \in Values(8) : Flips(p[3], w, j) /\ (j <= 1 => w - p[3] \in -2 .. 2)
    BY <1>1, TurnedOver, Zenon
  <2>4. bits2prm(words)[3] = w
    <3>1. ASSUME NEW k \in 1 .. 8
          PROVE  words[18 + k] = int2bin(w, 8, k)
      <4>1. PICK b \in 1 .. SpeechBits : b = 18 + k
        BY LagPlaces
      <4>2. 3 \in 1 .. 11 /\ k \in 1 .. bitsno[3] /\ StartOf[3] + k = b /\ b - StartOf[3] = k
        BY <4>1, LagPlaces
      <4>3. ParamOf[b] = 3
        BY <4>2, WordOfParameter, Zenon
      <4>4. v[b] = int2bin(p[3], 8, k)
        <5>1. v[b] = int2bin(p[ParamOf[b]], bitsno[ParamOf[b]], b - StartOf[ParamOf[b]])
          BY Zenon DEF prm2bits
        <5> HIDE DEF v
        <5> QED
          BY <5>1, <4>2, <4>3, LagPlaces
      <4>5. words[b] = IF b = d THEN BIT_0 + BIT_1 - v[b] ELSE v[b]
        BY <1>4
      <4>6. PICK i \in 0 .. 7 : i = 8 - k
        OBVIOUS
      <4>7. b = d <=> i = j
        BY <4>1, <4>6, <2>2, <1>3
      <4>8. PICK x \in 0 .. 1, y \in 0 .. 1 : x = Bit(p[3], i) /\ y = Bit(w, i)
        <5>1. p[3] \in Nat /\ w \in Nat
          BY <1>1, ValuesAre
        <5> QED
          BY <5>1, BitIsBit
      <4>9. y = IF i = j THEN 1 - x ELSE x
        BY <4>8, <2>3 DEF Flips
      <4>10. int2bin(p[3], 8, k) = (IF x = 0 THEN BIT_0 ELSE BIT_1) /\ int2bin(w, 8, k) = (IF y = 0 THEN BIT_0 ELSE BIT_1)
        BY <4>6, <4>8 DEF int2bin
      <4> QED
        BY <4>1, <4>4, <4>5, <4>7, <4>9, <4>10 DEF BIT_0, BIT_1
    <3>2. bin2int(words, 18, 8) = w
      <4>1. w \in Nat /\ w < 2 ^ 8 /\ 8 \in 1 .. 13 /\ 18 \in Nat
        BY Powers, ValuesAre
      <4> QED
        BY <4>1, <3>1, BackAgain
    <3>3. bits2prm(words)[3] = bin2int(words, 18, 8)
      BY ReadEach, LagPlaces
    <3> QED
      BY <3>2, <3>3
  <2>5. \E x \in Values(8) : /\ bits2prm(words)[3] = x /\ Flips(p[3], x, 26 - d)
                             /\ 26 - d <= 1 => x - p[3] \in -2 .. 2
    BY <2>2, <2>3, <2>4, Zenon
  <2> QED
    BY <2>1, <2>5, <1>6, <1>8, Zenon DEF p
<1> QED
  BY <1>7, <1>8

(* A lag the decoder may come to, be it sent or not. *)
IsDecodedLag(lag, low) == \E T0 \in low .. 143, fr \in -1 .. 1 : lag = Lag(T0, fr)

(* Whatever byte arrives, the first lag is one the buffers are made for. *)
LEMMA FirstLagDecoded ==
  ASSUME NEW v \in Values(8)
  PROVE  IsDecodedLag(Dec_lag3_first(v), 19)
<1>1. v \in 0 .. 255
  BY ValuesAre
<1>2. CASE v < 197
  <2>1. PICK q \in 0 .. 66 : q = Third(v + 2) /\ q = (v + 2) \div 3
    BY <1>1, <1>2, Dividing
  <2>2. PICK T0 \in 19 .. 143, fr \in -1 .. 1 : T0 = q + 19 /\ fr = v - 3 * T0 + 58
    BY <1>1, <2>1
  <2>3. Dec_lag3_first(v) = Lag(T0, fr)
    BY <1>2, <2>1, <2>2, Zenon DEF Dec_lag3_first
  <2> QED
    BY <2>3, Zenon DEF IsDecodedLag
<1>3. CASE ~(v < 197)
  <2>1. PICK T0 \in 19 .. 143 : T0 = v - 112
    BY <1>1, <1>3
  <2>2. Dec_lag3_first(v) = Lag(T0, 0) /\ 0 \in -1 .. 1
    BY <1>3, <2>1 DEF Dec_lag3_first
  <2> QED
    BY <2>2, Zenon DEF IsDecodedLag
<1> QED
  BY <1>2, <1>3

(* Bytes two apart are lags at most two samples apart. *)
LEMMA FirstLagClose ==
  ASSUME NEW v \in Values(8), NEW w \in Values(8), w - v \in -2 .. 2
  PROVE  Dec_lag3_first(w).T0 - Dec_lag3_first(v).T0 \in -2 .. 2
<1>1. v \in 0 .. 255 /\ w \in 0 .. 255
  BY ValuesAre
<1>2. \A n \in 0 .. 255 : Dec_lag3_first(n).T0 = IF n < 197 THEN ((n + 2) \div 3) + 19 ELSE n - 112
  <2> TAKE n \in 0 .. 255
  <2>1. n + 2 \in 0 .. 257 /\ Third(n + 2) = (n + 2) \div 3
    BY Dividing
  <2> QED
    BY <2>1 DEF Dec_lag3_first, Lag
<1>3. PICK a : a = Dec_lag3_first(v).T0
  OBVIOUS
<1>4. PICK b : b = Dec_lag3_first(w).T0
  OBVIOUS
<1>5. a = (IF v < 197 THEN ((v + 2) \div 3) + 19 ELSE v - 112) /\ b = IF w < 197 THEN ((w + 2) \div 3) + 19 ELSE w - 112
  BY <1>1, <1>2, <1>3, <1>4
<1>6. b - a \in -2 .. 2
  BY <1>1, <1>5
<1> QED
  BY <1>3, <1>4, <1>6

(* The second lag is one too, whatever the first was taken for. *)
LEMMA SecondLagDecoded ==
  ASSUME NEW n \in 1 .. 30, NEW T0 \in 19 .. 143
  PROVE  IsDecodedLag(Dec_lag3_second(n, T0), 20)
<1>1. PICK m \in 20 .. 134 : m = SecondMin(T0)
  BY LowestSecond
<1>2. PICK i \in 0 .. 9 : i = ((n + 2) \div 3) - 1
  OBVIOUS
<1>3. PICK T \in 20 .. 143, fr \in -1 .. 1 : T = i + m /\ fr = n - 2 - 3 * i
  <2>1. PICK fr \in -1 .. 1 : fr = n - 2 - 3 * i
    BY <1>2
  <2>2. PICK T \in 20 .. 143 : T = i + m
    OBVIOUS
  <2> QED
    BY <2>1, <2>2, Zenon
<1>4. Dec_lag3_second(n, T0) = Lag(T, fr)
  <2>1. Third(n + 2) - 1 = i
    BY <1>2, Dividing
  <2> QED
    BY <1>1, <1>3, <2>1, Zenon DEF Dec_lag3_second
<1> QED
  BY <1>4, Zenon DEF IsDecodedLag

(* First lags two apart shift the range of the second by no more. *)
LEMMA SecondLagClose ==
  ASSUME NEW n \in 1 .. 30, NEW T0 \in 19 .. 143, NEW T1 \in 19 .. 143, T1 - T0 \in -2 .. 2
  PROVE  Dec_lag3_second(n, T1).T0 - Dec_lag3_second(n, T0).T0 \in -2 .. 2
<1>1. PICK m0 \in 20 .. 134, m1 \in 20 .. 134 : m0 = SecondMin(T0) /\ m1 = SecondMin(T1)
  BY LowestSecond
<1>2. m1 - m0 \in -2 .. 2
  BY <1>1 DEF SecondMin, PIT_MIN, PIT_MAX
<1>3. PICK i \in 0 .. 9 : i = Third(n + 2) - 1
  BY Dividing
<1>4. Dec_lag3_second(n, T0).T0 = i + m0 /\ Dec_lag3_second(n, T1).T0 = i + m1
  BY <1>1, <1>3 DEF Dec_lag3_second, Lag
<1> QED
  BY <1>2, <1>4

(* The samples read for such a lag are there. *)
LEMMA DecodedReadsInside ==
  ASSUME NEW lag, IsDecodedLag(lag, 19)
  PROVE  /\ FarthestRead(lag) <= PIT_MAX + L_INTERPOL
         /\ NearestRead(lag) > 0
         /\ PostMin(lag.T0) > 0 /\ PostMax(lag.T0) <= PIT_MAX
<1>1. PICK T0 \in 19 .. 143, fr \in -1 .. 1 : lag = Lag(T0, fr)
  BY DEF IsDecodedLag
<1>2. lag.T0 = T0 /\ lag.frac = fr
  BY <1>1 DEF Lag
<1> QED
  BY <1>2 DEF FarthestRead, NearestRead, FirstRead, PostMin, PostMax, PIT_MAX, L_INTERPOL, L_INTER10

(* What the decoder makes of the words of a frame.                          *)
IsReceived(r, f, d, T) ==
  /\ d = NoDamage => /\ ~r.bad_pitch
                     /\ r.lsp = f.lsp /\ r.lag = f.lag /\ r.pulses = f.pulses /\ r.gains = f.gains
  /\ d \in {Erased} \cup (LagBits \ {25, 26}) =>
       r.bad_pitch /\ r.bfi = (d = Erased) /\ r.lag[1] = Lag(T, 0)
  /\ d \in {25, 26} => \A s \in {1, 2} : r.lag[s].T0 - f.lag[s].T0 \in -2 .. 2
  /\ r.before = T
  /\ \A s \in {1, 2} : IsDecodedLag(r.lag[s], 19)

(* Decod_ld8a(), value by value.                                            *)
Decodes(words, T, prm, bfi, bad_pitch, lag1, old1, lag2, r) ==
  /\ prm = bits2prm(words)
  /\ bfi = IsErased(words)
  /\ bad_pitch = (bfi \/ Check_Parity_Pitch(prm[3], prm[4]) = 1)
  /\ lag1 = IF bad_pitch THEN Lag(T, 0) ELSE Dec_lag3_first(prm[3])
  /\ old1 = IF bad_pitch THEN Longer(T) ELSE lag1.T0
  /\ lag2 = IF bfi THEN Lag(old1, 0) ELSE Dec_lag3_second(prm[8], lag1.T0)
  /\ r = [bfi |-> bfi, bad_pitch |-> bad_pitch, before |-> T,
          lag |-> <<lag1, lag2>>,
          lsp |-> IF bfi THEN Silent ELSE Dec_lsp(prm[1], prm[2]),
          pulses |-> IF bfi THEN Silent
                     ELSE <<Decod_ACELP(prm[6], prm[5]), Decod_ACELP(prm[10], prm[9])>>,
          gains |-> IF bfi THEN Silent
                    ELSE <<Dec_gain_index(prm[7]), Dec_gain_index(prm[11])>>]

(* A concealed lag stays in range while it grows. *)
LEMMA LagsMove ==
  ASSUME NEW T \in 20 .. 143
  PROVE  Longer(T) \in 20 .. 143 /\ IsDecodedLag(Lag(T, 0), 19) /\ Lag(T, 0).T0 = T
<1>1. Longer(T) \in 20 .. 143 /\ Lag(T, 0).T0 = T
  BY DEF Longer, PIT_MAX, Lag
<1>2. T \in 19 .. 143 /\ 0 \in -1 .. 1
  OBVIOUS
<1> QED
  BY <1>1, <1>2, Zenon DEF IsDecodedLag

(* The lag of a pair of lag and fraction. *)
LEMMA LagFields ==
  ASSUME NEW lag, NEW low \in {19, 20}, IsDecodedLag(lag, low)
  PROVE  lag.T0 \in low .. 143 /\ IsDecodedLag(lag, 19)
<1>1. PICK T0 \in low .. 143, fr \in -1 .. 1 : lag = Lag(T0, fr)
  BY Zenon DEF IsDecodedLag
<1>2. lag.T0 = T0
  BY <1>1 DEF Lag
<1>3. T0 \in 19 .. 143
  OBVIOUS
<1> QED
  BY <1>1, <1>2, <1>3, Zenon DEF IsDecodedLag

(* Decod_ld8a(), for every frame, every damage and every lag it remembers. *)
LEMMA DecodedRight ==
  ASSUME NEW f, IsFrame(f), NEW d, NEW words, Arrived(f, d, words), NEW T \in 20 .. 143,
         NEW prm, NEW bfi, NEW bad_pitch, NEW lag1, NEW old1, NEW lag2, NEW r,
         Decodes(words, T, prm, bfi, bad_pitch, lag1, old1, lag2, r)
  PROVE  /\ IsReceived(r, f, d, T)
         /\ (IF bfi THEN Longer(old1) ELSE lag2.T0) \in 20 .. 143
<1> DEFINE p == Coded(f)
<1>1. IsCoded(p, f)
  BY CodedRight
<1>2. p[3] \in Values(8) /\ p[4] = Parity_Pitch(p[3]) /\ p[8] \in 1 .. 30
      /\ Dec_lag3_first(p[3]) = f.lag[1] /\ Dec_lag3_second(p[8], f.lag[1].T0) = f.lag[2]
  BY <1>1, Zenon DEF IsCoded, IsCodedLag
<1>3. bfi <=> d = Erased
  <2>1. bfi = IsErased(words)
    BY Zenon DEF Decodes
  <2>2. IsErased(words) <=> d = Erased
    BY WhenErased
  <2> QED
    BY <2>1, <2>2, Zenon
<1>4. d # NoDamage /\ d # Erased => d \in LagBits /\ words = Turned(prm2bits(p), d)
  BY Zenon DEF Arrived
<1>5. LagBits = 19 .. 27 /\ NoDamage = 0 /\ Erased = -1
  BY LagPlaces DEF NoDamage, Erased
<1>6. /\ r.bfi = bfi /\ r.bad_pitch = bad_pitch /\ r.before = T /\ r.lag = <<lag1, lag2>>
      /\ r.lag[1] = lag1 /\ r.lag[2] = lag2
  BY Zenon DEF Decodes
<1>7. /\ bad_pitch <=> (bfi \/ Check_Parity_Pitch(prm[3], prm[4]) = 1)
      /\ bad_pitch => lag1 = Lag(T, 0) /\ old1 = Longer(T)
      /\ ~bad_pitch => lag1 = Dec_lag3_first(prm[3]) /\ old1 = lag1.T0
      /\ bfi => lag2 = Lag(old1, 0)
      /\ ~bfi => lag2 = Dec_lag3_second(prm[8], lag1.T0)
      /\ prm = bits2prm(words)
  BY Zenon DEF Decodes
<1>8. f.lag = <<f.lag[1], f.lag[2]>> /\ f.pulses = <<f.pulses[1], f.pulses[2]>> /\ f.gains = <<f.gains[1], f.gains[2]>>
  BY DEF IsFrame
<1>9. IsDecodedLag(f.lag[1], 19) /\ f.lag[1].T0 \in 19 .. 143
  BY <1>2, FirstLagDecoded, LagFields
<1> HIDE DEF p
(* Nothing happened: everything is as it was sent. *)
<1>10. CASE d = NoDamage
  <2>1. ~bfi
    BY <1>3, <1>5, <1>10
  <2>2. \A i \in 1 .. 11 : prm[i] = p[i]
    BY <1>7, <1>10, ReadUndamaged, Zenon DEF p
  <2>3. /\ prm[1] = p[1] /\ prm[2] = p[2] /\ prm[3] = p[3] /\ prm[4] = p[4] /\ prm[5] = p[5] /\ prm[6] = p[6]
        /\ prm[7] = p[7] /\ prm[8] = p[8] /\ prm[9] = p[9] /\ prm[10] = p[10] /\ prm[11] = p[11]
    BY <2>2
  <2>4. ~bad_pitch
    <3>1. Check_Parity_Pitch(p[3], p[4]) = 0
      BY <1>2, ParityCaught
    <3>2. 0 # 1
      OBVIOUS
    <3> QED
      BY <3>1, <3>2, <2>1, <2>3, <1>7, Zenon
  <2>5. lag1 = f.lag[1] /\ lag2 = f.lag[2]
    BY <2>1, <2>3, <2>4, <1>2, <1>7, Zenon
  <2>6. r.lsp = f.lsp
    BY <2>1, <2>3, <1>1, Zenon DEF Decodes, IsCoded, IsCodedContent
  <2>7. r.pulses = <<f.pulses[1], f.pulses[2]>> /\ r.gains = <<f.gains[1], f.gains[2]>>
    BY <2>1, <2>3, <1>1, Zenon DEF Decodes, IsCoded, IsCodedContent
  <2>8. IsDecodedLag(lag2, 20)
    BY <2>5, <1>2, <1>9, SecondLagDecoded
  <2>9. lag2.T0 \in 20 .. 143 /\ IsDecodedLag(lag2, 19)
    BY <2>8, LagFields
  <2>10. \A s \in {1, 2} : IsDecodedLag(r.lag[s], 19)
    BY <1>6, <1>9, <2>5, <2>9
  <2>11. d \notin {Erased} \cup (LagBits \ {25, 26}) /\ d \notin {25, 26}
    BY <1>5, <1>10
  <2>12. IsReceived(r, f, d, T)
    BY <1>6, <1>8, <2>4, <2>5, <2>6, <2>7, <2>10, <2>11, Zenon DEF IsReceived
  <2> QED
    BY <2>1, <2>9, <2>12, Zenon
(* Erased: the last lag again, one longer each time. *)
<1>11. CASE d = Erased
  <2>1. bfi /\ bad_pitch
    BY <1>3, <1>7, <1>11, Zenon
  <2>2. lag1 = Lag(T, 0) /\ old1 = Longer(T) /\ lag2 = Lag(old1, 0)
    BY <2>1, <1>7, Zenon
  <2>3. old1 \in 20 .. 143 /\ Longer(old1) \in 20 .. 143 /\ IsDecodedLag(lag1, 19) /\ IsDecodedLag(lag2, 19)
    BY <2>2, LagsMove
  <2>4. \A s \in {1, 2} : IsDecodedLag(r.lag[s], 19)
    BY <1>6, <2>3
  <2>5. d # NoDamage /\ d \notin {25, 26}
    BY <1>5, <1>11
  <2>6. r.bfi = (d = Erased)
    BY <1>6, <1>11, <2>1, Zenon DEF Decodes, IsErased
  <2>7. IsReceived(r, f, d, T)
    BY <1>6, <2>1, <2>2, <2>4, <2>5, <2>6, Zenon DEF IsReceived
  <2> QED
    BY <2>1, <2>3, <2>7, Zenon
(* One bit is turned over: the second lag is read after whatever lag the     *)
(* decoder took for the first.                                              *)
<1>12. CASE d \in LagBits
  <2>1. d # NoDamage /\ d # Erased /\ d \in 19 .. 27
    BY <1>5, <1>12
  <2>2. ~bfi /\ words = Turned(prm2bits(p), d)
    BY <2>1, <1>3, <1>4, Zenon
  <2>3. /\ \A i \in 1 .. 11 : i # 3 /\ i # 4 => prm[i] = p[i]
        /\ d = 27 => prm[3] = p[3] /\ prm[4] = 1 - p[4]
        /\ d # 27 => /\ prm[4] = p[4]
                     /\ \E w \in Values(8) :
                          /\ prm[3] = w /\ Flips(p[3], w, 26 - d)
                          /\ 26 - d <= 1 => w - p[3] \in -2 .. 2
    BY <2>2, <1>7, <1>12, ReadTurned, Zenon DEF p
  <2>4. prm[8] = p[8]
    BY <2>3
  <2>5. CASE d \in {25, 26}
    <3>1. PICK w \in Values(8) : prm[3] = w /\ Flips(p[3], w, 26 - d) /\ w - p[3] \in -2 .. 2
      BY <2>3, <2>5
    <3>2. ~bad_pitch
      <4>1. 26 - d \in 0 .. 7 /\ 26 - d <= 1 /\ d # 27
        BY <2>5
      <4>2. Check_Parity_Pitch(w, p[4]) = 0
        BY <4>1, <3>1, <1>2, ParityCaught
      <4> QED
        BY <4>1, <4>2, <3>1, <2>2, <2>3, <1>7
    <3>3. lag1 = Dec_lag3_first(w) /\ lag2 = Dec_lag3_second(p[8], lag1.T0)
      BY <3>1, <3>2, <2>2, <2>4, <1>7, Zenon
    <3>4. IsDecodedLag(lag1, 19) /\ lag1.T0 \in 19 .. 143 /\ lag1.T0 - f.lag[1].T0 \in -2 .. 2
      BY <3>1, <3>3, <1>2, FirstLagDecoded, FirstLagClose, LagFields
    <3>5. lag2.T0 - f.lag[2].T0 \in -2 .. 2
      BY <3>3, <3>4, <1>2, <1>9, SecondLagClose
    <3>6. IsDecodedLag(lag2, 19) /\ lag2.T0 \in 20 .. 143
      BY <3>3, <3>4, <1>2, SecondLagDecoded, LagFields
    <3>7. \A s \in {1, 2} : r.lag[s].T0 - f.lag[s].T0 \in -2 .. 2 /\ IsDecodedLag(r.lag[s], 19)
      BY <3>4, <3>5, <3>6, <1>6
    <3>8. IsReceived(r, f, d, T)
      BY <3>7, <2>1, <2>5, <1>6, Zenon DEF IsReceived
    <3> QED
      BY <3>6, <3>8, <2>2, Zenon
  <2>6. CASE d \notin {25, 26}
    <3>1. bad_pitch
      <4>1. CASE d = 27
        <5>1. Check_Parity_Pitch(prm[3], prm[4]) = 1
          BY <4>1, <2>3, <1>2, ParityCaught
        <5> QED
          BY <5>1, <1>7, Zenon
      <4>2. CASE d # 27
        <5>1. 26 - d \in 0 .. 7 /\ ~(26 - d <= 1)
          BY <4>2, <2>1, <2>6
        <5>2. PICK w \in Values(8) : prm[3] = w /\ Flips(p[3], w, 26 - d)
          BY <4>2, <2>3, Zenon
        <5>3. Check_Parity_Pitch(w, p[4]) = 1
          BY <5>1, <5>2, <1>2, ParityCaught
        <5> QED
          BY <4>2, <5>2, <5>3, <2>3, <1>7, Zenon
      <4> QED
        BY <4>1, <4>2
    <3>2. lag1 = Lag(T, 0) /\ lag2 = Dec_lag3_second(p[8], lag1.T0)
      BY <3>1, <2>2, <2>4, <1>7, Zenon
    <3>3. IsDecodedLag(lag1, 19) /\ lag1.T0 \in 19 .. 143
      <4>1. IsDecodedLag(Lag(T, 0), 19) /\ Lag(T, 0).T0 = T
        BY LagsMove
      <4>2. T \in 19 .. 143
        OBVIOUS
      <4> QED
        BY <3>2, <4>1, <4>2, Zenon
    <3>4. IsDecodedLag(lag2, 19) /\ lag2.T0 \in 20 .. 143
      BY <3>2, <3>3, <1>2, SecondLagDecoded, LagFields
    <3>5. \A s \in {1, 2} : IsDecodedLag(r.lag[s], 19)
      BY <3>3, <3>4, <1>6
    <3>6. r.bfi = (d = Erased)
      BY <1>6, <2>1, <2>2, Zenon DEF Decodes, IsErased
    <3>7. IsReceived(r, f, d, T)
      BY <3>1, <3>2, <3>5, <3>6, <2>1, <2>6, <1>6, Zenon DEF IsReceived
    <3> QED
      BY <3>4, <3>7, <2>2, Zenon
  <2> QED
    BY <2>5, <2>6
<1> QED
  BY <1>4, <1>10, <1>11, <1>12, Zenon

(* What is under way is a frame the coder found, damaged at most as Damage does,
   and what was decoded of it is what it may be. *)
FrameInv ==
  /\ old_T0 \in PIT_MIN .. PIT_MAX
  /\ sent # <<>> => IsFrame(sent)
  /\ serial # <<>> => got = <<>> /\ IsFrame(sent) /\ Arrived(sent, damage, serial)
  /\ got # <<>> => IsFrame(sent) /\ \E T \in PIT_MIN .. PIT_MAX : IsReceived(got, sent, damage, T)

(* The invariant holds before the first frame. *)
LEMMA FrameInvStart == FrameInit => FrameInv
  BY DEF FrameInit, FrameInv, PIT_MIN, PIT_MAX

(* Coder_ld8a() writes a frame that has arrived undamaged. *)
LEMMA CoderStep ==
  ASSUME FrameInv, Coder_ld8a
  PROVE  FrameInv'
<1>1. PICK c \in Contents, l1 \in FirstFound : \E l2 \in SecondFound(l1.T0) :
        sent' = [lsp |-> c.lsp, pulses |-> c.pulses, gains |-> c.gains, lag |-> <<l1, l2>>]
  BY Zenon DEF Coder_ld8a
<1>2. PICK l2 \in SecondFound(l1.T0) :
        sent' = [lsp |-> c.lsp, pulses |-> c.pulses, gains |-> c.gains, lag |-> <<l1, l2>>]
  BY <1>1
<1>3. IsFrame(sent')
  BY <1>2, FoundIsFrame, Zenon
<1>4. serial' = prm2bits(Coded(sent')) /\ damage' = NoDamage /\ old_T0' = old_T0 /\ got' = got /\ got = <<>>
  BY Zenon DEF Coder_ld8a
<1>5. Arrived(sent', damage', serial')
  BY <1>4, Zenon DEF Arrived
<1>6. old_T0 \in PIT_MIN .. PIT_MAX
  BY Zenon DEF FrameInv
<1> QED
  BY <1>3, <1>4, <1>5, <1>6, Zenon DEF FrameInv

(* Damage erases it or turns one bit over. *)
LEMMA DamageStep ==
  ASSUME FrameInv, Damage
  PROVE  FrameInv'
<1>1. /\ IsFrame(sent) /\ Arrived(sent, damage, serial) /\ damage = NoDamage /\ got = <<>>
      /\ old_T0 \in PIT_MIN .. PIT_MAX /\ UNCHANGED <<sent, old_T0, got>>
  BY DEF FrameInv, Damage
<1>2. serial = prm2bits(Coded(sent))
  BY <1>1, LagPlaces DEF Arrived, NoDamage, Erased
<1>3. Arrived(sent, damage', serial')
  <2>1. CASE damage' = Erased /\ serial' = [b \in 1 .. SpeechBits |-> 0]
    BY <2>1, Zenon DEF Arrived
  <2>2. CASE \E b \in LagBits : damage' = b /\ serial' = [serial EXCEPT ![b] = BIT_0 + BIT_1 - @]
    BY <2>2, <1>2, Zenon DEF Arrived, Turned
  <2> QED
    BY <2>1, <2>2, Zenon DEF Damage
<1> QED
  BY <1>1, <1>3 DEF FrameInv

(* Decod_ld8a() makes of it what it may. *)
LEMMA DecoderStep ==
  ASSUME FrameInv, Decod_ld8a
  PROVE  FrameInv'
<1>1. /\ IsFrame(sent) /\ Arrived(sent, damage, serial) /\ old_T0 \in PIT_MIN .. PIT_MAX
      /\ serial' = <<>> /\ sent' = sent /\ damage' = damage
  BY DEF FrameInv, Decod_ld8a
<1>2. \E prm, bfi, bad_pitch, lag1, old1, lag2 :
        /\ Decodes(serial, old_T0, prm, bfi, bad_pitch, lag1, old1, lag2, got')
        /\ old_T0' = IF bfi THEN Longer(old1) ELSE lag2.T0
  <2> DEFINE prm == bits2prm(serial)
             bfi == \E b \in 1 .. SpeechBits : serial[b] = 0
             bad_pitch == bfi \/ Check_Parity_Pitch(prm[3], prm[4]) = 1
             lag1 == IF bad_pitch THEN Lag(old_T0, 0) ELSE Dec_lag3_first(prm[3])
             old1 == IF bad_pitch THEN Longer(old_T0) ELSE lag1.T0
             lag2 == IF bfi THEN Lag(old1, 0) ELSE Dec_lag3_second(prm[8], lag1.T0)
  <2>1. Decodes(serial, old_T0, prm, bfi, bad_pitch, lag1, old1, lag2, got')
    BY Zenon DEF Decod_ld8a, Decodes, IsErased
  <2>2. old_T0' = IF bfi THEN Longer(old1) ELSE lag2.T0
    BY Zenon DEF Decod_ld8a
  <2> HIDE DEF prm, bfi, bad_pitch, lag1, old1, lag2
  <2> QED
    BY <2>1, <2>2, Zenon
<1>3. PICK f, d, words, T, r : f = sent /\ d = damage /\ words = serial /\ T = old_T0 /\ r = got'
  OBVIOUS
<1>4. PICK prm, bfi, bad_pitch, lag1, old1, lag2 :
        /\ Decodes(words, T, prm, bfi, bad_pitch, lag1, old1, lag2, r)
        /\ old_T0' = IF bfi THEN Longer(old1) ELSE lag2.T0
  BY <1>2, <1>3, Zenon
<1>5. IsFrame(f) /\ Arrived(f, d, words) /\ T \in 20 .. 143 /\ PIT_MIN = 20 /\ PIT_MAX = 143
  BY <1>1, <1>3 DEF PIT_MIN, PIT_MAX
<1>6. IsReceived(r, f, d, T) /\ (IF bfi THEN Longer(old1) ELSE lag2.T0) \in 20 .. 143
  BY <1>4, <1>5, DecodedRight
<1>7. old_T0' \in PIT_MIN .. PIT_MAX
  BY <1>4, <1>5, <1>6, Zenon
<1>8. IsFrame(sent') /\ \E t \in PIT_MIN .. PIT_MAX : IsReceived(got', sent', damage', t)
  BY <1>1, <1>3, <1>5, <1>6, Zenon
<1> QED
  BY <1>1, <1>7, <1>8, Zenon DEF FrameInv

(* Playing forgets it. *)
LEMMA PlayedStep ==
  ASSUME FrameInv, Played
  PROVE  FrameInv'
<1>1. got # <<>> /\ got' = <<>> /\ sent' = <<>> /\ UNCHANGED <<serial, old_T0>>
  BY Zenon DEF Played
<1>2. serial = <<>> /\ old_T0 \in PIT_MIN .. PIT_MAX
  BY <1>1, Zenon DEF FrameInv
<1> QED
  BY <1>1, <1>2, Zenon DEF FrameInv

(* The invariant contains the property. *)
LEMMA FrameInvFramesRight ==
  ASSUME FrameInv
  PROVE  FramesRight
<1>1. GoodFrameRight /\ DamageConcealed /\ UnprotectedClose /\ ReadsInside
  <2>1. CASE got # <<>>
    <3>1. PICK T \in PIT_MIN .. PIT_MAX : IsReceived(got, sent, damage, T)
      BY <2>1, Zenon DEF FrameInv
    <3>2. StartOf[3] + 7 = 25 /\ StartOf[3] + 8 = 26
      BY LagPlaces
    <3>3. GoodFrameRight
      <4>1. damage = NoDamage => /\ ~got.bad_pitch /\ got.lsp = sent.lsp /\ got.lag = sent.lag
                                 /\ got.pulses = sent.pulses /\ got.gains = sent.gains
        BY <3>1, Zenon DEF IsReceived
      <4> QED
        BY <4>1 DEF GoodFrameRight
    <3>4. DamageConcealed
      <4>1. /\ damage \in {Erased} \cup (LagBits \ {25, 26}) =>
                 got.bad_pitch /\ got.bfi = (damage = Erased) /\ got.lag[1] = Lag(T, 0)
            /\ got.before = T
        BY <3>1, Zenon DEF IsReceived
      <4> QED
        BY <4>1, <3>2, Zenon DEF DamageConcealed
    <3>5. UnprotectedClose
      BY <3>1, <3>2, Zenon DEF UnprotectedClose, IsReceived
    <3>6. ReadsInside
      <4>1. \A s \in {1, 2} : IsDecodedLag(got.lag[s], 19)
        BY <3>1, Zenon DEF IsReceived
      <4> QED
        BY <4>1, DecodedReadsInside DEF ReadsInside
    <3> QED
      BY <3>3, <3>4, <3>5, <3>6
  <2>2. CASE got = <<>>
    BY <2>2, Zenon DEF GoodFrameRight, DamageConcealed, UnprotectedClose, ReadsInside, Decoded
  <2> QED
    BY <2>1, <2>2
<1>2. TamingInTable
  <2> SUFFICES ASSUME sent # <<>>, NEW s \in {1, 2}
               PROVE  FirstRead(sent.lag[s]) + L_INTER10 - 2 <= PIT_MAX + L_INTERPOL - 2
    BY Zenon DEF TamingInTable
  <2>1. IsFrame(sent)
    BY Zenon DEF FrameInv
  <2>2. PICK T0 \in 20 .. 143, fr \in -1 .. 1, i \in 0 .. 9, g \in -1 .. 1 :
          sent.lag = <<Lag(T0, fr), Lag(SecondMin(T0) + i, g)>>
    BY <2>1, Zenon DEF IsFrame
  <2>3. PICK m \in 20 .. 134 : m = SecondMin(T0)
    <3>1. T0 \in 19 .. 143
      OBVIOUS
    <3> QED
      BY <3>1, LowestSecond
  <2>4. PICK t \in 20 .. 143, h \in -1 .. 1 : sent.lag[s] = Lag(t, h)
    <3>1. m + i \in 20 .. 143
      OBVIOUS
    <3>2. sent.lag[1] = Lag(T0, fr) /\ sent.lag[2] = Lag(m + i, g)
      BY <2>2, <2>3
    <3> QED
      BY <3>1, <3>2, Zenon
  <2>5. sent.lag[s].T0 = t /\ sent.lag[s].frac = h
    BY <2>4 DEF Lag
  <2> QED
    BY <2>5 DEF FirstRead, L_INTER10, L_INTERPOL, PIT_MAX
<1> QED
  BY <1>1, <1>2 DEF FramesRight

(* Every step keeps the invariant. *)
LEMMA FrameStep ==
  ASSUME FrameInv, [FrameNext]_frameVars
  PROVE  FrameInv'
<1>1. CASE FrameNext
  BY <1>1, CoderStep, DamageStep, DecoderStep, PlayedStep, Zenon DEF FrameNext
<1>2. CASE UNCHANGED frameVars
  BY <1>2, Zenon DEF frameVars, FrameInv
<1> QED
  BY <1>1, <1>2

(* FramesRight, for every result of the searches: a frame that arrives whole is
   decoded to what was coded (the words of BITS.C, the lags, pulses, gains and
   LSPs), an erased frame or a wrong parity goes on with the last lag, a flip the
   parity misses moves the lags by two samples at most, and no lag, however it
   came about, reads outside the buffers of the excitation and of the postfilter. *)
THEOREM SpeechFramesRight == FrameSpec => []FramesRight
<1>1. FrameSpec => []FrameInv
  BY FrameInvStart, FrameStep, PTL DEF FrameSpec
<1>2. FrameInv => FramesRight
  BY FrameInvFramesRight
<1> QED
  BY <1>1, <1>2, PTL
=============================================================================
