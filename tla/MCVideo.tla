------------------------------- MODULE MCVideo -------------------------------
(* The parts of the speech codec, and those of the video decoder around its   *)
(* picture buffer, each by itself: a behaviour runs one of them and leaves the *)
(* others in one initial state.                                             *)
EXTENDS OperatorCalls, SpeechFilters, SpeechFrames, SpeechMemory,
        NalInput, PicOrder, RefLists, ParameterSets, CoefficientCoding, MotionVectors, BlockContexts, Deblocking

MCLongs == {-128, -127, -65, -64, -16, -9, -1, 0, 1, 15, 17, 63, 64, 126, 127}
MCFac == {-8, -7, -1, 0, 3, 7}
MCFilters == {<<1, -8, 3>>, <<1, -2, 1>>, <<1, 3, -1>>, <<1, 0, 2>>, <<-8, 1, 0>>}
MCEx == {<<a, b, 0, c>> : a \in {-8, 0, 7}, b \in {-3, 5}, c \in {1, -8}}
MCEntries == -1 .. 3
MCSamples == {-8, -7, -5, -3, -1, 0, 2, 4, 6, 7}
MCFirstLags == {20, 143}
MCSecondSteps == {0, 9}
MCContents ==
  {[lsp |-> <<1, 127, 31, 0>>, gains |-> <<<<7, 3>>, <<0, 15>>>>,
    pulses |-> <<[place |-> <<0, 6, 12, 18>>, sign |-> <<1, -1, 1, -1>>],
                 [place |-> <<35, 36, 37, 39>>, sign |-> <<-1, 1, 1, 1>>]>>],
   [lsp |-> <<0, 5, 2, 30>>, gains |-> <<<<2, 9>>, <<5, 0>>>>,
    pulses |-> <<[place |-> <<15, 31, 2, 38>>, sign |-> <<-1, -1, -1, -1>>],
                 [place |-> <<10, 21, 27, 4>>, sign |-> <<1, 1, 1, 1>>]>>]}

VARIABLE part
speechVars == <<opVars, synVars, lspVars, corrVars, frameVars, memoryVars>>

SpeechParts == {"operators", "filter", "vectors", "correlation", "frames", "memory"}
SpeechInit ==
  /\ OpInit /\ SynInit /\ FrameInit /\ MemoryInit
  /\ lspBuf \in (IF part = "vectors" THEN [1 .. LspOrder -> LspEntries]
                 ELSE {[k \in 1 .. LspOrder |-> 0]})
  /\ windowed \in (IF part = "correlation" THEN [1 .. WindowLen -> WindowedSamples]
                   ELSE {[k \in 1 .. WindowLen |-> 0]})
  /\ LspInit /\ CorrInit

(* The two flags of the operators belong to whichever part runs.            *)
SpeechNext ==
  /\ UNCHANGED part
  /\ \/ /\ part = "operators" /\ OpNext
        /\ UNCHANGED <<mem_syn, subframe, lspBuf, lspStage, lspBefore, windowed, corrStage,
                       normShift, corrs, frameVars, memoryVars>>
     \/ /\ part = "filter" /\ SynNext
        /\ UNCHANGED <<opCall, lspBuf, lspStage, lspBefore, windowed, corrStage, normShift, corrs,
                       frameVars, memoryVars>>
     \/ /\ part = "vectors" /\ LspNext
        /\ UNCHANGED <<opCall, mem_syn, subframe, windowed, corrStage, normShift, corrs,
                       frameVars, memoryVars>>
     \/ /\ part = "correlation" /\ CorrNext
        /\ UNCHANGED <<opCall, mem_syn, subframe, lspBuf, lspStage, lspBefore, frameVars, memoryVars>>
     \/ /\ part = "frames" /\ FrameNext
        /\ UNCHANGED <<opVars, mem_syn, subframe, lspBuf, lspStage, lspBefore, windowed, corrStage,
                       normShift, corrs, memoryVars>>
     \/ /\ part = "memory" /\ MemoryNext
        /\ UNCHANGED <<opVars, mem_syn, subframe, lspBuf, lspStage, lspBefore, windowed, corrStage,
                       normShift, corrs, frameVars>>

streamVars == <<sliceVars, nalVars, pocVars, listVars, setVars, syntaxVars, blockVars, motionVars>>
pictureVars == <<contextVars, intraVars, sampleVars, filterVars>>
videoVars == <<streamVars, pictureVars>>
StreamParts == {"slices", "units", "counts", "lists", "sets", "elements", "coefficients", "motion"}
PictureParts == {"contexts", "intra", "samples", "edges"}

-----------------------------------------------------------------------------
(* Every map type, the evolving ones in both directions.                    *)
MCParameterSets ==
  {[groups |-> 1, type |-> 0],
   [groups |-> 2, type |-> 0, run_length |-> <<2, 1>>],
   [groups |-> 3, type |-> 1],
   [groups |-> 3, type |-> 2, top_left |-> <<0, 1>>, bottom_right |-> <<4, 5>>],
   [groups |-> 2, type |-> 6, slice_group_id |-> <<1, 0, 1, 0, 0, 1, 1, 1, 0>>]}
  \cup {[groups |-> 2, type |-> t, change_rate |-> 2, flag |-> f] : t \in 3 .. 5, f \in {0, 1}}
MCCycles == {0, 3}

(* Streams of bytes: every short payload of the bytes that matter to start   *)
(* codes, and every short sequence of kinds of units.                       *)
MCUnit(header, payload, zeros, after, starts) ==
  [payload |-> <<header>> \o payload, zeros |-> zeros, after |-> after, starts |-> starts]
MCFile(format, units) == [format |-> format, units |-> units]
MCPayloads(lengths) == UNION {[1 .. n -> {0, 1, 3}] : n \in lengths}
MCOneUnit ==
  {MCFile("ANNEXB", <<MCUnit(101, p \o <<e>>, 3, a, TRUE)>>) :
     p \in MCPayloads(0 .. 4), e \in {1, 128}, a \in {0, 2}}
  \cup {MCFile("ANNEXB", <<MCUnit(101, p \o <<1>>, 3, 0, TRUE)>>) : p \in MCPayloads(5 .. 6)}
(* Headers of each kind; of the slices, whether they start a picture.        *)
MCKinds ==
  {<<103, FALSE>>, <<104, FALSE>>, <<6, FALSE>>, <<9, FALSE>>, <<12, FALSE>>,
   <<101, TRUE>>, <<65, TRUE>>, <<65, FALSE>>}
(* A further slice of a picture follows a slice, or filler after it.         *)
MCPossible(kinds) ==
  \A k \in 1 .. 4 : kinds[k] = <<65, FALSE>> =>
    \E j \in 1 .. k - 1 : kinds[j][1] \in {101, 65} /\ \A i \in j + 1 .. k - 1 : kinds[i][1] = 12
MCPrefixes == {<<2, 2, 2, 2>>, <<3, 2, 3, 2>>}
MCFourUnits ==
  {MCFile("ANNEXB",
          [k \in 1 .. 4 |-> MCUnit(ks[k][1], <<0, 0, 1>>, zs[k], IF k < 4 /\ zs[k + 1] = 3 THEN 1 ELSE 0, ks[k][2])]) :
     ks \in {k \in [1 .. 4 -> MCKinds] : MCPossible(k)}, zs \in MCPrefixes}
MCTwoUnits(format, payload, zeros) ==
  MCFile(format, <<MCUnit(103, payload, zeros, 0, FALSE), MCUnit(101, <<0, 0, 0, 5>>, 2, 0, TRUE)>>)
MCStreams ==
  MCOneUnit \cup MCFourUnits
  \cup {MCTwoUnits("RTP", p, 2) : p \in {<<1>>, <<0, 0, 3>>, <<0, 0, 0, 0, 0, 0, 1>>}}
  \cup {MCTwoUnits("ANNEXB", <<1>>, z) : z \in 2 .. 6}

(* Picture order counts of each type.                                       *)
MCPocSps(type, offsets, nonRef, bottom) ==
  [pic_order_cnt_type |-> type, offset_for_ref_frame |-> offsets, offset_for_non_ref_pic |-> nonRef,
   offset_for_top_to_bottom_field |-> bottom]
MCPocs ==
  {MCPocSps(t, <<>>, 0, 0) : t \in {0, 2}} \cup {MCPocSps(1, o, -1, 1) : o \in {<<>>, <<2>>, <<2, 5>>}}
MCSteps == {-3, 2, 4}
MCBottoms == {0, -1}

(* Slices of each type, with fewer and more references than active entries.  *)
MCReference(long, num, poc) == [long |-> long, num |-> num, poc |-> poc]
MCSlice(type, frame_num, active, ago, longs) ==
  [type |-> type, frame_num |-> frame_num, poc |-> 4, active |-> active,
   refs |-> {MCReference(FALSE, (frame_num - k) % MaxPicNum, (<<2, 8, 6>>)[k]) : k \in ago}
            \cup {MCReference(TRUE, i, 0) : i \in longs}]
MCSlices ==
  {MCSlice("P", f, a, ks, is) :
     f \in {0, 1, 3}, a \in 1 .. 4, ks \in SUBSET (1 .. 3), is \in {{}, {1}, {0, 1}}}
  \cup {MCSlice("B", 1, a, ks, is) : a \in 1 .. 3, ks \in SUBSET (1 .. 3), is \in {{}, {0}}}
  \cup {MCSlice("I", 0, 1, {}, {})}

(* Sets that differ in size, in level only, and in a profile not supported.  *)
MCSps ==
  {[id |-> i, profile |-> 66, mbs |-> m, level |-> 1] : i \in {0, 1}, m \in {1, 2}}
  \cup {[id |-> 0, profile |-> 66, mbs |-> 1, level |-> 2], [id |-> 1, profile |-> 244, mbs |-> 1, level |-> 1]}
MCPps == {[id |-> i, sps |-> s, groups |-> 1] : i \in {0, 1}, s \in {0, 1}}

(* Elements of every kind at every place in a byte; slices of macroblocks.   *)
MCElement(kind, n, v) == [kind |-> kind, n |-> n, v |-> v, active |-> n]
MCElements ==
  {MCElement("ue", 0, v) : v \in {0, 3, 254, 4095, 8192}} \cup {MCElement("se", 0, v) : v \in {-3, 2}}
  \cup {MCElement("u", 1, 1), MCElement("u", 3, 2), MCElement("u", 28, 5), MCElement("u", 32, 7),
        MCElement("ref_idx", 2, 1), MCElement("ref_idx", 3, 2), MCElement("ipred", 0, -1), MCElement("ipred", 0, 5)}
MCMbs ==
  {Skipped, <<MCElement("ue", 0, 0)>>,
   <<MCElement("ue", 0, 5), MCElement("ipred", 0, 2), MCElement("ref_idx", 2, 1)>>}
MCWritten(header, mbs, last) == [header |-> header, mbs |-> mbs, last |-> last]
MCSlicesWritten ==
  {MCWritten(h, <<>>, FALSE) : h \in UNION {[1 .. n -> MCElements] : n \in {1, 2}}}
  \cup {MCWritten(<<MCElement("u", n, 1)>>, m, l) :
          n \in {1, 3, 6, 8}, m \in UNION {[1 .. k -> MCMbs] : k \in 1 .. 3}, l \in BOOLEAN}

(* Blocks: every number of coefficients and of trailing ones in every table,  *)
(* every total of zeros, every run with so many zeros left; levels that grow.  *)
MCLevel(p, j) ==
  LET size == CASE p = 1 -> (IF j = 1 THEN 2 ELSE 1)
                [] p = 2 -> Min({2 ^ j, 90})
                [] p = 3 -> (<<20, 9, 300>>)[Min({j, 3})]
  IN  IF j % 2 = 1 THEN -size ELSE size
MCLevels(n, t, p) ==
  [k \in 1 .. n |-> IF n - k < t THEN (IF k % 2 = 0 THEN 1 ELSE -1) ELSE MCLevel(p, n - k - t + 1)]
MCRuns(n, z, low) ==
  [k \in 1 .. n |-> IF low THEN (IF k = 1 THEN z ELSE 0)
                     ELSE IF k = 1 THEN Max({0, z - (n - 1)}) ELSE IF n - k < z THEN 1 ELSE 0]
MCBlock(nnz, max, levels, runs) ==
  [nnz |-> nnz, max |-> max, levels |-> levels, runs |-> runs,
   offset |-> (Len(levels) + SumOf(runs)) % 8, junk |-> Len(levels) % 2]
MCBlocks ==
  {MCBlock(b[1], 16, MCLevels(b[2], b[3], b[4]), MCRuns(b[2], Min({1, 16 - b[2]}), FALSE)) :
     b \in {c \in {0, 3, 7, 9} \X (1 .. 16) \X (0 .. 3) \X (1 .. 3) : c[3] <= c[2]}}
  \cup {MCBlock(0, 16, MCLevels(b[1], 0, 1), MCRuns(b[1], b[2], low)) :
          b \in {c \in (1 .. 16) \X (0 .. 15) : c[2] <= 16 - c[1]}, low \in BOOLEAN}
  \cup {MCBlock(2, 15, <<5, 1>>, <<b[1] - b[2], b[2]>>) : b \in {c \in (0 .. 13) \X (0 .. 13) : c[2] <= c[1]}}
  \cup {MCBlock(-1, 4, MCLevels(b[1], b[2], p), MCRuns(b[1], b[3], FALSE)) :
          b \in {c \in (1 .. 4) \X (0 .. 3) \X (0 .. 3) : c[2] <= c[1] /\ c[3] <= 4 - c[1]}, p \in 1 .. 3}
  \cup {MCBlock(n, 16, <<>>, <<>>) : n \in {-1, 0, 3, 7, 9}}

(* Macroblocks of every kind in the middle of the second row, among others.    *)
MCMb(type, refs, shapes, mvs) == [type |-> type, refs |-> refs, shapes |-> shapes, mvs |-> mvs]
MCNoMotion(type) == MCMb(type, <<>>, <<>>, <<>>)
MCWhole(ref, mv) == MCMb("16x16", <<ref>>, <<>>, <<mv>>)
MCQuarters(refs, shapes) == MCMb("8x8", refs, shapes, <<5, -2, 9, 1, 7, -4, 3, 8, 2, -6, 4, 11, -1, 6, 10, 12>>)
MCCut ==
  {MCMb(t, <<r, s>>, <<>>, <<4, -3>>) : t \in {"16x8", "8x16"}, r \in {0, 1}, s \in {0, 1}}
  \cup {MCQuarters(r, [q \in 1 .. 4 |-> s]) : r \in {<<0, 0, 0, 0>>, <<0, 1, 1, 0>>}, s \in {"8x8", "8x4", "4x8", "4x4"}}
  \cup {MCQuarters(<<0, 1, 0, 0>>, <<"8x4", "4x8", "4x4", "8x8">>),
        MCQuarters(<<0, 0, 0, 0>>, <<"4x4", "8x8", "8x4", "4x8">>)}
MCSides == MCMb("8x16", <<0, 1>>, <<>>, <<5, -7>>)
MCRows == MCMb("16x8", <<1, 0>>, <<>>, <<6, 2>>)
MCMotion ==
  [n \in Mbs |-> CASE n = 0 -> {MCWhole(0, 3), MCSides}
                   [] n = 1 -> {MCWhole(0, 0), MCSides, MCRows, MCNoMotion("skip")}
                   [] n = 2 -> {MCWhole(1, -4), MCNoMotion("intra")}
                   [] n = 3 -> {MCWhole(0, 6), MCRows} \cup {MCNoMotion(t) : t \in {"intra", "pcm", "skip"}}
                   [] n = 4 -> MCCut \cup {MCNoMotion("skip"), MCWhole(0, 1), MCWhole(1, 1)}
                   [] n = 5 -> {MCNoMotion("skip"), MCSides}
                   [] n > 5 -> {}]
MCPSlice(first, active, profile) == [first |-> first, number |-> 6 - first, active |-> active, profile_idc |-> profile]
MCPSlices == {MCPSlice(0, 1, 66), MCPSlice(0, 2, 66), MCPSlice(1, 2, 66), MCPSlice(2, 2, 66), MCPSlice(3, 2, 77)}

(* Macroblocks of every kind, every pattern of quarters in the middle.         *)
MCCounts(p) == [b \in CBlocks |-> (<<0, 3, 1, 7, 2, 0, 4, 11, 15, 5, 9>>)[((4 * b + p) % 11) + 1]]
MCModes(p) == [b \in Luma |-> (<<2, 0, 5, 1, 8, 2, 3>>)[((3 * b + p) % 7) + 1]]
MCCodedMb(type, luma, chroma, dcs, p) ==
  [type |-> type, mode16 |-> p % 4, luma |-> luma, chroma |-> chroma, counts |-> MCCounts(p), dc |-> dcs,
   cdc |-> <<dcs, 2>>, modes |-> MCModes(p), qp |-> (25 + 13 * p) % 52]
MCAll == 0 .. 3
MCCoded ==
  [n \in Mbs |->
     CASE n = 0 -> {MCCodedMb("I_4x4", MCAll, 2, 1, 1), MCCodedMb("I_16x16", {}, 1, 2, 3), MCCodedMb("I_PCM", {}, 0, 0, 0)}
       [] n = 1 -> {MCCodedMb("I_4x4", {0, 3}, 2, 0, 2), MCCodedMb("inter", {1, 2}, 0, 0, 4),
                    MCCodedMb("I_16x16", MCAll, 2, 0, 5)}
       [] n = 2 -> {MCCodedMb("inter", {}, 0, 0, 0), MCCodedMb("I_4x4", {}, 0, 0, 6), MCCodedMb("I_PCM", {}, 0, 0, 0)}
       [] n = 3 -> {MCCodedMb("skip", {}, 0, 0, 0), MCCodedMb("I_16x16", MCAll, 1, 16, 2),
                    MCCodedMb("inter", {1, 2}, 2, 4, 3)}
       [] n = 4 -> {MCCodedMb("I_4x4", l, 2, 1, 6) : l \in SUBSET MCAll}
                   \cup {MCCodedMb("inter", l, 0, 1, 1) : l \in {{}, {0}, {3}}}
                   \cup {MCCodedMb("I_16x16", l, c, d, 3) : l \in {{}, MCAll}, c \in 0 .. 2, d \in {0, 5}}
                   \cup {MCCodedMb("skip", {}, 0, 0, 0), MCCodedMb("I_PCM", {}, 0, 0, 0)}
       [] n = 5 -> {MCCodedMb("I_4x4", {1, 2, 3}, 2, 1, 7)}
       [] n > 5 -> {}]
MCCodedSlice(first, type, constrained, q) ==
  [first |-> first, number |-> 6 - first, type |-> type, constrained |-> constrained, qp |-> q]
MCCodedSlices ==
  {MCCodedSlice(0, "P", TRUE, 51), MCCodedSlice(0, "I", FALSE, 0), MCCodedSlice(1, "P", FALSE, 28),
   MCCodedSlice(2, "P", TRUE, 10), MCCodedSlice(3, "I", TRUE, 30)}

(* Intra macroblocks: each mode everywhere, and mixtures; some samples extreme.   *)
MCAround(seed, wide) ==
  [q \in (-1 .. wide) \X (-1 .. 15) |->
     IF q[1] >= 0 /\ q[2] >= 0 THEN 77
     ELSE CASE seed = 0 -> (37 * (q[1] + 2) + 91 * (q[2] + 2) + q[1] * q[1]) % 256
            [] seed = 1 -> IF q[2] = -1 THEN (IF q[1] < 8 THEN 0 ELSE 255) ELSE (IF q[2] < 8 THEN 255 ELSE 0)
            [] seed = 2 -> 2 * q[1] + 3 * q[2] + 90]
MCHas(A, B, C, D) == [A |-> A, B |-> B, C |-> C, D |-> D]
MCIntraJob(kind, modes, has, constrained, seed) ==
  [kind |-> kind, modes |-> modes, has |-> has, intra |-> MCHas(TRUE, FALSE, FALSE, TRUE), constrained |-> constrained,
   around |-> MCAround(seed, IF kind = "4x4" THEN 19 ELSE 15), residual |-> [k \in 0 .. 15 |-> (7 * k * seed) % 23]]
MCNoIntra == [MCIntraJob("8x8", [k \in 0 .. 15 |-> 0], MCHas(FALSE, FALSE, FALSE, FALSE), FALSE, 2) EXCEPT !.around = <<>>]
MCHave == {MCHas(a, b, c, a /\ b) : a \in BOOLEAN, b \in BOOLEAN, c \in BOOLEAN}
MCIntraJobs ==
  {MCIntraJob("4x4", [k \in 0 .. 15 |-> m], MCHas(TRUE, TRUE, c, TRUE), FALSE, s) :
     m \in 0 .. 8, c \in BOOLEAN, s \in {0, 1}}
  \cup {MCIntraJob("4x4", [k \in 0 .. 15 |-> (m * k + k \div 4) % 9], h, c, 2) :
          m \in {1, 4}, h \in MCHave, c \in BOOLEAN}
  \cup {MCIntraJob(kind, [k \in 0 .. 15 |-> m], h, c, s) :
          kind \in {"16x16", "8x8"}, m \in 0 .. 3, h \in MCHave, c \in BOOLEAN, s \in 0 .. 2}

(* Two pictures of two macroblocks, one rugged and one smooth; every fraction of a   *)
(* sample, every way to cut a macroblock, vectors into the margin on each side.       *)
MCPicture(seed) ==
  [luma |-> [q \in (0 .. 31) \X (0 .. 15) |-> IF seed = 0 THEN (37 * q[1] + 91 * q[2] + q[1] * q[2] * q[1]) % 256
                                               ELSE (5 * q[1] + 3 * q[2]) % 256],
   chroma |-> [q \in (0 .. 15) \X (0 .. 7) |-> (61 * q[1] + 17 * q[2] * q[2] + seed) % 256]]
MCReferencePictures == <<MCPicture(0), MCPicture(1)>>
MCInter(type, cut, subs, motion, at) ==
  [kind |-> "inter", type |-> type, cut |-> cut, subs |-> subs, motion |-> motion, mb_x |-> at, mb_y |-> 0]
MCTo(ref, x, y) == [ref |-> ref, x |-> x, y |-> y]
MCScattered(seed) ==
  [k \in 1 .. 16 |-> MCTo(((k - 1) \div 4 + seed) % 2, ((7 * k * (seed + 1)) % 27) - 13, ((5 * k + seed) % 21) - 10)]
MCInterJobs ==
  {MCInter("P", "16x16", <<>>, <<MCTo(r, x, y)>>, r) : r \in {0, 1}, x \in 0 .. 3, y \in 4 .. 7}
  \cup {MCInter("P", "16x16", <<>>, <<MCTo(0, x, y)>>, 0) : x \in {-13, 81}, y \in {-15, 14}}
  \cup {MCInter("P", c, <<>>, MCScattered(s), s) : c \in {"16x8", "8x16"}, s \in {0, 1}}
  \cup {MCInter("P", "8x8", u, MCScattered(s), s) :
          u \in {<<"8x8", "8x4", "4x8", "4x4">>, <<"4x4", "4x8", "8x4", "8x8">>}, s \in {0, 1}}
  \cup {MCInter("P_SKIP", "16x16", <<>>, <<MCTo(0, 3, -9)>>, 1)}
  \cup {MCInter("P_SKIP_MV_0", "16x16", <<>>, <<MCTo(0, 0, 0)>>, a) : a \in {0, 1}}
MCResidual(kind, n, quant, dc, ac, pred) ==
  [kind |-> kind, qp |-> quant, dc |-> dc, ac |-> [b \in 0 .. n - 1 |-> ac], pred |-> pred]
(* Few levels where the quantizer is coarse: the residual must fit sixteen bits.     *)
MCLevelsOf(n, size, seed) ==
  [k \in 1 .. n |-> IF (k * seed) % 3 = 0 \/ (size = 1 /\ k % 8 # 2) THEN 0
                    ELSE (((k * k * seed + 2 * k) % 7) - 3) * size]
MCNone(n) == [k \in 1 .. n |-> 0]
MCSize(quant) == IF quant < 12 THEN 30 ELSE IF quant < 30 THEN 3 ELSE 1
MCOnly(k, v) == [MCNone(16) EXCEPT ![k] = v]
MCAcs(quant) == [MCLevelsOf(16, MCSize(quant), 5) EXCEPT ![1] = 0]
MCResidualJobs ==
  {MCResidual("luma", 1, quant, <<>>, MCLevelsOf(16, MCSize(quant), s), 100) : quant \in {0, 7, 14, 21, 23, 24, 29, 40, 51}, s \in {1, 4}}
  \cup {MCResidual("luma", 1, 26, <<>>, MCOnly(k, v), 128) : k \in 1 .. 16, v \in {-3, 2}}
  \cup {MCResidual("whole", 16, quant, MCLevelsOf(16, MCSize(quant), s), IF rest THEN MCAcs(quant) ELSE MCNone(16), 90) :
          quant \in {0, 13, 20, 27, 35, 36, 51}, s \in {2, 4}, rest \in BOOLEAN}
  \cup {MCResidual("whole", 16, 30, MCNone(16), MCAcs(30), 90)}
  \cup {MCResidual("chroma", 4, quant, d, IF rest THEN MCAcs(quant) ELSE MCNone(16), 140) :
          quant \in {0, 8, 17, 25, 29, 30, 35, 36, 39}, d \in {<<3, -1, 2, 5>>, <<1, 0, 0, 0>>}, rest \in BOOLEAN}

(* Pictures: the last macroblock of a square of four among all kinds of others;   *)
(* edges: steep, flat and rugged lines with every strength and a few quantizers.   *)
MCMoves(seed) == [k \in 1 .. 16 |-> [ref |-> ((k - 1) \div 4 + seed) % 2, x |-> (3 * k * seed) % 8, y |-> ((k + seed) % 3) * 3]]
MCShown(type, cut, subs, seed, coded) ==
  [type |-> type, cut |-> cut, subs |-> subs, motion |-> MCMoves(seed), coded |-> coded]
MCStill(type, x) ==
  [type |-> type, cut |-> "16x16", subs |-> <<>>, motion |-> <<[ref |-> 0, x |-> x, y |-> 0]>>, coded |-> {}]
MCAllSubs(s) == [q \in 1 .. 4 |-> s]
MCPlain == MCShown("P", "16x16", <<>>, 1, {})
MCAmong ==
  {MCStill("P_SKIP_MV_0", 0), MCStill("P_SKIP", 3), MCStill("P_SKIP", 4), MCShown("I_4x4", "16x16", <<>>, 0, {3}),
   MCShown("P", "16x8", <<>>, 1, {}), MCShown("P", "8x16", <<>>, 2, {15}), MCShown("P", "8x8", MCAllSubs("4x8"), 2, {})}
MCFiltered ==
  {MCStill("P_SKIP_MV_0", 0), MCStill("P_SKIP", 3), MCShown("I_16x16", "16x16", <<>>, 0, {}),
   MCPlain, MCShown("P", "16x16", <<>>, 1, {0, 5, 11})}
  \cup {MCShown("P", c, <<>>, s, b) : c \in {"16x8", "8x16"}, s \in {1, 2}, b \in {{}, {0, 1}}}
  \cup {MCShown("P", "8x8", u, s, {}) :
          u \in {MCAllSubs(v) : v \in {"8x8", "8x4", "4x8", "4x4"}} \cup {<<"8x8", "4x4", "8x8", "8x4">>}, s \in {0, 1, 3}}
MCAt(m, quant, of, idc) ==
  [type |-> m.type, cut |-> m.cut, subs |-> m.subs, motion |-> m.motion, coded |-> m.coded,
   qp |-> quant, slice |-> of, idc |-> idc]
MCDecoded(left, up, here, first, idc) ==
  [kind |-> "picture", offset |-> 2,
   mbs |-> [n \in Mbs |-> MCAt(CASE n = 1 -> up [] n = 3 -> left [] n = 4 -> here [] OTHER -> MCPlain,
                               (17 * n + 20) % 52, IF n < first THEN 0 ELSE 1, IF n < first THEN 0 ELSE idc)]]
MCDecodedPictures ==
  {MCDecoded(l, u, h, 9, 0) : l \in MCAmong, u \in MCAmong, h \in MCFiltered}
  \cup {MCDecoded(l, MCPlain, h, f, i) : l \in MCAmong, h \in {MCPlain, MCStill("P_SKIP_MV_0", 0)}, f \in 2 .. 4, i \in 1 .. 2}
MCLine(p, q, u, v) == <<p + 2 * u, p + u, p + v, p, q, q + v, q - u, q + u>>
MCEdgeLines(shift) ==
  [k \in 1 .. 8 |-> MCLine((<<100, 250, 3, 60, 127, 90, 10, 200>>)[k], (<<104, 240, 9, 61, 140, 86, 30, 180>>)[k] - shift,
                          (k % 3) - 1, (k % 4) - 2)]
MCBright(d) == [k \in 1 .. 8 |-> <<255, 250, 255 - (k % 3), 254 - k, 255 - k + d, 241 + (k % 2), 245, 240>>]
MCSampled(lines, bS, quant, chroma, a, b) ==
  [kind |-> "edge", lines |-> lines, bS |-> bS, qp |-> quant, chroma |-> chroma, alpha |-> a, beta |-> b]
MCSampledEdges ==
  {MCSampled(IF c THEN MCEdgeLines(s) ELSE MCEdgeLines(s) \o MCEdgeLines(s + 1), b, q, c, o, -o) :
     b \in {<<4, 4, 4, 4>>, <<3, 3, 3, 3>>, <<2, 0, 1, 2>>, <<0, 1, 1, 0>>}, c \in BOOLEAN, q \in {0, 16, 24, 33, 41, 51},
     s \in {0, 3}, o \in {0, 4}}
  \cup {MCSampled([k \in 1 .. 8 |-> IF r THEN MCBright(1)[k] ELSE [i \in 1 .. 8 |-> 255 - MCBright(1)[k][9 - i]]],
                  b, 51, c, 0, 0) : b \in {<<4, 4, 4, 4>>, <<3, 1, 2, 3>>}, c \in BOOLEAN, r \in BOOLEAN}

-----------------------------------------------------------------------------
VideoInit ==
  /\ NalInit /\ (part # "units" => FileFormat = "RTP" /\ Len(file[1]) = 2)
  /\ IF part = "slices" THEN SliceInit ELSE SliceStart([groups |-> 1, type |-> 0]) /\ stream.cycle = 0
  /\ PicInit /\ (part # "counts" => Mode = 0)
  /\ IF part = "lists" THEN ListsInit ELSE ListsStart(MCSlice("I", 0, 1, {}, {}))
  /\ SetsInit
  /\ IF part = "elements" THEN SyntaxInit ELSE SyntaxStart(MCWritten(<<>>, <<>>, FALSE), 0)
  /\ IF part = "coefficients" THEN BlockInit ELSE BlockStart(MCBlock(0, 16, <<>>, <<>>))
  /\ IF part = "motion" THEN MotionInit ELSE MotionStart([MCPSlice(0, 1, 66) EXCEPT !.number = 0], 0)
  /\ IF part = "contexts" THEN ContextInit ELSE ContextStart([MCCodedSlice(0, "I", FALSE, 0) EXCEPT !.number = 0])
  /\ IF part = "intra" THEN IntraInit ELSE IntraStart(MCNoIntra)
  /\ IF part = "samples" THEN SampleInit ELSE SampleStart(MCResidual("chroma", 0, 0, <<>>, <<>>, 0))
  /\ IF part = "edges" THEN DeblockInit ELSE FilterStart(MCSampled(<<>>, <<0>>, 0, TRUE, 0, 0))

Runs(p, A) == part = p /\ A /\ UNCHANGED part
VideoNext ==
  \/ /\ UNCHANGED pictureVars
     /\ \/ Runs("slices", SliceNext)
             /\ UNCHANGED <<nalVars, pocVars, listVars, setVars, syntaxVars, blockVars, motionVars>>
        \/ Runs("units", NalNext)
             /\ UNCHANGED <<sliceVars, pocVars, listVars, setVars, syntaxVars, blockVars, motionVars>>
        \/ Runs("counts", PicNext)
             /\ UNCHANGED <<sliceVars, nalVars, listVars, setVars, syntaxVars, blockVars, motionVars>>
        \/ Runs("lists", ListsNext)
             /\ UNCHANGED <<sliceVars, nalVars, pocVars, setVars, syntaxVars, blockVars, motionVars>>
        \/ Runs("sets", SetsNext)
             /\ UNCHANGED <<sliceVars, nalVars, pocVars, listVars, syntaxVars, blockVars, motionVars>>
        \/ Runs("elements", SyntaxNext)
             /\ UNCHANGED <<sliceVars, nalVars, pocVars, listVars, setVars, blockVars, motionVars>>
        \/ Runs("coefficients", BlockNext)
             /\ UNCHANGED <<sliceVars, nalVars, pocVars, listVars, setVars, syntaxVars, motionVars>>
        \/ Runs("motion", ReadMotion)
             /\ UNCHANGED <<sliceVars, nalVars, pocVars, listVars, setVars, syntaxVars, blockVars>>
  \/ /\ UNCHANGED streamVars
     /\ \/ Runs("contexts", ReadCoded) /\ UNCHANGED <<intraVars, sampleVars, filterVars>>
        \/ Runs("intra", IntraNext) /\ UNCHANGED <<contextVars, sampleVars, filterVars>>
        \/ Runs("samples", SampleNext) /\ UNCHANGED <<contextVars, intraVars, filterVars>>
        \/ Runs("edges", DeblockNext) /\ UNCHANGED <<contextVars, intraVars, sampleVars>>

CodecInit == part \in SpeechParts \cup StreamParts \cup PictureParts /\ VideoInit /\ SpeechInit
CodecNext ==
  \/ SpeechNext /\ UNCHANGED videoVars
  \/ VideoNext /\ UNCHANGED speechVars
CodecSpec == CodecInit /\ [][CodecNext]_<<part, speechVars, videoVars>>

(* BASIC_OP.C, FILTER.C, LSPGETQ.C, LPC.C: the speech codec's numbers.  Every  *)
(* basic operator gives the exact result cut to its width, and the synthesis      *)
(* filter, the LSP vectors and the correlations made of those operators are what  *)
(* the standard's are where nothing is cut off.                                 *)
SpeechNumbersRight == OperatorsRight /\ FilterRight /\ VectorsRight /\ CorrelationsExact

(* fmo.c, vlc.c, macroblock.c, mc.c, predict.c, loopFilter.c: what a picture is *)
(* made of is the sender's: its slice groups, its syntax elements, coefficients,  *)
(* motion vectors and contexts, the samples made of them and the edges filtered.  *)
PicturesRight ==
  /\ MapsRight
  /\ SyntaxRight /\ CoefficientsRight /\ MotionRight /\ ContextsRight
  /\ IntraRight /\ ReconstructionRight /\ DeblockingRight
=============================================================================
