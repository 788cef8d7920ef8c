---------------------------- MODULE BlockContexts ----------------------------
(***************************************************************************)
(* What a macroblock takes from those around it when its residual is read   *)
(* (macroblock.c): the table for the number of coefficients of a block is    *)
(* chosen by the numbers of the blocks to the left and above, an intra mode  *)
(* is written as its difference from theirs, and the quantizer follows the   *)
(* macroblock before.  The decoder must ask with the contexts the sender     *)
(* wrote with, and add a residual to the blocks that have one.               *)
(***************************************************************************)
EXTENDS SliceDecoding, SequencesExt

CONSTANTS CodedSlices,         \* [first, number, type, constrained, qp]
          CodedMbs             \* for each macroblock what senders write there
(* A macroblock: [type, mode16, luma, chroma, counts, dc, cdc, modes, qp]: its    *)
(* coded quarters, how much of the chroma is coded, the coefficients of its      *)
(* 24 blocks, of the luma DC and of the two chroma DC blocks, its intra modes.  *)

VARIABLES cSlice, cMb,
          nz_coeff1, ipredmode, intra_block, qp, run_idct,
          added,               \* of each macroblock, the blocks it added a residual to
          cbp_blk,             \* of each macroblock, the blocks the loop filter will find coded
          meant,               \* history: of each macroblock what the sender meant
          contexts,            \* history: of the last macroblock, the sender's contexts and the decoder's
          unlike               \* history: a PCM macroblock stood beside a coded one
contextVars == <<cSlice, cMb, nz_coeff1, ipredmode, intra_block, qp, run_idct, added, cbp_blk,
                 meant, contexts, unlike>>

-----------------------------------------------------------------------------
DC_PRED == 2
Luma == 0 .. 15
CBlocks == 0 .. 23
IsIntra(type) == type \in {"I_4x4", "I_16x16", "I_PCM"}
ChromaDCContext == -1                     \* the context of the chroma DC blocks, which have none
AroundC == Neighbours(cMb, [mb \in Mbs |-> IF mb >= cSlice.first THEN 1 ELSE 0])

(* The sender finds a neighbour by its place in a plane of w by w blocks to a    *)
(* macroblock; of is what it knows of the blocks of each macroblock.          *)
At(of, w, x, y, missing) ==
  LET X == w * (cMb % FrameWidthInMbs) + x
      Y == w * (cMb \div FrameWidthInMbs) + y
      n == FrameWidthInMbs * (Y \div w) + (X \div w)
  IN  IF X < 0 \/ Y < 0 \/ n < cSlice.first THEN missing ELSE of[n][w * (Y % w) + (X % w)]
Context(a, b) ==
  CASE a >= 0 /\ b >= 0 -> (a + b + 1) \div 2
    [] a >= 0 /\ b < 0 -> a
    [] a < 0 /\ b >= 0 -> b
    [] a < 0 /\ b < 0 -> 0
(* The order of the luma blocks: quarters, and quarters of them.              *)
Zigzag(k) == 8 * (k \div 8) + 4 * ((k \div 2) % 2) + 2 * ((k \div 4) % 2) + (k % 2)

(* The coefficients of the blocks that are coded at all.                      *)
CodedCounts(mb) ==
  [b \in CBlocks |-> IF b \in Luma THEN (IF 2 * (b \div 8) + (b % 4) \div 2 \in mb.luma THEN mb.counts[b] ELSE 0)
                     ELSE IF mb.chroma = 2 THEN mb.counts[b] ELSE 0]
CountsOf(mb) == IF mb.type = "I_PCM" THEN [b \in CBlocks |-> 16] ELSE CodedCounts(mb)
HasDelta(mb) == mb.type = "I_16x16" \/ (mb.type \in {"I_4x4", "inter"} /\ (mb.luma # {} \/ mb.chroma > 0))
(* What it means by a macroblock: the numbers, the modes that others predict     *)
(* from, the quantizer, and the blocks with a residual.                       *)
Meaning(mb) ==
  [type |-> mb.type, counts |-> CountsOf(mb),
   modes |-> IF mb.type = "I_4x4" THEN mb.modes
             ELSE [b \in Luma |-> IF IsIntra(mb.type) \/ ~cSlice.constrained THEN DC_PRED ELSE -1],
   qp |-> IF HasDelta(mb) THEN mb.qp ELSE meant[cMb - 1].qp,
   coded |-> IF mb.type = "I_PCM" THEN {}
             ELSE {b \in CBlocks : \/ CodedCounts(mb)[b] > 0
                                   \/ b \in Luma /\ mb.type = "I_16x16" /\ mb.dc > 0
                                   \/ b \notin Luma /\ mb.chroma > 0 /\ mb.cdc[(b \div 4) - 3] > 0}]

(* What it writes: the number of the type, the change of the quantizer, the      *)
(* modes, -1 for the probable one, and the blocks with their contexts.         *)
TypeNumber(mb) ==
  1 + mb.mode16 + 4 * mb.chroma + (IF mb.luma = {} THEN 0 ELSE 12) + (IF cSlice.type = "P" THEN 5 ELSE 0)
Delta(mb) == ((mb.qp - meant[cMb - 1].qp + 26) % 52) - 26
Written(context, count) == [context |-> context, count |-> count]
BlocksWritten(now) ==
  LET counts == [n \in DOMAIN now |-> now[n].counts]
      chroma(c) == [n \in DOMAIN now |-> [b \in 0 .. 3 |-> now[n].counts[16 + 4 * c + b]]]
      luma == [n \in DOMAIN now |-> [b \in Luma |-> now[n].counts[b]]]
      Asks(of, w, b) == Context(At(of, w, (b % w) - 1, b \div w, -1), At(of, w, b % w, (b \div w) - 1, -1))
      Block(b) == Written(Asks(luma, 4, b), counts[cMb][b])
      Chroma(b) == Written(Asks(chroma((b \div 4) - 4), 2, b % 4), counts[cMb][b])
  IN  [luma |-> luma, Block |-> [b \in Luma |-> Block(b)], Chroma |-> [b \in 16 .. 23 |-> Chroma(b)]]
Sequence(mb, now) ==
  LET w == BlocksWritten(now)
      dc == IF mb.type = "I_16x16" THEN <<Written(w.Block[0].context, mb.dc)>> ELSE <<>>
      ac == [k \in 1 .. 16 |-> IF (k - 1) \div 4 \in mb.luma THEN <<w.Block[Zigzag(k - 1)]>> ELSE <<>>]
      cdc == IF mb.chroma > 0 THEN [c \in 1 .. 2 |-> Written(ChromaDCContext, mb.cdc[c])] ELSE <<>>
      cac == IF mb.chroma = 2 THEN [k \in 1 .. 8 |-> w.Chroma[k + 15]] ELSE <<>>
  IN  dc \o FlattenSeq(ac) \o cdc \o cac
ModesWritten(mb, now) ==
  LET modes == [n \in DOMAIN now |-> now[n].modes]
      Probable(b) ==
        LET a == At(modes, 4, (b % 4) - 1, b \div 4, -1)
            c == At(modes, 4, b % 4, (b \div 4) - 1, -1)
        IN  IF a < 0 \/ c < 0 THEN DC_PRED ELSE Min({a, c})
      Mode(b) == IF mb.modes[b] = Probable(b) THEN -1
                 ELSE mb.modes[b] - (IF mb.modes[b] > Probable(b) THEN 1 ELSE 0)
  IN  [k \in 1 .. 16 |-> Mode(Zigzag(k - 1))]

-----------------------------------------------------------------------------
(* The decoder.  fill_ipred_struct(): five rows of five modes, those around     *)
(* the macroblock in the first row and column.                               *)
ModeBeside(n, b) ==
  IF intra_block[n] = 1 THEN ipredmode[n][b] ELSE IF cSlice.constrained THEN -1 ELSE DC_PRED
fill_ipred_struct ==
  [i \in 0 .. 24 |->
     CASE i \in 1 .. 4 /\ AroundC.B -> ModeBeside(cMb - FrameWidthInMbs, 11 + i)
       [] i \in {5, 10, 15, 20} /\ AroundC.A -> ModeBeside(cMb - 1, 4 * (i \div 5) - 1)
       [] OTHER -> -1]
index_table == <<0, 1, 4, 5, 2, 3, 6, 7, 8, 9, 12, 13, 10, 11, 14, 15>>
index_table_t == <<0, 1, 5, 6, 2, 3, 7, 8, 10, 11, 15, 16, 12, 13, 17, 18>>
(* read_ipred_modes(): each mode is told from those above and to the left.      *)
read_ipred_modes(sent) ==
  LET Step[k \in 0 .. 16] ==
        IF k = 0 THEN [struct |-> fill_ipred_struct, modes |-> [b \in Luma |-> DC_PRED]]
        ELSE LET before == Step[k - 1]
                 at == 6 + index_table_t[k]
                 up == before.struct[at - 5]
                 left == before.struct[at - 1]
                 probable == IF up < 0 \/ left < 0 THEN DC_PRED ELSE IF up < left THEN up ELSE left
                 dec == IF sent[k] = -1 THEN probable ELSE sent[k] + (IF sent[k] >= probable THEN 1 ELSE 0)
             IN  [struct |-> [before.struct EXCEPT ![at] = dec],
                  modes |-> [before.modes EXCEPT ![index_table[k]] = dec]]
  IN  Step[16].modes

(* 64 stands for a neighbour that is not there; the sum is kept to six bits.     *)
(* Mutant: the mean is not rounded up.                                        *)
MeanDown(left, up) == (IF left + up < 64 THEN (left + up) \div 2 ELSE left + up) % 64
Mean(left, up) == (IF left + up < 64 THEN (left + up + 1) \div 2 ELSE left + up) % 64
DCContext ==
  LET a == nz_coeff1[cMb - 1][3]
      b == nz_coeff1[cMb - FrameWidthInMbs][12]
  IN  CASE AroundC.A /\ AroundC.B -> (a + b + 1) \div 2
        [] AroundC.A /\ ~AroundC.B -> a
        [] ~AroundC.A /\ AroundC.B -> b
        [] ~AroundC.A /\ ~AroundC.B -> 0

(* A cache of w + 1 rows of w + 1 numbers, from the base-th block on.            *)
nz_coeff_cache(w, base) ==
  [i \in 0 .. (w + 1) * (w + 1) - 1 |->
     CASE i \in 1 .. w -> (IF AroundC.B THEN nz_coeff1[cMb - FrameWidthInMbs][base + w * (w - 1) + i - 1] ELSE 64)
       [] i > 0 /\ i % (w + 1) = 0 ->
            (IF AroundC.A THEN nz_coeff1[cMb - 1][base + w * (i \div (w + 1)) - 1] ELSE 64)
       [] OTHER -> 0]
cache_scan(w, b) == (w + 1) * ((b \div w) + 1) + (b % w) + 1
block_scan == <<0, 1, 4, 5, 2, 3, 6, 7, 8, 9, 12, 13, 10, 11, 14, 15>>
(* The blocks of an order, one after the other, with the counts that come.      *)
ReadBlocks(w, base, order, counts) ==
  LET Step[k \in 0 .. Len(order)] ==
        IF k = 0 THEN [cache |-> nz_coeff_cache(w, base), asked |-> <<>>]
        ELSE LET before == Step[k - 1]
                 at == cache_scan(w, order[k])
             IN  [cache |-> [before.cache EXCEPT ![at] = counts[k]],
                  asked |-> Append(before.asked, Mean(before.cache[at - 1], before.cache[at - (w + 1)]))]
  IN  Step[Len(order)]

(* readCBPandCoeffsFromNAL(): the DC of a 16x16 macroblock, the luma blocks of   *)
(* the coded quarters, and the chroma DC and AC, from what was written.         *)
ReadCoeffs(newintra, luma, chroma, sent) ==
  LET order == SelectSeq(block_scan, LAMBDA b : 2 * (b \div 8) + (b % 4) \div 2 \in luma)
      d == IF newintra THEN 1 ELSE 0
      c == d + Len(order)
      Counts(from, n) == [k \in 1 .. n |-> sent[from + k].count]
      y == ReadBlocks(4, 0, order, Counts(d, Len(order)))
      uv == [p \in {0, 1} |-> ReadBlocks(2, 16 + 4 * p, <<0, 1, 2, 3>>, Counts(c + 2 + 4 * p, 4))]
      kept(of, w, base, some) ==
        IF some THEN [b \in base .. base + w * w - 1 |-> of.cache[cache_scan(w, b - base)]]
        ELSE [b \in base .. base + w * w - 1 |-> nz_coeff1[cMb][b]]
      nz == kept(y, 4, 0, luma # {}) @@
            (IF chroma = 2 THEN kept(uv[0], 2, 16, TRUE) @@ kept(uv[1], 2, 20, TRUE)
             ELSE [b \in 16 .. 23 |-> nz_coeff1[cMb][b]])
      here == {order[k] : k \in {j \in 1 .. Len(order) : sent[d + j].count > 0}}
  IN  [nz |-> nz, cbp_blk |-> here,
       asked |-> (IF newintra THEN <<DCContext>> ELSE <<>>) \o (IF luma # {} THEN y.asked ELSE <<>>)
                 \o (IF chroma > 0 THEN <<ChromaDCContext, ChromaDCContext>> ELSE <<>>)
                 \o (IF chroma = 2 THEN uv[0].asked \o uv[1].asked ELSE <<>>),
       dc |-> newintra /\ sent[1].count > 0,
       idct |-> here \cup (IF newintra /\ sent[1].count > 0 THEN Luma ELSE {})
                \cup {b \in 16 .. 23 : chroma > 0 /\ sent[c + (b \div 4) - 3].count > 0}
                \cup {b \in 16 .. 23 : chroma = 2 /\ sent[c + 2 + (b - 15)].count > 0}]

ICBPTAB == <<0, 16, 32, 15, 31, 47>>
(* The pattern of a 16x16 macroblock by the number of its type.               *)
PatternOf(number) == ICBPTAB[((number - (IF cSlice.type = "P" THEN 6 ELSE 1)) \div 4) + 1]
QuartersOf(cbp) == {q \in 0 .. 3 : (cbp \div 2 ^ q) % 2 = 1}
CbpOf(mb) == FoldSet(LAMBDA q, sum : sum + 2 ^ q, 16 * mb.chroma, mb.luma)
(* decode_one_macroblock(): the luma residual goes by what cbp leaves modulo 16,  *)
(* -1 for a PCM macroblock, the chroma by its quotient, 0 for -1.               *)
Adds(cbp, idct) ==
  {b \in idct : IF b \in Luma THEN cbp % 16 # 0 ELSE cbp > 15}

-----------------------------------------------------------------------------
CUpTo(s) == 0 .. s.first + s.number - 1
Nothing == [type |-> "skip", counts |-> [b \in CBlocks |-> 0], modes |-> [b \in Luma |-> -1], qp |-> 0, coded |-> {}]
(* A picture begins with no coefficient; the modes are those of the one before,  *)
(* and the macroblocks before the slice are another's.                        *)
ContextStart(s) ==
  /\ cSlice = s /\ cMb = s.first /\ qp = s.qp
  /\ nz_coeff1 = [mb \in CUpTo(s) |-> [b \in CBlocks |-> IF mb < s.first THEN 5 ELSE 0]]
  /\ ipredmode = [mb \in CUpTo(s) |-> [b \in Luma |-> 1]]
  /\ intra_block = [mb \in CUpTo(s) |-> 1]
  /\ run_idct = {} /\ added = [mb \in CUpTo(s) |-> {}] /\ cbp_blk = [mb \in CUpTo(s) |-> {}]
  /\ meant = [mb \in {-1} \cup CUpTo(s) |-> [Nothing EXCEPT !.qp = s.qp]]
  /\ contexts = [sent |-> <<>>, asked |-> <<>>] /\ unlike = FALSE
ContextInit == \E s \in CodedSlices : ContextStart(s)

StoredMb(coeffs, cbp, modes) ==
  /\ nz_coeff1' = [nz_coeff1 EXCEPT ![cMb] = coeffs.nz]
  /\ run_idct' = coeffs.idct
  /\ added' = [added EXCEPT ![cMb] = Adds(cbp, coeffs.idct)]
  /\ cbp_blk' = [cbp_blk EXCEPT ![cMb] = coeffs.cbp_blk]
  /\ ipredmode' = [ipredmode EXCEPT ![cMb] = modes]
QpRead(mb) == qp' = (qp + Delta(mb) + 52) % 52
(* I_4x4 and inter: the pattern is read, the quantizer only if it is not zero.   *)
ReadPattern(mb, sent, modes) ==
  LET coeffs == ReadCoeffs(FALSE, QuartersOf(CbpOf(mb)), CbpOf(mb) \div 16, sent)
  IN  /\ StoredMb(coeffs, CbpOf(mb), modes)
      /\ IF CbpOf(mb) # 0 THEN QpRead(mb) ELSE UNCHANGED qp
      /\ contexts' = [sent |-> sent, asked |-> coeffs.asked]
(* I_16x16: the pattern is in the type; a DC coefficient makes it odd.           *)
Read16x16(mb, sent) ==
  LET cbp == PatternOf(TypeNumber(mb))
      coeffs == ReadCoeffs(TRUE, QuartersOf(cbp), cbp \div 16, sent)
  IN  /\ StoredMb(coeffs, IF coeffs.dc /\ cbp % 2 = 0 THEN cbp + 1 ELSE cbp, [b \in Luma |-> DC_PRED])
      /\ QpRead(mb)
      /\ contexts' = [sent |-> sent, asked |-> coeffs.asked]
(* A skipped macroblock adds nothing; a PCM one, whose pattern is -1, adds what     *)
(* the macroblock before it left; neither sets numbers or modes.               *)
ReadNone(adds) ==
  /\ added' = [added EXCEPT ![cMb] = adds]
  /\ contexts' = [sent |-> <<>>, asked |-> <<>>]
  /\ UNCHANGED <<nz_coeff1, run_idct, cbp_blk, ipredmode, qp>>

ReadCoded ==
  /\ cMb \in CUpTo(cSlice)
  /\ \E mb \in {m \in CodedMbs[cMb] : cSlice.type = "I" => IsIntra(m.type)} :
     \E now \in {[meant EXCEPT ![cMb] = Meaning(mb)]} :
       LET sent == Sequence(mb, now)
       IN  /\ meant' = now
           /\ intra_block' = [intra_block EXCEPT ![cMb] = IF IsIntra(mb.type) THEN 1 ELSE 0]
           /\ \/ mb.type = "skip" /\ ReadNone({})
              \/ mb.type = "I_PCM" /\ ReadNone(Adds(-1, run_idct \cap Luma))
              \/ mb.type = "inter" /\ ReadPattern(mb, sent, ipredmode[cMb])
              \/ mb.type = "I_4x4" /\ ReadPattern(mb, sent, read_ipred_modes(ModesWritten(mb, now)))
              \/ mb.type = "I_16x16" /\ Read16x16(mb, sent)
           /\ unlike' = (unlike \/ (mb.type \notin {"skip", "I_PCM"} /\
                            \/ AroundC.A /\ meant[cMb - 1].type = "I_PCM"
                            \/ AroundC.B /\ meant[cMb - FrameWidthInMbs].type = "I_PCM"))
  /\ cMb' = cMb + 1 /\ UNCHANGED cSlice

ContextSpec == ContextInit /\ [][ReadCoded]_contextVars

-----------------------------------------------------------------------------
(* macroblock.c:783-975, 1047-1229, 2325-2796, 3795-3919: every block is read     *)
(* with the context it was written with, and every macroblock ends with the     *)
(* modes, the quantizer and the residual its sender meant, until one is read     *)
(* beside a PCM macroblock; a PCM macroblock itself is not shown right.         *)
ContextsRight ==
  ~unlike =>
    /\ contexts.asked = [k \in 1 .. Len(contexts.sent) |-> contexts.sent[k].context]
    /\ qp = meant[cMb - 1].qp
    /\ \A n \in cSlice.first .. cMb - 1 : meant[n].type # "I_PCM" =>
         /\ added[n] = meant[n].coded
         /\ meant[n].type = "I_4x4" => ipredmode[n] = meant[n].modes
         /\ meant[n].type # "I_16x16" => cbp_blk[n] = meant[n].coded \cap Luma
=============================================================================
