----------------------------- MODULE SpeechFilters -----------------------------
(***************************************************************************)
(* What the spectrum of a frame is computed from and written as, and the   *)
(* filter that speaks with it.                                             *)
(*                                                                         *)
(* LPC.C Autocorr(): the energy of the windowed signal is summed and the   *)
(* signal divided by four until the sum does not overflow; the other       *)
(* correlations are then summed and shifted like the energy, without       *)
(* looking at Overflow again, and all go into the double precision format. *)
(*                                                                         *)
(* LSPGETQ.C Lsp_get_quant(), after looking the entries of an LSP vector   *)
(* up: spread neighbours twice, then - the moving average with earlier     *)
(* vectors only gives other values - exchange, separate and limit them, so *)
(* that the filter made from them is stable.                               *)
(***************************************************************************)
EXTENDS BasicOps, Sequences

CONSTANTS WindowLen, Lags,         \* L_WINDOW and m
          WindowedSamples          \* values of a windowed sample
ASSUME AutocorrAssumption == Lags \in Nat /\ WindowLen \in Nat /\ Lags < WindowLen

VARIABLES windowed,                       \* the signal
          corrStage,               \* "sum", "correlate" or "done"
          normShift,               \* norm
          corrs                    \* r[0 .. m] so far: sum and double precision
corrVars == <<windowed, corrStage, normShift, corrs, Overflow, Carry>>

Flags(ov) == [value |-> 0, overflow |-> ov, carry |-> Carry]
(* The sum of windowed[j] * windowed[j + lag], started from "start",  *)
(* with its flags.                                                          *)
SumOfProducts(start, lag, f) ==
  LET Sum[j \in 0 .. WindowLen - lag] ==
        IF j = 0 THEN [f EXCEPT !.value = start]
        ELSE Only({L_mac(s.value, windowed[j], windowed[j + lag], s) : s \in {Sum[j - 1]}})
  IN  Sum[WindowLen - lag]

Divided(v) == ShiftedDown(v, 2)

Stored(s, norm) ==
  Only({[sum |-> s.value, hi |-> d.hi, lo |-> d.lo, overflow |-> d.overflow] :
        d \in {L_Extract(up.value, up) : up \in {L_shl(s.value, norm, s)}}})

CorrInit ==
  /\ windowed \in [1 .. WindowLen -> WindowedSamples]
  /\ corrStage = "sum" /\ normShift = 0 /\ corrs = <<>>
  /\ Overflow = 0 /\ Carry = 0

(* One round of the do loop; after the last r[0] is normalised and stored.   *)
SumEnergy ==
  /\ corrStage = "sum"
  /\ \E s \in {SumOfProducts(1, 0, Flags(0))} : \E r0 \in {Stored(s, norm_l(s.value))} :
         IF s.overflow # 0
         THEN /\ windowed' = [j \in 1 .. WindowLen |-> Divided(windowed[j])]
              /\ Overflow' = 1 /\ UNCHANGED <<corrStage, normShift, corrs>>
         ELSE /\ normShift' = norm_l(s.value) /\ corrs' = <<r0>>
              /\ Overflow' = r0.overflow /\ corrStage' = "correlate" /\ UNCHANGED windowed
  /\ Carry' = Carry

Correlate ==
  /\ corrStage = "correlate"
  /\ \E s \in {SumOfProducts(0, Len(corrs), Flags(Overflow))} : \E r \in {Stored(s, normShift)} :
         corrs' = Append(corrs, r) /\ Overflow' = r.overflow
  /\ corrStage' = (IF Len(corrs) = Lags THEN "done" ELSE "correlate")
  /\ UNCHANGED <<windowed, normShift, Carry>>
CorrNext == SumEnergy \/ Correlate
CorrSpec == CorrInit /\ [][CorrNext]_corrVars

-----------------------------------------------------------------------------
TrueSum(start, lag) ==
  LET Sum[j \in 0 .. WindowLen - lag] ==
        IF j = 0 THEN start ELSE Sum[j - 1] + 2 * windowed[j] * windowed[j + lag]
  IN  Sum[WindowLen - lag]

(* LPC.C:66-79: once the energy fits, no later sum or shift overflows, the    *)
(* sums are exact, and none exceeds the energy: Div_32() in Levinson() is     *)
(* only right for a numerator that is not larger than the denominator.       *)
CorrelationsExact ==
  /\ corrStage # "sum" => Overflow = 0 /\ corrs[1].sum = TrueSum(1, 0)
  /\ \A k \in 2 .. Len(corrs) :
       /\ corrs[k].sum = TrueSum(0, k - 1)
       /\ LET v(r) == L_Comp(r.hi, r.lo, Flags(0)).value IN L_abs(v(corrs[k])) <= v(corrs[1])

-----------------------------------------------------------------------------
(* The LSP vectors *)

CONSTANTS LspOrder,                \* M
          GAP1, GAP2, GAP3, L_LIMIT, M_LIMIT,
          LspEntries               \* values an entry may have
ASSUME LspAssumption ==
  /\ LspOrder \in Nat /\ LspOrder > 1 /\ LspEntries \subseteq Word16
  /\ GAP1 \in Nat /\ GAP2 \in Nat /\ GAP3 \in Nat \ {0}

VARIABLES lspBuf,                  \* the vector
          lspStage,                \* what was done to it
          lspBefore                \* what it was before that
lspVars == <<lspBuf, lspStage, lspBefore, Overflow, Carry>>

NoFlags == [overflow |-> 0, carry |-> 0]
Add(a, b) == add(a, b, NoFlags).value
Sub(a, b) == sub(a, b, NoFlags).value

(* Neighbours closer than the gap are moved apart, each by half of what is   *)
(* missing, from the first pair to the last.                                *)
Lsp_expand_1_2(buf, gap) ==
  LET Pass[j \in 1 .. LspOrder] ==
        IF j = 1 THEN buf
        ELSE LET b == Pass[j - 1]
                 tmp == ShiftedDown(Add(Sub(b[j - 1], b[j]), gap), 1)
             IN  IF tmp > 0 THEN [b EXCEPT ![j - 1] = Sub(@, tmp), ![j] = Add(@, tmp)] ELSE b
  IN  Pass[LspOrder]

(* One pass of exchanges of neighbours.                                     *)
Exchanged(buf) ==
  LET Pass[j \in 1 .. LspOrder] ==
        IF j = 1 THEN buf
        ELSE LET b == Pass[j - 1]
             IN  IF b[j] - b[j - 1] < 0 THEN [b EXCEPT ![j] = b[j - 1], ![j - 1] = b[j]] ELSE b
  IN  Pass[LspOrder]
LowLimited(buf) == IF Sub(buf[1], L_LIMIT) < 0 THEN [buf EXCEPT ![1] = L_LIMIT] ELSE buf
Separated(buf) ==
  LET Pass[j \in 1 .. LspOrder] ==
        IF j = 1 THEN buf
        ELSE LET b == Pass[j - 1]
             IN  IF b[j] - b[j - 1] - GAP3 < 0 THEN [b EXCEPT ![j] = Add(b[j - 1], GAP3)] ELSE b
  IN  Pass[LspOrder]
HighLimited(buf) ==
  IF Sub(buf[LspOrder], M_LIMIT) > 0 THEN [buf EXCEPT ![LspOrder] = M_LIMIT] ELSE buf
(* Mutant: the lower limit is applied after the gaps were made.             *)
Lsp_stabilityLimitLast(buf) == HighLimited(LowLimited(Separated(Exchanged(buf))))
Lsp_stability(buf) == HighLimited(Separated(LowLimited(Exchanged(buf))))

LspInit ==
  /\ lspBuf \in [1 .. LspOrder -> LspEntries]
  /\ lspStage = "looked up" /\ lspBefore = <<>>
  /\ Overflow = 0 /\ Carry = 0
LspStep(from, to, buf) ==
  /\ lspStage = from /\ lspStage' = to
  /\ lspBefore' = lspBuf /\ lspBuf' = buf
  /\ UNCHANGED <<Overflow, Carry>>
Expand1 == LspStep("looked up", "expanded", Lsp_expand_1_2(lspBuf, GAP1))
Expand2 == LspStep("expanded", "composed", Lsp_expand_1_2(lspBuf, GAP2))
Stabilise == LspStep("composed", "stable", Lsp_stability(lspBuf))
LspNext == Expand1 \/ Expand2 \/ Stabilise
LspSpec == LspInit /\ [][LspNext]_lspVars

-----------------------------------------------------------------------------
LspTotal(buf) ==
  LET Sum[j \in 0 .. LspOrder] == IF j = 0 THEN 0 ELSE Sum[j - 1] + buf[j] IN Sum[LspOrder]
GapBefore(buf, j) == buf[j] - buf[j - 1]

(* LSPGETQ.C:93-111: an expansion moves the pair it looks at apart by what is *)
(* missing at that moment, so the total stays, and the last pair ends with at *)
(* least the gap less one.                                                  *)
ExpansionRight ==
  lspStage \in {"expanded", "composed"} =>
    /\ LspTotal(lspBuf) = LspTotal(lspBefore)
    /\ GapBefore(lspBuf, LspOrder) >= (IF lspStage = "expanded" THEN GAP1 ELSE GAP2) - 1

(* LSPGETQ.C:191-233: a stabilised vector starts above its lower limit, ends  *)
(* below its upper one and keeps the minimum gap everywhere, but for its last *)
(* gap where the upper limit cut it; a vector with these properties is left   *)
(* alone.                                                                   *)
GapsKept(buf) ==
  /\ L_LIMIT <= buf[1] /\ buf[LspOrder] <= M_LIMIT
  /\ \A j \in 2 .. LspOrder :
       GapBefore(buf, j) >= GAP3 \/ (j = LspOrder /\ buf[j] = M_LIMIT)
StabilityRight ==
  lspStage = "stable" =>
    /\ GapsKept(lspBuf)
    /\ GapBefore(lspBuf, LspOrder) >= GAP3 => Lsp_stability(lspBuf) = lspBuf
VectorsRight == ExpansionRight /\ StabilityRight
-----------------------------------------------------------------------------
(* The speech synthesis of the decoder (FILTER.C, DEC_LD8A.C:257-270): the     *)
(* filter was unrolled by two and its sums are plain C sums, which wrap round  *)
(* without setting Overflow; only the final shift and the rounding saturate    *)
(* and set it.                                                               *)
CONSTANTS LpcOrder, SubfrLen,     \* M and L_SUBFR; both even
          Filters,                \* coefficients <<a[0], .., a[M]>>
          Excitations             \* exc[] of a subframe
ASSUME SynthesisAssumption ==
  /\ LpcOrder \in Nat \ {0} /\ SubfrLen \in Nat /\ LpcOrder <= SubfrLen /\ SubfrLen % 2 = 0
  /\ \A a \in Filters : Len(a) = LpcOrder + 1 /\ \A j \in DOMAIN a : a[j] \in Word16
  /\ \A e \in Excitations : Len(e) = SubfrLen /\ \A j \in DOMAIN e : e[j] \in Word16

VARIABLES mem_syn,                \* the last M samples synthesised
          subframe                \* the subframe just synthesised
synVars == <<mem_syn, subframe, Overflow, Carry>>

(* Twice the sum of a[j] * past[-j], j from "from" to M, with yy[0] the      *)
(* sample after the n-th of "past".                                         *)
PastSum(a, past, n, from) ==
  LET Sum[j \in 0 .. LpcOrder] ==
        IF j < from THEN 0 ELSE Sum[j - 1] + 2 * a[j + 1] * past[n + 1 - j]
  IN  Sum[LpcOrder]

(* Mutant: the shift loses what it shifts out, as in the line before it.     *)
OutputUnchecked(s, f) == round(Cast32(s * 8), f)
(* s << 3 with saturation, and round().                                     *)
Output(s, f) == LET up == L_shl(s, 3, f) IN round(up.value, up)

(* Two samples at a time: s2 has summed all but the newest sample, which it  *)
(* needs s1 for.                                                            *)
Syn_filt(a, x, mem, f) ==
  LET Pairs2[k \in 0 .. SubfrLen \div 2] ==
        IF k = 0 THEN [yy |-> mem, flags |-> f]
        ELSE LET yy == Pairs2[k - 1].yy
                 n == Len(yy)
                 s1 == Output(Cast32(2 * a[1] * x[2 * k - 1] - PastSum(a, yy, n, 1)), Pairs2[k - 1].flags)
                 old == PastSum(a, yy, n + 1, 2)
                 s2 == Output(Cast32(2 * a[1] * x[2 * k] - old - 2 * a[2] * s1.value), s1)
             IN  [yy |-> yy \o <<s1.value, s2.value>>, flags |-> s2]
  IN  [y |-> SubSeq(Pairs2[SubfrLen \div 2].yy, LpcOrder + 1, LpcOrder + SubfrLen),
       overflow |-> Pairs2[SubfrLen \div 2].flags.overflow, carry |-> f.carry]

LastOf(y) == SubSeq(y, SubfrLen - LpcOrder + 1, SubfrLen)

(* The residual, from the samples before the subframe and those of it.       *)
Residu(a, before, x) ==
  [i \in 1 .. SubfrLen |->
     LET all == before \o x
         s == Cast32(2 * a[1] * x[i] + PastSum(a, all, LpcOrder + i - 1, 1))
     IN  extract_h(Cast32(Cast32(s * 8) + 2 ^ (OpBits - 1)))]

SynInit ==
  /\ mem_syn = [i \in 1 .. LpcOrder |-> 0] /\ subframe = <<>>
  /\ Overflow = 0 /\ Carry = 0

(* Overflow is cleared and the subframe synthesised without touching the     *)
(* memory; after an overflow the excitation is divided by four and it is     *)
(* done again, the memory updated, else the memory is copied.                *)
Synthesise ==
  /\ subframe = <<>>
  /\ \E a \in Filters, exc \in Excitations :
     \E try \in {Syn_filt(a, exc, mem_syn, Keeping(0, [overflow |-> 0, carry |-> Carry]))} :
       IF try.overflow = 0
       THEN /\ mem_syn' = LastOf(try.y) /\ Overflow' = 0
            /\ subframe' = [a |-> a, exc |-> exc, before |-> mem_syn, y |-> try.y, first |-> try]
       ELSE \E again \in {Syn_filt(a, [i \in 1 .. SubfrLen |-> ShiftedDown(exc[i], 2)], mem_syn, try)} :
              /\ mem_syn' = LastOf(again.y) /\ Overflow' = again.overflow
              /\ subframe' = [a |-> a, exc |-> [i \in 1 .. SubfrLen |-> ShiftedDown(exc[i], 2)],
                              before |-> mem_syn, y |-> again.y, first |-> try]
  /\ Carry' = Carry
NextSubframe == subframe # <<>> /\ subframe' = <<>> /\ UNCHANGED <<mem_syn, Overflow, Carry>>
SynNext == Synthesise \/ NextSubframe
SynSpec == SynInit /\ [][SynNext]_synVars

-----------------------------------------------------------------------------
(* What the filter should give, sample by sample, in unbounded integers: the *)
(* sample of weight 2^(2 * OpBits - 4) that Word16 or its limits hold.        *)
Wanted(i, y) ==
  LET all == subframe.before \o y
      s == 2 * subframe.a[1] * subframe.exc[i] - PastSum(subframe.a, all, LpcOrder + i - 1, 1)
  IN  By(s * 8 + 2 ^ (OpBits - 1), -OpBits)
Representable(w) == w \in 8 * MIN_16 .. 8 * MAX_16

(* FILTER.C:98-124: every sample is the direct form's, cut off to Word16, as  *)
(* long as the sum itself fits into 32 bits; beyond eight times full scale it *)
(* wraps.                                                                   *)
SamplesRight ==
  subframe # <<>> =>
    \A i \in 1 .. SubfrLen :
      LET w == Wanted(i, subframe.y) IN Representable(w) => subframe.y[i] = Clip16(w)

(* DEC_LD8A.C:259: Overflow tells of every sample that was cut off, so that   *)
(* what goes on without a second pass is what was wanted.                    *)
OverflowSeen ==
  subframe # <<>> /\ subframe.first.overflow = 0 =>
    \A i \in 1 .. SubfrLen :
      LET w == Wanted(i, subframe.y) IN Representable(w) => subframe.y[i] = w

(* DEC_LD8A.C:267-270: on both ways the memory is the end of the samples that *)
(* go out, and the analysis filter undoes the synthesis of an uncut subframe. *)
MemoryRight ==
  subframe # <<>> =>
    /\ mem_syn = LastOf(subframe.y)
    /\ Overflow = 0 => Residu(subframe.a, subframe.before, subframe.y) = subframe.exc
FilterRight == SamplesRight /\ OverflowSeen /\ MemoryRight
=============================================================================
