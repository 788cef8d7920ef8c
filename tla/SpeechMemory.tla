---------------------------- MODULE SpeechMemory ----------------------------
(***************************************************************************)
(* What coder and decoder remember from frame to frame and must remember   *)
(* alike: the LSP vectors of the moving average, the LSPs to interpolate   *)
(* from, the energies of the gain prediction and the last pitch gain.  An  *)
(* erased frame makes the decoder go on with values of its own.            *)
(*                                                                         *)
(* A vector is written as what it is computed from: the codes of the frame *)
(* and the vectors of the frames before.  Own is any value the decoder     *)
(* makes up while it conceals; it is like nothing the coder has.           *)
(***************************************************************************)
EXTENDS Integers, Sequences

CONSTANTS FrameCodes,              \* codes a frame may have
          Reset,                   \* the value everything starts with
          Own,
          MaxGood                  \* good frames in a row are counted so far

MA_NP == 4
ASSUME SpeechMemoryAssumption ==
  MaxGood \in Nat /\ Reset \notin FrameCodes /\ Own \notin FrameCodes /\ Own # Reset

VARIABLES coder, decoder,          \* what each remembers
          filters,                 \* the filters of the last frame, of each
          gains,                   \* and its gains
          goodFrames               \* frames since the last erased one
memoryVars == <<coder, decoder, filters, gains, goodFrames>>
Sides == {"coder", "decoder"}

Last4(s) == SubSeq(s, 1, 4)
(* Lsp_prev_update(), Gain_update(): the newest first.                       *)
Remembered(v, history) == Last4(<<v>> \o history)

Lsp_get_quant(code, freq_prev) == <<code, freq_prev>>
Fresh == [freq_prev |-> [k \in 1 .. MA_NP |-> Reset], prev_lsp |-> Reset, lsp_old |-> Reset,
          past_qua_en |-> [k \in 1 .. 4 |-> Reset], sharp |-> Reset]

(* Int_qlpc(): the first subframe's filter is halfway from the last frame's. *)
Int_qlpc(lsp_old, lsp_new) == <<<<lsp_old, lsp_new>>, lsp_new>>

(* Both subframes' gains: the code gain is predicted from the last four       *)
(* energies and from a codevector sharpened with the last pitch gain.         *)
Predicted(index, side) == [index |-> index, energies |-> side.past_qua_en, sharp |-> side.sharp]
(* Mutant: the last pitch gain is not kept.                                 *)
AfterGainNotSharp(index, side) == [side EXCEPT !.past_qua_en = Remembered(index, @)]
AfterGain(index, side) ==
  [side EXCEPT !.past_qua_en = Remembered(index, @), !.sharp = index]

(* A frame that both sides take the same steps with: quantise or decode the   *)
(* LSPs, interpolate, then the gains of two subframes.                       *)
WithLsp(code, side) ==
  [side EXCEPT !.freq_prev = Remembered(code, @),
               !.prev_lsp = Lsp_get_quant(code, side.freq_prev),
               !.lsp_old = Lsp_get_quant(code, side.freq_prev)]
AfterFrame(code, side) == AfterGain(code, AfterGain(code, WithLsp(code, side)))
FiltersOf(code, side) == Int_qlpc(side.lsp_old, Lsp_get_quant(code, side.freq_prev))
GainsOf(code, side) == <<Predicted(code, side), Predicted(code, AfterGain(code, side))>>

(* An erased frame: the last LSPs again, and the vector of the moving average *)
(* that would have given them; attenuated gains and their average energy.     *)
Concealed(side) ==
  [side EXCEPT !.freq_prev = Remembered(Own, @), !.lsp_old = side.prev_lsp,
               !.past_qua_en = Remembered(Own, Remembered(Own, @)), !.sharp = Own]

MemoryInit ==
  /\ coder = Fresh /\ decoder = Fresh
  /\ filters = [s \in Sides |-> <<Reset, Reset>>] /\ gains = [s \in Sides |-> Reset]
  /\ goodFrames = MaxGood

FrameReceived ==
  /\ \E code \in FrameCodes :
       /\ coder' = AfterFrame(code, coder) /\ decoder' = AfterFrame(code, decoder)
       /\ filters' = [coder |-> FiltersOf(code, coder), decoder |-> FiltersOf(code, decoder)]
       /\ gains' = [coder |-> GainsOf(code, coder), decoder |-> GainsOf(code, decoder)]
  /\ goodFrames' = (IF goodFrames < MaxGood THEN goodFrames + 1 ELSE MaxGood)

FrameErased ==
  /\ \E code \in FrameCodes :
       /\ coder' = AfterFrame(code, coder) /\ decoder' = Concealed(decoder)
       /\ filters' = [coder |-> FiltersOf(code, coder),
                      decoder |-> Int_qlpc(decoder.lsp_old, decoder.prev_lsp)]
       /\ gains' = [coder |-> GainsOf(code, coder), decoder |-> <<Own, Own>>]
  /\ goodFrames' = 0
MemoryNext == FrameReceived \/ FrameErased
MemorySpec == MemoryInit /\ [][MemoryNext]_memoryVars

-----------------------------------------------------------------------------
(* LSPDEC.C:86, GAINPRED.C:138: an erasure is forgotten.  After the moving    *)
(* average has seen only good frames the LSPs are the coder's again, one frame *)
(* later so is the filter of the first subframe; the gains are after two.     *)
HistoriesAgree ==
  /\ goodFrames >= MA_NP => coder.freq_prev = decoder.freq_prev
  /\ goodFrames >= MA_NP + 1 =>
       coder.lsp_old = decoder.lsp_old /\ filters["coder"][2] = filters["decoder"][2]
  /\ goodFrames >= MA_NP + 2 => filters["coder"] = filters["decoder"]
  /\ goodFrames >= 2 => coder.past_qua_en = decoder.past_qua_en
  /\ goodFrames >= 3 => gains["coder"] = gains["decoder"]
  /\ goodFrames >= 1 => coder.sharp = decoder.sharp
=============================================================================
