----------------------------- MODULE FirFilter -----------------------------
(***************************************************************************)
(* FirFilterMain.c: a filter of N taps over M samples.  The last N samples *)
(* are kept in a circular buffer; the taps run through it backwards from   *)
(* the newest.  The floating-point sum y[i] is kept as the sample each     *)
(* coefficient h[j] is multiplied with.                                    *)
(***************************************************************************)
EXTENDS Integers

CONSTANTS N, M, Samples
ASSUME FirAssumption == N \in Nat \ {0} /\ M \in Nat /\ 0 \in Samples

Taps == 0 .. N - 1
Times == 0 .. M - 1

VARIABLES x,               \* the samples
          y,               \* for each time, what each tap was given
          cbuf, newst,     \* the circular buffer and the place of the newest
          n, j, x_index,   \* the loops; n is the i of the code
          phase            \* "sample", "taps" or "end"
firVars == <<x, y, cbuf, newst, n, j, x_index, phase>>

FirInit ==
  /\ x \in [Times -> Samples]
  /\ y = [t \in Times |-> [k \in Taps |-> 0]]
  /\ cbuf = [k \in Taps |-> 0]
  /\ newst = 0 /\ x_index = 0
  /\ n = 0 /\ j = 0
  /\ phase = "sample"

NewSample ==
  /\ phase = "sample" /\ n < M
  /\ cbuf' = [cbuf EXCEPT ![newst] = x[n]]
  /\ x_index' = newst
  /\ j' = 0
  /\ phase' = "taps"
  /\ UNCHANGED <<x, y, newst, n>>

(* Mutant: the index wraps at one instead of below zero. *)
TapWrapsEarly ==
  /\ phase = "taps" /\ j < N
  /\ y' = [y EXCEPT ![n][j] = cbuf[x_index]]
  /\ x_index' = IF x_index - 1 <= 0 THEN N - 1 ELSE x_index - 1
  /\ j' = j + 1
  /\ UNCHANGED <<x, cbuf, newst, n, phase>>

(* Mutant: the index does not wrap. *)
TapNoWrap ==
  /\ phase = "taps" /\ j < N
  /\ y' = [y EXCEPT ![n][j] = IF x_index \in Taps THEN cbuf[x_index] ELSE 0]
  /\ x_index' = x_index - 1
  /\ j' = j + 1
  /\ UNCHANGED <<x, cbuf, newst, n, phase>>

Tap ==
  /\ phase = "taps" /\ j < N
  /\ y' = [y EXCEPT ![n][j] = cbuf[x_index]]
  /\ x_index' = IF x_index - 1 = -1 THEN N - 1 ELSE x_index - 1
  /\ j' = j + 1
  /\ UNCHANGED <<x, cbuf, newst, n, phase>>

NextTime ==
  /\ phase = "taps" /\ j = N
  /\ newst' = IF newst + 1 = N THEN 0 ELSE newst + 1
  /\ n' = n + 1
  /\ phase' = IF n + 1 < M THEN "sample" ELSE "end"
  /\ UNCHANGED <<x, y, cbuf, j, x_index>>

FirNext == NewSample \/ Tap \/ NextTime
FirSpec == FirInit /\ [][FirNext]_firVars

(* The types of the variables; no access leaves the buffer.                  *)
FirTypeOK ==
  /\ x \in [Times -> Samples]
  /\ y \in [Times -> [Taps -> Samples]]
  /\ cbuf \in [Taps -> Samples]
  /\ newst \in Taps /\ x_index \in Taps
  /\ n \in 0 .. M /\ j \in 0 .. N
  /\ phase \in {"sample", "taps", "end"}

SampleBefore(t, k) == IF k <= t THEN x[t - k] ELSE 0

(* FirFilterMain.c:51-69: whatever the number of taps, and however often the  *)
(* buffer has gone round, coefficient h[k] is multiplied with the sample that *)
(* came k times before, and with 0 before the first.                          *)
Convolves ==
  /\ \A t \in Times, k \in Taps : t < n => y[t][k] = SampleBefore(t, k)
  /\ phase = "taps" => \A k \in Taps : k < j => y[n][k] = SampleBefore(n, k)
=============================================================================
