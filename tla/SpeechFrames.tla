---------------------------- MODULE SpeechFrames ----------------------------
(***************************************************************************)
(* The G.729A bit stream: what the coder writes for a frame, what can      *)
(* happen to the 80 words on the way, and what the decoder makes of them.  *)
(* Of the searches of the coder only their results are kept: a lag, a      *)
(* fraction, pulses and codebook entries.                                  *)
(***************************************************************************)
EXTENDS Integers, Sequences

CONSTANTS FirstLags,       \* lags the pitch search may find, of PIT_MIN .. PIT_MAX
          SecondSteps,     \* places in the range of the second search, of 0 .. 9
          Contents,        \* of a frame: LSP codes (mode, first stage, two second
                           \* stages), and of each subframe the pulses (places
                           \* and signs) and the two gain codebook entries
          Silent           \* what a random codevector is written as

PIT_MIN == 20
PIT_MAX == 143
L_INTER10 == 10
L_INTERPOL == 11
L_SUBFR == 40
bitsno == <<8, 10, 8, 1, 13, 4, 7, 5, 13, 4, 7>>
StartOf == <<0, 8, 18, 26, 27, 40, 44, 51, 56, 69, 73>>     \* the words before each
SpeechBits == 80
BIT_0 == 127
BIT_1 == 129
map1 == <<5, 1, 4, 7, 3, 0, 6, 2>>
map2 == <<4, 6, 0, 2, 12, 14, 8, 10, 15, 11, 9, 13, 7, 3, 1, 5>>
imap1 == <<5, 1, 7, 4, 2, 0, 6, 3>>
imap2 == <<2, 14, 3, 13, 0, 15, 1, 12, 6, 10, 7, 9, 4, 11, 5, 8>>

(* What the searches may find: codebook entries, and a place and a sign of    *)
(* each of four pulses on tracks of their own.                              *)
LspCodes == (0 .. 1) \X (0 .. 127) \X (0 .. 31) \X (0 .. 31)
Track(t) == {5 * q + t : q \in 0 .. 7}
Pulses == [place : Track(0) \X Track(1) \X Track(2) \X (Track(3) \cup Track(4)),
           sign : [1 .. 4 -> {-1, 1}]]
GainEntries == (0 .. 7) \X (0 .. 15)

ASSUME SpeechFramesAssumption ==
  /\ FirstLags \subseteq PIT_MIN .. PIT_MAX /\ SecondSteps \subseteq 0 .. 9
  /\ Contents \subseteq [lsp : LspCodes, pulses : Pulses \X Pulses, gains : GainEntries \X GainEntries]

NoDamage == 0
Erased == -1
VARIABLES serial,          \* the words between coder and decoder; <<>>: none
          sent,            \* what the coder coded last
          damage,          \* what happened to it: NoDamage, Erased or a bit
          old_T0,          \* the decoder's lag to go on with
          got              \* what the decoder decoded last
frameVars == <<serial, sent, damage, old_T0, got>>

(* Word16 arithmetic that stays in range: mult() by 2^15 / d + 1 divides.   *)
Third(n) == (n * 10923) \div 2 ^ 15
Fifth(n) == (n * 6554) \div 2 ^ 15
Bit(n, k) == (n \div 2 ^ k) % 2

-----------------------------------------------------------------------------
(* Parameters to words and back, the most significant bit first.            *)
int2bin(value, n, k) == IF Bit(value, n - k) = 0 THEN BIT_0 ELSE BIT_1     \* its k-th word
ParamOf == [b \in 1 .. SpeechBits |->
              CHOOSE i \in 1 .. Len(bitsno) : b - StartOf[i] \in 1 .. bitsno[i]]
prm2bits(prm) ==
  [b \in 1 .. SpeechBits |-> LET i == ParamOf[b] IN int2bin(prm[i], bitsno[i], b - StartOf[i])]
bin2int(bits, start, n) ==
  LET Value[k \in 0 .. n] ==
        IF k = 0 THEN 0 ELSE 2 * Value[k - 1] + (IF bits[start + k] = BIT_1 THEN 1 ELSE 0)
  IN  Value[n]
bits2prm(bits) ==
  LET Parm(i) == bin2int(bits, StartOf[i], bitsno[i])
  IN  <<Parm(1), Parm(2), Parm(3), Parm(4), Parm(5), Parm(6), Parm(7), Parm(8), Parm(9), Parm(10),
        Parm(11)>>

(* The exclusive or of the six upper bits of the first lag's index, and 1.   *)
UpperOnes(index) ==
  Bit(index, 2) + Bit(index, 3) + Bit(index, 4) + Bit(index, 5) + Bit(index, 6) + Bit(index, 7)
Parity_Pitch(index) == (1 + UpperOnes(index)) % 2
Check_Parity_Pitch(index, parity) == (1 + UpperOnes(index) + parity) % 2

(* Mutant: the range is not kept below the largest lag.                     *)
SecondMinUncut(T0) == IF T0 - 5 < PIT_MIN THEN PIT_MIN ELSE T0 - 5
(* The range of the second lag, of nine lags round the first.               *)
SecondMin(T0) ==
  LET low == IF T0 - 5 < PIT_MIN THEN PIT_MIN ELSE T0 - 5
  IN  IF low + 9 > PIT_MAX THEN PIT_MAX - 9 ELSE low

Enc_lag3(lag, T0_min, first) ==
  IF first THEN IF lag.T0 <= 85 THEN lag.T0 * 3 - 58 + lag.frac ELSE lag.T0 + 112
  ELSE (lag.T0 - T0_min) * 3 + 2 + lag.frac

Lag(T0, frac) == [T0 |-> T0, frac |-> frac]
Dec_lag3_first(index) ==
  IF index < 197 THEN LET T0 == Third(index + 2) + 19 IN Lag(T0, index - 3 * T0 + 58)
  ELSE Lag(index - 112, 0)
Dec_lag3_second(index, T0) ==
  LET i == Third(index + 2) - 1 IN Lag(i + SecondMin(T0), index - 2 - 3 * i)

(* Fractions are not searched above a first lag of 84.                      *)
FirstFound == {Lag(T0, f) : T0 \in FirstLags, f \in -1 .. 1} \ {Lag(T0, f) : T0 \in 85 .. PIT_MAX, f \in {-1, 1}}
SecondFound(T0) == {Lag(SecondMin(T0) + s, f) : s \in SecondSteps, f \in -1 .. 1}

(* Pulses: a fifth of the place each, the last track's two halves by a bit.  *)
ACELP_index(p) ==
  LET q == [t \in 1 .. 4 |-> Fifth(p.place[t])]
  IN  q[1] + 8 * q[2] + 64 * q[3] + 512 * (2 * q[4] + (p.place[4] - (5 * q[4] + 3)))
ACELP_signs(p) ==
  LET plus(t, w) == IF p.sign[t] > 0 THEN w ELSE 0
  IN  plus(1, 1) + plus(2, 2) + plus(3, 4) + plus(4, 8)
Decod_ACELP(sign, index) ==
  [place |-> <<(index % 8) * 5, ((index \div 8) % 8) * 5 + 1, ((index \div 64) % 8) * 5 + 2,
               ((index \div 1024) % 8) * 5 + 3 + Bit(index, 9)>>,
   sign |-> [t \in 1 .. 4 |-> IF Bit(sign, t - 1) # 0 THEN 1 ELSE -1]]

Gain_index(g) == map1[g[1] + 1] * 16 + map2[g[2] + 1]
Dec_gain_index(index) == <<imap1[(index \div 16) + 1], imap2[(index % 16) + 1]>>

LspWords(lsp) == <<lsp[1] * 128 + lsp[2], lsp[3] * 32 + lsp[4]>>
Dec_lsp(w1, w2) == <<Bit(w1, 7), w1 % 128, (w2 \div 32) % 32, w2 % 32>>

-----------------------------------------------------------------------------
(* One frame of the coder; its results go out in the order of prm[].        *)
Coded(f) ==
  LET lsp == LspWords(f.lsp)
      first == Enc_lag3(f.lag[1], 0, TRUE)
      second == Enc_lag3(f.lag[2], SecondMin(f.lag[1].T0), FALSE)
  IN  <<lsp[1], lsp[2],
        first, Parity_Pitch(first), ACELP_index(f.pulses[1]), ACELP_signs(f.pulses[1]), Gain_index(f.gains[1]),
        second, ACELP_index(f.pulses[2]), ACELP_signs(f.pulses[2]), Gain_index(f.gains[2])>>

FrameInit ==
  /\ serial = <<>> /\ sent = <<>> /\ damage = NoDamage
  /\ old_T0 = 60 /\ got = <<>>

Coder_ld8a ==
  /\ serial = <<>> /\ got = <<>>
  /\ \E c \in Contents, l1 \in FirstFound : \E l2 \in SecondFound(l1.T0) :
       sent' = [lsp |-> c.lsp, pulses |-> c.pulses, gains |-> c.gains, lag |-> <<l1, l2>>]
  /\ \E prm \in {Coded(sent')} : serial' = prm2bits(prm)
  /\ damage' = NoDamage /\ UNCHANGED <<old_T0, got>>

(* On the way a frame may be erased, all its words zero, or lose one bit of  *)
(* those of the first lag and its parity.                                   *)
LagBits == StartOf[3] + 1 .. StartOf[3] + 9
Damage ==
  /\ serial # <<>> /\ damage = NoDamage
  /\ \/ damage' = Erased /\ serial' = [b \in 1 .. SpeechBits |-> 0]
     \/ \E b \in LagBits :
          damage' = b /\ serial' = [serial EXCEPT ![b] = BIT_0 + BIT_1 - @]
  /\ UNCHANGED <<sent, old_T0, got>>

(* The lag that follows a concealed one.                                    *)
Longer(T0) == IF T0 + 1 > PIT_MAX THEN PIT_MAX ELSE T0 + 1

Decod_ld8a ==
  /\ serial # <<>>
  /\ \E prm \in {bits2prm(serial)} :
     LET bfi == \E b \in 1 .. SpeechBits : serial[b] = 0
         bad_pitch == bfi \/ Check_Parity_Pitch(prm[3], prm[4]) = 1
         lag1 == IF bad_pitch THEN Lag(old_T0, 0) ELSE Dec_lag3_first(prm[3])
         old1 == IF bad_pitch THEN Longer(old_T0) ELSE lag1.T0
         (* Dec_lag3() centres the second range on T0, not on old_T0.        *)
         lag2 == IF bfi THEN Lag(old1, 0) ELSE Dec_lag3_second(prm[8], lag1.T0)
     IN  /\ old_T0' = IF bfi THEN Longer(old1) ELSE lag2.T0
         /\ got' = [bfi |-> bfi, bad_pitch |-> bad_pitch, before |-> old_T0,
                    lag |-> <<lag1, lag2>>,
                    lsp |-> IF bfi THEN Silent ELSE Dec_lsp(prm[1], prm[2]),
                    pulses |-> IF bfi THEN Silent
                               ELSE <<Decod_ACELP(prm[6], prm[5]), Decod_ACELP(prm[10], prm[9])>>,
                    gains |-> IF bfi THEN Silent
                              ELSE <<Dec_gain_index(prm[7]), Dec_gain_index(prm[11])>>]
  /\ serial' = <<>> /\ UNCHANGED <<sent, damage>>

(* Post_Filter() and Post_Process(), and the samples are written.            *)
Played ==
  /\ got # <<>> /\ got' = <<>> /\ sent' = <<>>
  /\ damage' = NoDamage /\ UNCHANGED <<serial, old_T0>>

FrameNext == Coder_ld8a \/ Damage \/ Decod_ld8a \/ Played
FrameSpec == FrameInit /\ [][FrameNext]_frameVars

-----------------------------------------------------------------------------
Decoded == serial = <<>> /\ got # <<>>

(* Pred_lt_3(): where the interpolation of sample j reads, as a distance back *)
(* from the start of the subframe.                                          *)
FirstRead(lag) == IF lag.frac > 0 THEN lag.T0 + 1 ELSE lag.T0
FarthestRead(lag) == FirstRead(lag) + L_INTER10 - 1
NearestRead(lag) == FirstRead(lag) - L_INTER10             \* behind sample j
(* Post_Filter(): the range searched round the decoded lag.                  *)
PostMax(T0) == IF T0 + 3 > PIT_MAX THEN PIT_MAX ELSE T0 + 3
PostMin(T0) == PostMax(T0) - 6

(* A frame that arrives as it was sent is decoded to what was coded.         *)
GoodFrameRight ==
  Decoded /\ damage = NoDamage =>
    /\ ~got.bad_pitch
    /\ \A field \in {"lsp", "lag", "pulses", "gains"} : got[field] = sent[field]

(* An erased frame goes on with the last lag, and a flip of one of the six   *)
(* protected bits or of their parity is never decoded as a lag.              *)
DamageConcealed ==
  Decoded /\ damage \in {Erased} \cup (LagBits \ {StartOf[3] + 7, StartOf[3] + 8}) =>
    got.bad_pitch /\ got.bfi = (damage = Erased) /\ got.lag[1] = Lag(got.before, 0)

(* A flip of the two bits the parity leaves out moves both lags by at most   *)
(* two samples.                                                             *)
UnprotectedClose ==
  Decoded /\ damage \in {StartOf[3] + 7, StartOf[3] + 8} =>
    \A s \in {1, 2} : got.lag[s].T0 - sent.lag[s].T0 \in -2 .. 2

(* Whatever arrives, the adaptive codebook and the postfilter read samples    *)
(* that are already there and not older than their buffers hold.             *)
ReadsInside ==
  got # <<>> =>
    \A s \in {1, 2} :
      /\ FarthestRead(got.lag[s]) <= PIT_MAX + L_INTERPOL
      /\ NearestRead(got.lag[s]) > 0
      /\ PostMin(got.lag[s].T0) > 0 /\ PostMax(got.lag[s].T0) <= PIT_MAX

(* TAMING.C:54: the coder's error zones have an entry for every lag it finds. *)
TamingInTable ==
  sent # <<>> => \A s \in {1, 2} : FirstRead(sent.lag[s]) + L_INTER10 - 2 <= PIT_MAX + L_INTERPOL - 2

FramesRight ==
  GoodFrameRight /\ DamageConcealed /\ UnprotectedClose /\ ReadsInside /\ TamingInTable
=============================================================================
