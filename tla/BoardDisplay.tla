---------------------------- MODULE BoardDisplay ----------------------------
(***************************************************************************)
(* What TopModule.v puts around the processor: clkDevider.v, which makes   *)
(* the processor's clock out of the board's by counting modulo M in        *)
(* ModmCountr.v, and SevenSeg.v, which shows the sixteen bits that the     *)
(* processor puts out on four digits, one at a time.  The dividers of the  *)
(* board are parameters.  An action is an edge of the board's clock, the   *)
(* reset button or the switches.  The processor's outputs are wires: they  *)
(* may change at the rising edges of its clock, with reset, and whenever   *)
(* the switches do.                                                        *)
(***************************************************************************)
EXTENDS Integers

CONSTANTS ModM,        \* M, the modulus of ModmCountr
          DigitTime,   \* edges a digit is lit for
          Outputs      \* what the processor may put out: functions of 1 .. 4

ASSUME BoardAssumption ==
  ModM \in Nat \ {0} /\ DigitTime \in Nat \ {0} /\ Outputs \subseteq [1 .. 4 -> 0 .. 15]

VARIABLES reset,                  \* the reset button is held
          r_reg, clkout,          \* the divider
          DataIn,                 \* the four nibbles to show, the highest first
          digit, counter, data,   \* the multiplexer
          edge                    \* the next edge of the board's clock
boardVars == <<reset, r_reg, clkout, DataIn, digit, counter, data, edge>>

BoardInit ==
  /\ reset \in BOOLEAN /\ r_reg = 0 /\ clkout = 0 /\ edge = "rise"
  /\ DataIn \in Outputs
  /\ digit = 1 /\ counter = 0 /\ data \in 0 .. 15

(* Mutant: the counter wraps one late. *)
TickLate == r_reg = ModM

max_tick == r_reg = ModM - 1

Rising ==
  /\ edge = "rise" /\ edge' = "fall"
  /\ r_reg' = IF reset \/ max_tick THEN 0 ELSE r_reg + 1
  /\ clkout' = IF reset THEN 0 ELSE IF max_tick THEN 1 - clkout ELSE clkout
  /\ DataIn' \in IF clkout = 0 /\ clkout' = 1 THEN Outputs ELSE {DataIn}
  /\ UNCHANGED <<reset, digit, counter, data>>

(* Mutant: the count starts again for each digit. *)
FallingRestarts ==
  /\ edge = "fall" /\ edge' = "rise"
  /\ IF counter = digit * DigitTime
     THEN /\ digit' = IF digit = 4 THEN 1 ELSE digit + 1
          /\ counter' = 0
          /\ data' = data
     ELSE digit' = digit /\ counter' = counter + 1 /\ data' = DataIn[digit]
  /\ UNCHANGED <<reset, r_reg, clkout, DataIn>>

(* Mutant: the last digit is passed over. *)
FallingSkips ==
  /\ edge = "fall" /\ edge' = "rise"
  /\ IF counter = digit * DigitTime
     THEN /\ digit' = IF digit >= 3 THEN 1 ELSE digit + 1
          /\ counter' = IF digit >= 3 THEN 0 ELSE counter
          /\ data' = data
     ELSE digit' = digit /\ counter' = counter + 1 /\ data' = DataIn[digit]
  /\ UNCHANGED <<reset, r_reg, clkout, DataIn>>

Falling ==
  /\ edge = "fall" /\ edge' = "rise"
  /\ IF counter = digit * DigitTime
     THEN /\ digit' = IF digit = 4 THEN 1 ELSE digit + 1
          /\ counter' = IF digit = 4 THEN 0 ELSE counter
          /\ data' = data
     ELSE digit' = digit /\ counter' = counter + 1 /\ data' = DataIn[digit]
  /\ UNCHANGED <<reset, r_reg, clkout, DataIn>>

(* The button clears the divider and the program counter at once, between   *)
(* edges; the display has no reset.                                          *)
Reset ==
  /\ ~reset /\ reset' = TRUE
  /\ r_reg' = 0 /\ clkout' = 0 /\ DataIn' \in Outputs
  /\ UNCHANGED <<digit, counter, data, edge>>

Release == reset /\ reset' = FALSE /\ UNCHANGED <<r_reg, clkout, DataIn, digit, counter, data, edge>>

(* The instruction on the switches changes, and the wires with it. *)
SwitchesMove ==
  /\ DataIn' \in Outputs
  /\ UNCHANGED <<reset, r_reg, clkout, digit, counter, data, edge>>

ClockEdge == Rising \/ Falling
BoardNext == ClockEdge \/ Reset \/ Release \/ SwitchesMove
BoardSpec == BoardInit /\ [][BoardNext]_boardVars /\ WF_boardVars(ClockEdge)

(* SevenSeg.v:115-146: the segments and the anodes, low when lit.            *)
anodedata == [d \in 1 .. 4 |-> IF d = digit THEN 0 ELSE 1]
Segments(hex) ==   \* CA .. CG
  <<<<0,0,0,0,0,0,1>>, <<1,0,0,1,1,1,1>>, <<0,0,1,0,0,1,0>>, <<0,0,0,0,1,1,0>>,
    <<1,0,0,1,1,0,0>>, <<0,1,0,0,1,0,0>>, <<0,1,0,0,0,0,0>>, <<0,0,0,1,1,1,1>>,
    <<0,0,0,0,0,0,0>>, <<0,0,0,0,1,0,0>>, <<0,0,0,1,0,0,0>>, <<1,1,0,0,0,0,0>>,
    <<0,1,1,0,0,0,1>>, <<1,0,0,0,0,1,0>>, <<0,0,1,0,0,0,0>>, <<0,1,1,1,0,0,0>>>>[hex + 1]

(* The types of the variables, and no two digits that look the same.         *)
BoardTypeOK ==
  /\ reset \in BOOLEAN /\ r_reg \in 0 .. ModM - 1 /\ clkout \in {0, 1} /\ edge \in {"rise", "fall"}
  /\ digit \in 1 .. 4 /\ counter \in Nat /\ data \in 0 .. 15
  /\ \A g, h \in 0 .. 15 : Segments(g) = Segments(h) => g = h

(* SevenSeg.v:58-109: the counter runs through the time of the lit digit, so  *)
(* that its comparisons with four fixed values never miss, whatever the data. *)
CounterInDigit == (digit - 1) * DigitTime <= counter /\ counter <= digit * DigitTime

(* SevenSeg.v:58-109: each digit is lit again and again: the counter never    *)
(* passes the value at which the next digit's turn comes.                     *)
EveryDigitLit == \A d \in 1 .. 4 : []<>(anodedata[d] = 0)

(* The divider, the digits and the table of segments together.               *)
BoardSafe == BoardTypeOK /\ CounterInDigit
=============================================================================
