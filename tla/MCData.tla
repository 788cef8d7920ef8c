------------------------------- MODULE MCData -------------------------------
(* The circuits, the filter, the parallel dot product and, for its progress,*)
(* the chat server chatservr.c, each by itself: a behaviour runs one of them *)
(* and leaves the others in one initial state.                              *)
EXTENDS MCRisc, BoardDisplay, StateMachines, FirFilter, Adders, DotProduct

MCOutputs == {<<1, 2, 3, 4>>, <<5, 5, 0, 15>>}
MCSmall == 0 .. 15
MCWide == {0, 1, 15, 16, 240, 255, 256, 4095, 4096, 21845, 43690, 65535, 65280, 32768, 32767}
MCFactors == 0 .. 63

CONSTANTS u1, u2, hello, NoClient

(* The chat server with two users that both write, and room for both.  To   *)
(* be called another name makes no difference to whether one is served.     *)
VARIABLES client, inbox, sent, cut, heard, waiting, owner, fd_chats, name_chats,
          stage, fdCheck, row, alive

Chat == INSTANCE ChatServer WITH
  Clients <- {u1, u2}, MAX_CHATS <- 2, Backlog <- 1,
  Speech <- {hello}, Name <- {}, MaxSent <- (u1 :> 1) @@ (u2 :> 1),
  reset <- cut, i <- row

chatVars == <<client, inbox, sent, cut, heard, waiting, owner, fd_chats, name_chats,
              stage, fdCheck, row, alive>>

VARIABLE circuit
hwVars == <<riscVars, boardVars, detVars, mulVars, firVars, input>>
dataVars == <<hwVars, chatVars, vars, circuit>>

MCInit ==
  /\ circuit \in {"risc", "board", "detector", "multiplier", "fir", "adders",
                 "dotprod", "chat"}
  /\ RiscInit /\ DetInit /\ AddersInit /\ Init /\ Chat!ChatInit
  /\ BoardInit /\ (circuit # "board" => ~reset /\ data = 0 /\ DataIn = <<1, 2, 3, 4>>)
  /\ MulInit /\ (circuit # "multiplier" => in_a = 0)
  /\ FirInit /\ (circuit # "fir" => x = [t \in Times |-> 0])

Runs(c, A) == circuit = c /\ A /\ UNCHANGED circuit

MCNext ==
  \/ /\ Runs("risc", RiscNext)
     /\ UNCHANGED <<boardVars, detVars, mulVars, firVars, input, chatVars, vars>>
  \/ /\ Runs("board", BoardNext)
     /\ UNCHANGED <<riscVars, detVars, mulVars, firVars, input, chatVars, vars>>
  \/ /\ Runs("detector", DetNext)
     /\ UNCHANGED <<riscVars, boardVars, mulVars, firVars, input, chatVars, vars>>
  \/ /\ Runs("multiplier", MulNext)
     /\ UNCHANGED <<riscVars, boardVars, detVars, firVars, input, chatVars, vars>>
  \/ /\ Runs("fir", FirNext)
     /\ UNCHANGED <<riscVars, boardVars, detVars, mulVars, input, chatVars, vars>>
  \/ /\ Runs("adders", AddersNext)
     /\ UNCHANGED <<riscVars, boardVars, detVars, mulVars, firVars, chatVars, vars>>
  \/ Runs("dotprod", Next) /\ UNCHANGED <<hwVars, chatVars>>
  \/ Runs("chat", Chat!ChatNext) /\ UNCHANGED <<hwVars, vars>>

(* The clocks run, and so do the threads of the dot product; a chat server  *)
(* that does not run has nothing to do, so its fairness asks nothing.       *)
MCSpec ==
  /\ MCInit /\ [][MCNext]_dataVars
  /\ Chat!ChatFairness
  /\ WF_dataVars(/\ Runs("risc", Clock)
                 /\ UNCHANGED <<boardVars, detVars, mulVars, firVars, input, chatVars, vars>>)
  /\ WF_dataVars(/\ Runs("board", ClockEdge)
                 /\ UNCHANGED <<riscVars, detVars, mulVars, firVars, input, chatVars, vars>>)
  /\ WF_dataVars(Runs("dotprod", Main) /\ UNCHANGED <<hwVars, chatVars>>)
  /\ \A t \in Threads : WF_dataVars(Runs("dotprod", Dotprod(t)) /\ UNCHANGED <<hwVars, chatVars>>)

(* The processor's, the board's, the detector's, the multiplier's and the   *)
(* adders' registers and outputs are what they should be.                   *)
CircuitsRight == RiscTypeOK /\ BoardSafe /\ DetectorRight /\ MultiplierRight /\ ArithmeticRight

(* Each in its turn: a running board lights every digit again and again, the *)
(* processor's program reaches its end, the dot product is printed and main  *)
(* ends.                                                                     *)
AllGoOn ==
  /\ circuit = "board" => EveryDigitLit
  /\ circuit = "risc" => ProgramEnds
  /\ circuit = "dotprod" => Terminates

(* What the users of the chat server write is read, and who leaves is       *)
(* removed, unless SIGPIPE kills it.                                        *)
ChattersServed == Chat!ChattersServed
=============================================================================
