------------------------------- MODULE MCDpb -------------------------------
(* Instances of the decoded picture buffer for TLC. *)
EXTENDS Dpb

MCPocs == 0 .. 2
MCTwoPocs == {0, 1}
MCINT_MIN == -1
MCLongIdx == {0, 1}
Never == {FALSE}
Either == BOOLEAN
=============================================================================
