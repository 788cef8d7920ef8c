----------------------------- MODULE MCSharing -----------------------------
(* The chat server with three users, one of whom writes, and room for two;   *)
(* and the buffer with two producers and two consumers, as in main().  A     *)
(* behaviour runs one of the two programs.                                   *)
EXTENDS ChatServer, BoundedBuffer, TLC

CONSTANTS c1, c2, c3, hello, clem, p1, p2, r1, r2, x, y

MCClients == {c1, c2, c3}
MCSpeech == {hello}
MCName == {clem}
MCMaxSent == (c1 :> 2) @@ (c2 :> 0) @@ (c3 :> 0)

MCProducers == {p1, p2}
MCConsumers == {r1, r2}
MCItems == {x, y}

Symmetry == UNION {Permutations(S) : S \in {{c2, c3}, MCProducers, MCConsumers, MCItems}}

VARIABLE program

MCInit == ChatInit /\ Init /\ program \in {"chat", "buffer"}

MCNext ==
  /\ UNCHANGED program
  /\ \/ program = "chat" /\ ChatNext /\ UNCHANGED vars
     \/ program = "buffer" /\ Next /\ UNCHANGED chatVars

MCSpec == MCInit /\ [][MCNext]_<<chatVars, vars, program>>
=============================================================================
