----------------------------- MODULE MCServers -----------------------------
(* The logging chat server, the UDP chat server, the welcome server and the *)
(* producer/consumer buffer, each by itself: a behaviour runs one of these  *)
(* programs and leaves the others in their initial states.                  *)
EXTENDS SelectServer, UdpChat, WelcomeServer, BoundedBuffer, TLC

CONSTANTS u1, u2, u3, h1, h2, k1, k2, p1, p2, r1, r2, x

MCUsers == {u1, u2, u3}
MCMay == ("type" :> {u1}) @@ ("end" :> {u1, u2}) @@ ("die" :> {u1})
MCTalkers == {[host |-> h1, port |-> 1], [host |-> h1, port |-> 2],
              [host |-> h2, port |-> 1], [host |-> h2, port |-> 2]}
MCLines == [t \in MCTalkers |-> IF t.host = h1 /\ t.port = 1 THEN 1 ELSE 0]
MCCallers == {k1, k2}
MCProducers == {p1, p2}
MCConsumers == {r1, r2}
MCItems == {x}

VARIABLE program
allVars == <<selVars, udpVars, welVars, vars, program>>

MCInit ==
  /\ SelInit /\ UdpInit /\ WelInit /\ Init
  /\ program \in {"select", "udp", "welcome", "buffer"}

MCNext ==
  /\ UNCHANGED program
  /\ \/ program = "select" /\ SelNext /\ UNCHANGED <<udpVars, welVars, vars>>
     \/ program = "udp" /\ UdpNext /\ UNCHANGED <<selVars, welVars, vars>>
     \/ program = "welcome" /\ WelNext /\ UNCHANGED <<selVars, udpVars, vars>>
     \/ program = "buffer" /\ Next /\ UNCHANGED <<selVars, udpVars, welVars>>

Buffer(A) == program = "buffer" /\ A /\ UNCHANGED <<selVars, udpVars, welVars, program>>

(* A server that does not run has nothing to do, so its fairness asks      *)
(* nothing; the threads of the buffer are fair only where they run.        *)
MCSpec ==
  /\ MCInit /\ [][MCNext]_allVars
  /\ SelFairness /\ WelFairness
  /\ \A t \in Threads : WF_allVars(Buffer(Create(t))) /\ WF_allVars(Buffer(Locking(t)))
  /\ \A p \in Producers : WF_allVars(Buffer(Producing(p)))
  /\ \A c \in Consumers : WF_allVars(Buffer(Consuming(c)))

(* While the buffer's program runs, and until main exits, its threads       *)
(* insert and remove for ever.                                              *)
BufferNeverStalls == program = "buffer" => AlwaysInserting /\ AlwaysRemoving
=============================================================================
