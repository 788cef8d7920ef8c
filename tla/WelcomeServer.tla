--------------------------- MODULE WelcomeServer ---------------------------
(***************************************************************************)
(* The welcome server of the first assignment, server.c, and its client,   *)
(* client.c.  The parent accepts a connection, forks a child for it and    *)
(* closes its own descriptor; the child sends one greeting, closes and     *)
(* exits.  Nobody waits for the children: each stays a zombie and takes up *)
(* a place in the process table.  fork() returns -1 once it is full, which *)
(* the code takes for the parent's branch.                                 *)
(*                                                                         *)
(* External: TCP.  A client sees the end of its connection once no process *)
(* holds the server's end, after everything that was sent.                 *)
(***************************************************************************)
EXTENDS Integers, Sequences, FiniteSets

CONSTANTS Callers, NoCaller,
          BACKLOG,      \* connections listen() keeps waiting
          ProcTable     \* processes the server may have beside itself

ASSUME WelcomeServerAssumption ==
  NoCaller \notin Callers /\ BACKLOG \in Nat /\ ProcTable \in Nat

VARIABLES caller,    \* each client: "idle", "connected", "greeted", "unanswered"
          pending,   \* the listen queue
          new_fd,    \* the connection the parent has accepted, or NoCaller
          forked,    \* the parent has forked for it
          child,     \* the children: "run", "sent", "closed", "zombie" by connection
          refused    \* the connections fork() failed for

welVars == <<caller, pending, new_fd, forked, child, refused>>

WelInit ==
  /\ caller = [c \in Callers |-> "idle"]
  /\ pending = << >>
  /\ new_fd = NoCaller /\ forked = FALSE
  /\ child = [c \in {} |-> "run"]
  /\ refused = {}

-----------------------------------------------------------------------------
(* The client: connect(), one recv(), close() *)

Dial(c) ==
  /\ caller[c] = "idle" /\ Len(pending) < BACKLOG
  /\ caller' = [caller EXCEPT ![c] = "connected"]
  /\ pending' = Append(pending, c)
  /\ UNCHANGED <<new_fd, forked, child, refused>>

HasChild(c) == c \in DOMAIN child
WasSentTo(c) == HasChild(c) /\ child[c] # "run"
HoldsChild(c) == HasChild(c) /\ child[c] \in {"run", "sent"}
InQueue(c) == \E k \in DOMAIN pending : pending[k] = c
ServerHolds(c) == InQueue(c) \/ new_fd = c \/ HoldsChild(c)

Recv(c) ==
  /\ caller[c] = "connected"
  /\ \/ WasSentTo(c) /\ caller' = [caller EXCEPT ![c] = "greeted"]
     \/ /\ ~WasSentTo(c) /\ ~ServerHolds(c)
        /\ caller' = [caller EXCEPT ![c] = "unanswered"]
  /\ UNCHANGED <<pending, new_fd, forked, child, refused>>

-----------------------------------------------------------------------------
(* The parent: accept(), fork(), close(new_fd) *)

AcceptCaller ==
  /\ new_fd = NoCaller /\ pending # << >>
  /\ new_fd' = Head(pending) /\ pending' = Tail(pending)
  /\ UNCHANGED <<caller, forked, child, refused>>

(* Mutant: a fork() that fails is not noticed until there is a child. *)
ForkUntilItWorks ==
  /\ new_fd # NoCaller /\ ~forked
  /\ Cardinality(DOMAIN child) < ProcTable
  /\ child' = [c \in DOMAIN child \cup {new_fd} |-> IF HasChild(c) THEN child[c] ELSE "run"]
  /\ forked' = TRUE /\ refused' = refused
  /\ UNCHANGED <<caller, pending, new_fd>>

(* Mutant: the loop goes on to fork after accept() failed. *)
ForkWithoutCaller ==
  /\ ~forked /\ Cardinality(DOMAIN child) < ProcTable
  /\ child' = [c \in DOMAIN child \cup {new_fd} |-> IF HasChild(c) THEN child[c] ELSE "run"]
  /\ forked' = TRUE /\ refused' = refused
  /\ UNCHANGED <<caller, pending, new_fd>>

Fork ==
  /\ new_fd # NoCaller /\ ~forked
  /\ IF Cardinality(DOMAIN child) < ProcTable
     THEN /\ child' = [c \in DOMAIN child \cup {new_fd} |-> IF HasChild(c) THEN child[c] ELSE "run"]
          /\ refused' = refused
     ELSE child' = child /\ refused' = refused \cup {new_fd}
  /\ forked' = TRUE
  /\ UNCHANGED <<caller, pending, new_fd>>

(* Mutant: the parent closes before it forks. *)
CloseEarly ==
  /\ new_fd # NoCaller
  /\ new_fd' = NoCaller /\ forked' = FALSE
  /\ UNCHANGED <<caller, pending, child, refused>>

CloseNewFd ==
  /\ new_fd # NoCaller /\ forked
  /\ new_fd' = NoCaller /\ forked' = FALSE
  /\ UNCHANGED <<caller, pending, child, refused>>

(* A child: send(), close(), exit(). *)
After == [state \in {"run", "sent", "closed"} |->
            CASE state = "run" -> "sent" [] state = "sent" -> "closed" [] OTHER -> "zombie"]

ChildStep(c) ==
  /\ HasChild(c) /\ child[c] # "zombie"
  /\ child' = [child EXCEPT ![c] = After[@]]
  /\ UNCHANGED <<caller, pending, new_fd, forked, refused>>

-----------------------------------------------------------------------------
WelParent == AcceptCaller \/ Fork \/ CloseNewFd
WelNext == \/ \E c \in Callers : Dial(c) \/ Recv(c) \/ ChildStep(c)
           \/ WelParent

(* The parent, the children and recv() run whenever they can. *)
WelFairness == /\ WF_welVars(WelParent)
               /\ \A c \in Callers : WF_welVars(ChildStep(c)) /\ WF_welVars(Recv(c))

WelSpec == WelInit /\ [][WelNext]_welVars
WelFairSpec == WelSpec /\ WelFairness

-----------------------------------------------------------------------------
(* Properties *)

(* The types of the variables. *)
WelTypeOK ==
  /\ caller \in [Callers -> {"idle", "connected", "greeted", "unanswered"}]
  /\ pending \in Seq(Callers)
  /\ new_fd \in Callers \cup {NoCaller} /\ forked \in BOOLEAN
  /\ DOMAIN child \subseteq Callers
  /\ \A c \in DOMAIN child : child[c] \in {"run", "sent", "closed", "zombie"}
  /\ refused \subseteq Callers

(* server.c:176-205: only a client for which there was no process left finds *)
(* its connection closed without the greeting, whichever of parent and child *)
(* closes its descriptor first.                                              *)
UnansweredOnlyIfRefused == \A c \in Callers : caller[c] = "unanswered" => c \in refused

(* server.c:148-209: the server does not hang on one client: everybody who   *)
(* connected is greeted or finds the connection closed.                      *)
EveryCallerAnswered ==
  \A c \in Callers : caller[c] = "connected" ~> caller[c] \in {"greeted", "unanswered"}
=============================================================================
