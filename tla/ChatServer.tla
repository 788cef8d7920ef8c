----------------------------- MODULE ChatServer -----------------------------
(***************************************************************************)
(* The chat server chatservr.c: one process that serves all its users in a *)
(* loop around select().  A round of the loop asks select() which sockets  *)
(* are readable, accepts at most one new connection, then walks the table  *)
(* of chatters and reads once from each readable socket it comes to.  The  *)
(* table shrinks under the walk when a chatter turns out to have left.     *)
(*                                                                         *)
(* External: the users and TCP.  Each write of a user arrives whole; a     *)
(* read returns one or more of the writes that arrived.  After a user      *)
(* closed its end, the server's end may be reset once something was        *)
(* written to it, and a write to a reset socket raises SIGPIPE, for which  *)
(* the server has no handler.                                              *)
(***************************************************************************)
EXTENDS Integers, Sequences, FiniteSets

CONSTANTS Clients,      \* the users
          MAX_CHATS,    \* size of the tables
          Backlog,      \* connections listen() keeps waiting
          Speech, Name,   \* what a user may write: some talk, or -name=...
          MaxSent,      \* bound: how many writes each user makes in all
          NoClient

ASSUME ChatSizeAssumption == MAX_CHATS \in Nat \ {0} /\ Backlog \in Nat
                         /\ MaxSent \in [Clients -> Nat]
ASSUME UserAssumption == IsFiniteSet(Clients)
ASSUME ClientAssumption == NoClient \notin Clients /\ Speech \cap Name = {}

Messages == Speech \cup Name
AcceptFd == 0
Fds == 1 .. MAX_CHATS + 1

VARIABLES client,      \* each user: "out", "in" once connect() returned, "left"
          inbox,       \* what each user wrote and the server has not read
          sent,        \* how often each user has written
          reset,       \* the users whose socket is reset
          heard,       \* what the server wrote to each user
          waiting,     \* the listen queue
          owner,       \* the user behind each file descriptor, or NoClient
          fd_chats,    \* the table of chatters' descriptors
          name_chats,  \* the table of their names
          stage,       \* where the loop stands
          fdCheck,     \* the descriptors select() reported readable
          i,           \* index of the walk over the table
          alive        \* FALSE once SIGPIPE killed the server

users == <<client, inbox, sent, reset, heard, waiting>>
tables == <<owner, fd_chats, name_chats>>
loop == <<stage, fdCheck, i>>
chatVars == <<users, tables, loop, alive>>

numChats == Len(fd_chats)
Unknown(n) == [unknown |-> n]
Called(text) == [called |-> text]

ChatInit ==
  /\ client = [c \in Clients |-> "out"]
  /\ inbox = [c \in Clients |-> << >>]
  /\ sent = [c \in Clients |-> 0]
  /\ reset = {}
  /\ heard = [c \in Clients |-> << >>]
  /\ waiting = << >>
  /\ owner = [f \in Fds |-> NoClient]
  /\ fd_chats = << >>
  /\ name_chats = << >>
  /\ stage = "select"
  /\ fdCheck = {}
  /\ i = 1
  /\ alive = TRUE

-----------------------------------------------------------------------------
(* External: the users and TCP *)

Connect(c) ==
  /\ alive /\ client[c] = "out" /\ Len(waiting) < Backlog
  /\ client' = [client EXCEPT ![c] = "in"]
  /\ waiting' = Append(waiting, c)
  /\ heard' = [heard EXCEPT ![c] = << >>]
  /\ UNCHANGED <<inbox, sent, reset, tables, loop, alive>>

Send(c, m) ==
  /\ client[c] = "in" /\ sent[c] < MaxSent[c]
  /\ inbox' = [inbox EXCEPT ![c] = Append(@, m)]
  /\ sent' = [sent EXCEPT ![c] = @ + 1]
  /\ UNCHANGED <<client, reset, heard, waiting, tables, loop, alive>>

Quit(c) ==
  /\ client[c] = "in"
  /\ client' = [client EXCEPT ![c] = "left"]
  /\ UNCHANGED <<inbox, sent, reset, heard, waiting, tables, loop, alive>>

ResetArrives(c) ==
  /\ client[c] = "left" /\ c \notin reset /\ heard[c] # << >>
  /\ reset' = reset \cup {c}
  /\ UNCHANGED <<client, inbox, sent, heard, waiting, tables, loop, alive>>

(* The connection of user c is gone on both ends. *)
Hangup(c) ==
  /\ client' = [client EXCEPT ![c] = "out"]
  /\ inbox' = [inbox EXCEPT ![c] = << >>]
  /\ reset' = reset \ {c}

-----------------------------------------------------------------------------
(* chatLoop(): the mask, select() *)

HasInput(c) == inbox[c] # << >> \/ client[c] = "left"

(* Mutant: the last chatter is left out of the mask. *)
SelectMissesLast ==
  /\ alive /\ stage = "select"
  /\ fdCheck' = {AcceptFd : w \in DOMAIN waiting}
                  \cup {fd_chats[k] : k \in {j \in 1 .. numChats - 1 : HasInput(owner[fd_chats[j]])}}
  /\ fdCheck' # {}
  /\ stage' = "accept"
  /\ UNCHANGED <<users, tables, i, alive>>

Select ==
  /\ alive /\ stage = "select"
  /\ fdCheck' = {AcceptFd : w \in DOMAIN waiting}
                  \cup {fd_chats[k] : k \in {j \in 1 .. numChats : HasInput(owner[fd_chats[j]])}}
  /\ fdCheck' # {}
  /\ stage' = "accept"
  /\ UNCHANGED <<users, tables, i, alive>>

(* chatLoop(): the pending connection, with addChatter().  accept() returns   *)
(* the lowest free descriptor.                                                *)

FreeFd == CHOOSE f \in Fds : /\ owner[f] = NoClient
                             /\ \A g \in Fds : owner[g] = NoClient => f <= g

addChatter(c) ==
  /\ name_chats' = Append(name_chats, Unknown(numChats))
  /\ heard' = [heard EXCEPT ![c] = Append(@, [welcome |-> name_chats])]
  /\ fd_chats' = Append(fd_chats, FreeFd)
  /\ owner' = [owner EXCEPT ![FreeFd] = c]

(* Mutant: off by one, one chatter too many is let in. *)
AcceptTooMany ==
  /\ alive /\ stage = "accept" /\ AcceptFd \in fdCheck
  /\ numChats <= MAX_CHATS
  /\ addChatter(Head(waiting))
  /\ waiting' = Tail(waiting)
  /\ stage' = "walk"
  /\ i' = 1
  /\ UNCHANGED <<client, inbox, reset, sent, fdCheck, alive>>

Accept ==
  /\ alive /\ stage = "accept" /\ AcceptFd \in fdCheck
  /\ LET c == Head(waiting)
     IN IF numChats >= MAX_CHATS
          THEN /\ heard' = [heard EXCEPT ![c] = Append(@, [sorry |-> TRUE])]
               /\ Hangup(c)
               /\ UNCHANGED tables
          ELSE /\ addChatter(c)
               /\ UNCHANGED <<client, inbox, reset>>
  /\ waiting' = Tail(waiting)
  /\ stage' = "walk"
  /\ i' = 1
  /\ UNCHANGED <<sent, fdCheck, alive>>

(* accept() fails when the user gave up first; the round is over *)
AcceptFails ==
  /\ alive /\ stage = "accept" /\ AcceptFd \in fdCheck
  /\ client[Head(waiting)] = "left"
  /\ Hangup(Head(waiting))
  /\ waiting' = Tail(waiting)
  /\ stage' = "select"
  /\ fdCheck' = {}
  /\ UNCHANGED <<sent, heard, tables, i, alive>>

NoAccept ==
  /\ alive /\ stage = "accept" /\ AcceptFd \notin fdCheck
  /\ stage' = "walk"
  /\ i' = 1
  /\ UNCHANGED <<users, tables, fdCheck, alive>>

-----------------------------------------------------------------------------
(* chatLoop(): the walk over the table *)

Due(k) == k <= numChats /\ fd_chats[k] \in fdCheck
Chatter(k) == owner[fd_chats[k]]

(* processChat(): a -name= at the start of what was read renames the chatter, *)
(* anything that was read with it becomes part of the name.                   *)
Rename(k, text) ==
  /\ name_chats' = [name_chats EXCEPT ![k] = Called(text)]
  /\ UNCHANGED <<heard, alive>>

(* processChat(): one write per chatter, up to the first that is reset *)
Broadcast(k, text) ==
  LET Broken == {j \in 1 .. numChats : Chatter(j) \in reset}
      Reached(j) == \A b \in Broken : j < b
  IN /\ heard' = [c \in Clients |->
                    IF \E j \in 1 .. numChats : Chatter(j) = c /\ Reached(j)
                      THEN Append(heard[c], [from |-> name_chats[k], text |-> text])
                      ELSE heard[c]]
     /\ alive' = (Broken = {})
     /\ UNCHANGED name_chats

(* Mutant: the walk stays on the row it has read. *)
ReadStays ==
  /\ alive /\ stage = "walk" /\ Due(i)
  /\ LET c == Chatter(i)
     IN \E n \in 1 .. Len(inbox[c]) :
          LET text == SubSeq(inbox[c], 1, n)
          IN /\ inbox' = [inbox EXCEPT ![c] = SubSeq(@, n + 1, Len(@))]
             /\ IF Head(text) \in Name THEN Rename(i, text) ELSE Broadcast(i, text)
  /\ UNCHANGED <<client, sent, reset, waiting, owner, fd_chats, stage, fdCheck, i>>

Read ==
  /\ alive /\ stage = "walk" /\ Due(i)
  /\ LET c == Chatter(i)
     IN \E n \in 1 .. Len(inbox[c]) :
          LET text == SubSeq(inbox[c], 1, n)
          IN /\ inbox' = [inbox EXCEPT ![c] = SubSeq(@, n + 1, Len(@))]
             /\ IF Head(text) \in Name THEN Rename(i, text) ELSE Broadcast(i, text)
  /\ i' = i + 1
  /\ UNCHANGED <<client, sent, reset, waiting, owner, fd_chats, stage, fdCheck>>

(* remove_chatter() *)
(* Mutant: the rows after the removed one are not moved up. *)
NotCompressed(s, k) == SubSeq(s, 1, Len(s) - 1)

Compressed(s, k) == [j \in 1 .. Len(s) - 1 |-> IF j < k THEN s[j] ELSE s[j + 1]]

(* Mutant: the names are not moved up with the descriptors. *)
remove_chatterKeepsNames(k) ==
  /\ fd_chats' = Compressed(fd_chats, k)
  /\ name_chats' = SubSeq(name_chats, 1, numChats - 1)
  /\ owner' = [owner EXCEPT ![fd_chats[k]] = NoClient]

(* Mutant: the descriptor is not closed. *)
remove_chatterLeaks(k) ==
  /\ fd_chats' = Compressed(fd_chats, k)
  /\ name_chats' = Compressed(name_chats, k)
  /\ UNCHANGED owner

remove_chatter(k) ==
  /\ fd_chats' = Compressed(fd_chats, k)
  /\ name_chats' = Compressed(name_chats, k)
  /\ owner' = [owner EXCEPT ![fd_chats[k]] = NoClient]

(* Mutant: the end of a connection is ignored. *)
ReadEndIgnored ==
  /\ alive /\ stage = "walk" /\ Due(i)
  /\ inbox[Chatter(i)] = << >> /\ client[Chatter(i)] = "left"
  /\ i' = i + 1
  /\ UNCHANGED <<users, tables, stage, fdCheck, alive>>

ReadEnd ==
  /\ alive /\ stage = "walk" /\ Due(i)
  /\ inbox[Chatter(i)] = << >> /\ client[Chatter(i)] = "left"
  /\ remove_chatter(i)
  /\ Hangup(Chatter(i))
  /\ i' = i + 1
  /\ UNCHANGED <<sent, heard, waiting, stage, fdCheck, alive>>

Skip ==
  /\ alive /\ stage = "walk" /\ i <= numChats /\ ~Due(i)
  /\ i' = i + 1
  /\ UNCHANGED <<users, tables, stage, fdCheck, alive>>

RoundEnds ==
  /\ alive /\ stage = "walk" /\ i > numChats
  /\ stage' = "select"
  /\ fdCheck' = {}
  /\ i' = 1
  /\ UNCHANGED <<users, tables, alive>>

-----------------------------------------------------------------------------
Server == Select \/ Accept \/ AcceptFails \/ NoAccept \/ Read \/ ReadEnd \/ Skip \/ RoundEnds

User(c) == Connect(c) \/ (\E m \in Messages : Send(c, m)) \/ Quit(c) \/ ResetArrives(c)

ChatNext == Server \/ \E c \in Clients : User(c)

ChatSpec == ChatInit /\ [][ChatNext]_chatVars

(* The server runs whenever select() has something for it, and accept() does *)
(* not fail every time it is called: a failing accept() ends the round, so   *)
(* one that failed for ever would keep the server from ever reading.         *)
(* Nothing is assumed of the users.                                          *)
ChatFairness == WF_chatVars(Server) /\ SF_chatVars(Accept)
ChatFairSpec == ChatSpec /\ ChatFairness

-----------------------------------------------------------------------------
MaxOfAll == LET Caps == {MaxSent[c] : c \in Clients} IN CHOOSE n \in Caps : \A m \in Caps : m <= n

(* Every variable holds a value of its kind. *)
Chunks == UNION {[1 .. n -> Messages] : n \in 1 .. MaxOfAll}
Names == {Unknown(n) : n \in 0 .. MAX_CHATS - 1} \cup {Called(t) : t \in Chunks}
ChatTypeOK ==
  /\ client \in [Clients -> {"out", "in", "left"}]
  /\ \A c \in Clients : inbox[c] \in Chunks \cup {<< >>}
  /\ \A c \in Clients : sent[c] \in 0 .. MaxSent[c]
  /\ reset \subseteq Clients
  /\ DOMAIN heard = Clients
  /\ Len(waiting) <= Backlog /\ \A k \in DOMAIN waiting : waiting[k] \in Clients
  /\ owner \in [Fds -> Clients \cup {NoClient}]
  /\ numChats <= MAX_CHATS /\ \A k \in 1 .. numChats : fd_chats[k] \in Fds
  /\ Len(name_chats) = numChats /\ \A k \in 1 .. numChats : name_chats[k] \in Names
  /\ stage \in {"select", "accept", "walk"}
  /\ fdCheck \subseteq Fds \cup {AcceptFd}
  /\ i \in 1 .. MAX_CHATS + 1
  /\ alive \in BOOLEAN

(* The table holds each open descriptor exactly once: none is leaked, closed  *)
(* while it is in the table, or entered twice, whatever the order of          *)
(* arrivals and departures.                                                   *)
TableHoldsOpenFds ==
  /\ \A j, k \in 1 .. numChats : fd_chats[j] = fd_chats[k] => j = k
  /\ {f \in Fds : owner[f] # NoClient} = {fd_chats[k] : k \in 1 .. numChats}

(* Each connection has one place, in the listen queue or behind one open      *)
(* descriptor, from connect() until both ends are closed.                     *)
Queued(c) == \E k \in 1 .. Len(waiting) : waiting[k] = c
Accepted(c) == \E f \in Fds : owner[f] = c
OnePlaceEach ==
  /\ \A j, k \in 1 .. Len(waiting) : waiting[j] = waiting[k] => j = k
  /\ \A f, g \in Fds : owner[f] = owner[g] /\ owner[f] # NoClient => f = g
  /\ \A c \in Clients : /\ Queued(c) \/ Accepted(c) <=> client[c] # "out"
                        /\ ~(Queued(c) /\ Accepted(c))

(* What select() reported still holds when the walk gets there, although the  *)
(* table moved and a connection was added since: the read() the server makes  *)
(* finds input or the end of the connection, so it never blocks the server.   *)
NoBlockingRead == alive /\ stage = "walk" /\ Due(i) => HasInput(Chatter(i))

(* A user's write is read, and a user that left is removed, however the       *)
(* others behave and although the walk skips the successor of a removed       *)
(* chatter - unless SIGPIPE kills the server.                                 *)
EveryWriteRead == \A c \in Clients : inbox[c] # << >> ~> inbox[c] = << >> \/ ~alive
EveryLeaverRemoved == \A c \in Clients : client[c] = "left" ~> client[c] = "out" \/ ~alive

-----------------------------------------------------------------------------
(* The room the server implements. *)
Room == INSTANCE ChatRoom WITH
  People <- Clients,
  Capacity <- MAX_CHATS,
  Sayings <- {t \in Chunks : Head(t) \in Speech},
  Renamings <- {Called(t) : t \in {u \in Chunks : Head(u) \in Name}},
  Default <- Unknown,
  members <- [k \in 1 .. numChats |-> Chatter(k)],
  named <- name_chats,
  open <- alive

(* Chatters are greeted, heard and named as the room promises, each message   *)
(* under its sender's name and by exactly those present.                      *)
ImplementsRoom == Room!ASpec

(* The table and the connections correspond, each connection in one place.   *)
TableRight == TableHoldsOpenFds /\ OnePlaceEach

(* Whatever is written is read, and whoever leaves is removed.               *)
ChattersServed == EveryWriteRead /\ EveryLeaverRemoved
=============================================================================
