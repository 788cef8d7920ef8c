-------------------------- MODULE ChatServerProofs --------------------------
(***************************************************************************)
(* The tables of chatservr.c stay in order, and no read() blocks the       *)
(* server, for any number of users, any MAX_CHATS and any behaviour of the *)
(* users.  The walk reads from descriptors that select() reported some     *)
(* steps ago, from a table that has grown and shrunk since: the invariant  *)
(* says what still holds of the part of the table the walk has not reached.*)
(***************************************************************************)
EXTENDS ChatServer, FiniteSetTheorems, SequenceTheorems,
        WellFoundedInduction, TLAPS

(* The part of the types the argument needs. *)
TypeInv ==
  /\ client \in [Clients -> {"out", "in", "left"}]
  /\ inbox \in [Clients -> Seq(Messages)]
  /\ waiting \in Seq(Clients)
  /\ owner \in [Fds -> Clients \cup {NoClient}]
  /\ fd_chats \in Seq(Fds)
  /\ stage \in {"select", "accept", "walk"}
  /\ fdCheck \subseteq Fds \cup {AcceptFd}
  /\ i \in Nat \ {0}
  /\ numChats <= MAX_CHATS

(* What select() reported and the server has not used up yet is still true:   *)
(* all of it before the accept, the rows from i on during the walk.           *)
StillReadable ==
  /\ stage = "accept" => /\ AcceptFd \in fdCheck => waiting # << >>
                         /\ \A f \in Fds : f \in fdCheck => owner[f] # NoClient
                         /\ \A k \in 1 .. numChats : Due(k) => HasInput(Chatter(k))
  /\ stage = "walk" => \A k \in 1 .. numChats : k >= i /\ Due(k) => HasInput(Chatter(k))

IInv == TypeInv /\ TableHoldsOpenFds /\ OnePlaceEach /\ StillReadable

-----------------------------------------------------------------------------
LEMMA ConstFacts ==
  /\ MAX_CHATS \in Nat /\ MAX_CHATS > 0 /\ NoClient \notin Clients /\ AcceptFd \notin Fds
  /\ IsFiniteSet(Fds) /\ Cardinality(Fds) = MAX_CHATS + 1
<1>1. MAX_CHATS \in Nat /\ MAX_CHATS > 0 /\ NoClient \notin Clients
  BY ChatSizeAssumption, ClientAssumption
<1>2. 1 \in Int /\ MAX_CHATS + 1 \in Int
  BY <1>1
<1>3. /\ IsFiniteSet(1 .. MAX_CHATS + 1)
      /\ Cardinality(1 .. MAX_CHATS + 1)
           = IF 1 > MAX_CHATS + 1 THEN 0 ELSE (MAX_CHATS + 1) - 1 + 1
  BY <1>2, FS_Interval
<1> QED
  BY <1>1, <1>3 DEF Fds, AcceptFd

(* A set of natural numbers has a smallest element. *)
LEMMA Smallest ==
  ASSUME NEW S \in SUBSET Nat, S # {}
  PROVE  \E n \in S : \A m \in S : n <= m
<1>1. IsWellFoundedOn(OpToRel(<, Nat), Nat)
  BY NatLessThanWellFounded
<1>2. \E n \in S : \A m \in S : ~(<<m, n>> \in OpToRel(<, Nat))
  BY <1>1, WFMin
<1>3. PICK n \in S : \A m \in S : ~(<<m, n>> \in OpToRel(<, Nat))
  BY <1>2
<1>4. \A m \in S : ~(m < n)
  BY <1>3 DEF OpToRel
<1> QED
  BY <1>4

(* The table has one row less than there are descriptors: accept() finds one. *)
LEMMA FreeFdExists ==
  ASSUME TypeInv, TableHoldsOpenFds
  PROVE  FreeFd \in Fds /\ owner[FreeFd] = NoClient
<1>1. \E f \in Fds : owner[f] = NoClient
  <2> SUFFICES ASSUME \A f \in Fds : owner[f] # NoClient
               PROVE  FALSE
    OBVIOUS
  <2>1. fd_chats \in [1 .. numChats -> Fds]
    BY LenProperties DEF TypeInv, numChats
  <2>2. \A f \in Fds : \E k \in 1 .. numChats : fd_chats[k] = f
    BY DEF TableHoldsOpenFds
  <2>3. fd_chats \in Surjection(1 .. numChats, Fds)
    BY <2>1, <2>2 DEF Surjection
  <2>4. numChats \in Nat /\ numChats <= MAX_CHATS
    BY LenProperties DEF TypeInv, numChats
  <2>5. Cardinality(Fds) <= numChats
    BY <2>3, <2>4, FS_SurjCardinalityBound DEF ExistsSurjection
  <2> QED
    BY <2>4, <2>5, ConstFacts
<1>2. \E f \in Fds : /\ owner[f] = NoClient
                     /\ \A g \in Fds : owner[g] = NoClient => f <= g
  <2> DEFINE Unused == {f \in Fds : owner[f] = NoClient}
  <2>1. Unused \in SUBSET Nat /\ Unused # {}
    BY <1>1, ConstFacts DEF Fds
  <2>2. \E f \in Unused : \A g \in Unused : f <= g
    <3> HIDE DEF Unused
    <3> QED
      BY <2>1, Smallest
  <2> QED
    BY <2>2
<1> QED
  BY <1>2 DEF FreeFd

(* What remove_chatter leaves of a table. *)
LEMMA CompressedTable ==
  ASSUME NEW S, NEW s \in Seq(S), NEW k \in 1 .. Len(s)
  PROVE  /\ Compressed(s, k) \in Seq(S)
         /\ Len(Compressed(s, k)) = Len(s) - 1
         /\ \A j \in 1 .. Len(s) - 1 :
              Compressed(s, k)[j] = IF j < k THEN s[j] ELSE s[j + 1]
<1> DEFINE t == Compressed(s, k)
           n == Len(s) - 1
<1>1. Len(s) \in Nat /\ n \in Nat /\ \A j \in 1 .. Len(s) : s[j] \in S
  BY LenProperties, ElementOfSeq
<1>2. t \in [1 .. n -> S]
  BY <1>1 DEF Compressed
<1>3. t \in Seq(S)
  BY <1>1, <1>2, SeqDef
<1>4. DOMAIN t = 1 .. Len(t) /\ Len(t) \in Nat
  BY <1>3, LenProperties
<1>5. Len(t) = n
  BY <1>1, <1>2, <1>4
<1>6. \A j \in 1 .. n : t[j] = IF j < k THEN s[j] ELSE s[j + 1]
  BY DEF Compressed
<1> QED
  BY <1>3, <1>5, <1>6
(* The rows of the table are different connections. *)
LEMMA Rows ==
  ASSUME IInv
  PROVE  /\ numChats \in Nat
         /\ \A k \in 1 .. numChats : fd_chats[k] \in Fds /\ Chatter(k) \in Clients
         /\ \A j, k \in 1 .. numChats : Chatter(j) = Chatter(k) => j = k
         /\ \A k \in 1 .. numChats : client[Chatter(k)] # "out"
<1>1. numChats \in Nat /\ \A k \in 1 .. numChats : fd_chats[k] \in Fds
  BY LenProperties, ElementOfSeq DEF IInv, TypeInv, numChats
<1>2. \A k \in 1 .. numChats : owner[fd_chats[k]] # NoClient
  BY <1>1 DEF IInv, TableHoldsOpenFds
<1>3. \A k \in 1 .. numChats : Chatter(k) \in Clients
  BY <1>1, <1>2 DEF IInv, TypeInv, Chatter
<1>4. \A j, k \in 1 .. numChats : Chatter(j) = Chatter(k) => j = k
  BY <1>1, <1>2 DEF IInv, OnePlaceEach, TableHoldsOpenFds, Chatter
<1>5. \A k \in 1 .. numChats : client[Chatter(k)] # "out"
  BY <1>1, <1>3 DEF IInv, OnePlaceEach, Accepted, Chatter
<1> QED
  BY <1>1, <1>3, <1>4, <1>5

(* The head of the listen queue leaves it. *)
LEMMA Dequeue ==
  ASSUME IInv, waiting # << >>, waiting' = Tail(waiting)
  PROVE  /\ Head(waiting) \in Clients /\ waiting' \in Seq(Clients)
         /\ \A j, k \in 1 .. Len(waiting') : waiting'[j] = waiting'[k] => j = k
         /\ \A c \in Clients : Queued(c)' <=> Queued(c) /\ c # Head(waiting)
         /\ Queued(Head(waiting)) /\ ~Accepted(Head(waiting)) /\ client[Head(waiting)] # "out"
<1>1. waiting \in Seq(Clients) /\ \A j, k \in 1 .. Len(waiting) : waiting[j] = waiting[k] => j = k
  BY DEF IInv, TypeInv, OnePlaceEach
<1>2. /\ Len(waiting) \in Nat \ {0} /\ Head(waiting) = waiting[1]
      /\ Head(waiting) \in Clients /\ waiting' \in Seq(Clients)
      /\ Len(waiting') = Len(waiting) - 1
      /\ \A k \in 1 .. Len(waiting') : waiting'[k] = waiting[k + 1]
  BY <1>1, HeadTailProperties, EmptySeq
<1>3. \A j, k \in 1 .. Len(waiting') : waiting'[j] = waiting'[k] => j = k
  BY <1>1, <1>2
<1>4. \A c \in Clients : Queued(c)' <=> Queued(c) /\ c # Head(waiting)
  <2> SUFFICES ASSUME NEW c \in Clients
               PROVE  Queued(c)' <=> Queued(c) /\ c # Head(waiting)
    OBVIOUS
  <2>1. ASSUME Queued(c)' PROVE Queued(c) /\ c # Head(waiting)
    <3>1. PICK k \in 1 .. Len(waiting') : waiting'[k] = c
      BY <2>1 DEF Queued
    <3>2. k + 1 \in 1 .. Len(waiting) /\ waiting[k + 1] = c /\ k + 1 # 1
      BY <1>2, <3>1
    <3> QED
      BY <1>1, <1>2, <3>2 DEF Queued
  <2>2. ASSUME Queued(c), c # Head(waiting) PROVE Queued(c)'
    <3>1. PICK k \in 1 .. Len(waiting) : waiting[k] = c
      BY <2>2 DEF Queued
    <3>2. k - 1 \in 1 .. Len(waiting') /\ waiting'[k - 1] = c
      BY <1>2, <2>2, <3>1
    <3> QED
      BY <3>2 DEF Queued
  <2> QED
    BY <2>1, <2>2
<1>5. Queued(Head(waiting))
  BY <1>2 DEF Queued
<1>6. ~Accepted(Head(waiting)) /\ client[Head(waiting)] # "out"
  BY <1>2, <1>5 DEF IInv, OnePlaceEach
<1> QED
  BY <1>2, <1>3, <1>4, <1>5, <1>6

(* What depends on the tables and the queue only stays when they do. *)
LEMMA Frame ==
  /\ TableHoldsOpenFds /\ UNCHANGED <<owner, fd_chats>> => TableHoldsOpenFds'
  /\ \A c : UNCHANGED owner => (Accepted(c)' <=> Accepted(c))
  /\ \A c : UNCHANGED waiting => (Queued(c)' <=> Queued(c))
BY DEF TableHoldsOpenFds, numChats, Accepted, Queued

(* Steps of the users. *)
LEMMA UserSteps ==
  ASSUME IInv, NEW c \in Clients, User(c)
  PROVE  IInv'
<1> USE DEF IInv
<1>r. /\ numChats \in Nat
      /\ \A k \in 1 .. numChats : fd_chats[k] \in Fds /\ Chatter(k) \in Clients
      /\ \A k \in 1 .. numChats : client[Chatter(k)] # "out"
  BY Rows
<1>1. CASE Connect(c)
  <2>1. /\ waiting' \in Seq(Clients) /\ waiting' # << >>
        /\ Len(waiting) \in Nat /\ Len(waiting') = Len(waiting) + 1
        /\ \A k \in 1 .. Len(waiting) : waiting'[k] = waiting[k]
        /\ waiting'[Len(waiting) + 1] = c
    BY <1>1, AppendProperties, LenProperties DEF Connect, TypeInv
  <2>2. TypeInv' /\ TableHoldsOpenFds'
    BY <1>1, <2>1 DEF Connect, TypeInv, TableHoldsOpenFds, tables, loop, numChats
  <2>3. ~Queued(c) /\ ~Accepted(c)
    BY <1>1 DEF Connect, OnePlaceEach
  <2>4. \A d \in Clients : Queued(d)' <=> Queued(d) \/ d = c
    BY <2>1 DEF Queued
  <2>5. OnePlaceEach'
    <3>1. \A j, k \in 1 .. Len(waiting') : waiting'[j] = waiting'[k] => j = k
      BY <2>1, <2>3 DEF OnePlaceEach, Queued
    <3>2. owner' = owner /\ client' = [client EXCEPT ![c] = "in"]
      BY <1>1 DEF Connect, tables
    <3> QED
      BY <2>3, <2>4, <3>1, <3>2 DEF OnePlaceEach, Accepted, TypeInv
  <2>6. StillReadable'
    BY <1>1, <1>r, <2>1 DEF Connect, StillReadable, TypeInv, tables, loop, HasInput, Chatter, Due, numChats
  <2> QED
    BY <2>2, <2>5, <2>6
<1>2. ASSUME NEW m \in Messages, Send(c, m)
      PROVE  IInv'
  <2>1. /\ inbox' \in [Clients -> Seq(Messages)]
        /\ \A d \in Clients : inbox[d] # << >> => inbox'[d] # << >>
    <3>1. inbox' = [inbox EXCEPT ![c] = Append(@, m)] /\ inbox \in [Clients -> Seq(Messages)]
      BY <1>2 DEF Send, TypeInv
    <3>2. Append(inbox[c], m) \in Seq(Messages) /\ Append(inbox[c], m) # << >>
      BY <3>1, AppendProperties
    <3> QED
      BY <3>1, <3>2
  <2>2. TypeInv' /\ TableHoldsOpenFds'
    BY <1>2, <2>1, Frame DEF Send, TypeInv, tables, loop, numChats
  <2>4. OnePlaceEach'
    BY <1>2, Frame DEF Send, OnePlaceEach, tables
  <2>3. StillReadable'
    BY <1>2, <1>r, <2>1 DEF Send, StillReadable, tables, loop, HasInput, Chatter, Due, numChats
  <2> QED
    BY <2>2, <2>3, <2>4
<1>3. CASE Quit(c)
  <2>1. TypeInv' /\ TableHoldsOpenFds'
    BY <1>3, Frame DEF Quit, TypeInv, tables, loop, numChats
  <2>2. OnePlaceEach'
    <3>1. \A d \in Clients : client'[d] # "out" <=> client[d] # "out"
      BY <1>3 DEF Quit, TypeInv
    <3> QED
      BY <1>3, <3>1, Frame DEF Quit, OnePlaceEach, tables
  <2>3. StillReadable'
    BY <1>3, <1>r DEF Quit, TypeInv, StillReadable, tables, loop, HasInput, Chatter, Due, numChats
  <2> QED
    BY <2>1, <2>2, <2>3
<1>4. CASE ResetArrives(c)
  <2>1. TypeInv' /\ TableHoldsOpenFds'
    BY <1>4, Frame DEF ResetArrives, TypeInv, tables, loop, numChats
  <2>2. OnePlaceEach'
    BY <1>4, Frame DEF ResetArrives, OnePlaceEach, tables
  <2>3. StillReadable'
    BY <1>4 DEF ResetArrives, StillReadable, tables, loop, HasInput, Chatter, Due, numChats
  <2> QED
    BY <2>1, <2>2, <2>3
<1> QED
  BY <1>1, <1>2, <1>3, <1>4 DEF User

(* Steps that close the connection at the head of the queue. *)
LEMMA HeadHungUp ==
  ASSUME IInv, waiting # << >>, waiting' = Tail(waiting), Hangup(Head(waiting)),
         UNCHANGED <<owner, fd_chats>>
  PROVE  /\ client' \in [Clients -> {"out", "in", "left"}] /\ inbox' \in [Clients -> Seq(Messages)]
         /\ waiting' \in Seq(Clients)
         /\ TableHoldsOpenFds' /\ OnePlaceEach'
         /\ \A k \in 1 .. numChats : HasInput(Chatter(k))' <=> HasInput(Chatter(k))
<1> DEFINE h == Head(waiting)
<1>1. /\ h \in Clients /\ waiting' \in Seq(Clients)
      /\ \A j, k \in 1 .. Len(waiting') : waiting'[j] = waiting'[k] => j = k
      /\ \A c \in Clients : Queued(c)' <=> Queued(c) /\ c # h
      /\ Queued(h) /\ ~Accepted(h)
  BY Dequeue
<1>2. /\ client' = [client EXCEPT ![h] = "out"] /\ inbox' = [inbox EXCEPT ![h] = << >>]
      /\ << >> \in Seq(Messages)
  BY EmptySeq DEF Hangup
<1> HIDE DEF h
<1>3. client' \in [Clients -> {"out", "in", "left"}] /\ inbox' \in [Clients -> Seq(Messages)]
  BY <1>1, <1>2 DEF IInv, TypeInv
<1>4. TableHoldsOpenFds'
  BY Frame DEF IInv
<1>5. OnePlaceEach'
  <2>1. \A f, g \in Fds : owner'[f] = owner'[g] /\ owner'[f] # NoClient => f = g
    BY DEF IInv, OnePlaceEach
  <2>2. \A c \in Clients : Accepted(c)' <=> Accepted(c)
    BY Frame
  <2>3. \A c \in Clients : client'[c] = IF c = h THEN "out" ELSE client[c]
    BY <1>1, <1>2 DEF IInv, TypeInv
  <2>4. \A c \in Clients : /\ Queued(c) \/ Accepted(c) <=> client[c] # "out"
                          /\ ~(Queued(c) /\ Accepted(c))
    BY DEF IInv, OnePlaceEach
  <2>5. \A c \in Clients : /\ Queued(c)' \/ Accepted(c)' <=> client'[c] # "out"
                          /\ ~(Queued(c)' /\ Accepted(c)')
    BY <1>1, <2>2, <2>3, <2>4
  <2> QED
    BY <1>1, <2>1, <2>5 DEF OnePlaceEach
<1>6. ASSUME NEW k \in 1 .. numChats
      PROVE  HasInput(Chatter(k))' <=> HasInput(Chatter(k))
  <2>1. Chatter(k) \in Clients /\ fd_chats[k] \in Fds
    BY Rows
  <2>2. Chatter(k) # h
    BY <1>1, <2>1 DEF Chatter, Accepted
  <2>3. Chatter(k)' = Chatter(k)
    BY DEF Chatter
  <2>4. inbox'[Chatter(k)] = inbox[Chatter(k)] /\ client'[Chatter(k)] = client[Chatter(k)]
    BY <1>2, <2>1, <2>2 DEF IInv, TypeInv
  <2> QED
    BY <2>3, <2>4 DEF HasInput
<1> QED
  BY <1>1, <1>3, <1>4, <1>5, <1>6

(* A new connection enters the table. *)
LEMMA Added ==
  ASSUME IInv, waiting # << >>, waiting' = Tail(waiting), numChats < MAX_CHATS,
         addChatter(Head(waiting)), UNCHANGED client
  PROVE  /\ waiting' \in Seq(Clients) /\ fd_chats' \in Seq(Fds)
         /\ owner' \in [Fds -> Clients \cup {NoClient}]
         /\ numChats' = numChats + 1 /\ FreeFd \in Fds /\ owner[FreeFd] = NoClient
         /\ \A k \in 1 .. numChats : fd_chats'[k] = fd_chats[k] /\ Chatter(k)' = Chatter(k)
         /\ fd_chats'[numChats + 1] = FreeFd
         /\ TableHoldsOpenFds' /\ OnePlaceEach'
<1> DEFINE h == Head(waiting)
           e == FreeFd
<1>1. /\ h \in Clients /\ waiting' \in Seq(Clients)
      /\ \A j, k \in 1 .. Len(waiting') : waiting'[j] = waiting'[k] => j = k
      /\ \A c \in Clients : Queued(c)' <=> Queued(c) /\ c # h
      /\ Queued(h) /\ ~Accepted(h) /\ client[h] # "out"
  BY Dequeue
<1>2. e \in Fds /\ owner[e] = NoClient
  BY FreeFdExists DEF IInv
<1>3. owner' = [owner EXCEPT ![e] = h] /\ fd_chats' = Append(fd_chats, e)
  BY DEF addChatter
<1>4. fd_chats \in Seq(Fds) /\ owner \in [Fds -> Clients \cup {NoClient}]
      /\ h # NoClient
  BY <1>1, ConstFacts DEF IInv, TypeInv
<1>5. \A k \in 1 .. numChats : fd_chats[k] \in Fds /\ fd_chats[k] # e
  BY <1>2, Rows DEF IInv, TableHoldsOpenFds
<1> HIDE DEF h, e
<1>6. /\ fd_chats' \in Seq(Fds)
      /\ numChats \in Nat
      /\ numChats' = numChats + 1
      /\ \A k \in 1 .. numChats : fd_chats'[k] = fd_chats[k]
      /\ fd_chats'[numChats + 1] = e
  BY <1>2, <1>3, <1>4, AppendProperties, LenProperties DEF numChats
<1>7. \A f \in Fds : owner'[f] = IF f = e THEN h ELSE owner[f]
  BY <1>2, <1>3, <1>4
<1>8. owner' \in [Fds -> Clients \cup {NoClient}]
  BY <1>1, <1>3, <1>4
<1>9. TableHoldsOpenFds'
  <2>1. \A j, k \in 1 .. numChats' : fd_chats'[j] = fd_chats'[k] => j = k
    <3>1. \A j, k \in 1 .. numChats : fd_chats[j] = fd_chats[k] => j = k
      BY DEF IInv, TableHoldsOpenFds
    <3>2. \A j \in 1 .. numChats' : j \in 1 .. numChats \/ j = numChats + 1
      BY <1>6
    <3> QED
      BY <1>5, <1>6, <3>1, <3>2
  <2>2. \A f \in Fds : owner'[f] # NoClient <=> \E k \in 1 .. numChats' : f = fd_chats'[k]
    <3> SUFFICES ASSUME NEW f \in Fds
                 PROVE  owner'[f] # NoClient <=> \E k \in 1 .. numChats' : f = fd_chats'[k]
      OBVIOUS
    <3>1. owner[f] # NoClient <=> \E k \in 1 .. numChats : f = fd_chats[k]
      BY DEF IInv, TableHoldsOpenFds
    <3>2. (\E k \in 1 .. numChats' : f = fd_chats'[k])
            <=> f = e \/ \E k \in 1 .. numChats : f = fd_chats[k]
      BY <1>6
    <3> QED
      BY <1>4, <1>7, <3>1, <3>2
  <2>3. \A k \in 1 .. numChats' : fd_chats'[k] \in Fds
    BY <1>2, <1>5, <1>6
  <2> QED
    BY <2>1, <2>2, <2>3 DEF TableHoldsOpenFds
<1>10. OnePlaceEach'
  <2>1. \A f \in Fds : owner[f] # h
    BY <1>1 DEF Accepted
  <2>2. \A f, g \in Fds : owner'[f] = owner'[g] /\ owner'[f] # NoClient => f = g
    BY <1>7, <2>1 DEF IInv, OnePlaceEach
  <2>3. \A c \in Clients : Accepted(c)' <=> Accepted(c) \/ c = h
    <3> SUFFICES ASSUME NEW c \in Clients
                 PROVE  Accepted(c)' <=> Accepted(c) \/ c = h
      OBVIOUS
    <3>1. (\E f \in Fds : owner'[f] = c) <=> (\E f \in Fds : owner[f] = c) \/ c = h
      BY <1>2, <1>7, ConstFacts
    <3> QED
      BY <3>1 DEF Accepted
  <2>4. \A c \in Clients : /\ Queued(c) \/ Accepted(c) <=> client[c] # "out"
                          /\ ~(Queued(c) /\ Accepted(c))
    BY DEF IInv, OnePlaceEach
  <2>5. \A c \in Clients : /\ Queued(c)' \/ Accepted(c)' <=> client'[c] # "out"
                          /\ ~(Queued(c)' /\ Accepted(c)')
    BY <1>1, <2>3, <2>4
  <2> QED
    BY <1>1, <2>2, <2>5 DEF OnePlaceEach
<1>11. \A k \in 1 .. numChats : Chatter(k)' = Chatter(k)
  BY <1>5, <1>6, <1>7 DEF Chatter
<1> QED
  BY <1>1, <1>2, <1>6, <1>8, <1>9, <1>10, <1>11 DEF e

(* The row of a chatter that left is taken out of the tables. *)
LEMMA Removed ==
  ASSUME IInv, NEW r \in 1 .. numChats, remove_chatter(r), Hangup(Chatter(r)), UNCHANGED waiting
  PROVE  /\ client' \in [Clients -> {"out", "in", "left"}] /\ inbox' \in [Clients -> Seq(Messages)]
         /\ fd_chats' \in Seq(Fds) /\ owner' \in [Fds -> Clients \cup {NoClient}]
         /\ numChats' = numChats - 1
         /\ TableHoldsOpenFds' /\ OnePlaceEach'
         /\ \A k \in 1 .. numChats - 1 : k >= r =>
              /\ fd_chats'[k] = fd_chats[k + 1]
              /\ HasInput(Chatter(k + 1)) => HasInput(Chatter(k))'
<1> DEFINE h == Chatter(r)
           e == fd_chats[r]
           Old(k) == IF k < r THEN k ELSE k + 1
<1>1. /\ numChats \in Nat
      /\ \A k \in 1 .. numChats : fd_chats[k] \in Fds /\ Chatter(k) \in Clients
      /\ \A j, k \in 1 .. numChats : Chatter(j) = Chatter(k) => j = k
  BY Rows
<1>2. \A j, k \in 1 .. numChats : fd_chats[j] = fd_chats[k] => j = k
  BY DEF IInv, TableHoldsOpenFds
<1>3. e \in Fds /\ h \in Clients /\ owner[e] = h /\ h # NoClient
  BY <1>1, ConstFacts DEF Chatter
<1>4. /\ fd_chats' \in Seq(Fds)
      /\ numChats' = numChats - 1
      /\ \A k \in 1 .. numChats - 1 : fd_chats'[k] = fd_chats[Old(k)]
  <2>1. fd_chats \in Seq(Fds) /\ r \in 1 .. Len(fd_chats) /\ fd_chats' = Compressed(fd_chats, r)
    BY DEF IInv, TypeInv, numChats, remove_chatter
  <2> QED
    BY <2>1, CompressedTable DEF numChats
<1>5. /\ owner' = [owner EXCEPT ![e] = NoClient]
      /\ client' = [client EXCEPT ![h] = "out"] /\ inbox' = [inbox EXCEPT ![h] = << >>]
      /\ << >> \in Seq(Messages)
  BY EmptySeq DEF Hangup, remove_chatter
<1> HIDE DEF h, e
<1>6. /\ owner' \in [Fds -> Clients \cup {NoClient}]
      /\ client' \in [Clients -> {"out", "in", "left"}] /\ inbox' \in [Clients -> Seq(Messages)]
  BY <1>3, <1>5 DEF IInv, TypeInv
<1>7. /\ \A f \in Fds : owner'[f] = IF f = e THEN NoClient ELSE owner[f]
      /\ \A c \in Clients : client'[c] = IF c = h THEN "out" ELSE client[c]
      /\ \A c \in Clients : c # h => inbox'[c] = inbox[c]
  BY <1>3, <1>5 DEF IInv, TypeInv
<1>8. /\ \A k \in 1 .. numChats - 1 : Old(k) \in 1 .. numChats /\ Old(k) # r
      /\ \A j, k \in 1 .. numChats - 1 : Old(j) = Old(k) => j = k
      /\ \A j \in 1 .. numChats : j # r => \E k \in 1 .. numChats - 1 : j = Old(k)
  <2>1. \A j \in 1 .. numChats : j # r =>
          (IF j < r THEN j ELSE j - 1) \in 1 .. numChats - 1 /\ j = Old(IF j < r THEN j ELSE j - 1)
    BY <1>1
  <2> QED
    BY <1>1, <2>1
<1>9. \A k \in 1 .. numChats : k # r => fd_chats[k] # e /\ Chatter(k) # h
  BY <1>1, <1>2 DEF h, e
<1> HIDE DEF Old
<1>10. TableHoldsOpenFds'
  <2>1. \A j, k \in 1 .. numChats' : fd_chats'[j] = fd_chats'[k] => j = k
    BY <1>2, <1>4, <1>8
  <2>2. \A f \in Fds : owner'[f] # NoClient <=> \E k \in 1 .. numChats' : f = fd_chats'[k]
    <3> SUFFICES ASSUME NEW f \in Fds
                 PROVE  owner'[f] # NoClient <=> \E k \in 1 .. numChats' : f = fd_chats'[k]
      OBVIOUS
    <3>1. owner[f] # NoClient <=> \E k \in 1 .. numChats : f = fd_chats[k]
      BY DEF IInv, TableHoldsOpenFds
    <3>2. (\E k \in 1 .. numChats' : f = fd_chats'[k])
            <=> \E k \in 1 .. numChats : k # r /\ f = fd_chats[k]
      BY <1>4, <1>8
    <3>3. (\E k \in 1 .. numChats : k # r /\ f = fd_chats[k])
            <=> f # e /\ \E k \in 1 .. numChats : f = fd_chats[k]
      BY <1>9 DEF e
    <3> QED
      BY <1>7, <3>1, <3>2, <3>3
  <2>3. \A k \in 1 .. numChats' : fd_chats'[k] \in Fds
    BY <1>1, <1>4, <1>8
  <2> QED
    BY <2>1, <2>2, <2>3 DEF TableHoldsOpenFds
<1>11. OnePlaceEach'
  <2>1. \A c \in Clients : Queued(c)' <=> Queued(c)
    BY Frame
  <2>2. \A f, g \in Fds : owner[f] = owner[g] /\ owner[f] # NoClient => f = g
    BY DEF IInv, OnePlaceEach
  <2>3. \A f, g \in Fds : owner'[f] = owner'[g] /\ owner'[f] # NoClient => f = g
    BY <1>7, <2>2
  <2>4. \A c \in Clients : Accepted(c)' <=> Accepted(c) /\ c # h
    <3> SUFFICES ASSUME NEW c \in Clients
                 PROVE  Accepted(c)' <=> Accepted(c) /\ c # h
      OBVIOUS
    <3>1. (\E f \in Fds : owner'[f] = c) <=> (\E f \in Fds : owner[f] = c) /\ c # h
      BY <1>3, <1>7, <2>2, ConstFacts
    <3> QED
      BY <3>1 DEF Accepted
  <2>5. Accepted(h)
    BY <1>3 DEF Accepted
  <2>6. /\ \A c \in Clients : /\ Queued(c) \/ Accepted(c) <=> client[c] # "out"
                             /\ ~(Queued(c) /\ Accepted(c))
        /\ \A j, k \in 1 .. Len(waiting) : waiting[j] = waiting[k] => j = k
    BY DEF IInv, OnePlaceEach
  <2>7. \A c \in Clients : /\ Queued(c)' \/ Accepted(c)' <=> client'[c] # "out"
                          /\ ~(Queued(c)' /\ Accepted(c)')
    BY <1>3, <1>7, <2>1, <2>4, <2>5, <2>6
  <2> QED
    BY <2>3, <2>6, <2>7 DEF OnePlaceEach
<1>12. ASSUME NEW k \in 1 .. numChats - 1, k >= r
       PROVE  /\ fd_chats'[k] = fd_chats[k + 1]
              /\ HasInput(Chatter(k + 1)) => HasInput(Chatter(k))'
  <2>1. k + 1 \in 1 .. numChats /\ k + 1 # r /\ fd_chats'[k] = fd_chats[k + 1]
    BY <1>1, <1>4, <1>12 DEF Old
  <2>2. Chatter(k + 1) \in Clients /\ Chatter(k + 1) # h /\ fd_chats[k + 1] # e
    BY <1>1, <1>9, <2>1
  <2>3. Chatter(k)' = Chatter(k + 1)
    BY <1>1, <1>7, <2>1, <2>2 DEF Chatter
  <2>4. inbox'[Chatter(k + 1)] = inbox[Chatter(k + 1)] /\ client'[Chatter(k + 1)] = client[Chatter(k + 1)]
    BY <1>7, <2>2
  <2> QED
    BY <2>1, <2>3, <2>4 DEF HasInput
<1> QED
  BY <1>4, <1>6, <1>10, <1>11, <1>12

LEMMA InitInv == ChatInit => IInv
<1> SUFFICES ASSUME ChatInit PROVE IInv
  OBVIOUS
<1>1. /\ << >> \in Seq(Clients) /\ << >> \in Seq(Fds) /\ << >> \in Seq(Messages)
      /\ Len(<< >>) = 0
  BY EmptySeq
<1>2. TypeInv
  BY <1>1, ConstFacts DEF ChatInit, TypeInv, numChats
<1>3. TableHoldsOpenFds
  BY <1>1 DEF ChatInit, TableHoldsOpenFds, numChats
<1>4. OnePlaceEach
  BY <1>1, ConstFacts DEF ChatInit, OnePlaceEach, Queued, Accepted
<1>5. StillReadable
  BY DEF ChatInit, StillReadable
<1> QED
  BY <1>2, <1>3, <1>4, <1>5 DEF IInv

(* Steps of the server. *)
LEMMA ServerSteps ==
  ASSUME IInv, Server
  PROVE  IInv'
<1> USE DEF IInv
<1>r. /\ numChats \in Nat /\ MAX_CHATS \in Nat /\ AcceptFd \notin Fds
      /\ \A k \in 1 .. numChats : fd_chats[k] \in Fds /\ Chatter(k) \in Clients
      /\ \A j, k \in 1 .. numChats : Chatter(j) = Chatter(k) => j = k
      /\ \A k \in 1 .. numChats : owner[fd_chats[k]] # NoClient
  BY Rows, ConstFacts DEF Chatter
<1>1. CASE Select
  <2>1. TypeInv' /\ TableHoldsOpenFds' /\ OnePlaceEach'
    <3>1. fdCheck' \subseteq Fds \cup {AcceptFd}
      BY <1>1, <1>r DEF Select
    <3>2. TypeInv' /\ TableHoldsOpenFds'
      BY <1>1, <3>1, Frame DEF Select, TypeInv, users, tables, numChats
    <3>3. OnePlaceEach'
      BY <1>1, Frame DEF Select, OnePlaceEach, users, tables
    <3> QED
      BY <3>2, <3>3
  <2>2. AcceptFd \in fdCheck' => waiting # << >>
    BY <1>1, <1>r DEF Select
  <2>3. \A f \in Fds : f \in fdCheck' => owner[f] # NoClient
    BY <1>1, <1>r DEF Select
  <2>4. \A k \in 1 .. numChats : fd_chats[k] \in fdCheck' => HasInput(Chatter(k))
    <3> SUFFICES ASSUME NEW k \in 1 .. numChats, fd_chats[k] \in fdCheck'
                 PROVE  HasInput(Chatter(k))
      OBVIOUS
    <3>1. PICK j \in 1 .. numChats : HasInput(owner[fd_chats[j]]) /\ fd_chats[k] = fd_chats[j]
      BY <1>1, <1>r DEF Select
    <3> QED
      BY <3>1 DEF Chatter
  <2>5. StillReadable'
    BY <1>1, <2>2, <2>3, <2>4 DEF Select, StillReadable, users, tables, HasInput, Chatter, Due, numChats
  <2> QED
    BY <2>1, <2>5
<1>2. CASE Accept
  <2>1. waiting # << >> /\ waiting' = Tail(waiting)
    BY <1>2 DEF Accept, StillReadable
  <2>2. \A k \in 1 .. numChats : Due(k) => HasInput(Chatter(k))
    BY <1>2 DEF Accept, StillReadable
  <2>3. /\ stage' = "walk" /\ i' = 1 /\ fdCheck' = fdCheck
        /\ \A f \in Fds : f \in fdCheck => owner[f] # NoClient
    BY <1>2 DEF Accept, StillReadable
  <2>4. CASE numChats >= MAX_CHATS
    <3>1. Hangup(Head(waiting)) /\ UNCHANGED tables
      BY <1>2, <2>4 DEF Accept
    <3>2. UNCHANGED <<owner, fd_chats>>
      BY <3>1 DEF tables
    <3>3. /\ client' \in [Clients -> {"out", "in", "left"}] /\ inbox' \in [Clients -> Seq(Messages)]
          /\ waiting' \in Seq(Clients)
          /\ TableHoldsOpenFds' /\ OnePlaceEach'
          /\ \A k \in 1 .. numChats : HasInput(Chatter(k))' <=> HasInput(Chatter(k))
      BY <2>1, <3>1, <3>2, HeadHungUp
    <3>4. TypeInv'
      BY <2>3, <3>2, <3>3 DEF TypeInv, numChats
    <3>5. StillReadable'
      BY <2>2, <2>3, <3>2, <3>3 DEF StillReadable, Due, numChats
    <3> QED
      BY <3>3, <3>4, <3>5
  <2>5. CASE ~(numChats >= MAX_CHATS)
    <3>1. addChatter(Head(waiting)) /\ UNCHANGED <<client, inbox>> /\ numChats < MAX_CHATS
      BY <1>2, <1>r, <2>5 DEF Accept
    <3>2. /\ waiting' \in Seq(Clients) /\ fd_chats' \in Seq(Fds)
          /\ owner' \in [Fds -> Clients \cup {NoClient}]
          /\ numChats' = numChats + 1 /\ FreeFd \in Fds /\ owner[FreeFd] = NoClient
          /\ \A k \in 1 .. numChats : fd_chats'[k] = fd_chats[k] /\ Chatter(k)' = Chatter(k)
          /\ fd_chats'[numChats + 1] = FreeFd
          /\ TableHoldsOpenFds' /\ OnePlaceEach'
      BY <2>1, <3>1, Added
    <3>3. TypeInv'
      <4>1. numChats' <= MAX_CHATS
        BY <1>r, <3>1, <3>2
      <4> QED
        BY <2>3, <3>1, <3>2, <4>1 DEF TypeInv
    <3>4. \A k \in 1 .. numChats' : Due(k)' => HasInput(Chatter(k))'
      <4> SUFFICES ASSUME NEW k \in 1 .. numChats', Due(k)'
                   PROVE  HasInput(Chatter(k))'
        OBVIOUS
      <4>1. fd_chats'[k] \in fdCheck
        BY <2>3 DEF Due
      <4>2. k # numChats + 1
        BY <2>3, <3>2, <4>1
      <4>3. k \in 1 .. numChats
        BY <1>r, <3>2, <4>2
      <4>4. HasInput(Chatter(k)) /\ Chatter(k)' = Chatter(k)
        BY <1>r, <2>2, <3>2, <4>1, <4>3 DEF Due
      <4> QED
        BY <3>1, <4>4 DEF HasInput
    <3>5. StillReadable'
      BY <2>3, <3>4 DEF StillReadable
    <3> QED
      BY <3>2, <3>3, <3>5
  <2> QED
    BY <2>4, <2>5
<1>3. CASE AcceptFails
  <2>1. /\ waiting # << >> /\ waiting' = Tail(waiting) /\ Hangup(Head(waiting))
        /\ stage' = "select" /\ fdCheck' = {} /\ i' = i
        /\ UNCHANGED <<owner, fd_chats>>
    BY <1>3 DEF AcceptFails, StillReadable, tables
  <2>2. /\ client' \in [Clients -> {"out", "in", "left"}] /\ inbox' \in [Clients -> Seq(Messages)]
        /\ waiting' \in Seq(Clients)
        /\ TableHoldsOpenFds' /\ OnePlaceEach'
    BY <2>1, HeadHungUp
  <2>3. TypeInv' /\ StillReadable'
    BY <2>1, <2>2 DEF TypeInv, StillReadable, numChats
  <2> QED
    BY <2>2, <2>3
<1>4. CASE NoAccept
  <2>1. TypeInv' /\ TableHoldsOpenFds'
    BY <1>4, Frame DEF NoAccept, TypeInv, users, tables, numChats
  <2>2. OnePlaceEach'
    BY <1>4, Frame DEF NoAccept, OnePlaceEach, users, tables
  <2>3. StillReadable'
    BY <1>4 DEF NoAccept, StillReadable, users, tables, HasInput, Chatter, Due, numChats
  <2> QED
    BY <2>1, <2>2, <2>3
<1>5. CASE Read
  <2> DEFINE h == Chatter(i)
  <2>1. i \in 1 .. numChats /\ h \in Clients
    BY <1>5, <1>r DEF Read, Due, TypeInv
  <2>2. PICK n \in 1 .. Len(inbox[h]) : inbox' = [inbox EXCEPT ![h] = SubSeq(@, n + 1, Len(@))]
    BY <1>5 DEF Read
  <2>3. /\ stage = "walk" /\ stage' = "walk" /\ i' = i + 1 /\ fdCheck' = fdCheck
        /\ UNCHANGED <<client, waiting, owner, fd_chats>>
    BY <1>5 DEF Read
  <2> HIDE DEF h
  <2>4. inbox' \in [Clients -> Seq(Messages)]
    <3>1. inbox[h] \in Seq(Messages)
      BY <2>1 DEF TypeInv
    <3>2. /\ Len(inbox[h]) \in Nat
          /\ \A k \in n + 1 .. Len(inbox[h]) : inbox[h][k] \in Messages
      BY <3>1, LenProperties, ElementOfSeq
    <3>3. SubSeq(inbox[h], n + 1, Len(inbox[h])) \in Seq(Messages)
      BY <3>2, SubSeqProperties
    <3> QED
      BY <2>1, <2>2, <3>3 DEF TypeInv
  <2>5. TypeInv' /\ TableHoldsOpenFds'
    BY <2>3, <2>4, Frame DEF TypeInv, numChats
  <2>6. OnePlaceEach'
    BY <2>3, Frame DEF OnePlaceEach
  <2>7. \A k \in 1 .. numChats : k >= i + 1 /\ Due(k) => HasInput(Chatter(k))'
    <3> SUFFICES ASSUME NEW k \in 1 .. numChats, k >= i + 1, Due(k)
                 PROVE  HasInput(Chatter(k))'
      OBVIOUS
    <3>1. HasInput(Chatter(k))
      BY <2>1, <2>3 DEF StillReadable
    <3>2. Chatter(k) # h /\ Chatter(k) \in Clients
      BY <1>r, <2>1 DEF h
    <3>3. inbox'[Chatter(k)] = inbox[Chatter(k)] /\ Chatter(k)' = Chatter(k)
      BY <2>2, <2>3, <3>2 DEF TypeInv, Chatter
    <3> QED
      BY <2>3, <3>1, <3>3 DEF HasInput
  <2>8. StillReadable'
    BY <2>3, <2>7 DEF StillReadable, Due, numChats
  <2> QED
    BY <2>5, <2>6, <2>8
<1>6. CASE ReadEnd
  <2>1. i \in 1 .. numChats
    BY <1>6, <1>r DEF ReadEnd, Due, TypeInv
  <2>2. /\ remove_chatter(i) /\ Hangup(Chatter(i)) /\ UNCHANGED waiting
        /\ stage = "walk" /\ stage' = "walk" /\ i' = i + 1 /\ fdCheck' = fdCheck
    BY <1>6 DEF ReadEnd
  <2>3. /\ client' \in [Clients -> {"out", "in", "left"}] /\ inbox' \in [Clients -> Seq(Messages)]
        /\ fd_chats' \in Seq(Fds) /\ owner' \in [Fds -> Clients \cup {NoClient}]
        /\ numChats' = numChats - 1
        /\ TableHoldsOpenFds' /\ OnePlaceEach'
        /\ \A k \in 1 .. numChats - 1 : k >= i =>
             /\ fd_chats'[k] = fd_chats[k + 1]
             /\ HasInput(Chatter(k + 1)) => HasInput(Chatter(k))'
    BY <2>1, <2>2, Removed
  <2>4. TypeInv'
    <3>1. numChats' <= MAX_CHATS
      BY <1>r, <2>3 DEF TypeInv
    <3> QED
      BY <2>2, <2>3, <3>1 DEF TypeInv
  <2>5. ASSUME NEW k \in 1 .. numChats', k >= i', Due(k)'
        PROVE  HasInput(Chatter(k))'
    <3>1. k \in 1 .. numChats - 1 /\ k >= i /\ k + 1 \in 1 .. numChats /\ k + 1 >= i
      BY <1>r, <2>1, <2>2, <2>3, <2>5
    <3>2. fd_chats'[k] = fd_chats[k + 1] /\ fd_chats'[k] \in fdCheck
      BY <2>2, <2>3, <2>5, <3>1 DEF Due
    <3>3. Due(k + 1)
      BY <3>1, <3>2 DEF Due
    <3>4. HasInput(Chatter(k + 1))
      BY <2>2, <3>1, <3>3 DEF StillReadable
    <3> QED
      BY <2>3, <3>1, <3>4
  <2>6. StillReadable'
    BY <2>2, <2>5 DEF StillReadable
  <2> QED
    BY <2>3, <2>4, <2>6
<1>7. CASE Skip
  <2>1. TypeInv' /\ TableHoldsOpenFds'
    BY <1>7, Frame DEF Skip, TypeInv, users, tables, numChats
  <2>2. OnePlaceEach'
    BY <1>7, Frame DEF Skip, OnePlaceEach, users, tables
  <2>3. StillReadable'
    BY <1>7, <1>r DEF Skip, StillReadable, TypeInv, users, tables, HasInput, Chatter, Due, numChats
  <2> QED
    BY <2>1, <2>2, <2>3
<1>8. CASE RoundEnds
  <2>1. TypeInv' /\ TableHoldsOpenFds'
    BY <1>8, Frame DEF RoundEnds, TypeInv, users, tables, numChats
  <2>2. OnePlaceEach'
    BY <1>8, Frame DEF RoundEnds, OnePlaceEach, users, tables
  <2>3. StillReadable'
    BY <1>8 DEF RoundEnds, StillReadable
  <2> QED
    BY <2>1, <2>2, <2>3
<1> QED
  BY <1>1, <1>2, <1>3, <1>4, <1>5, <1>6, <1>7, <1>8 DEF Server

LEMMA StepInv == IInv /\ [ChatNext]_chatVars => IInv'
<1> SUFFICES ASSUME IInv, [ChatNext]_chatVars PROVE IInv'
  OBVIOUS
<1>1. CASE Server
  BY <1>1, ServerSteps
<1>2. ASSUME NEW c \in Clients, User(c)
      PROVE  IInv'
  BY <1>2, UserSteps
<1>3. CASE UNCHANGED chatVars
  <2>1. UNCHANGED <<client, inbox, waiting, owner, fd_chats, stage, fdCheck, i>>
    BY <1>3 DEF chatVars, users, tables, loop
  <2>2. TypeInv' /\ TableHoldsOpenFds'
    BY <2>1, Frame DEF IInv, TypeInv, numChats
  <2>3. OnePlaceEach'
    BY <2>1, Frame DEF IInv, OnePlaceEach
  <2>4. StillReadable'
    BY <2>1 DEF IInv, StillReadable, HasInput, Chatter, Due, numChats
  <2> QED
    BY <2>2, <2>3, <2>4 DEF IInv
<1> QED
  BY <1>1, <1>2, <1>3 DEF ChatNext

-----------------------------------------------------------------------------
THEOREM Invariance == ChatSpec => []IInv
<1> QED
  BY InitInv, StepInv, PTL DEF ChatSpec

(* The table of chatters and the open descriptors always agree. *)
THEOREM TablesAgree == ChatSpec => []TableHoldsOpenFds
<1>1. IInv => TableHoldsOpenFds
  BY DEF IInv
<1> QED
  BY <1>1, Invariance, PTL

(* Every connection is in the listen queue or behind one descriptor. *)
THEOREM PlacesAgree == ChatSpec => []OnePlaceEach
<1>1. IInv => OnePlaceEach
  BY DEF IInv
<1> QED
  BY <1>1, Invariance, PTL

(* No read() of the walk blocks the server. *)
THEOREM ReadsNeverBlock == ChatSpec => []NoBlockingRead
<1>1. IInv => NoBlockingRead
  <2> SUFFICES ASSUME IInv, stage = "walk", Due(i)
               PROVE  HasInput(Chatter(i))
    BY DEF NoBlockingRead
  <2>1. numChats \in Nat /\ i \in Nat \ {0}
    BY Rows DEF IInv, TypeInv
  <2>2. i \in 1 .. numChats
    BY <2>1 DEF Due
  <2> QED
    BY <2>1, <2>2 DEF IInv, StillReadable
<1> QED
  BY <1>1, Invariance, PTL

(* The table of chatters, the descriptors and the connections correspond. *)
THEOREM TableCorrect == ChatSpec => []TableRight
<1>1. TableHoldsOpenFds /\ OnePlaceEach => TableRight
  BY DEF TableRight
<1> QED
  BY <1>1, TablesAgree, PlacesAgree, PTL

-----------------------------------------------------------------------------
(* The remaining variables: what a user has written bounds what waits to be   *)
(* read, so also what one read() can return and what a name can be.           *)
Bounds ==
  /\ sent \in [Clients -> Nat]
  /\ \A c \in Clients : Len(inbox[c]) <= sent[c] /\ sent[c] <= MaxSent[c]
  /\ reset \subseteq Clients
  /\ DOMAIN heard = Clients
  /\ Len(waiting) <= Backlog
  /\ name_chats \in Seq(Names) /\ Len(name_chats) = numChats
  /\ i <= MAX_CHATS + 1
  /\ alive \in BOOLEAN

(* A finite set of numbers has a largest one; the set is built up here by     *)
(* well-founded induction on its size.                                        *)
LEMMA LargestExists ==
  ASSUME NEW S \in SUBSET Nat, IsFiniteSet(S), S # {}
  PROVE  \E n \in S : \A m \in S : m <= n
<1> DEFINE Without(T) == \A n \in T : \E m \in T : m > n
           Bad == {k \in Nat : \E T \in SUBSET Nat : /\ IsFiniteSet(T) /\ T # {}
                                                     /\ Cardinality(T) = k /\ Without(T)}
<1>1. Bad = {}
  <2> SUFFICES ASSUME Bad # {} PROVE FALSE
    OBVIOUS
  <2>1. Bad \in SUBSET Nat
    OBVIOUS
  <2>2. PICK k \in Bad : \A l \in Bad : k <= l
    <3> HIDE DEF Bad
    <3> QED
      BY <2>1, Smallest
  <2>3. \A l \in Bad : ~(l < k)
    <3> HIDE DEF Bad
    <3> QED
      BY <2>1, <2>2
  <2>4. PICK T \in SUBSET Nat : IsFiniteSet(T) /\ T # {} /\ Cardinality(T) = k /\ Without(T)
    OBVIOUS
  <2>5. PICK x \in T : TRUE
    BY <2>4
  <2>6. IsFiniteSet(T \ {x}) /\ Cardinality(T \ {x}) = k - 1 /\ k - 1 \in Nat
    <3>1. IsFiniteSet(T \ {x}) /\ Cardinality(T \ {x}) = k - 1
      BY <2>4, FS_RemoveElement
    <3>2. k - 1 \in Nat
      BY <3>1, FS_CardinalityType
    <3> QED
      BY <3>1, <3>2
  <2>7. T \ {x} # {}
    BY <2>4, <2>5
  <2>8. ~Without(T \ {x})
    <3> SUFFICES ASSUME Without(T \ {x}) PROVE k - 1 \in Bad
      BY <2>3, <2>6
    <3>1. T \ {x} \in SUBSET Nat
      BY <2>4
    <3> HIDE DEF Without
    <3> QED
      BY <2>6, <2>7, <3>1
  <2>9. PICK y \in T \ {x} : \A m \in T \ {x} : m <= y
    BY <2>8
  <2> QED
    <3>1. PICK z \in T : z > x
      BY <2>4, <2>5
    <3>2. PICK z2 \in T : z2 > y
      BY <2>4, <2>9
    <3> QED
      BY <2>9, <3>1, <3>2
<1>2. Cardinality(S) \in Nat
  BY FS_CardinalityType
<1>3. ~Without(S)
  BY <1>1, <1>2
<1> QED
  BY <1>3

LEMMA AtMostMaxOfAll ==
  ASSUME NEW c \in Clients
  PROVE  MaxOfAll \in Nat /\ MaxSent[c] <= MaxOfAll
<1> DEFINE M == {MaxSent[d] : d \in Clients}
<1>1. M \in SUBSET Nat /\ M # {} /\ MaxSent[c] \in M
  BY ChatSizeAssumption
<1>2. IsFiniteSet(M)
  <2>1. MaxSent \in Surjection(Clients, M)
    BY ChatSizeAssumption, <1>1 DEF Surjection
  <2> QED
    BY <2>1, UserAssumption, FS_Surjection DEF ExistsSurjection
<1> HIDE DEF M
<1>3. \E n \in M : \A m \in M : m <= n
  BY <1>1, <1>2, LargestExists
<1>4. MaxOfAll = CHOOSE n \in M : \A m \in M : m <= n
  BY DEF MaxOfAll, M
<1> QED
  BY <1>1, <1>3, <1>4

LEMMA BoundsInit == ChatInit => Bounds
<1> SUFFICES ASSUME ChatInit PROVE Bounds
  OBVIOUS
<1>1. /\ << >> \in Seq(Names) /\ Len(<< >>) = 0 /\ \A c \in Clients : MaxSent[c] \in Nat
      /\ Backlog \in Nat /\ MAX_CHATS \in Nat
  BY EmptySeq, ChatSizeAssumption
<1> QED
  BY <1>1 DEF ChatInit, Bounds, numChats

(* What one read() returns is a chunk of what the user wrote. *)
LEMMA ReadChunk ==
  ASSUME IInv, Bounds, NEW c \in Clients, NEW n \in 1 .. Len(inbox[c])
  PROVE  /\ SubSeq(inbox[c], 1, n) \in Chunks
         /\ Head(SubSeq(inbox[c], 1, n)) \in Messages
         /\ Len(SubSeq(inbox[c], n + 1, Len(inbox[c]))) <= Len(inbox[c])
<1> DEFINE t == SubSeq(inbox[c], 1, n)
<1>1. inbox[c] \in Seq(Messages) /\ Len(inbox[c]) \in Nat /\ n \in Nat
  BY LenProperties DEF IInv, TypeInv
<1>2. \A k \in 1 .. Len(inbox[c]) : inbox[c][k] \in Messages
  BY <1>1, ElementOfSeq
<1>3. t \in Seq(Messages) /\ Len(t) = n
  BY <1>1, <1>2, SubSeqProperties
<1>4. n \in 1 .. MaxOfAll
  BY <1>1, AtMostMaxOfAll, ChatSizeAssumption DEF Bounds
<1>5. t \in [1 .. n -> Messages]
  BY <1>3, LenProperties
<1>6. t \in Chunks
  BY <1>4, <1>5 DEF Chunks
<1>7. Head(t) \in Messages
  <2>1. t # << >>
    BY <1>3, EmptySeq
  <2> QED
    BY <1>3, <2>1, HeadTailProperties
<1>8. Len(SubSeq(inbox[c], n + 1, Len(inbox[c]))) <= Len(inbox[c])
  <2>1. \A k \in n + 1 .. Len(inbox[c]) : inbox[c][k] \in Messages
    BY <1>1, <1>2
  <2>2. Len(SubSeq(inbox[c], n + 1, Len(inbox[c])))
          = IF n + 1 <= Len(inbox[c]) THEN Len(inbox[c]) - (n + 1) + 1 ELSE 0
    BY <1>1, <2>1, SubSeqProperties
  <2> QED
    BY <1>1, <2>2
<1> QED
  BY <1>6, <1>7, <1>8

LEMMA BoundsUser ==
  ASSUME IInv, Bounds, NEW c \in Clients, User(c)
  PROVE  Bounds'
<1> USE DEF Bounds, tables, loop, numChats
<1>1. CASE Connect(c)
  <2>1. Len(waiting') = Len(waiting) + 1 /\ Len(waiting) \in Nat /\ Backlog \in Nat
    BY <1>1, AppendProperties, LenProperties, ChatSizeAssumption DEF Connect, IInv, TypeInv
  <2>2. Len(waiting') <= Backlog /\ DOMAIN heard' = Clients
    BY <1>1, <2>1 DEF Connect
  <2> QED
    BY <1>1, <2>2 DEF Connect
<1>2. ASSUME NEW m \in Messages, Send(c, m) PROVE Bounds'
  <2>1. /\ inbox' = [inbox EXCEPT ![c] = Append(@, m)] /\ sent' = [sent EXCEPT ![c] = @ + 1]
        /\ inbox \in [Clients -> Seq(Messages)] /\ sent[c] < MaxSent[c] /\ MaxSent[c] \in Nat
    BY <1>2, ChatSizeAssumption DEF Send, IInv, TypeInv
  <2>2. Len(Append(inbox[c], m)) = Len(inbox[c]) + 1 /\ Len(inbox[c]) \in Nat
    BY <2>1, AppendProperties, LenProperties
  <2>3. sent' \in [Clients -> Nat]
    BY <2>1
  <2>4. \A d \in Clients : Len(inbox'[d]) <= sent'[d] /\ sent'[d] <= MaxSent[d]
    BY <2>1, <2>2
  <2> QED
    BY <1>2, <2>3, <2>4 DEF Send
<1>3. CASE Quit(c)
  BY <1>3 DEF Quit
<1>4. CASE ResetArrives(c)
  BY <1>4 DEF ResetArrives
<1> QED
  BY <1>1, <1>2, <1>3, <1>4 DEF User

(* Who hangs up has nothing left to be read. *)
LEMMA BoundsHangup ==
  ASSUME IInv, Bounds, NEW h \in Clients, Hangup(h)
  PROVE  /\ \A c \in Clients : Len(inbox'[c]) <= sent[c]
         /\ reset' \subseteq Clients
<1>1. Len(<< >>) = 0 /\ inbox \in [Clients -> Seq(Messages)]
  BY EmptySeq DEF IInv, TypeInv
<1> QED
  BY <1>1 DEF Hangup, Bounds

LEMMA BoundsServer ==
  ASSUME IInv, Bounds, Server
  PROVE  Bounds'
<1>r. /\ numChats \in Nat /\ numChats <= MAX_CHATS /\ MAX_CHATS \in Nat /\ i \in Nat \ {0}
      /\ \A k \in 1 .. numChats : fd_chats[k] \in Fds /\ Chatter(k) \in Clients
  BY Rows, ConstFacts DEF IInv, TypeInv
<1>1. CASE Select \/ NoAccept \/ RoundEnds
  BY <1>1, <1>r DEF Select, NoAccept, RoundEnds, Bounds, users, tables, numChats
<1>2. CASE Skip
  BY <1>2, <1>r DEF Skip, Bounds, users, tables, numChats
<1>3. ASSUME Accept \/ AcceptFails
      PROVE  /\ Head(waiting) \in Clients /\ Len(waiting') <= Backlog
             /\ waiting # << >> /\ waiting' = Tail(waiting)
  <2>1. waiting # << >> /\ waiting' = Tail(waiting)
    BY <1>3 DEF Accept, AcceptFails, IInv, StillReadable
  <2>2. /\ Head(waiting) \in Clients /\ Len(Tail(waiting)) = Len(waiting) - 1
        /\ Len(waiting) \in Nat /\ Backlog \in Nat
    BY <2>1, HeadTailProperties, LenProperties, ChatSizeAssumption DEF IInv, TypeInv
  <2> QED
    BY <2>1, <2>2 DEF Bounds
<1>4. CASE AcceptFails
  <2>1. /\ \A c \in Clients : Len(inbox'[c]) <= sent[c]
        /\ reset' \subseteq Clients
    BY <1>3, <1>4, BoundsHangup DEF AcceptFails
  <2> QED
    BY <1>3, <1>4, <2>1 DEF AcceptFails, Bounds, tables, numChats
<1>5. CASE Accept
  <2>1. CASE numChats >= MAX_CHATS
    <3>1. /\ \A c \in Clients : Len(inbox'[c]) <= sent[c]
          /\ reset' \subseteq Clients /\ UNCHANGED tables
      BY <1>3, <1>5, <2>1, BoundsHangup DEF Accept
    <3> QED
      BY <1>3, <1>5, <1>r, <2>1, <3>1 DEF Accept, Bounds, tables, numChats
  <2>2. CASE ~(numChats >= MAX_CHATS)
    <3>1. addChatter(Head(waiting)) /\ UNCHANGED <<client, inbox, reset, sent, alive>> /\ i' = 1
      BY <1>5, <2>2 DEF Accept
    <3>2. Unknown(numChats) \in Names
      BY <1>r, <2>2 DEF Names
    <3>3. /\ name_chats' \in Seq(Names) /\ Len(name_chats') = Len(name_chats) + 1
          /\ numChats' = numChats + 1
      <4>1. name_chats' = Append(name_chats, Unknown(numChats)) /\ name_chats \in Seq(Names)
        BY <3>1 DEF addChatter, Bounds
      <4>2. fd_chats' = Append(fd_chats, FreeFd) /\ fd_chats \in Seq(Fds) /\ FreeFd \in Fds
        BY <3>1, FreeFdExists DEF addChatter, IInv, TypeInv
      <4> QED
        BY <3>2, <4>1, <4>2, AppendProperties DEF numChats
    <3>4. DOMAIN heard' = Clients
      BY <3>1 DEF addChatter, Bounds
    <3>5. i' <= MAX_CHATS + 1
      BY <1>r, <3>1
    <3>6. Len(name_chats') = numChats'
      BY <3>3 DEF Bounds
    <3> QED
      BY <1>3, <1>5, <3>1, <3>3, <3>4, <3>5, <3>6 DEF Bounds
  <2> QED
    BY <2>1, <2>2
<1>6. CASE Read
  <2> DEFINE h == Chatter(i)
  <2>1. i \in 1 .. numChats /\ h \in Clients
    BY <1>6, <1>r DEF Read, Due
  <2>2. PICK n \in 1 .. Len(inbox[h]) :
          /\ inbox' = [inbox EXCEPT ![h] = SubSeq(@, n + 1, Len(@))]
          /\ IF Head(SubSeq(inbox[h], 1, n)) \in Name
               THEN Rename(i, SubSeq(inbox[h], 1, n)) ELSE Broadcast(i, SubSeq(inbox[h], 1, n))
    BY <1>6 DEF Read
  <2>3. i' = i + 1 /\ UNCHANGED <<sent, reset, waiting, fd_chats>>
    BY <1>6 DEF Read
  <2> HIDE DEF h
  <2>4. /\ SubSeq(inbox[h], 1, n) \in Chunks
        /\ Len(SubSeq(inbox[h], n + 1, Len(inbox[h]))) <= Len(inbox[h])
    BY <2>1, ReadChunk
  <2>5. \A c \in Clients : Len(inbox'[c]) <= sent'[c]
    <3>1. \A c \in Clients : Len(inbox[c]) \in Nat /\ inbox[c] \in Seq(Messages)
      BY LenProperties DEF IInv, TypeInv
    <3>2. \A c \in Clients : c # h => inbox'[c] = inbox[c]
      BY <2>1, <2>2 DEF IInv, TypeInv
    <3>3. inbox'[h] = SubSeq(inbox[h], n + 1, Len(inbox[h]))
      BY <2>1, <2>2 DEF IInv, TypeInv
    <3>4. Len(inbox'[h]) \in Nat
      <4>1. inbox'[h] \in Seq(Messages)
        BY <2>1, <1>6, ServerSteps DEF IInv, TypeInv, Server
      <4> QED
        BY <4>1, LenProperties
    <3>5. \A c \in Clients : Len(inbox[c]) <= sent[c] /\ sent[c] \in Nat /\ sent'[c] = sent[c]
      BY <2>3 DEF Bounds
    <3>6. Len(inbox'[h]) <= sent'[h]
      BY <2>1, <2>4, <3>1, <3>3, <3>4, <3>5
    <3> QED
      BY <3>2, <3>5, <3>6
  <2>6. name_chats' \in Seq(Names) /\ Len(name_chats') = numChats'
    <3>1. CASE UNCHANGED name_chats
      BY <2>3, <3>1 DEF Bounds, numChats
    <3>2. CASE Rename(i, SubSeq(inbox[h], 1, n))
      <4>1. Called(SubSeq(inbox[h], 1, n)) \in Names
        BY <2>4 DEF Names
      <4> QED
        BY <2>1, <2>3, <3>2, <4>1, ExceptSeq DEF Rename, Bounds, numChats
    <3> QED
      BY <2>2, <3>1, <3>2 DEF Broadcast
  <2>7. DOMAIN heard' = Clients /\ alive' \in BOOLEAN
    BY <2>2 DEF Rename, Broadcast, Bounds
  <2>8. i' <= MAX_CHATS + 1
    BY <1>r, <2>1, <2>3
  <2> QED
    BY <2>3, <2>5, <2>6, <2>7, <2>8 DEF Bounds
<1>7. CASE ReadEnd
  <2>1. i \in 1 .. numChats /\ Chatter(i) \in Clients
    BY <1>7, <1>r DEF ReadEnd, Due
  <2>2. /\ remove_chatter(i) /\ Hangup(Chatter(i)) /\ i' = i + 1
        /\ UNCHANGED <<sent, heard, waiting, alive>>
    BY <1>7 DEF ReadEnd
  <2>3. /\ \A c \in Clients : Len(inbox'[c]) <= sent[c]
        /\ reset' \subseteq Clients
    BY <2>1, <2>2, BoundsHangup
  <2>4. name_chats' \in Seq(Names) /\ Len(name_chats') = numChats'
    <3>1. fd_chats \in Seq(Fds) /\ name_chats \in Seq(Names) /\ Len(name_chats) = Len(fd_chats)
      BY DEF IInv, TypeInv, Bounds, numChats
    <3>2. fd_chats' = Compressed(fd_chats, i) /\ name_chats' = Compressed(name_chats, i)
      BY <2>2 DEF remove_chatter
    <3> QED
      BY <2>1, <3>1, <3>2, CompressedTable DEF numChats
  <2> QED
    BY <1>r, <2>1, <2>2, <2>3, <2>4 DEF Bounds
<1> QED
  BY <1>1, <1>2, <1>4, <1>5, <1>6, <1>7 DEF Server

THEOREM BoundsHold == ChatSpec => [](IInv /\ Bounds)
<1>1. ChatInit => IInv /\ Bounds
  BY InitInv, BoundsInit
<1>2. IInv /\ Bounds /\ [ChatNext]_chatVars => IInv' /\ Bounds'
  <2> SUFFICES ASSUME IInv, Bounds, [ChatNext]_chatVars PROVE Bounds'
    BY StepInv
  <2>1. CASE UNCHANGED chatVars
    BY <2>1 DEF Bounds, chatVars, users, tables, loop, numChats
  <2> QED
    BY <2>1, BoundsServer, BoundsUser DEF ChatNext
<1> QED
  BY <1>1, <1>2, PTL DEF ChatSpec

(* Every variable keeps its kind: no table outgrows its bound. *)
THEOREM TypeCorrect == ChatSpec => []ChatTypeOK
<1>1. IInv /\ Bounds => ChatTypeOK
  <2> SUFFICES ASSUME IInv, Bounds PROVE ChatTypeOK
    OBVIOUS
  <2>1. ASSUME NEW c \in Clients PROVE inbox[c] \in Chunks \cup {<< >>}
    <3> DEFINE n == Len(inbox[c])
    <3>1. /\ inbox[c] \in Seq(Messages) /\ n \in Nat /\ inbox[c] \in [1 .. n -> Messages]
          /\ inbox[c] # << >> => n > 0
      BY LenProperties, EmptySeq DEF IInv, TypeInv
    <3>2. MaxOfAll \in Nat /\ n <= MaxOfAll
      BY <3>1, AtMostMaxOfAll, ChatSizeAssumption DEF Bounds
    <3> HIDE DEF n
    <3>3. CASE inbox[c] # << >>
      BY <3>1, <3>2, <3>3 DEF Chunks
    <3> QED
      BY <3>3
  <2>2. \A c \in Clients : sent[c] \in 0 .. MaxSent[c]
    BY ChatSizeAssumption DEF Bounds
  <2>3. \A k \in DOMAIN waiting : waiting[k] \in Clients
    BY LenProperties, ElementOfSeq DEF IInv, TypeInv
  <2>4. \A k \in 1 .. numChats : fd_chats[k] \in Fds /\ name_chats[k] \in Names
    BY ElementOfSeq DEF IInv, TypeInv, Bounds, numChats
  <2>5. i \in 1 .. MAX_CHATS + 1
    BY ConstFacts DEF IInv, TypeInv, Bounds
  <2> QED
    BY <2>1, <2>2, <2>3, <2>4, <2>5 DEF ChatTypeOK, IInv, TypeInv, Bounds
<1> QED
  BY <1>1, BoundsHold, PTL

-----------------------------------------------------------------------------
(* The room: its members are the connections in the order of the table.       *)
Members == [k \in 1 .. numChats |-> Chatter(k)]

LEMMA MembersSeq ==
  ASSUME IInv
  PROVE  /\ Members \in Seq(Clients) /\ Len(Members) = numChats /\ numChats \in Nat
         /\ DOMAIN Members = 1 .. numChats
         /\ \A k \in 1 .. numChats : Members[k] = Chatter(k)
<1>1. numChats \in Nat /\ Members \in [1 .. numChats -> Clients]
  BY Rows DEF Members
<1>2. Members \in Seq(Clients)
  BY <1>1, SeqDef
<1>3. DOMAIN Members = 1 .. Len(Members) /\ Len(Members) \in Nat
  BY <1>2, LenProperties
<1>4. DOMAIN Members = 1 .. numChats
  BY DEF Members
<1>5. Len(Members) = numChats
  BY <1>1, <1>3, <1>4
<1> QED
  BY <1>1, <1>2, <1>4, <1>5 DEF Members

(* Whoever has no descriptor is not in the room. *)
LEMMA NotInRoom ==
  ASSUME IInv, NEW c \in Clients, ~Accepted(c)
  PROVE  {k \in DOMAIN Members : Members[k] = c} = {}
BY MembersSeq, Rows DEF Accepted, Chatter

LEMMA RoomKept ==
  ASSUME UNCHANGED <<tables, heard, alive>>
  PROVE  UNCHANGED Room!avars
BY DEF Room!avars, tables, numChats, Chatter

LEMMA RoomUser ==
  ASSUME IInv, NEW c \in Clients, User(c)
  PROVE  [Room!ANext]_(Room!avars)
<1>1. CASE Connect(c)
  <2>1. ~Accepted(c)
    BY <1>1 DEF Connect, IInv, OnePlaceEach
  <2>2. {k \in DOMAIN Members : Members[k] = c} = {}
    BY <2>1, NotInRoom
  <2>3. /\ heard' = [heard EXCEPT ![c] = << >>]
        /\ UNCHANGED <<tables, alive>>
    BY <1>1 DEF Connect
  <2>4. Members' = Members /\ UNCHANGED <<name_chats, alive>>
    BY <2>3 DEF Members, tables, numChats, Chatter
  <2> QED
    BY <2>2, <2>3, <2>4 DEF Room!ANext, Room!Arrive, Room!Place, Members
<1>2. ASSUME NEW m \in Messages, Send(c, m) PROVE UNCHANGED Room!avars
  BY <1>2, RoomKept DEF Send
<1>3. CASE Quit(c) \/ ResetArrives(c)
  BY <1>3, RoomKept DEF Quit, ResetArrives
<1> QED
  BY <1>1, <1>2, <1>3 DEF User

LEMMA RoomAccept ==
  ASSUME IInv, Bounds, Accept
  PROVE  Room!ANext
<1> DEFINE h == Head(waiting)
<1>1. waiting # << >> /\ waiting' = Tail(waiting)
  BY DEF Accept, IInv, StillReadable
<1>2. h \in Clients /\ ~Accepted(h)
  BY <1>1, Dequeue
<1>3. {k \in DOMAIN Members : Members[k] = h} = {}
  BY <1>2, NotInRoom
<1>4. /\ Members \in Seq(Clients) /\ Len(Members) = numChats /\ numChats \in Nat
      /\ numChats <= MAX_CHATS /\ MAX_CHATS \in Nat /\ alive
  BY MembersSeq, ConstFacts DEF IInv, TypeInv, Accept
<1>5. CASE numChats >= MAX_CHATS
  <2>1. /\ heard' = [heard EXCEPT ![h] = Append(@, [sorry |-> TRUE])]
        /\ UNCHANGED <<tables, alive>>
    BY <1>5 DEF Accept
  <2>2. Members' = Members /\ UNCHANGED <<name_chats, alive>>
    BY <2>1 DEF Members, tables, numChats, Chatter
  <2>3. numChats = MAX_CHATS
    BY <1>4, <1>5
  <2>4. Len(Members) = MAX_CHATS
    BY <1>4, <2>3
  <2> QED
    BY <1>2, <1>3, <1>4, <2>1, <2>2, <2>4 DEF Room!ANext, Room!TurnAway, Room!Place, Members
<1>6. CASE ~(numChats >= MAX_CHATS)
  <2>1. addChatter(h) /\ UNCHANGED <<client, alive>> /\ numChats < MAX_CHATS
    BY <1>4, <1>6 DEF Accept
  <2>2. /\ numChats' = numChats + 1 /\ FreeFd \in Fds
        /\ \A k \in 1 .. numChats : Chatter(k)' = Chatter(k)
        /\ fd_chats'[numChats + 1] = FreeFd
    BY <1>1, <2>1, Added
  <2>3. ASSUME NEW k \in 1 .. numChats + 1
        PROVE  Chatter(k)' = IF k = numChats + 1 THEN h ELSE Chatter(k)
    <3>1. owner' = [owner EXCEPT ![FreeFd] = h] /\ owner \in [Fds -> Clients \cup {NoClient}]
      BY <2>1 DEF addChatter, IInv, TypeInv
    <3>2. owner'[FreeFd] = h
      BY <2>2, <3>1
    <3>3. k = numChats + 1 \/ k \in 1 .. numChats
      BY <1>4
    <3>4. k = numChats + 1 => Chatter(k)' = h
      BY <2>2, <3>2 DEF Chatter
    <3> QED
      BY <1>4, <2>2, <3>3, <3>4
  <2>4. IInv'
    BY ServerSteps DEF Server
  <2>5. Members' = Append(Members, h)
    <3>1. /\ Members' \in Seq(Clients) /\ Len(Members') = numChats + 1
          /\ \A k \in 1 .. numChats + 1 : Members'[k] = Chatter(k)'
      <4>1. Members' = [k \in 1 .. numChats' |-> Chatter(k)']
        BY DEF Members
      <4>2. \A k \in 1 .. numChats' : Chatter(k)' \in Clients
        <5>1. \A k \in 1 .. numChats : Chatter(k) \in Clients
          BY Rows
        <5> QED
          BY <1>2, <1>4, <2>2, <2>3, <5>1
      <4>3. Members' \in Seq(Clients)
        BY <1>4, <2>2, <4>1, <4>2, SeqDef
      <4>4. DOMAIN Members' = 1 .. Len(Members') /\ Len(Members') \in Nat
        BY <4>3, LenProperties
      <4>5. Len(Members') = numChats + 1
        BY <1>4, <2>2, <4>1, <4>4
      <4> QED
        BY <2>2, <4>1, <4>3, <4>5
    <3>2. /\ Append(Members, h) \in Seq(Clients) /\ Len(Append(Members, h)) = numChats + 1
          /\ \A k \in 1 .. numChats : Append(Members, h)[k] = Chatter(k)
          /\ Append(Members, h)[numChats + 1] = h
      BY <1>2, <1>4, MembersSeq, AppendProperties
    <3>3. \A k \in 1 .. numChats + 1 : Members'[k] = Append(Members, h)[k]
      BY <1>4, <2>2, <2>3, <3>1, <3>2
    <3> QED
      BY <3>1, <3>2, <3>3, SeqEqual
  <2>6. /\ name_chats' = Append(name_chats, Unknown(Len(Members)))
        /\ heard' = [heard EXCEPT ![h] = Append(@, [welcome |-> name_chats])]
        /\ UNCHANGED alive
    BY <1>4, <2>1 DEF addChatter
  <2> QED
    BY <1>2, <1>3, <1>4, <2>1, <2>5, <2>6 DEF Room!ANext, Room!Join, Room!Place, Members
<1> QED
  BY <1>5, <1>6

(* One read() renames a member, is heard by all of them, or by those before   *)
(* the first one whose connection is reset.                                   *)
LEMMA RoomRead ==
  ASSUME IInv, Bounds, Read
  PROVE  Room!ANext
<1> DEFINE h == Chatter(i)
<1>1. /\ numChats \in Nat /\ i \in 1 .. numChats /\ h \in Clients /\ alive
      /\ \A k \in 1 .. numChats : Chatter(k) \in Clients
  BY Rows DEF Read, Due, IInv, TypeInv
<1>2. PICK n \in 1 .. Len(inbox[h]) :
        IF Head(SubSeq(inbox[h], 1, n)) \in Name
          THEN Rename(i, SubSeq(inbox[h], 1, n)) ELSE Broadcast(i, SubSeq(inbox[h], 1, n))
  BY DEF Read
<1>3. Members' = Members
  BY DEF Read, Members, numChats, Chatter
<1>4. DOMAIN Members = 1 .. numChats /\ Len(Members) = numChats
      /\ \A k \in 1 .. numChats : Members[k] = Chatter(k)
  BY MembersSeq
<1> DEFINE t == SubSeq(inbox[h], 1, n)
<1>5. t \in Chunks /\ Head(t) \in Speech \cup Name
  BY <1>1, ReadChunk DEF Messages
<1> HIDE DEF h, t
<1>6. CASE Head(t) \in Name
  <2>1. Rename(i, t)
    BY <1>2, <1>6 DEF t
  <2>2. /\ name_chats' = [name_chats EXCEPT ![i] = Called(t)] /\ UNCHANGED <<heard, alive>>
        /\ Called(t) \in {Called(v) : v \in {u \in Chunks : Head(u) \in Name}}
    BY <1>5, <1>6, <2>1 DEF Rename
  <2> QED
    BY <1>1, <1>3, <1>4, <2>2 DEF Room!ANext, Room!Rename, Members
<1>7. CASE Head(t) \notin Name
  <2> DEFINE Broken == {j \in 1 .. numChats : Chatter(j) \in reset}
             Heard(last) == [c \in Clients |->
                               IF \E j \in {k \in DOMAIN Members : Members[k] = c} : j <= last
                                 THEN Append(heard[c], [from |-> name_chats[i], text |-> t])
                                 ELSE heard[c]]
  <2>1. Broadcast(i, t)
    BY <1>2, <1>7 DEF t
  <2>2. t \in {u \in Chunks : Head(u) \in Speech}
    BY <1>5, <1>7
  <2>3. /\ alive' = (Broken = {}) /\ UNCHANGED name_chats
        /\ heard' = [c \in Clients |->
                       IF \E j \in 1 .. numChats : Chatter(j) = c /\ \A b \in Broken : j < b
                         THEN Append(heard[c], [from |-> name_chats[i], text |-> t])
                         ELSE heard[c]]
    BY <2>1 DEF Broadcast
  <2>4. CASE Broken = {}
    <3>1. \A c \in Clients : (\E j \in 1 .. numChats : Chatter(j) = c /\ \A b \in Broken : j < b)
            <=> \E j \in {k \in DOMAIN Members : Members[k] = c} : j <= Len(Members)
      BY <1>1, <1>4, <2>4
    <3> HIDE DEF Broken
    <3>2. heard' = Heard(Len(Members)) /\ alive' = TRUE
      BY <2>3, <2>4, <3>1
    <3>3. Room!Hear(i, t, Len(Members))
      BY <3>2 DEF Room!Hear, Room!Place, Members
    <3>4. Room!Say(i, t)
      BY <1>1, <1>3, <2>3, <3>2, <3>3 DEF Room!Say, Members
    <3> QED
      BY <1>1, <1>4, <2>2, <3>4 DEF Room!ANext, Members
  <2>5. CASE Broken # {}
    <3>1. Broken \in SUBSET Nat
      BY <1>1
    <3>2. PICK m \in Broken : \A b \in Broken : m <= b
      <4> HIDE DEF Broken
      <4> QED
        BY <2>5, <3>1, Smallest
    <3>3. m \in 1 .. numChats
      OBVIOUS
    <3>4. \A j \in 1 .. numChats : (\A b \in Broken : j < b) <=> j <= m - 1
      BY <1>1, <3>1, <3>2, <3>3
    <3>5. \A c \in Clients : (\E j \in 1 .. numChats : Chatter(j) = c /\ \A b \in Broken : j < b)
            <=> \E j \in {k \in DOMAIN Members : Members[k] = c} : j <= m - 1
      BY <1>4, <3>4
    <3> HIDE DEF Broken
    <3>6. heard' = Heard(m - 1) /\ alive' = FALSE
      BY <2>3, <2>5, <3>5
    <3>7. m - 1 \in 0 .. Len(Members) - 1
      BY <1>1, <1>4, <3>3
    <3>8. Room!Hear(i, t, m - 1)
      BY <3>6 DEF Room!Hear, Room!Place, Members
    <3>9. Room!FallIn(i, t)
      BY <1>1, <1>3, <2>3, <3>6, <3>7, <3>8 DEF Room!FallIn, Members
    <3> QED
      BY <1>1, <1>4, <2>2, <3>9 DEF Room!ANext, Members
  <2> QED
    BY <2>4, <2>5
<1> QED
  BY <1>6, <1>7

LEMMA RoomReadEnd ==
  ASSUME IInv, Bounds, ReadEnd
  PROVE  Room!ANext
<1>1. /\ numChats \in Nat /\ i \in 1 .. numChats /\ alive
  BY Rows DEF ReadEnd, Due, IInv, TypeInv
<1>2. /\ remove_chatter(i) /\ Hangup(Chatter(i)) /\ UNCHANGED <<waiting, heard, alive>>
  BY DEF ReadEnd
<1>3. /\ numChats' = numChats - 1
  BY <1>1, <1>2, Removed
<1>4. /\ DOMAIN Members = 1 .. numChats /\ Len(Members) = numChats
      /\ \A k \in 1 .. numChats : Members[k] = Chatter(k)
  BY MembersSeq
<1>5. /\ fd_chats' = Compressed(fd_chats, i) /\ owner' = [owner EXCEPT ![fd_chats[i]] = NoClient]
      /\ name_chats' = Compressed(name_chats, i)
  BY <1>2 DEF remove_chatter
<1>6. ASSUME NEW k \in 1 .. numChats - 1
      PROVE  Chatter(k)' = IF k < i THEN Members[k] ELSE Members[k + 1]
  <2> DEFINE j == IF k < i THEN k ELSE k + 1
  <2>1. j \in 1 .. numChats /\ j # i
    BY <1>1
  <2>2. fd_chats'[k] = fd_chats[j]
    BY <1>1, <1>5, CompressedTable DEF IInv, TypeInv, numChats
  <2>3. fd_chats[j] \in Fds /\ fd_chats[j] # fd_chats[i]
    BY <1>1, <2>1, Rows DEF IInv, TableHoldsOpenFds
  <2>4. owner'[fd_chats[j]] = owner[fd_chats[j]]
    BY <1>5, <2>3 DEF IInv, TypeInv
  <2>5. Chatter(k)' = Chatter(j)
    BY <2>2, <2>4 DEF Chatter
  <2> QED
    BY <1>4, <2>1, <2>5
<1>7. Members' = [k \in 1 .. Len(Members) - 1 |-> IF k < i THEN Members[k] ELSE Members[k + 1]]
  <2>1. Members' = [k \in 1 .. numChats' |-> Chatter(k)']
    BY DEF Members
  <2> QED
    BY <1>3, <1>4, <1>6, <2>1
<1>8. name_chats' = [k \in 1 .. Len(name_chats) - 1 |->
                      IF k < i THEN name_chats[k] ELSE name_chats[k + 1]]
  BY <1>5 DEF Compressed
<1> QED
  BY <1>1, <1>2, <1>4, <1>7, <1>8 DEF Room!ANext, Room!Leave, Members

LEMMA RoomStep == IInv /\ Bounds /\ [ChatNext]_chatVars => [Room!ANext]_(Room!avars)
<1> SUFFICES ASSUME IInv, Bounds, [ChatNext]_chatVars PROVE [Room!ANext]_(Room!avars)
  OBVIOUS
<1>1. ASSUME Select \/ AcceptFails \/ NoAccept \/ Skip \/ RoundEnds \/ UNCHANGED chatVars
      PROVE  UNCHANGED Room!avars
  BY <1>1, RoomKept DEF Select, AcceptFails, NoAccept, Skip, RoundEnds, users, chatVars
<1> QED
  BY <1>1, RoomUser, RoomAccept, RoomRead, RoomReadEnd DEF ChatNext, Server

LEMMA RoomInit == ChatInit => Room!AInit
<1> SUFFICES ASSUME ChatInit PROVE Room!AInit
  OBVIOUS
<1>1. /\ numChats = 0 /\ name_chats = << >> /\ alive = TRUE
      /\ heard = [c \in Clients |-> << >>]
  BY EmptySeq DEF ChatInit, numChats
<1>2. Members = << >>
  BY <1>1 DEF Members
<1> QED
  BY <1>1, <1>2 DEF Room!AInit, Members

(* The server is the room: whoever is in its table is greeted, heard by       *)
(* exactly those present and shown under its own name, at every step.         *)
THEOREM IsRoom == ChatSpec => ImplementsRoom
<1> QED
  BY BoundsHold, RoomInit, RoomStep, PTL DEF ChatSpec, ImplementsRoom, Room!ASpec
=============================================================================
