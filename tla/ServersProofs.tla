---------------------------- MODULE ServersProofs ----------------------------
(***************************************************************************)
(* The tables of the three servers, for any number of users: the datagram  *)
(* chat, the welcome server and the chat server with logging children.     *)
(***************************************************************************)
EXTENDS SelectServer, UdpChat, WelcomeServer, FiniteSetTheorems, SequenceTheorems,
        NaturalsInduction, WellFoundedInduction, TLAPS

(* A set of numbers has a least element. *)
LEMMA Least ==
  ASSUME NEW K, K \subseteq Nat, K # {}
  PROVE  \E k \in K : \A j \in K : k <= j
<1>1. IsWellFoundedOn(OpToRel(<, Nat), Nat)
  BY NatLessThanWellFounded
<1>2. \E k \in K : \A j \in K : ~(<<j, k>> \in OpToRel(<, Nat))
  BY <1>1, WFMin
<1>3. \A j, k \in K : ~(j < k) => k <= j
  OBVIOUS
<1> QED
  BY <1>2, <1>3 DEF OpToRel

-----------------------------------------------------------------------------
(* The datagram chat: rows are filled from the first on, each by one talker   *)
(* under a number of its own, and what was sent to talkers tells these numbers.*)

Address == \A s \in Slots : s < NumClients => ClientAddr[s] \in Talkers
Rewritten == \A s \in Slots : s < NumClients /\ s # 2 => ClientAddrArry[s] = ClientAddr[s]
Numbered == \A s \in Slots : s < NumClients =>
              /\ ClientId[s] \in Nat
              /\ Welcome(ClientId[s]) \in heard[ClientAddr[s]]
Told == \A t \in Talkers : \A m \in heard[t] :
          \/ \E id \in Nat : m = Welcome(id) /\ id < CurrntId
          \/ \E id \in Nat, d \in [from : Talkers, text : Nat] :
               m = Line(id, d) /\ Welcome(id) \in heard[d.from]
WelcomedOnce == \A t, u \in Talkers : \A id \in Nat :
                  Welcome(id) \in heard[t] /\ Welcome(id) \in heard[u] => t = u

UdpInv == /\ UdpTypeOK /\ DOMAIN heard = Talkers
          /\ OneRowEach /\ Address /\ Rewritten
          /\ Numbered /\ Told /\ WelcomedOnce

(* The two kinds of messages, told apart. *)
LEMMA MessageForms ==
  /\ \A id, j : Welcome(id) = Welcome(j) => id = j
  /\ \A id : "text" \notin DOMAIN Welcome(id)
  /\ \A id, d : "text" \in DOMAIN Line(id, d) /\ "welcome" \notin DOMAIN Line(id, d)
  /\ \A id, d : Line(id, d).id = id /\ Line(id, d).from = d.from
<1>1. ASSUME NEW id, NEW j, Welcome(id) = Welcome(j) PROVE id = j
  <2>1. Welcome(id).welcome = id /\ Welcome(j).welcome = j
    BY DEF Welcome
  <2> QED
    BY <1>1, <2>1
<1>2. \A id : DOMAIN Welcome(id) = {"welcome"}
  BY DEF Welcome
<1>3. \A id, d : DOMAIN Line(id, d) = {"id", "from", "text"}
  BY DEF Line
<1>4. \A id, d : Line(id, d).id = id /\ Line(id, d).from = d.from
  BY DEF Line
<1> QED
  BY <1>1, <1>2, <1>3, <1>4

(* What was received was sent by a talker. *)
LEMMA SentByTalker ==
  ASSUME UdpTypeOK, NEW d \in Sent
  PROVE  d \in [from : Talkers, text : Nat]
BY DEF Sent, UdpTypeOK

(* The loop stops at the talker's row, or else at the first that is free. *)
LEMMA LookUp ==
  ASSUME UdpInv, NEW t \in Talkers, Found(t) # {}
  PROVE  /\ FirstFound(t) \in Found(t) /\ FirstFound(t) \in Slots
         /\ \A q \in Found(t) : FirstFound(t) <= q
         /\ ClientId[FirstFound(t)] = NotUsed => FirstFound(t) = NumClients
<1>1. Found(t) \subseteq Slots /\ Slots \subseteq Nat
  BY DEF Found, Slots
<1>2. \E k \in Found(t) : \A j \in Found(t) : k <= j
  BY <1>1, Least
<1>3. /\ FirstFound(t) \in Found(t) /\ FirstFound(t) \in Slots
      /\ \A q \in Found(t) : FirstFound(t) <= q
  BY <1>1, <1>2 DEF FirstFound
<1>4. ASSUME ClientId[FirstFound(t)] = NotUsed
      PROVE  FirstFound(t) = NumClients
  <2>1. NumClients \in Nat /\ TableSize \in Nat /\ FirstFound(t) \in Nat /\ FirstFound(t) < TableSize
    BY <1>3, UdpChatAssumption DEF UdpInv, UdpTypeOK, Slots
  <2>2. ~(FirstFound(t) < NumClients)
    BY <1>3, <1>4 DEF UdpInv, OneRowEach
  <2>3. NumClients \in Slots
    BY <2>1, <2>2 DEF Slots
  <2>4. ClientId[NumClients] = NotUsed
    BY <2>1, <2>3 DEF UdpInv, OneRowEach
  <2>5. NumClients \in Found(t)
    BY <2>3, <2>4 DEF Found
  <2> QED
    BY <1>3, <2>1, <2>2, <2>5
<1> QED
  BY <1>3, <1>4

(* A new talker takes the next row. *)
LEMMA RegisterStep ==
  ASSUME UdpInv, NEW t \in Talkers, Found(t) # {}, Register(t, FirstFound(t)), UNCHANGED said
  PROVE  UdpInv'
<1> DEFINE s == FirstFound(t)
<1>0. /\ ClientId[s] = NotUsed
      /\ ClientAddr' = [ClientAddr EXCEPT ![s] = t]
      /\ ClientAddrArry' = [ClientAddrArry EXCEPT ![s] = t]
      /\ ClientId' = [ClientId EXCEPT ![s] = CurrntId]
      /\ heard' = [heard EXCEPT ![t] = @ \cup {Welcome(CurrntId)}]
      /\ CurrntId' = CurrntId + 1 /\ NumClients' = NumClients + 1
      /\ UNCHANGED listening
  BY DEF Register, RegisterCounting
<1>1. /\ s \in Slots /\ s = NumClients /\ s \in Nat /\ s < TableSize /\ TableSize \in Nat
      /\ \A q \in Slots : q < s => ClientId[q] # NotUsed /\ ClientAddr[q] # t
  <2>1. s \in Slots /\ s = NumClients /\ \A q \in Found(t) : s <= q
    BY <1>0, LookUp
  <2>2. s \in Nat /\ s < TableSize /\ TableSize \in Nat
    BY <2>1, UdpChatAssumption DEF Slots
  <2>3. ASSUME NEW q \in Slots, q < s PROVE q \notin Found(t)
    BY <2>1, <2>2, <2>3 DEF Slots
  <2> QED
    BY <2>1, <2>2, <2>3 DEF Found, Matches
<1> HIDE DEF s
<1>2. CurrntId \in Nat /\ t # Nowhere /\ NotUsed \notin Nat
  BY UdpChatAssumption DEF UdpInv, UdpTypeOK, NotUsed
<1>3. UdpTypeOK' /\ DOMAIN heard' = Talkers
  <2>1. /\ ClientId' \in [Slots -> Nat \cup {NotUsed}]
        /\ ClientAddr' \in [Slots -> Talkers \cup {Nowhere}]
        /\ ClientAddrArry' \in [Slots -> Talkers \cup {Nowhere}]
    BY <1>0, <1>1, <1>2 DEF UdpInv, UdpTypeOK
  <2>2. NumClients' \in 0 .. TableSize /\ CurrntId' \in Nat
    BY <1>0, <1>1, <1>2
  <2> QED
    BY <1>0, <2>1, <2>2 DEF UdpInv, UdpTypeOK
<1>4. /\ ClientId'[s] = CurrntId /\ ClientAddr'[s] = t /\ ClientAddrArry'[s] = t
      /\ \A q \in Slots : q # s => /\ ClientId'[q] = ClientId[q] /\ ClientAddr'[q] = ClientAddr[q]
                                   /\ ClientAddrArry'[q] = ClientAddrArry[q]
  BY <1>0, <1>1 DEF UdpInv, UdpTypeOK
<1>5. \A q \in Slots : q \in Nat /\ (q < NumClients' <=> q < s \/ q = s)
  BY <1>0, <1>1 DEF Slots
<1>6. OneRowEach'
  <2>1. ASSUME NEW q \in Slots PROVE (ClientId'[q] # NotUsed) = (q < NumClients')
    BY <1>1, <1>2, <1>4, <1>5 DEF UdpInv, OneRowEach
  <2>2. ASSUME NEW q \in 0 .. NumClients' - 1, NEW r \in 0 .. NumClients' - 1,
               ClientAddr'[q] = ClientAddr'[r]
        PROVE  q = r
    <3>1. q \in Slots /\ r \in Slots /\ (q = s \/ q \in 0 .. NumClients - 1) /\ (r = s \/ r \in 0 .. NumClients - 1)
      BY <1>0, <1>1 DEF Slots
    <3>2. \A i \in 0 .. NumClients - 1 : i # s /\ ClientAddr[i] # t
      BY <1>1 DEF Slots
    <3> QED
      BY <1>4, <2>2, <3>1, <3>2 DEF UdpInv, OneRowEach
  <2> QED
    BY <2>1, <2>2 DEF OneRowEach
<1>7. Address' /\ Rewritten'
  BY <1>1, <1>4, <1>5 DEF UdpInv, Address, Rewritten
<1>8. \A u \in Talkers : heard[u] \subseteq heard'[u]
  BY <1>0 DEF UdpInv
<1>9. Welcome(CurrntId) \in heard'[t]
  BY <1>0 DEF UdpInv
<1>10. Numbered'
  <2> SUFFICES ASSUME NEW q \in Slots, q < NumClients'
               PROVE  ClientId'[q] \in Nat /\ Welcome(ClientId'[q]) \in heard'[ClientAddr'[q]]
    BY DEF Numbered
  <2>1. CASE q = s
    BY <1>2, <1>4, <1>9, <2>1
  <2>2. CASE q # s
    <3>1. /\ ClientId[q] \in Nat /\ Welcome(ClientId[q]) \in heard[ClientAddr[q]]
          /\ ClientAddr[q] \in Talkers
      BY <1>1, <1>5, <2>2 DEF UdpInv, Numbered, Address
    <3> QED
      BY <1>4, <1>8, <2>2, <3>1
  <2> QED
    BY <2>1, <2>2
<1>11. Told'
  <2> SUFFICES ASSUME NEW u \in Talkers, NEW m \in heard'[u]
               PROVE  \/ \E id \in Nat : m = Welcome(id) /\ id < CurrntId'
                      \/ \E id \in Nat, d \in [from : Talkers, text : Nat] :
                           m = Line(id, d) /\ Welcome(id) \in heard'[d.from]
    BY DEF Told
  <2>1. m \in heard[u] \/ m = Welcome(CurrntId)
    BY <1>0 DEF UdpInv
  <2>2. CASE m = Welcome(CurrntId)
    BY <1>0, <1>2, <2>2
  <2>3. CASE \E id \in Nat : m = Welcome(id) /\ id < CurrntId
    BY <1>0, <1>2, <2>3
  <2>4. CASE \E id \in Nat, d \in [from : Talkers, text : Nat] :
               m = Line(id, d) /\ Welcome(id) \in heard[d.from]
    BY <1>8, <2>4
  <2> QED
    BY <2>1, <2>2, <2>3, <2>4 DEF UdpInv, Told
<1>12. WelcomedOnce'
  <2>1. ASSUME NEW u \in Talkers PROVE Welcome(CurrntId) \notin heard[u]
    <3> SUFFICES ASSUME Welcome(CurrntId) \in heard[u]
                 PROVE  FALSE
      OBVIOUS
    <3>1. CASE \E id \in Nat : Welcome(CurrntId) = Welcome(id) /\ id < CurrntId
      BY <1>2, <3>1, MessageForms
    <3>2. CASE \E id \in Nat, d \in [from : Talkers, text : Nat] : Welcome(CurrntId) = Line(id, d)
      BY <3>2, MessageForms
    <3> QED
      BY <3>1, <3>2 DEF UdpInv, Told
  <2> SUFFICES ASSUME NEW u \in Talkers, NEW v \in Talkers, NEW id \in Nat,
                      Welcome(id) \in heard'[u], Welcome(id) \in heard'[v]
               PROVE  u = v
    BY DEF WelcomedOnce
  <2>2. CASE id = CurrntId
    <3>1. \A w \in Talkers : Welcome(CurrntId) \in heard'[w] => w = t
      BY <1>0, <2>1 DEF UdpInv
    <3> QED
      BY <2>2, <3>1
  <2>3. CASE id # CurrntId
    <3>1. \A w \in Talkers : Welcome(id) \in heard'[w] => Welcome(id) \in heard[w]
      BY <1>0, <2>3, MessageForms DEF UdpInv
    <3> QED
      BY <3>1 DEF UdpInv, WelcomedOnce
  <2> QED
    BY <2>2, <2>3
<1> QED
  BY <1>3, <1>6, <1>7, <1>10, <1>11, <1>12 DEF UdpInv

(* A text is passed on; the third row may lose its port. *)
LEMMA PassOnStep ==
  ASSUME UdpInv, NEW d \in [from : Talkers, text : Nat], NEW s \in Slots, PassOn(d, s), UNCHANGED said
  PROVE  UdpInv'
<1>0. /\ Matches(s, d.from) /\ ClientAddrArry' \in AfterTerminating
      /\ UNCHANGED <<ClientId, ClientAddr, NumClients, CurrntId>>
      /\ listening' \in BOOLEAN /\ DOMAIN heard' = Talkers
      /\ \A t \in Talkers : heard'[t] = heard[t] \/ heard'[t] = heard[t] \cup {Line(ClientId[s], d)}
  BY DEF PassOn, PassOnTo
<1>1. /\ ClientAddrArry' \in [Slots -> Talkers \cup {Nowhere}]
      /\ \A q \in Slots : q # 2 => ClientAddrArry'[q] = ClientAddrArry[q]
  BY <1>0 DEF AfterTerminating, UdpInv, UdpTypeOK
<1>2. UdpTypeOK'
  BY <1>0, <1>1 DEF UdpInv, UdpTypeOK
<1>3. s < NumClients /\ ClientAddr[s] = d.from /\ d.from \in Talkers
  BY <1>0 DEF Matches, UdpInv, OneRowEach
<1>4. OneRowEach' /\ Address'
  BY <1>0 DEF UdpInv, OneRowEach, Address
<1>5. Rewritten'
  BY <1>0, <1>1 DEF UdpInv, Rewritten
<1>6. \A t \in Talkers : heard[t] \subseteq heard'[t]
  BY <1>0
<1>7. Numbered'
  BY <1>0, <1>6 DEF UdpInv, Numbered, Address
<1>8. ClientId[s] \in Nat /\ Welcome(ClientId[s]) \in heard[d.from]
  BY <1>3 DEF UdpInv, Numbered
<1>9. Told'
  <2> SUFFICES ASSUME NEW u \in Talkers, NEW m \in heard'[u]
               PROVE  \/ \E id \in Nat : m = Welcome(id) /\ id < CurrntId'
                      \/ \E id \in Nat, e \in [from : Talkers, text : Nat] :
                           m = Line(id, e) /\ Welcome(id) \in heard'[e.from]
    BY DEF Told
  <2>1. m \in heard[u] \/ m = Line(ClientId[s], d)
    BY <1>0
  <2>2. CASE m = Line(ClientId[s], d)
    BY <1>3, <1>6, <1>8, <2>2
  <2>3. CASE m \in heard[u]
    BY <1>0, <1>6, <2>3 DEF UdpInv, Told
  <2> QED
    BY <2>1, <2>2, <2>3
<1>10. WelcomedOnce'
  <2>1. ASSUME NEW id PROVE Welcome(id) # Line(ClientId[s], d)
    BY MessageForms
  <2>2. \A t \in Talkers, id \in Nat : Welcome(id) \in heard'[t] => Welcome(id) \in heard[t]
    BY <1>0, <2>1
  <2> QED
    BY <2>2 DEF UdpInv, WelcomedOnce
<1> QED
  BY <1>0, <1>2, <1>4, <1>5, <1>7, <1>9, <1>10 DEF UdpInv

LEMMA UdpStutters ==
  ASSUME UdpInv, said' \in [Talkers -> Nat], UNCHANGED <<heard, tableVars, listening>>
  PROVE  UdpInv'
BY DEF UdpInv, UdpTypeOK, OneRowEach, Address, Rewritten, Numbered, Told, WelcomedOnce, tableVars

LEMMA UdpInitHolds == UdpInit => UdpInv
<1> SUFFICES ASSUME UdpInit
             PROVE  UdpInv
  OBVIOUS
<1>1. UdpTypeOK /\ NumClients = 0 /\ DOMAIN heard = Talkers
  BY UdpChatAssumption DEF UdpInit, UdpTypeOK
<1>2. \A s \in Slots : ~(s < NumClients) /\ ClientId[s] = NotUsed
  BY <1>1 DEF UdpInit, Slots
<1>3. OneRowEach
  BY <1>1, <1>2 DEF OneRowEach
<1>4. Told /\ WelcomedOnce
  BY DEF UdpInit, Told, WelcomedOnce
<1> QED
  BY <1>1, <1>2, <1>3, <1>4 DEF UdpInv, Address, Rewritten, Numbered

LEMMA UdpStep == UdpInv /\ [UdpNext]_udpVars => UdpInv'
<1> SUFFICES ASSUME UdpInv, [UdpNext]_udpVars
             PROVE  UdpInv'
  OBVIOUS
<1>1. ASSUME NEW t \in Talkers, Talk(t) PROVE UdpInv'
  BY <1>1, UdpStutters DEF Talk, UdpInv, UdpTypeOK
<1>2. ASSUME NEW d \in Sent, Receive(d) PROVE UdpInv'
  <2>1. d \in [from : Talkers, text : Nat] /\ d.from \in Talkers
    BY SentByTalker DEF UdpInv
  <2>2. CASE Found(d.from) # {} /\ Register(d.from, FirstFound(d.from))
    BY <1>2, <2>1, <2>2, RegisterStep DEF Receive
  <2>3. CASE Found(d.from) # {} /\ PassOn(d, FirstFound(d.from))
    BY <1>2, <2>1, <2>3, LookUp, PassOnStep DEF Receive
  <2>4. CASE Ignore(d.from)
    BY <1>2, <2>4, UdpStutters DEF Receive, Ignore, UdpInv, UdpTypeOK
  <2> QED
    BY <1>2, <2>2, <2>3, <2>4 DEF Receive
<1>3. CASE UNCHANGED udpVars
  BY <1>3, UdpStutters DEF udpVars, UdpInv, UdpTypeOK
<1> QED
  BY <1>1, <1>2, <1>3 DEF UdpNext

LEMMA UdpInductive == UdpSpec => []UdpInv
BY UdpInitHolds, UdpStep, PTL DEF UdpSpec

(* Whatever datagrams are lost, repeated or overtaken: each talker takes one   *)
(* row and no row is passed over, a text is passed on under the number its     *)
(* sender was welcomed by, and no two talkers were welcomed by the same one.   *)
THEOREM TableOfTalkers == UdpSpec => []TalkersRight
<1>1. UdpInv => TalkersRight
  <2> SUFFICES ASSUME UdpInv
               PROVE  SenderKnown
    BY DEF UdpInv, TalkersRight
  <2>1. ASSUME NEW t \in Talkers, NEW m \in heard[t], "text" \in DOMAIN m
        PROVE  Welcome(m.id) \in heard[m.from]
    <3>1. PICK id \in Nat, d \in [from : Talkers, text : Nat] :
            m = Line(id, d) /\ Welcome(id) \in heard[d.from]
      BY <2>1, MessageForms DEF UdpInv, Told
    <3> QED
      BY <3>1, MessageForms
  <2>2. ASSUME NEW t \in Talkers, NEW u \in Talkers, NEW m \in heard[t] \cap heard[u],
               "welcome" \in DOMAIN m
        PROVE  t = u
    <3>1. PICK id \in Nat : m = Welcome(id)
      BY <2>2, MessageForms DEF UdpInv, Told
    <3> QED
      BY <3>1 DEF UdpInv, WelcomedOnce
  <2> QED
    BY <2>1, <2>2 DEF SenderKnown
<1> QED
  BY <1>1, UdpInductive, PTL

(* Who is in the table hears every text that is passed on, but the third row, *)
(* whose port the listener may overwrite.                                     *)
THEOREM TextsReachAll == UdpSpec => AllButThirdHear
<1> DEFINE A == \A s \in 0 .. NumClients - 1 : \A t \in Talkers : \A m \in heard'[t] \ heard[t] :
                  "text" \in DOMAIN m /\ s # 2 /\ listening' => m \in heard'[ClientAddr[s]]
<1>1. UdpInv /\ [UdpNext]_udpVars => [A]_udpVars
  <2> SUFFICES ASSUME UdpInv, [UdpNext]_udpVars,
                      NEW s \in 0 .. NumClients - 1, NEW t \in Talkers, NEW m \in heard'[t] \ heard[t],
                      "text" \in DOMAIN m, s # 2, listening'
               PROVE  m \in heard'[ClientAddr[s]]
    OBVIOUS
  <2>1. s \in Slots /\ s < NumClients /\ ClientAddr[s] \in Talkers /\ ClientAddrArry[s] = ClientAddr[s]
    BY UdpChatAssumption DEF UdpInv, UdpTypeOK, Slots, Address, Rewritten
  <2>2. ASSUME NEW d \in Sent, Receive(d) PROVE m \in heard'[ClientAddr[s]]
    <3>1. CASE Register(d.from, FirstFound(d.from))
      <4>1. d.from \in Talkers
        BY SentByTalker DEF UdpInv
      <4>2. m = Welcome(CurrntId)
        BY <3>1, <4>1 DEF Register, RegisterCounting, UdpInv
      <4> QED
        BY <4>2, MessageForms
    <3>2. CASE PassOn(d, FirstFound(d.from))
      <4>1. /\ ClientAddrArry' \in AfterTerminating
            /\ \A u \in Talkers : heard'[u] =
                 IF \E q \in 0 .. NumClients - 1 : ClientAddrArry'[q] = u
                 THEN heard[u] \cup {Line(ClientId[FirstFound(d.from)], d)} ELSE heard[u]
        BY <3>2 DEF PassOn, PassOnTo
      <4>2. ClientAddrArry'[s] = ClientAddr[s]
        BY <2>1, <4>1 DEF AfterTerminating, UdpInv, UdpTypeOK
      <4> QED
        BY <2>1, <4>1, <4>2
    <3>3. CASE Ignore(d.from)
      BY <3>3 DEF Ignore
    <3> QED
      BY <2>2, <3>1, <3>2, <3>3 DEF Receive
  <2>3. ~UNCHANGED heard
    OBVIOUS
  <2> QED
    BY <2>2, <2>3 DEF UdpNext, Talk, udpVars
<1> QED
  BY <1>1, UdpInductive, PTL DEF UdpSpec, AllButThirdHear

-----------------------------------------------------------------------------
(* The welcome server: a caller that is no longer idle is in the queue, with   *)
(* the parent or with a child, unless fork() failed for it.                    *)

Accounting == \A c \in Callers : caller[c] # "idle" =>
                InQueue(c) \/ new_fd = c \/ HasChild(c) \/ c \in refused
Forking == IF new_fd = NoCaller THEN ~forked
           ELSE forked => HasChild(new_fd) \/ new_fd \in refused
WelInv == WelTypeOK /\ Accounting /\ Forking /\ UnansweredOnlyIfRefused

(* The queue. *)
LEMMA Appended ==
  ASSUME WelTypeOK, NEW c \in Callers, pending' = Append(pending, c)
  PROVE  pending' \in Seq(Callers) /\ \A d : InQueue(d) \/ d = c => InQueue(d)'
<1>1. /\ pending \in Seq(Callers) /\ pending' \in Seq(Callers) /\ Len(pending) \in Nat
      /\ Len(pending') = Len(pending) + 1
      /\ \A k \in 1 .. Len(pending) : pending'[k] = pending[k]
      /\ pending'[Len(pending) + 1] = c
  BY AppendProperties, LenProperties DEF WelTypeOK
<1>2. /\ DOMAIN pending = 1 .. Len(pending) /\ DOMAIN pending' = 1 .. Len(pending')
  BY <1>1, LenProperties
<1>3. Len(pending) + 1 \in DOMAIN pending' /\ DOMAIN pending \subseteq DOMAIN pending'
  BY <1>1, <1>2
<1> QED
  BY <1>1, <1>2, <1>3 DEF InQueue

LEMMA Dequeued ==
  ASSUME WelTypeOK, pending # << >>, pending' = Tail(pending)
  PROVE  /\ pending' \in Seq(Callers) /\ Head(pending) \in Callers
         /\ \A d : InQueue(d) => InQueue(d)' \/ d = Head(pending)
<1>1. /\ pending \in Seq(Callers) /\ Len(pending) \in Nat /\ pending' \in Seq(Callers)
      /\ Head(pending) \in Callers /\ Head(pending) = pending[1]
      /\ Len(pending') = Len(pending) - 1
      /\ \A k \in 1 .. Len(pending) - 1 : pending'[k] = pending[k + 1]
  BY HeadTailProperties, LenProperties DEF WelTypeOK
<1>2. /\ DOMAIN pending = 1 .. Len(pending) /\ DOMAIN pending' = 1 .. Len(pending) - 1
  BY <1>1, LenProperties
<1>3. \A k \in DOMAIN pending : k = 1 \/ (k - 1 \in DOMAIN pending' /\ pending'[k - 1] = pending[k])
  BY <1>1, <1>2
<1> QED
  BY <1>1, <1>3 DEF InQueue

LEMMA WelStep == WelInv /\ [WelNext]_welVars => WelInv'
<1> SUFFICES ASSUME WelInv, [WelNext]_welVars
             PROVE  WelInv'
  OBVIOUS
<1>0. WelTypeOK
  BY DEF WelInv
<1>1. ASSUME NEW c \in Callers, Dial(c) PROVE WelInv'
  <2>1. /\ caller' = [caller EXCEPT ![c] = "connected"] /\ pending' = Append(pending, c)
        /\ UNCHANGED <<new_fd, forked, child, refused>>
    BY <1>1 DEF Dial
  <2>2. pending' \in Seq(Callers) /\ \A d : InQueue(d) \/ d = c => InQueue(d)'
    BY <1>0, <2>1, Appended
  <2>3. WelTypeOK'
    BY <1>0, <2>1, <2>2 DEF WelTypeOK
  <2>4. \A d \in Callers : d # c => caller'[d] = caller[d]
    BY <1>0, <2>1 DEF WelTypeOK
  <2>5. Accounting'
    BY <2>1, <2>2, <2>4 DEF WelInv, Accounting, HasChild
  <2>6. Forking' /\ UnansweredOnlyIfRefused'
    BY <1>0, <2>1, <2>4 DEF WelInv, Forking, HasChild, UnansweredOnlyIfRefused, WelTypeOK
  <2> QED
    BY <2>3, <2>5, <2>6 DEF WelInv
<1>2. ASSUME NEW c \in Callers, Recv(c) PROVE WelInv'
  <2>1. /\ caller[c] = "connected" /\ UNCHANGED <<pending, new_fd, forked, child, refused>>
        /\ \/ caller' = [caller EXCEPT ![c] = "greeted"]
           \/ /\ ~WasSentTo(c) /\ ~ServerHolds(c)
              /\ caller' = [caller EXCEPT ![c] = "unanswered"]
    BY <1>2 DEF Recv
  <2>2. WelTypeOK'
    BY <1>0, <2>1 DEF WelTypeOK
  <2>3. \A d \in Callers : d # c => caller'[d] = caller[d]
    BY <1>0, <2>1 DEF WelTypeOK
  <2>4. Accounting'
    BY <2>1, <2>3 DEF WelInv, Accounting, HasChild, InQueue
  <2>5. ~WasSentTo(c) /\ ~ServerHolds(c) => c \in refused
    BY <2>1 DEF WelInv, Accounting, WasSentTo, ServerHolds, HoldsChild
  <2>6. UnansweredOnlyIfRefused'
    BY <1>0, <2>1, <2>3, <2>5 DEF WelInv, UnansweredOnlyIfRefused, WelTypeOK
  <2>7. Forking'
    BY <2>1 DEF WelInv, Forking, HasChild
  <2> QED
    BY <2>2, <2>4, <2>6, <2>7 DEF WelInv
<1>3. ASSUME NEW c \in Callers, ChildStep(c) PROVE WelInv'
  <2>1. /\ HasChild(c) /\ child[c] # "zombie" /\ child' = [child EXCEPT ![c] = After[child[c]]]
        /\ UNCHANGED <<caller, pending, new_fd, forked, refused>>
    BY <1>3 DEF ChildStep
  <2>2. child[c] \in {"run", "sent", "closed"}
    BY <1>0, <2>1 DEF WelTypeOK, HasChild
  <2>3. After["run"] = "sent" /\ After["sent"] = "closed" /\ After["closed"] = "zombie"
    BY DEF After
  <2>4. DOMAIN child' = DOMAIN child /\ \A d \in DOMAIN child' : child'[d] \in {"run", "sent", "closed", "zombie"}
    BY <1>0, <2>1, <2>2, <2>3 DEF WelTypeOK
  <2>5. WelTypeOK'
    BY <1>0, <2>1, <2>4 DEF WelTypeOK
  <2> QED
    BY <2>1, <2>4, <2>5 DEF WelInv, Accounting, Forking, UnansweredOnlyIfRefused, HasChild, InQueue
<1>4. CASE AcceptCaller
  <2>1. /\ new_fd = NoCaller /\ pending # << >> /\ new_fd' = Head(pending) /\ pending' = Tail(pending)
        /\ UNCHANGED <<caller, forked, child, refused>>
    BY <1>4 DEF AcceptCaller
  <2>2. /\ pending' \in Seq(Callers) /\ Head(pending) \in Callers
        /\ \A d : InQueue(d) => InQueue(d)' \/ d = Head(pending)
    BY <1>0, <2>1, Dequeued
  <2>3. WelTypeOK'
    BY <1>0, <2>1, <2>2 DEF WelTypeOK
  <2>4. Accounting'
    BY <2>1, <2>2, WelcomeServerAssumption DEF WelInv, Accounting, HasChild
  <2>5. Forking' /\ UnansweredOnlyIfRefused'
    BY <2>1 DEF WelInv, Forking, UnansweredOnlyIfRefused
  <2> QED
    BY <2>3, <2>4, <2>5 DEF WelInv
<1>5. CASE Fork
  <2>1. /\ new_fd # NoCaller /\ forked' = TRUE
        /\ \/ /\ child' = [c \in DOMAIN child \cup {new_fd} |-> IF HasChild(c) THEN child[c] ELSE "run"]
              /\ refused' = refused
           \/ child' = child /\ refused' = refused \cup {new_fd}
        /\ UNCHANGED <<caller, pending, new_fd>>
    BY <1>5 DEF Fork
  <2>2. new_fd \in Callers
    BY <1>0, <2>1 DEF WelTypeOK
  <2>3. /\ DOMAIN child \subseteq DOMAIN child' /\ refused \subseteq refused'
        /\ new_fd \in DOMAIN child' \cup refused'
        /\ DOMAIN child' \subseteq Callers /\ refused' \subseteq Callers
        /\ \A c \in DOMAIN child' : child'[c] \in {"run", "sent", "closed", "zombie"}
    BY <1>0, <2>1, <2>2 DEF WelTypeOK, HasChild
  <2>4. WelTypeOK'
    BY <1>0, <2>1, <2>3 DEF WelTypeOK
  <2>5. Accounting'
    BY <2>1, <2>3 DEF WelInv, Accounting, HasChild, InQueue
  <2>6. Forking' /\ UnansweredOnlyIfRefused'
    BY <2>1, <2>3 DEF WelInv, Forking, HasChild, UnansweredOnlyIfRefused
  <2> QED
    BY <2>4, <2>5, <2>6 DEF WelInv
<1>6. CASE CloseNewFd
  <2>1. /\ new_fd # NoCaller /\ forked /\ new_fd' = NoCaller /\ forked' = FALSE
        /\ UNCHANGED <<caller, pending, child, refused>>
    BY <1>6 DEF CloseNewFd
  <2>2. WelTypeOK'
    BY <1>0, <2>1 DEF WelTypeOK
  <2>3. Accounting' /\ Forking' /\ UnansweredOnlyIfRefused'
    BY <2>1 DEF WelInv, Accounting, Forking, UnansweredOnlyIfRefused, HasChild, InQueue
  <2> QED
    BY <2>2, <2>3 DEF WelInv
<1>7. CASE UNCHANGED welVars
  BY <1>7 DEF WelInv, WelTypeOK, Accounting, Forking, UnansweredOnlyIfRefused, HasChild, InQueue, welVars
<1> QED
  BY <1>1, <1>2, <1>3, <1>4, <1>5, <1>6, <1>7 DEF WelNext, WelParent

(* Only a client for which there was no process left finds its connection      *)
(* closed without the greeting, whichever of parent and child closes first.    *)
THEOREM GreetedOrRefused == WelSpec => []UnansweredOnlyIfRefused
<1>1. WelInit => WelInv
  <2> SUFFICES ASSUME WelInit
               PROVE  WelInv
    OBVIOUS
  <2>1. WelTypeOK
    <3>1. << >> \in Seq(Callers)
      OBVIOUS
    <3>2. DOMAIN child = {} /\ \A c \in Callers : caller[c] = "idle"
      BY DEF WelInit
    <3> QED
      BY <3>1, <3>2 DEF WelInit, WelTypeOK
  <2> QED
    BY <2>1 DEF WelInit, WelInv, Accounting, Forking, UnansweredOnlyIfRefused
<1>2. WelInv => UnansweredOnlyIfRefused
  BY DEF WelInv
<1> QED
  BY <1>1, <1>2, WelStep, PTL DEF WelSpec

-----------------------------------------------------------------------------
(* The chat server with logging children: each user is in one place, the      *)
(* round under way comes to every reported descriptor that is still open, and *)
(* a used row holds the number its user was welcomed by.                      *)

QueuedOnce == \A j, k \in DOMAIN queue : queue[j] = queue[k] => j = k
OwnsOne == \A f, g \in SockFds : owner[f] # NoUser /\ owner[f] = owner[g] => f = g
QueuedOwnsNone == \A k \in DOMAIN queue : \A f \in SockFds : owner[f] # queue[k]
OutsideNowhere == \A u \in Users : conn[u] = "out" =>
                    /\ \A k \in DOMAIN queue : queue[k] # u
                    /\ \A f \in SockFds : owner[f] # u
Seats == QueuedOnce /\ OwnsOne /\ QueuedOwnsNone /\ OutsideNowhere

AcceptReady == at = "accept" => queue # << >> /\ rset \subseteq allset \cup {ListenFd}
DueStay == at \in {"accept", "walk"} => \A r \in DueRows : Due(owner[client[r]])

RowNumbers == \A r \in UsedRows : NumberOf(owner[client[r]], clientID[r])
ToldForms == /\ DOMAIN told = Users
             /\ \A u \in Users : \A m \in told[u] :
                  \/ \E id \in Nat : id < currentID /\ m = WelcomeTo(id)
                  \/ \E id \in Nat, a \in Users \cup {NoUser} : m = Quote(id, a)
NumbersOnce == \A u, v \in Users : \A id \in Nat : NumberOf(u, id) /\ NumberOf(v, id) => u = v
Logged == \A e \in children : e.user \in Users /\ NumberOf(e.user, e.id)

TableInv == SelTypeOK /\ RowsAreConnections /\ Seats
RoundInv == NreadyCountsRest /\ AcceptReady /\ DueStay
NumberInv == RowNumbers /\ ToldForms /\ NumbersOnce /\ QuotedRight /\ Logged
SelInv == TableInv /\ RoundInv /\ HandlerFindsZombie /\ NumberInv

(* The rows in use and the ones still to come are finitely many. *)
LEMMA RowsUsed ==
  ASSUME SelTypeOK
  PROVE  /\ UsedRows \subseteq Rows /\ DueRows \subseteq UsedRows /\ Rows \subseteq Nat
         /\ SockFds \subseteq Nat /\ ListenFd \notin SockFds
         /\ \A r \in UsedRows : client[r] \in SockFds
         /\ IsFiniteSet(Rows) /\ Cardinality(Rows) = FD_SETSIZE
         /\ IsFiniteSet(SockFds) /\ Cardinality(SockFds) = OpenMax
         /\ IsFiniteSet(UsedRows) /\ IsFiniteSet(DueRows)
<1>1. UsedRows \subseteq Rows /\ DueRows \subseteq UsedRows /\ Rows \subseteq Nat
      /\ SockFds \subseteq Nat /\ ListenFd \notin SockFds
  BY SelectServerAssumption DEF UsedRows, DueRows, Rows, SockFds, ListenFd
<1>2. \A r \in UsedRows : client[r] \in SockFds
  BY <1>1 DEF SelTypeOK, UsedRows
<1>3. FD_SETSIZE \in Nat /\ FD_SETSIZE - 1 \in Int /\ OpenMax \in Nat \ {0} /\ 0 \in Int /\ 1 \in Int
  BY SelectServerAssumption
<1>4. IsFiniteSet(Rows) /\ Cardinality(Rows) = FD_SETSIZE
  <2>1. IsFiniteSet(Rows) /\ Cardinality(Rows) = IF 0 > FD_SETSIZE - 1 THEN 0 ELSE FD_SETSIZE - 1 - 0 + 1
    BY <1>3, FS_Interval DEF Rows
  <2> QED
    BY <1>3, <2>1
<1>5. IsFiniteSet(SockFds) /\ Cardinality(SockFds) = OpenMax
  <2>1. IsFiniteSet(SockFds) /\ Cardinality(SockFds) = IF 1 > OpenMax THEN 0 ELSE OpenMax - 1 + 1
    BY <1>3, FS_Interval DEF SockFds
  <2> QED
    BY <1>3, <2>1
<1>6. IsFiniteSet(UsedRows) /\ IsFiniteSet(DueRows)
  BY <1>1, <1>4, FS_Subset
<1> QED
  BY <1>1, <1>2, <1>4, <1>5, <1>6

(* A used row has a user, and no two rows have the same. *)
LEMMA RowsOwned ==
  ASSUME TableInv
  PROVE  /\ \A r \in UsedRows : /\ client[r] \in SockFds /\ r \in Rows /\ r \in Nat
                                /\ owner[client[r]] \in Users
         /\ \A r, q \in UsedRows : owner[client[r]] = owner[client[q]] => r = q
<1>1. \A r \in UsedRows : client[r] \in SockFds /\ r \in Rows /\ r \in Nat
  BY RowsUsed DEF TableInv
<1>2. \A r \in UsedRows : client[r] \in SockFds \ FreeSock
  BY DEF TableInv, RowsAreConnections, allset
<1>3. \A r \in UsedRows : owner[client[r]] \in Users /\ owner[client[r]] # NoUser
  BY <1>1, <1>2, SelectServerAssumption DEF FreeSock, TableInv, SelTypeOK
<1>4. \A r, q \in UsedRows : owner[client[r]] = owner[client[q]] => client[r] = client[q]
  BY <1>1, <1>3 DEF TableInv, Seats, OwnsOne
<1> QED
  BY <1>1, <1>3, <1>4 DEF TableInv, RowsAreConnections

LEMMA LowestIs ==
  ASSUME NEW S, S \subseteq Nat, S # {}
  PROVE  LowestOf(S) \in S /\ \A y \in S : LowestOf(S) <= y
BY Least DEF LowestOf

(* The row the walk has come to. *)
LEMMA DueRowIs ==
  ASSUME TableInv, DueRows # {}
  PROVE  /\ DueRow \in DueRows /\ \A r \in DueRows : DueRow <= r
         /\ DueRow \in UsedRows /\ DueRow \in Rows /\ DueRow \in Nat
         /\ client[DueRow] \in SockFds /\ client[DueRow] \in rset /\ Speaker \in Users
<1>1. DueRows \subseteq Nat /\ DueRows \subseteq UsedRows
  BY RowsUsed DEF TableInv
<1>2. DueRow \in DueRows /\ \A r \in DueRows : DueRow <= r
  BY <1>1, LowestIs DEF DueRow
<1> QED
  BY <1>1, <1>2, RowsOwned DEF Speaker, DueRows

(* As long as a descriptor is free there is a free row for it. *)
LEMMA RowForSock ==
  ASSUME TableInv, FreeSock # {}
  PROVE  /\ FreeRow \in Rows \ UsedRows
         /\ LowestOf(FreeSock) \in FreeSock /\ LowestOf(FreeSock) \in SockFds
         /\ LowestOf(FreeSock) \notin allset
<1>0. /\ UsedRows \subseteq Rows /\ Rows \subseteq Nat /\ SockFds \subseteq Nat
      /\ IsFiniteSet(Rows) /\ Cardinality(Rows) = FD_SETSIZE
      /\ IsFiniteSet(SockFds) /\ Cardinality(SockFds) = OpenMax
      /\ \A r \in UsedRows : client[r] \in SockFds
  BY RowsUsed DEF TableInv
<1>1. /\ FreeSock \subseteq Nat /\ FreeSock \subseteq SockFds
      /\ allset = SockFds \ FreeSock
  BY <1>0 DEF FreeSock, TableInv, RowsAreConnections
<1>2. LowestOf(FreeSock) \in FreeSock /\ LowestOf(FreeSock) \in SockFds /\ LowestOf(FreeSock) \notin allset
  BY <1>1, LowestIs
<1>3. UsedRows # Rows
  <2> SUFFICES ASSUME UsedRows = Rows
               PROVE  FALSE
    OBVIOUS
  <2>1. [r \in Rows |-> client[r]] \in Injection(Rows, allset)
    BY DEF Injection, TableInv, RowsAreConnections, allset, IsInjective
  <2>2. IsFiniteSet(allset) /\ Cardinality(allset) <= OpenMax /\ (Cardinality(allset) = OpenMax => allset = SockFds)
    BY <1>0, <1>1, FS_Subset
  <2>3. Cardinality(Rows) <= Cardinality(allset)
    BY <2>1, <2>2, FS_Injection
  <2>4. Cardinality(allset) \in Nat
    BY <2>2, FS_CardinalityType
  <2>5. Cardinality(allset) = OpenMax
    BY <1>0, <2>2, <2>3, <2>4, SelectServerAssumption
  <2> QED
    BY <1>2, <2>2, <2>5
<1>4. FreeRow \in Rows \ UsedRows
  BY <1>0, <1>3, LowestIs DEF FreeRow
<1> QED
  BY <1>2, <1>4

(* The two kinds of text, told apart. *)
LEMMA TextForms ==
  /\ \A id, j : WelcomeTo(id) = WelcomeTo(j) => id = j
  /\ \A id : "says" \notin DOMAIN WelcomeTo(id)
  /\ \A id, a : "says" \in DOMAIN Quote(id, a) /\ "welcome" \notin DOMAIN Quote(id, a)
  /\ \A id, a : Quote(id, a).id = id /\ Quote(id, a).says = a
  /\ \A id, j, a : WelcomeTo(id) # Quote(j, a)
<1>1. ASSUME NEW id, NEW j, WelcomeTo(id) = WelcomeTo(j) PROVE id = j
  <2>1. WelcomeTo(id).welcome = id /\ WelcomeTo(j).welcome = j
    BY DEF WelcomeTo
  <2> QED
    BY <1>1, <2>1
<1>2. \A id : DOMAIN WelcomeTo(id) = {"welcome"}
  BY DEF WelcomeTo
<1>3. \A id, a : DOMAIN Quote(id, a) = {"id", "says"}
  BY DEF Quote
<1>4. \A id, a : Quote(id, a).id = id /\ Quote(id, a).says = a
  BY DEF Quote
<1>5. "says" # "welcome" /\ "id" # "welcome"
  OBVIOUS
<1> QED
  BY <1>1, <1>2, <1>3, <1>4, <1>5

(* How many signals are under way. *)
LEMMA SignalCount ==
  ASSUME NEW a \in BOOLEAN, NEW b \in BOOLEAN
  PROVE  Cardinality({s \in {1} : a} \cup {s \in {2} : b}) =
           (IF a THEN 1 ELSE 0) + (IF b THEN 1 ELSE 0)
<1>1. CASE a /\ b
  <2>1. {s \in {1} : a} \cup {s \in {2} : b} = {1} \cup {2}
    BY <1>1
  <2>2. IsFiniteSet({1}) /\ Cardinality({1}) = 1
    BY FS_Singleton
  <2>3. Cardinality({1} \cup {2}) = 2
    BY <2>2, FS_AddElement
  <2> QED
    BY <1>1, <2>1, <2>3
<1>2. CASE a /\ ~b
  <2>1. {s \in {1} : a} \cup {s \in {2} : b} = {1}
    BY <1>2
  <2> QED
    BY <1>2, <2>1, FS_Singleton
<1>3. CASE ~a /\ b
  <2>1. {s \in {1} : a} \cup {s \in {2} : b} = {2}
    BY <1>3
  <2>2. Cardinality({2}) = 1
    BY FS_Singleton
  <2>3. Cardinality({s \in {1} : a} \cup {s \in {2} : b}) = 1
    BY <2>1, <2>2
  <2> QED
    BY <1>3, <2>3
<1>4. CASE ~a /\ ~b
  <2>1. {s \in {1} : a} \cup {s \in {2} : b} = {}
    BY <1>4
  <2> QED
    BY <1>4, <2>1, FS_EmptySet
<1> QED
  BY <1>1, <1>2, <1>3, <1>4

-----------------------------------------------------------------------------
(* The steps that leave the server's table and its loop alone. *)

(* The users type, end their input and leave: who is due stays due. *)
LEMMA UserMoves ==
  ASSUME SelInv,
         conn' \in [Users -> {"out", "in", "half", "gone"}],
         typed' \in [Users -> Nat], unread' \in [Users -> Nat],
         fate' \in [Users -> {"fine", "doomed", "pipe", "error", "dead"}],
         \A u \in Users : Due(u) => Due(u)',
         \A u \in Users : conn'[u] = "out" => conn[u] = "out",
         UNCHANGED <<told, queue, selTable, selRound, selKids>>
  PROVE  SelInv'
<1>1. UNCHANGED <<told, queue, owner, client, clientID, currentID, maxi, rset, nready, row, line, at,
                  children, zombies, sigchld, handling>>
  BY DEF selTable, selRound, selKids
<1>2. SelTypeOK'
  BY <1>1 DEF SelInv, TableInv, SelTypeOK
<1>3. /\ UsedRows' = UsedRows /\ DueRows' = DueRows /\ allset' = allset /\ FreeSock' = FreeSock
  BY <1>1 DEF UsedRows, DueRows, allset, FreeSock
<1>4. RowsAreConnections' /\ NreadyCountsRest' /\ AcceptReady'
  BY <1>1, <1>3 DEF SelInv, TableInv, RoundInv, RowsAreConnections, NreadyCountsRest, AcceptReady
<1>5. Seats'
  BY <1>1 DEF SelInv, TableInv, Seats, QueuedOnce, OwnsOne, QueuedOwnsNone, OutsideNowhere
<1>6. DueStay'
  <2>1. \A r \in DueRows : owner[client[r]] \in Users
    BY RowsOwned, RowsUsed DEF SelInv, TableInv
  <2>2. \A r \in DueRows : Due(owner[client[r]]) => Due(owner[client[r]])'
    BY <1>1, <2>1
  <2> QED
    BY <1>1, <1>3, <2>2 DEF SelInv, RoundInv, DueStay
<1>7. HandlerFindsZombie'
  BY <1>1 DEF SelInv, HandlerFindsZombie
<1>8. NumberInv'
  BY <1>1, <1>3 DEF SelInv, NumberInv, RowNumbers, ToldForms, NumbersOnce, QuotedRight, Logged, NumberOf
<1> QED
  BY <1>2, <1>4, <1>5, <1>6, <1>7, <1>8 DEF SelInv, TableInv, RoundInv

(* A user connects: until now it was nowhere. *)
LEMMA JoinStep ==
  ASSUME SelInv, NEW u \in Users, Join(u)
  PROVE  SelInv'
<1>1. /\ conn[u] = "out" /\ conn' = [conn EXCEPT ![u] = "in"] /\ queue' = Append(queue, u)
      /\ UNCHANGED <<typed, unread, fate, told, owner, client, clientID, currentID, maxi,
                     rset, nready, row, line, at, children, zombies, sigchld, handling>>
  BY DEF Join, selTable, selRound, selKids
<1>2. SelTypeOK
  BY DEF SelInv, TableInv
<1>3. /\ queue \in Seq(Users) /\ queue' \in Seq(Users) /\ Len(queue) \in Nat
      /\ DOMAIN queue = 1 .. Len(queue) /\ DOMAIN queue' = 1 .. Len(queue) + 1 /\ queue' # << >>
      /\ \A k \in 1 .. Len(queue) : queue'[k] = queue[k]
      /\ queue'[Len(queue) + 1] = u
  BY <1>1, <1>2, AppendProperties, LenProperties DEF SelTypeOK
<1>4. SelTypeOK'
  BY <1>1, <1>2, <1>3 DEF SelTypeOK
<1>5. /\ UsedRows' = UsedRows /\ DueRows' = DueRows /\ allset' = allset /\ FreeSock' = FreeSock
  BY <1>1 DEF UsedRows, DueRows, allset, FreeSock
<1>6. RowsAreConnections' /\ NreadyCountsRest'
  BY <1>1, <1>5 DEF SelInv, TableInv, RoundInv, RowsAreConnections, NreadyCountsRest
<1>7. AcceptReady'
  BY <1>1, <1>3, <1>5 DEF SelInv, RoundInv, AcceptReady
<1>8. \A k \in DOMAIN queue' : (k \in DOMAIN queue /\ queue'[k] = queue[k]) \/ (k = Len(queue) + 1 /\ queue'[k] = u)
  BY <1>3
<1>9. (\A k \in DOMAIN queue : queue[k] # u) /\ (\A f \in SockFds : owner[f] # u)
  BY <1>1 DEF SelInv, TableInv, Seats, OutsideNowhere
<1>10. QueuedOnce' /\ QueuedOwnsNone'
  BY <1>1, <1>8, <1>9 DEF SelInv, TableInv, Seats, QueuedOnce, QueuedOwnsNone
<1>11. OwnsOne'
  BY <1>1 DEF SelInv, TableInv, Seats, OwnsOne
<1>12. \A v \in Users : conn'[v] = "out" => v # u /\ conn[v] = "out"
  BY <1>1, <1>2 DEF SelTypeOK
<1>13. OutsideNowhere'
  BY <1>1, <1>8, <1>12 DEF SelInv, TableInv, Seats, OutsideNowhere
<1>14. DueStay'
  <2>1. \A r \in DueRows : owner[client[r]] \in Users
    BY RowsOwned, RowsUsed DEF SelInv, TableInv
  <2>2. \A v \in Users : Due(v) => Due(v)'
    BY <1>1, <1>2 DEF Due, SelTypeOK
  <2>3. \A r \in DueRows : Due(owner[client[r]]) => Due(owner[client[r]])'
    BY <1>1, <2>1, <2>2
  <2> QED
    BY <1>1, <1>5, <2>3 DEF SelInv, RoundInv, DueStay
<1>15. HandlerFindsZombie'
  BY <1>1 DEF SelInv, HandlerFindsZombie
<1>16. NumberInv'
  BY <1>1, <1>5 DEF SelInv, NumberInv, RowNumbers, ToldForms, NumbersOnce, QuotedRight, Logged, NumberOf
<1> QED
  BY <1>4, <1>6, <1>7, <1>10, <1>11, <1>13, <1>14, <1>15, <1>16 DEF SelInv, TableInv, RoundInv, Seats

(* Children exit and are waited for. *)
LEMMA KidMoves ==
  ASSUME SelInv, children' \subseteq children, zombies' \in Nat,
         sigchld' \in BOOLEAN, handling' \in BOOLEAN, HandlerFindsZombie',
         UNCHANGED <<selUsers, told, selTable, selRound>>
  PROVE  SelInv'
<1>1. UNCHANGED <<conn, typed, unread, fate, told, queue, owner, client, clientID, currentID, maxi,
                  rset, nready, row, line, at>>
  BY DEF selUsers, selTable, selRound
<1>2. SelTypeOK'
  BY <1>1 DEF SelInv, TableInv, SelTypeOK
<1>3. RowsAreConnections' /\ Seats'
  BY <1>1 DEF SelInv, TableInv, RowsAreConnections, allset, UsedRows, FreeSock,
              Seats, QueuedOnce, OwnsOne, QueuedOwnsNone, OutsideNowhere
<1>4. RoundInv'
  BY <1>1 DEF SelInv, RoundInv, NreadyCountsRest, AcceptReady, DueStay, Due, DueRows, UsedRows, allset
<1>5. NumberInv'
  BY <1>1 DEF SelInv, NumberInv, RowNumbers, ToldForms, NumbersOnce, QuotedRight, Logged, NumberOf, UsedRows
<1> QED
  BY <1>2, <1>3, <1>4, <1>5 DEF SelInv, TableInv

LEMMA KidSteps ==
  ASSUME SelInv, \/ \E k \in children : ChildExits(k)
                 \/ EnterHandler \/ WaitChild
  PROVE  SelInv'
<1>0. sigchld \in BOOLEAN /\ handling \in BOOLEAN /\ zombies \in Nat
  BY DEF SelInv, TableInv, SelTypeOK
<1>1. ASSUME at # "off"
      PROVE  (IF sigchld THEN 1 ELSE 0) + (IF handling THEN 1 ELSE 0) <= zombies
  BY <1>0, <1>1, SignalCount DEF SelInv, HandlerFindsZombie
<1>2. ASSUME NEW s \in BOOLEAN, NEW h \in BOOLEAN, NEW z \in Nat,
             sigchld' = s, handling' = h, zombies' = z, at' = at,
             at # "off" => (IF s THEN 1 ELSE 0) + (IF h THEN 1 ELSE 0) <= z
      PROVE  HandlerFindsZombie'
  BY <1>2, SignalCount DEF HandlerFindsZombie
<1>3. ASSUME NEW k \in children, ChildExits(k)
      PROVE  SelInv'
  <2>1. /\ children' \subseteq children /\ zombies' = (IF at = "off" THEN zombies ELSE zombies + 1)
        /\ sigchld' = (at # "off") /\ handling' = handling
        /\ UNCHANGED <<selUsers, told, selTable, selRound>> /\ at' = at
    BY <1>3 DEF ChildExits, selRound
  <2>2. at # "off" => (IF at # "off" THEN 1 ELSE 0) + (IF handling THEN 1 ELSE 0)
                        <= (IF at = "off" THEN zombies ELSE zombies + 1)
    BY <1>0, <1>1
  <2>3. (at # "off") \in BOOLEAN /\ (IF at = "off" THEN zombies ELSE zombies + 1) \in Nat
    BY <1>0
  <2>4. HandlerFindsZombie'
    BY <1>0, <1>2, <2>1, <2>2, <2>3
  <2> QED
    BY <1>0, <2>1, <2>3, <2>4, KidMoves
<1>4. CASE EnterHandler
  <2>1. /\ children' \subseteq children /\ zombies' = zombies /\ sigchld /\ ~handling
        /\ sigchld' = FALSE /\ handling' = TRUE
        /\ UNCHANGED <<selUsers, told, selTable, selRound>> /\ at' = at
    BY <1>4 DEF EnterHandler, selRound
  <2>2. at # "off" => (IF FALSE THEN 1 ELSE 0) + (IF TRUE THEN 1 ELSE 0) <= zombies
    BY <1>0, <1>1, <2>1
  <2>3. HandlerFindsZombie'
    BY <1>0, <1>2, <2>1, <2>2
  <2> QED
    BY <1>0, <2>1, <2>3, KidMoves
<1>5. CASE WaitChild
  <2>1. /\ children' \subseteq children /\ zombies' = zombies - 1 /\ zombies > 0 /\ handling
        /\ sigchld' = sigchld /\ handling' = FALSE
        /\ UNCHANGED <<selUsers, told, selTable, selRound>> /\ at' = at
    BY <1>5 DEF WaitChild, selRound
  <2>2. zombies - 1 \in Nat
    BY <1>0, <2>1
  <2>3. at # "off" => (IF sigchld THEN 1 ELSE 0) + (IF FALSE THEN 1 ELSE 0) <= zombies - 1
    BY <1>0, <1>1, <2>1
  <2>4. HandlerFindsZombie'
    BY <1>0, <1>2, <2>1, <2>2, <2>3
  <2> QED
    BY <1>0, <2>1, <2>2, <2>4, KidMoves
<1> QED
  BY <1>3, <1>4, <1>5

-----------------------------------------------------------------------------
(* The top of the loop *)

(* What select() reports besides the listening descriptor are the rows due. *)
LEMMA RowsReported ==
  ASSUME TableInv
  PROVE  LET D == {r \in UsedRows : Due(owner[client[r]])}
             R == {f \in allset : Due(owner[f])}
         IN  /\ IsFiniteSet(D) /\ IsFiniteSet(R) /\ Cardinality(R) = Cardinality(D)
             /\ ListenFd \notin R
<1> DEFINE D == {r \in UsedRows : Due(owner[client[r]])}
           R == {f \in allset : Due(owner[f])}
<1>1. IsFiniteSet(UsedRows) /\ ListenFd \notin SockFds /\ \A r \in UsedRows : client[r] \in SockFds
  BY RowsUsed DEF TableInv
<1>2. D \subseteq UsedRows
  OBVIOUS
<1>3. IsFiniteSet(D)
  BY <1>1, <1>2, FS_Subset
<1>4. ListenFd \notin R
  BY <1>1 DEF allset
<1>5. [r \in D |-> client[r]] \in Surjection(D, R)
  BY DEF Surjection, allset
<1>6. \A r, q \in D : client[r] = client[q] => r = q
  BY DEF TableInv, RowsAreConnections
<1>7. [r \in D |-> client[r]] \in Injection(D, R)
  BY <1>6 DEF Injection, IsInjective, allset
<1>8. IsFiniteSet(R) /\ Cardinality(R) = Cardinality(D)
  BY <1>3, <1>5, <1>7, FS_Surjection
<1> QED
  BY <1>3, <1>4, <1>8

LEMMA AskStep ==
  ASSUME SelInv, AskSelect
  PROVE  SelInv'
<1> DEFINE D == {r \in UsedRows : Due(owner[client[r]])}
           R == {f \in allset : Due(owner[f])}
<1>0. TableInv /\ SelTypeOK
  BY DEF SelInv, TableInv
<1>1. /\ at = "select" /\ rset' = Readable /\ nready' = Cardinality(Readable)
      /\ at' = (IF ListenFd \in Readable THEN "accept" ELSE "walk") /\ row' = 0
      /\ UNCHANGED <<conn, typed, unread, fate, queue, told, owner, client, clientID, currentID, maxi,
                     line, children, zombies, sigchld, handling>>
  BY DEF AskSelect, selUsers, selTable, selKids
<1>2. /\ IsFiniteSet(D) /\ IsFiniteSet(R) /\ Cardinality(R) = Cardinality(D) /\ ListenFd \notin R
      /\ Cardinality(D) \in Nat
  BY <1>0, RowsReported, FS_CardinalityType
<1>3. /\ DOMAIN queue = 1 .. Len(queue) /\ Len(queue) \in Nat
      /\ (queue = << >> <=> Len(queue) = 0)
  BY <1>0, LenProperties, EmptySeq DEF SelTypeOK
<1>4. Readable = IF queue = << >> THEN R ELSE R \cup {ListenFd}
  BY <1>3 DEF Readable
<1>5. UsedRows' = UsedRows /\ allset' = allset /\ FreeSock' = FreeSock
  BY <1>1 DEF UsedRows, allset, FreeSock
<1>6. \A r \in UsedRows : client[r] \in SockFds /\ r \in Nat /\ client[r] # ListenFd /\ client[r] \in allset
  BY <1>0, RowsUsed DEF allset
<1>7. DueRows' = D
  BY <1>1, <1>4, <1>5, <1>6 DEF DueRows
<1> HIDE DEF D, R
<1>8. /\ ListenFd \in Readable <=> queue # << >>
      /\ nready' = IF queue = << >> THEN Cardinality(D) ELSE 1 + Cardinality(D)
  <2>1. Cardinality(R \cup {ListenFd}) = Cardinality(R) + 1
    BY <1>2, FS_AddElement
  <2>2. CASE queue = << >>
    BY <1>1, <1>2, <1>4, <2>2
  <2>3. CASE queue # << >>
    BY <1>1, <1>2, <1>4, <2>1, <2>3
  <2> QED
    BY <2>2, <2>3
<1>9. nready' \in Nat /\ NreadyCountsRest'
  BY <1>1, <1>2, <1>7, <1>8 DEF NreadyCountsRest
<1>10. rset' \subseteq allset \cup {ListenFd} /\ allset \subseteq SockFds
  BY <1>1, <1>4, <1>6 DEF R, allset
<1>11. SelTypeOK'
  BY <1>0, <1>1, <1>9, <1>10 DEF SelTypeOK
<1>12. RowsAreConnections'
  BY <1>1, <1>5 DEF SelInv, TableInv, RowsAreConnections
<1>13. Seats'
  BY <1>1 DEF SelInv, TableInv, Seats, QueuedOnce, OwnsOne, QueuedOwnsNone, OutsideNowhere
<1>14. AcceptReady'
  BY <1>1, <1>5, <1>8, <1>10 DEF AcceptReady
<1>15. DueStay'
  BY <1>1, <1>7 DEF DueStay, Due, D
<1>16. HandlerFindsZombie'
  BY <1>1 DEF SelInv, HandlerFindsZombie
<1>17. NumberInv'
  BY <1>1, <1>5 DEF SelInv, NumberInv, RowNumbers, ToldForms, NumbersOnce, QuotedRight, Logged, NumberOf
<1> QED
  BY <1>9, <1>11, <1>12, <1>13, <1>14, <1>15, <1>16, <1>17 DEF SelInv, TableInv, RoundInv

(* The walk ends, or accept() fails. *)
LEMMA LoopTurns ==
  ASSUME SelInv, EndOfRows \/ AcceptFails
  PROVE  SelInv'
<1>1. /\ at # "off" /\ at' \in {"select", "off"}
      /\ UNCHANGED <<conn, typed, unread, fate, queue, told, owner, client, clientID, currentID, maxi,
                     rset, nready, row, line, children, zombies, sigchld, handling>>
  BY DEF EndOfRows, AcceptFails, selUsers, selTable, selKids
<1>2. SelTypeOK'
  BY <1>1 DEF SelInv, TableInv, SelTypeOK
<1>3. RowsAreConnections' /\ Seats'
  BY <1>1 DEF SelInv, TableInv, RowsAreConnections, allset, UsedRows, FreeSock,
              Seats, QueuedOnce, OwnsOne, QueuedOwnsNone, OutsideNowhere
<1>4. RoundInv'
  BY <1>1 DEF RoundInv, NreadyCountsRest, AcceptReady, DueStay
<1>5. HandlerFindsZombie'
  BY <1>1 DEF SelInv, HandlerFindsZombie
<1>6. NumberInv'
  BY <1>1 DEF SelInv, NumberInv, RowNumbers, ToldForms, NumbersOnce, QuotedRight, Logged, NumberOf, UsedRows
<1> QED
  BY <1>2, <1>3, <1>4, <1>5, <1>6 DEF SelInv, TableInv

-----------------------------------------------------------------------------
(* accept() *)

LEMMA AcceptStep ==
  ASSUME SelInv, Accept2
  PROVE  SelInv'
<1> DEFINE u == Head(queue)
           fd == LowestOf(FreeSock)
           r == FreeRow
<1>0. TableInv /\ SelTypeOK /\ NumberInv
  BY DEF SelInv, TableInv
<1>1. /\ at = "accept" /\ FreeSock # {}
      /\ owner' = [owner EXCEPT ![fd] = u]
      /\ client' = [client EXCEPT ![r] = fd]
      /\ clientID' = [clientID EXCEPT ![r] = currentID]
      /\ told' = [told EXCEPT ![u] = @ \cup {WelcomeTo(currentID)}]
      /\ currentID' = currentID + 1 /\ maxi' = LastRow
      /\ queue' = Tail(queue) /\ nready' = nready - 1
      /\ at' = (IF nready - 1 <= 0 THEN "select" ELSE "walk")
      /\ UNCHANGED <<conn, typed, unread, fate, rset, row, line, zombies, sigchld, handling>>
  BY DEF Accept2, AcceptLogging, EnterTable, EnterRow, Served
<1>2. \A e \in children' : e \in children \/ (e.user = u /\ e.id = currentID)
  BY DEF Accept2, AcceptLogging
<1>3. /\ queue \in Seq(Users) /\ queue # << >> /\ u \in Users /\ queue' \in Seq(Users)
      /\ DOMAIN queue = 1 .. Len(queue) /\ DOMAIN queue' = 1 .. Len(queue) - 1 /\ Len(queue) \in Nat
      /\ u = queue[1] /\ Len(queue) # 0
      /\ \A k \in 1 .. Len(queue) - 1 : queue'[k] = queue[k + 1]
  <2>1. queue \in Seq(Users) /\ queue # << >>
    BY <1>0, <1>1 DEF SelTypeOK, SelInv, RoundInv, AcceptReady
  <2>2. u = queue[1]
    BY <2>1
  <2>3. /\ Len(queue) \in Nat \ {0} /\ Len(queue') = Len(queue) - 1 /\ u \in Users /\ queue' \in Seq(Users)
        /\ \A k \in 1 .. Len(queue') : queue'[k] = queue[k + 1]
    BY <1>1, <2>1, HeadTailProperties, EmptySeq
  <2>4. DOMAIN queue = 1 .. Len(queue) /\ DOMAIN queue' = 1 .. Len(queue')
    BY <2>1, <2>3, LenProperties
  <2> QED
    BY <2>1, <2>2, <2>3, <2>4
<1>4. /\ r \in Rows \ UsedRows /\ fd \in FreeSock /\ fd \in SockFds /\ fd \notin allset
      /\ r \in Nat /\ Rows \subseteq Nat /\ UsedRows \subseteq Rows /\ ListenFd \notin SockFds
      /\ fd # Available
  <2>1. /\ r \in Rows \ UsedRows /\ fd \in FreeSock /\ fd \in SockFds /\ fd \notin allset
        /\ Rows \subseteq Nat /\ SockFds \subseteq Nat /\ UsedRows \subseteq Rows /\ ListenFd \notin SockFds
    BY <1>0, <1>1, RowForSock, RowsUsed
  <2> QED
    BY <2>1 DEF Available
<1>5. /\ u # NoUser /\ owner[fd] = NoUser
      /\ \A k \in DOMAIN queue' : k + 1 \in DOMAIN queue /\ queue'[k] = queue[k + 1] /\ queue'[k] # u
      /\ \A f \in SockFds : owner[f] # u
      /\ conn[u] # "out"
  <2>1. u # NoUser /\ owner[fd] = NoUser
    BY <1>3, <1>4, SelectServerAssumption DEF FreeSock
  <2>2. 1 \in DOMAIN queue
    BY <1>3
  <2>3. ASSUME NEW k \in DOMAIN queue'
        PROVE  k + 1 \in DOMAIN queue /\ queue'[k] = queue[k + 1] /\ queue'[k] # u
    <3>1. k + 1 \in DOMAIN queue /\ queue'[k] = queue[k + 1] /\ k + 1 # 1
      BY <1>3, <2>3
    <3> QED
      BY <1>0, <1>3, <2>2, <3>1 DEF TableInv, Seats, QueuedOnce
  <2>4. \A f \in SockFds : owner[f] # u
    BY <1>0, <1>3, <2>2 DEF TableInv, Seats, QueuedOwnsNone
  <2>5. conn[u] # "out"
    BY <1>0, <1>3, <2>2 DEF TableInv, Seats, OutsideNowhere
  <2> QED
    BY <2>1, <2>3, <2>4, <2>5
<1> HIDE DEF u, fd, r
<1>6. /\ owner'[fd] = u /\ \A f \in SockFds : f # fd => owner'[f] = owner[f]
      /\ client'[r] = fd /\ clientID'[r] = currentID
      /\ \A q \in Rows : q # r => client'[q] = client[q] /\ clientID'[q] = clientID[q]
  BY <1>0, <1>1, <1>4 DEF SelTypeOK
<1>7. /\ UsedRows' = UsedRows \cup {r} /\ allset' = allset \cup {fd} /\ FreeSock' = FreeSock \ {fd}
  <2>1. UsedRows' = UsedRows \cup {r}
    BY <1>4, <1>6 DEF UsedRows
  <2>2. allset' = allset \cup {fd}
    BY <1>4, <1>6, <2>1 DEF allset
  <2>3. FreeSock' = FreeSock \ {fd}
    BY <1>4, <1>5, <1>6 DEF FreeSock
  <2> QED
    BY <2>1, <2>2, <2>3
<1>8. nready = 1 + Cardinality(DueRows) /\ Cardinality(DueRows) \in Nat
  BY <1>0, <1>1, RowsUsed, FS_CardinalityType DEF SelInv, RoundInv, NreadyCountsRest
<1>9. /\ maxi' \in Rows /\ r <= maxi' /\ maxi <= maxi' /\ maxi \in Int /\ maxi' \in Int
  BY <1>0, <1>1, <1>4 DEF LastRow, r, SelTypeOK
<1>10. SelTypeOK'
  <2>1. currentID' \in Nat /\ nready' \in Nat
    BY <1>0, <1>1, <1>8 DEF SelTypeOK
  <2>2. /\ owner' \in [SockFds -> Users \cup {NoUser}]
        /\ client' \in [Rows -> SockFds \cup {Available}] /\ clientID' \in [Rows -> Nat]
    BY <1>0, <1>1, <1>3, <1>4 DEF SelTypeOK
  <2> QED
    BY <1>0, <1>1, <1>3, <1>9, <2>1, <2>2 DEF SelTypeOK
<1>11. RowsAreConnections'
  <2>1. allset' = SockFds \ FreeSock'
    BY <1>0, <1>4, <1>7 DEF TableInv, RowsAreConnections
  <2>2. ASSUME NEW p \in UsedRows', NEW q \in UsedRows', client'[p] = client'[q] PROVE p = q
    <3>1. \A o \in UsedRows : client'[o] = client[o] /\ client[o] \in allset
      BY <1>4, <1>6 DEF allset
    <3> QED
      BY <1>0, <1>4, <1>6, <1>7, <2>2, <3>1 DEF TableInv, RowsAreConnections
  <2>3. \A q \in UsedRows : q <= maxi /\ q \in Nat
    BY <1>0, <1>4 DEF TableInv, RowsAreConnections
  <2>4. ASSUME NEW p \in UsedRows' PROVE p <= maxi'
    <3>1. CASE p = r
      BY <1>9, <3>1
    <3>2. CASE p \in UsedRows
      BY <1>9, <2>3, <3>2
    <3> QED
      BY <1>7, <3>1, <3>2
  <2> QED
    BY <2>1, <2>2, <2>4 DEF RowsAreConnections
<1>12. Seats'
  <2>1. QueuedOnce'
    <3> SUFFICES ASSUME NEW j \in DOMAIN queue', NEW k \in DOMAIN queue', queue'[j] = queue'[k]
                 PROVE  j = k
      BY DEF QueuedOnce
    <3>1. j + 1 = k + 1
      BY <1>0, <1>5 DEF TableInv, Seats, QueuedOnce
    <3> QED
      BY <1>3, <3>1
  <2>2. OwnsOne'
    BY <1>0, <1>4, <1>5, <1>6 DEF TableInv, Seats, OwnsOne
  <2>3. QueuedOwnsNone'
    BY <1>0, <1>4, <1>5, <1>6 DEF TableInv, Seats, QueuedOwnsNone
  <2>4. OutsideNowhere'
    <3> SUFFICES ASSUME NEW v \in Users, conn'[v] = "out"
                 PROVE  /\ \A k \in DOMAIN queue' : queue'[k] # v
                        /\ \A f \in SockFds : owner'[f] # v
      BY DEF OutsideNowhere
    <3>1. conn[v] = "out" /\ v # u
      BY <1>1, <1>5
    <3> QED
      BY <1>0, <1>4, <1>5, <1>6, <3>1 DEF TableInv, Seats, OutsideNowhere
  <2> QED
    BY <2>1, <2>2, <2>3, <2>4 DEF Seats
<1>13. DueRows' = DueRows
  <2>1. fd \notin rset
    BY <1>1, <1>4 DEF SelInv, RoundInv, AcceptReady
  <2> QED
    BY <1>1, <1>4, <1>6, <1>7, <2>1 DEF DueRows
<1>14. NreadyCountsRest' /\ AcceptReady'
  BY <1>1, <1>8, <1>13 DEF NreadyCountsRest, AcceptReady
<1>15. DueStay'
  <2>1. ASSUME NEW q \in DueRows PROVE client'[q] = client[q] /\ owner'[client'[q]] = owner[client[q]]
    <3>1. q \in UsedRows /\ client[q] \in allset /\ client[q] \in SockFds
      BY <1>0, RowsUsed DEF DueRows, allset
    <3> QED
      BY <1>4, <1>6, <3>1
  <2>2. \A q \in DueRows : Due(owner[client[q]])
    BY <1>1 DEF SelInv, RoundInv, DueStay
  <2> QED
    BY <1>1, <1>13, <2>1, <2>2 DEF DueStay, Due
<1>16. HandlerFindsZombie'
  BY <1>1 DEF SelInv, HandlerFindsZombie
<1>17. /\ DOMAIN told' = Users /\ currentID \in Nat
       /\ \A v \in Users : told'[v] = IF v = u THEN told[v] \cup {WelcomeTo(currentID)} ELSE told[v]
  BY <1>0, <1>1, <1>3 DEF NumberInv, ToldForms, SelTypeOK
<1>18. RowNumbers'
  <2> SUFFICES ASSUME NEW q \in UsedRows' PROVE WelcomeTo(clientID'[q]) \in told'[owner'[client'[q]]]
    BY DEF RowNumbers, NumberOf
  <2>2. CASE q = r
    BY <1>3, <1>6, <1>17, <2>2
  <2>3. CASE q \in UsedRows
    <3>1. /\ client[q] \in SockFds /\ client[q] \in allset /\ owner[client[q]] \in Users
          /\ WelcomeTo(clientID[q]) \in told[owner[client[q]]]
      BY <1>0, <2>3, RowsOwned DEF allset, NumberInv, RowNumbers, NumberOf
    <3> QED
      BY <1>4, <1>6, <1>17, <2>3, <3>1
  <2> QED
    BY <1>7, <2>2, <2>3
<1>19. ToldForms'
  <2> SUFFICES ASSUME NEW v \in Users, NEW m \in told'[v]
               PROVE  \/ \E id \in Nat : id < currentID' /\ m = WelcomeTo(id)
                      \/ \E id \in Nat, a \in Users \cup {NoUser} : m = Quote(id, a)
    BY <1>17 DEF ToldForms
  <2>1. CASE m = WelcomeTo(currentID)
    BY <1>1, <1>17, <2>1
  <2>2. CASE m \in told[v]
    BY <1>0, <1>1, <1>17, <2>2 DEF NumberInv, ToldForms
  <2> QED
    BY <1>17, <2>1, <2>2
<1>20. \A v \in Users : WelcomeTo(currentID) \notin told[v]
  <2> SUFFICES ASSUME NEW v \in Users, WelcomeTo(currentID) \in told[v]
               PROVE  FALSE
    OBVIOUS
  <2>1. PICK id \in Nat : id < currentID /\ WelcomeTo(currentID) = WelcomeTo(id)
    BY <1>0, TextForms DEF NumberInv, ToldForms
  <2> QED
    BY <1>17, <2>1, TextForms
<1>21. NumbersOnce'
  <2> SUFFICES ASSUME NEW v \in Users, NEW w \in Users, NEW id \in Nat,
                      WelcomeTo(id) \in told'[v], WelcomeTo(id) \in told'[w]
               PROVE  v = w
    BY DEF NumbersOnce, NumberOf
  <2>1. CASE id = currentID
    BY <1>17, <1>20, <2>1
  <2>2. CASE id # currentID
    <3>1. WelcomeTo(id) \in told[v] /\ WelcomeTo(id) \in told[w]
      BY <1>17, <2>2, TextForms
    <3> QED
      BY <1>0, <3>1 DEF NumberInv, NumbersOnce, NumberOf
  <2> QED
    BY <2>1, <2>2
<1>22. QuotedRight'
  <2> SUFFICES ASSUME NEW v \in Users, NEW m \in told'[v], "says" \in DOMAIN m
               PROVE  m.says # NoUser /\ WelcomeTo(m.id) \in told'[m.says]
    BY DEF QuotedRight, NumberOf
  <2>1. m \in told[v]
    BY <1>17, TextForms
  <2>2. m.says # NoUser /\ WelcomeTo(m.id) \in told[m.says]
    BY <1>0, <1>1, <2>1 DEF NumberInv, QuotedRight, NumberOf
  <2>3. PICK id \in Nat, a \in Users \cup {NoUser} : m = Quote(id, a)
    BY <1>0, <2>1, TextForms DEF NumberInv, ToldForms
  <2>4. m.says \in Users
    BY <2>2, <2>3, TextForms
  <2> QED
    BY <1>17, <2>2, <2>4
<1>23. Logged'
  <2> SUFFICES ASSUME NEW e \in children'
               PROVE  e.user \in Users /\ WelcomeTo(e.id) \in told'[e.user]
    BY DEF Logged, NumberOf
  <2>1. CASE e \in children
    BY <1>0, <1>17, <2>1 DEF NumberInv, Logged, NumberOf
  <2>2. CASE e.user = u /\ e.id = currentID
    BY <1>3, <1>17, <2>2
  <2> QED
    BY <1>2, <2>1, <2>2 DEF u
<1> QED
  BY <1>10, <1>11, <1>12, <1>14, <1>15, <1>16, <1>18, <1>19, <1>21, <1>22, <1>23
     DEF SelInv, TableInv, RoundInv, NumberInv

-----------------------------------------------------------------------------
(* The walk over the table *)

(* Whatever is done for the row the walk stands at, the others stay due. *)
LEMMA WalkGoesOn ==
  ASSUME SelInv, Walking, row' = DueRow + 1, rset' = rset,
         UsedRows' \subseteq UsedRows, UsedRows \ {DueRow} \subseteq UsedRows',
         \A r \in UsedRows' \ {DueRow} : client'[r] = client[r]
  PROVE  /\ DueRows' = DueRows \ {DueRow}
         /\ nready \in Nat /\ nready = Cardinality(DueRows)
         /\ Cardinality(DueRows') = nready - 1 /\ nready - 1 \in Nat
<1>0. TableInv /\ SelTypeOK /\ at = "walk" /\ DueRows # {}
  BY DEF SelInv, TableInv, Walking
<1>1. /\ DueRow \in DueRows /\ \A r \in DueRows : DueRow <= r
      /\ DueRow \in Nat /\ DueRows \subseteq UsedRows /\ UsedRows \subseteq Nat /\ IsFiniteSet(DueRows)
  BY <1>0, DueRowIs, RowsUsed
<1>2. row <= DueRow /\ row \in Nat
  BY <1>0, <1>1 DEF DueRows, SelTypeOK
<1>3. ASSUME NEW r \in DueRows'
      PROVE  r \in DueRows \ {DueRow}
  <2>1. r \in UsedRows' /\ DueRow + 1 <= r /\ client'[r] \in rset /\ r \in Nat
    BY <1>1 DEF DueRows
  <2>2. r # DueRow
    BY <1>1, <2>1
  <2> QED
    BY <1>1, <1>2, <2>1, <2>2 DEF DueRows
<1>4. ASSUME NEW r \in DueRows \ {DueRow}
      PROVE  r \in DueRows'
  <2>1. r \in UsedRows /\ client[r] \in rset /\ DueRow <= r /\ r # DueRow /\ r \in Nat
    BY <1>1 DEF DueRows
  <2>2. DueRow + 1 <= r
    BY <1>1, <2>1
  <2> QED
    BY <2>1, <2>2 DEF DueRows
<1>5. DueRows' = DueRows \ {DueRow}
  BY <1>3, <1>4
<1>6. nready = Cardinality(DueRows) /\ Cardinality(DueRows) \in Nat /\ Cardinality(DueRows) # 0
  BY <1>0, <1>1, FS_CardinalityType, FS_EmptySet DEF SelInv, RoundInv, NreadyCountsRest
<1>7. Cardinality(DueRows \ {DueRow}) = Cardinality(DueRows) - 1
  BY <1>1, FS_RemoveElement
<1> QED
  BY <1>5, <1>6, <1>7

(* The end of a connection *)
LEMMA EndStep ==
  ASSUME SelInv, ReadEnd
  PROVE  SelInv'
<1> DEFINE d == DueRow
           f == client[DueRow]
<1>0. TableInv /\ SelTypeOK /\ NumberInv /\ DueRows # {} /\ at = "walk"
  BY DEF SelInv, TableInv, ReadEnd, ReadEndLeaving, Walking
<1>1. /\ owner' = [owner EXCEPT ![f] = NoUser] /\ client' = [client EXCEPT ![d] = Available]
      /\ row' = d + 1 /\ nready' = nready - 1
      /\ at' = (IF nready - 1 <= 0 THEN "select" ELSE "walk")
      /\ UNCHANGED <<conn, typed, unread, fate, queue, told, clientID, currentID, maxi, rset, line,
                     children, zombies, sigchld, handling>>
  BY DEF ReadEnd, ReadEndLeaving, Served, Closed, RowFree, selUsers, selKids
<1>2. /\ d \in DueRows /\ d \in UsedRows /\ d \in Rows /\ d \in Nat /\ f \in SockFds
      /\ UsedRows \subseteq Rows /\ f # Available
      /\ \A r \in UsedRows : client[r] \in SockFds
  <2>1. /\ d \in DueRows /\ d \in UsedRows /\ d \in Rows /\ d \in Nat /\ f \in SockFds
        /\ UsedRows \subseteq Rows /\ \A r \in UsedRows : client[r] \in SockFds
    BY <1>0, DueRowIs, RowsUsed
  <2> QED
    BY <2>1 DEF UsedRows
<1> HIDE DEF f
<1>3. /\ owner'[f] = NoUser /\ \A g \in SockFds : g # f => owner'[g] = owner[g]
      /\ client'[d] = Available /\ \A r \in Rows : r # d => client'[r] = client[r]
      /\ \A r \in UsedRows : r # d => client[r] # f
  <2>1. \A r \in UsedRows : r # d => client[r] # f
    BY <1>0, <1>2 DEF TableInv, RowsAreConnections, f
  <2> QED
    BY <1>0, <1>1, <1>2, <2>1 DEF SelTypeOK
<1>4. UsedRows' = UsedRows \ {d}
  BY <1>2, <1>3 DEF UsedRows
<1>5. FreeSock' = FreeSock \cup {f}
  BY <1>2, <1>3 DEF FreeSock
<1>6. allset' = allset \ {f}
  <2>1. allset' = {client'[r] : r \in UsedRows'}
    BY DEF allset
  <2>2. \A r \in UsedRows' : r \in UsedRows /\ client'[r] = client[r] /\ client[r] # f
    BY <1>2, <1>3, <1>4
  <2>3. \A r \in UsedRows : client[r] # f => r \in UsedRows'
    BY <1>4 DEF f
  <2> QED
    BY <2>1, <2>2, <2>3 DEF allset
<1>7. /\ DueRows' = DueRows \ {d} /\ nready' \in Nat /\ Cardinality(DueRows') = nready'
      /\ nready - 1 \in Nat
  <2>1. \A r \in UsedRows' \ {d} : client'[r] = client[r]
    BY <1>2, <1>3, <1>4
  <2>2. Walking
    BY DEF ReadEnd, ReadEndLeaving
  <2> QED
    BY <1>1, <1>4, <2>1, <2>2, WalkGoesOn
<1>8. SelTypeOK'
  <2>1. /\ owner' \in [SockFds -> Users \cup {NoUser}] /\ client' \in [Rows -> SockFds \cup {Available}]
        /\ row' \in Nat
    BY <1>0, <1>1, <1>2 DEF SelTypeOK
  <2> QED
    BY <1>0, <1>1, <1>7, <2>1 DEF SelTypeOK
<1>9. RowsAreConnections'
  <2>1. allset' = SockFds \ FreeSock'
    BY <1>0, <1>5, <1>6 DEF TableInv, RowsAreConnections
  <2>2. \A r \in UsedRows' : r \in UsedRows /\ client'[r] = client[r]
    BY <1>2, <1>3, <1>4
  <2> QED
    BY <1>0, <1>1, <2>1, <2>2 DEF TableInv, RowsAreConnections
<1>10. \A g \in SockFds, v \in Users : owner'[g] = v => owner[g] = v
  BY <1>3, SelectServerAssumption
<1>11. Seats'
  <2>1. QueuedOnce' /\ OutsideNowhere'
    BY <1>0, <1>1, <1>10 DEF TableInv, Seats, QueuedOnce, OutsideNowhere
  <2>2. OwnsOne'
    BY <1>0, <1>3 DEF TableInv, Seats, OwnsOne
  <2>3. \A k \in DOMAIN queue : queue[k] # NoUser
    BY <1>0, LenProperties, SelectServerAssumption DEF SelTypeOK
  <2>4. QueuedOwnsNone'
    BY <1>0, <1>1, <1>3, <2>3 DEF TableInv, Seats, QueuedOwnsNone
  <2> QED
    BY <2>1, <2>2, <2>4 DEF Seats
<1>12. NreadyCountsRest' /\ AcceptReady'
  BY <1>1, <1>7 DEF NreadyCountsRest, AcceptReady
<1>13. \A r \in UsedRows' : /\ r \in UsedRows /\ client'[r] = client[r]
                            /\ owner'[client'[r]] = owner[client[r]]
  BY <1>2, <1>3, <1>4
<1>14. DueStay'
  <2>1. \A r \in DueRows' : r \in DueRows /\ r \in UsedRows'
    BY <1>7 DEF DueRows
  <2>2. \A r \in DueRows : Due(owner[client[r]])
    BY <1>0 DEF SelInv, RoundInv, DueStay
  <2> QED
    BY <1>1, <1>13, <2>1, <2>2 DEF DueStay, Due
<1>15. HandlerFindsZombie'
  BY <1>0, <1>1 DEF SelInv, HandlerFindsZombie
<1>16. RowNumbers'
  BY <1>0, <1>1, <1>13 DEF NumberInv, RowNumbers, NumberOf
<1>17. ToldForms' /\ NumbersOnce' /\ QuotedRight' /\ Logged'
  BY <1>0, <1>1 DEF NumberInv, ToldForms, NumbersOnce, QuotedRight, Logged, NumberOf
<1> QED
  BY <1>8, <1>9, <1>11, <1>12, <1>14, <1>15, <1>16, <1>17 DEF SelInv, TableInv, RoundInv, NumberInv

(* A text goes out; unless the server dies of it, it bears the number of its  *)
(* author.                                                                    *)
LEMMA TextStep ==
  ASSUME SelInv, Walking,
         NEW id \in Nat, NEW author \in Users \cup {NoUser},
         NEW now \in [Users -> {"fine", "doomed", "pipe", "error", "dead"}],
         Broadcast2(id, author, now),
         Reached(now) = UsedRows => author \in Users /\ NumberOf(author, id),
         row' = DueRow + 1, unread' \in [Users -> Nat], line' \in Users \cup {NoUser},
         \A u \in Users : u # Speaker => unread'[u] = unread[u],
         UNCHANGED <<conn, typed, queue, selTable, rset, selKids>>
  PROVE  SelInv'
<1> DEFINE d == DueRow
<1>0. TableInv /\ SelTypeOK /\ NumberInv /\ DueRows # {} /\ at = "walk"
  BY DEF SelInv, TableInv, Walking
<1>1. /\ row' = d + 1
      /\ UNCHANGED <<conn, typed, queue, owner, client, clientID, currentID, maxi, rset,
                     children, zombies, sigchld, handling>>
  BY DEF selTable, selKids
<1>2. /\ \/ /\ Reached(now) = UsedRows /\ nready' = nready - 1
            /\ at' = (IF nready - 1 <= 0 THEN "select" ELSE "walk")
         \/ at' = "off" /\ nready' = nready
      /\ DOMAIN told' = Users
      /\ \A u \in Users : told[u] \subseteq told'[u] /\ told'[u] \subseteq told[u] \cup {Quote(id, author)}
  BY DEF Broadcast2, Served
<1>3. fate' \in [Users -> {"fine", "doomed", "pipe", "error", "dead"}]
  <2>1. \A u \in Users : WrittenTo(u, now) \in {"fine", "doomed", "pipe", "error", "dead"}
    BY DEF WrittenTo
  <2> QED
    BY <2>1 DEF Broadcast2
<1>4. /\ UsedRows' = UsedRows /\ allset' = allset /\ FreeSock' = FreeSock
  BY <1>1 DEF UsedRows, allset, FreeSock
<1>5. /\ DueRows' = DueRows \ {d} /\ nready - 1 \in Nat /\ nready \in Nat /\ Cardinality(DueRows') = nready - 1
  BY <1>1, <1>4, WalkGoesOn
<1>6. d \in Nat /\ d \in UsedRows
  BY <1>0, DueRowIs
<1>7. SelTypeOK'
  <2>1. nready' \in Nat /\ at' \in {"select", "accept", "walk", "off"} /\ row' \in Nat
    BY <1>1, <1>2, <1>5, <1>6
  <2> QED
    BY <1>0, <1>1, <1>3, <2>1 DEF SelTypeOK
<1>8. RowsAreConnections' /\ Seats'
  BY <1>0, <1>1, <1>4 DEF TableInv, RowsAreConnections, Seats, QueuedOnce, OwnsOne, QueuedOwnsNone, OutsideNowhere
<1>9. NreadyCountsRest' /\ AcceptReady'
  BY <1>2, <1>5 DEF NreadyCountsRest, AcceptReady
<1>10. DueStay'
  <2>1. ASSUME NEW r \in DueRows' PROVE Due(owner[client[r]])'
    <3>1. r \in DueRows /\ r # d /\ r \in UsedRows
      BY <1>0, <1>5, <2>1, RowsUsed
    <3>2. owner[client[r]] # Speaker /\ owner[client[r]] \in Users
      BY <1>0, <1>6, <3>1, RowsOwned DEF Speaker
    <3>3. Due(owner[client[r]])
      BY <1>0, <3>1 DEF SelInv, RoundInv, DueStay
    <3> QED
      BY <1>1, <3>2, <3>3 DEF Due
  <2> QED
    BY <2>1 DEF DueStay
<1>11. HandlerFindsZombie'
  BY <1>0, <1>1 DEF SelInv, HandlerFindsZombie
<1>12. RowNumbers'
  <2>1. \A r \in UsedRows : owner[client[r]] \in Users /\ WelcomeTo(clientID[r]) \in told[owner[client[r]]]
    BY <1>0, RowsOwned DEF NumberInv, RowNumbers, NumberOf
  <2> QED
    BY <1>1, <1>2, <1>4, <2>1 DEF RowNumbers, NumberOf
<1>13. ToldForms'
  <2> SUFFICES ASSUME NEW u \in Users, NEW m \in told'[u]
               PROVE  \/ \E j \in Nat : j < currentID /\ m = WelcomeTo(j)
                      \/ \E j \in Nat, a \in Users \cup {NoUser} : m = Quote(j, a)
    BY <1>1, <1>2 DEF ToldForms
  <2>1. CASE m = Quote(id, author)
    BY <2>1
  <2>2. CASE m \in told[u]
    BY <1>0, <2>2 DEF NumberInv, ToldForms
  <2> QED
    BY <1>2, <2>1, <2>2
<1>14. \A u \in Users, j \in Nat : WelcomeTo(j) \in told'[u] => WelcomeTo(j) \in told[u]
  BY <1>2, TextForms
<1>15. NumbersOnce'
  BY <1>0, <1>14 DEF NumberInv, NumbersOnce, NumberOf
<1>16. QuotedRight'
  <2> SUFFICES ASSUME at' # "off", NEW u \in Users, NEW m \in told'[u], "says" \in DOMAIN m
               PROVE  m.says # NoUser /\ WelcomeTo(m.id) \in told'[m.says]
    BY DEF QuotedRight, NumberOf
  <2>1. CASE m = Quote(id, author)
    <3>1. author \in Users /\ WelcomeTo(id) \in told[author] /\ m.says = author /\ m.id = id
      BY <1>2, <2>1, TextForms DEF NumberOf
    <3> QED
      BY <1>2, <3>1, SelectServerAssumption
  <2>2. CASE m \in told[u]
    <3>1. m.says # NoUser /\ WelcomeTo(m.id) \in told[m.says]
      BY <1>0, <2>2 DEF NumberInv, QuotedRight, NumberOf
    <3>2. PICK j \in Nat, a \in Users \cup {NoUser} : m = Quote(j, a)
      BY <1>0, <2>2, TextForms DEF NumberInv, ToldForms
    <3>3. m.says \in Users
      BY <3>1, <3>2, TextForms
    <3> QED
      BY <1>2, <3>1, <3>3
  <2> QED
    BY <1>2, <2>1, <2>2
<1>17. Logged'
  BY <1>0, <1>1, <1>2 DEF NumberInv, Logged, NumberOf
<1> QED
  BY <1>7, <1>8, <1>9, <1>10, <1>11, <1>12, <1>13, <1>15, <1>16, <1>17
     DEF SelInv, TableInv, RoundInv, NumberInv

LEMMA LinesStep ==
  ASSUME SelInv, ReadLines
  PROVE  SelInv'
<1>0. TableInv /\ SelTypeOK /\ NumberInv /\ Walking /\ DueRows # {}
  BY DEF SelInv, TableInv, ReadLines, ReadLinesAs, Walking
<1>1. DueRow \in UsedRows /\ Speaker \in Users /\ DueRow \in Rows
  BY <1>0, DueRowIs
<1>2. NumberOf(Speaker, clientID[DueRow]) /\ clientID[DueRow] \in Nat
  BY <1>0, <1>1 DEF NumberInv, RowNumbers, Speaker, SelTypeOK
<1>3. PICK k \in 1 .. unread[Speaker] : unread' = [unread EXCEPT ![Speaker] = @ - k]
  BY DEF ReadLines, ReadLinesAs
<1>4. unread' \in [Users -> Nat] /\ \A u \in Users : u # Speaker => unread'[u] = unread[u]
  <2>1. unread[Speaker] \in Nat /\ k \in Nat /\ k <= unread[Speaker]
    BY <1>0, <1>1 DEF SelTypeOK
  <2>2. unread[Speaker] - k \in Nat
    BY <2>1
  <2> QED
    BY <1>0, <1>1, <1>3, <2>2 DEF SelTypeOK
<1>5. /\ Broadcast2(clientID[DueRow], Speaker, fate)
      /\ row' = DueRow + 1 /\ line' = Speaker
      /\ UNCHANGED <<conn, typed, queue, selTable, rset, selKids>>
  BY DEF ReadLines, ReadLinesAs
<1>6. fate \in [Users -> {"fine", "doomed", "pipe", "error", "dead"}]
  BY <1>0 DEF SelTypeOK
<1> HIDE DEF Speaker, Walking
<1> QED
  BY <1>0, <1>1, <1>2, <1>4, <1>5, <1>6, TextStep

(* A failed read sends the old text to a connection that is dead, and the     *)
(* server with it.                                                            *)
LEMMA FailStep ==
  ASSUME SelInv, ReadFails
  PROVE  SelInv'
<1> DEFINE now == [fate EXCEPT ![Speaker] = "dead"]
<1>0. TableInv /\ SelTypeOK /\ NumberInv /\ Walking /\ DueRows # {}
  BY DEF SelInv, TableInv, ReadFails, Walking
<1>1. DueRow \in UsedRows /\ Speaker \in Users /\ DueRow \in Rows /\ DueRow \in Nat
  BY <1>0, DueRowIs
<1>2. clientID[DueRow] \in Nat /\ line \in Users \cup {NoUser}
  BY <1>0, <1>1 DEF SelTypeOK
<1>3. now \in [Users -> {"fine", "doomed", "pipe", "error", "dead"}] /\ now[Speaker] = "dead"
  BY <1>0, <1>1 DEF SelTypeOK
<1>4. Reached(now) # UsedRows
  <2>1. DueRow \notin Reached(now)
    BY <1>1, <1>3 DEF Reached, Speaker
  <2> QED
    BY <1>1, <2>1
<1>5. /\ Broadcast2(clientID[DueRow], line, now)
      /\ row' = DueRow + 1
      /\ UNCHANGED <<conn, typed, unread, queue, selTable, rset, line, selKids>>
  BY DEF ReadFails
<1>6. unread' \in [Users -> Nat] /\ line' \in Users \cup {NoUser}
      /\ \A u \in Users : u # Speaker => unread'[u] = unread[u]
  BY <1>0, <1>2, <1>5 DEF SelTypeOK
<1> HIDE DEF Speaker, Walking, now
<1> QED
  BY <1>0, <1>2, <1>3, <1>4, <1>5, <1>6, TextStep

-----------------------------------------------------------------------------
LEMMA SelInitHolds == SelInit => SelInv
<1> SUFFICES ASSUME SelInit
             PROVE  SelInv
  OBVIOUS
<1>1. UsedRows = {} /\ DueRows = {} /\ allset = {} /\ FreeSock = SockFds
  BY DEF SelInit, UsedRows, DueRows, allset, FreeSock
<1>2. SelTypeOK
  <2>1. << >> \in Seq(Users) /\ Available \in SockFds \cup {Available}
    OBVIOUS
  <2> QED
    BY <2>1, SelectServerAssumption DEF SelInit, SelTypeOK
<1>3. DOMAIN queue = {}
  BY DEF SelInit
<1>4. \A f \in SockFds : owner[f] = NoUser
  BY DEF SelInit
<1>5. RowsAreConnections /\ Seats
  BY <1>1, <1>3, <1>4, SelectServerAssumption
     DEF RowsAreConnections, Seats, QueuedOnce, OwnsOne, QueuedOwnsNone, OutsideNowhere
<1>6. RoundInv
  BY DEF SelInit, RoundInv, NreadyCountsRest, AcceptReady, DueStay
<1>7. HandlerFindsZombie
  <2>1. sigchld \in BOOLEAN /\ handling \in BOOLEAN /\ ~sigchld /\ ~handling /\ zombies = 0
    BY DEF SelInit
  <2>2. {s \in {1} : sigchld} \cup {s \in {2} : handling} = {}
    BY <2>1
  <2>3. Cardinality({}) = 0
    BY FS_EmptySet
  <2>4. Cardinality({s \in {1} : sigchld} \cup {s \in {2} : handling}) = 0
    BY <2>2, <2>3
  <2> QED
    BY <2>1, <2>4 DEF HandlerFindsZombie
<1>8. NumberInv
  BY <1>1 DEF SelInit, NumberInv, RowNumbers, ToldForms, NumbersOnce, QuotedRight, Logged, NumberOf
<1> QED
  BY <1>2, <1>5, <1>6, <1>7, <1>8 DEF SelInv, TableInv

LEMMA UserSteps ==
  ASSUME SelInv, NEW u \in Users,
         Type(u) \/ EndOfInput(u) \/ Killed(u) \/ SeesClose(u) \/ ResetArrives2(u)
  PROVE  SelInv'
<1>0. SelTypeOK /\ u \in Users
  BY DEF SelInv, TableInv
<1>1. CASE Type(u)
  <2>1. \A v \in Users : Due(v) => Due(v)'
    BY <1>0, <1>1 DEF Type, Due, SelTypeOK
  <2> QED
    BY <1>0, <1>1, <2>1, UserMoves DEF Type, SelTypeOK
<1>2. CASE EndOfInput(u)
  <2>1. \A v \in Users : Due(v) => Due(v)'
    BY <1>0, <1>2 DEF EndOfInput, Due, SelTypeOK
  <2> QED
    BY <1>0, <1>2, <2>1, UserMoves DEF EndOfInput, SelTypeOK
<1>3. CASE Killed(u)
  <2>1. \A v \in Users : Due(v) => Due(v)'
    BY <1>0, <1>3 DEF Killed, Due, SelTypeOK
  <2>2. fate' \in [Users -> {"fine", "doomed", "pipe", "error", "dead"}]
    BY <1>0, <1>3 DEF Killed, SelTypeOK
  <2> QED
    BY <1>0, <1>3, <2>1, <2>2, UserMoves DEF Killed, SelTypeOK
<1>4. CASE SeesClose(u)
  <2>1. \A v \in Users : Due(v) => Due(v)'
    BY <1>0, <1>4 DEF SeesClose, Due, SelTypeOK
  <2> QED
    BY <1>0, <1>4, <2>1, UserMoves DEF SeesClose, SelTypeOK
<1>5. CASE ResetArrives2(u)
  <2>1. \A v \in Users : Due(v) => Due(v)'
    BY <1>5 DEF ResetArrives2, Due
  <2> QED
    BY <1>0, <1>5, <2>1, UserMoves DEF ResetArrives2, SelTypeOK
<1> QED
  BY <1>1, <1>2, <1>3, <1>4, <1>5

LEMMA SelStep == SelInv /\ [SelNext]_selVars => SelInv'
<1> SUFFICES ASSUME SelInv, [SelNext]_selVars
             PROVE  SelInv'
  OBVIOUS
<1>1. ASSUME NEW u \in Users,
             \/ Join(u) \/ Type(u) \/ EndOfInput(u) \/ Killed(u)
             \/ SeesClose(u) \/ ResetArrives2(u)
      PROVE  SelInv'
  BY <1>1, JoinStep, UserSteps
<1>2. CASE SelServer
  BY <1>2, AskStep, AcceptStep, LoopTurns, EndStep, LinesStep, FailStep DEF SelServer
<1>3. ASSUME NEW k \in children, ChildExits(k)
      PROVE  SelInv'
  BY <1>3, KidSteps
<1>4. CASE EnterHandler \/ WaitChild
  BY <1>4, KidSteps
<1>5. CASE UNCHANGED selVars
  <2>1. UNCHANGED <<selUsers, told, selTable, selRound>> /\ UNCHANGED <<children, zombies, sigchld, handling>>
    BY <1>5 DEF selVars, selKids
  <2>2. HandlerFindsZombie'
    BY <2>1 DEF SelInv, HandlerFindsZombie, selRound
  <2> QED
    BY <2>1, <2>2, KidMoves DEF SelInv, TableInv, SelTypeOK
<1> QED
  BY <1>1, <1>2, <1>3, <1>4, <1>5 DEF SelNext

LEMMA SelInductive == SelSpec => []SelInv
BY SelInitHolds, SelStep, PTL DEF SelSpec

(* However users come, write and leave: the rows in use are the connections   *)
(* the server holds, the count select() gave runs out exactly when the walk   *)
(* has come to the last reported row, no read and no wait() of the server     *)
(* blocks.                                                                    *)
THEOREM RoundsRight == SelSpec => []RoundsSafe
<1>1. SelInv => RoundsSafe
  BY DEF SelInv, TableInv, RoundInv, DueStay, RoundsSafe, ReadNeverBlocks
<1> QED
  BY <1>1, SelInductive, PTL

(* Whatever anybody was told under a number was written by the user who was   *)
(* welcomed by it, nobody shares a number, and the log has the same numbers.  *)
THEOREM NumbersTruthful == SelSpec => []NumbersRight
<1>1. SelInv => NumbersRight
  <2> SUFFICES ASSUME SelInv
               PROVE  LogTellsTruth
    BY DEF SelInv, NumberInv, NumbersRight
  <2>0. NumberInv
    BY DEF SelInv
  <2>1. ASSUME NEW u \in Users, NEW v \in Users, NEW m \in told[u] \cap told[v], "welcome" \in DOMAIN m
        PROVE  u = v
    <3>1. PICK id \in Nat : m = WelcomeTo(id)
      BY <2>0, <2>1, TextForms DEF NumberInv, ToldForms
    <3> QED
      BY <2>0, <3>1 DEF NumberInv, NumbersOnce, NumberOf
  <2> QED
    BY <2>0, <2>1 DEF LogTellsTruth, NumberInv, Logged
<1> QED
  BY <1>1, SelInductive, PTL
=============================================================================
