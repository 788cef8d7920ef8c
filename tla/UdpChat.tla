------------------------------ MODULE UdpChat ------------------------------
(***************************************************************************)
(* The datagram chat listener.c and its talkers talker.c.  The listener    *)
(* knows a talker by the address and port its datagrams come from: the     *)
(* first one takes a row of the table and is answered by a welcome, each   *)
(* later one is passed on to all rows under the number of its sender.      *)
(*                                                                         *)
(* External: UDP loses, delays, reorders and repeats datagrams: whatever   *)
(* was sent may be received at any later time, never or more than once.    *)
(*                                                                         *)
(* The loop that passes a text on keeps the result of sendto(), 170, in    *)
(* numbytes and terminates the text there for the next receiver, outside   *)
(* buf[100].  What this write hits depends on the build: scratch memory,   *)
(* or the port kept for the third row.                                     *)
(***************************************************************************)
EXTENDS Integers, FiniteSets

CONSTANTS Talkers,       \* records [host, port]
          Nowhere,       \* an address at which no talker listens
          TableSize,     \* rows of the table
          FirstId,       \* START_ID
          MaxLines       \* bound: lines each talker sends after its hello

ASSUME UdpChatAssumption ==
  /\ \A t \in Talkers : DOMAIN t = {"host", "port"}
  /\ Nowhere \notin Talkers
  /\ TableSize \in Nat /\ FirstId \in Nat /\ MaxLines \in [Talkers -> Nat]

NotUsed == -1
Slots == 0 .. TableSize - 1

VARIABLES said,            \* how many datagrams each talker sent: 0 before its hello
          heard,           \* what the listener sent to each talker
          ClientId,        \* the table: numbers,
          ClientAddr,      \* the addresses datagrams are compared with,
          ClientAddrArry,  \* and the addresses texts are sent to
          NumClients, CurrntId,
          listening

tableVars == <<ClientId, ClientAddr, ClientAddrArry, NumClients, CurrntId>>
udpVars == <<said, heard, tableVars, listening>>

UdpInit ==
  /\ said = [t \in Talkers |-> 0]
  /\ heard = [t \in Talkers |-> {}]
  /\ ClientId = [s \in Slots |-> NotUsed]
  /\ ClientAddr = [s \in Slots |-> Nowhere]
  /\ ClientAddrArry = [s \in Slots |-> Nowhere]
  /\ NumClients = 0 /\ CurrntId = FirstId
  /\ listening = TRUE

-----------------------------------------------------------------------------
(* The talkers and the network: text 0 is the hello of length zero *)

Talk(t) ==
  /\ said[t] <= MaxLines[t]
  /\ said' = [said EXCEPT ![t] = @ + 1]
  /\ UNCHANGED <<heard, tableVars, listening>>

Sent == UNION {{[from |-> t, text |-> n] : n \in 0 .. said[t] - 1} : t \in Talkers}

-----------------------------------------------------------------------------
(* The listener: one datagram, looked up in the table row by row *)

Welcome(id) == [welcome |-> id]
Line(id, d) == [id |-> id, from |-> d.from, text |-> d.text]

(* Mutant: only the host is compared, not the port. *)
MatchesHost(s, t) == /\ ClientId[s] # NotUsed /\ ClientAddr[s] # Nowhere
                     /\ ClientAddr[s].host = t.host

(* Mutant: the comparison of the addresses never succeeds. *)
MatchesNever(s, t) == ClientId[s] = NotUsed /\ ClientAddr[s] = t

Matches(s, t) == ClientId[s] # NotUsed /\ ClientAddr[s] = t

(* The row the loop stops at: the first one that is free or the talker's.    *)
Found(t) == {s \in Slots : ClientId[s] = NotUsed \/ Matches(s, t)}
FirstFound(t) == CHOOSE s \in Found(t) : \A q \in Found(t) : s <= q

RegisterCounting(t, s, n) ==
  /\ ClientId[s] = NotUsed
  /\ ClientAddr' = [ClientAddr EXCEPT ![s] = t]
  /\ ClientAddrArry' = [ClientAddrArry EXCEPT ![s] = t]
  /\ ClientId' = [ClientId EXCEPT ![s] = CurrntId]
  /\ heard' = [heard EXCEPT ![t] = @ \cup {Welcome(CurrntId)}]
  /\ CurrntId' = CurrntId + 1 /\ NumClients' = n
  /\ UNCHANGED listening

(* Mutant: a new talker is counted by child and parent. *)
RegisterTwice(t, s) == RegisterCounting(t, s, NumClients + 2)

Register(t, s) == RegisterCounting(t, s, NumClients + 1)

(* Where texts go once the text was terminated for the second receiver.      *)
AfterTerminating ==
  IF NumClients < 2 THEN {ClientAddrArry}
  ELSE {ClientAddrArry} \cup {[ClientAddrArry EXCEPT ![s] = Nowhere] : s \in Slots \cap {2}}

(* A sendto() to the spoilt address is lost, or fails and ends the listener. *)
Reaches(to) == {to[s] : s \in 0 .. NumClients - 1}

PassOnTo(d, s, rows) ==
  /\ Matches(s, d.from)
  /\ ClientAddrArry' \in AfterTerminating
  /\ listening' \in {TRUE} \cup {FALSE : a \in Reaches(ClientAddrArry') \cap {Nowhere}}
  /\ LET upTo == IF listening' THEN rows ELSE 2 IN
     heard' = [t \in Talkers |->
       IF \E q \in 0 .. upTo - 1 : ClientAddrArry'[q] = t
       THEN heard[t] \cup {Line(ClientId[s], d)} ELSE heard[t]]
  /\ UNCHANGED <<ClientId, ClientAddr, NumClients, CurrntId>>

(* Mutant: the last row is left out. *)
PassOnButLast(d, s) == PassOnTo(d, s, NumClients - 1)

PassOn(d, s) == PassOnTo(d, s, NumClients)

(* A full table without the talker in it: the datagram is ignored. *)
Ignore(t) == Found(t) = {} /\ UNCHANGED <<heard, tableVars, listening>>

Receive(d) ==
  /\ listening
  /\ \/ Found(d.from) # {} /\ Register(d.from, FirstFound(d.from))
     \/ Found(d.from) # {} /\ PassOn(d, FirstFound(d.from))
     \/ Ignore(d.from)
  /\ UNCHANGED said

UdpNext == \/ \E t \in Talkers : Talk(t)
           \/ \E d \in Sent : Receive(d)
UdpSpec == UdpInit /\ [][UdpNext]_udpVars

-----------------------------------------------------------------------------
(* Properties *)

(* The types of the variables. *)
UdpTypeOK ==
  /\ said \in [Talkers -> Nat]
  /\ ClientId \in [Slots -> Nat \cup {NotUsed}]
  /\ ClientAddr \in [Slots -> Talkers \cup {Nowhere}]
  /\ ClientAddrArry \in [Slots -> Talkers \cup {Nowhere}]
  /\ NumClients \in 0 .. TableSize /\ CurrntId \in Nat /\ listening \in BOOLEAN

(* listener.c:120-151: whatever is repeated or overtaken on the way, a talker *)
(* takes one row and no row is passed over, so that the loop over NumClients  *)
(* rows meets every talker in the table.                                      *)
OneRowEach ==
  /\ \A s \in Slots : (ClientId[s] # NotUsed) = (s < NumClients)
  /\ \A s, q \in 0 .. NumClients - 1 : ClientAddr[s] = ClientAddr[q] => s = q

(* listener.c:127, 159: a text is passed on under the number its sender was   *)
(* welcomed by, and no two talkers were welcomed by the same number.          *)
SenderKnown ==
  /\ \A t \in Talkers : \A m \in heard[t] :
       "text" \in DOMAIN m => Welcome(m.id) \in heard[m.from]
  /\ \A t, u \in Talkers : \A m \in heard[t] \cap heard[u] :
       "welcome" \in DOMAIN m => t = u

(* listener.c:155-163: who is in the table hears every text that is passed    *)
(* on; only the third row can miss it, whose port the listener may overwrite. *)
AllButThirdHear ==
  [][\A s \in 0 .. NumClients - 1 : \A t \in Talkers : \A m \in heard'[t] \ heard[t] :
       "text" \in DOMAIN m /\ s # 2 /\ listening' => m \in heard'[ClientAddr[s]]]_udpVars

(* The table of talkers is right whatever the network does.                  *)
TalkersRight == UdpTypeOK /\ OneRowEach /\ SenderKnown
=============================================================================
