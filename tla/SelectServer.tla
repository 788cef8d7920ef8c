---------------------------- MODULE SelectServer ----------------------------
(***************************************************************************)
(* The chat server server2.c and its client client2.c: one server process  *)
(* serves all users in a loop around select(), gives every connection a    *)
(* number, passes on each line under the number of its author, and forks   *)
(* a child per connection that writes the number to a log and exits.  The  *)
(* handler of SIGCHLD calls wait() once per signal.                        *)
(*                                                                         *)
(* External: TCP.  A read returns one or more of the lines that arrived.   *)
(* A connection is closed for the user once no process holds its server    *)
(* end.  A user who leaves with text unread resets it: the next call of    *)
(* the server on it, read or write, fails with an error.  What is written  *)
(* to a user who left otherwise makes a reset follow the end of the data.  *)
(* A write to a reset connection whose error was already told, or never    *)
(* will be, raises SIGPIPE, which nobody handles.                          *)
(***************************************************************************)
EXTENDS Integers, Sequences, FiniteSets

CONSTANTS Users, NoUser,
          FD_SETSIZE,   \* rows of client[] and clientID[]
          OpenMax,      \* connections the descriptor limit leaves room for
          START_ID,
          LISTENQ,
          ProcMax,      \* children and zombies the server may have at a time
          May,          \* bound: which users type, end their input, are killed
          MaxTyped      \* bound: how many lines a user types

ASSUME SelectServerAssumption ==
  /\ NoUser \notin Users
  /\ OpenMax \in Nat \ {0} /\ FD_SETSIZE \in Nat /\ OpenMax <= FD_SETSIZE
  /\ START_ID \in Nat /\ LISTENQ \in Nat
  /\ ProcMax \in Nat /\ MaxTyped \in Nat
  /\ May \in [{"type", "end", "die"} -> SUBSET Users]

ListenFd == 0
SockFds == 1 .. OpenMax
Rows == 0 .. FD_SETSIZE - 1
Available == -1

VARIABLES conn,       \* each user: "out", "in", "half" after shutdown(), "gone"
          typed,      \* how many lines each user has typed
          unread,     \* how many of them the server has not read
          fate,       \* each connection: "fine", "doomed" once written to after
                      \* its end, "pipe" when reset after its end, "error" when
                      \* reset before it, "dead" once that error was told
          told,       \* what the server wrote to each user
          queue,      \* the listen queue
          owner,      \* the user behind each descriptor of the server, or NoUser
          client,     \* the table of descriptors
          clientID,   \* the table of numbers
          currentID,  \* the next number
          maxi,       \* the last row that was ever used
          rset,       \* the descriptors select() reported
          nready,     \* how many of them are still to be served
          row,        \* the row the walk stands at
          line,       \* the author of the text in the read buffer
          at,         \* where the loop stands: "select", "accept", "walk", "off"
          children,   \* the children that have not yet exited
          zombies,    \* the children nobody has waited for
          sigchld,    \* SIGCHLD is pending
          handling    \* sig_chld() was entered and stands before its wait()

selUsers == <<conn, typed, unread, fate, queue>>
selTable == <<owner, client, clientID, currentID, maxi>>
selRound == <<rset, nready, row, line, at>>
selKids == <<children, zombies, sigchld, handling>>
selVars == <<selUsers, told, selTable, selRound, selKids>>

WelcomeTo(id) == [welcome |-> id]
Quote(id, author) == [id |-> id, says |-> author]

SelInit ==
  /\ conn = [u \in Users |-> "out"]
  /\ typed = [u \in Users |-> 0]
  /\ unread = [u \in Users |-> 0]
  /\ fate = [u \in Users |-> "fine"]
  /\ told = [u \in Users |-> {}]
  /\ queue = << >>
  /\ owner = [f \in SockFds |-> NoUser]
  /\ client = [r \in Rows |-> Available]
  /\ clientID = [r \in Rows |-> 0]
  /\ currentID = START_ID
  /\ maxi = -1
  /\ rset = {} /\ nready = 0 /\ row = 0 /\ line = NoUser
  /\ at = "select"
  /\ children = {} /\ zombies = 0 /\ sigchld = FALSE /\ handling = FALSE

-----------------------------------------------------------------------------
(* The users: client2.c, and TCP.  Once the server is off they only see that. *)

Join(u) ==
  /\ conn[u] = "out" /\ at # "off" /\ Len(queue) < LISTENQ
  /\ conn' = [conn EXCEPT ![u] = "in"]
  /\ queue' = Append(queue, u)
  /\ UNCHANGED <<typed, unread, fate, told, selTable, selRound, selKids>>

Type(u) ==
  /\ u \in May["type"] /\ conn[u] = "in" /\ at # "off" /\ typed[u] < MaxTyped
  /\ typed' = [typed EXCEPT ![u] = @ + 1]
  /\ unread' = [unread EXCEPT ![u] = @ + 1]
  /\ UNCHANGED <<conn, fate, told, queue, selTable, selRound, selKids>>

EndOfInput(u) ==
  /\ u \in May["end"] /\ conn[u] = "in" /\ at # "off"
  /\ conn' = [conn EXCEPT ![u] = "half"]
  /\ UNCHANGED <<typed, unread, fate, told, queue, selTable, selRound, selKids>>

Killed(u) ==
  /\ u \in May["die"] /\ conn[u] \in {"in", "half"} /\ at # "off"
  /\ conn' = [conn EXCEPT ![u] = "gone"]
  /\ fate' \in {fate} \cup {[fate EXCEPT ![u] = "error"] : m \in told[u]}
  /\ UNCHANGED <<typed, unread, told, queue, selTable, selRound, selKids>>

Queued(u) == \E k \in DOMAIN queue : queue[k] = u
HeldByServer(u) == at # "off" /\ (Queued(u) \/ \E f \in SockFds : owner[f] = u)
HeldByChild(u) == \E k \in children : u \in k.holds

(* read() returns 0 in str_cli(): after the end of its own input the client  *)
(* returns, before that it gives up on the server.                           *)
SeesClose(u) ==
  /\ conn[u] \in {"in", "half"} /\ ~HeldByServer(u) /\ ~HeldByChild(u)
  /\ conn' = [conn EXCEPT ![u] = "gone"]
  /\ UNCHANGED <<typed, unread, fate, told, queue, selTable, selRound, selKids>>

ResetArrives2(u) ==
  /\ fate[u] = "doomed"
  /\ fate' = [fate EXCEPT ![u] = "pipe"]
  /\ UNCHANGED <<conn, typed, unread, told, queue, selTable, selRound, selKids>>

-----------------------------------------------------------------------------
(* The top of the loop: rset = allset, select() *)

UsedRows == {r \in Rows : client[r] # Available}
allset == {client[r] : r \in UsedRows}
Due(u) == unread[u] > 0 \/ conn[u] \in {"half", "gone"}

(* Mutant: the walk does not look at what select() reported. *)
ReadableAll == allset \cup {ListenFd : k \in DOMAIN queue}

Readable == {f \in allset : Due(owner[f])} \cup {ListenFd : k \in DOMAIN queue}

AskSelect ==
  /\ at = "select" /\ ~handling
  /\ Readable # {}
  /\ rset' = Readable /\ nready' = Cardinality(Readable)
  /\ at' = IF ListenFd \in Readable THEN "accept" ELSE "walk"
  /\ row' = 0
  /\ UNCHANGED <<selUsers, told, selTable, line, selKids>>

(* accept(), fork(), and what parent and child do with the connection.  Out  *)
(* of processes, fork() returns -1 and takes the parent's branch.            *)
FreeSock == {f \in SockFds : owner[f] = NoUser}
LowestOf(S) == CHOOSE x \in S : \A y \in S : x <= y

EnterRow(u, fd, r, lastRow) ==
  /\ client' = [client EXCEPT ![r] = fd]
  /\ clientID' = [clientID EXCEPT ![r] = currentID]
  /\ told' = [told EXCEPT ![u] = @ \cup {WelcomeTo(currentID)}]
  /\ currentID' = currentID + 1
  /\ maxi' = lastRow
FreeRow == LowestOf(Rows \ UsedRows)
LastRow == IF FreeRow > maxi THEN FreeRow ELSE maxi

(* Mutant: maxi is set one too far. *)
EnterTableBeyond(u, fd) == EnterRow(u, fd, FreeRow, FreeRow + 1)

EnterTable(u, fd) == EnterRow(u, fd, FreeRow, LastRow)

Served(next) ==
  /\ nready' = nready - 1
  /\ at' = IF nready - 1 <= 0 THEN "select" ELSE next

AcceptLogging(id) ==
  /\ at = "accept" /\ ~handling /\ FreeSock # {}
  /\ LET u == Head(queue)
         fd == LowestOf(FreeSock)
         others == {owner[f] : f \in SockFds} \ {NoUser}
     IN /\ owner' = [owner EXCEPT ![fd] = u]
        /\ EnterTable(u, fd)
        /\ children' = IF Cardinality(children) + zombies >= ProcMax THEN children
                       ELSE children \cup {[id |-> id, user |-> u, holds |-> others]}
  /\ queue' = Tail(queue)
  /\ Served("walk")
  /\ UNCHANGED <<conn, typed, unread, fate, rset, row, line, zombies, sigchld, handling>>

(* Mutant: the child logs the number the next user will get. *)
AcceptLogsNext == AcceptLogging(currentID + 1)

Accept2 == AcceptLogging(currentID)

AcceptFails ==
  /\ at = "accept" /\ ~handling /\ FreeSock = {}
  /\ at' = "off"
  /\ UNCHANGED <<selUsers, told, selTable, rset, nready, row, line, selKids>>

-----------------------------------------------------------------------------
(* The walk over the table: one step per row that is read from *)

(* Mutant: the walk stops before the last row. *)
DueRowsShort == {r \in UsedRows : row <= r /\ r < maxi /\ client[r] \in rset}

DueRows == {r \in UsedRows : row <= r /\ client[r] \in rset}
DueRow == LowestOf(DueRows)
Speaker == owner[client[DueRow]]
Walking == at = "walk" /\ ~handling /\ DueRows # {}

EndOfRows ==
  /\ at = "walk" /\ ~handling /\ DueRows = {}
  /\ at' = "select"
  /\ UNCHANGED <<selUsers, told, selTable, rset, nready, row, line, selKids>>

(* read() returns 0: the row is given up. *)
ReadEndLeaving(owners, rows) ==
  /\ Walking
  /\ unread[Speaker] = 0 /\ fate[Speaker] # "error" /\ conn[Speaker] \in {"half", "gone"}
  /\ owner' = owners /\ client' = rows
  /\ row' = DueRow + 1
  /\ UNCHANGED <<selUsers, told, clientID, currentID, maxi, rset, line, selKids>>
Closed == [owner EXCEPT ![client[DueRow]] = NoUser]
RowFree == [client EXCEPT ![DueRow] = Available]

(* Mutant: the row stays taken after the descriptor is closed. *)
ReadEndKeepsRow == ReadEndLeaving(Closed, client) /\ Served("walk")
(* Mutant: the descriptor is not closed. *)
ReadEndKeepsOpen == ReadEndLeaving(owner, RowFree) /\ Served("walk")
(* Mutant: the end of a connection is not counted as served. *)
ReadEndUncounted == ReadEndLeaving(Closed, RowFree) /\ UNCHANGED <<nready, at>>

ReadEnd == ReadEndLeaving(Closed, RowFree) /\ Served("walk")

(* The text in the buffer goes to the rows in their order, the author's own  *)
(* included, up to the first write that raises SIGPIPE and ends the server.  *)
Reached(now) == {r \in UsedRows :
                   \A q \in UsedRows : q <= r => now[owner[client[q]]] \notin {"pipe", "dead"}}
WrittenTo(u, now) == CASE now[u] = "error" -> "dead"
                       [] now[u] = "fine" /\ conn[u] = "gone" -> "doomed"
                       [] OTHER -> now[u]

Broadcast2(id, author, now) ==
  LET reached == {owner[client[r]] : r \in Reached(now)} IN
  /\ told' = [u \in Users |-> told[u] \cup {Quote(id, author) : r \in {u} \cap reached}]
  /\ fate' = [u \in Users |-> IF u \in reached THEN WrittenTo(u, now) ELSE now[u]]
  /\ IF Reached(now) = UsedRows THEN Served("walk") ELSE at' = "off" /\ nready' = nready

ReadLinesAs(id) ==
  /\ Walking /\ unread[Speaker] > 0
  /\ \E k \in 1 .. unread[Speaker] : unread' = [unread EXCEPT ![Speaker] = @ - k]
  /\ line' = Speaker
  /\ Broadcast2(id, Speaker, fate)
  /\ row' = DueRow + 1
  /\ UNCHANGED <<conn, typed, queue, selTable, rset, selKids>>

(* Mutant: the row of the walk is taken for the number. *)
ReadLinesAsRow == ReadLinesAs(START_ID + DueRow)

ReadLines == ReadLinesAs(clientID[DueRow])

(* read() returns -1, which the code takes for a text: what the buffer still *)
(* holds goes out under this user's number.                                  *)
ReadFails ==
  /\ Walking /\ unread[Speaker] = 0 /\ fate[Speaker] = "error"
  /\ Broadcast2(clientID[DueRow], line, [fate EXCEPT ![Speaker] = "dead"])
  /\ row' = DueRow + 1
  /\ UNCHANGED <<conn, typed, unread, queue, selTable, rset, line, selKids>>

-----------------------------------------------------------------------------
(* The children and SIGCHLD.  A child closes the new connection at once, but *)
(* holds those it inherited until it exits, whether or not fopen() failed.   *)

ChildExits(k) ==
  /\ k \in children
  /\ children' = children \ {k}
  /\ zombies' = IF at = "off" THEN zombies ELSE zombies + 1
  /\ sigchld' = (at # "off")
  /\ UNCHANGED <<selUsers, told, selTable, selRound, handling>>

EnterHandler ==
  /\ sigchld /\ ~handling /\ at # "off"
  /\ sigchld' = FALSE /\ handling' = TRUE
  /\ UNCHANGED <<selUsers, told, selTable, selRound, children, zombies>>

(* Mutant: the handler waits for a second child before it returns. *)
WaitTwice ==
  /\ handling /\ zombies > 0
  /\ zombies' = IF zombies > 1 THEN zombies - 2 ELSE 0
  /\ handling' = FALSE
  /\ UNCHANGED <<selUsers, told, selTable, selRound, children, sigchld>>

WaitChild ==
  /\ handling /\ zombies > 0
  /\ zombies' = zombies - 1 /\ handling' = FALSE
  /\ UNCHANGED <<selUsers, told, selTable, selRound, children, sigchld>>

-----------------------------------------------------------------------------
SelServer == \/ AskSelect \/ Accept2 \/ AcceptFails
             \/ EndOfRows \/ ReadEnd \/ ReadLines \/ ReadFails

SelNext ==
  \/ \E u \in Users : \/ Join(u) \/ Type(u) \/ EndOfInput(u) \/ Killed(u)
                      \/ SeesClose(u) \/ ResetArrives2(u)
  \/ SelServer
  \/ \E k \in children : ChildExits(k)
  \/ EnterHandler \/ WaitChild

(* The kernel runs the server whenever it can run and delivers a pending     *)
(* signal; a child writes its entry and exits.  Users owe nothing.           *)
SelFairness ==
  /\ WF_selVars(SelServer)
  /\ WF_selVars(EnterHandler) /\ WF_selVars(WaitChild)
  /\ WF_selVars(\E k \in children : ChildExits(k))
  /\ \A u \in Users : WF_selVars(SeesClose(u))

SelSpec == SelInit /\ [][SelNext]_selVars
SelFairSpec == SelSpec /\ SelFairness
-----------------------------------------------------------------------------
(* Properties *)

(* The number by which user u was welcomed. *)
NumberOf(u, id) == WelcomeTo(id) \in told[u]

(* The types of the variables. *)
SelTypeOK ==
  /\ conn \in [Users -> {"out", "in", "half", "gone"}]
  /\ typed \in [Users -> Nat] /\ unread \in [Users -> Nat]
  /\ fate \in [Users -> {"fine", "doomed", "pipe", "error", "dead"}]
  /\ queue \in Seq(Users)
  /\ owner \in [SockFds -> Users \cup {NoUser}]
  /\ client \in [Rows -> SockFds \cup {Available}] /\ clientID \in [Rows -> Nat]
  /\ currentID \in Nat /\ maxi \in Rows \cup {-1}
  /\ rset \subseteq SockFds \cup {ListenFd}
  /\ nready \in Nat /\ row \in Nat /\ line \in Users \cup {NoUser}
  /\ at \in {"select", "accept", "walk", "off"}
  /\ zombies \in Nat /\ sigchld \in BOOLEAN /\ handling \in BOOLEAN

(* server2.c:140-198: between two steps of the loop the used rows and the    *)
(* open connections correspond one to one, and no used row lies behind maxi, *)
(* so that the walk serves every connection and no row is taken twice.       *)
RowsAreConnections ==
  /\ allset = SockFds \ FreeSock
  /\ \A r, q \in UsedRows : client[r] = client[q] => r = q
  /\ \A r \in UsedRows : r <= maxi

(* server2.c:166, 213: nready counts exactly the reported descriptors that   *)
(* the rest of the walk will come to, although connections are entered and   *)
(* removed meanwhile; the walk never stops before a user who is due.         *)
NreadyCountsRest ==
  /\ at = "walk" => nready = Cardinality(DueRows)
  /\ at = "accept" => nready = 1 + Cardinality(DueRows)

(* server2.c:195: a descriptor the walk reads from has something to read or  *)
(* has ended, so that read() never makes the whole server wait for one user. *)
ReadNeverBlocks == at = "walk" => \A r \in DueRows : Due(owner[client[r]])

(* server2.c:142-149, 204: as long as the server runs, what anybody was told *)
(* under a number was written by the user who was welcomed by that number,   *)
(* although rows are used again.                                             *)
QuotedRight ==
  at # "off" => \A u \in Users : \A m \in told[u] :
                  "says" \in DOMAIN m => m.says # NoUser /\ NumberOf(m.says, m.id)

(* server2.c:147, 180: no two users have the same number, and a child writes *)
(* into the log the number its user was told, whenever it gets to run.       *)
LogTellsTruth ==
  /\ \A u, v \in Users : \A m \in told[u] \cap told[v] : "welcome" \in DOMAIN m => u = v
  /\ \A e \in children : NumberOf(e.user, e.id)

(* server2.c:70: a signal stands for at least one child that has ended, so   *)
(* the wait() of the handler always finds one and never holds the server up. *)
HandlerFindsZombie ==
  at # "off" => Cardinality({s \in {1} : sigchld} \cup {s \in {2} : handling}) <= zombies

(* server2.c:111-217: what a user typed is read, or the server has died.     *)
EveryLineRead == \A u \in May["type"] : unread[u] > 0 ~> (unread[u] = 0 \/ at = "off")

(* server2.c:195-199, client2.c:53-57: a user who ended its input is let go, *)
(* although the logging children hold copies of its connection.              *)
EveryLeaverGone == \A u \in May["end"] : conn[u] = "half" ~> conn[u] = "gone"

(* The tables, the round under way and the handler are right together.       *)
RoundsSafe == /\ SelTypeOK
              /\ RowsAreConnections /\ NreadyCountsRest
              /\ ReadNeverBlocks /\ HandlerFindsZombie

(* The numbers users are quoted and logged by are the ones they were given.  *)
NumbersRight == QuotedRight /\ LogTellsTruth

(* With the server and its children scheduled fairly, what was typed is read *)
(* and who ended its input is let go.                                        *)
UsersServed == EveryLineRead /\ EveryLeaverGone
=============================================================================
