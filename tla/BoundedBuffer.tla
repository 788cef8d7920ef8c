--------------------------- MODULE BoundedBuffer ---------------------------
(***************************************************************************)
(* The producer/consumer program main_pthread.c: producer and consumer     *)
(* threads share a buffer guarded by a mutex and by two counting           *)
(* semaphores.  The buffer is a stack: insert_item writes                  *)
(* buffer[counter] and remove_item reads buffer[counter-1].                *)
(*                                                                         *)
(* Every thread runs the same loop,                                        *)
(*    sleep, sem_wait, lock, test and access, update counter, unlock,      *)
(*    sem_post,                                                            *)
(* one action per step.  The access and the update of counter are two      *)
(* steps, with the loaded value kept in a register between them, so that   *)
(* nothing but the mutex makes them atomic.                                *)
(***************************************************************************)
EXTENDS Integers, FiniteSets

CONSTANTS Producers,     \* main creates two producer threads
          Consumers,     \* ... and then two consumer threads
          BUFFER_SIZE,
          Items,         \* the values rand() may return
          NoItem,        \* contents of a location nothing was written to
          Free           \* the value of an unlocked mutex

Threads == Producers \cup Consumers

ASSUME SizeAssumption == BUFFER_SIZE \in Nat
ASSUME ThreadsAssumption == /\ IsFiniteSet(Producers)
                            /\ IsFiniteSet(Consumers)
                            /\ Producers \cap Consumers = {}
                            /\ Free \notin Threads
ASSUME ItemsAssumption == NoItem \notin Items

VARIABLES pc,        \* where each thread stands
          mutex,     \* the owner of the mutex, or Free
          empty,     \* value of the semaphore of free slots
          full,      \* value of the semaphore of stored items
          counter,   \* number of items in the buffer, as the code counts them
          buffer,    \* the array
          item,      \* each thread's local variable item
          seen,      \* each thread's register copy of counter
          failed,    \* the threads insert_item or remove_item returned -1 to
          running    \* FALSE once main has called exit(0)

vars == <<pc, mutex, empty, full, counter, buffer, item, seen, failed, running>>

Init ==
  /\ pc = [t \in Threads |-> "new"]
  /\ mutex = Free
  /\ empty = BUFFER_SIZE
  /\ full = 0
  /\ counter = 0
  /\ buffer = [i \in 0 .. BUFFER_SIZE - 1 |-> NoItem]
  /\ item = [t \in Threads |-> NoItem]
  /\ seen = [t \in Threads |-> 0]
  /\ failed = {}
  /\ running = TRUE

Step(t, from, to) ==
  /\ running
  /\ pc[t] = from
  /\ pc' = [pc EXCEPT ![t] = to]

(* main: pthread_create, the producers first *)
Create(t) ==
  /\ Step(t, "new", "sleep")
  /\ t \in Consumers => \A p \in Producers : pc[p] # "new"
  /\ UNCHANGED <<mutex, empty, full, counter, buffer, item, seen, failed, running>>

(* main: sleep(mainSleepTime), then exit(0), wherever the threads are *)
Exit ==
  /\ running
  /\ \A t \in Threads : pc[t] # "new"
  /\ running' = FALSE
  /\ UNCHANGED <<pc, mutex, empty, full, counter, buffer, item, seen, failed>>

-----------------------------------------------------------------------------
(* The steps producers and consumers have in common *)

(* Mutant: the mutex is not waited for. *)
LockUnchecked(t) ==
  /\ Step(t, "lock", "check")
  /\ mutex' = t
  /\ UNCHANGED <<empty, full, counter, buffer, item, seen, failed, running>>

Lock(t) ==
  /\ Step(t, "lock", "check")
  /\ mutex = Free
  /\ mutex' = t
  /\ UNCHANGED <<empty, full, counter, buffer, item, seen, failed, running>>

(* Mutant: the mutex is not given back. *)
UnlockForgotten(t) ==
  /\ Step(t, "unlock", "post")
  /\ UNCHANGED <<mutex, empty, full, counter, buffer, item, seen, failed, running>>

Unlock(t) ==
  /\ Step(t, "unlock", "post")
  /\ mutex' = Free
  /\ UNCHANGED <<empty, full, counter, buffer, item, seen, failed, running>>

-----------------------------------------------------------------------------
(* producer() and insert_item() *)

Generate(p, v) ==
  /\ Step(p, "sleep", "wait")
  /\ item' = [item EXCEPT ![p] = v]
  /\ UNCHANGED <<mutex, empty, full, counter, buffer, seen, failed, running>>

(* Mutant: the semaphore is tested and not taken. *)
WaitEmptyTestsOnly(p) ==
  /\ Step(p, "wait", "lock")
  /\ empty > 0
  /\ UNCHANGED <<mutex, empty, full, counter, buffer, item, seen, failed, running>>

WaitEmpty(p) ==
  /\ Step(p, "wait", "lock")
  /\ empty > 0
  /\ empty' = empty - 1
  /\ UNCHANGED <<mutex, full, counter, buffer, item, seen, failed, running>>

InsertItem(p) ==
  /\ IF counter < BUFFER_SIZE
       THEN /\ Step(p, "check", "update")
            /\ buffer' = [buffer EXCEPT ![counter] = item[p]]
            /\ seen' = [seen EXCEPT ![p] = counter]
            /\ UNCHANGED failed
       ELSE /\ Step(p, "check", "unlock")
            /\ failed' = failed \cup {p}
            /\ UNCHANGED <<buffer, seen>>
  /\ UNCHANGED <<mutex, empty, full, counter, item, running>>

InsertCount(p) ==
  /\ Step(p, "update", "unlock")
  /\ counter' = seen[p] + 1
  /\ UNCHANGED <<mutex, empty, full, buffer, item, seen, failed, running>>

(* Mutant: sem_post is forgotten. *)
PostFullForgotten(p) ==
  /\ Step(p, "post", "sleep")
  /\ UNCHANGED <<mutex, empty, full, counter, buffer, item, seen, failed, running>>

PostFull(p) ==
  /\ Step(p, "post", "sleep")
  /\ full' = full + 1
  /\ UNCHANGED <<mutex, empty, counter, buffer, item, seen, failed, running>>

-----------------------------------------------------------------------------
(* consumer() and remove_item() *)

Awake(c) ==
  /\ Step(c, "sleep", "wait")
  /\ UNCHANGED <<mutex, empty, full, counter, buffer, item, seen, failed, running>>

(* Mutant: off by one, a semaphore at 0 lets a thread in. *)
WaitFullAtZero(c) ==
  /\ Step(c, "wait", "lock")
  /\ full >= 0
  /\ full' = full - 1
  /\ UNCHANGED <<mutex, empty, counter, buffer, item, seen, failed, running>>

WaitFull(c) ==
  /\ Step(c, "wait", "lock")
  /\ full > 0
  /\ full' = full - 1
  /\ UNCHANGED <<mutex, empty, counter, buffer, item, seen, failed, running>>

(* Mutant: off by one, the slot above the top is read. *)
RemoveItemAbove(c) ==
  /\ Step(c, "check", "update")
  /\ item' = [item EXCEPT ![c] = buffer[counter]]
  /\ seen' = [seen EXCEPT ![c] = counter]
  /\ UNCHANGED <<mutex, empty, full, counter, buffer, failed, running>>

(* Mutant: the oldest item is read, and the newest is dropped. *)
RemoveItemBottom(c) ==
  /\ Step(c, "check", "update")
  /\ item' = [item EXCEPT ![c] = buffer[0]]
  /\ seen' = [seen EXCEPT ![c] = counter]
  /\ UNCHANGED <<mutex, empty, full, counter, buffer, failed, running>>

RemoveItem(c) ==
  /\ IF counter > 0
       THEN /\ Step(c, "check", "update")
            /\ item' = [item EXCEPT ![c] = buffer[counter - 1]]
            /\ seen' = [seen EXCEPT ![c] = counter]
            /\ UNCHANGED failed
       ELSE /\ Step(c, "check", "unlock")
            /\ failed' = failed \cup {c}
            /\ UNCHANGED <<item, seen>>
  /\ UNCHANGED <<mutex, empty, full, counter, buffer, running>>

(* Mutant: counter is not decremented. *)
RemoveCountForgotten(c) ==
  /\ Step(c, "update", "unlock")
  /\ counter' = seen[c]
  /\ UNCHANGED <<mutex, empty, full, buffer, item, seen, failed, running>>

RemoveCount(c) ==
  /\ Step(c, "update", "unlock")
  /\ counter' = seen[c] - 1
  /\ UNCHANGED <<mutex, empty, full, buffer, item, seen, failed, running>>

(* Mutant: sem_post is forgotten. *)
PostEmptyForgotten(c) ==
  /\ Step(c, "post", "sleep")
  /\ UNCHANGED <<mutex, empty, full, counter, buffer, item, seen, failed, running>>

PostEmpty(c) ==
  /\ Step(c, "post", "sleep")
  /\ empty' = empty + 1
  /\ UNCHANGED <<mutex, full, counter, buffer, item, seen, failed, running>>

-----------------------------------------------------------------------------
Locking(t) == Lock(t) \/ Unlock(t)

Producing(p) ==
  \/ \E v \in Items : Generate(p, v)
  \/ WaitEmpty(p)
  \/ InsertItem(p) \/ InsertCount(p)
  \/ PostFull(p)

Consuming(c) ==
  \/ Awake(c)
  \/ WaitFull(c)
  \/ RemoveItem(c) \/ RemoveCount(c)
  \/ PostEmpty(c)

Next ==
  \/ \E t \in Threads : Create(t) \/ Locking(t)
  \/ \E p \in Producers : Producing(p)
  \/ \E c \in Consumers : Consuming(c)
  \/ Exit

Spec == Init /\ [][Next]_vars

(* Every thread created keeps running, a sleep ends and the mutex and the   *)
(* semaphores let somebody in.  Main may sleep for any time.                *)
FairSpec ==
  /\ Spec
  /\ \A t \in Threads : WF_vars(Create(t)) /\ WF_vars(Locking(t))
  /\ \A p \in Producers : WF_vars(Producing(p))
  /\ \A c \in Consumers : WF_vars(Consuming(c))

-----------------------------------------------------------------------------
(***************************************************************************)
(* Properties                                                              *)
(***************************************************************************)
Places == {"new", "sleep", "wait", "lock", "check", "update", "unlock", "post"}

(* Every location holds a value of its kind; the semaphores and counter     *)
(* never leave 0..BUFFER_SIZE.                                              *)
TypeOK ==
  /\ pc \in [Threads -> Places]
  /\ mutex \in Threads \cup {Free}
  /\ empty \in 0 .. BUFFER_SIZE
  /\ full \in 0 .. BUFFER_SIZE
  /\ counter \in 0 .. BUFFER_SIZE
  /\ buffer \in [0 .. BUFFER_SIZE - 1 -> Items \cup {NoItem}]
  /\ item \in [Threads -> Items \cup {NoItem}]
  /\ seen \in [Threads -> Int]
  /\ failed \subseteq Threads
  /\ running \in BOOLEAN

Where(f, S, places) == {t \in S : f[t] \in places}
At(S, places) == Where(pc, S, places)

Inside == {"check", "update", "unlock"}

(* The mutex and the places agree: a thread between lock and unlock owns    *)
(* the mutex, so no two threads are there.                                  *)
MutualExclusion == \A t \in Threads : pc[t] \in Inside <=> mutex = t

(* Neither insert_item nor remove_item ever takes its error branch: the     *)
(* semaphores admit a producer only while a slot is left for it and a       *)
(* consumer only while an item is.                                          *)
NoErrorReport == failed = {}

(* The threads between their sem_wait and their sem_post; among them the    *)
(* producers whose item is in the buffer, and the consumers that are        *)
(* entitled to an item and have not removed it.                             *)
InFlight == At(Threads, {"lock", "check", "update", "unlock", "post"})
Inserted == At(Producers, {"unlock", "post"})
Claimed == At(Consumers, {"lock", "check", "update"})

(* Each slot is accounted for exactly once: it is free, it holds a posted   *)
(* item, or it belongs to a thread in flight.                               *)
SlotsAccounted == empty + full + Cardinality(InFlight) = BUFFER_SIZE

(* counter is the number of posted items, plus those inserted and not yet   *)
(* posted, plus those a consumer was admitted for and has not yet removed.  *)
CounterAccounted == counter = full + Cardinality(Inserted) + Cardinality(Claimed)

(* Between its load and its store of counter a thread's register copy is    *)
(* never out of date: no update of counter is lost.                         *)
NoStaleCount == \A t \in At(Threads, {"update"}) : seen[t] = counter

(* No consumer ever leaves with the contents of a slot nothing was written  *)
(* to.                                                                      *)
NoEmptyHanded == \A c \in At(Consumers, {"update", "unlock", "post"}) : item[c] # NoItem

(* The two sem_wait calls never block every created thread at once, and     *)
(* nobody waits for a mutex whose owner waits in turn.                      *)
SomebodyCanMove ==
  \E t \in Threads :
    /\ pc[t] = "wait" => IF t \in Producers THEN empty > 0 ELSE full > 0
    /\ pc[t] = "lock" => mutex = Free

(* No thread is ever harmed by what another does between its own steps.     *)
BufferSafe == MutualExclusion /\ NoErrorReport /\ NoStaleCount /\ NoEmptyHanded

(* The semaphores and counter agree on every slot.                           *)
Accounted == SlotsAccounted /\ CounterAccounted

(* Unless main exits, items are inserted for ever and removed for ever.     *)
AlwaysInserting == <>~running \/ []<>(\E p \in Producers : pc[p] = "update")
AlwaysRemoving == <>~running \/ []<>(\E c \in Consumers : pc[c] = "update")

-----------------------------------------------------------------------------
(***************************************************************************)
(* The stack the buffer implements.  A push takes effect when the producer *)
(* updates counter, a pop when the consumer reads the slot: from then on   *)
(* the top slot no longer belongs to the stack.                            *)
(***************************************************************************)
Height == IF At(Consumers, {"update"}) = {} THEN counter ELSE counter - 1

Stack == INSTANCE BoundedStack WITH
  Capacity <- BUFFER_SIZE,
  Getters <- Consumers,
  Values <- Items,
  Nothing <- NoItem,
  stack <- [i \in 1 .. Height |-> buffer[i - 1]],
  got <- [c \in Consumers |-> item[c]]

(* Every consumer gets the item on top, whatever the interleaving: none is  *)
(* lost, handed out twice or overwritten.                                   *)
ImplementsStack == Stack!ASpec
=============================================================================
