------------------------ MODULE BoundedBufferProofs ------------------------
(***************************************************************************)
(* The safety of main_pthread.c for any number of producers and consumers  *)
(* and any buffer size.  The invariant is the accounting of slots and of   *)
(* counter over the threads in flight; the error branches of insert_item   *)
(* and remove_item are unreachable because of it.                          *)
(***************************************************************************)
EXTENDS BoundedBuffer, Sequences, FiniteSetTheorems, TLAPS

(* TypeOK without the bounds that only the accounting gives. *)
TypeInv ==
  /\ pc \in [Threads -> Places]
  /\ mutex \in Threads \cup {Free}
  /\ empty \in Nat
  /\ full \in Nat
  /\ counter \in Int
  /\ buffer \in [0 .. BUFFER_SIZE - 1 -> Items \cup {NoItem}]
  /\ item \in [Threads -> Items \cup {NoItem}]
  /\ seen \in [Threads -> Int]
  /\ failed \subseteq Threads
  /\ running \in BOOLEAN

IInv ==
  /\ TypeInv
  /\ MutualExclusion
  /\ SlotsAccounted
  /\ CounterAccounted
  /\ NoStaleCount
  /\ NoErrorReport

-----------------------------------------------------------------------------
(* Threads is finite, and so is every set of threads at given places. *)
LEMMA WhereFinite ==
  ASSUME NEW S \in SUBSET Threads, NEW A, NEW f
  PROVE  /\ IsFiniteSet(Where(f, S, A))
         /\ Cardinality(Where(f, S, A)) \in Nat
<1>1. IsFiniteSet(Threads)
  BY ThreadsAssumption, FS_Union DEF Threads
<1>2. IsFiniteSet(Where(f, S, A))
  BY <1>1, FS_Subset DEF Where
<1> QED
  BY <1>2, FS_CardinalityType

(* How much the number of threads of S at the places A changes when t moves. *)
Change(S, A, t, from, to) ==
  (IF t \in S /\ to \in A THEN 1 ELSE 0) - (IF t \in S /\ from \in A THEN 1 ELSE 0)

(* g is f with thread t moved. *)
Moved(f, g, t, to) == \A s \in Threads : g[s] = IF s = t THEN to ELSE f[s]

(* When one thread moves, the number of threads of S at the places A changes *)
(* by at most one, as the thread leaves or enters A.                         *)
LEMMA MoveCount ==
  ASSUME NEW S \in SUBSET Threads, NEW A, NEW t \in Threads, NEW to,
         NEW f, NEW g, Moved(f, g, t, to)
  PROVE  Cardinality(Where(g, S, A)) = Cardinality(Where(f, S, A))
           + Change(S, A, t, f[t], to)
<1> DEFINE Now == Where(f, S, A)
           Then == Where(g, S, A)
<1>1. IsFiniteSet(Now) /\ Cardinality(Now) \in Nat
  BY WhereFinite
<1>2. /\ Cardinality(Now \cup {t}) = IF t \in Now THEN Cardinality(Now) ELSE Cardinality(Now) + 1
      /\ Cardinality(Now \ {t}) = IF t \in Now THEN Cardinality(Now) - 1 ELSE Cardinality(Now)
  BY <1>1, FS_AddElement, FS_RemoveElement
<1>3. t \in Now <=> t \in S /\ f[t] \in A
  BY DEF Where
<1>4. CASE t \in S /\ to \in A
  <2>1. Then = Now \cup {t}
    BY <1>4 DEF Where, Moved
  <2> HIDE DEF Now, Then
  <2>2. Cardinality(Then) = Cardinality(Now) + 1 - (IF t \in S /\ f[t] \in A THEN 1 ELSE 0)
    BY <1>1, <1>2, <1>3, <2>1
  <2> QED
    BY <1>4, <1>1, <2>2 DEF Now, Then, Change
<1>5. CASE ~(t \in S /\ to \in A)
  <2>1. Then = Now \ {t}
    BY <1>5 DEF Where, Moved
  <2> HIDE DEF Now, Then
  <2>2. Cardinality(Then) = Cardinality(Now) - (IF t \in S /\ f[t] \in A THEN 1 ELSE 0)
    BY <1>1, <1>2, <1>3, <2>1
  <2> QED
    BY <1>5, <1>1, <2>2 DEF Now, Then, Change
<1> QED
  BY <1>4, <1>5

(* How a step of one thread changes the three counts of the accounting. *)
LEMMA Tally ==
  ASSUME TypeInv, NEW t \in Threads, NEW from, NEW to, Step(t, from, to)
  PROVE  /\ Cardinality(InFlight) \in Nat
         /\ Cardinality(Inserted) \in Nat
         /\ Cardinality(Claimed) \in Nat
         /\ Cardinality(InFlight') = Cardinality(InFlight)
              + Change(Threads, {"lock", "check", "update", "unlock", "post"}, t, from, to)
         /\ Cardinality(Inserted') = Cardinality(Inserted)
              + Change(Producers, {"unlock", "post"}, t, from, to)
         /\ Cardinality(Claimed') = Cardinality(Claimed)
              + Change(Consumers, {"lock", "check", "update"}, t, from, to)
<1>1. pc \in [Threads -> Places] /\ pc[t] = from /\ pc' = [pc EXCEPT ![t] = to]
  BY DEF TypeInv, Step
<1>2. Threads \in SUBSET Threads /\ Producers \in SUBSET Threads /\ Consumers \in SUBSET Threads
  BY DEF Threads
<1>3. /\ Cardinality(InFlight) \in Nat
      /\ Cardinality(Inserted) \in Nat
      /\ Cardinality(Claimed) \in Nat
  BY <1>2, WhereFinite DEF InFlight, Inserted, Claimed, At
<1>4. \A S \in SUBSET Threads : \A A :
        Cardinality(Where(pc', S, A)) = Cardinality(Where(pc, S, A)) + Change(S, A, t, from, to)
  <2>1. Moved(pc, pc', t, to)
    BY <1>1 DEF Moved
  <2>2. \A S \in SUBSET Threads : \A A :
          Cardinality(Where(pc', S, A)) = Cardinality(Where(pc, S, A)) + Change(S, A, t, pc[t], to)
    BY <2>1, MoveCount
  <2> QED
    BY <1>1, <2>2
<1>5. /\ InFlight = Where(pc, Threads, {"lock", "check", "update", "unlock", "post"})
      /\ InFlight' = Where(pc', Threads, {"lock", "check", "update", "unlock", "post"})
      /\ Inserted = Where(pc, Producers, {"unlock", "post"})
      /\ Inserted' = Where(pc', Producers, {"unlock", "post"})
      /\ Claimed = Where(pc, Consumers, {"lock", "check", "update"})
      /\ Claimed' = Where(pc', Consumers, {"lock", "check", "update"})
  BY DEF InFlight, Inserted, Claimed, At, Where
<1> QED
  BY <1>2, <1>3, <1>4, <1>5

(* What the accounting gives: counter stays within the buffer, a producer    *)
(* let in finds a slot and a consumer let in finds an item.                  *)
LEMMA Room ==
  ASSUME IInv
  PROVE  /\ empty \in 0 .. BUFFER_SIZE
         /\ full \in 0 .. BUFFER_SIZE
         /\ counter \in 0 .. BUFFER_SIZE
         /\ \A p \in Producers : pc[p] \in {"lock", "check", "update"} => counter < BUFFER_SIZE
         /\ \A c \in Consumers : pc[c] \in {"lock", "check", "update"} => counter > 0
<1>1. Threads \in SUBSET Threads /\ Producers \in SUBSET Threads /\ Consumers \in SUBSET Threads
  BY DEF Threads
<1>2. /\ IsFiniteSet(InFlight) /\ Cardinality(InFlight) \in Nat
      /\ IsFiniteSet(Inserted) /\ Cardinality(Inserted) \in Nat
      /\ IsFiniteSet(Claimed) /\ Cardinality(Claimed) \in Nat
  BY <1>1, WhereFinite DEF InFlight, Inserted, Claimed, At
<1>3. Inserted \cap Claimed = {} /\ Inserted \cup Claimed \in SUBSET InFlight
  BY ThreadsAssumption DEF Inserted, Claimed, InFlight, At, Where, Threads
<1>4. Cardinality(Inserted \cup Claimed) = Cardinality(Inserted) + Cardinality(Claimed)
  <2>1. Cardinality(Inserted \cap Claimed) = 0
    BY <1>3, FS_EmptySet
  <2>2. Cardinality(Inserted \cup Claimed)
          = Cardinality(Inserted) + Cardinality(Claimed) - Cardinality(Inserted \cap Claimed)
    BY <1>2, FS_Union
  <2> QED
    BY <2>1, <2>2, <1>2
<1>5. Cardinality(Inserted \cup Claimed) <= Cardinality(InFlight)
  BY <1>2, <1>3, FS_Subset
<1>6. empty \in Nat /\ full \in Nat /\ BUFFER_SIZE \in Nat /\ SlotsAccounted /\ CounterAccounted
  BY SizeAssumption DEF IInv, TypeInv
<1>7. ASSUME NEW p \in Producers, pc[p] \in {"lock", "check", "update"}
      PROVE  counter < BUFFER_SIZE
  <2>1. p \in InFlight \ (Inserted \cup Claimed)
    BY <1>7, ThreadsAssumption DEF InFlight, Inserted, Claimed, At, Where, Threads
  <2>2. Cardinality(Inserted \cup Claimed) # Cardinality(InFlight)
    BY <2>1, <1>2, <1>3, FS_Subset
  <2>3. Cardinality(Inserted \cup Claimed) < Cardinality(InFlight)
    BY <2>2, <1>2, <1>4, <1>5
  <2> QED
    BY <2>3, <1>2, <1>4, <1>6 DEF SlotsAccounted, CounterAccounted
<1>8. ASSUME NEW c \in Consumers, pc[c] \in {"lock", "check", "update"}
      PROVE  counter > 0
  <2>1. c \in Claimed
    BY <1>8 DEF Claimed, At, Where
  <2>2. Cardinality(Claimed) # 0
    BY <2>1, <1>2, FS_EmptySet
  <2> QED
    BY <2>2, <1>2, <1>6 DEF CounterAccounted
<1> QED
  BY <1>2, <1>4, <1>5, <1>6, <1>7, <1>8 DEF SlotsAccounted, CounterAccounted
-----------------------------------------------------------------------------
LEMMA InitInv == Init => IInv
<1> SUFFICES ASSUME Init PROVE IInv
  OBVIOUS
<1>1. TypeInv /\ MutualExclusion /\ NoStaleCount /\ NoErrorReport
  BY SizeAssumption, ThreadsAssumption
  DEF Init, TypeInv, Places, MutualExclusion, Inside, NoStaleCount, At, Where, NoErrorReport
<1>2. InFlight = {} /\ Inserted = {} /\ Claimed = {}
  BY DEF Init, InFlight, Inserted, Claimed, At, Where, Threads
<1>3. SlotsAccounted /\ CounterAccounted
  BY <1>2, FS_EmptySet, SizeAssumption DEF Init, SlotsAccounted, CounterAccounted
<1> QED
  BY <1>1, <1>3 DEF IInv

(* The accounting survives a step that changes the semaphores and counter as *)
(* the places it leads from and to require.                                  *)
LEMMA AccountsKept ==
  ASSUME IInv, NEW t \in Threads, NEW from, NEW to, Step(t, from, to),
         empty' \in Nat, full' \in Nat, counter' \in Int,
         empty' - empty + full' - full
           + Change(Threads, {"lock", "check", "update", "unlock", "post"}, t, from, to) = 0,
         counter' - counter
           = full' - full + Change(Producers, {"unlock", "post"}, t, from, to)
                          + Change(Consumers, {"lock", "check", "update"}, t, from, to)
  PROVE  SlotsAccounted' /\ CounterAccounted'
<1>1. /\ Cardinality(InFlight) \in Nat
      /\ Cardinality(Inserted) \in Nat
      /\ Cardinality(Claimed) \in Nat
      /\ Cardinality(InFlight') = Cardinality(InFlight)
           + Change(Threads, {"lock", "check", "update", "unlock", "post"}, t, from, to)
      /\ Cardinality(Inserted') = Cardinality(Inserted)
           + Change(Producers, {"unlock", "post"}, t, from, to)
      /\ Cardinality(Claimed') = Cardinality(Claimed)
           + Change(Consumers, {"lock", "check", "update"}, t, from, to)
  BY Tally DEF IInv
<1>2. /\ Change(Threads, {"lock", "check", "update", "unlock", "post"}, t, from, to) \in Int
      /\ Change(Producers, {"unlock", "post"}, t, from, to) \in Int
      /\ Change(Consumers, {"lock", "check", "update"}, t, from, to) \in Int
  BY DEF Change
<1>3. empty \in Nat /\ full \in Nat /\ counter \in Int /\ SlotsAccounted /\ CounterAccounted
  BY DEF IInv, TypeInv
<1> QED
  BY <1>1, <1>2, <1>3, SizeAssumption DEF SlotsAccounted, CounterAccounted

(* The mutex and the places stay in agreement on a step that takes the mutex, *)
(* gives it back, or does neither.                                            *)
LEMMA ExclusionKept ==
  ASSUME IInv, NEW t \in Threads, NEW from, NEW to, Step(t, from, to),
         \/ from \notin Inside /\ to \in Inside /\ mutex = Free /\ mutex' = t
         \/ from \in Inside /\ to \notin Inside /\ mutex' = Free
         \/ (from \in Inside <=> to \in Inside) /\ mutex' = mutex
  PROVE  MutualExclusion'
BY ThreadsAssumption DEF IInv, TypeInv, Step, MutualExclusion

LEMMA StepInv == IInv /\ [Next]_vars => IInv'
<1> SUFFICES ASSUME IInv, [Next]_vars PROVE IInv'
  OBVIOUS
<1> USE DEF IInv
<1>ty. TypeInv
  OBVIOUS
<1>pl. \A t \in Threads, to \in Places : [pc EXCEPT ![t] = to] \in [Threads -> Places]
  BY DEF TypeInv
<1>1. ASSUME NEW t \in Threads, Create(t)
      PROVE  IInv'
  <2>1. t \in Threads /\ Step(t, "new", "sleep")
    BY <1>1 DEF Create
  <2>2. TypeInv'
    BY <1>1, <1>ty, <1>pl, <2>1 DEF Create, Step, TypeInv, Places
  <2>3. MutualExclusion'
    BY <1>1, <2>1, ExclusionKept DEF Create, Inside
  <2>4. SlotsAccounted' /\ CounterAccounted'
    BY <1>1, <1>ty, <2>1, <2>2, AccountsKept, ThreadsAssumption DEF Create, Change, TypeInv, Threads
  <2>5. NoStaleCount'
    BY <1>1, <1>ty, <2>1 DEF Create, Step, TypeInv, NoStaleCount, At, Where, MutualExclusion, Inside
  <2>6. NoErrorReport'
    BY <1>1 DEF Create, NoErrorReport
  <2> QED
    BY <2>2, <2>3, <2>4, <2>5, <2>6
<1>2. ASSUME NEW t \in Threads, Lock(t)
      PROVE  IInv'
  <2>1. t \in Threads /\ Step(t, "lock", "check")
    BY <1>2 DEF Lock
  <2>2. TypeInv'
    BY <1>2, <1>ty, <1>pl, <2>1 DEF Lock, Step, TypeInv, Places
  <2>3. MutualExclusion'
    BY <1>2, <2>1, ExclusionKept DEF Lock, Inside
  <2>4. SlotsAccounted' /\ CounterAccounted'
    BY <1>2, <1>ty, <2>1, <2>2, AccountsKept, ThreadsAssumption DEF Lock, Change, TypeInv, Threads
  <2>5. NoStaleCount'
    BY <1>2, <1>ty, <2>1 DEF Lock, Step, TypeInv, NoStaleCount, At, Where, MutualExclusion, Inside
  <2>6. NoErrorReport'
    BY <1>2 DEF Lock, NoErrorReport
  <2> QED
    BY <2>2, <2>3, <2>4, <2>5, <2>6
<1>3. ASSUME NEW t \in Threads, Unlock(t)
      PROVE  IInv'
  <2>1. t \in Threads /\ Step(t, "unlock", "post")
    BY <1>3 DEF Unlock
  <2>2. TypeInv'
    BY <1>3, <1>ty, <1>pl, <2>1 DEF Unlock, Step, TypeInv, Places
  <2>3. MutualExclusion'
    BY <1>3, <2>1, ExclusionKept DEF Unlock, Inside
  <2>4. SlotsAccounted' /\ CounterAccounted'
    BY <1>3, <1>ty, <2>1, <2>2, AccountsKept, ThreadsAssumption DEF Unlock, Change, TypeInv, Threads
  <2>5. NoStaleCount'
    BY <1>3, <1>ty, <2>1 DEF Unlock, Step, TypeInv, NoStaleCount, At, Where, MutualExclusion, Inside
  <2>6. NoErrorReport'
    BY <1>3 DEF Unlock, NoErrorReport
  <2> QED
    BY <2>2, <2>3, <2>4, <2>5, <2>6
<1>4. ASSUME NEW p \in Producers, WaitEmpty(p)
      PROVE  IInv'
  <2>1. p \in Threads /\ Step(p, "wait", "lock")
    BY <1>4 DEF WaitEmpty, Threads
  <2>2. TypeInv'
    BY <1>4, <1>ty, <1>pl, <2>1 DEF WaitEmpty, Step, TypeInv, Places
  <2>3. MutualExclusion'
    BY <1>4, <2>1, ExclusionKept DEF WaitEmpty, Inside
  <2>4. SlotsAccounted' /\ CounterAccounted'
    BY <1>4, <1>ty, <2>1, <2>2, AccountsKept, ThreadsAssumption DEF WaitEmpty, Change, TypeInv, Threads
  <2>5. NoStaleCount'
    BY <1>4, <1>ty, <2>1 DEF WaitEmpty, Step, TypeInv, NoStaleCount, At, Where, MutualExclusion, Inside
  <2>6. NoErrorReport'
    BY <1>4 DEF WaitEmpty, NoErrorReport
  <2> QED
    BY <2>2, <2>3, <2>4, <2>5, <2>6
<1>5. ASSUME NEW p \in Producers, InsertCount(p)
      PROVE  IInv'
  <2>1. p \in Threads /\ Step(p, "update", "unlock")
    BY <1>5 DEF InsertCount, Threads
  <2>2. TypeInv'
    BY <1>5, <1>ty, <1>pl, <2>1 DEF InsertCount, Step, TypeInv, Places
  <2>3. MutualExclusion'
    BY <1>5, <2>1, ExclusionKept DEF InsertCount, Inside
  <2>4. SlotsAccounted' /\ CounterAccounted'
    <3>1. seen[p] = counter
      BY <2>1 DEF NoStaleCount, At, Where, Step
    <3> QED
      BY <1>5, <1>ty, <2>1, <2>2, <3>1, AccountsKept, ThreadsAssumption DEF InsertCount, Change, TypeInv, Threads
  <2>5. NoStaleCount'
    BY <1>5, <1>ty, <2>1 DEF InsertCount, Step, TypeInv, NoStaleCount, At, Where, MutualExclusion, Inside
  <2>6. NoErrorReport'
    BY <1>5 DEF InsertCount, NoErrorReport
  <2> QED
    BY <2>2, <2>3, <2>4, <2>5, <2>6
<1>6. ASSUME NEW p \in Producers, PostFull(p)
      PROVE  IInv'
  <2>1. p \in Threads /\ Step(p, "post", "sleep")
    BY <1>6 DEF PostFull, Threads
  <2>2. TypeInv'
    BY <1>6, <1>ty, <1>pl, <2>1 DEF PostFull, Step, TypeInv, Places
  <2>3. MutualExclusion'
    BY <1>6, <2>1, ExclusionKept DEF PostFull, Inside
  <2>4. SlotsAccounted' /\ CounterAccounted'
    BY <1>6, <1>ty, <2>1, <2>2, AccountsKept, ThreadsAssumption DEF PostFull, Change, TypeInv, Threads
  <2>5. NoStaleCount'
    BY <1>6, <1>ty, <2>1 DEF PostFull, Step, TypeInv, NoStaleCount, At, Where, MutualExclusion, Inside
  <2>6. NoErrorReport'
    BY <1>6 DEF PostFull, NoErrorReport
  <2> QED
    BY <2>2, <2>3, <2>4, <2>5, <2>6
<1>7. ASSUME NEW c \in Consumers, Awake(c)
      PROVE  IInv'
  <2>1. c \in Threads /\ Step(c, "sleep", "wait")
    BY <1>7 DEF Awake, Threads
  <2>2. TypeInv'
    BY <1>7, <1>ty, <1>pl, <2>1 DEF Awake, Step, TypeInv, Places
  <2>3. MutualExclusion'
    BY <1>7, <2>1, ExclusionKept DEF Awake, Inside
  <2>4. SlotsAccounted' /\ CounterAccounted'
    BY <1>7, <1>ty, <2>1, <2>2, AccountsKept, ThreadsAssumption DEF Awake, Change, TypeInv, Threads
  <2>5. NoStaleCount'
    BY <1>7, <1>ty, <2>1 DEF Awake, Step, TypeInv, NoStaleCount, At, Where, MutualExclusion, Inside
  <2>6. NoErrorReport'
    BY <1>7 DEF Awake, NoErrorReport
  <2> QED
    BY <2>2, <2>3, <2>4, <2>5, <2>6
<1>8. ASSUME NEW c \in Consumers, WaitFull(c)
      PROVE  IInv'
  <2>1. c \in Threads /\ Step(c, "wait", "lock")
    BY <1>8 DEF WaitFull, Threads
  <2>2. TypeInv'
    BY <1>8, <1>ty, <1>pl, <2>1 DEF WaitFull, Step, TypeInv, Places
  <2>3. MutualExclusion'
    BY <1>8, <2>1, ExclusionKept DEF WaitFull, Inside
  <2>4. SlotsAccounted' /\ CounterAccounted'
    BY <1>8, <1>ty, <2>1, <2>2, AccountsKept, ThreadsAssumption DEF WaitFull, Change, TypeInv, Threads
  <2>5. NoStaleCount'
    BY <1>8, <1>ty, <2>1 DEF WaitFull, Step, TypeInv, NoStaleCount, At, Where, MutualExclusion, Inside
  <2>6. NoErrorReport'
    BY <1>8 DEF WaitFull, NoErrorReport
  <2> QED
    BY <2>2, <2>3, <2>4, <2>5, <2>6
<1>9. ASSUME NEW c \in Consumers, RemoveCount(c)
      PROVE  IInv'
  <2>1. c \in Threads /\ Step(c, "update", "unlock")
    BY <1>9 DEF RemoveCount, Threads
  <2>2. TypeInv'
    BY <1>9, <1>ty, <1>pl, <2>1 DEF RemoveCount, Step, TypeInv, Places
  <2>3. MutualExclusion'
    BY <1>9, <2>1, ExclusionKept DEF RemoveCount, Inside
  <2>4. SlotsAccounted' /\ CounterAccounted'
    <3>1. seen[c] = counter
      BY <2>1 DEF NoStaleCount, At, Where, Step
    <3> QED
      BY <1>9, <1>ty, <2>1, <2>2, <3>1, AccountsKept, ThreadsAssumption DEF RemoveCount, Change, TypeInv, Threads
  <2>5. NoStaleCount'
    BY <1>9, <1>ty, <2>1 DEF RemoveCount, Step, TypeInv, NoStaleCount, At, Where, MutualExclusion, Inside
  <2>6. NoErrorReport'
    BY <1>9 DEF RemoveCount, NoErrorReport
  <2> QED
    BY <2>2, <2>3, <2>4, <2>5, <2>6
<1>10. ASSUME NEW c \in Consumers, PostEmpty(c)
      PROVE  IInv'
  <2>1. c \in Threads /\ Step(c, "post", "sleep")
    BY <1>10 DEF PostEmpty, Threads
  <2>2. TypeInv'
    BY <1>10, <1>ty, <1>pl, <2>1 DEF PostEmpty, Step, TypeInv, Places
  <2>3. MutualExclusion'
    BY <1>10, <2>1, ExclusionKept DEF PostEmpty, Inside
  <2>4. SlotsAccounted' /\ CounterAccounted'
    BY <1>10, <1>ty, <2>1, <2>2, AccountsKept, ThreadsAssumption DEF PostEmpty, Change, TypeInv, Threads
  <2>5. NoStaleCount'
    BY <1>10, <1>ty, <2>1 DEF PostEmpty, Step, TypeInv, NoStaleCount, At, Where, MutualExclusion, Inside
  <2>6. NoErrorReport'
    BY <1>10 DEF PostEmpty, NoErrorReport
  <2> QED
    BY <2>2, <2>3, <2>4, <2>5, <2>6
<1>11. ASSUME NEW p \in Producers, NEW v \in Items, Generate(p, v)
      PROVE  IInv'
  <2>1. p \in Threads /\ Step(p, "sleep", "wait")
    BY <1>11 DEF Generate, Threads
  <2>2. TypeInv'
    BY <1>11, <1>ty, <1>pl, <2>1 DEF Generate, Step, TypeInv, Places
  <2>3. MutualExclusion'
    BY <1>11, <2>1, ExclusionKept DEF Generate, Inside
  <2>4. SlotsAccounted' /\ CounterAccounted'
    BY <1>11, <1>ty, <2>1, <2>2, AccountsKept, ThreadsAssumption DEF Generate, Change, TypeInv, Threads
  <2>5. NoStaleCount'
    BY <1>11, <1>ty, <2>1 DEF Generate, Step, TypeInv, NoStaleCount, At, Where, MutualExclusion, Inside
  <2>6. NoErrorReport'
    BY <1>11 DEF Generate, NoErrorReport
  <2> QED
    BY <2>2, <2>3, <2>4, <2>5, <2>6
<1>12. ASSUME NEW p \in Producers, InsertItem(p)
      PROVE  IInv'
  <2>0. counter < BUFFER_SIZE /\ counter \in 0 .. BUFFER_SIZE
    <3>1. pc[p] = "check"
      BY <1>12 DEF InsertItem, Step
    <3> QED
      BY <3>1, Room, SizeAssumption
  <2>1. p \in Threads /\ Step(p, "check", "update")
    BY <1>12, <2>0, SizeAssumption DEF InsertItem, Threads
  <2>2. TypeInv'
    BY <1>12, <1>ty, <1>pl, SizeAssumption, <2>1, <2>0 DEF InsertItem, Step, TypeInv, Places
  <2>3. MutualExclusion'
    BY <1>12, <2>0, <2>1, SizeAssumption, ExclusionKept DEF InsertItem, Inside
  <2>4. SlotsAccounted' /\ CounterAccounted'
    <3>1. UNCHANGED <<empty, full, counter>>
      BY <1>12 DEF InsertItem
    <3> QED
      BY <1>ty, <2>1, <3>1, AccountsKept, ThreadsAssumption DEF Change, TypeInv, Threads
  <2>5. NoStaleCount'
    BY <1>12, <1>ty, <2>0, SizeAssumption, <2>1 DEF InsertItem, Step, TypeInv, NoStaleCount, At, Where, MutualExclusion, Inside
  <2>6. NoErrorReport'
    BY <1>12, <2>0, SizeAssumption DEF InsertItem, NoErrorReport
  <2> QED
    BY <2>2, <2>3, <2>4, <2>5, <2>6
<1>13. ASSUME NEW c \in Consumers, RemoveItem(c)
      PROVE  IInv'
  <2>0. counter > 0 /\ counter \in 0 .. BUFFER_SIZE
    <3>1. pc[c] = "check"
      BY <1>13 DEF RemoveItem, Step
    <3> QED
      BY <3>1, Room, SizeAssumption
  <2>1. c \in Threads /\ Step(c, "check", "update")
    BY <1>13, <2>0, SizeAssumption DEF RemoveItem, Threads
  <2>2. TypeInv'
    BY <1>13, <1>ty, <1>pl, SizeAssumption, <2>1, <2>0 DEF RemoveItem, Step, TypeInv, Places
  <2>3. MutualExclusion'
    BY <1>13, <2>0, <2>1, SizeAssumption, ExclusionKept DEF RemoveItem, Inside
  <2>4. SlotsAccounted' /\ CounterAccounted'
    <3>1. UNCHANGED <<empty, full, counter>>
      BY <1>13 DEF RemoveItem
    <3> QED
      BY <1>ty, <2>1, <3>1, AccountsKept, ThreadsAssumption DEF Change, TypeInv, Threads
  <2>5. NoStaleCount'
    BY <1>13, <1>ty, <2>0, SizeAssumption, <2>1 DEF RemoveItem, Step, TypeInv, NoStaleCount, At, Where, MutualExclusion, Inside
  <2>6. NoErrorReport'
    BY <1>13, <2>0, SizeAssumption DEF RemoveItem, NoErrorReport
  <2> QED
    BY <2>2, <2>3, <2>4, <2>5, <2>6
<1>14. CASE Exit
  BY <1>14, <1>ty DEF Exit, TypeInv, MutualExclusion, SlotsAccounted, CounterAccounted,
       NoStaleCount, NoErrorReport, InFlight, Inserted, Claimed, At, Where
<1>15. CASE UNCHANGED vars
  BY <1>15, <1>ty DEF vars, TypeInv, MutualExclusion, SlotsAccounted, CounterAccounted,
       NoStaleCount, NoErrorReport, InFlight, Inserted, Claimed, At, Where
<1> QED
  BY <1>1, <1>2, <1>3, <1>4, <1>5, <1>6, <1>7, <1>8, <1>9, <1>10, <1>11, <1>12, <1>13, <1>14, <1>15 DEF Next, Locking, Producing, Consuming
-----------------------------------------------------------------------------
(* The accounting, mutual exclusion and the absence of lost updates hold in   *)
(* every reachable state.                                                     *)
THEOREM Invariance == Spec => []IInv
<1> QED
  BY InitInv, StepInv, PTL DEF Spec

(* Every variable keeps its type; the semaphores and counter stay within      *)
(* 0..BUFFER_SIZE, and buffer is only indexed within its bounds.              *)
THEOREM TypeCorrect == Spec => []TypeOK
<1>1. IInv => TypeOK
  <2> SUFFICES ASSUME IInv PROVE TypeOK
    OBVIOUS
  <2>1. empty \in 0 .. BUFFER_SIZE /\ full \in 0 .. BUFFER_SIZE /\ counter \in 0 .. BUFFER_SIZE
    BY Room
  <2> QED
    BY <2>1 DEF IInv, TypeInv, TypeOK
<1> QED
  BY <1>1, Invariance, PTL

(* No two threads are between pthread_mutex_lock and pthread_mutex_unlock.    *)
THEOREM Exclusion == Spec => []MutualExclusion
<1>1. IInv => MutualExclusion
  BY DEF IInv
<1> QED
  BY <1>1, Invariance, PTL

(* The error branches of insert_item and remove_item are never taken.         *)
THEOREM ErrorFree == Spec => []NoErrorReport
<1>1. IInv => NoErrorReport
  BY DEF IInv
<1> QED
  BY <1>1, Invariance, PTL

(* No thread acts on a stale copy of counter.                                 *)
THEOREM NoLostUpdate == Spec => []NoStaleCount
<1>1. IInv => NoStaleCount
  BY DEF IInv
<1> QED
  BY <1>1, Invariance, PTL

(* The semaphores and counter agree with the threads in flight.               *)
THEOREM Accounting == Spec => []Accounted
<1>1. IInv => Accounted
  BY DEF IInv, Accounted
<1> QED
  BY <1>1, Invariance, PTL
-----------------------------------------------------------------------------
(* What the slots and the local variables hold: a producer past rand() has an *)
(* item, every slot counted holds one, so does the slot a producer has written *)
(* and not yet counted, and so does a consumer past its access.              *)
Held ==
  /\ \A p \in Producers : pc[p] \in {"wait", "lock", "check", "update"} => item[p] \in Items
  /\ \A i \in 0 .. counter - 1 : buffer[i] \in Items
  /\ \A p \in Producers : pc[p] = "update" => counter < BUFFER_SIZE /\ buffer[counter] \in Items
  /\ \A c \in Consumers : pc[c] \in {"update", "unlock", "post"} => item[c] \in Items

(* A step that leaves buffer, counter and the items alone, and does not lead   *)
(* to a place where more is held than before.                               *)
LEMMA HeldKept ==
  ASSUME IInv, Held, NEW t \in Threads, NEW from, NEW to, Step(t, from, to), UNCHANGED <<buffer, counter>>,
         \A s \in Threads : s # t => item'[s] = item[s],
         t \in Producers /\ to \in {"wait", "lock", "check", "update"} => item'[t] \in Items,
         t \in Producers => to # "update",
         t \in Consumers /\ to \in {"update", "unlock", "post"} => item'[t] \in Items
  PROVE  Held'
BY ThreadsAssumption DEF Held, IInv, TypeInv, Step, Threads

LEMMA HeldStep == IInv /\ Held /\ [Next]_vars => Held'
<1> SUFFICES ASSUME IInv, Held, [Next]_vars PROVE Held'
  OBVIOUS
<1>ty. TypeInv /\ Producers \cap Consumers = {} /\ Threads = Producers \cup Consumers
  BY ThreadsAssumption DEF IInv, Threads
<1>1. ASSUME NEW t \in Threads, Create(t) \/ Locking(t) PROVE Held'
  <2>1. CASE Create(t)
    BY <1>ty, <2>1, HeldKept DEF Create
  <2>2. CASE Lock(t)
    BY <1>ty, <2>2, HeldKept DEF Lock, Held, Step
  <2>3. CASE Unlock(t)
    BY <1>ty, <2>3, HeldKept DEF Unlock, Held, Step
  <2> QED
    BY <1>1, <2>1, <2>2, <2>3 DEF Locking
<1>2. ASSUME NEW p \in Producers, NEW v \in Items, Generate(p, v) PROVE Held'
  BY <1>ty, <1>2, HeldKept DEF Generate, TypeInv
<1>3. ASSUME NEW p \in Producers, WaitEmpty(p) \/ PostFull(p) PROVE Held'
  BY <1>ty, <1>3, HeldKept DEF WaitEmpty, PostFull, Held, Step
<1>4. ASSUME NEW c \in Consumers, Awake(c) \/ WaitFull(c) \/ PostEmpty(c) PROVE Held'
  BY <1>ty, <1>4, HeldKept DEF Awake, WaitFull, PostEmpty, Held, Step
<1>5. ASSUME NEW p \in Producers, InsertItem(p) PROVE Held'
  <2>1. pc[p] = "check"
    BY <1>5 DEF InsertItem, Step
  <2>2. counter < BUFFER_SIZE /\ counter \in 0 .. BUFFER_SIZE
    BY <1>ty, <2>1, Room, SizeAssumption
  <2>3. /\ Step(p, "check", "update") /\ UNCHANGED <<counter, item>>
        /\ buffer' = [buffer EXCEPT ![counter] = item[p]]
    BY <1>5, <2>2, SizeAssumption DEF InsertItem
  <2>4. buffer' \in [0 .. BUFFER_SIZE - 1 -> Items \cup {NoItem}] /\ buffer'[counter] = item[p] /\ item[p] \in Items
    BY <1>ty, <2>1, <2>2, <2>3, SizeAssumption DEF TypeInv, Held
  <2>5. \A s \in Threads : pc'[s] = IF s = p THEN "update" ELSE pc[s]
    BY <1>ty, <2>3 DEF Step, TypeInv
  <2>6. \A q \in Producers : q # p => pc[q] # "update"
    BY <1>ty, <2>1 DEF IInv, MutualExclusion, Inside
  <2>7. \A i \in 0 .. counter - 1 : buffer'[i] = buffer[i]
    BY <1>ty, <2>2, <2>3, SizeAssumption DEF TypeInv
  <2> QED
    BY <1>ty, <2>1, <2>2, <2>3, <2>4, <2>5, <2>6, <2>7 DEF Held
<1>6. ASSUME NEW p \in Producers, InsertCount(p) PROVE Held'
  <2>1. pc[p] = "update" /\ seen[p] = counter /\ counter \in 0 .. BUFFER_SIZE
    BY <1>ty, <1>6, Room DEF InsertCount, Step, IInv, NoStaleCount, At, Where
  <2>2. counter' = counter + 1 /\ UNCHANGED <<buffer, item>>
    BY <1>6, <2>1 DEF InsertCount
  <2>3. \A s \in Threads : pc'[s] = IF s = p THEN "unlock" ELSE pc[s]
    BY <1>6, <1>ty DEF InsertCount, Step, TypeInv
  <2>4. \A q \in Producers : q # p => pc[q] # "update"
    BY <1>ty, <2>1 DEF IInv, MutualExclusion, Inside
  <2>5. \A i \in 0 .. counter' - 1 : buffer'[i] \in Items
    BY <2>1, <2>2 DEF Held
  <2> QED
    BY <1>ty, <2>1, <2>2, <2>3, <2>4, <2>5 DEF Held
<1>7. ASSUME NEW c \in Consumers, RemoveItem(c) PROVE Held'
  <2>1. pc[c] = "check"
    BY <1>7 DEF RemoveItem, Step
  <2>2. counter > 0 /\ counter \in 0 .. BUFFER_SIZE
    BY <1>ty, <2>1, Room, SizeAssumption
  <2>3. /\ Step(c, "check", "update") /\ UNCHANGED <<buffer, counter>>
        /\ item' = [item EXCEPT ![c] = buffer[counter - 1]]
    BY <1>7, <2>2 DEF RemoveItem
  <2>4. buffer[counter - 1] \in Items
    BY <2>2 DEF Held
  <2>5. item'[c] \in Items /\ \A s \in Threads : s # c => item'[s] = item[s]
    BY <1>ty, <2>3, <2>4 DEF TypeInv
  <2> QED
    BY <1>ty, <2>3, <2>5, HeldKept
<1>8. ASSUME NEW c \in Consumers, RemoveCount(c) PROVE Held'
  <2>1. pc[c] = "update" /\ seen[c] = counter /\ counter \in 0 .. BUFFER_SIZE
    BY <1>ty, <1>8, Room DEF RemoveCount, Step, IInv, NoStaleCount, At, Where
  <2>2. counter' = counter - 1 /\ UNCHANGED <<buffer, item>>
    BY <1>8, <2>1 DEF RemoveCount
  <2>3. \A s \in Threads : pc'[s] = IF s = c THEN "unlock" ELSE pc[s]
    BY <1>8, <1>ty DEF RemoveCount, Step, TypeInv
  <2>4. \A q \in Producers : pc[q] # "update"
    BY <1>ty, <2>1 DEF IInv, MutualExclusion, Inside
  <2> QED
    BY <1>ty, <2>1, <2>2, <2>3, <2>4 DEF Held
<1>9. CASE Exit \/ UNCHANGED vars
  BY <1>9 DEF Exit, vars, Held
<1> QED
  BY <1>1, <1>2, <1>3, <1>4, <1>5, <1>6, <1>7, <1>8, <1>9 DEF Next, Producing, Consuming

LEMMA HeldInit == Init => Held
BY SizeAssumption DEF Init, Held, Threads

(* Every slot counted holds an item of some producer.                        *)
THEOREM SlotsHold == Spec => [](IInv /\ Held)
<1> QED
  BY InitInv, StepInv, HeldInit, HeldStep, PTL DEF Spec

(* main_pthread.c: no thread is ever harmed by what another does between its   *)
(* own steps, and no consumer leaves with the contents of an unwritten slot.   *)
THEOREM NobodyHarmed == Spec => []BufferSafe
<1>1. IInv /\ Held => BufferSafe
  BY ItemsAssumption DEF IInv, Held, BufferSafe, NoEmptyHanded, At, Where
<1> QED
  BY <1>1, SlotsHold, PTL

(* The two sem_wait calls and the mutex never block every thread at once, as   *)
(* long as there are a slot, a producer and a consumer.                      *)
THEOREM NoDeadlock ==
  ASSUME BUFFER_SIZE > 0, Producers # {}, Consumers # {}
  PROVE  Spec => []SomebodyCanMove
<1>1. IInv => SomebodyCanMove
  <2> SUFFICES ASSUME IInv, ~SomebodyCanMove PROVE FALSE
    OBVIOUS
  <2>1. TypeInv /\ MutualExclusion /\ SlotsAccounted
    BY DEF IInv
  <2>2. \A t \in Threads : pc[t] \in {"wait", "lock"}
    BY DEF SomebodyCanMove
  <2>3. mutex = Free
    BY <2>1, <2>2 DEF TypeInv, MutualExclusion, Inside
  <2>4. \A t \in Threads : pc[t] = "wait" /\ (IF t \in Producers THEN ~(empty > 0) ELSE ~(full > 0))
    BY <2>2, <2>3 DEF SomebodyCanMove
  <2>5. InFlight = {}
    BY <2>4 DEF InFlight, At, Where
  <2>6. empty + full = BUFFER_SIZE
    BY <2>1, <2>5, FS_EmptySet DEF SlotsAccounted, TypeInv
  <2>7. PICK p \in Producers, c \in Consumers : TRUE
    OBVIOUS
  <2>8. ~(empty > 0) /\ ~(full > 0)
    BY <2>4, <2>7, ThreadsAssumption DEF Threads
  <2> QED
    BY <2>1, <2>6, <2>8, SizeAssumption DEF TypeInv
<1> QED
  BY <1>1, Invariance, PTL

-----------------------------------------------------------------------------
(* The stack of the refinement, and how each step changes it.                *)
LEMMA StackKept ==
  ASSUME UNCHANGED <<buffer, item>>, Height' = Height
  PROVE  UNCHANGED Stack!avars
BY DEF Stack!avars

(* A thread that holds the mutex keeps every consumer out of its access.      *)
LEMMA Alone ==
  ASSUME IInv, NEW t \in Threads, pc[t] \in Inside
  PROVE  \A c \in Consumers : c # t => pc[c] \notin Inside
BY DEF IInv, MutualExclusion, Threads

LEMMA HeightKept ==
  ASSUME IInv, NEW t \in Threads, NEW from, NEW to, Step(t, from, to), UNCHANGED counter,
         t \in Producers \/ (from # "update" /\ to # "update")
  PROVE  Height' = Height
<1>1. At(Consumers, {"update"})' = At(Consumers, {"update"})
  BY ThreadsAssumption DEF IInv, TypeInv, Step, At, Where, Threads
<1> QED
  BY <1>1 DEF Height

LEMMA StackStep == IInv /\ Held /\ [Next]_vars => [Stack!ANext]_(Stack!avars)
<1> SUFFICES ASSUME IInv, Held, [Next]_vars PROVE [Stack!ANext]_(Stack!avars)
  OBVIOUS
<1>ty. TypeInv /\ Producers \cap Consumers = {} /\ Threads = Producers \cup Consumers
  BY ThreadsAssumption DEF IInv, Threads
<1>1. ASSUME NEW t \in Threads, Create(t) \/ Locking(t) PROVE UNCHANGED Stack!avars
  BY <1>1, HeightKept, StackKept DEF Create, Locking, Lock, Unlock
<1>2. ASSUME NEW p \in Producers, NEW v \in Items, Generate(p, v) PROVE UNCHANGED Stack!avars
  <2>1. Height' = Height
    BY <1>ty, <1>2, HeightKept DEF Generate
  <2>2. \A c \in Consumers : item'[c] = item[c]
    BY <1>ty, <1>2 DEF Generate, TypeInv
  <2>3. buffer' = buffer
    BY <1>2 DEF Generate
  <2> QED
    BY <2>1, <2>2, <2>3 DEF Stack!avars
<1>3. ASSUME NEW p \in Producers, WaitEmpty(p) \/ PostFull(p) PROVE UNCHANGED Stack!avars
  BY <1>ty, <1>3, HeightKept, StackKept DEF WaitEmpty, PostFull
<1>4. ASSUME NEW c \in Consumers, Awake(c) \/ WaitFull(c) \/ PostEmpty(c) PROVE UNCHANGED Stack!avars
  BY <1>ty, <1>4, HeightKept, StackKept DEF Awake, WaitFull, PostEmpty
<1>5. ASSUME NEW p \in Producers, InsertItem(p) PROVE UNCHANGED Stack!avars
  <2>1. pc[p] = "check"
    BY <1>5 DEF InsertItem, Step
  <2>2. counter < BUFFER_SIZE /\ counter \in 0 .. BUFFER_SIZE
    BY <1>ty, <2>1, Room, SizeAssumption
  <2>3. /\ Step(p, "check", "update") /\ UNCHANGED <<counter, item>>
        /\ buffer' = [buffer EXCEPT ![counter] = item[p]]
    BY <1>5, <2>2, SizeAssumption DEF InsertItem
  <2>4. Height' = Height /\ Height = counter
    <3>1. At(Consumers, {"update"}) = {}
      BY <1>ty, <2>1, Alone DEF Inside, At, Where
    <3> QED
      BY <1>ty, <2>3, <3>1, HeightKept DEF Height
  <2>5. \A i \in 1 .. Height : buffer'[i - 1] = buffer[i - 1]
    BY <1>ty, <2>2, <2>3, <2>4, SizeAssumption DEF TypeInv
  <2> QED
    BY <2>3, <2>4, <2>5 DEF Stack!avars
<1>6. ASSUME NEW p \in Producers, InsertCount(p) PROVE Stack!ANext
  <2>1. /\ pc[p] = "update" /\ pc' = [pc EXCEPT ![p] = "unlock"]
        /\ seen[p] = counter /\ counter \in 0 .. BUFFER_SIZE /\ counter < BUFFER_SIZE
    BY <1>ty, <1>6, Room DEF InsertCount, Step, IInv, NoStaleCount, At, Where
  <2>2. counter' = counter + 1 /\ UNCHANGED <<buffer, item>>
    BY <1>6, <2>1 DEF InsertCount
  <2>3. At(Consumers, {"update"}) = {} /\ At(Consumers, {"update"})' = {}
    BY <1>ty, <2>1, Alone DEF Inside, At, Where, TypeInv
  <2>4. Height = counter /\ Height' = counter + 1
    BY <2>2, <2>3 DEF Height
  <2>5. buffer[counter] \in Items
    BY <2>1 DEF Held
  <2>6. [i \in 1 .. Height' |-> buffer'[i - 1]] = Append([i \in 1 .. Height |-> buffer[i - 1]], buffer[counter])
    BY <2>1, <2>2, <2>4
  <2>7. Len([i \in 1 .. Height |-> buffer[i - 1]]) < BUFFER_SIZE
    BY <2>1, <2>4
  <2>8. UNCHANGED [d \in Consumers |-> item[d]]
    BY <2>2
  <2> QED
    BY <2>5, <2>6, <2>7, <2>8 DEF Stack!ANext, Stack!Push
<1>7. ASSUME NEW c \in Consumers, RemoveItem(c) PROVE Stack!ANext
  <2>1. pc[c] = "check"
    BY <1>7 DEF RemoveItem, Step
  <2>2. counter > 0 /\ counter \in 0 .. BUFFER_SIZE
    BY <1>ty, <2>1, Room, SizeAssumption
  <2>3. /\ Step(c, "check", "update") /\ UNCHANGED <<buffer, counter>>
        /\ item' = [item EXCEPT ![c] = buffer[counter - 1]]
    BY <1>7, <2>2 DEF RemoveItem
  <2>4. At(Consumers, {"update"}) = {} /\ At(Consumers, {"update"})' # {}
    BY <1>ty, <2>1, <2>3, Alone DEF Inside, At, Where, TypeInv, Step
  <2>5. Height = counter /\ Height' = counter - 1
    BY <2>3, <2>4 DEF Height
  <2> DEFINE stack == [i \in 1 .. Height |-> buffer[i - 1]]
  <2>6. Len(stack) = counter /\ stack # <<>> /\ stack[Len(stack)] = buffer[counter - 1]
    BY <2>2, <2>5
  <2>7. [i \in 1 .. Height' |-> buffer'[i - 1]] = SubSeq(stack, 1, Len(stack) - 1)
    <3>1. SubSeq(stack, 1, counter - 1) = [i \in 1 .. counter - 1 |-> stack[i]]
      BY <2>2, <2>5
    <3> QED
      BY <2>2, <2>3, <2>5, <2>6, <3>1
  <2>8. [d \in Consumers |-> item'[d]] = [[d \in Consumers |-> item[d]] EXCEPT ![c] = stack[Len(stack)]]
    BY <1>ty, <2>3, <2>6 DEF TypeInv
  <2>9. Stack!Pop(c)
    BY <2>6, <2>7, <2>8 DEF Stack!Pop
  <2> QED
    BY <2>9 DEF Stack!ANext
<1>8. ASSUME NEW c \in Consumers, RemoveCount(c) PROVE UNCHANGED Stack!avars
  <2>1. pc[c] = "update" /\ pc' = [pc EXCEPT ![c] = "unlock"] /\ seen[c] = counter
    BY <1>ty, <1>8 DEF RemoveCount, Step, IInv, NoStaleCount, At, Where
  <2>2. counter' = counter - 1 /\ UNCHANGED <<buffer, item>>
    BY <1>8, <2>1 DEF RemoveCount
  <2>3. At(Consumers, {"update"}) # {} /\ At(Consumers, {"update"})' = {}
    BY <1>ty, <2>1, Alone DEF Inside, At, Where, TypeInv
  <2>4. Height' = Height
    BY <2>2, <2>3 DEF Height
  <2> QED
    BY <2>2, <2>4, StackKept
<1>9. CASE Exit \/ UNCHANGED vars
  BY <1>9, StackKept DEF Exit, vars, Height, At, Where
<1> QED
  BY <1>1, <1>2, <1>3, <1>4, <1>5, <1>6, <1>7, <1>8, <1>9 DEF Next, Producing, Consuming

LEMMA StackInit == Init => Stack!AInit
<1> SUFFICES ASSUME Init PROVE Stack!AInit
  OBVIOUS
<1>1. Height = 0
  BY DEF Init, Height, At, Where, Threads
<1>2. [i \in 1 .. Height |-> buffer[i - 1]] = <<>>
  BY <1>1
<1> QED
  BY <1>2 DEF Init, Stack!AInit, Threads

(* The program of main_pthread.c implements a stack of at most BUFFER_SIZE     *)
(* items: a producer's update of counter pushes its item, a consumer's access  *)
(* pops the one on top, and nothing else changes the stack.                  *)
THEOREM IsStack == Spec => ImplementsStack
<1> QED
  BY SlotsHold, StackInit, StackStep, PTL DEF Spec, ImplementsStack, Stack!ASpec
=============================================================================
