----------------------------- MODULE DotProduct -----------------------------
(***************************************************************************)
(* The parallel dot product dotprodct_pthread.c.  main creates NUMTHRDS    *)
(* threads; thread t multiplies the elements t*VECLEN .. t*VECLEN+VECLEN-1 *)
(* into its local mysum and adds that to the shared dotstr.sum under a     *)
(* mutex.  main joins the threads in order, prints the sum, frees the      *)
(* vectors and destroys the mutex.                                         *)
(*                                                                         *)
(* dotstr.sum += mysum is a load and a store, with the loaded value in a   *)
(* register between them.                                                  *)
(***************************************************************************)
EXTENDS Integers, FiniteSets

CONSTANTS NUMTHRDS, VECLEN, Free, NotPrinted

ASSUME SizesAssumption == NUMTHRDS \in Nat \ {0} /\ VECLEN \in Nat
ASSUME FreeAssumption == Free \notin Nat /\ NotPrinted \notin Nat

Threads == 0 .. NUMTHRDS - 1
Indices == 0 .. NUMTHRDS * VECLEN - 1

VARIABLES pc,         \* where each thread stands
          i,          \* each thread's loop index
          mysum,      \* each thread's partial sum
          loaded,     \* each thread's register copy of dotstr.sum
          sum,        \* dotstr.sum
          mutexsum,   \* owner of the mutex, or Free
          vector,     \* the elements of a and b while they are allocated
          main,       \* where main stands
          k,          \* main's loop index
          printed     \* what main has printed

vars == <<pc, i, mysum, loaded, sum, mutexsum, vector, main, k, printed>>
locals == <<i, mysum, loaded>>
mainVars == <<vector, main, k, printed>>

Start(t) == t * VECLEN

Init ==
  /\ pc = [t \in Threads |-> "new"]
  /\ i = [t \in Threads |-> 0]
  /\ mysum = [t \in Threads |-> 0]
  /\ loaded = [t \in Threads |-> 0]
  /\ sum = 0
  /\ mutexsum = Free
  /\ vector = [n \in Indices |-> 1]
  /\ main = "create"
  /\ k = 0
  /\ printed = NotPrinted

-----------------------------------------------------------------------------
(* main() *)

(* Mutant: one round of the loop too many. *)
CreateOneMore ==
  /\ main = "create" /\ k <= NUMTHRDS
  /\ pc' = [pc EXCEPT ![k] = "begin"]
  /\ k' = k + 1
  /\ UNCHANGED <<locals, sum, mutexsum, vector, main, printed>>

CreateThread ==
  /\ main = "create" /\ k < NUMTHRDS
  /\ pc' = [pc EXCEPT ![k] = "begin"]
  /\ k' = k + 1
  /\ UNCHANGED <<locals, sum, mutexsum, vector, main, printed>>

(* Mutant: the join loop does not start over, nobody is joined. *)
AllCreatedKeepsIndex ==
  /\ main = "create" /\ k = NUMTHRDS
  /\ main' = "join"
  /\ UNCHANGED <<pc, locals, sum, mutexsum, vector, k, printed>>

AllCreated ==
  /\ main = "create" /\ k = NUMTHRDS
  /\ main' = "join"
  /\ k' = 0
  /\ UNCHANGED <<pc, locals, sum, mutexsum, vector, printed>>

Join ==
  /\ main = "join" /\ k < NUMTHRDS
  /\ pc[k] = "exited"
  /\ k' = k + 1
  /\ UNCHANGED <<pc, locals, sum, mutexsum, vector, main, printed>>

PrintSum ==
  /\ main = "join" /\ k = NUMTHRDS
  /\ printed' = sum
  /\ main' = "free"
  /\ UNCHANGED <<pc, locals, sum, mutexsum, vector, k>>

FreeVectors ==
  /\ main = "free"
  /\ vector' = << >>
  /\ main' = "exited"
  /\ UNCHANGED <<pc, locals, sum, mutexsum, k, printed>>

-----------------------------------------------------------------------------
(* dotprod() *)

Goto(t, from, to) == pc[t] = from /\ pc' = [pc EXCEPT ![t] = to]

Begin(t) ==
  /\ Goto(t, "begin", "multiply")
  /\ i' = [i EXCEPT ![t] = Start(t)]
  /\ mysum' = [mysum EXCEPT ![t] = 0]
  /\ UNCHANGED <<loaded, sum, mutexsum, mainVars>>

(* Mutant: the slice is one element too long. *)
MultiplyPastEnd(t) ==
  /\ pc[t] = "multiply" /\ i[t] <= Start(t) + VECLEN
  /\ mysum' = [mysum EXCEPT ![t] = @ + vector[i[t]] * vector[i[t]]]
  /\ i' = [i EXCEPT ![t] = @ + 1]
  /\ UNCHANGED <<pc, loaded, sum, mutexsum, mainVars>>

Multiply(t) ==
  /\ pc[t] = "multiply" /\ i[t] < Start(t) + VECLEN
  /\ mysum' = [mysum EXCEPT ![t] = @ + vector[i[t]] * vector[i[t]]]
  /\ i' = [i EXCEPT ![t] = @ + 1]
  /\ UNCHANGED <<pc, loaded, sum, mutexsum, mainVars>>

(* Mutant: the sum is updated without the mutex. *)
LockUnchecked(t) ==
  /\ Goto(t, "multiply", "load")
  /\ i[t] >= Start(t) + VECLEN
  /\ mutexsum' = t
  /\ UNCHANGED <<locals, sum, mainVars>>

Lock(t) ==
  /\ Goto(t, "multiply", "load")
  /\ i[t] >= Start(t) + VECLEN
  /\ mutexsum = Free
  /\ mutexsum' = t
  /\ UNCHANGED <<locals, sum, mainVars>>

Load(t) ==
  /\ Goto(t, "load", "store")
  /\ loaded' = [loaded EXCEPT ![t] = sum]
  /\ UNCHANGED <<i, mysum, sum, mutexsum, mainVars>>

Store(t) ==
  /\ Goto(t, "store", "unlock")
  /\ sum' = loaded[t] + mysum[t]
  /\ UNCHANGED <<locals, mutexsum, mainVars>>

(* Mutant: the mutex is not given back. *)
UnlockForgotten(t) ==
  /\ Goto(t, "unlock", "exited")
  /\ UNCHANGED <<locals, sum, mutexsum, mainVars>>

Unlock(t) ==
  /\ Goto(t, "unlock", "exited")
  /\ mutexsum' = Free
  /\ UNCHANGED <<locals, sum, mainVars>>

-----------------------------------------------------------------------------
Main == CreateThread \/ AllCreated \/ Join \/ PrintSum \/ FreeVectors

Dotprod(t) ==
  Begin(t) \/ Multiply(t) \/ Lock(t) \/ Load(t) \/ Store(t) \/ Unlock(t)

Next == Main \/ \E t \in Threads : Dotprod(t)

Spec == Init /\ [][Next]_vars

(* The scheduler runs every thread, and the mutex lets a waiting thread in:  *)
(* each thread takes it once, so weak fairness is enough.                    *)
FairSpec == Spec /\ WF_vars(Main) /\ \A t \in Threads : WF_vars(Dotprod(t))

-----------------------------------------------------------------------------
Places == {"new", "begin", "multiply", "load", "store", "unlock", "exited"}
Inside == {"load", "store", "unlock"}

(* Every variable holds a value of its kind. *)
TypeOK ==
  /\ pc \in [Threads -> Places]
  /\ i \in [Threads -> Nat]
  /\ mysum \in [Threads -> Nat]
  /\ loaded \in [Threads -> Nat]
  /\ sum \in Nat
  /\ mutexsum \in Threads \cup {Free}
  /\ vector = [n \in Indices |-> 1] \/ main = "exited"
  /\ main \in {"create", "join", "free", "exited"}
  /\ k \in 0 .. NUMTHRDS
  /\ printed \in Nat \cup {NotPrinted}

Added == {t \in Threads : pc[t] \in {"unlock", "exited"}}

(* The shared sum is at every moment what the threads past their store have  *)
(* contributed: no contribution is lost to an interleaved += and none is     *)
(* counted twice.                                                            *)
SumOfAdded == sum = VECLEN * Cardinality(Added)

(* No thread reads an element outside its own slice or after main freed the  *)
(* vectors.                                                                  *)
ReadsOwnSlice ==
  \A t \in Threads : pc[t] = "multiply" =>
    /\ i[t] \in Start(t) .. Start(t) + VECLEN
    /\ Start(t) .. Start(t) + VECLEN - 1 \subseteq DOMAIN vector

(* main prints the whole dot product, not what has been added so far. *)
PrintsWholeSum == printed # NotPrinted => printed = NUMTHRDS * VECLEN

(* Every thread ends, main joins them all and ends too. *)
Terminates == <>(main = "exited")

(* The sum on its way from the slices to the printout.                      *)
PartsAddUp == TypeOK /\ SumOfAdded /\ ReadsOwnSlice /\ PrintsWholeSum
=============================================================================
