----------------------------- MODULE DataProofs -----------------------------
(***************************************************************************)
(* Proofs about the computations on data: the parallel dot product, the    *)
(* filter, the sequence detector and the board's display.                  *)
(***************************************************************************)
EXTENDS DotProduct, FirFilter, StateMachines, BoardDisplay, FiniteSetTheorems, SequenceTheorems, TLAPS

-----------------------------------------------------------------------------
(* dotprodct_pthread.c prints the whole dot product, for any number of       *)
(* threads and any slice length.                                             *)

(* A thread between lock and unlock owns the mutex. *)
Exclusion == \A t \in Threads : pc[t] \in Inside <=> mutexsum = t

(* The register copy of sum is up to date while a thread holds it. *)
FreshCopy == \A t \in Threads : pc[t] = "store" => loaded[t] = sum

(* mysum is the number of elements multiplied so far, the whole slice once    *)
(* the thread has left the loop.                                              *)
Partial == \A t \in Threads :
  /\ pc[t] = "multiply" => /\ mysum[t] + Start(t) = i[t]
                           /\ i[t] <= Start(t) + VECLEN
  /\ pc[t] \in {"load", "store"} => mysum[t] = VECLEN

(* What main knows at each of its steps. *)
MainKnows ==
  /\ main = "create" => \A t \in Threads : t >= k => pc[t] = "new"
  /\ main = "join" => \A t \in Threads : t < k => pc[t] = "exited"
  /\ main \in {"free", "exited"} => \A t \in Threads : pc[t] = "exited"
  /\ printed # NotPrinted => main \in {"free", "exited"}

IInv ==
  /\ TypeOK
  /\ Exclusion
  /\ FreshCopy
  /\ Partial
  /\ MainKnows
  /\ SumOfAdded
  /\ PrintsWholeSum

-----------------------------------------------------------------------------
LEMMA Sizes ==
  /\ NUMTHRDS \in Nat /\ VECLEN \in Nat /\ NUMTHRDS > 0
  /\ IsFiniteSet(Threads) /\ Cardinality(Threads) = NUMTHRDS
  /\ \A t \in Threads : t \in Nat /\ Start(t) \in Nat
<1>1. NUMTHRDS \in Nat /\ VECLEN \in Nat /\ NUMTHRDS > 0
  BY SizesAssumption
<1>2. IsFiniteSet(Threads) /\ Cardinality(Threads) = NUMTHRDS
  <2>1. 0 \in Int /\ NUMTHRDS - 1 \in Int
    BY <1>1
  <2>2. /\ IsFiniteSet(0 .. NUMTHRDS - 1)
        /\ Cardinality(0 .. NUMTHRDS - 1)
             = IF 0 > NUMTHRDS - 1 THEN 0 ELSE (NUMTHRDS - 1) - 0 + 1
    BY <2>1, FS_Interval
  <2> QED
    BY <1>1, <2>2 DEF Threads
<1>3. \A t \in Threads : t \in Nat /\ Start(t) \in Nat
  BY <1>1 DEF Threads, Start
<1> QED
  BY <1>1, <1>2, <1>3

(* The slices lie within the vectors. *)
LEMMA SliceBounds ==
  ASSUME NEW t \in Threads, NEW num \in Nat, Start(t) <= num, num < Start(t) + VECLEN
  PROVE  num \in Indices
<1>1. t \in Nat /\ NUMTHRDS \in Nat /\ VECLEN \in Nat /\ t + 1 <= NUMTHRDS
  BY Sizes DEF Threads
<1>2. (t + 1) * VECLEN <= NUMTHRDS * VECLEN
  BY <1>1
<1>3. (t + 1) * VECLEN = t * VECLEN + VECLEN
  BY <1>1
<1> QED
  BY <1>1, <1>2, <1>3 DEF Indices, Start

LEMMA AddedFinite == IsFiniteSet(Added) /\ Cardinality(Added) \in Nat
<1>1. IsFiniteSet(Added)
  BY Sizes, FS_Subset DEF Added
<1> QED
  BY <1>1, FS_CardinalityType

(* One more thread has added its slice. *)
LEMMA AddOne ==
  ASSUME SumOfAdded, TypeOK, NEW t \in Threads, t \notin Added,
         Added' = Added \cup {t}, sum' = sum + VECLEN
  PROVE  SumOfAdded'
<1>1. Cardinality(Added \cup {t}) = Cardinality(Added) + 1
  BY AddedFinite, FS_AddElement
<1>2. VECLEN * (Cardinality(Added) + 1) = VECLEN * Cardinality(Added) + VECLEN
  BY AddedFinite, Sizes
<1>3. Cardinality(Added') = Cardinality(Added) + 1
  BY <1>1
<1> QED
  BY <1>2, <1>3 DEF SumOfAdded

LEMMA InitInv == Init => IInv
<1> SUFFICES ASSUME Init PROVE IInv
  OBVIOUS
<1>1. TypeOK /\ Exclusion /\ FreshCopy /\ Partial /\ MainKnows /\ PrintsWholeSum
  BY Sizes, FreeAssumption
  DEF Init, TypeOK, Places, Exclusion, Inside, FreshCopy, Partial, MainKnows, PrintsWholeSum
<1>2. Added = {}
  BY DEF Init, Added
<1>3. SumOfAdded
  BY <1>2, FS_EmptySet, Sizes DEF Init, SumOfAdded
<1> QED
  BY <1>1, <1>3 DEF IInv

LEMMA StepInv == IInv /\ [Next]_vars => IInv'
<1> SUFFICES ASSUME IInv, [Next]_vars PROVE IInv'
  OBVIOUS
<1> USE DEF IInv
<1>1. ASSUME NEW t \in Threads, Begin(t)
      PROVE  IInv'
  <2>1. TypeOK'
    BY <1>1, Sizes DEF Begin, Goto, locals, mainVars, TypeOK, Places
  <2>2. Exclusion'
    BY <1>1, FreeAssumption, Sizes DEF Begin, Goto, TypeOK, Exclusion, Inside, locals, mainVars
  <2>3. FreshCopy'
    BY <1>1 DEF Begin, Goto, TypeOK, FreshCopy, Exclusion, Inside, locals, mainVars
  <2>4. Partial'
    BY <1>1, Sizes DEF Begin, Goto, TypeOK, Partial, locals, mainVars
  <2>5. MainKnows' /\ PrintsWholeSum'
    BY <1>1 DEF Begin, Goto, TypeOK, MainKnows, PrintsWholeSum, locals, mainVars
  <2>6. SumOfAdded'
    <3>1. Added' = Added /\ sum' = sum
      BY <1>1 DEF Begin, Goto, Added, TypeOK, locals, mainVars
    <3> QED
      BY <3>1 DEF SumOfAdded
  <2> QED
    BY <2>1, <2>2, <2>3, <2>4, <2>5, <2>6
<1>2. ASSUME NEW t \in Threads, Multiply(t)
      PROVE  IInv'
  <2>0. i[t] \in Indices
    BY <1>2, Sizes, SliceBounds DEF Multiply, Partial, TypeOK
  <2>00. main # "exited" /\ vector[i[t]] = 1
    BY <1>2, <2>0 DEF Multiply, MainKnows, TypeOK
  <2>000. mysum' = [mysum EXCEPT ![t] = @ + 1]
    BY <1>2, <2>00 DEF Multiply
  <2>1. TypeOK'
    BY <1>2, <2>000, Sizes DEF Multiply, Goto, locals, mainVars, TypeOK, Places
  <2>2. Exclusion'
    BY <1>2, FreeAssumption, Sizes DEF Multiply, Goto, TypeOK, Exclusion, Inside, locals, mainVars
  <2>3. FreshCopy'
    BY <1>2 DEF Multiply, Goto, TypeOK, FreshCopy, Exclusion, Inside, locals, mainVars
  <2>4. Partial'
    BY <1>2, <2>000, Sizes DEF Multiply, Goto, TypeOK, Partial, locals, mainVars
  <2>5. MainKnows' /\ PrintsWholeSum'
    BY <1>2 DEF Multiply, Goto, TypeOK, MainKnows, PrintsWholeSum, locals, mainVars
  <2>6. SumOfAdded'
    <3>1. Added' = Added /\ sum' = sum
      BY <1>2 DEF Multiply, Goto, Added, TypeOK, locals, mainVars
    <3> QED
      BY <3>1 DEF SumOfAdded
  <2> QED
    BY <2>1, <2>2, <2>3, <2>4, <2>5, <2>6
<1>3. ASSUME NEW t \in Threads, Lock(t)
      PROVE  IInv'
  <2>1. TypeOK'
    BY <1>3, Sizes DEF Lock, Goto, locals, mainVars, TypeOK, Places
  <2>2. Exclusion'
    BY <1>3, FreeAssumption, Sizes DEF Lock, Goto, TypeOK, Exclusion, Inside, locals, mainVars
  <2>3. FreshCopy'
    BY <1>3 DEF Lock, Goto, TypeOK, FreshCopy, Exclusion, Inside, locals, mainVars
  <2>4. Partial'
    <3>1. mysum[t] + Start(t) = i[t] /\ i[t] <= Start(t) + VECLEN /\ i[t] >= Start(t) + VECLEN
      BY <1>3 DEF Lock, Goto, Partial
    <3>2. mysum[t] \in Nat /\ i[t] \in Nat /\ Start(t) \in Nat /\ VECLEN \in Nat
      BY Sizes DEF TypeOK
    <3>3. mysum[t] = VECLEN
      BY <3>1, <3>2
    <3> QED
      BY <1>3, <3>3 DEF Lock, Goto, TypeOK, Partial, locals, mainVars
  <2>5. MainKnows' /\ PrintsWholeSum'
    BY <1>3 DEF Lock, Goto, TypeOK, MainKnows, PrintsWholeSum, locals, mainVars
  <2>6. SumOfAdded'
    <3>1. Added' = Added /\ sum' = sum
      BY <1>3 DEF Lock, Goto, Added, TypeOK, locals, mainVars
    <3> QED
      BY <3>1 DEF SumOfAdded
  <2> QED
    BY <2>1, <2>2, <2>3, <2>4, <2>5, <2>6
<1>4. ASSUME NEW t \in Threads, Load(t)
      PROVE  IInv'
  <2>1. TypeOK'
    BY <1>4, Sizes DEF Load, Goto, locals, mainVars, TypeOK, Places
  <2>2. Exclusion'
    BY <1>4, FreeAssumption, Sizes DEF Load, Goto, TypeOK, Exclusion, Inside, locals, mainVars
  <2>3. FreshCopy'
    BY <1>4 DEF Load, Goto, TypeOK, FreshCopy, Exclusion, Inside, locals, mainVars
  <2>4. Partial'
    BY <1>4, Sizes DEF Load, Goto, TypeOK, Partial, locals, mainVars
  <2>5. MainKnows' /\ PrintsWholeSum'
    BY <1>4 DEF Load, Goto, TypeOK, MainKnows, PrintsWholeSum, locals, mainVars
  <2>6. SumOfAdded'
    <3>1. Added' = Added /\ sum' = sum
      BY <1>4 DEF Load, Goto, Added, TypeOK, locals, mainVars
    <3> QED
      BY <3>1 DEF SumOfAdded
  <2> QED
    BY <2>1, <2>2, <2>3, <2>4, <2>5, <2>6
<1>5. ASSUME NEW t \in Threads, Store(t)
      PROVE  IInv'
  <2>1. TypeOK'
    BY <1>5, Sizes DEF Store, Goto, locals, mainVars, TypeOK, Places
  <2>2. Exclusion'
    BY <1>5, FreeAssumption, Sizes DEF Store, Goto, TypeOK, Exclusion, Inside, locals, mainVars
  <2>3. FreshCopy'
    BY <1>5 DEF Store, Goto, TypeOK, FreshCopy, Exclusion, Inside, locals, mainVars
  <2>4. Partial'
    BY <1>5, Sizes DEF Store, Goto, TypeOK, Partial, locals, mainVars
  <2>5. MainKnows' /\ PrintsWholeSum'
    BY <1>5 DEF Store, Goto, TypeOK, MainKnows, PrintsWholeSum, locals, mainVars
  <2>6. SumOfAdded'
    <3>1. t \notin Added /\ Added' = Added \cup {t}
      BY <1>5 DEF Store, Goto, Added, TypeOK
    <3>2. sum' = sum + VECLEN
      BY <1>5 DEF Store, Goto, FreshCopy, Partial
    <3> QED
      BY <3>1, <3>2, AddOne
  <2> QED
    BY <2>1, <2>2, <2>3, <2>4, <2>5, <2>6
<1>6. ASSUME NEW t \in Threads, Unlock(t)
      PROVE  IInv'
  <2>1. TypeOK'
    BY <1>6, Sizes DEF Unlock, Goto, locals, mainVars, TypeOK, Places
  <2>2. Exclusion'
    BY <1>6, FreeAssumption, Sizes DEF Unlock, Goto, TypeOK, Exclusion, Inside, locals, mainVars
  <2>3. FreshCopy'
    BY <1>6 DEF Unlock, Goto, TypeOK, FreshCopy, Exclusion, Inside, locals, mainVars
  <2>4. Partial'
    BY <1>6, Sizes DEF Unlock, Goto, TypeOK, Partial, locals, mainVars
  <2>5. MainKnows' /\ PrintsWholeSum'
    BY <1>6 DEF Unlock, Goto, TypeOK, MainKnows, PrintsWholeSum, locals, mainVars
  <2>6. SumOfAdded'
    <3>1. Added' = Added /\ sum' = sum
      BY <1>6 DEF Unlock, Goto, Added, TypeOK, locals, mainVars
    <3> QED
      BY <3>1 DEF SumOfAdded
  <2> QED
    BY <2>1, <2>2, <2>3, <2>4, <2>5, <2>6
<1>7. CASE CreateThread
  <2>1. TypeOK'
    <3>1. k' \in 0 .. NUMTHRDS
      BY <1>7, Sizes DEF CreateThread, TypeOK
    <3> QED
      BY <1>7, <3>1 DEF CreateThread, locals, TypeOK, Places
  <2>2. Exclusion' /\ FreshCopy' /\ Partial'
    BY <1>7, Sizes DEF CreateThread, TypeOK, MainKnows, Threads, Exclusion, Inside, FreshCopy, Partial, locals
  <2>3. MainKnows' /\ PrintsWholeSum'
    BY <1>7, Sizes DEF CreateThread, TypeOK, MainKnows, PrintsWholeSum, Threads
  <2>4. SumOfAdded'
    <3>1. Added' = Added /\ sum' = sum
      BY <1>7 DEF CreateThread, Added, TypeOK, MainKnows, Threads
    <3> QED
      BY <3>1 DEF SumOfAdded
  <2> QED
    BY <2>1, <2>2, <2>3, <2>4
<1>8. CASE AllCreated
  <2>1. TypeOK'
    BY <1>8, Sizes DEF AllCreated, locals, mainVars, TypeOK, Places, Threads
  <2>2. Exclusion' /\ FreshCopy' /\ Partial'
    BY <1>8, Sizes DEF AllCreated, TypeOK, MainKnows, Threads, Exclusion, Inside, FreshCopy, Partial, locals
  <2>3. MainKnows' /\ PrintsWholeSum'
    BY <1>8, Sizes DEF AllCreated, TypeOK, MainKnows, PrintsWholeSum, Threads
  <2>4. SumOfAdded'
    <3>1. Added' = Added /\ sum' = sum
      BY <1>8 DEF AllCreated, Added, TypeOK, MainKnows, Threads
    <3> QED
      BY <3>1 DEF SumOfAdded
  <2> QED
    BY <2>1, <2>2, <2>3, <2>4
<1>9. CASE Join
  <2>1. TypeOK'
    <3>1. k' \in 0 .. NUMTHRDS
      BY <1>9, Sizes DEF Join, TypeOK
    <3> QED
      BY <1>9, <3>1 DEF Join, locals, TypeOK, Places
  <2>2. Exclusion' /\ FreshCopy' /\ Partial'
    BY <1>9, Sizes DEF Join, TypeOK, MainKnows, Threads, Exclusion, Inside, FreshCopy, Partial, locals
  <2>3. MainKnows' /\ PrintsWholeSum'
    BY <1>9, Sizes DEF Join, TypeOK, MainKnows, PrintsWholeSum, Threads
  <2>4. SumOfAdded'
    <3>1. Added' = Added /\ sum' = sum
      BY <1>9 DEF Join, Added, TypeOK, MainKnows, Threads
    <3> QED
      BY <3>1 DEF SumOfAdded
  <2> QED
    BY <2>1, <2>2, <2>3, <2>4
<1>10. CASE FreeVectors
  <2>1. TypeOK'
    BY <1>10, Sizes DEF FreeVectors, locals, mainVars, TypeOK, Places, Threads
  <2>2. Exclusion' /\ FreshCopy' /\ Partial'
    BY <1>10, Sizes DEF FreeVectors, TypeOK, MainKnows, Threads, Exclusion, Inside, FreshCopy, Partial, locals
  <2>3. MainKnows' /\ PrintsWholeSum'
    BY <1>10, Sizes DEF FreeVectors, TypeOK, MainKnows, PrintsWholeSum, Threads
  <2>4. SumOfAdded'
    <3>1. Added' = Added /\ sum' = sum
      BY <1>10 DEF FreeVectors, Added, TypeOK, MainKnows, Threads
    <3> QED
      BY <3>1 DEF SumOfAdded
  <2> QED
    BY <2>1, <2>2, <2>3, <2>4
<1>11. CASE PrintSum
  <2>1. Added = Threads
    BY <1>11, Sizes DEF PrintSum, MainKnows, Added, Threads
  <2>2. sum = NUMTHRDS * VECLEN
    BY <2>1, Sizes DEF SumOfAdded
  <2>3. TypeOK' /\ Exclusion' /\ FreshCopy' /\ Partial'
    BY <1>11 DEF PrintSum, TypeOK, Exclusion, FreshCopy, Partial, locals
  <2>4. MainKnows' /\ PrintsWholeSum'
    BY <1>11, <2>2, Sizes DEF PrintSum, TypeOK, MainKnows, PrintsWholeSum, Threads
  <2>5. SumOfAdded'
    BY <1>11 DEF PrintSum, SumOfAdded, Added
  <2> QED
    BY <2>3, <2>4, <2>5
<1>12. CASE UNCHANGED vars
  BY <1>12 DEF vars, TypeOK, Exclusion, FreshCopy, Partial, MainKnows, SumOfAdded, PrintsWholeSum, Added
<1> QED
  BY <1>1, <1>2, <1>3, <1>4, <1>5, <1>6, <1>7, <1>8, <1>9, <1>10, <1>11, <1>12 DEF Next, Main, Dotprod

-----------------------------------------------------------------------------
THEOREM Invariance == Spec => []IInv
<1> QED
  BY InitInv, StepInv, PTL DEF Spec

(* Every variable keeps its type. *)
THEOREM TypeCorrect == Spec => []TypeOK
<1>1. IInv => TypeOK
  BY DEF IInv
<1> QED
  BY <1>1, Invariance, PTL

(* No contribution is lost or counted twice. *)
THEOREM NothingLost == Spec => []SumOfAdded
<1>1. IInv => SumOfAdded
  BY DEF IInv
<1> QED
  BY <1>1, Invariance, PTL

(* No thread reads outside its slice, or after the vectors are freed. *)
THEOREM SlicesSafe == Spec => []ReadsOwnSlice
<1>1. IInv => ReadsOwnSlice
  <2> SUFFICES ASSUME IInv, NEW t \in Threads, pc[t] = "multiply"
               PROVE  /\ i[t] \in Start(t) .. Start(t) + VECLEN
                      /\ Start(t) .. Start(t) + VECLEN - 1 \subseteq DOMAIN vector
    BY DEF ReadsOwnSlice
  <2>1. main # "exited" /\ DOMAIN vector = Indices
    BY DEF IInv, MainKnows, TypeOK
  <2>2. i[t] \in Start(t) .. Start(t) + VECLEN
    BY Sizes DEF IInv, Partial, TypeOK
  <2>3. \A num \in Start(t) .. Start(t) + VECLEN - 1 : num \in Indices
    BY Sizes, SliceBounds
  <2> QED
    BY <2>1, <2>2, <2>3
<1> QED
  BY <1>1, Invariance, PTL

(* What main prints is the dot product of the whole vectors. *)
THEOREM PrintedRight == Spec => []PrintsWholeSum
<1>1. IInv => PrintsWholeSum
  BY DEF IInv
<1> QED
  BY <1>1, Invariance, PTL

(* All of it together: the parts add up on their way to the printout. *)
THEOREM SumSafe == Spec => []PartsAddUp
<1>1. TypeOK /\ SumOfAdded /\ ReadsOwnSlice /\ PrintsWholeSum => PartsAddUp
  BY DEF PartsAddUp
<1> QED
  BY <1>1, TypeCorrect, NothingLost, SlicesSafe, PrintedRight, PTL

-----------------------------------------------------------------------------
(* The filter of FirFilterMain.c *)


(* The place in the buffer of the sample that came k times before the one at p. *)
Back(p, back) == IF p - back >= 0 THEN p - back ELSE p - back + N

(* The buffer holds the last N samples, the newest of them at newst while the *)
(* taps are run through; before a sample is read its place is the oldest's.   *)
Buffered == /\ phase = "taps" => \A back \in Taps : cbuf[Back(newst, back)] = SampleBefore(n, back)
            /\ phase = "sample" => \A back \in 1 .. N - 1 : cbuf[Back(newst, back)] = SampleBefore(n, back)
TapAt == phase = "taps" => n < M /\ x_index = Back(newst, j)
SampleAt == phase = "sample" => n < M \/ M = 0

FirInv == FirTypeOK /\ Buffered /\ TapAt /\ SampleAt /\ Convolves

(* Places differ as long as the distances are below N. *)
LEMMA BackPlaces ==
  ASSUME newst \in Taps
  PROVE  /\ \A back \in 0 .. N : Back(newst, back) \in Taps
         /\ \A back, other \in Taps : Back(newst, back) = Back(newst, other) => back = other
         /\ Back(newst, 0) = newst /\ Back(newst, N) = newst
         /\ \A back \in 0 .. N - 1 : Back(newst, back + 1) = IF Back(newst, back) - 1 = -1 THEN N - 1 ELSE Back(newst, back) - 1
BY FirAssumption DEF Back, Taps

LEMMA SampleStep ==
  ASSUME FirInv, NewSample
  PROVE  FirInv'
<1>0. /\ N \in Nat \ {0} /\ M \in Nat /\ FirTypeOK
      /\ phase = "sample" /\ n < M
      /\ cbuf' = [cbuf EXCEPT ![newst] = x[n]] /\ x_index' = newst /\ j' = 0 /\ phase' = "taps"
      /\ UNCHANGED <<x, y, newst, n>>
  BY FirAssumption DEF FirInv, NewSample
<1>1. n \in Times /\ x[n] \in Samples /\ newst \in Taps
  BY <1>0 DEF FirTypeOK, Times
<1>2. FirTypeOK'
  BY <1>0, <1>1 DEF FirTypeOK, Taps
<1>3. \A back : Back(newst', back) = Back(newst, back)
  BY <1>0
<1>4. cbuf'[newst] = x[n] /\ \A other \in Taps : other # newst => cbuf'[other] = cbuf[other]
  BY <1>0, <1>1 DEF FirTypeOK
<1>5. Buffered'
  <2> SUFFICES ASSUME NEW back \in Taps
               PROVE  cbuf'[Back(newst, back)] = SampleBefore(n, back)
    BY <1>0, <1>3 DEF Buffered, SampleBefore
  <2>1. CASE back = 0
    BY <1>0, <1>1, <1>4, <2>1, BackPlaces DEF SampleBefore, Times
  <2>2. CASE back # 0
    <3>1. back \in 1 .. N - 1 /\ 0 \in Taps
      BY <1>0, <2>2 DEF Taps
    <3>2. Back(newst, back) \in Taps /\ Back(newst, back) # newst
      BY <1>0, <1>1, <2>2, <3>1, BackPlaces DEF Taps
    <3> QED
      BY <1>0, <1>4, <3>1, <3>2 DEF FirInv, Buffered
  <2> QED
    BY <2>1, <2>2
<1>6. TapAt'
  <2>1. Back(newst, 0) = newst
    BY <1>1, BackPlaces
  <2> QED
    BY <1>0, <1>3, <2>1 DEF TapAt
<1>7. Convolves'
  BY <1>0, <1>1 DEF FirInv, Convolves, SampleBefore, Taps
<1> QED
  BY <1>0, <1>2, <1>5, <1>6, <1>7 DEF FirInv, SampleAt

LEMMA TapStep ==
  ASSUME FirInv, Tap
  PROVE  FirInv'
<1>0. /\ N \in Nat \ {0} /\ M \in Nat /\ FirTypeOK
      /\ phase = "taps" /\ j < N /\ j' = j + 1
      /\ y' = [y EXCEPT ![n] = [y[n] EXCEPT ![j] = cbuf[x_index]]]
      /\ x_index' = (IF x_index - 1 = -1 THEN N - 1 ELSE x_index - 1)
      /\ UNCHANGED <<x, cbuf, newst, n, phase>>
  BY FirAssumption DEF FirInv, Tap
<1>1. n < M /\ x_index = Back(newst, j) /\ n \in Times /\ j \in Taps /\ newst \in Taps
  BY <1>0 DEF FirInv, TapAt, FirTypeOK, Times, Taps
<1>2. cbuf[x_index] = SampleBefore(n, j) /\ cbuf[x_index] \in Samples
  BY <1>0, <1>1 DEF FirInv, Buffered, FirTypeOK
<1>3. /\ y' \in [Times -> [Taps -> Samples]]
      /\ y'[n][j] = SampleBefore(n, j)
      /\ \A back \in Taps : back # j => y'[n][back] = y[n][back]
      /\ \A t \in Times : t # n => y'[t] = y[t]
  BY <1>0, <1>1, <1>2 DEF FirTypeOK
<1>4. Back(newst, j + 1) = x_index' /\ x_index' \in Taps
  BY <1>0, <1>1, BackPlaces DEF Taps
<1>5. FirTypeOK'
  BY <1>0, <1>1, <1>3, <1>4 DEF FirTypeOK, Taps
<1>6. Buffered' /\ SampleAt'
  BY <1>0 DEF FirInv, Buffered, SampleAt, Back, SampleBefore
<1>7. TapAt'
  BY <1>0, <1>1, <1>4 DEF TapAt
<1>8. Convolves'
  <2>1. \A t, back : SampleBefore(t, back)' = SampleBefore(t, back)
    BY <1>0 DEF SampleBefore
  <2>2. \A t \in Times, back \in Taps : t < n => y'[t][back] = SampleBefore(t, back)
    BY <1>0, <1>1, <1>3 DEF FirInv, Convolves, Times
  <2>3. \A back \in Taps : back < j + 1 => back = j \/ back < j
    BY <1>1 DEF Taps
  <2>4. \A back \in Taps : back < j + 1 => y'[n][back] = SampleBefore(n, back)
    BY <1>0, <1>1, <1>3, <2>3 DEF FirInv, Convolves, Taps
  <2> QED
    BY <1>0, <2>1, <2>2, <2>4 DEF Convolves
<1> QED
  BY <1>5, <1>6, <1>7, <1>8 DEF FirInv

LEMMA TimeStep ==
  ASSUME FirInv, NextTime
  PROVE  FirInv'
<1>0. /\ N \in Nat \ {0} /\ M \in Nat /\ FirTypeOK
      /\ phase = "taps" /\ j = N /\ n' = n + 1
      /\ newst' = (IF newst + 1 = N THEN 0 ELSE newst + 1)
      /\ phase' = (IF n + 1 < M THEN "sample" ELSE "end")
      /\ UNCHANGED <<x, y, cbuf, j, x_index>>
  BY FirAssumption DEF FirInv, NextTime
<1>1. n < M /\ n \in Times /\ newst \in Taps /\ n \in Nat
  BY <1>0 DEF FirInv, TapAt, FirTypeOK, Times
<1>2. FirTypeOK' /\ newst' \in Taps
  BY <1>0, <1>1 DEF FirTypeOK, Taps
<1>3. \A back \in 1 .. N - 1 : Back(newst', back) = Back(newst, back - 1)
  BY <1>0, <1>1 DEF Back, Taps
<1>4. \A back \in 1 .. N - 1 : SampleBefore(n, back - 1) = SampleBefore(n + 1, back)
  BY <1>0, <1>1 DEF SampleBefore
<1>5. Buffered'
  <2> SUFFICES ASSUME NEW back \in 1 .. N - 1, phase' = "sample"
               PROVE  cbuf[Back(newst', back)] = SampleBefore(n + 1, back)
    BY <1>0 DEF Buffered, SampleBefore
  <2>1. cbuf[Back(newst, back - 1)] = SampleBefore(n, back - 1)
    BY <1>0 DEF FirInv, Buffered, Taps
  <2> QED
    BY <1>3, <1>4, <2>1
<1>6. TapAt' /\ SampleAt'
  BY <1>0 DEF TapAt, SampleAt
<1>7. Convolves'
  <2>1. \A back \in Taps : y[n][back] = SampleBefore(n, back)
    BY <1>0 DEF FirInv, Convolves, Taps
  <2>2. \A t \in Times, back \in Taps : t < n => y[t][back] = SampleBefore(t, back)
    BY DEF FirInv, Convolves
  <2>3. \A t \in Times : t < n + 1 => t = n \/ t < n
    BY <1>1 DEF Times
  <2>4. \A t, back : SampleBefore(t, back)' = SampleBefore(t, back)
    BY <1>0 DEF SampleBefore
  <2> QED
    BY <1>0, <2>1, <2>2, <2>3, <2>4 DEF Convolves
<1> QED
  BY <1>2, <1>5, <1>6, <1>7 DEF FirInv

(* Whatever the number of taps and of samples, each coefficient is multiplied *)
(* with the sample that came as many times before.                            *)
THEOREM FilterConvolves == FirSpec => []Convolves
<1>1. FirInit => FirInv
  <2> SUFFICES ASSUME FirInit
               PROVE  FirInv
    OBVIOUS
  <2>1. N \in Nat \ {0} /\ M \in Nat /\ 0 \in Samples
    BY FirAssumption
  <2>2. FirTypeOK
    BY <2>1 DEF FirInit, FirTypeOK, Taps
  <2>3. \A back \in 1 .. N - 1 : Back(newst, back) \in Taps /\ SampleBefore(0, back) = 0
    BY <2>1 DEF FirInit, Back, Taps, SampleBefore
  <2>4. Buffered
    BY <2>3 DEF FirInit, Buffered
  <2>5. TapAt /\ SampleAt /\ Convolves
    BY <2>1 DEF FirInit, TapAt, SampleAt, Convolves, Times
  <2> QED
    BY <2>2, <2>4, <2>5 DEF FirInv
<1>2. FirInv /\ [FirNext]_firVars => FirInv'
  <2>1. FirInv /\ UNCHANGED firVars => FirInv'
    BY DEF FirInv, FirTypeOK, Buffered, TapAt, SampleAt, Convolves, SampleBefore, Back, firVars
  <2> QED
    BY <2>1, SampleStep, TapStep, TimeStep DEF FirNext
<1>3. FirInv => Convolves
  BY DEF FirInv
<1> QED
  BY <1>1, <1>2, <1>3, PTL DEF FirSpec

-----------------------------------------------------------------------------
(* The sequence detector *)

(* What the inputs end in by the state the machine is in: that much of 0111,   *)
(* and a one somewhere before.                                               *)
OneWithin(zeros) == \E b \in 1 .. zeros : inputs[b] = 1
EndsBy ==
  LET l == Len(inputs)
  IN  /\ stat_reg = "s1" => OneWithin(l)
      /\ stat_reg = "s2" => l >= 1 /\ inputs[l] = 0 /\ OneWithin(l - 1)
      /\ stat_reg = "s3" => l >= 2 /\ inputs[l - 1] = 0 /\ inputs[l] = 1 /\ OneWithin(l - 2)
      /\ stat_reg = "s4" => /\ l >= 3 /\ inputs[l - 2] = 0 /\ inputs[l - 1] = 1 /\ inputs[l] = 1
                            /\ OneWithin(l - 3)

(* Where the machine is after leading zeros and so much of the test bench's   *)
(* sequence, 10111 and again 0111.                                           *)
Bench == <<1, 0, 1, 1, 1, 0, 1, 1>>
StateAfter == <<"s0", "s1", "s2", "s3", "s4", "s1", "s2", "s3", "s4">>
BenchSoFar(zeros, b) ==
  /\ Len(inputs) = zeros + b
  /\ \A m \in 1 .. zeros : inputs[m] = 0
  /\ \A m \in 1 .. b : inputs[zeros + m] = Bench[m]
FollowsBench == \A zeros \in Nat, b \in 0 .. 8 : BenchSoFar(zeros, b) => stat_reg = StateAfter[b + 1]

DetectorInv ==
  /\ inputs \in Seq({0, 1}) /\ stat_reg \in {"s0", "s1", "s2", "s3", "s4"}
  /\ EndsBy /\ FollowsBench

LEMMA DetectorTables ==
  /\ \A b \in 1 .. 8 : Bench[b] \in {0, 1} /\ StateAfter[b + 1] = next_reg(StateAfter[b], Bench[b])
  /\ StateAfter[1] = "s0" /\ StateAfter[5] = "s4" /\ StateAfter[9] = "s4"
<1>1. \A b \in 1 .. 8 : b = 1 \/ b = 2 \/ b = 3 \/ b = 4 \/ b = 5 \/ b = 6 \/ b = 7 \/ b = 8
  OBVIOUS
<1> QED
  BY <1>1 DEF Bench, StateAfter, next_reg

LEMMA ClockStep ==
  ASSUME DetectorInv, NEW in \in {0, 1}, DetClock(in)
  PROVE  DetectorInv'
<1> DEFINE l == Len(inputs)
<1>1. /\ inputs \in Seq({0, 1}) /\ l \in Nat /\ stat_reg \in {"s0", "s1", "s2", "s3", "s4"}
      /\ inputs' = Append(inputs, in) /\ stat_reg' = next_reg(stat_reg, in)
  BY DEF DetectorInv, DetClock
<1>2. /\ inputs' \in Seq({0, 1}) /\ Len(inputs') = l + 1 /\ inputs'[l + 1] = in
      /\ \A m \in 1 .. l : inputs'[m] = inputs[m]
  BY <1>1
<1>3. stat_reg' \in {"s0", "s1", "s2", "s3", "s4"}
  BY <1>1 DEF next_reg
<1>4. EndsBy'
  <2> HIDE DEF l
  <2>1. EndsBy /\ l = Len(inputs)
    BY DEF DetectorInv, l
  <2>2. \A zeros \in Nat : zeros <= l => ((\E b \in 1 .. zeros : inputs[b] = 1) => \E b \in 1 .. zeros : inputs'[b] = 1)
    BY <1>1, <1>2
  <2>3. /\ stat_reg' = "s1" => OneWithin(l) \/ in = 1
        /\ stat_reg' = "s2" => stat_reg = "s1" /\ in = 0
        /\ stat_reg' = "s3" => stat_reg = "s2" /\ in = 1
        /\ stat_reg' = "s4" => stat_reg = "s3" /\ in = 1
    <3>1. /\ stat_reg' = "s1" => in = 1 \/ stat_reg = "s2"
          /\ stat_reg' = "s2" => stat_reg = "s1" /\ in = 0
          /\ stat_reg' = "s3" => stat_reg = "s2" /\ in = 1
          /\ stat_reg' = "s4" => stat_reg = "s3" /\ in = 1
      BY <1>1 DEF next_reg
    <3>2. OneWithin(l - 1) => OneWithin(l)
      BY <1>1 DEF OneWithin
    <3> QED
      BY <2>1, <3>1, <3>2 DEF EndsBy
  <2>4. stat_reg' = "s1" => \E b \in 1 .. l + 1 : inputs'[b] = 1
    <3>1. CASE in = 1
      BY <1>1, <1>2, <3>1
    <3>2. CASE OneWithin(l)
      BY <1>1, <1>2, <3>2 DEF OneWithin
    <3> QED
      BY <2>3, <3>1, <3>2
  <2>5. stat_reg' = "s2" => inputs'[l + 1] = 0 /\ \E b \in 1 .. l : inputs'[b] = 1
    BY <1>1, <1>2, <2>1, <2>2, <2>3 DEF EndsBy, OneWithin
  <2>6. stat_reg' = "s3" => /\ l >= 1 /\ inputs'[l] = 0 /\ inputs'[l + 1] = 1
                            /\ \E b \in 1 .. l - 1 : inputs'[b] = 1
    <3> HAVE stat_reg' = "s3"
    <3>1. l >= 1 /\ inputs[l] = 0 /\ in = 1 /\ OneWithin(l - 1)
      BY <2>1, <2>3 DEF EndsBy
    <3>2. l - 1 \in Nat /\ l - 1 <= l
      BY <1>1, <3>1
    <3> QED
      BY <1>1, <1>2, <2>2, <3>1, <3>2 DEF OneWithin
  <2>7. stat_reg' = "s4" => /\ l >= 2 /\ inputs'[l - 1] = 0 /\ inputs'[l] = 1 /\ inputs'[l + 1] = 1
                            /\ \E b \in 1 .. l - 2 : inputs'[b] = 1
    <3> HAVE stat_reg' = "s4"
    <3>1. l >= 2 /\ inputs[l - 1] = 0 /\ inputs[l] = 1 /\ in = 1 /\ OneWithin(l - 2)
      BY <2>1, <2>3 DEF EndsBy
    <3>2. l - 2 \in Nat /\ l - 2 <= l /\ l - 1 \in 1 .. l /\ l \in 1 .. l
      BY <1>1, <3>1
    <3> QED
      BY <1>1, <1>2, <2>2, <3>1, <3>2 DEF OneWithin
  <2>8. Len(inputs') - 1 = l /\ Len(inputs') - 2 = l - 1 /\ Len(inputs') - 3 = l - 2 /\ Len(inputs') = l + 1
    BY <1>1, <1>2
  <2> QED
    BY <1>1, <2>4, <2>5, <2>6, <2>7, <2>8 DEF EndsBy, OneWithin
<1>5. FollowsBench'
  <2> SUFFICES ASSUME NEW zeros \in Nat, NEW b \in 0 .. 8, BenchSoFar(zeros, b)'
               PROVE  stat_reg' = StateAfter[b + 1]
    BY DEF FollowsBench
  <2>1. /\ l + 1 = zeros + b
        /\ \A m \in 1 .. zeros : inputs'[m] = 0
        /\ \A m \in 1 .. b : inputs'[zeros + m] = Bench[m]
    BY <1>2 DEF BenchSoFar
  <2>2. CASE b = 0
    <3>1. zeros = l + 1 /\ in = 0
      BY <1>1, <1>2, <2>1, <2>2
    <3>2. BenchSoFar(l, 0)
      BY <1>1, <1>2, <2>1, <3>1 DEF BenchSoFar
    <3>3. stat_reg = "s0"
      BY <1>1, <3>2, DetectorTables DEF DetectorInv, FollowsBench
    <3> QED
      BY <1>1, <2>2, <3>1, <3>3, DetectorTables DEF next_reg
  <2>3. CASE b # 0
    <3> DEFINE c == b - 1
    <3>0. c \in 0 .. 7 /\ b = c + 1
      BY <2>3
    <3>1. c \in 0 .. 8 /\ b \in 1 .. 8 /\ l = zeros + c /\ l + 1 = zeros + b /\ c \in Nat
      <4> HIDE DEF l, c
      <4> QED
        BY <1>1, <2>1, <3>0
    <3> HIDE DEF c
    <3>2. in = Bench[b]
      <4>1. b \in 1 .. b
        BY <3>1
      <4>2. inputs'[zeros + b] = Bench[b]
        BY <2>1, <4>1
      <4>3. inputs'[l + 1] = in /\ l + 1 = zeros + b
        BY <1>2, <3>1
      <4> QED
        BY <4>2, <4>3
    <3>3. BenchSoFar(zeros, c)
      <4>1. \A m \in 1 .. zeros : inputs[m] = 0
        BY <1>1, <1>2, <2>1, <3>1
      <4>2. \A m \in 1 .. c : zeros + m \in 1 .. l /\ m \in 1 .. b
        BY <1>1, <3>0, <3>1
      <4>3. \A m \in 1 .. c : inputs[zeros + m] = Bench[m]
        BY <1>2, <2>1, <4>2
      <4> QED
        BY <3>1, <4>1, <4>3 DEF BenchSoFar
    <3>4. stat_reg = StateAfter[c + 1]
      BY <3>1, <3>3 DEF DetectorInv, FollowsBench
    <3> QED
      BY <1>1, <3>0, <3>1, <3>2, <3>4, DetectorTables
  <2> QED
    BY <2>2, <2>3
<1> QED
  BY <1>2, <1>3, <1>4, <1>5 DEF DetectorInv

LEMMA NothingRead ==
  ASSUME stat_reg = "s0", inputs = << >>
  PROVE  DetectorInv
<1>1. Len(inputs) = 0 /\ inputs \in Seq({0, 1})
  OBVIOUS
<1>2. FollowsBench
  <2> SUFFICES ASSUME NEW zeros \in Nat, NEW b \in 0 .. 8, BenchSoFar(zeros, b)
               PROVE  stat_reg = StateAfter[b + 1]
    BY DEF FollowsBench
  <2>1. b = 0
    BY <1>1 DEF BenchSoFar
  <2> QED
    BY <2>1, DetectorTables
<1> QED
  BY <1>1, <1>2 DEF DetectorInv, EndsBy

(* The inputs that the test bench gives are recognised by their places.      *)
LEMMA ZerosThen ==
  ASSUME NEW zeros \in Nat, NEW b \in 0 .. 8, NEW s \in Seq({0, 1}), Len(s) = b,
         \A m \in 1 .. b : s[m] = Bench[m], inputs = [w \in 1 .. zeros |-> 0] \o s
  PROVE  BenchSoFar(zeros, b)
<1> DEFINE z == [w \in 1 .. zeros |-> 0]
<1>1. z \in Seq({0, 1}) /\ Len(z) = zeros /\ \A m \in 1 .. zeros : z[m] = 0
  OBVIOUS
<1> HIDE DEF z
<1>2. /\ Len(z \o s) = Len(z) + Len(s)
      /\ \A m \in 1 .. Len(z) + Len(s) : (z \o s)[m] = IF m <= Len(z) THEN z[m] ELSE s[m - Len(z)]
  BY <1>1, ConcatProperties, Zenon
<1>3. inputs = z \o s
  BY DEF z
<1>4. \A m \in 1 .. zeros : inputs[m] = 0
  BY <1>1, <1>2, <1>3
<1>5. \A m \in 1 .. b : inputs[zeros + m] = Bench[m]
  <2> SUFFICES ASSUME NEW m \in 1 .. b
               PROVE  inputs[zeros + m] = Bench[m]
    OBVIOUS
  <2>1. zeros + m \in 1 .. zeros + b /\ ~(zeros + m <= zeros) /\ (zeros + m) - zeros = m
    OBVIOUS
  <2> QED
    BY <1>1, <1>2, <1>3, <2>1
<1> QED
  BY <1>1, <1>2, <1>3, <1>4, <1>5 DEF BenchSoFar

LEMMA DetectorSays ==
  ASSUME DetectorInv
  PROVE  DetectorRight
<1>1. inputs \in Seq({0, 1}) /\ Len(inputs) \in Nat
  BY DEF DetectorInv
<1>2. DetectionsEndIn0111
  <2> SUFFICES ASSUME stat_reg = "s4"
               PROVE  Ends(inputs, <<0, 1, 1>>) /\ \E zeros \in 1 .. Len(inputs) - 3 : inputs[zeros] = 1
    BY DEF DetectionsEndIn0111, detctd
  <2> DEFINE l == Len(inputs)
             t == SubSeq(inputs, l - 2, l)
             e == <<0, 1, 1>>
  <2>1. /\ l >= 3 /\ inputs[l - 2] = 0 /\ inputs[l - 1] = 1 /\ inputs[l] = 1
        /\ \E zeros \in 1 .. Len(inputs) - 3 : inputs[zeros] = 1
    BY DEF DetectorInv, EndsBy, OneWithin
  <2>2. \A b \in l - 2 .. l : inputs[b] \in {0, 1}
    BY <1>1, <2>1
  <2>3. /\ t \in Seq({0, 1}) /\ Len(t) = 3 /\ \A b \in 1 .. 3 : t[b] = inputs[l - 2 + b - 1]
    <3>1. l - 2 \in Int /\ l \in Int /\ l - 2 <= l /\ l - (l - 2) + 1 = 3
      BY <1>1
    <3> HIDE DEF l
    <3>2. /\ t \in Seq({0, 1}) /\ Len(t) = (IF l - 2 <= l THEN l - (l - 2) + 1 ELSE 0)
          /\ \A b \in 1 .. l - (l - 2) + 1 : t[b] = inputs[l - 2 + b - 1]
      BY <2>2, <3>1, SubSeqProperties
    <3> QED
      BY <3>1, <3>2
  <2>4. e \in Seq({0, 1}) /\ Len(e) = 3 /\ e[1] = 0 /\ e[2] = 1 /\ e[3] = 1
    OBVIOUS
  <2> HIDE DEF t, e
  <2>5. t[1] = 0 /\ t[2] = 1 /\ t[3] = 1
    BY <1>1, <2>1, <2>3
  <2>6. \A b \in 1 .. 3 : t[b] = e[b]
    <3>1. \A b \in 1 .. 3 : b = 1 \/ b = 2 \/ b = 3
      OBVIOUS
    <3> QED
      BY <2>4, <2>5, <3>1
  <2>7. t = e
    BY <2>3, <2>4, <2>6, SeqEqual
  <2>8. Len(inputs) - Len(e) + 1 = l - 2
    BY <1>1, <2>4
  <2> QED
    BY <1>1, <2>1, <2>4, <2>7, <2>8 DEF Ends, t, e
<1>3. BenchIsDetected
  <2> SUFFICES ASSUME NEW zeros \in 0 .. Len(inputs)
               PROVE  /\ inputs = [w \in 1 .. zeros |-> 0] \o <<1, 0, 1, 1>> => stat_reg = "s4"
                      /\ inputs = [w \in 1 .. zeros |-> 0] \o <<1, 0, 1, 1, 1, 0, 1, 1>> => stat_reg = "s4"
    BY DEF BenchIsDetected, detctd
  <2>1. zeros \in Nat
    BY <1>1
  <2>2. ASSUME inputs = [w \in 1 .. zeros |-> 0] \o <<1, 0, 1, 1>>
        PROVE  stat_reg = "s4"
    <3> DEFINE s == <<1, 0, 1, 1>>
    <3>1. s \in Seq({0, 1}) /\ Len(s) = 4
      OBVIOUS
    <3>2. \A m \in 1 .. 4 : s[m] = Bench[m]
      <4>1. \A m \in 1 .. 4 : m = 1 \/ m = 2 \/ m = 3 \/ m = 4
        OBVIOUS
      <4> QED
        BY <4>1 DEF Bench
    <3>3. inputs = [w \in 1 .. zeros |-> 0] \o s
      BY <2>2
    <3> HIDE DEF s
    <3>4. BenchSoFar(zeros, 4)
      <4>1. 4 \in 0 .. 8
        OBVIOUS
      <4> QED
        BY <2>1, <4>1, <3>1, <3>2, <3>3, ZerosThen
    <3> QED
      BY <2>1, <3>4, DetectorTables DEF DetectorInv, FollowsBench
  <2>3. ASSUME inputs = [w \in 1 .. zeros |-> 0] \o <<1, 0, 1, 1, 1, 0, 1, 1>>
        PROVE  stat_reg = "s4"
    <3>1. Bench \in Seq({0, 1}) /\ Len(Bench) = 8
      BY DEF Bench
    <3>2. inputs = [w \in 1 .. zeros |-> 0] \o Bench
      BY <2>3 DEF Bench
    <3>3. BenchSoFar(zeros, 8)
      <4>1. 8 \in 0 .. 8 /\ \A m \in 1 .. 8 : Bench[m] = Bench[m]
        OBVIOUS
      <4> QED
        BY <2>1, <4>1, <3>1, <3>2, ZerosThen
    <3> QED
      BY <2>1, <3>3, DetectorTables DEF DetectorInv, FollowsBench
  <2> QED
    BY <2>2, <2>3
<1> QED
  BY <1>2, <1>3 DEF DetectorRight

(* The detector detects only what ends in 0111 after a one, and it detects     *)
(* the test bench's sequences, however many bits come between two resets.     *)
THEOREM DetectorCorrect == DetSpec => []DetectorRight
<1>1. DetInit => DetectorInv
  BY NothingRead DEF DetInit
<1>2. DetectorInv /\ [DetNext]_detVars => DetectorInv'
  <2>1. DetectorInv /\ DetReset => DetectorInv'
    <3>1. stat_reg = "s0" /\ inputs = << >> => DetectorInv
      BY NothingRead
    <3>2. DetReset => (stat_reg = "s0" /\ inputs = << >>)'
      BY DEF DetReset
    <3> QED
      BY <3>1, <3>2, PTL
  <2>2. DetectorInv /\ UNCHANGED detVars => DetectorInv'
    BY DEF detVars, DetectorInv, EndsBy, OneWithin, FollowsBench, BenchSoFar
  <2> QED
    BY <2>1, <2>2, ClockStep DEF DetNext
<1>3. DetectorInv => DetectorRight
  BY DetectorSays
<1> QED
  BY <1>1, <1>2, <1>3, PTL DEF DetSpec

-----------------------------------------------------------------------------
(* The board's display *)

LEMMA DigitsDiffer == \A g, c \in 0 .. 15 : Segments(g) = Segments(c) => g = c
<1> DEFINE T == <<<<0,0,0,0,0,0,1>>, <<1,0,0,1,1,1,1>>, <<0,0,1,0,0,1,0>>, <<0,0,0,0,1,1,0>>,
                  <<1,0,0,1,1,0,0>>, <<0,1,0,0,1,0,0>>, <<0,1,0,0,0,0,0>>, <<0,0,0,1,1,1,1>>,
                  <<0,0,0,0,0,0,0>>, <<0,0,0,0,1,0,0>>, <<0,0,0,1,0,0,0>>, <<1,1,0,0,0,0,0>>,
                  <<0,1,1,0,0,0,1>>, <<1,0,0,0,0,1,0>>, <<0,0,1,0,0,0,0>>, <<0,1,1,1,0,0,0>>>>
           Value(s) == s[1] + 2 * s[2] + 4 * s[3] + 8 * s[4] + 16 * s[5] + 32 * s[6] + 64 * s[7]
<1>1. /\ Value(T[1]) = 64 /\ Value(T[2]) = 121 /\ Value(T[3]) = 36 /\ Value(T[4]) = 48
      /\ Value(T[5]) = 25 /\ Value(T[6]) = 18 /\ Value(T[7]) = 2 /\ Value(T[8]) = 120
  OBVIOUS
<1>2. /\ Value(T[9]) = 0 /\ Value(T[10]) = 16 /\ Value(T[11]) = 8 /\ Value(T[12]) = 3
      /\ Value(T[13]) = 70 /\ Value(T[14]) = 33 /\ Value(T[15]) = 4 /\ Value(T[16]) = 14
  OBVIOUS
<1>3. \A g \in 0 .. 15 : Segments(g) = T[g + 1]
  BY DEF Segments
<1> HIDE DEF T, Value
<1>4. ASSUME NEW g \in 0 .. 15, NEW c \in 0 .. 15, Value(T[g + 1]) = Value(T[c + 1])
      PROVE  g = c
  <2>1. \A b \in 0 .. 15 : \/ b = 0 \/ b = 1 \/ b = 2 \/ b = 3 \/ b = 4 \/ b = 5 \/ b = 6 \/ b = 7
                           \/ b = 8 \/ b = 9 \/ b = 10 \/ b = 11 \/ b = 12 \/ b = 13 \/ b = 14 \/ b = 15
    OBVIOUS
  <2> QED
    BY <1>1, <1>2, <1>4, <2>1
<1> QED
  BY <1>3, <1>4

LEMMA DigitTimes ==
  \A d \in 1 .. 4 : /\ (d - 1) * DigitTime \in Nat /\ d * DigitTime \in Nat
                    /\ d * DigitTime = (d - 1) * DigitTime + DigitTime
                    /\ d < 4 => ((d + 1) - 1) * DigitTime = d * DigitTime
                    /\ d < 4 => (d + 1) * DigitTime = d * DigitTime + DigitTime
<1> SUFFICES ASSUME NEW d \in 1 .. 4
             PROVE  /\ (d - 1) * DigitTime \in Nat /\ d * DigitTime \in Nat
                    /\ d * DigitTime = (d - 1) * DigitTime + DigitTime
                    /\ d < 4 => ((d + 1) - 1) * DigitTime = d * DigitTime
                    /\ d < 4 => (d + 1) * DigitTime = d * DigitTime + DigitTime
  OBVIOUS
<1>1. DigitTime \in Nat
  BY BoardAssumption
<1>2. d = 1 \/ d = 2 \/ d = 3 \/ d = 4
  OBVIOUS
<1> QED
  BY <1>1, <1>2

LEMMA FallingStep ==
  ASSUME BoardTypeOK, CounterInDigit, Falling
  PROVE  digit' \in 1 .. 4 /\ counter' \in Nat /\ CounterInDigit'
<1>1. DigitTime \in Nat \ {0} /\ digit \in 1 .. 4 /\ counter \in Nat
  BY BoardAssumption DEF BoardTypeOK
<1> DEFINE below == (digit - 1) * DigitTime
           top == digit * DigitTime
<1>2. below \in Nat /\ top \in Nat /\ top = below + DigitTime /\ below <= counter /\ counter <= top
  BY <1>1, DigitTimes DEF CounterInDigit
<1>3. CASE counter # top
  <2>1. digit' = digit /\ counter' = counter + 1
    BY <1>3 DEF Falling
  <2> HIDE DEF below, top
  <2>2. below <= counter' /\ counter' <= top /\ counter' \in Nat
    BY <1>1, <1>2, <1>3, <2>1
  <2> QED
    BY <1>1, <2>1, <2>2 DEF below, top, CounterInDigit
<1>4. CASE counter = top /\ digit # 4
  <2>1. digit' = digit + 1 /\ counter' = counter
    BY <1>4 DEF Falling
  <2>2. digit < 4 /\ digit' \in 1 .. 4
    BY <1>1, <1>4, <2>1
  <2>3. (digit' - 1) * DigitTime = top /\ digit' * DigitTime = top + DigitTime
    BY <1>1, <2>1, <2>2, DigitTimes
  <2> HIDE DEF below, top
  <2> QED
    BY <1>1, <1>2, <1>4, <2>1, <2>2, <2>3 DEF CounterInDigit
<1>5. CASE counter = top /\ digit = 4
  <2>1. digit' = 1 /\ counter' = 0
    BY <1>5 DEF Falling
  <2> QED
    BY <1>1, <2>1 DEF CounterInDigit
<1> QED
  BY <1>3, <1>4, <1>5

(* The divider and the multiplexer stay in their ranges, whatever the dividers *)
(* of the clock, and the comparisons of the multiplexer never miss.           *)
THEOREM BoardCorrect == BoardSpec => []BoardSafe
<1> DEFINE Inv == BoardSafe /\ DataIn \in Outputs
<1>1. BoardInit => Inv
  BY BoardAssumption, DigitsDiffer DEF BoardInit, BoardSafe, BoardTypeOK, CounterInDigit
<1>2. Inv /\ [BoardNext]_boardVars => Inv'
  <2> SUFFICES ASSUME Inv, [BoardNext]_boardVars
               PROVE  Inv'
    OBVIOUS
  <2>0. ModM \in Nat \ {0} /\ Outputs \subseteq [1 .. 4 -> 0 .. 15] /\ BoardTypeOK /\ CounterInDigit
    BY BoardAssumption DEF BoardSafe
  <2>1. CASE Rising
    <3>1. r_reg' \in 0 .. ModM - 1 /\ clkout' \in {0, 1} /\ edge' \in {"rise", "fall"}
      BY <2>0, <2>1 DEF Rising, BoardTypeOK, max_tick
    <3>2. DataIn' \in Outputs
      BY <2>1 DEF Rising
    <3> QED
      BY <2>0, <2>1, <3>1, <3>2, DigitsDiffer DEF Rising, BoardTypeOK, CounterInDigit, BoardSafe
  <2>2. CASE Falling
    <3>1. digit' \in 1 .. 4 /\ counter' \in Nat /\ CounterInDigit'
      BY <2>0, <2>2, FallingStep
    <3>2. data' \in 0 .. 15
      BY <2>0, <2>2 DEF Falling, BoardTypeOK
    <3> QED
      BY <2>0, <2>2, <3>1, <3>2, DigitsDiffer DEF Falling, BoardTypeOK, BoardSafe
  <2>3. CASE Reset
    BY <2>0, <2>3, DigitsDiffer DEF Reset, BoardSafe, BoardTypeOK, CounterInDigit
  <2>4. CASE Release
    BY <2>0, <2>4, DigitsDiffer DEF Release, BoardSafe, BoardTypeOK, CounterInDigit
  <2>5. CASE SwitchesMove
    BY <2>0, <2>5, DigitsDiffer DEF SwitchesMove, BoardSafe, BoardTypeOK, CounterInDigit
  <2>6. CASE UNCHANGED boardVars
    BY <2>6 DEF boardVars, BoardSafe, BoardTypeOK, CounterInDigit
  <2> QED
    BY <2>1, <2>2, <2>3, <2>4, <2>5, <2>6 DEF BoardNext, ClockEdge
<1>3. Inv => BoardSafe
  OBVIOUS
<1> QED
  BY <1>1, <1>2, <1>3, PTL DEF BoardSpec
=============================================================================
