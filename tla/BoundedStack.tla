---------------------------- MODULE BoundedStack ----------------------------
(***************************************************************************)
(* What the producer/consumer program of main_pthread.c promises: a stack  *)
(* of at most Capacity items.  A push adds an item on top; a pop hands the *)
(* top item to the consumer that asked for it.  No item is ever lost,      *)
(* duplicated, invented or handed to two consumers.                        *)
(***************************************************************************)
EXTENDS Naturals, Sequences

CONSTANTS Capacity,     \* how many items the stack may hold
          Getters,      \* the consumers
          Values,       \* what may be pushed
          Nothing       \* what a consumer holds before its first item

VARIABLES stack,        \* the items held, the top one last
          got           \* the last item each consumer was handed

avars == <<stack, got>>

AInit == /\ stack = << >>
         /\ got = [g \in Getters |-> Nothing]

Push(v) == /\ Len(stack) < Capacity
           /\ stack' = Append(stack, v)
           /\ UNCHANGED got

Pop(g) == /\ stack # << >>
          /\ got' = [got EXCEPT ![g] = stack[Len(stack)]]
          /\ stack' = SubSeq(stack, 1, Len(stack) - 1)

ANext == \/ \E v \in Values : Push(v)
         \/ \E g \in Getters : Pop(g)

ASpec == AInit /\ [][ANext]_avars
=============================================================================
