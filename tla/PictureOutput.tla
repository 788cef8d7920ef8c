--------------------------- MODULE PictureOutput ---------------------------
(***************************************************************************)
(* What the decoded picture buffer promises of its output: the pictures    *)
(* stored wait, each with its picture order count, and are written one by  *)
(* one, the smallest count first and in ascending order; the counts start  *)
(* over only when every picture before was written.  A count that comes    *)
(* too late is written and stops the program.                              *)
(***************************************************************************)
EXTENDS Integers

CONSTANTS Pictures, Pocs, INT_MIN

VARIABLES waiting,   \* the pictures to be written, with their counts
          last,      \* the count written last
          running

vars == <<waiting, last, running>>

Init == waiting = {} /\ last = INT_MIN /\ running = TRUE

Store(p, n) ==
  /\ running /\ \A w \in waiting : w[1] # p
  /\ waiting' = waiting \cup {<<p, n>>}
  /\ running' \in BOOLEAN
  /\ UNCHANGED last

Write(w) ==
  /\ running /\ \A v \in waiting : w[2] <= v[2]
  /\ waiting' = waiting \ {w}
  /\ IF last < w[2]
       THEN last' = w[2] /\ UNCHANGED running
       ELSE running' = FALSE /\ UNCHANGED last

NewSequence == running /\ waiting = {} /\ last' = INT_MIN /\ UNCHANGED <<waiting, running>>

Stop == running /\ running' = FALSE /\ UNCHANGED <<waiting, last>>

Next == \/ \E p \in Pictures, n \in Pocs : Store(p, n)
        \/ \E w \in waiting : Write(w)
        \/ NewSequence \/ Stop

Spec == Init /\ [][Next]_vars
=============================================================================
