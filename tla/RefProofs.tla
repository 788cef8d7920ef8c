------------------------------ MODULE RefProofs ------------------------------
EXTENDS RefLists, PicOrder, FiniteSetTheorems, SequenceTheorems, WellFoundedInduction, TLAPS

(* What there are less of below is put first: a finite set in any strict       *)
(* order of its elements, given as a set of pairs.                            *)
LEMMA Ranked ==
  ASSUME NEW S, IsFiniteSet(S), NEW R, R \subseteq S \X S,
         \A x \in S : <<x, x>> \notin R,
         \A x, y \in S : x # y => <<x, y>> \in R \/ <<y, x>> \in R,
         \A x, y, z \in S : <<x, y>> \in R /\ <<y, z>> \in R => <<x, z>> \in R
  PROVE  \E s \in [1 .. Cardinality(S) -> S] :
           \A i, j \in 1 .. Cardinality(S) : i < j => s[i] # s[j] /\ <<s[i], s[j]>> \in R
<1> DEFINE n == Cardinality(S)
           below[x \in S] == {y \in S : <<y, x>> \in R}
           rank == [x \in S |-> Cardinality(below[x]) + 1]
<1>1. n \in Nat
  BY FS_CardinalityType
<1>2. ASSUME NEW x \in S
      PROVE  IsFiniteSet(below[x]) /\ Cardinality(below[x]) \in Nat /\ rank[x] \in 1 .. n
  <2>1. below[x] \in SUBSET S /\ below[x] # S
    OBVIOUS
  <2>2. IsFiniteSet(below[x]) /\ Cardinality(below[x]) <= n /\ Cardinality(below[x]) # n
    BY <2>1, FS_Subset
  <2>3. Cardinality(below[x]) \in Nat
    BY <2>2, FS_CardinalityType
  <2> QED
    BY <1>1, <2>2, <2>3
<1>3. ASSUME NEW x \in S, NEW y \in S, <<x, y>> \in R
      PROVE  rank[x] < rank[y]
  <2>1. below[x] \in SUBSET below[y] /\ x \in below[y] /\ x \notin below[x]
    BY <1>3
  <2>2. IsFiniteSet(below[y]) /\ Cardinality(below[x]) \in Nat /\ Cardinality(below[y]) \in Nat
    BY <1>2
  <2>3. Cardinality(below[x]) <= Cardinality(below[y]) /\ Cardinality(below[x]) # Cardinality(below[y])
    BY <2>1, <2>2, FS_Subset
  <2> QED
    BY <2>2, <2>3
<1>4. rank \in [S -> 1 .. n]
  BY <1>2
<1> HIDE DEF rank, below
<1>5. \A x, y \in S : rank[x] = rank[y] => x = y
  <2> SUFFICES ASSUME NEW x \in S, NEW y \in S, rank[x] = rank[y], x # y
               PROVE  FALSE
    OBVIOUS
  <2>1. rank[x] \in Int /\ rank[y] \in Int
    BY <1>4
  <2>2. <<x, y>> \in R \/ <<y, x>> \in R
    OBVIOUS
  <2> QED
    BY <1>3, <2>1, <2>2
<1>6. rank \in Injection(S, 1 .. n)
  BY <1>4, <1>5 DEF Injection, IsInjective
<1>7. IsFiniteSet(1 .. n) /\ Cardinality(1 .. n) = n
  BY <1>1, FS_Interval
<1>8. rank \in Surjection(S, 1 .. n)
  BY <1>6, <1>7, FS_Injection
<1>9. \A i \in 1 .. n : \E x \in S : rank[x] = i
  BY <1>8 DEF Surjection
<1> DEFINE s == [i \in 1 .. n |-> CHOOSE x \in S : rank[x] = i]
<1>10. s \in [1 .. n -> S] /\ \A i \in 1 .. n : s[i] \in S /\ rank[s[i]] = i
  BY <1>9
<1> HIDE DEF s
<1>11. ASSUME NEW i \in 1 .. n, NEW j \in 1 .. n, i < j
       PROVE  s[i] # s[j] /\ <<s[i], s[j]>> \in R
  <2>1. s[i] \in S /\ s[j] \in S /\ rank[s[i]] = i /\ rank[s[j]] = j
    BY <1>10
  <2>2. s[i] # s[j]
    BY <1>1, <1>11, <2>1
  <2>3. <<s[j], s[i]>> \notin R
    <3>1. ~(rank[s[j]] < rank[s[i]])
      BY <1>1, <1>11, <2>1
    <3> QED
      BY <1>3, <2>1, <3>1
  <2> QED
    BY <2>1, <2>2, <2>3
<1> QED
  BY <1>10, <1>11

(* A set in the order of its keys: each element once.                         *)
LEMMA SortedOnce ==
  ASSUME NEW S, IsFiniteSet(S), NEW key \in [S -> Int]
  PROVE  /\ Cardinality(S) \in Nat
         /\ Sorted(S, key) \in [1 .. Cardinality(S) -> S]
         /\ \A i, j \in 1 .. Cardinality(S) :
              i < j => Sorted(S, key)[i] # Sorted(S, key)[j] /\ key[Sorted(S, key)[i]] <= key[Sorted(S, key)[j]]
         /\ \A x \in S : \E i \in 1 .. Cardinality(S) : Sorted(S, key)[i] = x
<1> DEFINE n == Cardinality(S)
<1>1. n \in Nat /\ ExistsBijection(1 .. n, S)
  BY FS_CardinalityType
<1>2. PICK f \in [1 .. n -> S] : \A x \in S : \E i \in 1 .. n : f[i] = x
  BY <1>1 DEF ExistsBijection, Bijection, Surjection
<1> DEFINE nr == [x \in S |-> CHOOSE i \in 1 .. n : f[i] = x]
<1>3. nr \in [S -> 1 .. n] /\ \A x \in S : f[nr[x]] = x
  BY <1>2
<1>4. \A x, y \in S : nr[x] = nr[y] => x = y
  BY <1>3
<1> HIDE DEF nr
<1> DEFINE R == {p \in S \X S : key[p[1]] < key[p[2]] \/ (key[p[1]] = key[p[2]] /\ nr[p[1]] < nr[p[2]])}
<1>5. \A x, y \in S : <<x, y>> \in R <=> key[x] < key[y] \/ (key[x] = key[y] /\ nr[x] < nr[y])
  OBVIOUS
<1>6. R \subseteq S \X S
  OBVIOUS
<1> HIDE DEF R
<1>7. \A x \in S : key[x] \in Int /\ nr[x] \in Int
  BY <1>1, <1>3
<1>8. \A x \in S : <<x, x>> \notin R
  BY <1>5, <1>7
<1>9. \A x, y \in S : x # y => <<x, y>> \in R \/ <<y, x>> \in R
  BY <1>4, <1>5, <1>7
<1>10. \A x, y, z \in S : <<x, y>> \in R /\ <<y, z>> \in R => <<x, z>> \in R
  BY <1>5, <1>7
<1>11. PICK s \in [1 .. n -> S] : \A i, j \in 1 .. n : i < j => s[i] # s[j] /\ <<s[i], s[j]>> \in R
  BY <1>6, <1>8, <1>9, <1>10, Ranked
<1>12. ASSUME NEW i \in 1 .. n, NEW j \in 1 .. n, i < j
       PROVE  s[i] # s[j] /\ key[s[i]] <= key[s[j]]
  <2>1. s[i] \in S /\ s[j] \in S /\ s[i] # s[j] /\ <<s[i], s[j]>> \in R
    BY <1>11, <1>12
  <2>2. key[s[i]] < key[s[j]] \/ key[s[i]] = key[s[j]]
    BY <1>5, <2>1
  <2>3. key[s[i]] \in Int /\ key[s[j]] \in Int
    BY <1>7, <2>1
  <2> QED
    BY <2>1, <2>2, <2>3
<1> DEFINE t == Sorted(S, key)
<1>17. \E u \in [1 .. n -> S] : \A i, j \in 1 .. n : i < j => u[i] # u[j] /\ key[u[i]] <= key[u[j]]
  BY <1>12
<1>13. t \in [1 .. n -> S] /\ \A i, j \in 1 .. n : i < j => t[i] # t[j] /\ key[t[i]] <= key[t[j]]
  BY <1>17 DEF Sorted
<1> HIDE DEF t
<1>14. \A i, j \in 1 .. n : t[i] = t[j] => i = j
  BY <1>1, <1>13
<1>15. t \in Injection(1 .. n, S) /\ IsFiniteSet(1 .. n) /\ Cardinality(1 .. n) = n
  <2>1. t \in Injection(1 .. n, S)
    BY <1>13, <1>14 DEF Injection, IsInjective
  <2> QED
    BY <1>1, <2>1, FS_Interval
<1>16. t \in Surjection(1 .. n, S)
  BY <1>15, FS_Injection
<1> QED
  BY <1>1, <1>13, <1>16 DEF t, Surjection

-----------------------------------------------------------------------------
(* What Without leaves of a sequence *)

Upto(K, x) == {i \in K : i <= x}
InTurn(K) == Sorted(K, [k \in K |-> k])

LEMMA AtMost ==
  ASSUME NEW n \in Nat, NEW K, \A k \in K : k \in 1 .. n
  PROVE  IsFiniteSet(K) /\ Cardinality(K) \in Nat /\ Cardinality(K) <= n
<1>1. IsFiniteSet(1 .. n) /\ Cardinality(1 .. n) = n
  BY FS_Interval
<1>2. K \in SUBSET (1 .. n)
  OBVIOUS
<1> QED
  BY <1>1, <1>2, FS_Subset, FS_CardinalityType

(* The j-th of a set of numbers in turn is the one up to which there are j.    *)
LEMMA TurnCounted ==
  ASSUME NEW K, IsFiniteSet(K), \A k \in K : k \in Int
  PROVE  /\ Cardinality(K) \in Nat
         /\ InTurn(K) \in [1 .. Cardinality(K) -> K]
         /\ \A i, j \in 1 .. Cardinality(K) : i < j => InTurn(K)[i] < InTurn(K)[j]
         /\ \A j \in 1 .. Cardinality(K) : Cardinality(Upto(K, InTurn(K)[j])) = j
<1> DEFINE c == Cardinality(K)
           at == InTurn(K)
<1>2. c \in Nat
  BY FS_CardinalityType
<1>3. PICK id \in [K -> Int] : id = [k \in K |-> k] /\ \A k \in K : id[k] = k
  <2>1. [k \in K |-> k] \in [K -> Int]
    OBVIOUS
  <2> QED
    BY <2>1
<1>4. /\ at \in [1 .. c -> K]
      /\ \A i, j \in 1 .. c : i < j => at[i] # at[j] /\ id[at[i]] <= id[at[j]]
      /\ \A x \in K : \E i \in 1 .. c : at[i] = x
  <2>1. at = Sorted(K, id)
    BY <1>3 DEF InTurn
  <2> HIDE DEF at, c
  <2>2. /\ Sorted(K, id) \in [1 .. Cardinality(K) -> K]
        /\ \A i, j \in 1 .. Cardinality(K) :
             i < j => Sorted(K, id)[i] # Sorted(K, id)[j] /\ id[Sorted(K, id)[i]] <= id[Sorted(K, id)[j]]
        /\ \A x \in K : \E i \in 1 .. Cardinality(K) : Sorted(K, id)[i] = x
    BY SortedOnce
  <2> QED
    BY <2>1, <2>2 DEF c
<1> HIDE DEF at
<1>5. ASSUME NEW i \in 1 .. c, NEW j \in 1 .. c, i < j PROVE at[i] < at[j]
  <2>1. at[i] \in K /\ at[j] \in K /\ at[i] \in Int /\ at[j] \in Int
    BY <1>4
  <2>2. at[i] # at[j] /\ id[at[i]] <= id[at[j]] /\ id[at[i]] = at[i] /\ id[at[j]] = at[j]
    BY <1>3, <1>4, <1>5, <2>1
  <2> QED
    BY <2>1, <2>2
<1>6. ASSUME NEW j \in 1 .. c PROVE Cardinality(Upto(K, at[j])) = j
  <2> DEFINE f == [i \in 1 .. j |-> at[i]]
             U == Upto(K, at[j])
  <2>1. j \in Nat /\ \A i \in 1 .. j : i \in 1 .. c
    BY <1>2
  <2>2. \A i \in 1 .. j : at[i] \in U
    <3> SUFFICES ASSUME NEW i \in 1 .. j PROVE at[i] \in K /\ at[i] <= at[j]
      BY DEF Upto
    <3>1. at[i] \in K /\ at[i] \in Int /\ at[j] \in Int
      BY <1>4, <2>1
    <3>2. i = j \/ i < j
      BY <2>1
    <3> QED
      BY <1>5, <2>1, <3>1, <3>2
  <2>3. f \in [1 .. j -> U]
    BY <2>2
  <2>4. \A a, b \in 1 .. j : f[a] = f[b] => a = b
    <3> SUFFICES ASSUME NEW a \in 1 .. j, NEW b \in 1 .. j, at[a] = at[b], a # b PROVE FALSE
      OBVIOUS
    <3>1. at[a] \in Int /\ at[b] \in Int /\ (a < b \/ b < a)
      BY <1>4, <2>1
    <3> QED
      BY <1>5, <2>1, <3>1
  <2>5. \A u \in U : \E i \in 1 .. j : f[i] = u
    <3> SUFFICES ASSUME NEW u \in U PROVE \E i \in 1 .. j : at[i] = u
      OBVIOUS
    <3>1. u \in K /\ u <= at[j] /\ u \in Int /\ at[j] \in Int
      BY <1>4 DEF Upto
    <3>2. PICK i \in 1 .. c : at[i] = u
      BY <1>4, <3>1
    <3>3. ~(j < i)
      BY <1>5, <3>1, <3>2
    <3> QED
      BY <2>1, <3>2, <3>3
  <2> HIDE DEF f, U
  <2>6. f \in Bijection(1 .. j, U)
    BY <2>3, <2>4, <2>5 DEF Bijection, Injection, IsInjective, Surjection
  <2>7. Cardinality(U) = j
    BY <2>1, <2>6, FS_CountingElements DEF ExistsBijection
  <2> QED
    BY <2>7 DEF U
<1> QED
  BY <1>2, <1>4, <1>5, <1>6 DEF at

LEMMA UptoOnce ==
  ASSUME NEW K, IsFiniteSet(K), \A k \in K : k \in Int, NEW x \in K, NEW y \in K, x < y
  PROVE  Cardinality(Upto(K, x)) < Cardinality(Upto(K, y))
<1>2. Upto(K, x) \in SUBSET Upto(K, y) /\ y \in Upto(K, y) /\ y \notin Upto(K, x) /\ Upto(K, y) \in SUBSET K
  BY DEF Upto
<1>3. IsFiniteSet(Upto(K, y)) /\ IsFiniteSet(Upto(K, x))
  BY <1>2, FS_Subset
<1>4. Cardinality(Upto(K, y)) \in Nat /\ Cardinality(Upto(K, x)) \in Nat
  BY <1>3, FS_CardinalityType
<1>5. Cardinality(Upto(K, x)) <= Cardinality(Upto(K, y)) /\ Cardinality(Upto(K, x)) # Cardinality(Upto(K, y))
  BY <1>2, <1>3, FS_Subset
<1> QED
  BY <1>4, <1>5

(* The first members in turn are those up to d, and the others come behind.    *)
LEMMA TurnPrefix ==
  ASSUME NEW K, IsFiniteSet(K), \A k \in K : k \in Int, NEW d \in Int
  PROVE  /\ IsFiniteSet(Upto(K, d)) /\ Cardinality(Upto(K, d)) \in Nat
         /\ Cardinality(Upto(K, d)) <= Cardinality(K)
         /\ \A j \in 1 .. Cardinality(Upto(K, d)) :
              InTurn(K)[j] \in Upto(K, d) /\ Cardinality(Upto(Upto(K, d), InTurn(K)[j])) = j
         /\ \A j \in 1 .. Cardinality(K) : j > Cardinality(Upto(K, d)) => InTurn(K)[j] > d
<1> DEFINE C == Upto(K, d)
           c == Cardinality(C)
           at == InTurn(K)
<1>1. C \in SUBSET K /\ \A k \in C : k \in Int /\ k <= d
  BY DEF Upto
<1>2. /\ Cardinality(K) \in Nat /\ at \in [1 .. Cardinality(K) -> K]
      /\ \A j \in 1 .. Cardinality(K) : Cardinality(Upto(K, at[j])) = j
  BY TurnCounted
<1>3. IsFiniteSet(C) /\ c \in Nat /\ c <= Cardinality(K)
  BY <1>1, FS_Subset, FS_CardinalityType
<1> HIDE DEF at
<1>5. ASSUME NEW j \in 1 .. c PROVE at[j] \in C /\ Cardinality(Upto(C, at[j])) = j
  <2>1. j \in 1 .. Cardinality(K) /\ at[j] \in K /\ at[j] \in Int /\ Cardinality(Upto(K, at[j])) = j
    BY <1>2, <1>3
  <2>2. ASSUME d < at[j] PROVE FALSE
    <3>1. C \in SUBSET Upto(K, at[j]) /\ at[j] \in Upto(K, at[j]) /\ at[j] \notin C
      BY <1>1, <2>1, <2>2 DEF Upto
    <3>2. IsFiniteSet(Upto(K, at[j]))
      BY FS_Subset DEF Upto
    <3>3. c <= j /\ c # j
      BY <2>1, <3>1, <3>2, FS_Subset
    <3> QED
      BY <1>3, <3>3
  <2>3. at[j] <= d
    BY <2>1, <2>2
  <2>4. at[j] \in C /\ Upto(C, at[j]) = Upto(K, at[j])
    BY <1>1, <2>1, <2>3 DEF Upto
  <2> QED
    BY <2>1, <2>4
<1>6. ASSUME NEW j \in 1 .. Cardinality(K), j > c PROVE at[j] > d
  <2>1. at[j] \in K /\ at[j] \in Int /\ Cardinality(Upto(K, at[j])) = j
    BY <1>2
  <2>2. ASSUME at[j] <= d PROVE FALSE
    <3>1. Upto(K, at[j]) \in SUBSET C
      BY <1>1, <2>1, <2>2 DEF Upto
    <3>2. j <= c
      BY <1>3, <2>1, <3>1, FS_Subset
    <3> QED
      BY <1>2, <1>3, <1>6, <3>2
  <2> QED
    BY <2>1, <2>2
<1> QED
  BY <1>3, <1>5, <1>6 DEF at

(* Two sets with the same members up to d have the same first members in turn. *)
LEMMA TurnSamePrefix ==
  ASSUME NEW K, IsFiniteSet(K), \A k \in K : k \in Int,
         NEW M, IsFiniteSet(M), \A k \in M : k \in Int,
         NEW d \in Int, Upto(K, d) = Upto(M, d),
         NEW j \in 1 .. Cardinality(Upto(K, d))
  PROVE  InTurn(K)[j] = InTurn(M)[j]
<1> DEFINE C == Upto(K, d)
           x == InTurn(K)[j]
           y == InTurn(M)[j]
<1>1. IsFiniteSet(C) /\ \A k \in C : k \in Int
  BY TurnPrefix DEF Upto
<1>2. x \in C /\ Cardinality(Upto(C, x)) = j
  BY TurnPrefix
<1>3. y \in C /\ Cardinality(Upto(C, y)) = j
  <2>1. j \in 1 .. Cardinality(Upto(M, d))
    OBVIOUS
  <2>2. y \in Upto(M, d) /\ Cardinality(Upto(Upto(M, d), y)) = j
    BY <2>1, TurnPrefix
  <2> QED
    BY <2>2
<1> HIDE DEF C, x, y
<1>4. x \in Int /\ y \in Int /\ j \in Int
  BY <1>1, <1>2, <1>3
<1>5. x < y => Cardinality(Upto(C, x)) < Cardinality(Upto(C, y))
  BY <1>1, <1>2, <1>3, UptoOnce
<1>6. y < x => Cardinality(Upto(C, y)) < Cardinality(Upto(C, x))
  BY <1>1, <1>2, <1>3, UptoOnce
<1> QED
  BY <1>2, <1>3, <1>4, <1>5, <1>6 DEF x, y

Stays(s, gone) == {k \in 1 .. Len(s) : s[k] \notin gone}

LEMMA WithoutLeaves ==
  ASSUME NEW X, NEW s \in Seq(X), NEW gone
  PROVE  /\ IsFiniteSet(Stays(s, gone)) /\ \A k \in Stays(s, gone) : k \in Int
         /\ Cardinality(Stays(s, gone)) \in Nat /\ Cardinality(Stays(s, gone)) <= Len(s)
         /\ Without(s, gone) \in Seq(X) /\ Len(Without(s, gone)) = Cardinality(Stays(s, gone))
         /\ \A j \in 1 .. Cardinality(Stays(s, gone)) :
              /\ InTurn(Stays(s, gone))[j] \in Stays(s, gone)
              /\ Without(s, gone)[j] = s[InTurn(Stays(s, gone))[j]]
<1> DEFINE K == Stays(s, gone)
           c == Cardinality(K)
           w == Without(s, gone)
<1>1. Len(s) \in Nat /\ \A k \in 1 .. Len(s) : s[k] \in X
  BY LenProperties, ElementOfSeq
<1>2. \A k \in K : k \in 1 .. Len(s) /\ k \in Int
  BY <1>1 DEF Stays
<1>3. IsFiniteSet(K) /\ c \in Nat /\ c <= Len(s)
  BY <1>1, <1>2, AtMost
<1>4. InTurn(K) \in [1 .. c -> K]
  BY <1>2, <1>3, TurnCounted
<1>5. w = [j \in 1 .. c |-> s[InTurn(K)[j]]]
  BY DEF Without, InTurn, Stays
<1> HIDE DEF K, c, w
<1>6. \A j \in 1 .. c : InTurn(K)[j] \in K /\ s[InTurn(K)[j]] \in X
  BY <1>1, <1>2, <1>4
<1>7. w \in Seq(X) /\ Len(w) = c /\ \A j \in 1 .. c : w[j] = s[InTurn(K)[j]]
  BY <1>3, <1>5, <1>6
<1> QED
  BY <1>2, <1>3, <1>6, <1>7 DEF K, c, w

(* v and w are the same for as long as w takes its elements from the first d   *)
(* of t, and w takes them in turn.                                            *)
SameFirst(v, w, t, gone, d) ==
  LET c == Cardinality(Upto(Stays(t, gone), d)) IN
  /\ c \in Nat /\ c <= Len(v) /\ c <= Len(w)
  /\ \A j \in 1 .. c : v[j] = w[j]
  /\ \A j \in 1 .. c : \E k \in 1 .. d : t[k] \notin gone /\ w[j] = t[k]
  /\ \A i, j \in 1 .. c : i < j =>
       \E k, l \in 1 .. d : k < l /\ t[k] \notin gone /\ t[l] \notin gone /\ w[i] = t[k] /\ w[j] = t[l]
  /\ \A j \in 1 .. Len(w) : j > c => \E k \in d + 1 .. Len(t) : w[j] = t[k]

(* Where two sequences agree at first, so does what is left of them.           *)
LEMMA WithoutSame ==
  ASSUME NEW X, NEW s \in Seq(X), NEW t \in Seq(X), NEW goneS, NEW goneT,
         NEW d \in Nat, d <= Len(s), d <= Len(t),
         \A k \in 1 .. d : s[k] = t[k] /\ (s[k] \in goneS <=> t[k] \in goneT)
  PROVE  SameFirst(Without(s, goneS), Without(t, goneT), t, goneT, d)
<1> DEFINE K == Stays(s, goneS)
           M == Stays(t, goneT)
           C == Upto(M, d)
           c == Cardinality(C)
           v == Without(s, goneS)
           w == Without(t, goneT)
<1>1. /\ IsFiniteSet(K) /\ (\A k \in K : k \in Int) /\ Cardinality(K) \in Nat /\ Len(v) = Cardinality(K)
      /\ \A j \in 1 .. Cardinality(K) : v[j] = s[InTurn(K)[j]]
  BY WithoutLeaves
<1>2. /\ IsFiniteSet(M) /\ (\A k \in M : k \in Int) /\ Cardinality(M) \in Nat /\ Len(w) = Cardinality(M)
      /\ \A j \in 1 .. Cardinality(M) : InTurn(M)[j] \in M /\ w[j] = t[InTurn(M)[j]]
  BY WithoutLeaves
<1>3. Len(s) \in Nat /\ Len(t) \in Nat
  BY LenProperties
<1>4. \A k : k \in C <=> k \in 1 .. d /\ t[k] \notin goneT
  BY <1>3 DEF Stays, Upto
<1>5. \A k : k \in Upto(K, d) <=> k \in 1 .. d /\ s[k] \notin goneS
  BY <1>3 DEF Stays, Upto
<1>6. Upto(K, d) = C
  BY <1>4, <1>5
<1>7. /\ c \in Nat /\ c <= Cardinality(M) /\ \A j \in 1 .. c : InTurn(M)[j] \in C
      /\ \A j \in 1 .. Cardinality(M) : j > c => InTurn(M)[j] > d
  <2>1. IsFiniteSet(M) /\ (\A k \in M : k \in Int) /\ d \in Int
    BY <1>2
  <2> HIDE DEF M
  <2> QED
    BY <2>1, TurnPrefix
<1>8. c <= Cardinality(K)
  BY <1>1, <1>6, TurnPrefix
<1>9. \A j \in 1 .. c : InTurn(K)[j] = InTurn(M)[j]
  BY <1>1, <1>2, <1>6, TurnSamePrefix
<1>10. \A i, j \in 1 .. Cardinality(M) : i < j => InTurn(M)[i] < InTurn(M)[j]
  BY <1>2, TurnCounted
<1>11. \A j \in 1 .. Cardinality(M) : InTurn(M)[j] \in 1 .. Len(t)
  BY <1>2 DEF Stays
<1> HIDE DEF K, M, C, c, v, w
<1>12. \A j \in 1 .. c : j \in 1 .. Cardinality(K) /\ j \in 1 .. Cardinality(M)
  BY <1>1, <1>2, <1>7, <1>8
<1>13. ASSUME NEW j \in 1 .. c
       PROVE  /\ v[j] = w[j]
              /\ InTurn(M)[j] \in 1 .. d /\ t[InTurn(M)[j]] \notin goneT /\ w[j] = t[InTurn(M)[j]]
  <2>1. InTurn(M)[j] \in 1 .. d /\ t[InTurn(M)[j]] \notin goneT /\ w[j] = t[InTurn(M)[j]]
    BY <1>2, <1>4, <1>7, <1>12
  <2>2. v[j] = s[InTurn(M)[j]]
    BY <1>1, <1>9, <1>12
  <2> QED
    BY <2>1, <2>2
<1>14. ASSUME NEW i \in 1 .. c, NEW j \in 1 .. c, i < j
       PROVE  \E k, l \in 1 .. d : k < l /\ t[k] \notin goneT /\ t[l] \notin goneT /\ w[i] = t[k] /\ w[j] = t[l]
  BY <1>10, <1>12, <1>13, <1>14
<1>15. ASSUME NEW j \in 1 .. Len(w), j > c
       PROVE  \E k \in d + 1 .. Len(t) : w[j] = t[k]
  <2>1. InTurn(M)[j] \in d + 1 .. Len(t) /\ w[j] = t[InTurn(M)[j]]
    BY <1>2, <1>3, <1>7, <1>11, <1>15
  <2> QED
    BY <2>1
<1> QED
  <2>1. /\ c \in Nat /\ c <= Len(v) /\ c <= Len(w)
        /\ \A j \in 1 .. c : v[j] = w[j]
        /\ \A j \in 1 .. c : \E k \in 1 .. d : t[k] \notin goneT /\ w[j] = t[k]
        /\ \A i, j \in 1 .. c : i < j =>
             \E k, l \in 1 .. d : k < l /\ t[k] \notin goneT /\ t[l] \notin goneT /\ w[i] = t[k] /\ w[j] = t[l]
        /\ \A j \in 1 .. Len(w) : j > c => \E k \in d + 1 .. Len(t) : w[j] = t[k]
    BY <1>1, <1>2, <1>7, <1>8, <1>13, <1>14, <1>15
  <2> QED
    BY <2>1, Zenon DEF K, M, C, c, v, w, SameFirst

-----------------------------------------------------------------------------
(* The lists before the commands: every reference once *)

EachOnce(q, S) ==
  q \in Seq(S) /\ Len(q) = Cardinality(S) /\ \A i, j \in 1 .. Len(q) : q[i] = q[j] => i = j

LEMMA SortedEachOnce ==
  ASSUME NEW S, IsFiniteSet(S), NEW key \in [S -> Int]
  PROVE  EachOnce(Sorted(S, key), S)
<1> DEFINE n == Cardinality(S)
           t == Sorted(S, key)
<1>1. n \in Nat /\ t \in [1 .. n -> S] /\ \A i, j \in 1 .. n : i < j => t[i] # t[j]
  BY SortedOnce
<1> HIDE DEF n, t
<1>2. t \in Seq(S) /\ Len(t) = n
  BY <1>1
<1>3. \A i, j \in 1 .. n : t[i] = t[j] => i = j
  BY <1>1
<1> QED
  BY <1>2, <1>3 DEF EachOnce, n, t

LEMMA JoinedEachOnce ==
  ASSUME NEW A, IsFiniteSet(A), NEW B, IsFiniteSet(B), A \cap B = {},
         NEW q, EachOnce(q, A), NEW r, EachOnce(r, B)
  PROVE  EachOnce(q \o r, A \cup B) /\ IsFiniteSet(A \cup B)
<1>1. /\ q \in Seq(A) /\ r \in Seq(B) /\ Len(q) \in Nat /\ Len(r) \in Nat
      /\ (\A i \in 1 .. Len(q) : q[i] \in A) /\ (\A i \in 1 .. Len(r) : r[i] \in B)
  BY LenProperties, ElementOfSeq DEF EachOnce
<1>2. IsFiniteSet(A \cup B) /\ Cardinality(A \cup B) = Cardinality(A) + Cardinality(B)
  <2>1. Cardinality(A) \in Nat /\ Cardinality(B) \in Nat
    BY FS_CardinalityType
  <2>2. Cardinality(A \cap B) = 0
    BY FS_EmptySet
  <2>3. IsFiniteSet(A \cup B) /\ Cardinality(A \cup B) = Cardinality(A) + Cardinality(B) - Cardinality(A \cap B)
    BY FS_Union
  <2> QED
    BY <2>1, <2>2, <2>3
<1>3. q \in Seq(A \cup B) /\ r \in Seq(A \cup B)
  <2>1. \A i \in 1 .. Len(q) : q[i] \in A \cup B
    BY <1>1
  <2>2. \A i \in 1 .. Len(r) : r[i] \in A \cup B
    BY <1>1
  <2>3. q \in [1 .. Len(q) -> A \cup B] /\ r \in [1 .. Len(r) -> A \cup B]
    BY <1>1, <2>1, <2>2, LenProperties
  <2> QED
    BY <1>1, <2>3
<1> DEFINE c == q \o r
<1>4. /\ c \in Seq(A \cup B) /\ Len(c) = Len(q) + Len(r)
      /\ \A i \in 1 .. Len(q) + Len(r) : c[i] = IF i <= Len(q) THEN q[i] ELSE r[i - Len(q)]
  BY <1>3, ConcatProperties
<1> HIDE DEF c
<1>5. ASSUME NEW i \in 1 .. Len(c), NEW j \in 1 .. Len(c), c[i] = c[j] PROVE i = j
  <2>1. \A k \in 1 .. Len(c) : \/ k \in 1 .. Len(q) /\ c[k] = q[k] /\ q[k] \in A
                               \/ k - Len(q) \in 1 .. Len(r) /\ c[k] = r[k - Len(q)] /\ r[k - Len(q)] \in B
    <3> SUFFICES ASSUME NEW k \in 1 .. Len(c)
                 PROVE  \/ k \in 1 .. Len(q) /\ c[k] = q[k] /\ q[k] \in A
                        \/ k - Len(q) \in 1 .. Len(r) /\ c[k] = r[k - Len(q)] /\ r[k - Len(q)] \in B
      OBVIOUS
    <3>1. k <= Len(q) => k \in 1 .. Len(q)
      BY <1>1, <1>4
    <3>2. ~(k <= Len(q)) => k - Len(q) \in 1 .. Len(r)
      BY <1>1, <1>4
    <3> QED
      BY <1>1, <1>4, <3>1, <3>2
  <2>2. CASE i \in 1 .. Len(q) /\ c[i] = q[i] /\ q[i] \in A
    <3>1. j \in 1 .. Len(q) /\ c[j] = q[j]
      BY <1>5, <2>1, <2>2
    <3> QED
      BY <1>5, <2>2, <3>1 DEF EachOnce
  <2>3. CASE i - Len(q) \in 1 .. Len(r) /\ c[i] = r[i - Len(q)] /\ r[i - Len(q)] \in B
    <3>1. j - Len(q) \in 1 .. Len(r) /\ c[j] = r[j - Len(q)]
      BY <1>5, <2>1, <2>3
    <3>2. i - Len(q) = j - Len(q)
      BY <1>5, <2>3, <3>1 DEF EachOnce
    <3> QED
      BY <1>1, <1>4, <3>2
  <2> QED
    BY <2>1, <2>2, <2>3
<1> QED
  BY <1>2, <1>4, <1>5 DEF c, EachOnce

LEMMA SwappedEachOnce ==
  ASSUME NEW S, NEW q, EachOnce(q, S), Len(q) > 1
  PROVE  LET w == <<q[2], q[1]>> \o SubSeq(q, 3, Len(q))
         IN  EachOnce(w, S) /\ w[1] = q[2]
<1> DEFINE n == Len(q)
           u == <<q[2], q[1]>>
           v == SubSeq(q, 3, n)
           w == u \o v
<1>1. /\ q \in Seq(S) /\ n \in Nat /\ n > 1
      /\ (\A i \in 1 .. n : q[i] \in S) /\ (\A i, j \in 1 .. n : q[i] = q[j] => i = j)
  BY LenProperties, ElementOfSeq DEF EachOnce
<1>2. u \in Seq(S) /\ Len(u) = 2 /\ u[1] = q[2] /\ u[2] = q[1]
  BY <1>1
<1> HIDE DEF n
<1>3. v \in Seq(S) /\ Len(v) = n - 2 /\ \A i \in 1 .. n - 2 : v[i] = q[i + 2]
  <2>2. v = [i \in 1 .. (n - 3 + 1) |-> q[i + 3 - 1]]
    BY <1>1 DEF SubSeq
  <2>3. v = [i \in 1 .. (n - 2) |-> q[i + 2]]
    <3>1. n - 3 + 1 = n - 2 /\ \A i \in 1 .. (n - 2) : i + 3 - 1 = i + 2
      BY <1>1
    <3> QED
      BY <2>2, <3>1
  <2> HIDE DEF v
  <2>4. \A i \in 1 .. n - 2 : i + 2 \in 1 .. n
    BY <1>1
  <2>5. \A i \in 1 .. n - 2 : q[i + 2] \in S
    BY <1>1, <2>4
  <2> QED
    BY <1>1, <2>3, <2>5
<1> HIDE DEF u, v
<1>4. /\ w \in Seq(S) /\ Len(w) = n
      /\ \A i \in 1 .. n : w[i] = IF i <= 2 THEN u[i] ELSE v[i - 2]
  <2>1. /\ w \in Seq(S) /\ Len(w) = Len(u) + Len(v)
        /\ \A i \in 1 .. Len(u) + Len(v) : w[i] = IF i <= Len(u) THEN u[i] ELSE v[i - Len(u)]
    <3>1. u \in Seq(S) /\ v \in Seq(S)
      BY <1>2, <1>3
    <3> QED
      BY <3>1, ConcatProperties
  <2>2. Len(u) = 2 /\ Len(u) + Len(v) = n
    BY <1>1, <1>2, <1>3
  <2> HIDE DEF w
  <2> QED
    BY <2>1, <2>2
<1> HIDE DEF w
<1> DEFINE at == [i \in 1 .. n |-> CASE i = 1 -> 2 [] i = 2 -> 1 [] OTHER -> i]
<1>5. \A i \in 1 .. n : at[i] \in 1 .. n /\ w[i] = q[at[i]]
  <2> SUFFICES ASSUME NEW i \in 1 .. n PROVE at[i] \in 1 .. n /\ w[i] = q[at[i]]
    OBVIOUS
  <2>1. CASE i = 1
    BY <1>1, <1>2, <1>4, <2>1
  <2>2. CASE i = 2
    BY <1>1, <1>2, <1>4, <2>2
  <2>3. CASE i > 2
    <3>1. i - 2 \in 1 .. n - 2 /\ (i - 2) + 2 = i
      BY <1>1, <2>3
    <3> QED
      BY <1>1, <1>3, <1>4, <2>3, <3>1
  <2> QED
    BY <2>1, <2>2, <2>3
<1>6. \A i, j \in 1 .. n : at[i] = at[j] => i = j
  BY <1>1
<1> HIDE DEF at
<1>7. \A i, j \in 1 .. n : w[i] = w[j] => i = j
  BY <1>1, <1>5, <1>6
<1>8. w[1] = q[2]
  BY <1>1, <1>2, <1>4
<1> QED
  BY <1>4, <1>7, <1>8 DEF EachOnce, w, u, v, n
LEMMA SliceTyped ==
  ASSUME NEW s \in Slices
  PROVE  /\ s.type \in {"I", "P", "B"} /\ s.frame_num \in Int /\ 0 <= s.frame_num /\ s.frame_num < MaxPicNum
         /\ MaxPicNum \in Int /\ MaxPicNum > 0 /\ MaxListSize \in Int
         /\ s.poc \in Int /\ s.active \in Int /\ 1 <= s.active /\ s.active < MaxListSize
         /\ IsFiniteSet(s.refs) /\ Cardinality(s.refs) \in Nat
         /\ \A p \in s.refs : p.long \in BOOLEAN /\ p.num \in Int /\ 0 <= p.num /\ p.poc \in Int
         /\ \A p \in s.refs : ~p.long => p.num < MaxPicNum /\ p.poc # s.poc
         /\ \A p, q \in s.refs : p.long = q.long /\ p.num = q.num => p = q
         /\ NoRef \notin s.refs
<1>1. /\ s.type \in {"I", "P", "B"} /\ s.frame_num \in 0 .. MaxPicNum - 1 /\ s.poc \in Int
      /\ s.active \in 1 .. MaxListSize - 1 /\ IsFiniteSet(s.refs) /\ MaxPicNum \in Nat \ {0} /\ MaxListSize \in Nat
      /\ \A p \in s.refs :
            /\ p \in [long : BOOLEAN, num : Nat, poc : Int]
            /\ ~p.long => p.num < MaxPicNum /\ p.poc # s.poc
            /\ \A q \in s.refs : p.long = q.long /\ p.num = q.num => p = q
  BY RefListsAssumption
<1>2. Cardinality(s.refs) \in Nat
  BY <1>1, FS_CardinalityType
<1>3. \A p \in s.refs : p.long \in BOOLEAN /\ p.num \in Nat /\ p.poc \in Int
  BY <1>1
<1>4. NoRef \notin s.refs
  BY <1>1 DEF NoRef
<1> QED
  BY <1>1, <1>2, <1>3, <1>4

LEMMA InitialOnce ==
  ASSUME NEW s \in Slices, s.type # "I"
  PROVE  /\ EachOnce(InitialList(s, 0), s.refs)
         /\ s.type = "B" => /\ EachOnce(InitialList(s, 1), s.refs)
                            /\ Cardinality(s.refs) > 1 => InitialList(s, 0)[1] # InitialList(s, 1)[1]
<1>1. /\ s.type \in {"I", "P", "B"} /\ s.frame_num \in Int /\ MaxPicNum \in Int /\ s.poc \in Int
      /\ IsFiniteSet(s.refs) /\ Cardinality(s.refs) \in Nat
      /\ \A p \in s.refs : p.num \in Int /\ p.poc \in Int
      /\ \A p \in Short(s) : p.poc # s.poc
  BY SliceTyped DEF Short
<1>2. /\ Short(s) \in SUBSET s.refs /\ Long(s) \in SUBSET s.refs /\ Short(s) \cup Long(s) = s.refs
      /\ Short(s) \cap Long(s) = {}
  BY DEF Short, Long
<1>3. /\ ShortBefore(s) \in SUBSET s.refs /\ ShortAfter(s) \in SUBSET s.refs
      /\ ShortBefore(s) \cup ShortAfter(s) = Short(s) /\ ShortBefore(s) \cap ShortAfter(s) = {}
  BY <1>1, <1>2 DEF ShortBefore, ShortAfter
<1>4. /\ IsFiniteSet(Short(s)) /\ IsFiniteSet(Long(s)) /\ IsFiniteSet(ShortBefore(s)) /\ IsFiniteSet(ShortAfter(s))
  BY <1>1, <1>2, <1>3, FS_Subset
<1>5. EachOnce(ByPicNum(s), Short(s))
  <2>1. \A p \in Short(s) : -pic_num(s, p) \in Int
    BY <1>1, <1>2 DEF pic_num
  <2>2. [p \in Short(s) |-> -pic_num(s, p)] \in [Short(s) -> Int]
    BY <2>1
  <2> QED
    BY <1>4, <2>2, SortedEachOnce DEF ByPicNum
<1>6. EachOnce(ByLongIdx(s), Long(s))
  <2>1. [p \in Long(s) |-> p.num] \in [Long(s) -> Int]
    BY <1>1, <1>2
  <2> QED
    BY <1>4, <2>1, SortedEachOnce DEF ByLongIdx
<1>7. EachOnce(Before(s), ShortBefore(s))
  <2>1. [p \in ShortBefore(s) |-> -p.poc] \in [ShortBefore(s) -> Int]
    BY <1>1, <1>3
  <2> QED
    BY <1>4, <2>1, SortedEachOnce DEF Before
<1>8. EachOnce(After(s), ShortAfter(s))
  <2>1. [p \in ShortAfter(s) |-> p.poc] \in [ShortAfter(s) -> Int]
    BY <1>1, <1>3
  <2> QED
    BY <1>4, <2>1, SortedEachOnce DEF After
<1>9. EachOnce(ByPicNum(s) \o ByLongIdx(s), s.refs)
  <2>1. EachOnce(ByPicNum(s) \o ByLongIdx(s), Short(s) \cup Long(s))
    BY <1>2, <1>4, <1>5, <1>6, JoinedEachOnce
  <2> QED
    BY <1>2, <2>1
<1> DEFINE l0 == Before(s) \o After(s) \o ByLongIdx(s)
           l1 == After(s) \o Before(s) \o ByLongIdx(s)
<1>10. EachOnce(Before(s) \o After(s), Short(s)) /\ EachOnce(After(s) \o Before(s), Short(s))
  <2>1. EachOnce(Before(s) \o After(s), ShortBefore(s) \cup ShortAfter(s))
    BY <1>3, <1>4, <1>7, <1>8, JoinedEachOnce
  <2>2. ShortAfter(s) \cap ShortBefore(s) = {} /\ ShortAfter(s) \cup ShortBefore(s) = Short(s)
    BY <1>3
  <2>3. EachOnce(After(s) \o Before(s), ShortAfter(s) \cup ShortBefore(s))
    BY <1>4, <1>7, <1>8, <2>2, JoinedEachOnce
  <2> QED
    BY <1>3, <2>1, <2>2, <2>3
<1>11. EachOnce(l0, s.refs) /\ EachOnce(l1, s.refs)
  <2> DEFINE ab == Before(s) \o After(s)
             ba == After(s) \o Before(s)
  <2>1. EachOnce(ab, Short(s)) /\ EachOnce(ba, Short(s))
    BY <1>10
  <2> HIDE DEF ab, ba
  <2>2. EachOnce(ab \o ByLongIdx(s), Short(s) \cup Long(s)) /\ EachOnce(ba \o ByLongIdx(s), Short(s) \cup Long(s))
    BY <1>2, <1>4, <1>6, <2>1, JoinedEachOnce
  <2> QED
    BY <1>2, <2>2 DEF ab, ba
<1>12. ASSUME ShortBefore(s) # {}, ShortAfter(s) # {} PROVE l0[1] # l1[1]
  <2>1. /\ Before(s) \in Seq(ShortBefore(s)) /\ After(s) \in Seq(ShortAfter(s)) /\ ByLongIdx(s) \in Seq(Long(s))
        /\ Len(Before(s)) = Cardinality(ShortBefore(s)) /\ Len(After(s)) = Cardinality(ShortAfter(s))
    BY <1>6, <1>7, <1>8 DEF EachOnce
  <2>2. /\ Cardinality(ShortBefore(s)) \in Nat /\ Cardinality(ShortAfter(s)) \in Nat
        /\ Cardinality(ShortBefore(s)) # 0 /\ Cardinality(ShortAfter(s)) # 0
    BY <1>4, <1>12, FS_CardinalityType, FS_EmptySet
  <2>3. 1 \in 1 .. Len(Before(s)) /\ 1 \in 1 .. Len(After(s)) /\ Len(Before(s)) \in Nat /\ Len(After(s)) \in Nat
    BY <2>1, <2>2
  <2>4. Before(s)[1] \in ShortBefore(s) /\ After(s)[1] \in ShortAfter(s)
    BY <2>1, <2>3, ElementOfSeq
  <2>5. l0[1] = Before(s)[1] /\ l1[1] = After(s)[1]
    <3> DEFINE U == ShortBefore(s) \cup ShortAfter(s) \cup Long(s)
               a == Before(s)
               b == After(s)
               c == ByLongIdx(s)
    <3>1. a \in Seq(U) /\ b \in Seq(U) /\ c \in Seq(U)
      BY <2>1
    <3> HIDE DEF U, a, b, c
    <3>2. /\ a \o b \in Seq(U) /\ b \o a \in Seq(U) /\ Len(a \o b) = Len(a) + Len(b) /\ Len(b \o a) = Len(b) + Len(a)
          /\ \A i \in 1 .. Len(a) + Len(b) : (a \o b)[i] = IF i <= Len(a) THEN a[i] ELSE b[i - Len(a)]
          /\ \A i \in 1 .. Len(b) + Len(a) : (b \o a)[i] = IF i <= Len(b) THEN b[i] ELSE a[i - Len(b)]
      BY <3>1, ConcatProperties
    <3>3. 1 \in 1 .. Len(a) + Len(b) /\ 1 \in 1 .. Len(b) + Len(a) /\ 1 <= Len(a) /\ 1 <= Len(b) /\ Len(c) \in Nat
      BY <2>3, <3>1, LenProperties DEF a, b
    <3>4. (a \o b)[1] = a[1] /\ (b \o a)[1] = b[1]
      BY <3>2, <3>3
    <3> DEFINE x == a \o b
               y == b \o a
    <3>5. x \in Seq(U) /\ y \in Seq(U) /\ 1 <= Len(x) /\ 1 <= Len(y) /\ Len(x) \in Nat /\ Len(y) \in Nat
      BY <3>2, <3>3, LenProperties
    <3> HIDE DEF x, y
    <3>6. /\ \A i \in 1 .. Len(x) + Len(c) : (x \o c)[i] = IF i <= Len(x) THEN x[i] ELSE c[i - Len(x)]
          /\ \A i \in 1 .. Len(y) + Len(c) : (y \o c)[i] = IF i <= Len(y) THEN y[i] ELSE c[i - Len(y)]
      BY <3>1, <3>5, ConcatProperties
    <3>7. 1 \in 1 .. Len(x) + Len(c) /\ 1 \in 1 .. Len(y) + Len(c)
      BY <3>3, <3>5
    <3>8. (x \o c)[1] = x[1] /\ (y \o c)[1] = y[1]
      BY <3>5, <3>6, <3>7
    <3> QED
      BY <3>4, <3>8 DEF x, y, a, b, c
  <2> HIDE DEF l0, l1
  <2> QED
    BY <1>3, <2>4, <2>5
<1>13. ASSUME ShortBefore(s) = {} \/ ShortAfter(s) = {} PROVE l0 = l1
  <2>1. ASSUME NEW q, EachOnce(q, {}) PROVE q = <<>>
    <3>1. q \in Seq({}) /\ Len(q) = 0
      BY <2>1, FS_EmptySet DEF EachOnce
    <3> QED
      BY <3>1, EmptySeq
  <2>2. Before(s) \in Seq(ShortBefore(s)) /\ After(s) \in Seq(ShortAfter(s))
    BY <1>7, <1>8 DEF EachOnce
  <2>3. CASE ShortBefore(s) = {}
    <3>1. Before(s) = <<>>
      BY <1>7, <2>1, <2>3
    <3>2. Before(s) \o After(s) = After(s) /\ After(s) \o Before(s) = After(s)
      BY <2>2, <3>1, ConcatEmptySeq
    <3> QED
      BY <3>2
  <2>4. CASE ShortAfter(s) = {}
    <3>1. After(s) = <<>>
      BY <1>8, <2>1, <2>4
    <3>2. Before(s) \o After(s) = Before(s) /\ After(s) \o Before(s) = Before(s)
      BY <2>2, <3>1, ConcatEmptySeq
    <3> QED
      BY <3>2
  <2> QED
    BY <1>13, <2>3, <2>4
<1>14. ASSUME s.type = "B" PROVE InitialList(s, 0) = l0 /\ InitialList(s, 1) = SwapIfSame(l0, l1)
  BY <1>14 DEF InitialList
<1>15. ASSUME s.type = "P" PROVE InitialList(s, 0) = ByPicNum(s) \o ByLongIdx(s)
  BY <1>15 DEF InitialList
<1> HIDE DEF l0, l1
<1>16. Len(l1) = Cardinality(s.refs)
  BY <1>11 DEF EachOnce
<1>17. ASSUME l0 = l1, Len(l1) > 1
       PROVE  EachOnce(SwapIfSame(l0, l1), s.refs) /\ SwapIfSame(l0, l1)[1] # l0[1]
  <2>1. SwapIfSame(l0, l1) = <<l1[2], l1[1]>> \o SubSeq(l1, 3, Len(l1))
    BY <1>17 DEF SwapIfSame
  <2>2. EachOnce(SwapIfSame(l0, l1), s.refs) /\ SwapIfSame(l0, l1)[1] = l1[2]
    BY <1>11, <1>17, <2>1, SwappedEachOnce
  <2>3. l1[1] # l1[2]
    <3>1. 1 \in 1 .. Len(l1) /\ 2 \in 1 .. Len(l1)
      BY <1>1, <1>16, <1>17
    <3> QED
      BY <1>11, <3>1 DEF EachOnce
  <2> QED
    BY <1>17, <2>2, <2>3
<1>18. ASSUME ~(l0 = l1 /\ Len(l1) > 1)
       PROVE  SwapIfSame(l0, l1) = l1
  BY <1>18 DEF SwapIfSame
<1>19. CASE s.type = "P"
  BY <1>9, <1>15, <1>19
<1>20. CASE s.type = "B"
  <2>1. EachOnce(SwapIfSame(l0, l1), s.refs)
    BY <1>11, <1>17, <1>18
  <2>2. Cardinality(s.refs) > 1 => SwapIfSame(l0, l1)[1] # l0[1]
    BY <1>12, <1>13, <1>16, <1>17, <1>18
  <2> QED
    BY <1>11, <1>14, <1>20, <2>1, <2>2
<1> QED
  BY <1>1, <1>19, <1>20
-----------------------------------------------------------------------------
(* One command *)

(* The first m entries are those the standard wants, it wants none behind      *)
(* them, and those that can still be put to the front are in the list once.    *)
Agree(L, W, r, a, m) ==
  /\ m \in r .. a
  /\ \A i \in 1 .. m : L[i - 1] = W[i] /\ W[i] # NoRef
  /\ \A i \in m + 1 .. a : W[i] = NoRef
  /\ \A i, j \in r + 1 .. m : W[i] = W[j] => i = j
Moved(W, r, a, p) ==
  LET rest == Without(SubSeq(W, r + 1, Len(W)), {p})
      all == SubSeq(W, 1, r) \o <<p>> \o rest
  IN  [i \in 1 .. a |-> IF i <= Len(all) THEN all[i] ELSE NoRef]

LEMMA AllButOne ==
  ASSUME NEW d \in Nat, NEW C, IsFiniteSet(C), \A k \in C : k \in 1 .. d,
         \A k, l \in 1 .. d : k \notin C /\ l \notin C => k = l
  PROVE  Cardinality(C) \in Nat /\ d - 1 <= Cardinality(C)
<1>1. Cardinality(C) \in Nat
  BY FS_CardinalityType
<1>2. IsFiniteSet(1 .. d) /\ Cardinality(1 .. d) = d
  BY FS_Interval
<1>3. CASE \E k \in 1 .. d : k \notin C
  <2>1. PICK k \in 1 .. d : k \notin C
    BY <1>3
  <2>2. C = (1 .. d) \ {k}
    BY <2>1
  <2>3. Cardinality((1 .. d) \ {k}) = d - 1
    BY <1>2, FS_RemoveElement
  <2> QED
    BY <1>1, <2>2, <2>3
<1>4. CASE \A k \in 1 .. d : k \in C
  <2>1. C = 1 .. d
    BY <1>4
  <2> QED
    BY <1>1, <1>2, <2>1
<1> QED
  BY <1>3, <1>4

LEMMA FrontOf ==
  ASSUME NEW R, NEW a \in Nat, NEW W \in [1 .. a -> R], NEW r \in Nat, r < a, NEW p \in R,
         NEW rest \in Seq(R)
  PROVE  LET all == SubSeq(W, 1, r) \o <<p>> \o rest IN
         /\ all \in Seq(R) /\ Len(all) = r + 1 + Len(rest)
         /\ \A i \in 1 .. r : all[i] = W[i]
         /\ all[r + 1] = p
         /\ \A j \in 1 .. Len(rest) : all[r + 1 + j] = rest[j]
<1> DEFINE f == SubSeq(W, 1, r)
           g == f \o <<p>>
           all == g \o rest
<1>1. f \in Seq(R) /\ Len(f) = r /\ \A i \in 1 .. r : f[i] = W[i]
  <2>1. f = [i \in 1 .. (r - 1 + 1) |-> W[i + 1 - 1]]
    BY DEF SubSeq
  <2>2. f = [i \in 1 .. r |-> W[i]]
    <3>1. r - 1 + 1 = r /\ \A i \in 1 .. r : i + 1 - 1 = i
      OBVIOUS
    <3> QED
      BY <2>1, <3>1
  <2> HIDE DEF f
  <2>3. \A i \in 1 .. r : W[i] \in R
    OBVIOUS
  <2> QED
    BY <2>2, <2>3
<1> HIDE DEF f
<1>2. <<p>> \in Seq(R) /\ Len(<<p>>) = 1 /\ <<p>>[1] = p
  OBVIOUS
<1>3. g \in Seq(R) /\ Len(g) = r + 1 /\ (\A i \in 1 .. r : g[i] = W[i]) /\ g[r + 1] = p
  <2>1. /\ g \in Seq(R) /\ Len(g) = Len(f) + Len(<<p>>)
        /\ \A i \in 1 .. Len(f) + Len(<<p>>) : g[i] = IF i <= Len(f) THEN f[i] ELSE <<p>>[i - Len(f)]
    BY <1>1, <1>2, ConcatProperties
  <2> HIDE DEF g
  <2>2. /\ \A i \in 1 .. r : i \in 1 .. Len(f) + Len(<<p>>) /\ i <= Len(f)
        /\ r + 1 \in 1 .. Len(f) + Len(<<p>>) /\ ~(r + 1 <= Len(f)) /\ r + 1 - Len(f) = 1
    BY <1>1, <1>2
  <2> QED
    BY <1>1, <1>2, <2>1, <2>2
<1> HIDE DEF g
<1>4. Len(rest) \in Nat
  BY LenProperties
<1>5. /\ all \in Seq(R) /\ Len(all) = Len(g) + Len(rest)
      /\ \A i \in 1 .. Len(g) + Len(rest) : all[i] = IF i <= Len(g) THEN g[i] ELSE rest[i - Len(g)]
  BY <1>3, ConcatProperties
<1> HIDE DEF all
<1>6. /\ \A i \in 1 .. r + 1 : i \in 1 .. Len(g) + Len(rest) /\ i <= Len(g)
      /\ \A j \in 1 .. Len(rest) : r + 1 + j \in 1 .. Len(g) + Len(rest) /\ ~(r + 1 + j <= Len(g)) /\ r + 1 + j - Len(g) = j
  BY <1>3, <1>4
<1>7. (\A i \in 1 .. r : all[i] = W[i]) /\ all[r + 1] = p
  <2>1. \A i \in 1 .. r + 1 : all[i] = g[i]
    BY <1>5, <1>6
  <2>2. \A i \in 1 .. r : i \in 1 .. r + 1
    OBVIOUS
  <2>3. r + 1 \in 1 .. r + 1
    OBVIOUS
  <2> QED
    BY <1>3, <2>1, <2>2, <2>3
<1>8. \A j \in 1 .. Len(rest) : all[r + 1 + j] = rest[j]
  BY <1>5, <1>6
<1> QED
  BY <1>3, <1>5, <1>7, <1>8 DEF all, g, f
LEMMA MovedAgree ==
  ASSUME NEW R, NoRef \in R, MaxListSize \in Nat, NEW a \in Nat, a < MaxListSize,
         NEW L \in [Indices -> R], NEW W \in [1 .. a -> R], NEW r \in Nat, r < a, NEW m, Agree(L, W, r, a, m),
         NEW p \in R, p # NoRef, NEW gone, p \in gone, \A x \in gone : x = p \/ x = NoRef
  PROVE  LET L2 == CloseUp(ShiftIn(L, r, a, p), r, a, gone)
             W2 == Moved(W, r, a, p)
         IN  /\ L2 \in [Indices -> R] /\ W2 \in [1 .. a -> R]
             /\ \E m2 : Agree(L2, W2, r + 1, a, m2) /\ (m = a => m2 = a)
<1> DEFINE S == ShiftIn(L, r, a, p)
           T == [k \in 1 .. a - r |-> S[r + k]]
           U == SubSeq(W, r + 1, Len(W))
           d == m - r
           kept == Without(T, gone)
           rest == Without(U, {p})
           all == SubSeq(W, 1, r) \o <<p>> \o rest
           L2 == CloseUp(S, r, a, gone)
           W2 == Moved(W, r, a, p)
           C == Upto(Stays(U, {p}), d)
           c == Cardinality(C)
<1>1. /\ S \in [Indices -> R] /\ S[r] = p /\ (\A i \in Indices : i < r => S[i] = L[i])
      /\ \A k \in 1 .. a - r : S[r + k] = L[r + k - 1] /\ S[r + k] \in R
  <2>1. S = [i \in Indices |-> IF i = r THEN p ELSE IF i \in r + 1 .. a THEN L[i - 1] ELSE L[i]]
    BY DEF ShiftIn
  <2>2. \A i \in Indices : i \in r + 1 .. a => i - 1 \in Indices
    BY DEF Indices
  <2>3. r \in Indices /\ \A k \in 1 .. a - r : r + k \in Indices /\ r + k # r /\ r + k \in r + 1 .. a
    BY DEF Indices
  <2>4. \A i \in Indices : i \in Int
    BY DEF Indices
  <2> HIDE DEF S
  <2>5. S \in [Indices -> R]
    BY <2>1, <2>2
  <2>6. S[r] = p /\ \A i \in Indices : i < r => S[i] = L[i]
    <3>1. \A i \in Indices : i < r => i # r /\ i \notin r + 1 .. a
      BY <2>4
    <3> QED
      BY <2>1, <2>3, <3>1
  <2>7. \A k \in 1 .. a - r : S[r + k] = L[r + k - 1] /\ S[r + k] \in R
    BY <2>1, <2>3, <2>5
  <2> QED
    BY <2>5, <2>6, <2>7
<1>2. /\ m \in Int /\ r <= m /\ m <= a
      /\ (\A i \in 1 .. m : L[i - 1] = W[i] /\ W[i] # NoRef) /\ (\A i \in m + 1 .. a : W[i] = NoRef)
      /\ \A i, j \in r + 1 .. m : W[i] = W[j] => i = j
  BY DEF Agree
<1> HIDE DEF S
<1>3. T \in Seq(R) /\ Len(T) = a - r /\ \A k \in 1 .. a - r : T[k] = L[r + k - 1]
  <2>1. PICK n \in Nat : n = a - r
    OBVIOUS
  <2>2. T = [k \in 1 .. n |-> S[r + k]] /\ \A k \in 1 .. n : S[r + k] \in R /\ S[r + k] = L[r + k - 1]
    BY <1>1, <2>1
  <2> HIDE DEF T
  <2>4. T \in [1 .. n -> R]
    BY <2>2
  <2>3. T \in Seq(R) /\ Len(T) = n /\ \A k \in 1 .. n : T[k] = S[r + k]
    <3>1. T \in Seq(R) /\ Len(T) = n
      BY <2>4
    <3>2. \A k \in 1 .. n : T[k] = S[r + k]
      BY <2>2
    <3> QED
      BY <3>1, <3>2
  <2> QED
    BY <2>1, <2>2, <2>3
<1>4. U \in Seq(R) /\ Len(U) = a - r /\ \A k \in 1 .. a - r : U[k] = W[r + k]
  <2>1. Len(W) = a
    OBVIOUS
  <2>2. U = [k \in 1 .. (a - (r + 1) + 1) |-> W[k + (r + 1) - 1]]
    BY <2>1 DEF SubSeq
  <2>3. U = [k \in 1 .. (a - r) |-> W[r + k]]
    <3>1. a - (r + 1) + 1 = a - r /\ \A k \in 1 .. (a - r) : k + (r + 1) - 1 = r + k
      OBVIOUS
    <3> QED
      BY <2>2, <3>1
  <2> HIDE DEF U
  <2>4. \A k \in 1 .. a - r : W[r + k] \in R
    OBVIOUS
  <2> QED
    BY <2>3, <2>4
<1> HIDE DEF T, U
<1>5. d \in Nat /\ d <= a - r
  BY <1>2
<1>6. \A k \in 1 .. d : T[k] = U[k] /\ U[k] # NoRef /\ (T[k] \in gone <=> U[k] \in {p})
  <2> SUFFICES ASSUME NEW k \in 1 .. d
               PROVE  T[k] = U[k] /\ U[k] # NoRef /\ (T[k] \in gone <=> U[k] \in {p})
    OBVIOUS
  <2>1. k \in 1 .. a - r /\ r + k \in 1 .. m
    BY <1>2
  <2>2. L[r + k - 1] = W[r + k] /\ W[r + k] # NoRef
    BY <1>2, <2>1
  <2>3. T[k] = U[k] /\ U[k] # NoRef
    BY <1>3, <1>4, <2>1, <2>2
  <2> QED
    BY <2>3
<1>7. kept \in Seq(R) /\ rest \in Seq(R)
  BY <1>3, <1>4, WithoutLeaves
<1>8. /\ c \in Nat /\ c <= Len(kept) /\ c <= Len(rest)
      /\ \A j \in 1 .. c : kept[j] = rest[j]
      /\ \A j \in 1 .. c : \E k \in 1 .. d : U[k] \notin {p} /\ rest[j] = U[k]
      /\ \A i, j \in 1 .. c : i < j =>
           \E k, l \in 1 .. d : k < l /\ U[k] \notin {p} /\ U[l] \notin {p} /\ rest[i] = U[k] /\ rest[j] = U[l]
      /\ \A j \in 1 .. Len(rest) : j > c => \E k \in d + 1 .. Len(U) : rest[j] = U[k]
  <2>1. d <= Len(T) /\ d <= Len(U) /\ \A k \in 1 .. d : T[k] = U[k] /\ (T[k] \in gone <=> U[k] \in {p})
    BY <1>3, <1>4, <1>5, <1>6
  <2>2. T \in Seq(R) /\ U \in Seq(R) /\ d \in Nat
    BY <1>3, <1>4, <1>5
  <2>3. SameFirst(kept, rest, U, {p}, d)
    <3> HIDE DEF d
    <3> QED
      BY <2>1, <2>2, WithoutSame
  <2> HIDE DEF kept, rest
  <2> QED
    BY <2>3, Zenon DEF SameFirst
<1>9. d - 1 <= c
  <2>1. \A k : k \in C <=> k \in 1 .. d /\ U[k] # p
    BY <1>4, <1>5 DEF Stays, Upto
  <2>2. IsFiniteSet(C)
    <3>1. \A k \in C : k \in 1 .. d
      BY <2>1
    <3> QED
      BY <1>5, <3>1, AtMost
  <2>3. ASSUME NEW k \in 1 .. d, NEW l \in 1 .. d, k \notin C, l \notin C PROVE k = l
    <3>1. U[k] = p /\ U[l] = p
      BY <2>1, <2>3
    <3>2. r + k \in r + 1 .. m /\ r + l \in r + 1 .. m /\ k \in 1 .. a - r /\ l \in 1 .. a - r
      BY <1>2
    <3>3. W[r + k] = W[r + l]
      BY <1>4, <3>1, <3>2
    <3>4. r + k = r + l
      BY <1>2, <3>2, <3>3
    <3> QED
      BY <3>4
  <2> HIDE DEF C, d
  <2>4. \A k \in C : k \in 1 .. d
    BY <2>1
  <2> QED
    BY <1>5, <2>2, <2>3, <2>4, AllButOne
<1> HIDE DEF kept, rest
<1>10. /\ all \in Seq(R) /\ Len(all) = r + 1 + Len(rest)
       /\ (\A i \in 1 .. r : all[i] = W[i]) /\ all[r + 1] = p
       /\ \A j \in 1 .. Len(rest) : all[r + 1 + j] = rest[j]
  BY <1>7, FrontOf
<1>11. Len(rest) \in Nat /\ Len(kept) \in Nat
  BY <1>7, LenProperties
<1>12. W2 = [i \in 1 .. a |-> IF i <= Len(all) THEN all[i] ELSE NoRef]
  BY DEF Moved, rest, U
<1>13. L2 = [i \in Indices |-> IF i \in r + 1 .. r + Len(kept) THEN kept[i - r] ELSE S[i]]
  BY DEF CloseUp, kept, T
<1> HIDE DEF C, c, all, L2, W2, d
<1>14. L2 \in [Indices -> R]
  <2>1. \A i \in Indices : i \in Int /\ (i \in r + 1 .. r + Len(kept) => i - r \in 1 .. Len(kept))
    BY <1>11 DEF Indices
  <2>2. \A i \in 1 .. Len(kept) : kept[i] \in R
    BY <1>7, ElementOfSeq
  <2> QED
    BY <1>1, <1>13, <2>1, <2>2
<1>15. W2 \in [1 .. a -> R]
  <2>1. \A i \in 1 .. Len(all) : all[i] \in R
    BY <1>10, ElementOfSeq
  <2>2. \A i \in 1 .. a : i <= Len(all) => i \in 1 .. Len(all)
    BY <1>10, <1>11
  <2> QED
    BY <1>12, <2>1, <2>2
<1> DEFINE m2 == IF r + 1 + c <= a THEN r + 1 + c ELSE a
<1>16. m2 \in Int /\ r + 1 <= m2 /\ m2 <= a /\ m2 <= r + 1 + c /\ (m2 < a => m2 = r + 1 + c) /\ (m = a => m2 = a)
  BY <1>2, <1>8, <1>9 DEF d
<1> HIDE DEF m2
(* The places up to r, the next one, and those behind it.                     *)
<1>17. ASSUME NEW i \in 1 .. r PROVE L2[i - 1] = W[i] /\ W2[i] = W[i] /\ W[i] # NoRef
  <2>1. i - 1 \in Indices /\ i - 1 < r /\ i - 1 \notin r + 1 .. r + Len(kept) /\ i \in 1 .. a /\ i <= Len(all) /\ i \in 1 .. m
    BY <1>2, <1>10, <1>11 DEF Indices
  <2>2. W2[i] = W[i]
    BY <1>10, <1>12, <2>1
  <2>3. L2[i - 1] = L[i - 1]
    BY <1>1, <1>13, <2>1
  <2> QED
    BY <1>2, <2>1, <2>2, <2>3
<1>18. L2[r] = p /\ W2[r + 1] = p
  <2>1. r \in Indices /\ r \notin r + 1 .. r + Len(kept) /\ r + 1 \in 1 .. a /\ r + 1 <= Len(all)
    BY <1>10, <1>11 DEF Indices
  <2> QED
    BY <1>1, <1>10, <1>12, <1>13, <2>1
<1>19. ASSUME NEW j \in 1 .. c, r + 1 + j <= a
       PROVE  L2[r + j] = rest[j] /\ W2[r + 1 + j] = rest[j] /\ rest[j] # NoRef
  <2>1. /\ r + j \in Indices /\ r + j \in r + 1 .. r + Len(kept) /\ r + j - r = j
        /\ r + 1 + j \in 1 .. a /\ r + 1 + j <= Len(all) /\ j \in 1 .. Len(rest)
    BY <1>8, <1>10, <1>11, <1>19 DEF Indices
  <2>2. L2[r + j] = kept[j]
    <3>1. \A i \in Indices : i \in r + 1 .. r + Len(kept) => L2[i] = kept[i - r]
      BY <1>13
    <3> QED
      BY <2>1, <3>1
  <2>3. W2[r + 1 + j] = rest[j]
    BY <1>10, <1>12, <2>1
  <2>4. rest[j] # NoRef
    <3>1. PICK k \in 1 .. d : rest[j] = U[k]
      BY <1>8
    <3> QED
      BY <1>6, <3>1
  <2> QED
    BY <1>8, <2>2, <2>3, <2>4
<1>20. ASSUME NEW i \in m2 + 1 .. a PROVE W2[i] = NoRef
  <2>1. m2 = r + 1 + c /\ i \in 1 .. a /\ i - (r + 1) > c /\ i - (r + 1) \in Nat /\ r + 1 + (i - (r + 1)) = i
    BY <1>8, <1>16
  <2>2. CASE i <= Len(all)
    <3>1. i - (r + 1) \in 1 .. Len(rest)
      BY <1>8, <1>10, <1>11, <2>1, <2>2
    <3>2. W2[i] = rest[i - (r + 1)]
      BY <1>10, <1>12, <2>1, <2>2, <3>1
    <3>3. PICK k \in d + 1 .. Len(U) : rest[i - (r + 1)] = U[k]
      BY <1>8, <2>1, <3>1
    <3>4. k \in 1 .. a - r /\ r + k \in m + 1 .. a
      BY <1>2, <1>4, <1>5 DEF d
    <3>5. U[k] = NoRef
      BY <1>2, <1>4, <3>4
    <3> QED
      BY <3>2, <3>3, <3>5
  <2>3. CASE ~(i <= Len(all))
    BY <1>12, <2>1, <2>3
  <2> QED
    BY <2>2, <2>3
<1>21. ASSUME NEW i \in 1 .. m2 PROVE L2[i - 1] = W2[i] /\ W2[i] # NoRef
  <2>1. CASE i \in 1 .. r
    BY <1>17, <2>1
  <2>2. CASE i = r + 1
    BY <1>18, <2>2
  <2>3. CASE i > r + 1
    <3>1. i - (r + 1) \in 1 .. c /\ r + 1 + (i - (r + 1)) = i /\ i <= a /\ r + (i - (r + 1)) = i - 1
      BY <1>8, <1>16, <2>3
    <3>2. L2[r + (i - (r + 1))] = rest[i - (r + 1)] /\ W2[r + 1 + (i - (r + 1))] = rest[i - (r + 1)] /\ rest[i - (r + 1)] # NoRef
      BY <1>19, <3>1
    <3> QED
      BY <3>1, <3>2
  <2> QED
    BY <1>16, <2>1, <2>2, <2>3
<1>22. ASSUME NEW i \in r + 2 .. m2, NEW j \in r + 2 .. m2, i < j PROVE W2[i] # W2[j]
  <2>1. /\ i - (r + 1) \in 1 .. c /\ r + 1 + (i - (r + 1)) = i /\ i <= a
        /\ j - (r + 1) \in 1 .. c /\ r + 1 + (j - (r + 1)) = j /\ j <= a /\ i - (r + 1) < j - (r + 1)
    BY <1>8, <1>16, <1>22
  <2>2. W2[i] = rest[i - (r + 1)] /\ W2[j] = rest[j - (r + 1)]
    <3>1. W2[r + 1 + (i - (r + 1))] = rest[i - (r + 1)]
      BY <1>19, <2>1
    <3>2. W2[r + 1 + (j - (r + 1))] = rest[j - (r + 1)]
      BY <1>19, <2>1
    <3> QED
      BY <2>1, <3>1, <3>2
  <2>3. PICK k \in 1 .. d, l \in 1 .. d :
          k < l /\ U[k] \notin {p} /\ U[l] \notin {p} /\ rest[i - (r + 1)] = U[k] /\ rest[j - (r + 1)] = U[l]
    <3>1. \A x, y \in 1 .. c : x < y =>
            \E k, l \in 1 .. d : k < l /\ U[k] \notin {p} /\ U[l] \notin {p} /\ rest[x] = U[k] /\ rest[y] = U[l]
      BY <1>8, Zenon
    <3> QED
      BY <2>1, <3>1
  <2>4. r + k \in r + 1 .. m /\ r + l \in r + 1 .. m /\ k \in 1 .. a - r /\ l \in 1 .. a - r /\ r + k # r + l
    BY <1>2, <2>3 DEF d
  <2>5. U[k] = W[r + k] /\ U[l] = W[r + l] /\ W[r + k] # W[r + l]
    BY <1>2, <1>4, <2>4
  <2> QED
    BY <2>2, <2>3, <2>5
<1>23. Agree(L2, W2, r + 1, a, m2)
  <2>1. \A i, j \in r + 1 + 1 .. m2 : W2[i] = W2[j] => i = j
    <3> SUFFICES ASSUME NEW i \in r + 1 + 1 .. m2, NEW j \in r + 1 + 1 .. m2, i # j PROVE W2[i] # W2[j]
      OBVIOUS
    <3>1. i \in r + 2 .. m2 /\ j \in r + 2 .. m2 /\ (i < j \/ j < i)
      BY <1>16
    <3> QED
      BY <1>22, <3>1
  <2>2. m2 \in r + 1 .. a
    BY <1>16
  <2> QED
    BY <1>20, <1>21, <2>1, <2>2 DEF Agree
<1> QED
  BY <1>14, <1>15, <1>16, <1>23 DEF L2, W2, S
-----------------------------------------------------------------------------
(* What the state keeps to *)

LEMMA Entered ==
  ASSUME NEW s \in Slices, NEW q \in Seq(s.refs)
  PROVE  /\ Entries(s, q) \in [Indices -> s.refs \cup {NoRef}]
         /\ \A i \in Indices : Entries(s, q)[i] = IF i < Len(q) /\ i < s.active THEN q[i + 1] ELSE NoRef
<1> DEFINE E == Entries(s, q)
<1>1. s.active \in Int /\ Len(q) \in Nat /\ MaxListSize \in Int
  BY SliceTyped, LenProperties
<1>2. PICK a \in Int : a = s.active
  BY <1>1
<1>3. PICK n \in Nat : n = Len(q)
  BY <1>1
<1>4. Min({n, a}) = IF n <= a THEN n ELSE a
  <2>1. Min({n, a}) = CHOOSE x \in {n, a} : \A y \in {n, a} : x <= y
    BY DEF Min
  <2>2. \A x \in {n, a} : (\A y \in {n, a} : x <= y) <=> x = IF n <= a THEN n ELSE a
    OBVIOUS
  <2>3. \E x \in {n, a} : \A y \in {n, a} : x <= y
    BY <2>2
  <2> QED
    BY <2>1, <2>2, <2>3
<1>5. E = [i \in Indices |-> IF i < Min({n, a}) THEN q[i + 1] ELSE NoRef]
  BY <1>2, <1>3 DEF Entries
<1> HIDE DEF E
<1>6. \A i \in Indices : i \in Int /\ 0 <= i
  BY DEF Indices
<1>7. \A i \in Indices : E[i] = IF i < Len(q) /\ i < s.active THEN q[i + 1] ELSE NoRef
  <2>1. \A i \in Indices : (i < Min({n, a})) <=> (i < Len(q) /\ i < s.active)
    BY <1>2, <1>3, <1>4, <1>6
  <2> QED
    BY <1>5, <2>1
<1>8. \A i \in Indices : E[i] \in s.refs \cup {NoRef}
  <2>1. \A i \in 1 .. Len(q) : q[i] \in s.refs
    BY ElementOfSeq
  <2>2. \A i \in Indices : i < Len(q) => i + 1 \in 1 .. Len(q)
    BY <1>1, <1>6
  <2> QED
    BY <1>7, <2>1, <2>2
<1>9. E \in [Indices -> s.refs \cup {NoRef}]
  BY <1>5, <1>8
<1> QED
  BY <1>7, <1>9 DEF E

LEMMA InitialTyped ==
  ASSUME NEW s \in Slices, NEW X \in 0 .. 1
  PROVE  InitialList(s, X) \in Seq(s.refs)
<1>1. X \in {0, 1} /\ s.type \in {"I", "P", "B"} /\ <<>> \in Seq(s.refs)
  BY SliceTyped
<1>2. CASE s.type = "I"
  BY <1>1, <1>2 DEF InitialList
<1>3. CASE s.type = "P" /\ X = 1
  BY <1>1, <1>3 DEF InitialList
<1>4. CASE s.type # "I" /\ X = 0
  BY <1>4, InitialOnce DEF EachOnce
<1>5. CASE s.type = "B" /\ X = 1
  BY <1>5, InitialOnce DEF EachOnce
<1> QED
  BY <1>1, <1>2, <1>3, <1>4, <1>5

LEMMA ExpectedAgrees ==
  ASSUME NEW s \in Slices, NEW X \in 0 .. 1, EachOnce(InitialList(s, X), s.refs)
  PROVE  /\ Expected(s, X) \in [1 .. s.active -> s.refs \cup {NoRef}]
         /\ \E m : /\ Agree(Entries(s, InitialList(s, X)), Expected(s, X), 0, s.active, m)
                   /\ s.active <= Cardinality(s.refs) => m = s.active
<1> DEFINE q == InitialList(s, X)
           E == Entries(s, q)
           W == Expected(s, X)
<1>1. /\ q \in Seq(s.refs) /\ Len(q) \in Nat /\ Len(q) = Cardinality(s.refs)
      /\ (\A i, j \in 1 .. Len(q) : q[i] = q[j] => i = j) /\ \A i \in 1 .. Len(q) : q[i] \in s.refs
  BY LenProperties, ElementOfSeq DEF EachOnce
<1>2. s.active \in Int /\ 1 <= s.active /\ s.active < MaxListSize /\ MaxListSize \in Int /\ NoRef \notin s.refs
  BY SliceTyped
<1>3. W = [i \in 1 .. s.active |-> E[i - 1]]
  BY DEF Expected
<1> HIDE DEF q, W
<1>4. /\ E \in [Indices -> s.refs \cup {NoRef}]
      /\ \A i \in Indices : E[i] = IF i < Len(q) /\ i < s.active THEN q[i + 1] ELSE NoRef
  BY <1>1, Entered
<1> HIDE DEF E
<1>5. PICK a \in Int : a = s.active
  BY <1>2
<1>6. PICK n \in Nat : n = Len(q)
  BY <1>1
<1>7. \A i \in 1 .. a : i - 1 \in Indices /\ (i - 1 < a) /\ (i - 1 < n <=> i <= n) /\ (i - 1) + 1 = i
  BY <1>2, <1>5 DEF Indices
<1>8. \A i \in 1 .. a : W[i] = E[i - 1] /\ W[i] = IF i <= n THEN q[i] ELSE NoRef
  <2>1. \A i \in 1 .. a : W[i] = E[i - 1]
    BY <1>3, <1>5
  <2>2. \A i \in 1 .. a : E[i - 1] = IF i <= n THEN q[i] ELSE NoRef
    BY <1>4, <1>5, <1>6, <1>7
  <2> QED
    BY <2>1, <2>2
<1>9. W \in [1 .. a -> s.refs \cup {NoRef}]
  BY <1>3, <1>4, <1>5, <1>7
<1> DEFINE m == IF n <= a THEN n ELSE a
<1>10. m \in 0 .. a /\ m <= n /\ (m < a => m = n) /\ \A i \in 1 .. m : i \in 1 .. n /\ i \in 1 .. a
  BY <1>2, <1>5
<1> HIDE DEF m
<1>11. \A i \in 1 .. m : E[i - 1] = W[i] /\ W[i] # NoRef /\ W[i] = q[i]
  <2> SUFFICES ASSUME NEW i \in 1 .. m PROVE E[i - 1] = W[i] /\ W[i] # NoRef /\ W[i] = q[i]
    OBVIOUS
  <2>1. i \in 1 .. n /\ i \in 1 .. a /\ i <= n
    BY <1>10
  <2>2. W[i] = E[i - 1] /\ W[i] = q[i] /\ q[i] \in s.refs
    BY <1>1, <1>6, <1>8, <2>1
  <2> QED
    BY <1>2, <2>2
<1>12. \A i \in m + 1 .. a : W[i] = NoRef
  <2>1. \A i \in m + 1 .. a : i \in 1 .. a /\ ~(i <= n)
    BY <1>10
  <2> QED
    BY <1>8, <2>1
<1>13. \A i, j \in 0 + 1 .. m : W[i] = W[j] => i = j
  <2>1. \A i \in 0 + 1 .. m : i \in 1 .. m /\ i \in 1 .. n
    BY <1>10
  <2> QED
    BY <1>1, <1>6, <1>11, <2>1
<1>14. Agree(E, W, 0, a, m)
  BY <1>10, <1>11, <1>12, <1>13 DEF Agree
<1>15. a <= Cardinality(s.refs) => m = a
  BY <1>1, <1>5, <1>6, <1>10
<1> QED
  BY <1>5, <1>9, <1>14, <1>15 DEF E, W, q

(* The commands name the picture the sender means.                            *)
LEMMA Wrapped ==
  ASSUME NEW M \in Int, M > 0, NEW x \in Int, -M < x, x < M
  PROVE  x % M = IF x < 0 THEN x + M ELSE x
<1>1. CASE x < 0
  <2>1. x = M * (-1) + (x + M) /\ x + M \in 0 .. M - 1
    BY <1>1
  <2> QED
    BY <1>1, <2>1
<1>2. CASE ~(x < 0)
  <2>1. x = M * 0 + x /\ x \in 0 .. M - 1
    BY <1>2
  <2> QED
    BY <1>2, <2>1
<1> QED
  BY <1>1, <1>2

LEMMA NumberMeant ==
  ASSUME slice \in Slices, picNumLXPred \in 0 .. MaxPicNum - 1, NEW p \in Short(slice), NEW idc \in {0, 1}
  PROVE  picNumLXNoWrap(idc, AbsDiff(idc, p)) = p.num
<1>1. MaxPicNum \in Int /\ MaxPicNum > 0 /\ p.num \in Int /\ 0 <= p.num /\ p.num < MaxPicNum
  BY SliceTyped DEF Short
<1>2. PICK M \in Int : M = MaxPicNum
  BY <1>1
<1>3. PICK n \in Int : n = p.num
  BY <1>1
<1>4. PICK g \in Int : g = picNumLXPred
  BY <1>1
<1>5. M > 0 /\ 0 <= n /\ n < M /\ 0 <= g /\ g < M
  BY <1>1, <1>2, <1>3, <1>4
<1>6. CASE idc = 0
  <2>1. (g - n) % M = IF g - n < 0 THEN g - n + M ELSE g - n
    BY <1>5, Wrapped
  <2>2. AbsDiff(idc, p) = IF (g - n) % M = 0 THEN M ELSE (g - n) % M
    BY <1>2, <1>3, <1>4, <1>6 DEF AbsDiff
  <2>3. PICK d \in Int : d = AbsDiff(idc, p)
    BY <2>1, <2>2
  <2>4. picNumLXNoWrap(idc, d) = IF g - d < 0 THEN g - d + M ELSE g - d
    BY <1>2, <1>4, <1>6 DEF picNumLXNoWrap
  <2>5. d = IF g = n THEN M ELSE IF g < n THEN g - n + M ELSE g - n
    BY <1>5, <2>1, <2>2, <2>3
  <2>6. (IF g - d < 0 THEN g - d + M ELSE g - d) = n
    BY <1>5, <2>5
  <2> QED
    BY <1>3, <2>3, <2>4, <2>6
<1>7. CASE idc = 1
  <2>1. (n - g) % M = IF n - g < 0 THEN n - g + M ELSE n - g
    BY <1>5, Wrapped
  <2>2. AbsDiff(idc, p) = IF (n - g) % M = 0 THEN M ELSE (n - g) % M
    BY <1>2, <1>3, <1>4, <1>7 DEF AbsDiff
  <2>3. PICK d \in Int : d = AbsDiff(idc, p)
    BY <2>1, <2>2
  <2>4. picNumLXNoWrap(idc, d) = IF g + d >= M THEN g + d - M ELSE g + d
    BY <1>2, <1>4, <1>7 DEF picNumLXNoWrap
  <2>5. d = IF g = n THEN M ELSE IF n < g THEN n - g + M ELSE n - g
    BY <1>5, <2>1, <2>2, <2>3
  <2>6. (IF g + d >= M THEN g + d - M ELSE g + d) = n
    BY <1>5, <2>5
  <2> QED
    BY <1>3, <2>3, <2>4, <2>6
<1> QED
  BY <1>6, <1>7

LEMMA OnePicture ==
  ASSUME slice \in Slices
  PROVE  /\ \A p \in Short(slice) :
              /\ WrappedNum(p.num) = pic_num(slice, p)
              /\ get_short_term_pic(slice, pic_num(slice, p)) = p
              /\ {q \in Short(slice) : pic_num(slice, q) = pic_num(slice, p)} = {p}
         /\ \A p \in Long(slice) :
              /\ get_long_term_pic(slice, p.num) = p
              /\ {q \in Long(slice) : q.num = p.num} = {p}
<1>1. /\ slice.frame_num \in Int /\ 0 <= slice.frame_num /\ slice.frame_num < MaxPicNum /\ MaxPicNum \in Int
      /\ (\A p \in slice.refs : p.long \in BOOLEAN /\ p.num \in Int /\ 0 <= p.num /\ (~p.long => p.num < MaxPicNum))
      /\ \A p, q \in slice.refs : p.long = q.long /\ p.num = q.num => p = q
  BY SliceTyped
<1>2. \A p \in Short(slice) : p \in slice.refs /\ ~p.long
  BY DEF Short
<1>3. \A p \in Long(slice) : p \in slice.refs /\ p.long
  BY <1>1 DEF Long, Short
<1>4. ASSUME NEW p \in Short(slice), NEW q \in Short(slice), pic_num(slice, p) = pic_num(slice, q) PROVE p = q
  <2>1. p.num = q.num
    BY <1>1, <1>2, <1>4 DEF pic_num
  <2> QED
    BY <1>1, <1>2, <2>1
<1>5. ASSUME NEW p \in Long(slice), NEW q \in Long(slice), p.num = q.num PROVE p = q
  BY <1>1, <1>3, <1>5
<1>6. ASSUME NEW p \in Short(slice)
      PROVE  /\ WrappedNum(p.num) = pic_num(slice, p)
             /\ get_short_term_pic(slice, pic_num(slice, p)) = p
             /\ {q \in Short(slice) : pic_num(slice, q) = pic_num(slice, p)} = {p}
  <2>1. WrappedNum(p.num) = pic_num(slice, p)
    BY DEF WrappedNum, pic_num
  <2>2. get_short_term_pic(slice, pic_num(slice, p)) = p
    BY <1>4 DEF get_short_term_pic
  <2>3. {q \in Short(slice) : pic_num(slice, q) = pic_num(slice, p)} = {p}
    BY <1>4
  <2> QED
    BY <2>1, <2>2, <2>3
<1>7. ASSUME NEW p \in Long(slice)
      PROVE  get_long_term_pic(slice, p.num) = p /\ {q \in Long(slice) : q.num = p.num} = {p}
  <2>1. get_long_term_pic(slice, p.num) = p
    BY <1>5 DEF get_long_term_pic
  <2>2. {q \in Long(slice) : q.num = p.num} = {p}
    BY <1>5
  <2> QED
    BY <2>1, <2>2
<1> QED
  BY <1>6, <1>7
-----------------------------------------------------------------------------
(* The invariant *)

Entry == slice.refs \cup {NoRef}
ListsType ==
  /\ slice \in Slices
  /\ reordering \in {"none", "list_0", "list_1", "exit", "null_read", "ready"}
  /\ refIdxLX \in 0 .. slice.active
  /\ picNumLXPred \in 0 .. MaxPicNum - 1
  /\ listX \in [0 .. 1 -> [Indices -> Entry]]
  /\ reordering # "none" => wanted \in [1 .. slice.active -> Entry]
(* Up to some place the list is the wanted one, and nothing is wanted behind   *)
(* it; where there are references for all of it, the place is the last.        *)
AsWanted ==
  reordering \in {"list_0", "list_1"} =>
    /\ slice.type # "I"
    /\ \E m : /\ Agree(listX[ListOf], wanted, refIdxLX, slice.active, m)
              /\ slice.active <= Cardinality(slice.refs) => m = slice.active
(* List 1 is as it was made until its turn comes, and list 0 is whole by then. *)
InTheirTurn ==
  /\ reordering = "list_1" => slice.type = "B" /\ listX[0][slice.active - 1] # NoRef
  /\ reordering = "list_0" =>
       /\ listX[1] = Entries(slice, InitialList(slice, 1))
       /\ refIdxLX = 0 => listX[0] = Entries(slice, InitialList(slice, 0))
ListsInv == ListsType /\ AsWanted /\ InTheirTurn /\ ListsRight

LEMMA ListsInitially == ListsInit => ListsInv
<1> SUFFICES ASSUME NEW s \in Slices, ListsStart(s) PROVE ListsInv
  BY DEF ListsInit
<1>1. /\ slice = s /\ reordering = "none" /\ refIdxLX = 0 /\ picNumLXPred = 0
      /\ listX = [X \in 0 .. 1 |-> [i \in Indices |-> NoRef]]
  BY DEF ListsStart
<1>2. s.active \in Int /\ 1 <= s.active /\ MaxPicNum \in Int /\ MaxPicNum > 0
  BY SliceTyped
<1>3. ListsType
  <2>1. listX \in [0 .. 1 -> [Indices -> Entry]]
    BY <1>1 DEF Entry
  <2> QED
    BY <1>1, <1>2, <2>1 DEF ListsType
<1> QED
  BY <1>1, <1>3 DEF ListsInv, AsWanted, InTheirTurn, ListsRight

(* Where the first m entries agree and all that is wanted is there, they agree. *)
LEMMA WholeAgrees ==
  ASSUME NEW L, NEW a \in Nat, NEW W, NEW r \in Nat, NEW m, Agree(L, W, r, a, m),
         \A i \in 1 .. a : W[i] # NoRef
  PROVE  m = a /\ \A i \in 1 .. a : L[i - 1] = W[i]
<1>1. /\ m \in Int /\ 0 <= m /\ m <= a /\ (\A i \in 1 .. m : L[i - 1] = W[i])
      /\ \A i \in m + 1 .. a : W[i] = NoRef
  BY DEF Agree
<1>2. m = a
  <2> SUFFICES ASSUME m < a PROVE FALSE
    BY <1>1
  <2>1. m + 1 \in m + 1 .. a /\ m + 1 \in 1 .. a
    BY <1>1
  <2> QED
    BY <1>1, <2>1
<1> QED
  BY <1>1, <1>2

LEMMA MadeRight ==
  ASSUME ListsInv, init_lists_baseline
  PROVE  ListsInv'
<1> DEFINE E0 == Entries(slice, InitialList(slice, 0))
           E1 == Entries(slice, InitialList(slice, 1))
           W == Expected(slice, 0)
<1>1. /\ slice' = slice /\ listX' = [X \in 0 .. 1 |-> Entries(slice, InitialList(slice, X))]
      /\ reordering' = (IF slice.type = "I" THEN "ready" ELSE "list_0")
      /\ refIdxLX' = 0 /\ picNumLXPred' = slice.frame_num /\ wanted' = W
  BY DEF init_lists_baseline
<1>2. slice \in Slices
  BY DEF ListsInv, ListsType
<1>3. /\ slice.type \in {"I", "P", "B"} /\ slice.frame_num \in Int /\ 0 <= slice.frame_num /\ slice.frame_num < MaxPicNum
      /\ MaxPicNum \in Int /\ MaxListSize \in Int /\ slice.active \in Int /\ 1 <= slice.active /\ slice.active < MaxListSize
      /\ Cardinality(slice.refs) \in Nat
  BY <1>2, SliceTyped
<1>4. InitialList(slice, 0) \in Seq(slice.refs) /\ InitialList(slice, 1) \in Seq(slice.refs)
  BY <1>2, InitialTyped
<1>5. E0 \in [Indices -> Entry] /\ E1 \in [Indices -> Entry]
  BY <1>2, <1>4, Entered DEF Entry
<1>6. /\ listX'[0] = E0 /\ listX'[1] = E1 /\ listX' \in [0 .. 1 -> [Indices -> Entry]]
  <2>1. listX'[0] = E0 /\ listX'[1] = E1
    BY <1>1
  <2>2. \A X \in 0 .. 1 : Entries(slice, InitialList(slice, X)) \in [Indices -> Entry]
    BY <1>5
  <2> QED
    BY <1>1, <2>1, <2>2
<1>7. Entry' = Entry
  BY <1>1 DEF Entry
<1>8. W \in [1 .. slice.active -> Entry]
  <2>1. 0 \in 0 .. 1
    OBVIOUS
  <2>2. \A i \in 1 .. slice.active : i - 1 \in Indices
    BY <1>3 DEF Indices
  <2>3. W = [i \in 1 .. slice.active |-> E0[i - 1]]
    BY DEF Expected
  <2> HIDE DEF E0
  <2> QED
    BY <1>5, <2>2, <2>3
<1> HIDE DEF E0, E1, W
<1>9. ListsType'
  <2>1. refIdxLX' \in 0 .. slice'.active
    BY <1>1, <1>3
  <2>2. picNumLXPred' \in 0 .. MaxPicNum - 1
    BY <1>1, <1>3
  <2>3. slice' \in Slices /\ reordering' \in {"none", "list_0", "list_1", "exit", "null_read", "ready"}
    BY <1>1, <1>2
  <2>4. listX' \in [0 .. 1 -> [Indices -> Entry']]
    BY <1>6, <1>7
  <2>5. wanted' \in [1 .. slice'.active -> Entry']
    BY <1>1, <1>7, <1>8
  <2> QED
    BY <2>1, <2>2, <2>3, <2>4, <2>5 DEF ListsType
<1>10. CASE slice.type = "I"
  <2>1. reordering' = "ready" /\ slice'.type = "I"
    BY <1>1, <1>10
  <2> QED
    BY <1>9, <2>1 DEF ListsInv, AsWanted, InTheirTurn, ListsRight
<1>11. CASE slice.type # "I"
  <2>1. reordering' = "list_0" /\ slice' = slice /\ refIdxLX' = 0 /\ ListOf' = 0
    BY <1>1, <1>11 DEF ListOf
  <2>2. EachOnce(InitialList(slice, 0), slice.refs)
    BY <1>2, <1>11, InitialOnce
  <2>3. PICK m : Agree(E0, W, 0, slice.active, m) /\ (slice.active <= Cardinality(slice.refs) => m = slice.active)
    BY <1>2, <2>2, ExpectedAgrees DEF E0, W
  <2>4. AsWanted'
    <3>1. listX'[ListOf'] = E0 /\ wanted' = W
      BY <1>1, <1>6, <2>1
    <3>2. Agree(listX'[ListOf'], wanted', refIdxLX', slice'.active, m)
      BY <2>1, <2>3, <3>1
    <3>3. slice'.active <= Cardinality(slice'.refs) => m = slice'.active
      BY <2>1, <2>3
    <3>4. slice'.type # "I"
      BY <1>11, <2>1
    <3> QED
      BY <3>2, <3>3, <3>4 DEF AsWanted
  <2>5. InTheirTurn'
    <3>1. listX'[1] = Entries(slice', InitialList(slice', 1)) /\ listX'[0] = Entries(slice', InitialList(slice', 0))
      BY <1>6, <2>1 DEF E0, E1
    <3> QED
      BY <2>1, <3>1 DEF InTheirTurn
  <2>6. ASSUME Whole', NEW i \in 1 .. slice'.active PROVE listX'[ListOf'][i - 1] = wanted'[i]
    <3>1. Len(wanted') = slice.active
      BY <1>1, <1>3, <1>8
    <3>2. \A k \in 1 .. slice.active : W[k] # NoRef
      BY <1>1, <2>6, <3>1 DEF Whole
    <3>3. slice.active \in Nat
      BY <1>3
    <3>4. \A k \in 1 .. slice.active : E0[k - 1] = W[k]
      BY <2>3, <3>2, <3>3, WholeAgrees
    <3> QED
      BY <1>1, <1>6, <2>1, <2>6, <3>4
  <2>7. ASSUME slice.type = "B", Cardinality(slice.refs) > 1, slice.active > 1
        PROVE  listX'[0] # listX'[1]
    <3>1. EachOnce(InitialList(slice, 1), slice.refs) /\ InitialList(slice, 0)[1] # InitialList(slice, 1)[1]
      BY <1>2, <2>7, InitialOnce
    <3>2. Len(InitialList(slice, 0)) = Cardinality(slice.refs) /\ Len(InitialList(slice, 1)) = Cardinality(slice.refs)
      BY <2>2, <3>1 DEF EachOnce
    <3>3. 0 \in Indices
      BY <1>3 DEF Indices
    <3>4. E0[0] = InitialList(slice, 0)[0 + 1]
      <4>1. 0 < Len(InitialList(slice, 0)) /\ 0 < slice.active
        BY <1>3, <2>7, <3>2
      <4> QED
        BY <1>2, <1>4, <3>3, <4>1, Entered DEF E0
    <3>5. E1[0] = InitialList(slice, 1)[0 + 1]
      <4>1. 0 < Len(InitialList(slice, 1)) /\ 0 < slice.active
        BY <1>3, <2>7, <3>2
      <4> QED
        BY <1>2, <1>4, <3>3, <4>1, Entered DEF E1
    <3> QED
      BY <1>6, <3>1, <3>4, <3>5
  <2>8. ListsRight'
    BY <2>1, <2>6, <2>7 DEF ListsRight
  <2> QED
    BY <1>9, <2>4, <2>5, <2>8 DEF ListsInv
<1> QED
  BY <1>10, <1>11
(* A command, of either number: p goes to the front and what is gone is only p *)
(* or nothing at all.                                                         *)
Command(p, gone) ==
  /\ Reordering /\ p \in slice.refs
  /\ p \in gone /\ \A x \in gone : x = p \/ x = NoRef
  /\ listX' = [listX EXCEPT ![ListOf] = CloseUp(ShiftIn(listX[ListOf], refIdxLX, slice.active, p),
                                                refIdxLX, slice.active, gone)]
  /\ wanted' = MoveToFront(p) /\ refIdxLX' = refIdxLX + 1
  /\ slice' = slice /\ reordering' = reordering /\ picNumLXPred' \in 0 .. MaxPicNum - 1

LEMMA CommandRight ==
  ASSUME ListsInv, NEW p, NEW gone, Command(p, gone)
  PROVE  ListsInv'
<1>0. /\ Reordering /\ p \in slice.refs /\ p \in gone /\ (\A x \in gone : x = p \/ x = NoRef)
      /\ listX' = [listX EXCEPT ![ListOf] = CloseUp(ShiftIn(listX[ListOf], refIdxLX, slice.active, p),
                                                    refIdxLX, slice.active, gone)]
      /\ wanted' = MoveToFront(p) /\ refIdxLX' = refIdxLX + 1 /\ slice' = slice /\ reordering' = reordering
      /\ picNumLXPred' \in 0 .. MaxPicNum - 1
  BY Zenon DEF Command
<1>1. /\ slice \in Slices /\ refIdxLX \in 0 .. slice.active /\ listX \in [0 .. 1 -> [Indices -> Entry]]
      /\ reordering \in {"list_0", "list_1"} /\ refIdxLX < slice.active
      /\ wanted \in [1 .. slice.active -> Entry]
  BY <1>0 DEF ListsInv, ListsType, Reordering
<1>2. /\ slice.active \in Nat /\ 1 <= slice.active /\ slice.active < MaxListSize /\ MaxListSize \in Nat
      /\ NoRef \notin slice.refs /\ Cardinality(slice.refs) \in Nat
  BY <1>1, SliceTyped
<1>3. PICK R : R = Entry
  OBVIOUS
<1>4. PICK a \in Nat : a = slice.active
  BY <1>2
<1>5. PICK r \in Nat : r = refIdxLX
  BY <1>1
<1>6. PICK X \in 0 .. 1 : X = ListOf
  BY DEF ListOf
<1>7. PICK L : L = listX[X]
  OBVIOUS
<1>8. PICK W : W = wanted
  OBVIOUS
<1>9. /\ L \in [Indices -> R] /\ W \in [1 .. a -> R] /\ r < a /\ a < MaxListSize
      /\ NoRef \in R /\ p \in R /\ p # NoRef
  BY <1>0, <1>1, <1>2, <1>3, <1>4, <1>5, <1>6, <1>7, <1>8 DEF Entry
<1>10. PICK m : Agree(L, W, r, a, m) /\ (a <= Cardinality(slice.refs) => m = a)
  <2>1. PICK m : /\ Agree(listX[ListOf], wanted, refIdxLX, slice.active, m)
                 /\ slice.active <= Cardinality(slice.refs) => m = slice.active
    BY <1>0, <1>1 DEF ListsInv, AsWanted
  <2> QED
    BY <1>4, <1>5, <1>6, <1>7, <1>8, <2>1
<1> DEFINE L2 == CloseUp(ShiftIn(L, r, a, p), r, a, gone)
           W2 == Moved(W, r, a, p)
<1>11. /\ L2 \in [Indices -> R] /\ W2 \in [1 .. a -> R]
       /\ \E m2 : Agree(L2, W2, r + 1, a, m2) /\ (m = a => m2 = a)
  BY <1>0, <1>2, <1>9, <1>10, MovedAgree
<1>12. listX' = [listX EXCEPT ![X] = L2]
  BY <1>0, <1>4, <1>5, <1>6, <1>7
<1>13. wanted' = W2
  BY <1>0, <1>4, <1>5, <1>8 DEF MoveToFront, Moved
<1> HIDE DEF L2, W2
<1>14. listX'[X] = L2 /\ (\A Y \in 0 .. 1 : Y # X => listX'[Y] = listX[Y]) /\ listX' \in [0 .. 1 -> [Indices -> R]]
  BY <1>1, <1>3, <1>11, <1>12
<1>15. PICK m2 : Agree(L2, W2, r + 1, a, m2) /\ (m = a => m2 = a)
  BY <1>11
<1>16. ListOf' = X /\ Entry' = Entry
  BY <1>0, <1>6 DEF ListOf, Entry
<1>17. ListsType'
  <2>1. refIdxLX' \in 0 .. slice'.active
    BY <1>0, <1>4, <1>5, <1>9
  <2>2. listX' \in [0 .. 1 -> [Indices -> Entry']]
    BY <1>3, <1>14, <1>16
  <2>3. wanted' \in [1 .. slice'.active -> Entry']
    BY <1>0, <1>3, <1>4, <1>11, <1>13, <1>16
  <2>4. slice' \in Slices /\ reordering' \in {"none", "list_0", "list_1", "exit", "null_read", "ready"}
    BY <1>0, <1>1
  <2> QED
    BY <1>0, <2>1, <2>2, <2>3, <2>4 DEF ListsType
<1>18. AsWanted'
  <2>1. Agree(listX'[ListOf'], wanted', refIdxLX', slice'.active, m2)
    BY <1>0, <1>4, <1>5, <1>13, <1>14, <1>15, <1>16
  <2>2. slice'.active <= Cardinality(slice'.refs) => m2 = slice'.active
    BY <1>0, <1>4, <1>10, <1>15
  <2>3. slice'.type # "I"
    BY <1>0, <1>1 DEF ListsInv, AsWanted
  <2> QED
    BY <2>1, <2>2, <2>3 DEF AsWanted
<1>19. InTheirTurn'
  <2>1. ASSUME reordering' = "list_1" PROVE slice'.type = "B" /\ listX'[0][slice'.active - 1] # NoRef
    <3>1. X = 1
      BY <1>0, <1>6, <2>1 DEF ListOf
    <3>2. listX'[0] = listX[0]
      BY <1>14, <3>1
    <3> QED
      BY <1>0, <2>1, <3>2 DEF ListsInv, InTheirTurn
  <2>2. ASSUME reordering' = "list_0" PROVE listX'[1] = Entries(slice', InitialList(slice', 1))
    <3>1. X = 0
      BY <1>0, <1>6, <2>2 DEF ListOf
    <3>2. listX'[1] = listX[1]
      BY <1>14, <3>1
    <3> QED
      BY <1>0, <2>2, <3>2 DEF ListsInv, InTheirTurn
  <2>3. refIdxLX' # 0
    BY <1>0, <1>5
  <2> QED
    BY <2>1, <2>2, <2>3 DEF InTheirTurn
<1>20. ASSUME Whole', NEW i \in 1 .. slice'.active PROVE listX'[ListOf'][i - 1] = wanted'[i]
  <2>1. \A k \in 1 .. a : W2[k] # NoRef
    <3>1. Len(wanted') = a
      BY <1>11, <1>13
    <3> QED
      BY <1>13, <1>20, <3>1 DEF Whole
  <2>2. r + 1 \in Nat
    OBVIOUS
  <2>3. \A k \in 1 .. a : L2[k - 1] = W2[k]
    BY <1>15, <2>1, <2>2, WholeAgrees
  <2> QED
    BY <1>0, <1>4, <1>13, <1>14, <1>16, <1>20, <2>3
<1>21. ListsRight'
  <2>1. refIdxLX' # 0 /\ reordering' \in {"list_0", "list_1"}
    BY <1>0, <1>1, <1>5
  <2> QED
    BY <1>20, <2>1 DEF ListsRight
<1> QED
  BY <1>17, <1>18, <1>19, <1>21 DEF ListsInv

LEMMA ShortTermRight ==
  ASSUME ListsInv, ReorderShortTerm
  PROVE  ListsInv'
<1>1. Reordering /\ refIdxLX' = refIdxLX + 1 /\ slice' = slice /\ reordering' = reordering
  BY DEF ReorderShortTerm
<1>2. PICK p \in Short(slice), idc \in {0, 1} :
        \E noWrap \in {picNumLXNoWrap(idc, AbsDiff(idc, p))} :
          /\ listX' = [listX EXCEPT ![ListOf] = reorder_short_term(listX[ListOf], WrappedNum(noWrap))]
          /\ picNumLXPred' = noWrap
          /\ wanted' = MoveToFront(p)
  BY Zenon DEF ReorderShortTerm
<1>3. slice \in Slices /\ picNumLXPred \in 0 .. MaxPicNum - 1
  BY DEF ListsInv, ListsType
<1>4. picNumLXNoWrap(idc, AbsDiff(idc, p)) = p.num
  BY <1>3, NumberMeant
<1>5. /\ listX' = [listX EXCEPT ![ListOf] = reorder_short_term(listX[ListOf], WrappedNum(p.num))]
      /\ picNumLXPred' = p.num /\ wanted' = MoveToFront(p)
  BY <1>2, <1>4
<1>6. /\ WrappedNum(p.num) = pic_num(slice, p)
      /\ get_short_term_pic(slice, pic_num(slice, p)) = p
      /\ {q \in Short(slice) : pic_num(slice, q) = pic_num(slice, p)} = {p}
  BY <1>3, OnePicture
<1>11. PICK gone : gone = {NoRef} \cup {q \in Short(slice) : pic_num(slice, q) = pic_num(slice, p)}
  OBVIOUS
<1>7. reorder_short_term(listX[ListOf], WrappedNum(p.num))
        = CloseUp(ShiftIn(listX[ListOf], refIdxLX, slice.active, p), refIdxLX, slice.active, gone)
  BY <1>6, <1>11 DEF reorder_short_term
<1>8. p \in slice.refs /\ p.num \in 0 .. MaxPicNum - 1
  BY <1>3, SliceTyped DEF Short
<1>9. p \in gone /\ \A x \in gone : x = p \/ x = NoRef
  BY <1>6, <1>11
<1>10. /\ listX' = [listX EXCEPT ![ListOf] = CloseUp(ShiftIn(listX[ListOf], refIdxLX, slice.active, p),
                                                     refIdxLX, slice.active, gone)]
       /\ picNumLXPred' \in 0 .. MaxPicNum - 1
  BY <1>5, <1>7, <1>8
<1> QED
  <2>1. Command(p, gone)
    BY <1>1, <1>5, <1>8, <1>9, <1>10, Zenon DEF Command
  <2> QED
    BY <2>1, CommandRight

LEMMA LongTermRight ==
  ASSUME ListsInv, ReorderLongTerm
  PROVE  ListsInv'
<1>1. Reordering /\ slice' = slice /\ picNumLXPred' = picNumLXPred
  BY DEF ReorderLongTerm
<1>2. PICK p \in Long(slice) :
        IF NullRead(listX[ListOf])
        THEN reordering' = "null_read" /\ listX' = listX /\ wanted' = wanted /\ refIdxLX' = refIdxLX
        ELSE /\ listX' = [listX EXCEPT ![ListOf] = reorder_long_term(listX[ListOf], p.num)]
             /\ wanted' = MoveToFront(p)
             /\ refIdxLX' = refIdxLX + 1
             /\ reordering' = reordering
  BY Zenon DEF ReorderLongTerm
<1>3. /\ slice \in Slices /\ picNumLXPred \in 0 .. MaxPicNum - 1 /\ refIdxLX \in 0 .. slice.active
      /\ listX \in [0 .. 1 -> [Indices -> Entry]]
      /\ reordering \in {"list_0", "list_1"} /\ refIdxLX < slice.active
      /\ wanted \in [1 .. slice.active -> Entry]
  BY <1>1 DEF ListsInv, ListsType, Reordering
<1>4. /\ slice.active \in Nat /\ 1 <= slice.active /\ slice.active < MaxListSize /\ MaxListSize \in Nat
  BY <1>3, SliceTyped
(* An empty entry is met only where the slice has too many entries active.    *)
<1>5. CASE NullRead(listX[ListOf])
  <2>1. reordering' = "null_read" /\ listX' = listX /\ wanted' = wanted /\ refIdxLX' = refIdxLX
    BY <1>2, <1>5
  <2>2. Entry' = Entry
    BY <1>1 DEF Entry
  <2>3. ListsType'
    BY <1>1, <1>3, <2>1, <2>2 DEF ListsType
  <2>4. slice.active > Cardinality(slice.refs)
    <3>1. PICK i \in refIdxLX .. slice.active - 1 : listX[ListOf][i] = NoRef
      BY <1>5 DEF NullRead
    <3>2. PICK m : /\ Agree(listX[ListOf], wanted, refIdxLX, slice.active, m)
                   /\ slice.active <= Cardinality(slice.refs) => m = slice.active
      BY <1>3 DEF ListsInv, AsWanted
    <3>3. \A k \in 1 .. m : listX[ListOf][k - 1] = wanted[k] /\ wanted[k] # NoRef
      BY <3>2 DEF Agree
    <3>4. i \in Int /\ 0 <= i /\ i < slice.active /\ i + 1 \in 1 .. slice.active /\ (i + 1) - 1 = i
      BY <1>3, <1>4
    <3>5. m # slice.active
      BY <3>1, <3>3, <3>4
    <3>6. Cardinality(slice.refs) \in Nat
      BY <1>3, SliceTyped
    <3> QED
      BY <1>4, <3>2, <3>5, <3>6
  <2>5. AsWanted' /\ InTheirTurn'
    BY <2>1 DEF AsWanted, InTheirTurn
  <2>6. ListsRight'
    BY <1>1, <2>1, <2>4 DEF ListsRight
  <2> QED
    BY <2>3, <2>5, <2>6 DEF ListsInv
<1>6. CASE ~NullRead(listX[ListOf])
  <2>1. /\ listX' = [listX EXCEPT ![ListOf] = reorder_long_term(listX[ListOf], p.num)]
        /\ wanted' = MoveToFront(p) /\ refIdxLX' = refIdxLX + 1 /\ reordering' = reordering
    BY <1>2, <1>6
  <2>2. get_long_term_pic(slice, p.num) = p /\ {q \in Long(slice) : q.num = p.num} = {p}
    BY <1>3, OnePicture
  <2>3. reorder_long_term(listX[ListOf], p.num)
          = CloseUp(ShiftIn(listX[ListOf], refIdxLX, slice.active, p), refIdxLX, slice.active, {p})
    BY <2>2 DEF reorder_long_term
  <2>4. p \in slice.refs
    BY DEF Long
  <2>5. /\ listX' = [listX EXCEPT ![ListOf] = CloseUp(ShiftIn(listX[ListOf], refIdxLX, slice.active, p),
                                                      refIdxLX, slice.active, {p})]
        /\ picNumLXPred' \in 0 .. MaxPicNum - 1
    BY <1>1, <1>3, <2>1, <2>3
  <2>6. p \in {p} /\ \A x \in {p} : x = p \/ x = NoRef
    OBVIOUS
  <2>7. Command(p, {p})
    BY <1>1, <2>1, <2>4, <2>5, <2>6, Zenon DEF Command
  <2> QED
    BY <2>7, CommandRight
<1> QED
  BY <1>5, <1>6
LEMMA EndRight ==
  ASSUME ListsInv, EndOfCommands
  PROVE  ListsInv'
<1>1. /\ slice' = slice /\ listX' = listX /\ Entry' = Entry /\ reordering \in {"list_0", "list_1"}
  BY DEF EndOfCommands, Entry
<1>2. /\ slice \in Slices /\ picNumLXPred \in 0 .. MaxPicNum - 1 /\ refIdxLX \in 0 .. slice.active
      /\ listX \in [0 .. 1 -> [Indices -> Entry]] /\ wanted \in [1 .. slice.active -> Entry]
  BY <1>1 DEF ListsInv, ListsType
<1>3. /\ slice.active \in Nat /\ 1 <= slice.active /\ slice.active < MaxListSize /\ MaxListSize \in Nat
      /\ slice.type \in {"I", "P", "B"} /\ slice.frame_num \in 0 .. MaxPicNum - 1
      /\ NoRef \notin slice.refs
  BY <1>2, SliceTyped
<1>4. slice.type # "I"
  BY <1>1 DEF ListsInv, AsWanted
<1>5. CASE listX[ListOf][slice.active - 1] = NoRef
  <2>1. reordering' = "exit" /\ refIdxLX' = refIdxLX /\ picNumLXPred' = picNumLXPred /\ wanted' = wanted
    BY <1>5 DEF EndOfCommands
  <2>2. ListsType'
    BY <1>1, <1>2, <2>1 DEF ListsType
  <2>3. ~Whole'
    <3>1. SUFFICES ASSUME Whole' PROVE FALSE
      OBVIOUS
    <3>2. \A i \in 1 .. slice.active : wanted[i] # NoRef
      BY <1>2, <1>3, <2>1, <3>1 DEF Whole
    <3>3. PICK m : Agree(listX[ListOf], wanted, refIdxLX, slice.active, m)
      BY <1>1 DEF ListsInv, AsWanted
    <3>4. refIdxLX \in Nat
      BY <1>2, <1>3
    <3>5. \A i \in 1 .. slice.active : listX[ListOf][i - 1] = wanted[i]
      BY <1>3, <3>2, <3>3, <3>4, WholeAgrees
    <3>6. slice.active \in 1 .. slice.active
      BY <1>3
    <3> QED
      BY <1>5, <3>2, <3>5, <3>6
  <2>4. AsWanted' /\ InTheirTurn'
    BY <2>1 DEF AsWanted, InTheirTurn
  <2>5. ListsRight'
    BY <2>1, <2>3 DEF ListsRight
  <2> QED
    BY <2>2, <2>4, <2>5 DEF ListsInv
<1>6. CASE listX[ListOf][slice.active - 1] # NoRef
  <2>1. /\ reordering' = (IF reordering = "list_0" /\ slice.type = "B" THEN "list_1" ELSE "ready")
        /\ refIdxLX' = 0 /\ picNumLXPred' = slice.frame_num
        /\ wanted' = (IF reordering' = "list_1" THEN Expected(slice, 1) ELSE wanted)
    BY <1>6 DEF EndOfCommands
(* List 0 is whole, whichever list this was.                                  *)
  <2>2. listX[0][slice.active - 1] # NoRef
    <3>1. CASE reordering = "list_0"
      BY <1>6, <3>1 DEF ListOf
    <3>2. CASE reordering = "list_1"
      BY <3>2 DEF ListsInv, InTheirTurn
    <3> QED
      BY <1>1, <3>1, <3>2
  <2>3. CASE ~(reordering = "list_0" /\ slice.type = "B")
    <3>1. reordering' = "ready" /\ wanted' = wanted
      BY <2>1, <2>3
    <3>2. ListsType'
      BY <1>1, <1>2, <1>3, <2>1, <3>1 DEF ListsType
    <3>3. AsWanted' /\ InTheirTurn'
      BY <3>1 DEF AsWanted, InTheirTurn
    <3>4. ListsRight'
      BY <1>1, <2>2, <3>1 DEF ListsRight
    <3> QED
      BY <3>2, <3>3, <3>4 DEF ListsInv
  <2>4. CASE reordering = "list_0" /\ slice.type = "B"
    <3> DEFINE E == Entries(slice, InitialList(slice, 1))
               W == Expected(slice, 1)
    <3>1. reordering' = "list_1" /\ wanted' = W /\ ListOf' = 1
      BY <2>1, <2>4 DEF ListOf
    <3>2. listX[1] = E
      BY <2>4 DEF ListsInv, InTheirTurn
    <3>3. EachOnce(InitialList(slice, 1), slice.refs)
      BY <1>2, <2>4, InitialOnce
    <3>4. /\ W \in [1 .. slice.active -> slice.refs \cup {NoRef}]
          /\ \E m : /\ Agree(E, W, 0, slice.active, m)
                    /\ slice.active <= Cardinality(slice.refs) => m = slice.active
      BY <1>2, <3>3, ExpectedAgrees
    <3>5. PICK m : Agree(E, W, 0, slice.active, m) /\ (slice.active <= Cardinality(slice.refs) => m = slice.active)
      BY <3>4
    <3> HIDE DEF E, W
    <3>6. ListsType'
      <4>1. wanted' \in [1 .. slice'.active -> Entry']
        BY <1>1, <3>1, <3>4 DEF Entry
      <4> QED
        BY <1>1, <1>2, <1>3, <2>1, <3>1, <4>1 DEF ListsType
    <3>7. AsWanted'
      <4>1. Agree(listX'[ListOf'], wanted', refIdxLX', slice'.active, m)
        BY <1>1, <2>1, <3>1, <3>2, <3>5
      <4>2. slice'.active <= Cardinality(slice'.refs) => m = slice'.active
        BY <1>1, <3>5
      <4>3. slice'.type # "I"
        BY <1>1, <1>4
      <4> QED
        BY <4>1, <4>2, <4>3 DEF AsWanted
    <3>8. InTheirTurn'
      BY <1>1, <2>2, <2>4, <3>1 DEF InTheirTurn
    <3>9. ASSUME Whole', NEW i \in 1 .. slice'.active PROVE listX'[ListOf'][i - 1] = wanted'[i]
      <4>1. Len(wanted') = slice.active
        BY <1>3, <3>1, <3>4
      <4>2. \A k \in 1 .. slice.active : W[k] # NoRef
        BY <3>1, <3>9, <4>1 DEF Whole
      <4>3. \A k \in 1 .. slice.active : E[k - 1] = W[k]
        BY <1>3, <3>5, <4>2, WholeAgrees
      <4> QED
        BY <1>1, <3>1, <3>2, <3>9, <4>3
    <3>10. ListsRight'
      BY <3>1, <3>9 DEF ListsRight
    <3> QED
      BY <3>6, <3>7, <3>8, <3>10 DEF ListsInv
  <2> QED
    BY <2>3, <2>4
<1> QED
  BY <1>5, <1>6

(* The reference lists of a slice (mbuffer.c:857-1355): for any slices,        *)
(* references and active sizes, and any commands the sender may give.          *)
THEOREM RefListsRight == ListsSpec => []ListsRight
<1>1. ListsInit => ListsInv
  BY ListsInitially
<1>2. ListsInv /\ [ListsNext]_listVars => ListsInv'
  <2> SUFFICES ASSUME ListsInv, [ListsNext]_listVars PROVE ListsInv'
    OBVIOUS
  <2>1. CASE init_lists_baseline
    BY <2>1, MadeRight
  <2>2. CASE ReorderShortTerm
    BY <2>2, ShortTermRight
  <2>3. CASE ReorderLongTerm
    BY <2>3, LongTermRight
  <2>4. CASE EndOfCommands
    BY <2>4, EndRight
  <2>5. CASE UNCHANGED listVars
    <3>1. /\ slice' = slice /\ listX' = listX /\ reordering' = reordering /\ refIdxLX' = refIdxLX
          /\ picNumLXPred' = picNumLXPred /\ wanted' = wanted
      BY <2>5 DEF listVars
    <3>2. ListsType' /\ AsWanted' /\ InTheirTurn'
      BY <3>1 DEF ListsInv, ListsType, AsWanted, InTheirTurn, Entry, ListOf
    <3>3. ListsRight'
      BY <3>1 DEF ListsInv, ListsRight, Whole, ListOf
    <3> QED
      BY <3>2, <3>3 DEF ListsInv
  <2> QED
    BY <2>1, <2>2, <2>3, <2>4, <2>5 DEF ListsNext
<1>3. ListsInv => ListsRight
  BY DEF ListsInv
<1> QED
  BY <1>1, <1>2, <1>3, PTL DEF ListsSpec
-----------------------------------------------------------------------------
(* The picture order count.  Between pictures the decoder's counters say what  *)
(* the sender's do: the high and the low part of the last reference's count    *)
(* (type 0), or the frame number it has got to with the numbers of the cycles   *)
(* before it (types 1 and 2).  Type 2 may be D numbers ahead, which keeps the   *)
(* order.                                                                   *)

(* The remainder of a number not far away. *)
LEMMA RemainderNear ==
  ASSUME NEW M \in Int, M > 0, NEW a \in Int, NEW d \in Int, -M <= d, d <= M
  PROVE  /\ a % M \in 0 .. M - 1
         /\ (a + d) % M = IF (a % M) + d < 0 THEN (a % M) + d + M
                          ELSE IF (a % M) + d >= M THEN (a % M) + d - M ELSE (a % M) + d
<1>1. PICK r \in 0 .. M - 1, q \in Int : r = a % M /\ q = a \div M /\ a = M * q + r
  OBVIOUS
<1>2. \A p \in Int, s \in 0 .. M - 1 : (M * p + s) % M = s
  OBVIOUS
<1>3. CASE r + d < 0
  <2>1. a + d = M * (q - 1) + (r + d + M) /\ r + d + M \in 0 .. M - 1 /\ q - 1 \in Int
    BY <1>1, <1>3
  <2>2. (a + d) % M = r + d + M
    BY <1>2, <2>1
  <2> QED
    BY <1>1, <1>3, <2>2
<1>4. CASE r + d >= M
  <2>1. a + d = M * (q + 1) + (r + d - M) /\ r + d - M \in 0 .. M - 1 /\ q + 1 \in Int
    BY <1>1, <1>4
  <2>2. (a + d) % M = r + d - M
    BY <1>2, <2>1
  <2> QED
    BY <1>1, <1>4, <2>2
<1>5. CASE 0 <= r + d /\ r + d < M
  <2>1. a + d = M * q + (r + d) /\ r + d \in 0 .. M - 1
    BY <1>1, <1>5
  <2>2. (a + d) % M = r + d
    BY <1>2, <2>1
  <2> QED
    BY <1>1, <1>5, <2>2
<1> QED
  BY <1>1, <1>3, <1>4, <1>5

(* Division with remainder, there and back. *)
LEMMA Divided ==
  ASSUME NEW c \in Nat, c > 0, NEW a \in Int
  PROVE  \E q \in Int, r \in 0 .. c - 1 : q = a \div c /\ r = a % c /\ a = c * q + r
OBVIOUS

(* A remainder and its quotient name the number. *)
LEMMA Composed ==
  ASSUME NEW c \in Nat, c > 0, NEW q \in Int, NEW r \in 0 .. c - 1, NEW a \in Int, a = c * q + r
  PROVE  a \div c = q /\ a % c = r
OBVIOUS

(* One more: the remainder goes on by one, or starts again. *)
LEMMA OneMore ==
  ASSUME NEW a \in Int, NEW b \in Int
  PROVE  (a + 1) * b = a * b + b /\ a * b \in Int
OBVIOUS

(* The quotient goes on by one when the remainder starts again. *)
LEMMA NextQuotient ==
  ASSUME NEW c \in Nat, c > 0, NEW a \in Int
  PROVE  /\ a % c # c - 1 => (a + 1) \div c = a \div c /\ (a + 1) % c = (a % c) + 1
         /\ a % c = c - 1 => (a + 1) \div c = (a \div c) + 1 /\ (a + 1) % c = 0
<1>1. PICK q \in Int, r \in 0 .. c - 1 : q = a \div c /\ r = a % c /\ a = c * q + r
  BY Divided
<1>2. PICK b \in Int, p \in Int : b = a + 1 /\ p = q + 1
  OBVIOUS
<1>3. CASE r # c - 1
  <2>1. PICK e \in 0 .. c - 1 : e = r + 1
    BY <1>3
  <2>2. b = c * q + e
    BY <1>1, <1>2, <2>1
  <2>3. b \div c = q /\ b % c = e
    BY <2>2, Composed
  <2> QED
    BY <1>1, <1>2, <1>3, <2>1, <2>3
<1>4. CASE r = c - 1
  <2>1. PICK e \in 0 .. c - 1 : e = 0
    OBVIOUS
  <2>2. c * p = c * q + c
    BY <1>2
  <2>3. b = c * p + e
    BY <1>1, <1>2, <1>4, <2>1, <2>2
  <2>4. b \div c = p /\ b % c = e
    BY <2>3, Composed
  <2> QED
    BY <1>1, <1>2, <1>4, <2>1, <2>4
<1> QED
  BY <1>1, <1>3, <1>4

(* The least of two. *)
LEMMA LeastOfTwo ==
  ASSUME NEW a \in Int, NEW b \in Int
  PROVE  Min({a, b}) = IF a <= b THEN a ELSE b
<1>1. PICK m \in {a, b} : m = (IF a <= b THEN a ELSE b) /\ \A y \in {a, b} : m <= y
  OBVIOUS
<1>2. Min({a, b}) \in {a, b} /\ \A y \in {a, b} : Min({a, b}) <= y
  BY <1>1, Zenon DEF Min
<1> QED
  BY <1>1, <1>2

(* The high part follows the wraps of the low part. *)
LEMMA HighPart ==
  ASSUME NEW base \in Int, NEW step \in Int,
         -MaxPicOrderCntLsb < 2 * step, 2 * step <= MaxPicOrderCntLsb
  PROVE  LET L == MaxPicOrderCntLsb
             lsb == (base + step) % L
             msb == Msb(lsb, base - (base % L), base % L)
         IN  lsb \in 0 .. L - 1 /\ msb + lsb = base + step
<1>1. PICK L \in Int : L = MaxPicOrderCntLsb /\ L > 0 /\ -L < 2 * step /\ 2 * step <= L
  BY PicOrderAssumption
<1>2. PICK r \in 0 .. L - 1 : r = base % L
  BY <1>1, RemainderNear
<1>3. (base + step) % L = IF r + step < 0 THEN r + step + L ELSE IF r + step >= L THEN r + step - L ELSE r + step
  <2>1. -L <= step /\ step <= L
    BY <1>1
  <2> QED
    BY <1>1, <1>2, <2>1, RemainderNear
<1>4. PICK s \in 0 .. L - 1 : s = (base + step) % L
  BY <1>1, <1>3
<1>5. Msb(s, base - r, r) + s = base + step
  BY <1>1, <1>3, <1>4 DEF Msb
<1> QED
  BY <1>1, <1>2, <1>4, <1>5

(* Something that is counted up step by step can be defined that way. *)
IsRecursion(f, n, S, a, g) == f \in [0 .. n -> S] /\ f[0] = a /\ \A k \in 1 .. n : f[k] = g[<<f[k - 1], k>>]

(* A function with a first value and a step has the values the step gives. *)
LEMMA Recursion ==
  ASSUME NEW n \in Nat, NEW S, NEW a \in S, NEW g, \A k \in 1 .. n, s \in S : g[<<s, k>>] \in S
  PROVE  \E f : IsRecursion(f, n, S, a, g)
<1> DEFINE SumIs(m) == \E f \in [0 .. m -> S] : f[0] = a /\ \A k \in 1 .. m : f[k] = g[<<f[k - 1], k>>]
           Failing == {m \in 0 .. n : ~SumIs(m)}
<1>1. SumIs(0)
  <2>1. [k \in 0 .. 0 |-> a] \in [0 .. 0 -> S] /\ [k \in 0 .. 0 |-> a][0] = a /\ 1 .. 0 = {}
    OBVIOUS
  <2> QED
    BY <2>1
<1>2. ASSUME NEW m \in 1 .. n, SumIs(m - 1)
      PROVE  SumIs(m)
  <2>1. PICK f \in [0 .. m - 1 -> S] : f[0] = a /\ \A k \in 1 .. m - 1 : f[k] = g[<<f[k - 1], k>>]
    BY <1>2
  <2>2. PICK v \in S : v = g[<<f[m - 1], m>>]
    BY <2>1
  <2>3. PICK h : h = [k \in 0 .. m |-> IF k = m THEN v ELSE f[k]]
    OBVIOUS
  <2>4. h \in [0 .. m -> S] /\ h[0] = a
    BY <2>1, <2>3
  <2>5. \A k \in 1 .. m : h[k] = g[<<h[k - 1], k>>]
    <3> SUFFICES ASSUME NEW k \in 1 .. m PROVE h[k] = g[<<h[k - 1], k>>]
      OBVIOUS
    <3>1. h[k - 1] = f[k - 1]
      BY <2>3
    <3>2. CASE k = m
      <4>1. h[k] = v
        BY <2>3, <3>2
      <4> QED
        BY <2>2, <3>1, <3>2, <4>1, Zenon
    <3>3. CASE k # m
      <4>1. h[k] = f[k] /\ k \in 1 .. m - 1
        BY <2>3, <3>3
      <4> QED
        BY <2>1, <3>1, <4>1, Zenon
    <3> QED
      BY <3>2, <3>3
  <2> QED
    BY <2>4, <2>5, Zenon
<1> HIDE DEF SumIs
<1>3. Failing = {}
  <2> SUFFICES ASSUME Failing # {} PROVE FALSE
    OBVIOUS
  <2>1. IsWellFoundedOn(OpToRel(<, Nat), Nat)
    BY NatLessThanWellFounded
  <2>2. Failing \subseteq Nat
    OBVIOUS
  <2>3. PICK m \in Failing : \A j \in Failing : ~(<<j, m>> \in OpToRel(<, Nat))
    BY <2>1, <2>2, WFMin
  <2>4. m \in 0 .. n /\ ~SumIs(m)
    OBVIOUS
  <2>5. CASE m = 0
    BY <2>4, <2>5, <1>1
  <2>6. CASE m # 0
    <3>1. m \in 1 .. n /\ m - 1 \in 0 .. n /\ m - 1 < m /\ m - 1 \in Nat /\ m \in Nat
      BY <2>4, <2>6
    <3>2. ~(m - 1 \in Failing)
      BY <2>3, <3>1 DEF OpToRel
    <3>3. SumIs(m - 1)
      BY <3>1, <3>2
    <3> QED
      BY <1>2, <2>4, <3>1, <3>3
  <2> QED
    BY <2>5, <2>6
<1>4. SumIs(n)
  BY <1>3
<1> QED
  BY <1>4 DEF SumIs, IsRecursion

(* What holds at the start and is handed on holds all along. *)
LEMMA Along ==
  ASSUME NEW n \in Nat, NEW f, NEW J, f[0] \in J[0], \A k \in 1 .. n : f[k - 1] \in J[k - 1] => f[k] \in J[k]
  PROVE  \A k \in 0 .. n : f[k] \in J[k]
<1> DEFINE Failing == {m \in 0 .. n : f[m] \notin J[m]}
<1>1. ASSUME Failing # {} PROVE FALSE
  <2>1. IsWellFoundedOn(OpToRel(<, Nat), Nat)
    BY NatLessThanWellFounded
  <2>2. Failing \subseteq Nat
    OBVIOUS
  <2>3. PICK m \in Failing : \A j \in Failing : ~(<<j, m>> \in OpToRel(<, Nat))
    BY <1>1, <2>1, <2>2, WFMin
  <2>4. m \in 0 .. n /\ f[m] \notin J[m]
    OBVIOUS
  <2>5. m \in 1 .. n /\ m - 1 \in 0 .. n /\ m - 1 < m /\ m - 1 \in Nat /\ m \in Nat
    BY <2>4
  <2>6. ~(m - 1 \in Failing)
    BY <2>3, <2>5 DEF OpToRel
  <2>7. f[m - 1] \in J[m - 1]
    BY <2>5, <2>6
  <2> QED
    BY <2>4, <2>5, <2>7
<1> QED
  BY <1>1

(* The sums of the first so many numbers. *)
LEMMA SumsAre ==
  ASSUME NEW n \in Nat, NEW f, \A k \in 1 .. n : f[k] \in Int
  PROVE  /\ PartialSums(f, n) \in [0 .. n -> Int] /\ PartialSums(f, n)[0] = 0
         /\ \A k \in 1 .. n : PartialSums(f, n)[k] = PartialSums(f, n)[k - 1] + f[k]
<1> DEFINE IsSums(S) == S = [k \in 0 .. n |-> IF k = 0 THEN 0 ELSE S[k - 1] + f[k]]
<1>1. \E S : IsSums(S)
  <2>1. PICK g : g = [x \in Int \X (1 .. n) |-> x[1] + f[x[2]]]
    OBVIOUS
  <2>2. \A k \in 1 .. n, s \in Int : g[<<s, k>>] = s + f[k] /\ g[<<s, k>>] \in Int
    BY <2>1
  <2>3. PICK S : S \in [0 .. n -> Int] /\ S[0] = 0 /\ \A k \in 1 .. n : S[k] = g[<<S[k - 1], k>>]
    <3>1. PICK I, a : I = Int /\ a = 0
      OBVIOUS
    <3>2. a \in I
      BY <3>1
    <3>3. \A k \in 1 .. n, s \in I : g[<<s, k>>] \in I
      BY <2>2, <3>1
    <3>4. PICK S : IsRecursion(S, n, I, a, g)
      BY <3>2, <3>3, Recursion, Zenon
    <3> QED
      BY <3>1, <3>4 DEF IsRecursion
  <2>4. \A k \in 1 .. n : S[k] = S[k - 1] + f[k]
    <3> SUFFICES ASSUME NEW k \in 1 .. n PROVE S[k] = S[k - 1] + f[k]
      OBVIOUS
    <3>1. S[k - 1] \in Int
      BY <2>3
    <3> QED
      BY <2>2, <2>3, <3>1, Zenon
  <2>5. S = [k \in 0 .. n |-> S[k]] /\ \A k \in 0 .. n : S[k] = IF k = 0 THEN 0 ELSE S[k - 1] + f[k]
    BY <2>3, <2>4
  <2>6. S = [k \in 0 .. n |-> IF k = 0 THEN 0 ELSE S[k - 1] + f[k]]
    BY <2>5
  <2> QED
    BY <2>6
<1>2. PartialSums(f, n) = CHOOSE S : IsSums(S)
  BY DEF PartialSums
<1>3. PICK S : S = PartialSums(f, n) /\ IsSums(S)
  <2> HIDE DEF IsSums
  <2>1. IsSums(CHOOSE S : IsSums(S))
    BY <1>1, Zenon
  <2> QED
    BY <1>2, <2>1, Zenon
<1>4. S = [k \in 0 .. n |-> S[k]] /\ S[0] = 0 /\ \A k \in 1 .. n : S[k] = S[k - 1] + f[k]
  BY <1>3
<1>5. \A k \in 0 .. n : S[k] \in Int
  <2>1. PICK J : J = [k \in 0 .. n |-> Int]
    OBVIOUS
  <2>2. S[0] \in J[0] /\ \A k \in 1 .. n : S[k - 1] \in J[k - 1] => S[k] \in J[k]
    <3>1. \A k \in 0 .. n : J[k] = Int
      BY <2>1
    <3>2. S[0] \in J[0]
      BY <1>4, <3>1
    <3>3. ASSUME NEW k \in 1 .. n, S[k - 1] \in J[k - 1] PROVE S[k] \in J[k]
      <4>1. S[k - 1] \in Int /\ S[k] = S[k - 1] + f[k] /\ f[k] \in Int
        <5>1. k - 1 \in 0 .. n
          OBVIOUS
        <5> QED
          BY <1>4, <3>1, <3>3, <5>1
      <4>2. S[k] \in Int
        BY <4>1
      <4> QED
        BY <3>1, <4>2
    <3> QED
      BY <3>2, <3>3
  <2>3. \A k \in 0 .. n : S[k] \in J[k]
    BY <2>2, Along
  <2> QED
    BY <2>1, <2>3
<1> QED
  BY <1>3, <1>4, <1>5

(* Where the sum is cut does not matter to what comes before. *)
LEMMA SumsPrefix ==
  ASSUME NEW n \in Nat, NEW f, \A k \in 1 .. n : f[k] \in Int, NEW m \in 0 .. n
  PROVE  SumTo(f, m) = PartialSums(f, n)[m]
<1>1. PICK S : S = PartialSums(f, n) /\ S \in [0 .. n -> Int] /\ S[0] = 0 /\ \A k \in 1 .. n : S[k] = S[k - 1] + f[k]
  BY SumsAre
<1>2. PICK T : T = PartialSums(f, m) /\ T \in [0 .. m -> Int] /\ T[0] = 0 /\ \A k \in 1 .. m : T[k] = T[k - 1] + f[k]
  <2>1. m \in Nat /\ \A k \in 1 .. m : f[k] \in Int
    OBVIOUS
  <2> QED
    BY <2>1, SumsAre
<1>3. PICK J : J = [k \in 0 .. m |-> {S[k]}]
  OBVIOUS
<1>4. T[0] \in J[0] /\ \A k \in 1 .. m : T[k - 1] \in J[k - 1] => T[k] \in J[k]
  BY <1>1, <1>2, <1>3
<1>5. \A k \in 0 .. m : T[k] \in J[k]
  BY <1>4, Along
<1> QED
  BY <1>1, <1>2, <1>3, <1>5 DEF SumTo

(* The sum over a cycle again and again: whole cycles, and a piece of one. *)
LEMMA CyclicSum ==
  ASSUME NEW o \in Seq(Int), Len(o) > 0, NEW n \in Nat, n > 0
  PROVE  PartialSums([k \in 1 .. n |-> o[((k - 1) % Len(o)) + 1]], n)[n]
           = ((n - 1) \div Len(o)) * SumTo(o, Len(o)) + SumTo(o, ((n - 1) % Len(o)) + 1)
<1>1. PICK c \in Nat : c = Len(o) /\ c > 0
  OBVIOUS
<1>2. \A k \in 1 .. c : o[k] \in Int
  BY <1>1
<1>3. PICK B : B = PartialSums(o, c) /\ B \in [0 .. c -> Int] /\ B[0] = 0 /\ \A k \in 1 .. c : B[k] = B[k - 1] + o[k]
  BY <1>2, SumsAre
<1>4. \A m \in 0 .. c : SumTo(o, m) = B[m]
  BY <1>2, <1>3, SumsPrefix
<1>5. PICK f : f = [k \in 1 .. n |-> o[((k - 1) % c) + 1]]
  OBVIOUS
<1>6. \A k \in 1 .. n : (k - 1) % c \in 0 .. c - 1 /\ f[k] = o[((k - 1) % c) + 1] /\ f[k] \in Int
  <2> SUFFICES ASSUME NEW k \in 1 .. n
               PROVE  (k - 1) % c \in 0 .. c - 1 /\ f[k] = o[((k - 1) % c) + 1] /\ f[k] \in Int
    OBVIOUS
  <2>1. (k - 1) % c \in 0 .. c - 1
    BY <1>1
  <2> QED
    BY <1>2, <1>5, <2>1
<1>7. PICK T : T = PartialSums(f, n) /\ T \in [0 .. n -> Int] /\ T[0] = 0 /\ \A k \in 1 .. n : T[k] = T[k - 1] + f[k]
  BY <1>6, SumsAre
<1> DEFINE WholeSum(k) == ((k - 1) \div c) * B[c] + B[((k - 1) % c) + 1]
<1>8. PICK J : J = [k \in 0 .. n |-> {IF k = 0 THEN 0 ELSE WholeSum(k)}]
  OBVIOUS
<1>9. ASSUME NEW k \in 1 .. n, T[k - 1] \in J[k - 1]
      PROVE  T[k] \in J[k]
  <2>1. T[k - 1] = IF k - 1 = 0 THEN 0 ELSE WholeSum(k - 1)
    BY <1>8, <1>9
  <2>2. T[k] = T[k - 1] + o[((k - 1) % c) + 1]
    BY <1>6, <1>7
  <2>3. CASE k = 1
    <3>1. (k - 1) \div c = 0 /\ (k - 1) % c = 0
      BY <1>1, <2>3
    <3>2. WholeSum(k) = B[1] /\ B[1] = o[1] /\ T[k] = o[1]
      BY <1>1, <1>2, <1>3, <2>1, <2>2, <2>3, <3>1
    <3> QED
      BY <1>8, <3>2
  <2>4. CASE k > 1
    <3>1. PICK q \in Int, r \in 0 .. c - 1 : q = (k - 2) \div c /\ r = (k - 2) % c /\ k - 2 = c * q + r
      <4>1. k - 2 \in Int
        OBVIOUS
      <4> QED
        BY <1>1, <4>1, Divided
    <3>2. T[k - 1] = q * B[c] + B[r + 1]
      <4>1. (k - 1) - 1 = k - 2 /\ k - 1 # 0
        BY <2>4
      <4> QED
        BY <2>1, <3>1, <4>1
    <3>4. CASE r < c - 1
      <4>1. k - 1 = c * q + (r + 1) /\ r + 1 \in 0 .. c - 1
        BY <3>1, <3>4
      <4>2. (k - 1) \div c = q /\ (k - 1) % c = r + 1
        <5>1. PICK a \in Int : a = k - 2 /\ a + 1 = k - 1
          OBVIOUS
        <5>2. a \div c = q /\ a % c = r /\ a % c # c - 1
          BY <3>1, <3>4, <5>1
        <5>3. (a + 1) \div c = a \div c /\ (a + 1) % c = (a % c) + 1
          BY <1>1, <5>2, NextQuotient
        <5> QED
          BY <5>1, <5>2, <5>3
      <4>3. B[r + 2] = B[r + 1] + o[r + 2] /\ B[r + 1] \in Int /\ o[r + 2] \in Int
        <5>1. r + 2 \in 1 .. c /\ r + 1 \in 0 .. c /\ (r + 2) - 1 = r + 1
          BY <3>4
        <5> QED
          BY <1>2, <1>3, <5>1
      <4>4. T[k] = q * B[c] + B[r + 1] + o[r + 2] /\ WholeSum(k) = q * B[c] + B[r + 2]
        BY <2>2, <3>2, <4>2
      <4>5. B[c] \in Int
        BY <1>1, <1>3
      <4>6. PICK x \in Int : x = q * B[c]
        BY <4>5
      <4>7. T[k] = WholeSum(k)
        <5>1. T[k] = x + B[r + 1] + o[r + 2] /\ WholeSum(k) = x + B[r + 2]
          BY <4>4, <4>6, Zenon
        <5> HIDE DEF WholeSum
        <5> QED
          BY <4>3, <4>6, <5>1
      <4> QED
        BY <1>8, <2>4, <4>7
    <3>5. CASE r = c - 1
      <4>1. k - 1 = c * (q + 1) + 0 /\ 0 \in 0 .. c - 1 /\ q + 1 \in Int
        BY <1>1, <3>1, <3>5
      <4>2. (k - 1) \div c = q + 1 /\ (k - 1) % c = 0
        <5>1. PICK a \in Int : a = k - 2 /\ a + 1 = k - 1
          OBVIOUS
        <5>2. a \div c = q /\ a % c = r /\ a % c = c - 1
          BY <3>1, <3>5, <5>1
        <5>3. (a + 1) \div c = (a \div c) + 1 /\ (a + 1) % c = 0
          BY <1>1, <5>2, NextQuotient
        <5> QED
          BY <5>1, <5>2, <5>3
      <4>3. PICK b \in Int : b = B[c]
        BY <1>1, <1>3
      <4>4. B[1] = o[1] /\ o[1] \in Int
        BY <1>1, <1>2, <1>3
      <4>5. T[k] = q * b + b + o[1]
        <5>1. B[r + 1] = b
          BY <1>1, <3>5, <4>3
        <5> QED
          BY <2>2, <3>2, <4>2, <4>3, <5>1
      <4>6. WholeSum(k) = (q + 1) * b + o[1]
        BY <4>2, <4>3, <4>4
      <4>7. (q + 1) * b = q * b + b
        BY <3>1, <4>3, OneMore
      <4> QED
        BY <1>8, <2>4, <4>5, <4>6, <4>7
    <3> QED
      BY <3>1, <3>4, <3>5
  <2> QED
    BY <2>3, <2>4
<1>10. \A k \in 0 .. n : T[k] \in J[k]
  <2>1. T[0] \in J[0]
    BY <1>7, <1>8
  <2> HIDE DEF WholeSum
  <2> QED
    BY <1>9, <2>1, Along
<1>11. T[n] = WholeSum(n)
  BY <1>8, <1>10
<1>12. SumTo(o, c) = B[c] /\ SumTo(o, ((n - 1) % c) + 1) = B[((n - 1) % c) + 1]
  <2>1. (n - 1) % c \in 0 .. c - 1
    BY <1>6
  <2> QED
    BY <1>4, <2>1
<1> QED
  BY <1>1, <1>5, <1>7, <1>11, <1>12

(* The decoder's counters and what a slice header gives. *)
Counters == [frame_num : Int, pre_frame_num : Int, PrevPicOrderCntMsb : Int, PrevPicOrderCntLsb : Int,
             PreviousFrameNum : Int, PreviousFrameNumOffset : Int, last_has_mmco_5 : BOOLEAN,
             toppoc : Int, bottompoc : Int, framepoc : Int]
Headers == [idr : BOOLEAN, disposable : BOOLEAN, mmco5 : BOOLEAN, frame_num : Int, lsb : Int,
            delta : Int, bottom : Int]

(* What an active parameter set holds. *)
LEMMA SpsTyped ==
  ASSUME pocSps \in PocSps
  PROVE  /\ Mode \in {0, 1, 2} /\ pocSps.offset_for_ref_frame \in Seq(Int)
         /\ pocSps.offset_for_non_ref_pic \in Int /\ pocSps.offset_for_top_to_bottom_field \in Int
<1>1. pocSps \in [pic_order_cnt_type : 0 .. 2, offset_for_ref_frame : Seq(Int),
                  offset_for_non_ref_pic : Int, offset_for_top_to_bottom_field : Int]
  BY PicOrderAssumption
<1> QED
  BY <1>1 DEF Mode

(* The counts of a picture are written, all else is left. *)
LEMMA PocWritten ==
  ASSUME NEW m \in Counters, NEW top \in Int, NEW bottom \in Int
  PROVE  LET r == WithPoc(m, top, bottom)
         IN  /\ r \in Counters
             /\ r.toppoc = top /\ r.bottompoc = bottom /\ r.framepoc = Min({top, bottom})
             /\ r.frame_num = m.frame_num /\ r.pre_frame_num = m.pre_frame_num
             /\ r.PrevPicOrderCntMsb = m.PrevPicOrderCntMsb /\ r.PrevPicOrderCntLsb = m.PrevPicOrderCntLsb
             /\ r.PreviousFrameNum = m.PreviousFrameNum /\ r.PreviousFrameNumOffset = m.PreviousFrameNumOffset
             /\ r.last_has_mmco_5 = m.last_has_mmco_5
<1>1. PICK f \in Int : f = Min({top, bottom})
  BY LeastOfTwo
<1>2. PICK r : r = [m EXCEPT !.toppoc = top, !.bottompoc = bottom, !.framepoc = f]
  OBVIOUS
<1>3. /\ r \in Counters
      /\ r.toppoc = top /\ r.bottompoc = bottom /\ r.framepoc = f
      /\ r.frame_num = m.frame_num /\ r.pre_frame_num = m.pre_frame_num
      /\ r.PrevPicOrderCntMsb = m.PrevPicOrderCntMsb /\ r.PrevPicOrderCntLsb = m.PrevPicOrderCntLsb
      /\ r.PreviousFrameNum = m.PreviousFrameNum /\ r.PreviousFrameNumOffset = m.PreviousFrameNumOffset
      /\ r.last_has_mmco_5 = m.last_has_mmco_5
  BY <1>1, <1>2 DEF Counters
<1>4. r = WithPoc(m, top, bottom)
  BY <1>1, <1>2 DEF WithPoc
<1> QED
  BY <1>1, <1>3, <1>4

(* What type 0 leaves. *)
Mode0Leaves(r, m, h, prevMsb, prevLsb, msb) ==
  /\ prevMsb = (IF h.idr \/ m.last_has_mmco_5 THEN 0 ELSE m.PrevPicOrderCntMsb)
  /\ prevLsb = (IF h.idr THEN 0 ELSE IF m.last_has_mmco_5 THEN m.toppoc ELSE m.PrevPicOrderCntLsb)
  /\ msb = Msb(h.lsb, prevMsb, prevLsb)
  /\ r.toppoc = msb + h.lsb /\ r.bottompoc = msb + h.lsb + h.bottom
  /\ r.framepoc = Min({msb + h.lsb, msb + h.lsb + h.bottom})
  /\ r.PrevPicOrderCntMsb = (IF h.disposable THEN prevMsb ELSE msb)
  /\ r.PrevPicOrderCntLsb = (IF h.disposable THEN prevLsb ELSE h.lsb)
Untouched(r, m) ==
  r.frame_num = m.frame_num /\ r.pre_frame_num = m.pre_frame_num /\ r.last_has_mmco_5 = m.last_has_mmco_5

(* PocMode0() counts from the high and the low part it starts with. *)
LEMMA Mode0Step ==
  ASSUME NEW m \in Counters, NEW h \in Headers
  PROVE  /\ PocMode0(m, h) \in Counters /\ Untouched(PocMode0(m, h), m)
         /\ \E prevMsb \in Int, prevLsb \in Int, msb \in Int : Mode0Leaves(PocMode0(m, h), m, h, prevMsb, prevLsb, msb)
<1>1. h.lsb \in Int /\ h.bottom \in Int /\ h.idr \in BOOLEAN /\ h.disposable \in BOOLEAN
  BY DEF Headers
<1>2. /\ m.PrevPicOrderCntMsb \in Int /\ m.PrevPicOrderCntLsb \in Int /\ m.toppoc \in Int /\ m.last_has_mmco_5 \in BOOLEAN
      /\ m.frame_num \in Int
  BY DEF Counters
<1>3. PICK prevMsb \in Int : prevMsb = (IF h.idr \/ m.last_has_mmco_5 THEN 0 ELSE m.PrevPicOrderCntMsb)
  BY <1>2
<1>4. PICK prevLsb \in Int : prevLsb = (IF h.idr THEN 0 ELSE IF m.last_has_mmco_5 THEN m.toppoc ELSE m.PrevPicOrderCntLsb)
  BY <1>2
<1>5. PICK msb \in Int : msb = Msb(h.lsb, prevMsb, prevLsb)
  <2>1. MaxPicOrderCntLsb \in Int
    BY PicOrderAssumption
  <2> QED
    BY <1>1, <2>1 DEF Msb
<1>6. PICK top \in Int, bottom \in Int : top = msb + h.lsb /\ bottom = msb + h.lsb + h.bottom
  BY <1>1
<1>7. PICK m1 : m1 = [m EXCEPT !.PreviousFrameNum = m.frame_num]
  OBVIOUS
<1>8. m1 \in Counters /\ Untouched(m1, m)
  BY <1>2, <1>7 DEF Counters, Untouched
<1>9. PICK n \in Counters : /\ n = WithPoc(m1, top, bottom) /\ Untouched(n, m1)
                            /\ n.toppoc = top /\ n.bottompoc = bottom /\ n.framepoc = Min({top, bottom})
  BY <1>8, PocWritten DEF Untouched
<1>10. PICK x \in Int, y \in Int : x = (IF h.disposable THEN prevMsb ELSE msb) /\ y = (IF h.disposable THEN prevLsb ELSE h.lsb)
  BY <1>1
<1>11. PICK r : r = [n EXCEPT !.PrevPicOrderCntMsb = x, !.PrevPicOrderCntLsb = y]
  OBVIOUS
<1>12. /\ r \in Counters /\ Untouched(r, n) /\ r.toppoc = n.toppoc /\ r.bottompoc = n.bottompoc /\ r.framepoc = n.framepoc
       /\ r.PrevPicOrderCntMsb = x /\ r.PrevPicOrderCntLsb = y
  BY <1>11 DEF Counters, Untouched
<1>13. r = PocMode0(m, h)
  BY <1>3, <1>4, <1>5, <1>6, <1>7, <1>9, <1>10, <1>11, Zenon DEF PocMode0
<1>14. Mode0Leaves(r, m, h, prevMsb, prevLsb, msb)
  BY <1>3, <1>4, <1>5, <1>6, <1>9, <1>10, <1>12 DEF Mode0Leaves
<1>15. Untouched(r, m)
  BY <1>8, <1>9, <1>12 DEF Untouched
<1> QED
  BY <1>12, <1>13, <1>14, <1>15

(* The numbers and the offset of types 1 and 2. *)
LEMMA OffsetTyped ==
  ASSUME NEW m \in Counters, NEW h \in Headers
  PROVE  OffsetNow(m, h) \in Int
<1>1. MaxFrameNum \in Int
  BY PicOrderAssumption
<1> QED
  BY <1>1 DEF OffsetNow, Counters, Headers

(* The sum up to somewhere in the cycle. *)
LEMMA SumTyped ==
  ASSUME pocSps \in PocSps, NEW x \in 0 .. Len(pocSps.offset_for_ref_frame)
  PROVE  SumTo(pocSps.offset_for_ref_frame, x) \in Int
<1>1. PICK o \in Seq(Int) : o = pocSps.offset_for_ref_frame
  BY SpsTyped
<1>2. x \in Nat /\ \A k \in 1 .. x : o[k] \in Int
  BY <1>1
<1>3. PartialSums(o, x) \in [0 .. x -> Int]
  BY <1>2, SumsAre
<1> QED
  BY <1>1, <1>2, <1>3 DEF SumTo

(* What type 1 expects of the so many-th frame is what the sender does. *)
LEMMA ExpectedTyped ==
  ASSUME pocSps \in PocSps, NEW n \in Int, NEW disposable \in BOOLEAN
  PROVE  ExpectedPoc(n, disposable) \in Int
<1>1. PICK o \in Seq(Int) : o = pocSps.offset_for_ref_frame
  BY SpsTyped
<1>2. PICK c \in Nat : c = Len(o)
  OBVIOUS
<1>3. PICK z \in Int : z = (IF disposable THEN pocSps.offset_for_non_ref_pic ELSE 0)
  BY SpsTyped
<1>4. PICK a \in Int : a = LET counted == IF c = 0 THEN 0 ELSE n
                           IN  IF disposable /\ counted > 0 THEN counted - 1 ELSE counted
  OBVIOUS
<1>5. CASE a = 0
  <2>1. ExpectedPoc(n, disposable) = 0 + z
    BY <1>1, <1>2, <1>3, <1>4, <1>5, Zenon DEF ExpectedPoc
  <2> QED
    BY <2>1
<1>6. CASE a # 0
  <2>1. c > 0
    BY <1>4, <1>6
  <2>2. PICK q \in Int, r \in 0 .. c - 1 : q = (a - 1) \div c /\ r = (a - 1) % c
    BY <2>1, Divided
  <2>3. SumTo(o, c) \in Int /\ SumTo(o, r + 1) \in Int
    BY <1>1, <1>2, SumTyped
  <2>4. q * SumTo(o, c) \in Int
    BY <2>3, OneMore
  <2>5. ExpectedPoc(n, disposable) = q * SumTo(o, c) + SumTo(o, r + 1) + z
    BY <1>1, <1>2, <1>3, <1>4, <1>6, <2>2, Zenon DEF ExpectedPoc
  <2> QED
    BY <2>3, <2>4, <2>5
<1> QED
  BY <1>5, <1>6

(* The sum by quotient and remainder of the cycle, as decode_poc() takes    *)
(* it, is the sum of the offsets of all pictures before.                    *)
LEMMA ExpectedRight ==
  ASSUME pocSps \in PocSps, NEW n \in Nat, NEW disposable \in BOOLEAN
  PROVE  /\ TrueExpected(n, disposable) \in Int
         /\ ExpectedPoc(n, disposable) = TrueExpected(n, disposable) + (IF disposable THEN pocSps.offset_for_non_ref_pic ELSE 0)
<1>1. PICK o \in Seq(Int) : o = pocSps.offset_for_ref_frame
  BY SpsTyped
<1>2. PICK c \in Nat : c = Len(o)
  OBVIOUS
<1>3. PICK a \in Nat : a = IF disposable /\ n > 0 THEN n - 1 ELSE n
  OBVIOUS
<1>4. PICK z \in Int : z = (IF disposable THEN pocSps.offset_for_non_ref_pic ELSE 0)
  BY SpsTyped
<1>5. CASE c = 0
  <2>1. ExpectedPoc(n, disposable) = 0 + z
    BY <1>1, <1>2, <1>4, <1>5 DEF ExpectedPoc
  <2>2. TrueExpected(n, disposable) = 0
    BY <1>1, <1>2, <1>5, Zenon DEF TrueExpected
  <2> QED
    BY <1>4, <2>1, <2>2
<1>6. CASE c > 0 /\ a = 0
  <2>1. c # 0
    BY <1>6
  <2>6. ExpectedPoc(n, disposable) = 0 + z
    BY <1>1, <1>2, <1>3, <1>4, <1>6, <2>1, Zenon DEF ExpectedPoc
  <2>2. PICK f : f = [k \in 1 .. a |-> o[((k - 1) % c) + 1]]
    OBVIOUS
  <2>3. PartialSums(f, a)[a] = 0
    <3>1. \A k \in 1 .. a : f[k] \in Int
      BY <1>6
    <3>2. PartialSums(f, a)[0] = 0
      BY <3>1, SumsAre
    <3> QED
      BY <1>6, <3>2
  <2>4. TrueExpected(n, disposable) = PartialSums(f, a)[a]
    <3>1. c # 0
      BY <1>6
    <3> QED
      BY <1>1, <1>2, <1>3, <2>2, <3>1, Zenon DEF TrueExpected
  <2> QED
    BY <1>4, <2>3, <2>4, <2>6
<1>7. CASE c > 0 /\ a > 0
  <2>1. c # 0 /\ a # 0
    BY <1>7
  <2>2. ExpectedPoc(n, disposable) = ((a - 1) \div c) * SumTo(o, c) + SumTo(o, ((a - 1) % c) + 1) + z
    BY <1>1, <1>2, <1>3, <1>4, <2>1, Zenon DEF ExpectedPoc
  <2>3. TrueExpected(n, disposable) = PartialSums([k \in 1 .. a |-> o[((k - 1) % c) + 1]], a)[a]
    BY <1>1, <1>2, <1>3, <2>1, Zenon DEF TrueExpected
  <2>4. PartialSums([k \in 1 .. a |-> o[((k - 1) % c) + 1]], a)[a]
          = ((a - 1) \div c) * SumTo(o, c) + SumTo(o, ((a - 1) % c) + 1)
    BY <1>2, <1>7, CyclicSum
  <2>5. TrueExpected(n, disposable) \in Int
    <3>1. PICK f : f = [k \in 1 .. a |-> o[((k - 1) % c) + 1]]
      OBVIOUS
    <3>2. ASSUME NEW k \in 1 .. a PROVE f[k] \in Int
      <4>1. ((k - 1) % c) + 1 \in 1 .. c
        BY <1>7
      <4> QED
        BY <1>2, <3>1, <4>1
    <3>3. PartialSums(f, a)[a] \in Int
      <4>1. PartialSums(f, a) \in [0 .. a -> Int]
        BY <3>2, SumsAre
      <4> QED
        BY <4>1
    <3> QED
      BY <2>3, <3>1, <3>3, Zenon
  <2> QED
    BY <1>4, <2>2, <2>3, <2>4, <2>5, Zenon
<1> QED
  BY <1>3, <1>5, <1>6, <1>7

(* What types 1 and 2 leave. *)
Mode12Leaves(r, m, h) ==
  LET now == OffsetNow(m, h)
  IN  /\ r.PreviousFrameNumOffset = now
      /\ Mode = 1 =>
           LET top == ExpectedPoc(now + m.frame_num, h.disposable) + (IF h.idr THEN 0 ELSE h.delta)
               bottom == top + pocSps.offset_for_top_to_bottom_field + h.bottom
           IN  /\ r.PreviousFrameNum = m.frame_num
               /\ r.toppoc = top /\ r.bottompoc = bottom /\ r.framepoc = Min({top, bottom})
      /\ Mode = 2 =>
           LET poc == IF h.idr THEN 0 ELSE 2 * (now + m.frame_num) - (IF h.disposable THEN 1 ELSE 0)
           IN  /\ r.PreviousFrameNum = (IF ~h.disposable THEN m.frame_num
                                        ELSE IF ~h.idr /\ m.last_has_mmco_5 THEN 0 ELSE m.PreviousFrameNum)
               /\ r.toppoc = poc /\ r.bottompoc = poc /\ r.framepoc = Min({poc, poc})

(* PocMode1() counts the cycle of offsets. *)
LEMMA Mode1Step ==
  ASSUME pocSps \in PocSps, Mode = 1, NEW m \in Counters, NEW h \in Headers
  PROVE  /\ PocMode1(m, h) \in Counters /\ Untouched(PocMode1(m, h), m)
         /\ Mode12Leaves(PocMode1(m, h), m, h)
<1>1. PICK now \in Int : now = OffsetNow(m, h)
  BY OffsetTyped
<1>2. h.disposable \in BOOLEAN /\ h.delta \in Int /\ h.bottom \in Int /\ m.frame_num \in Int
  BY DEF Headers, Counters
<1>3. PICK e \in Int : e = ExpectedPoc(now + m.frame_num, h.disposable)
  BY <1>2, ExpectedTyped
<1>4. PICK top \in Int : top = e + (IF h.idr THEN 0 ELSE h.delta)
  BY <1>2
<1>5. PICK bottom \in Int : bottom = top + pocSps.offset_for_top_to_bottom_field + h.bottom
  BY <1>2, SpsTyped
<1>6. PICK m1 : m1 = [m EXCEPT !.PreviousFrameNum = m.frame_num, !.PreviousFrameNumOffset = now]
  OBVIOUS
<1>7. m1 \in Counters /\ Untouched(m1, m) /\ m1.PreviousFrameNum = m.frame_num /\ m1.PreviousFrameNumOffset = now
  BY <1>2, <1>6 DEF Counters, Untouched
<1>8. PICK r \in Counters : /\ r = WithPoc(m1, top, bottom) /\ Untouched(r, m1)
                            /\ r.toppoc = top /\ r.bottompoc = bottom /\ r.framepoc = Min({top, bottom})
                            /\ r.PreviousFrameNum = m1.PreviousFrameNum /\ r.PreviousFrameNumOffset = m1.PreviousFrameNumOffset
  BY <1>7, PocWritten DEF Untouched
<1>9. r = PocMode1(m, h)
  BY <1>1, <1>3, <1>4, <1>5, <1>6, <1>8, Zenon DEF PocMode1
<1>10. Mode12Leaves(r, m, h)
  <2>1. Mode # 2
    OBVIOUS
  <2> QED
    BY <1>1, <1>3, <1>4, <1>5, <1>7, <1>8, <2>1, Zenon DEF Mode12Leaves
<1>11. Untouched(r, m)
  BY <1>7, <1>8 DEF Untouched
<1> QED
  BY <1>8, <1>9, <1>10, <1>11

(* PocMode2() counts two for a picture. *)
LEMMA Mode2Step ==
  ASSUME Mode = 2, NEW m \in Counters, NEW h \in Headers
  PROVE  /\ PocMode2(m, h) \in Counters /\ Untouched(PocMode2(m, h), m)
         /\ Mode12Leaves(PocMode2(m, h), m, h)
<1>1. PICK now \in Int : now = OffsetNow(m, h)
  BY OffsetTyped
<1>2. h.disposable \in BOOLEAN /\ m.frame_num \in Int /\ m.PreviousFrameNum \in Int
  BY DEF Headers, Counters
<1>3. PICK poc \in Int : poc = IF h.idr THEN 0 ELSE 2 * (now + m.frame_num) - (IF h.disposable THEN 1 ELSE 0)
  BY <1>2
<1>4. PICK prev \in Int : prev = IF ~h.disposable THEN m.frame_num
                                 ELSE IF ~h.idr /\ m.last_has_mmco_5 THEN 0 ELSE m.PreviousFrameNum
  BY <1>2
<1>6. PICK m1 : m1 = [m EXCEPT !.PreviousFrameNum = prev, !.PreviousFrameNumOffset = now]
  OBVIOUS
<1>7. m1 \in Counters /\ Untouched(m1, m) /\ m1.PreviousFrameNum = prev /\ m1.PreviousFrameNumOffset = now
  BY <1>2, <1>6 DEF Counters, Untouched
<1>8. PICK r \in Counters : /\ r = WithPoc(m1, poc, poc) /\ Untouched(r, m1)
                            /\ r.toppoc = poc /\ r.bottompoc = poc /\ r.framepoc = Min({poc, poc})
                            /\ r.PreviousFrameNum = m1.PreviousFrameNum /\ r.PreviousFrameNumOffset = m1.PreviousFrameNumOffset
  BY <1>7, PocWritten DEF Untouched
<1>9. r = PocMode2(m, h)
  BY <1>1, <1>3, <1>4, <1>6, <1>8, Zenon DEF PocMode2
<1>10. Mode12Leaves(r, m, h)
  <2>1. Mode # 1
    OBVIOUS
  <2> QED
    BY <1>1, <1>3, <1>4, <1>7, <1>8, <2>1, Zenon DEF Mode12Leaves
<1>11. Untouched(r, m)
  BY <1>7, <1>8 DEF Untouched
<1> QED
  BY <1>8, <1>9, <1>10, <1>11

(* decode_poc() in each of the three types. *)
LEMMA Decoded ==
  ASSUME pocSps \in PocSps, NEW m \in Counters, NEW h \in Headers
  PROVE  /\ decode_poc(m, h) \in Counters /\ Untouched(decode_poc(m, h), m)
         /\ Mode = 0 => \E prevMsb \in Int, prevLsb \in Int, msb \in Int :
                          Mode0Leaves(decode_poc(m, h), m, h, prevMsb, prevLsb, msb)
         /\ Mode # 0 => Mode12Leaves(decode_poc(m, h), m, h)
<1>1. CASE Mode = 0
  <2>1. decode_poc(m, h) = PocMode0(m, h)
    BY <1>1 DEF decode_poc
  <2> QED
    BY <1>1, <2>1, Mode0Step
<1>2. CASE Mode = 1
  <2>1. decode_poc(m, h) = PocMode1(m, h)
    BY <1>2 DEF decode_poc
  <2> QED
    BY <1>2, <2>1, Mode1Step
<1>3. CASE Mode = 2
  <2>1. decode_poc(m, h) = PocMode2(m, h)
    BY <1>3 DEF decode_poc
  <2> QED
    BY <1>3, <2>1, Mode2Step
<1> QED
  BY <1>1, <1>2, <1>3, SpsTyped

(* Where the decoder has got to, when it counts D too many.                 *)
Tracks(m, X, D) ==
  /\ (IF m.last_has_mmco_5 THEN 0 ELSE m.PreviousFrameNum) = X % MaxFrameNum
  /\ (IF m.last_has_mmco_5 THEN 0 ELSE m.PreviousFrameNumOffset) = X - (X % MaxFrameNum) + D

(* A frame number less than a cycle on is recognised as such. *)
LEMMA OffsetAdvances ==
  ASSUME NEW m \in Counters, NEW h \in Headers, ~h.idr, NEW X \in Int, NEW D \in Int, NEW Y \in Int,
         Tracks(m, X, D), Y - X \in 0 .. MaxFrameNum - 1, m.frame_num = Y % MaxFrameNum
  PROVE  OffsetNow(m, h) = Y - (Y % MaxFrameNum) + D /\ Y % MaxFrameNum \in 0 .. MaxFrameNum - 1
<1>1. PICK M \in Int : M = MaxFrameNum /\ M > 1
  BY PicOrderAssumption
<1>2. PICK d \in 0 .. M - 1 : d = Y - X
  BY <1>1
<1>3. PICK x \in 0 .. M - 1 : x = X % M
  BY <1>1
<1>4. Y = X + d
  BY <1>2
<1>5. Y % M = IF x + d >= M THEN x + d - M ELSE x + d
  <2>1. -M <= d /\ d <= M
    BY <1>1, <1>2
  <2>3. d \in Int /\ M > 0
    BY <1>1
  <2>4. (X + d) % M = IF (X % M) + d < 0 THEN (X % M) + d + M
                      ELSE IF (X % M) + d >= M THEN (X % M) + d - M ELSE (X % M) + d
    BY <2>1, <2>3, RemainderNear, Zenon
  <2>2. (X + d) % M = IF x + d < 0 THEN x + d + M ELSE IF x + d >= M THEN x + d - M ELSE x + d
    BY <1>3, <2>4, Zenon
  <2> QED
    BY <1>3, <1>4, <2>2
<1>6. PICK y \in 0 .. M - 1 : y = Y % M
  BY <1>3, <1>5
<1>7. OffsetNow(m, h) = X - x + D + (IF y < x THEN M ELSE 0)
  BY <1>1, <1>3, <1>6, Zenon DEF OffsetNow, Tracks
<1>8. X - x + D + (IF y < x THEN M ELSE 0) = Y - y + D
  BY <1>1, <1>3, <1>4, <1>5, <1>6
<1> QED
  BY <1>1, <1>6, <1>7, <1>8

(* One picture of a gap. *)
FillerLeaves(r, m, num, h) ==
  /\ r.last_has_mmco_5 = FALSE /\ r.pre_frame_num = num /\ r.frame_num = num
  /\ Mode = 0 => r.PrevPicOrderCntMsb = m.PrevPicOrderCntMsb /\ r.PrevPicOrderCntLsb = m.PrevPicOrderCntLsb

(* The pictures of a gap carry no deltas. *)
LEMMA NothingAdded ==
  ASSUME NEW h \in Headers
  PROVE  LET g == [h EXCEPT !.delta = 0, !.bottom = 0]
         IN  g \in Headers /\ g.idr = h.idr /\ g.disposable = h.disposable
<1>1. PICK z \in Int : z = 0
  OBVIOUS
<1>2. PICK g1 : g1 = [h EXCEPT !.delta = z]
  OBVIOUS
<1>3. g1 \in Headers /\ g1.idr = h.idr /\ g1.disposable = h.disposable
  BY <1>2 DEF Headers
<1>4. PICK g : g = [g1 EXCEPT !.bottom = z]
  OBVIOUS
<1>5. g \in Headers /\ g.idr = h.idr /\ g.disposable = h.disposable
  BY <1>3, <1>4 DEF Headers
<1> QED
  BY <1>1, <1>2, <1>4, <1>5

(* A picture of a gap goes on where the decoder had got to. *)
LEMMA FillerStep ==
  ASSUME pocSps \in PocSps, NEW m \in Counters, NEW h \in Headers, ~h.idr, NEW num \in Int
  PROVE  /\ Filler(m, num, h) \in Counters /\ FillerLeaves(Filler(m, num, h), m, num, h)
         /\ \A X \in Int, D \in Int, Y \in Int :
              (/\ Mode = 1 \/ (Mode = 2 /\ ~h.disposable)
               /\ Tracks(m, X, D) /\ Y - X \in 0 .. MaxFrameNum - 1 /\ num = Y % MaxFrameNum)
              => Tracks(Filler(m, num, h), Y, D)
<1>1. PICK g : g = [h EXCEPT !.delta = 0, !.bottom = 0]
  OBVIOUS
<1>2. g \in Headers /\ g.idr = h.idr /\ g.disposable = h.disposable
  BY <1>1, NothingAdded, Zenon
<1>3. PICK m1 : m1 = [m EXCEPT !.frame_num = num]
  OBVIOUS
<1>4. /\ m1 \in Counters /\ m1.frame_num = num /\ m1.last_has_mmco_5 = m.last_has_mmco_5
      /\ m1.PreviousFrameNum = m.PreviousFrameNum /\ m1.PreviousFrameNumOffset = m.PreviousFrameNumOffset
      /\ m1.PrevPicOrderCntMsb = m.PrevPicOrderCntMsb /\ m1.PrevPicOrderCntLsb = m.PrevPicOrderCntLsb
  BY <1>3 DEF Counters
<1>5. PICK c : c = IF Mode = 0 THEN m1 ELSE decode_poc(m1, g)
  OBVIOUS
<1>6. c \in Counters /\ c.frame_num = num /\ (Mode # 0 => Mode12Leaves(c, m1, g))
  BY <1>2, <1>4, <1>5, Decoded DEF Untouched
<1>7. PICK r : r = [c EXCEPT !.last_has_mmco_5 = FALSE, !.pre_frame_num = num]
  OBVIOUS
<1>8. /\ r \in Counters /\ r.last_has_mmco_5 = FALSE /\ r.pre_frame_num = num /\ r.frame_num = c.frame_num
      /\ r.PreviousFrameNum = c.PreviousFrameNum /\ r.PreviousFrameNumOffset = c.PreviousFrameNumOffset
      /\ r.PrevPicOrderCntMsb = c.PrevPicOrderCntMsb /\ r.PrevPicOrderCntLsb = c.PrevPicOrderCntLsb
  BY <1>6, <1>7 DEF Counters
<1>9. r = Filler(m, num, h)
  BY <1>1, <1>3, <1>5, <1>7, Zenon DEF Filler
<1>10. FillerLeaves(r, m, num, h)
  BY <1>4, <1>5, <1>6, <1>8 DEF FillerLeaves
<1>11. ASSUME NEW X \in Int, NEW D \in Int, NEW Y \in Int, Mode = 1 \/ (Mode = 2 /\ ~h.disposable),
              Tracks(m, X, D), Y - X \in 0 .. MaxFrameNum - 1, num = Y % MaxFrameNum
       PROVE  Tracks(r, Y, D)
  <2>1. Tracks(m1, X, D)
    BY <1>4, <1>11 DEF Tracks
  <2>2. OffsetNow(m1, g) = Y - (Y % MaxFrameNum) + D
    BY <1>2, <1>4, <1>11, <2>1, OffsetAdvances
  <2>3. c.PreviousFrameNumOffset = OffsetNow(m1, g) /\ c.PreviousFrameNum = num
    BY <1>2, <1>4, <1>6, <1>11 DEF Mode12Leaves
  <2> QED
    BY <1>8, <1>11, <2>2, <2>3, Zenon DEF Tracks
<1> QED
  BY <1>8, <1>9, <1>10, <1>11

(* The pictures of a gap, one after the other. *)
LEMMA FilledAre ==
  ASSUME pocSps \in PocSps, NEW m \in Counters, NEW h \in Headers, ~h.idr, NEW n \in Nat, n = Unsent(m)
  PROVE  LET F == Filled(m, h)
         IN  /\ F[0] = m /\ \A k \in 0 .. n : F[k] \in Counters
             /\ \A k \in 1 .. n : F[k] = Filler(F[k - 1], (m.pre_frame_num + k) % MaxFrameNum, h)
<1> DEFINE Num(k) == (m.pre_frame_num + k) % MaxFrameNum
           IsFilled(F) == F = [k \in 0 .. n |-> IF k = 0 THEN m ELSE Filler(F[k - 1], Num(k), h)]
<1>1. \A k \in Int : Num(k) \in Int
  <2>1. MaxFrameNum \in Nat /\ MaxFrameNum > 0 /\ m.pre_frame_num \in Int
    BY PicOrderAssumption DEF Counters
  <2> QED
    BY <2>1
<1>2. \A k \in 1 .. n, s \in Counters : Filler(s, Num(k), h) \in Counters
  <2> HIDE DEF Num
  <2> QED
    BY <1>1, FillerStep
<1> HIDE DEF Num
<1>3. \E F : IsFilled(F)
  <2>1. PICK g : g = [x \in Counters \X (1 .. n) |-> Filler(x[1], Num(x[2]), h)]
    OBVIOUS
  <2>2. \A k \in 1 .. n, s \in Counters : g[<<s, k>>] = Filler(s, Num(k), h)
    BY <2>1
  <2>3. PICK F : F \in [0 .. n -> Counters] /\ F[0] = m /\ \A k \in 1 .. n : F[k] = g[<<F[k - 1], k>>]
    <3>1. PICK S, a : S = Counters /\ a = m
      OBVIOUS
    <3>2. a \in S /\ \A k \in 1 .. n, s \in S : g[<<s, k>>] \in S
      BY <1>2, <2>2, <3>1
    <3>3. PICK F : IsRecursion(F, n, S, a, g)
      BY <3>2, Recursion, Zenon
    <3> QED
      BY <3>1, <3>3 DEF IsRecursion
  <2>4. \A k \in 1 .. n : F[k] = Filler(F[k - 1], Num(k), h)
    <3> SUFFICES ASSUME NEW k \in 1 .. n PROVE F[k] = Filler(F[k - 1], Num(k), h)
      OBVIOUS
    <3>1. k - 1 \in 0 .. n
      OBVIOUS
    <3>2. F[k - 1] \in Counters
      BY <2>3, <3>1
    <3> QED
      BY <2>2, <2>3, <3>2, Zenon
  <2>5. \A k \in 0 .. n : F[k] = IF k = 0 THEN m ELSE Filler(F[k - 1], Num(k), h)
    <3>1. \A k \in 0 .. n : k = 0 \/ k \in 1 .. n
      OBVIOUS
    <3> QED
      BY <2>3, <2>4, <3>1, Zenon
  <2>6. F = [k \in 0 .. n |-> F[k]]
    BY <2>3, Zenon
  <2>7. IsFilled(F)
    BY <2>5, <2>6, Zenon
  <2> QED
    BY <2>7
<1>4. Filled(m, h) = CHOOSE F : IsFilled(F)
  BY Zenon DEF Filled, Num
<1>5. PICK F : F = Filled(m, h) /\ IsFilled(F)
  <2> HIDE DEF IsFilled
  <2>1. IsFilled(CHOOSE F : IsFilled(F))
    BY <1>3, Zenon
  <2> QED
    BY <1>4, <2>1, Zenon
<1>6. \A k \in 0 .. n : F[k] = IF k = 0 THEN m ELSE Filler(F[k - 1], Num(k), h)
  BY <1>5, Zenon
<1>7. F[0] = m /\ \A k \in 1 .. n : F[k] = Filler(F[k - 1], Num(k), h)
  <2>1. 0 \in 0 .. n /\ \A k \in 1 .. n : k \in 0 .. n /\ k # 0
    OBVIOUS
  <2> QED
    BY <1>6, <2>1, Zenon
<1>8. PICK J : J = [k \in 0 .. n |-> Counters]
  OBVIOUS
<1>9. \A k \in 0 .. n : J[k] = Counters
  BY <1>8
<1>10. F[0] \in J[0] /\ \A k \in 1 .. n : F[k - 1] \in J[k - 1] => F[k] \in J[k]
  <2>1. 0 \in 0 .. n /\ \A k \in 1 .. n : k \in 0 .. n /\ k - 1 \in 0 .. n
    OBVIOUS
  <2>2. F[0] \in J[0]
    BY <1>7, <1>9, <2>1, Zenon
  <2>3. ASSUME NEW k \in 1 .. n, F[k - 1] \in J[k - 1]
        PROVE  F[k] \in J[k]
    <3>1. F[k - 1] \in Counters
      BY <1>9, <2>1, <2>3, Zenon
    <3>2. F[k] \in Counters
      BY <1>2, <1>7, <3>1, Zenon
    <3> QED
      BY <1>9, <2>1, <3>2, Zenon
  <2> QED
    BY <2>2, <2>3
<1>11. \A k \in 0 .. n : F[k] \in J[k]
  BY <1>10, Along
<1> QED
  BY <1>5, <1>7, <1>9, <1>11, Zenon DEF Num

(* A gap is two numbers or more. *)
LEMMA GapOf ==
  ASSUME NEW m \in Counters, NEW N \in Int, NEW T \in Int, T - N \in 0 .. MaxFrameNum - 1,
         m.pre_frame_num = N % MaxFrameNum, m.frame_num = T % MaxFrameNum
  PROVE  (Gap(m) <=> T - N >= 2) /\ (Gap(m) => Unsent(m) = T - N - 1)
<1>1. PICK M \in Int : M = MaxFrameNum /\ M > 1
  BY PicOrderAssumption
<1>2. PICK d \in 0 .. M - 1 : d = T - N
  BY <1>1
<1>3. PICK x \in 0 .. M - 1 : x = N % M
  BY <1>1
<1>4. T = N + d /\ d \in Int /\ -M <= d /\ d <= M /\ M > 0 /\ -M <= 1 /\ 1 <= M /\ 1 \in Int
  BY <1>1, <1>2
<1>5. PICK y \in 0 .. M - 1 : y = T % M /\ y = IF x + d >= M THEN x + d - M ELSE x + d
  <2>1. (N + d) % M = IF (N % M) + d < 0 THEN (N % M) + d + M
                      ELSE IF (N % M) + d >= M THEN (N % M) + d - M ELSE (N % M) + d
    BY <1>4, RemainderNear, Zenon
  <2>2. T % M = IF x + d < 0 THEN x + d + M ELSE IF x + d >= M THEN x + d - M ELSE x + d
    BY <1>3, <1>4, <2>1, Zenon
  <2> QED
    BY <1>1, <2>2
<1>6. PICK w \in 0 .. M - 1 : w = (N + 1) % M /\ w = IF x + 1 >= M THEN x + 1 - M ELSE x + 1
  <2>1. (N + 1) % M = IF (N % M) + 1 < 0 THEN (N % M) + 1 + M
                      ELSE IF (N % M) + 1 >= M THEN (N % M) + 1 - M ELSE (N % M) + 1
    BY <1>4, RemainderNear, Zenon
  <2> QED
    BY <1>1, <1>3, <2>1
<1>7. (m.pre_frame_num + 1) % MaxFrameNum = w
  <2>1. m.pre_frame_num = x
    BY <1>1, <1>3
  <2>2. (x + 1) % M = IF x + 1 >= M THEN x + 1 - M ELSE x + 1
    BY <1>1
  <2> QED
    BY <1>1, <1>6, <2>1, <2>2
<1>8. Gap(m) <=> y # x /\ y # w
  BY <1>1, <1>3, <1>5, <1>7, Zenon DEF Gap
<1>9. Gap(m) <=> d >= 2
  BY <1>1, <1>5, <1>6, <1>8
<1>10. ASSUME d >= 2 PROVE Unsent(m) = d - 1
  <2>1. Unsent(m) = (y - x - 1) % M
    BY <1>1, <1>3, <1>5, Zenon DEF Unsent
  <2>2. PICK s \in 0 .. M - 1 : s = d - 1
    BY <1>1, <1>10
  <2>3. CASE y - x - 1 = d - 1
    BY <1>1, <2>1, <2>2, <2>3
  <2>4. CASE y - x - 1 = d - 1 - M
    <3>1. \A p \in Int, e \in 0 .. M - 1 : (M * p + e) % M = e
      BY <1>1
    <3>2. y - x - 1 = M * (-1) + s /\ -1 \in Int
      BY <1>1, <2>2, <2>4
    <3>3. (M * (-1) + s) % M = s
      BY <3>1, <3>2
    <3> QED
      BY <2>1, <2>2, <3>2, <3>3
  <2> QED
    BY <1>5, <2>3, <2>4
<1> QED
  BY <1>2, <1>9, <1>10

(* A gap is closed: the decoder has got to the number before the picture's. *)
GapLeaves(r, m) ==
  /\ r.frame_num = m.frame_num /\ r.last_has_mmco_5 = FALSE
  /\ Mode = 0 => r.PrevPicOrderCntMsb = m.PrevPicOrderCntMsb /\ r.PrevPicOrderCntLsb = m.PrevPicOrderCntLsb

(* A filled gap leaves the decoder at the number before the next picture's. *)
LEMMA GapClosed ==
  ASSUME pocSps \in PocSps, NEW m \in Counters, NEW h \in Headers, ~h.idr,
         NEW N \in Int, NEW T \in Int, T - N \in 2 .. MaxFrameNum - 1,
         m.pre_frame_num = N % MaxFrameNum, m.frame_num = T % MaxFrameNum
  PROVE  /\ FillGap(m, h) \in Counters /\ GapLeaves(FillGap(m, h), m)
         /\ \A X \in N - 1 .. N, D \in Int :
              (Mode = 1 \/ (Mode = 2 /\ ~h.disposable)) /\ Tracks(m, X, D) => Tracks(FillGap(m, h), T - 1, D)
<1>1. PICK M \in Int : M = MaxFrameNum /\ M > 2
  BY PicOrderAssumption
<1>2. PICK n \in Nat : n = Unsent(m) /\ n = T - N - 1 /\ n >= 1 /\ n <= M - 2
  <2>1. T - N \in 0 .. MaxFrameNum - 1 /\ T - N >= 2
    BY <1>1
  <2>2. Unsent(m) = T - N - 1
    BY <2>1, GapOf
  <2>3. T - N - 1 \in Nat /\ T - N - 1 >= 1 /\ T - N - 1 <= M - 2
    BY <1>1
  <2> QED
    BY <2>2, <2>3
<1>3. PICK F : /\ F = Filled(m, h) /\ F[0] = m /\ \A k \in 0 .. n : F[k] \in Counters
               /\ \A k \in 1 .. n : F[k] = Filler(F[k - 1], (m.pre_frame_num + k) % MaxFrameNum, h)
  <2>1. /\ Filled(m, h)[0] = m /\ \A k \in 0 .. n : Filled(m, h)[k] \in Counters
        /\ \A k \in 1 .. n : Filled(m, h)[k] = Filler(Filled(m, h)[k - 1], (m.pre_frame_num + k) % MaxFrameNum, h)
    BY <1>2, FilledAre, Zenon
  <2>2. PICK F : F = Filled(m, h)
    OBVIOUS
  <2> QED
    BY <2>1, <2>2, Zenon
<1>4. \A k \in 1 .. n : (m.pre_frame_num + k) % MaxFrameNum = (N + k) % MaxFrameNum
  <2> SUFFICES ASSUME NEW k \in 1 .. n PROVE (m.pre_frame_num + k) % M = (N + k) % M
    BY <1>1
  <2>1. PICK x \in 0 .. M - 1 : x = N % M
    BY <1>1
  <2>2. k \in Int /\ -M <= k /\ k <= M /\ M > 0 /\ x \in Int
    BY <1>1, <1>2
  <2>3. (N + k) % M = IF (N % M) + k < 0 THEN (N % M) + k + M
                      ELSE IF (N % M) + k >= M THEN (N % M) + k - M ELSE (N % M) + k
    BY <2>2, RemainderNear, Zenon
  <2>4. (x + k) % M = IF (x % M) + k < 0 THEN (x % M) + k + M
                      ELSE IF (x % M) + k >= M THEN (x % M) + k - M ELSE (x % M) + k
    BY <2>2, RemainderNear, Zenon
  <2>5. x % M = x
    BY <1>1
  <2> QED
    BY <1>1, <2>1, <2>3, <2>4, <2>5, Zenon
<1>5. PICK r : r = [F[n] EXCEPT !.frame_num = m.frame_num]
  OBVIOUS
<1>6. r = FillGap(m, h)
  BY <1>2, <1>3, <1>5, Zenon DEF FillGap
<1>7. F[n] \in Counters /\ m.frame_num \in Int
  BY <1>3 DEF Counters
<1>8. /\ r \in Counters /\ r.frame_num = m.frame_num /\ r.last_has_mmco_5 = F[n].last_has_mmco_5
      /\ r.PreviousFrameNum = F[n].PreviousFrameNum /\ r.PreviousFrameNumOffset = F[n].PreviousFrameNumOffset
      /\ r.PrevPicOrderCntMsb = F[n].PrevPicOrderCntMsb /\ r.PrevPicOrderCntLsb = F[n].PrevPicOrderCntLsb
  BY <1>5, <1>7 DEF Counters
<1>9. \A k \in Int : (N + k) % MaxFrameNum \in Int
  BY <1>1
<1>10. ASSUME NEW k \in 1 .. n
       PROVE  /\ k - 1 \in 0 .. n /\ F[k - 1] \in Counters /\ (N + k) % MaxFrameNum \in Int
              /\ F[k] = Filler(F[k - 1], (N + k) % MaxFrameNum, h)
  <2>1. k - 1 \in 0 .. n /\ k \in Int
    OBVIOUS
  <2> QED
    BY <1>3, <1>4, <1>9, <2>1, Zenon
<1>11. ASSUME NEW k \in 1 .. n
       PROVE  FillerLeaves(F[k], F[k - 1], (N + k) % MaxFrameNum, h)
  BY <1>10, FillerStep
<1>12. GapLeaves(r, m)
  <2>1. n \in 1 .. n
    BY <1>2
  <2>2. r.last_has_mmco_5 = FALSE
    BY <1>8, <1>11, <2>1 DEF FillerLeaves
  <2>3. ASSUME Mode = 0
        PROVE  F[n].PrevPicOrderCntMsb = m.PrevPicOrderCntMsb /\ F[n].PrevPicOrderCntLsb = m.PrevPicOrderCntLsb
    <3> DEFINE Kept == {c \in Counters : c.PrevPicOrderCntMsb = m.PrevPicOrderCntMsb /\ c.PrevPicOrderCntLsb = m.PrevPicOrderCntLsb}
    <3>1. PICK J : J = [k \in 0 .. n |-> Kept]
      OBVIOUS
    <3>2. \A k \in 0 .. n : J[k] = Kept
      BY <3>1
    <3>3. F[0] \in J[0]
      BY <1>3, <3>2
    <3>4. ASSUME NEW k \in 1 .. n, F[k - 1] \in J[k - 1]
          PROVE  F[k] \in J[k]
      <4>1. k - 1 \in 0 .. n /\ k \in 0 .. n
        OBVIOUS
      <4>2. F[k - 1] \in Kept /\ F[k] \in Counters
        BY <1>3, <3>2, <3>4, <4>1
      <4>3. F[k] \in Kept
        BY <1>11, <2>3, <4>2 DEF FillerLeaves
      <4> QED
        BY <3>2, <4>1, <4>3
    <3>5. \A k \in 0 .. n : F[k] \in J[k]
      BY <3>3, <3>4, Along
    <3>6. n \in 0 .. n
      OBVIOUS
    <3> QED
      BY <3>2, <3>5, <3>6
  <2> QED
    BY <1>8, <2>2, <2>3 DEF GapLeaves
<1>13. ASSUME NEW X \in N - 1 .. N, NEW D \in Int, Mode = 1 \/ (Mode = 2 /\ ~h.disposable), Tracks(m, X, D)
       PROVE  Tracks(r, T - 1, D)
  <2> DEFINE Reached(k) == {c \in Counters : Tracks(c, IF k = 0 THEN X ELSE N + k, D)}
  <2>1. PICK J : J = [k \in 0 .. n |-> Reached(k)]
    OBVIOUS
  <2>2. \A k \in 0 .. n : J[k] = Reached(k)
    BY <2>1
  <2>3. F[0] \in J[0]
    BY <1>3, <1>13, <2>2
  <2>4. ASSUME NEW k \in 1 .. n, F[k - 1] \in J[k - 1]
        PROVE  F[k] \in J[k]
    <3>1. k - 1 \in 0 .. n /\ k \in 0 .. n /\ k # 0
      OBVIOUS
    <3>2. PICK Z \in Int : Z = (IF k - 1 = 0 THEN X ELSE N + (k - 1))
      OBVIOUS
    <3>3. Tracks(F[k - 1], Z, D)
      BY <2>2, <2>4, <3>1, <3>2
    <3>4. N + k \in Int /\ (N + k) - Z \in 0 .. MaxFrameNum - 1
      BY <1>1, <3>2
    <3>5. Tracks(F[k], N + k, D)
      BY <1>10, <1>13, <3>3, <3>4, FillerStep
    <3>6. F[k] \in Reached(k)
      BY <1>3, <3>1, <3>5
    <3> QED
      BY <2>2, <3>1, <3>6
  <2>5. F[n] \in J[n]
    <3> HIDE DEF Reached
    <3>1. \A k \in 0 .. n : F[k] \in J[k]
      BY <2>3, <2>4, Along
    <3> QED
      BY <3>1
  <2>6. Tracks(F[n], N + n, D)
    <3>1. n \in 0 .. n /\ n # 0
      BY <1>2
    <3> QED
      BY <2>2, <2>5, <3>1
  <2>7. N + n = T - 1
    BY <1>2
  <2>8. Tracks(F[n], T - 1, D)
    BY <2>6, <2>7, Zenon
  <2> QED
    BY <1>8, <2>8, Zenon DEF Tracks
<1> QED
  BY <1>6, <1>8, <1>12, <1>13

(* What decode_poc() of a picture starts from. *)
Reaches(n, m, h, N, T) ==
  /\ n.frame_num = m.frame_num /\ n.pre_frame_num = m.frame_num
  /\ ~Gap(m) => /\ n.last_has_mmco_5 = m.last_has_mmco_5 /\ n.toppoc = m.toppoc
                /\ n.PrevPicOrderCntMsb = m.PrevPicOrderCntMsb /\ n.PrevPicOrderCntLsb = m.PrevPicOrderCntLsb
                /\ n.PreviousFrameNum = m.PreviousFrameNum /\ n.PreviousFrameNumOffset = m.PreviousFrameNumOffset
  /\ Gap(m) => /\ n.last_has_mmco_5 = FALSE
               /\ Mode = 0 => /\ n.PrevPicOrderCntMsb = m.PrevPicOrderCntMsb
                              /\ n.PrevPicOrderCntLsb = m.PrevPicOrderCntLsb
               /\ \A X \in N - 1 .. N, D \in Int :
                    (Mode = 1 \/ (Mode = 2 /\ ~h.disposable)) /\ Tracks(m, X, D) => Tracks(n, T - 1, D)

(* init_picture() is decode_poc() of the counters, their gap filled. *)
LEMMA BeforePicture ==
  ASSUME pocSps \in PocSps, NEW m \in Counters, NEW h \in Headers,
         NEW N \in Int, NEW T \in Int, T - N \in 0 .. MaxFrameNum - 1, ~h.idr \/ T = N,
         m.pre_frame_num = N % MaxFrameNum, m.frame_num = T % MaxFrameNum
  PROVE  \E n \in Counters : init_picture(m, h) = decode_poc(n, h) /\ Reaches(n, m, h, N, T)
<1>1. PICK c : c = IF Gap(m) THEN FillGap(m, h) ELSE m
  OBVIOUS
<1>2. Gap(m) <=> T - N >= 2
  BY GapOf
<1>3. ASSUME Gap(m)
      PROVE  /\ c \in Counters /\ GapLeaves(c, m)
             /\ \A X \in N - 1 .. N, D \in Int :
                  (Mode = 1 \/ (Mode = 2 /\ ~h.disposable)) /\ Tracks(m, X, D) => Tracks(c, T - 1, D)
  <2>1. T - N \in 2 .. MaxFrameNum - 1 /\ ~h.idr
    BY <1>2, <1>3, PicOrderAssumption
  <2> QED
    BY <1>1, <1>3, <2>1, GapClosed
<1>4. c \in Counters /\ c.frame_num = m.frame_num /\ m.frame_num \in Int
  <2>1. CASE Gap(m)
    BY <1>3, <2>1 DEF GapLeaves, Counters
  <2>2. CASE ~Gap(m)
    BY <1>1, <2>2 DEF Counters
  <2> QED
    BY <2>1, <2>2
<1>5. PICK n : n = [c EXCEPT !.pre_frame_num = m.frame_num]
  OBVIOUS
<1>6. /\ n \in Counters /\ n.frame_num = m.frame_num /\ n.pre_frame_num = m.frame_num
      /\ n.last_has_mmco_5 = c.last_has_mmco_5 /\ n.toppoc = c.toppoc
      /\ n.PrevPicOrderCntMsb = c.PrevPicOrderCntMsb /\ n.PrevPicOrderCntLsb = c.PrevPicOrderCntLsb
      /\ n.PreviousFrameNum = c.PreviousFrameNum /\ n.PreviousFrameNumOffset = c.PreviousFrameNumOffset
  BY <1>4, <1>5 DEF Counters
<1>7. init_picture(m, h) = decode_poc(n, h)
  BY <1>1, <1>5, Zenon DEF init_picture
<1>8. CASE Gap(m)
  <2>1. n.last_has_mmco_5 = FALSE
    BY <1>3, <1>6, <1>8 DEF GapLeaves
  <2>2. Mode = 0 => n.PrevPicOrderCntMsb = m.PrevPicOrderCntMsb /\ n.PrevPicOrderCntLsb = m.PrevPicOrderCntLsb
    BY <1>3, <1>6, <1>8 DEF GapLeaves
  <2>3. ASSUME NEW X \in N - 1 .. N, NEW D \in Int, Mode = 1 \/ (Mode = 2 /\ ~h.disposable), Tracks(m, X, D)
        PROVE  Tracks(n, T - 1, D)
    <3>1. Tracks(c, T - 1, D)
      BY <1>3, <1>8, <2>3
    <3> QED
      BY <1>6, <3>1, Zenon DEF Tracks
  <2> QED
    BY <1>6, <1>7, <1>8, <2>1, <2>2, <2>3 DEF Reaches
<1>9. CASE ~Gap(m)
  <2>1. c = m
    BY <1>1, <1>9
  <2> QED
    BY <1>6, <1>7, <1>9, <2>1, Zenon DEF Reaches
<1> QED
  BY <1>8, <1>9

(* Type 0: where the low part is taken from. *)
Low(m, base) ==
  IF m.last_has_mmco_5 THEN m.toppoc = base /\ base \in 0 .. MaxPicOrderCntLsb - 1
  ELSE m.PrevPicOrderCntLsb = base % MaxPicOrderCntLsb /\ m.PrevPicOrderCntMsb = base - (base % MaxPicOrderCntLsb)

(* Type 0: a picture whose count is less than half the range away is        *)
(* counted as it was sent.                                                  *)
LEMMA Counted0 ==
  ASSUME pocSps \in PocSps, Mode = 0, NEW n \in Counters, NEW h \in Headers, ~h.idr
  PROVE  LET r == decode_poc(n, h)
         IN  /\ r \in Counters /\ Untouched(r, n)
             /\ r.bottompoc = r.toppoc + h.bottom /\ r.framepoc = Min({r.toppoc, r.toppoc + h.bottom})
             /\ \A base \in Int, step \in Int :
                  (/\ Low(n, base) /\ h.lsb = (base + step) % MaxPicOrderCntLsb
                   /\ -MaxPicOrderCntLsb < 2 * step /\ 2 * step <= MaxPicOrderCntLsb)
                  => LET now == IF h.disposable THEN base ELSE base + step
                     IN  /\ r.toppoc = base + step
                         /\ r.PrevPicOrderCntLsb = now % MaxPicOrderCntLsb
                         /\ r.PrevPicOrderCntMsb = now - (now % MaxPicOrderCntLsb)
<1>1. PICK r : r = decode_poc(n, h)
  OBVIOUS
<1>2. r \in Counters /\ Untouched(r, n)
  BY <1>1, Decoded
<1>3. PICK prevMsb \in Int, prevLsb \in Int, msb \in Int : Mode0Leaves(r, n, h, prevMsb, prevLsb, msb)
  BY <1>1, Decoded
<1>4. r.bottompoc = r.toppoc + h.bottom /\ r.framepoc = Min({r.toppoc, r.toppoc + h.bottom})
  BY <1>3 DEF Mode0Leaves
<1>5. ASSUME NEW base \in Int, NEW step \in Int, Low(n, base), h.lsb = (base + step) % MaxPicOrderCntLsb,
             -MaxPicOrderCntLsb < 2 * step, 2 * step <= MaxPicOrderCntLsb
      PROVE  LET now == IF h.disposable THEN base ELSE base + step
             IN  /\ r.toppoc = base + step
                 /\ r.PrevPicOrderCntLsb = now % MaxPicOrderCntLsb
                 /\ r.PrevPicOrderCntMsb = now - (now % MaxPicOrderCntLsb)
  <2>1. PICK L \in Int : L = MaxPicOrderCntLsb /\ L > 0
    BY PicOrderAssumption
  <2>2. PICK x \in 0 .. L - 1 : x = base % L
    BY <2>1
  <2>3. prevLsb = x /\ prevMsb = base - x
    <3>1. CASE n.last_has_mmco_5
      <4>1. n.toppoc = base /\ base \in 0 .. L - 1
        BY <1>5, <2>1, <3>1 DEF Low
      <4>2. x = base
        BY <2>1, <2>2, <4>1
      <4> QED
        BY <1>3, <3>1, <4>1, <4>2 DEF Mode0Leaves
    <3>2. CASE ~n.last_has_mmco_5
      BY <1>3, <1>5, <2>1, <2>2, <3>2 DEF Low, Mode0Leaves
    <3> QED
      BY <3>1, <3>2
  <2>4. PICK s \in 0 .. L - 1 : s = (base + step) % L /\ h.lsb = s
    BY <1>5, <2>1
  <2>5. msb = Msb(s, base - x, x)
    BY <1>3, <2>3, <2>4, Zenon DEF Mode0Leaves
  <2>6. Msb(s, base - x, x) + s = base + step
    <3>1. Msb((base + step) % MaxPicOrderCntLsb, base - (base % MaxPicOrderCntLsb), base % MaxPicOrderCntLsb)
            + ((base + step) % MaxPicOrderCntLsb) = base + step
      BY <1>5, HighPart, Zenon
    <3> QED
      BY <2>1, <2>2, <2>4, <3>1, Zenon
  <2>7. msb + s = base + step
    BY <2>5, <2>6, Zenon
  <2>8. msb = base + step - s
    BY <2>7
  <2>9. r.toppoc = base + step
    BY <1>3, <2>4, <2>7, Zenon DEF Mode0Leaves
  <2>10. CASE h.disposable
    <3>1. r.PrevPicOrderCntLsb = x /\ r.PrevPicOrderCntMsb = base - x
      BY <1>3, <2>3, <2>10, Zenon DEF Mode0Leaves
    <3> QED
      BY <2>1, <2>2, <2>9, <2>10, <3>1, Zenon
  <2>11. CASE ~h.disposable
    <3>1. r.PrevPicOrderCntLsb = s /\ r.PrevPicOrderCntMsb = base + step - s
      BY <1>3, <2>4, <2>8, <2>11, Zenon DEF Mode0Leaves
    <3>2. (IF h.disposable THEN base ELSE base + step) = base + step
      BY <2>11, Zenon
    <3>3. PICK now : now = (IF h.disposable THEN base ELSE base + step)
      OBVIOUS
    <3>4. s = now % MaxPicOrderCntLsb
      BY <2>1, <2>4, <3>2, <3>3, Zenon
    <3>5. r.PrevPicOrderCntLsb = now % MaxPicOrderCntLsb /\ r.PrevPicOrderCntMsb = now - (now % MaxPicOrderCntLsb)
      <4>1. PICK high, w : w = now % MaxPicOrderCntLsb /\ high = r.PrevPicOrderCntMsb
        OBVIOUS
      <4>2. now = base + step /\ now \in Int /\ w = s
        BY <3>2, <3>3, <3>4, <4>1
      <4>3. high = now - w
        BY <3>1, <4>1, <4>2
      <4> QED
        BY <3>1, <4>1, <4>2, <4>3, Zenon
    <3> QED
      BY <2>9, <3>3, <3>5, Zenon
  <2> QED
    BY <2>10, <2>11
<1> QED
  BY <1>1, <1>2, <1>4, <1>5, Zenon

(* Types 1 and 2. *)
CountedOn(n, h, D, T) ==
  /\ Mode12Leaves(decode_poc(n, h), n, h) /\ OffsetNow(n, h) + n.frame_num = T + D
  /\ decode_poc(n, h).PreviousFrameNumOffset = T - (T % MaxFrameNum) + D

(* Types 1 and 2: the offset goes on with the number, wrapped at most once. *)
LEMMA OffsetCounted ==
  ASSUME pocSps \in PocSps, Mode # 0, NEW n \in Counters, NEW h \in Headers, ~h.idr,
         NEW X \in Int, NEW D \in Int, NEW T \in Int, Tracks(n, X, D), T - X \in 0 .. MaxFrameNum - 1,
         n.frame_num = T % MaxFrameNum
  PROVE  CountedOn(n, h, D, T)
<1>1. Mode12Leaves(decode_poc(n, h), n, h)
  BY Decoded
<1>2. PICK t \in Int : t = T % MaxFrameNum
  BY PicOrderAssumption
<1>3. OffsetNow(n, h) = T - t + D
  BY <1>2, OffsetAdvances
<1>4. OffsetNow(n, h) + n.frame_num = T + D
  BY <1>2, <1>3
<1>5. decode_poc(n, h).PreviousFrameNumOffset = T - t + D
  BY <1>1, <1>3, Zenon DEF Mode12Leaves
<1> QED
  BY <1>1, <1>2, <1>4, <1>5, Zenon DEF CountedOn
After1(r, D, T, u, v) ==
  /\ r.PreviousFrameNumOffset = T - (T % MaxFrameNum) + D
  /\ r.PreviousFrameNum = T % MaxFrameNum
  /\ r.framepoc = (IF u <= v THEN u ELSE v)

(* Type 1: the count is the expected one and its delta. *)
LEMMA Counted1 ==
  ASSUME pocSps \in PocSps, Mode = 1, NEW n \in Counters, NEW h \in Headers, ~h.idr,
         NEW X \in Int, NEW D \in Int, NEW T \in Int, Tracks(n, X, D), T - X \in 0 .. MaxFrameNum - 1,
         n.frame_num = T % MaxFrameNum,
         NEW u \in Int, NEW v \in Int, u = ExpectedPoc(T + D, h.disposable) + h.delta,
         v = u + pocSps.offset_for_top_to_bottom_field + h.bottom
  PROVE  After1(decode_poc(n, h), D, T, u, v)
<1>1. Mode # 0
  OBVIOUS
<1>2. /\ Mode12Leaves(decode_poc(n, h), n, h) /\ OffsetNow(n, h) + n.frame_num = T + D
      /\ decode_poc(n, h).PreviousFrameNumOffset = T - (T % MaxFrameNum) + D
  <2>1. CountedOn(n, h, D, T)
    BY <1>1, OffsetCounted
  <2> QED
    BY <2>1, Zenon DEF CountedOn
<1>4. decode_poc(n, h).PreviousFrameNum = n.frame_num
  BY <1>2, Zenon DEF Mode12Leaves
<1>5. decode_poc(n, h).framepoc = Min({u, v})
  BY <1>2, Zenon DEF Mode12Leaves
<1>6. Min({u, v}) = IF u <= v THEN u ELSE v
  BY LeastOfTwo
<1> QED
  BY <1>2, <1>4, <1>5, <1>6, Zenon DEF After1
After2(r, h, X, D, T) ==
  /\ r.PreviousFrameNumOffset = T - (T % MaxFrameNum) + D
  /\ h.disposable => r.PreviousFrameNum = X % MaxFrameNum /\ r.framepoc = 2 * (T + D) - 1
  /\ ~h.disposable => r.PreviousFrameNum = T % MaxFrameNum /\ r.framepoc = 2 * (T + D)

(* Type 2: the count is twice the number, one less for a picture nobody     *)
(* refers to.                                                               *)
LEMMA Counted2 ==
  ASSUME pocSps \in PocSps, Mode = 2, NEW n \in Counters, NEW h \in Headers, ~h.idr,
         NEW X \in Int, NEW D \in Int, NEW T \in Int, Tracks(n, X, D), T - X \in 0 .. MaxFrameNum - 1,
         n.frame_num = T % MaxFrameNum
  PROVE  After2(decode_poc(n, h), h, X, D, T)
<1>1. Mode # 0
  OBVIOUS
<1>2. /\ Mode12Leaves(decode_poc(n, h), n, h) /\ OffsetNow(n, h) + n.frame_num = T + D
      /\ decode_poc(n, h).PreviousFrameNumOffset = T - (T % MaxFrameNum) + D
  <2>1. CountedOn(n, h, D, T)
    BY <1>1, OffsetCounted
  <2> QED
    BY <2>1, Zenon DEF CountedOn
<1>11. PICK z \in Int : z = (IF h.disposable THEN 1 ELSE 0)
  OBVIOUS
<1>3. PICK poc \in Int : poc = 2 * (T + D) - z
  OBVIOUS
<1>4. decode_poc(n, h).framepoc = Min({poc, poc})
  BY <1>2, <1>3, <1>11, Zenon DEF Mode12Leaves
<1>5. Min({poc, poc}) = poc
  BY LeastOfTwo
<1>6. decode_poc(n, h).PreviousFrameNum = IF ~h.disposable THEN n.frame_num
                             ELSE IF n.last_has_mmco_5 THEN 0 ELSE n.PreviousFrameNum
  BY <1>2, Zenon DEF Mode12Leaves
<1>7. (IF n.last_has_mmco_5 THEN 0 ELSE n.PreviousFrameNum) = X % MaxFrameNum
  BY DEF Tracks
<1>8. decode_poc(n, h).framepoc = poc
  BY <1>4, <1>5, Zenon
<1>9. CASE h.disposable
  <2>1. poc = 2 * (T + D) - 1
    BY <1>3, <1>9, <1>11
  <2> QED
    BY <1>2, <1>6, <1>7, <1>8, <1>9, <2>1, Zenon DEF After2
<1>10. CASE ~h.disposable
  <2>1. poc = 2 * (T + D)
    BY <1>3, <1>10, <1>11
  <2> QED
    BY <1>2, <1>6, <1>8, <1>10, <2>1, Zenon DEF After2
<1> QED
  BY <1>9, <1>10

(* An IDR picture begins everything anew. *)
LEMMA CountedIdr ==
  ASSUME pocSps \in PocSps, NEW n \in Counters, NEW h \in Headers, h.idr, ~h.disposable,
         n.frame_num = 0, h.delta = 0, h.bottom = 0, Mode = 0 => h.lsb = 0
  PROVE  LET r == decode_poc(n, h)
         IN  /\ Mode = 0 => /\ r.framepoc = 0 /\ r.PrevPicOrderCntLsb = 0 /\ r.PrevPicOrderCntMsb = 0
             /\ Mode # 0 => r.PreviousFrameNum = 0 /\ r.PreviousFrameNumOffset = 0
             /\ Mode = 1 => LET top == ExpectedPoc(0, h.disposable)
                            IN  r.framepoc = Min({top, top + pocSps.offset_for_top_to_bottom_field})
             /\ Mode = 2 => r.framepoc = 0
<1>1. PICK r : r = decode_poc(n, h)
  OBVIOUS
<1>2. Min({0, 0}) = 0
  BY LeastOfTwo
<1>3. ASSUME Mode = 0
      PROVE  r.framepoc = 0 /\ r.PrevPicOrderCntLsb = 0 /\ r.PrevPicOrderCntMsb = 0
  <2>1. PICK prevMsb \in Int, prevLsb \in Int, msb \in Int : Mode0Leaves(r, n, h, prevMsb, prevLsb, msb)
    BY <1>1, <1>3, Decoded
  <2>2. prevMsb = 0 /\ prevLsb = 0
    BY <2>1 DEF Mode0Leaves
  <2>3. msb = 0
    <3>1. msb = Msb(0, 0, 0)
      BY <1>3, <2>1, <2>2 DEF Mode0Leaves
    <3>2. Msb(0, 0, 0) = 0
      BY DEF Msb
    <3> QED
      BY <3>1, <3>2
  <2>4. r.framepoc = Min({0 + 0, 0 + 0 + 0})
    BY <1>3, <2>1, <2>3, Zenon DEF Mode0Leaves
  <2>5. 0 + 0 = 0 /\ 0 + 0 + 0 = 0
    OBVIOUS
  <2>6. r.PrevPicOrderCntLsb = 0 /\ r.PrevPicOrderCntMsb = 0
    BY <1>3, <2>1, <2>2, <2>3 DEF Mode0Leaves
  <2> QED
    BY <1>2, <2>4, <2>5, <2>6, Zenon
<1>4. ASSUME Mode # 0
      PROVE  Mode12Leaves(r, n, h) /\ OffsetNow(n, h) = 0 /\ OffsetNow(n, h) + n.frame_num = 0
  <2>1. Mode12Leaves(r, n, h)
    BY <1>1, <1>4, Decoded
  <2>2. OffsetNow(n, h) = 0
    BY DEF OffsetNow
  <2> QED
    BY <2>1, <2>2
<1>5. ASSUME Mode = 1
      PROVE  /\ r.PreviousFrameNum = 0 /\ r.PreviousFrameNumOffset = 0
             /\ LET top == ExpectedPoc(0, h.disposable)
                IN  r.framepoc = Min({top, top + pocSps.offset_for_top_to_bottom_field})
  <2>1. PICK e \in Int : e = ExpectedPoc(0, h.disposable)
    <3>1. 0 \in Int /\ h.disposable \in BOOLEAN
      BY DEF Headers
    <3> QED
      BY <3>1, ExpectedTyped
  <2>2. PICK o \in Int : o = pocSps.offset_for_top_to_bottom_field
    BY SpsTyped
  <2>4. /\ r.PreviousFrameNum = 0 /\ r.PreviousFrameNumOffset = 0
        /\ r.framepoc = Min({e + 0, e + 0 + o + 0})
    <3>1. PICK z : z = OffsetNow(n, h) /\ z = 0 /\ z + n.frame_num = 0
      BY <1>4, <1>5
    <3>2. h.idr = TRUE
      BY DEF Headers
    <3>5. Mode12Leaves(r, n, h)
      BY <1>4, <1>5
    <3>3. r.PreviousFrameNumOffset = z /\ r.PreviousFrameNum = n.frame_num
      BY <1>5, <3>1, <3>5, Zenon DEF Mode12Leaves
    <3>4. r.framepoc = Min({ExpectedPoc(z + n.frame_num, h.disposable) + 0,
                            ExpectedPoc(z + n.frame_num, h.disposable) + 0 + pocSps.offset_for_top_to_bottom_field + h.bottom})
      BY <1>5, <3>1, <3>2, <3>5, Zenon DEF Mode12Leaves
    <3> QED
      BY <2>1, <2>2, <3>1, <3>3, <3>4, Zenon
  <2>5. e + 0 = e /\ e + 0 + o + 0 = e + o
    OBVIOUS
  <2> QED
    BY <2>1, <2>2, <2>4, <2>5, Zenon
<1>6. ASSUME Mode = 2
      PROVE  r.PreviousFrameNum = 0 /\ r.PreviousFrameNumOffset = 0 /\ r.framepoc = 0
  <2>4. Mode12Leaves(r, n, h) /\ OffsetNow(n, h) = 0
    BY <1>4, <1>6
  <2>1. r.PreviousFrameNumOffset = 0
    BY <1>6, <2>4, Zenon DEF Mode12Leaves
  <2>2. r.PreviousFrameNum = n.frame_num
    BY <1>6, <2>4, Zenon DEF Mode12Leaves
  <2>3. r.framepoc = Min({0, 0})
    BY <1>6, <2>4, Zenon DEF Mode12Leaves
  <2> QED
    BY <1>2, <2>1, <2>2, <2>3, Zenon
<1> QED
  BY <1>1, <1>3, <1>5, <1>6, SpsTyped

(* What exit_picture() leaves. *)
LEMMA ExitStep ==
  ASSUME NEW m \in Counters, NEW h \in Headers
  PROVE  LET r == exit_picture(m, h)
         IN  /\ r \in Counters /\ r.last_has_mmco_5 = h.mmco5
             /\ h.mmco5 => r.pre_frame_num = 0 /\ r.toppoc = m.toppoc - m.framepoc
                           /\ r.framepoc = Min({m.toppoc - m.framepoc, m.bottompoc - m.framepoc})
             /\ ~h.mmco5 => /\ r.pre_frame_num = m.pre_frame_num /\ r.framepoc = m.framepoc
                            /\ r.PrevPicOrderCntMsb = m.PrevPicOrderCntMsb
                            /\ r.PrevPicOrderCntLsb = m.PrevPicOrderCntLsb
                            /\ r.PreviousFrameNum = m.PreviousFrameNum
                            /\ r.PreviousFrameNumOffset = m.PreviousFrameNumOffset
<1>1. PICK top \in Int, bottom \in Int : top = m.toppoc - m.framepoc /\ bottom = m.bottompoc - m.framepoc
  BY DEF Counters
<1>2. CASE h.mmco5
  <2>1. PICK c \in Counters : /\ c = WithPoc(m, top, bottom) /\ c.toppoc = top
                              /\ c.framepoc = Min({top, bottom})
    BY PocWritten
  <2>6. PICK z \in Int : z = 0
    OBVIOUS
  <2>2. PICK r : r = [c EXCEPT !.last_has_mmco_5 = TRUE, !.pre_frame_num = z]
    OBVIOUS
  <2>3. r = exit_picture(m, h)
    BY <1>1, <1>2, <2>1, <2>2, <2>6, Zenon DEF exit_picture
  <2>4. r \in Counters /\ r.last_has_mmco_5 = TRUE /\ r.pre_frame_num = z /\ r.toppoc = c.toppoc /\ r.framepoc = c.framepoc
    BY <2>2 DEF Counters
  <2>5. h.mmco5 = TRUE
    BY <1>2 DEF Headers
  <2> QED
    BY <1>1, <1>2, <2>1, <2>3, <2>4, <2>5, <2>6, Zenon
<1>3. CASE ~h.mmco5
  <2>1. PICK r : r = [m EXCEPT !.last_has_mmco_5 = FALSE]
    OBVIOUS
  <2>2. r = exit_picture(m, h)
    BY <1>3, <2>1, Zenon DEF exit_picture
  <2>3. /\ r \in Counters /\ r.last_has_mmco_5 = FALSE /\ r.pre_frame_num = m.pre_frame_num /\ r.framepoc = m.framepoc
        /\ r.PrevPicOrderCntMsb = m.PrevPicOrderCntMsb /\ r.PrevPicOrderCntLsb = m.PrevPicOrderCntLsb
        /\ r.PreviousFrameNum = m.PreviousFrameNum /\ r.PreviousFrameNumOffset = m.PreviousFrameNumOffset
    BY <2>1 DEF Counters
  <2>4. h.mmco5 = FALSE
    BY <1>3 DEF Headers
  <2> QED
    BY <1>3, <2>2, <2>3, <2>4, Zenon
<1> QED
  BY <1>2, <1>3

Pairs == [true : Int, got : Int]
PicTyped ==
  /\ pocSps \in PocSps /\ img \in Counters /\ ordered \in Seq(Pairs)
  /\ sender \in [num : Nat, base : Int, disposable : BOOLEAN, pictures : Nat]

(* The number of the last picture, which a picture nobody refers to has one on. *)
LastNum == sender.num + (IF sender.disposable THEN 1 ELSE 0)
AllSame(s) == \A k \in 1 .. Len(s) : s[k].got = s[k].true
Rising(s) == \A i, j \in 1 .. Len(s) : i < j => s[i].true < s[j].true /\ s[i].got < s[j].got
(* Type 2 counts D frame numbers too many. *)
Ahead(D) ==
  LET z == IF sender.disposable THEN 1 ELSE 0
  IN  /\ Tracks(img, sender.num, D) /\ (oddities = {} => D = 0)
      /\ ordered[Len(ordered)].true = 2 * sender.num + z
      /\ ordered[Len(ordered)].got <= 2 * (D + sender.num) + z
NumInv ==
  /\ img.pre_frame_num = LastNum % MaxFrameNum
  /\ img.last_has_mmco_5 => sender.num = 0 /\ ~sender.disposable
  /\ Len(ordered) > 0
CountInv ==
  /\ Mode = 0 /\ (img.last_has_mmco_5 \/ "gap after command 5" \notin oddities) => Low(img, sender.base)
  /\ Mode = 1 => Tracks(img, LastNum, 0)
  /\ Mode = 2 /\ "gap before a non-reference" \notin oddities => Rising(ordered) /\ \E D \in Nat : Ahead(D)
OrderInv ==
  /\ PicTyped
  /\ sender.pictures = 0 => ordered = <<>>
  /\ sender.pictures > 0 => NumInv /\ CountInv
  /\ SameCounts

(* One picture, with names for what it goes through. *)
PictureIs(kind, step, bottom, skip, num, top, due, h, read, m) ==
  /\ num = (IF kind = "idr" THEN 0 ELSE sender.num + 1 + skip)
  /\ top = TrueTop(kind = "idr", num, kind = "non-ref", step)
  /\ due = Min({top, TrueBottom(top, bottom)})
  /\ h = [idr |-> kind = "idr", disposable |-> kind = "non-ref", mmco5 |-> kind = "mmco5",
          frame_num |-> num % MaxFrameNum, lsb |-> top % MaxPicOrderCntLsb, delta |-> step, bottom |-> bottom]
  /\ read = WithHeader(img, h)
  /\ m = init_picture(read, h)
  /\ Mode = 2 => ~(kind = "non-ref" /\ sender.disposable)
  /\ img' = exit_picture(m, h)
  /\ sender' = [num |-> IF kind = "non-ref" THEN num - 1 ELSE IF kind \in {"idr", "mmco5"} THEN 0 ELSE num,
                base |-> IF kind = "non-ref" THEN sender.base
                         ELSE IF kind = "mmco5" THEN top - due ELSE top,
                disposable |-> kind = "non-ref", pictures |-> sender.pictures + 1]
  /\ ordered' = (IF kind \in {"idr", "mmco5"} THEN <<[true |-> IF kind = "idr" THEN due ELSE 0, got |-> img'.framepoc]>>
                 ELSE Append(ordered, [true |-> due, got |-> m.framepoc]))
  /\ oddities' = (IF kind \in {"idr", "mmco5"} THEN {} ELSE oddities)
       \cup (IF img.last_has_mmco_5 /\ Gap(read) THEN {"gap after command 5"} ELSE {})
       \cup (IF kind = "non-ref" /\ read.frame_num < img.PreviousFrameNum THEN {"wrap at a non-reference"} ELSE {})
       \cup (IF kind = "non-ref" /\ Gap(read) THEN {"gap before a non-reference"} ELSE {})
  /\ pocSps' = pocSps

(* What may be sent. *)
Sendable(kind, step, bottom, skip) ==
  /\ kind \in {"idr", "ref", "non-ref", "mmco5"} /\ (sender.pictures = 0 => kind = "idr")
  /\ step \in Int /\ bottom \in Int /\ skip \in 0 .. MaxFrameNum - 2
  /\ kind = "idr" => step = 0 /\ bottom = 0
  /\ -MaxPicOrderCntLsb < 2 * step /\ 2 * step <= MaxPicOrderCntLsb /\ -bottom < MaxPicOrderCntLsb

(* Picture() names what it computes by LET; here the names are variables. *)
LEMMA PictureNamed ==
  ASSUME NEW kind, NEW step, NEW bottom, NEW skip, Picture(kind, step, bottom, skip), UNCHANGED pocSps
  PROVE  \E num, top, due, h, read, m : PictureIs(kind, step, bottom, skip, num, top, due, h, read, m)
<1>1. PICK num : num = IF kind = "idr" THEN 0 ELSE sender.num + 1 + skip
  OBVIOUS
<1>2. PICK top : top = TrueTop(kind = "idr", num, kind = "non-ref", step)
  OBVIOUS
<1>3. PICK due : due = Min({top, TrueBottom(top, bottom)})
  OBVIOUS
<1>4. PICK h : h = [idr |-> kind = "idr", disposable |-> kind = "non-ref", mmco5 |-> kind = "mmco5",
          frame_num |-> num % MaxFrameNum, lsb |-> top % MaxPicOrderCntLsb, delta |-> step, bottom |-> bottom]
  OBVIOUS
<1>5. PICK read : read = WithHeader(img, h)
  OBVIOUS
<1>6. PICK m : m = init_picture(read, h)
  OBVIOUS
<1>7. PictureIs(kind, step, bottom, skip, num, top, due, h, read, m)
  BY <1>1, <1>2, <1>3, <1>4, <1>5, <1>6, ZenonT(90) DEF Picture, PictureIs
<1> QED
  BY <1>7, Zenon

(* Every step sends a picture within the bounds. *)
LEMMA PictureSent ==
  ASSUME PicTyped, DecodePicture
  PROVE  \E kind, step, bottom, skip :
           Sendable(kind, step, bottom, skip) /\ Picture(kind, step, bottom, skip) /\ UNCHANGED pocSps
<1>1. PICK kind \in (IF sender.pictures = 0 THEN {"idr"} ELSE {"idr", "ref", "non-ref", "mmco5"}) :
        \E step \in Steps(kind), bottom \in (IF Mode = 2 \/ kind = "idr" THEN {0} ELSE BottomDeltas),
           skip \in (IF kind = "idr" THEN {0} ELSE Skips) : Picture(kind, step, bottom, skip)
  BY Zenon DEF DecodePicture
<1>2. PICK step \in Steps(kind), bottom \in (IF Mode = 2 \/ kind = "idr" THEN {0} ELSE BottomDeltas),
           skip \in (IF kind = "idr" THEN {0} ELSE Skips) : Picture(kind, step, bottom, skip)
  BY <1>1
<1>3. MaxFrameNum \in Int /\ MaxFrameNum > 1 /\ MaxPicOrderCntLsb \in Int /\ MaxPicOrderCntLsb > 0
  BY PicOrderAssumption
<1>4. /\ step \in Int /\ -MaxPicOrderCntLsb < 2 * step /\ 2 * step <= MaxPicOrderCntLsb
      /\ kind = "idr" => step = 0
  <2>1. CASE step = 0
    BY <1>3, <2>1
  <2>2. CASE step \in PocSteps /\ kind # "idr"
    BY <2>2, PicOrderAssumption
  <2> QED
    BY <2>1, <2>2 DEF Steps
<1>5. bottom \in Int /\ -bottom < MaxPicOrderCntLsb /\ (kind = "idr" => bottom = 0)
  <2>1. CASE bottom = 0
    BY <1>3, <2>1
  <2>2. CASE bottom \in BottomDeltas /\ kind # "idr"
    BY <2>2, PicOrderAssumption
  <2> QED
    BY <2>1, <2>2
<1>6. skip \in 0 .. MaxFrameNum - 2
  <2>1. CASE skip = 0
    BY <1>3, <2>1
  <2>2. CASE skip \in Skips
    BY <2>2, PicOrderAssumption
  <2> QED
    BY <2>1, <2>2
<1>7. kind \in {"idr", "ref", "non-ref", "mmco5"} /\ (sender.pictures = 0 => kind = "idr")
  BY Zenon
<1>8. Sendable(kind, step, bottom, skip)
  BY <1>4, <1>5, <1>6, <1>7 DEF Sendable
<1> QED
  BY <1>2, <1>8, Zenon DEF DecodePicture

(* The counts of the frame and of its fields. *)
LEMMA FrameLeast ==
  ASSUME pocSps \in PocSps, NEW n \in Counters, NEW h \in Headers
  PROVE  decode_poc(n, h).framepoc = Min({decode_poc(n, h).toppoc, decode_poc(n, h).bottompoc})
<1>1. CASE Mode = 0
  BY <1>1, Decoded, Zenon DEF Mode0Leaves
<1>2. CASE Mode = 1
  <2>1. Mode12Leaves(decode_poc(n, h), n, h)
    BY <1>2, Decoded
  <2> QED
    BY <1>2, <2>1, Zenon DEF Mode12Leaves
<1>3. CASE Mode = 2
  <2>1. Mode12Leaves(decode_poc(n, h), n, h)
    BY <1>3, Decoded
  <2> QED
    BY <1>3, <2>1, Zenon DEF Mode12Leaves
<1> QED
  BY <1>1, <1>2, <1>3, SpsTyped

(* One more at the end. *)
LEMMA OneAppended ==
  ASSUME NEW s \in Seq(Pairs), Len(s) > 0, NEW t \in Int, NEW g \in Int
  PROVE  LET a == Append(s, [true |-> t, got |-> g])
         IN  /\ a \in Seq(Pairs) /\ Len(a) > 0 /\ a[Len(a)].true = t /\ a[Len(a)].got = g
             /\ AllSame(s) /\ g = t => AllSame(a)
             /\ Rising(s) /\ s[Len(s)].true < t /\ s[Len(s)].got < g => Rising(a)
<1>1. PICK e : e = [true |-> t, got |-> g]
  OBVIOUS
<1>2. e \in Pairs /\ e.true = t /\ e.got = g
  BY <1>1 DEF Pairs
<1>3. PICK a : a = Append(s, e)
  OBVIOUS
<1>4. PICK l \in Nat : l = Len(s) /\ l > 0
  OBVIOUS
<1>5. a \in Seq(Pairs) /\ Len(a) = l + 1 /\ a[l + 1] = e /\ \A k \in 1 .. l : a[k] = s[k]
  BY <1>2, <1>3, <1>4
<1>6. \A k \in 1 .. l + 1 : k \in 1 .. l \/ k = l + 1
  OBVIOUS
<1>7. ASSUME AllSame(s), g = t
      PROVE  AllSame(a)
  <2>1. \A k \in 1 .. l : s[k].got = s[k].true
    BY <1>4, <1>7, Zenon DEF AllSame
  <2>2. \A k \in 1 .. l + 1 : a[k].got = a[k].true
    BY <1>2, <1>5, <1>6, <1>7, <2>1, Zenon
  <2> QED
    BY <1>5, <2>2, Zenon DEF AllSame
<1>8. ASSUME Rising(s), s[l].true < t, s[l].got < g
      PROVE  Rising(a)
  <2>1. \A k \in 1 .. l : s[k] \in Pairs /\ s[k].true \in Int /\ s[k].got \in Int
    <3> SUFFICES ASSUME NEW k \in 1 .. l PROVE s[k] \in Pairs /\ s[k].true \in Int /\ s[k].got \in Int
      OBVIOUS
    <3>1. s[k] \in Pairs
      BY <1>4
    <3> QED
      BY <3>1 DEF Pairs
  <2>2. ASSUME NEW i \in 1 .. l PROVE s[i].true < t /\ s[i].got < g
    <3>1. CASE i = l
      BY <1>8, <3>1
    <3>2. CASE i < l
      <4>1. l \in 1 .. l /\ l = Len(s)
        BY <1>4
      <4>2. s[i].true < s[l].true /\ s[i].got < s[l].got
        BY <1>4, <1>8, <3>2, <4>1 DEF Rising
      <4>3. s[i].true \in Int /\ s[i].got \in Int /\ s[l].true \in Int /\ s[l].got \in Int
        BY <2>1, <4>1
      <4>4. PICK p \in Int, q \in Int, u \in Int, v \in Int : p = s[i].true /\ q = s[i].got /\ u = s[l].true /\ v = s[l].got
        BY <4>3
      <4> QED
        BY <1>8, <4>2, <4>4
    <3> QED
      BY <3>1, <3>2
  <2>3. ASSUME NEW i \in 1 .. l + 1, NEW j \in 1 .. l + 1, i < j
        PROVE  a[i].true < a[j].true /\ a[i].got < a[j].got
    <3>1. i \in 1 .. l
      BY <2>3
    <3>2. CASE j = l + 1
      <4>1. a[i] = s[i] /\ a[j] = e
        BY <1>5, <3>1, <3>2
      <4> QED
        BY <1>2, <2>2, <3>1, <4>1, Zenon
    <3>3. CASE j \in 1 .. l
      <4>1. a[i] = s[i] /\ a[j] = s[j]
        BY <1>5, <3>1, <3>3
      <4>2. s[i].true < s[j].true /\ s[i].got < s[j].got
        BY <1>4, <1>8, <2>3, <3>1, <3>3 DEF Rising
      <4> QED
        BY <4>1, <4>2, Zenon
    <3> QED
      BY <3>2, <3>3
  <2>4. Len(a) = l + 1
    BY <1>5
  <2> QED
    BY <2>3, <2>4, Zenon DEF Rising
<1>9. Len(a) > 0 /\ a[Len(a)] = e
  BY <1>4, <1>5
<1> QED
  BY <1>1, <1>2, <1>3, <1>4, <1>5, <1>7, <1>8, <1>9, Zenon

(* Zero, as a fact to cite. *)
LEMMA ZeroIsNatural == 0 \in Nat /\ 0 \in Int
OBVIOUS

(* The sender counts in integers. *)
LEMMA TrueTyped ==
  ASSUME pocSps \in PocSps, sender.base \in Int, NEW idr \in BOOLEAN, NEW num \in Nat, NEW disposable \in BOOLEAN, NEW step \in Int
  PROVE  TrueTop(idr, num, disposable, step) \in Int
<1>1. PICK e \in Int : e = TrueExpected(num, disposable)
  BY ExpectedRight
<1>2. pocSps.offset_for_non_ref_pic \in Int /\ Mode \in {0, 1, 2}
  BY SpsTyped
<1>3. CASE Mode = 0
  BY <1>3 DEF TrueTop
<1>4. CASE Mode = 1
  <2>1. TrueTop(idr, num, disposable, step)
          = e + (IF idr THEN 0 ELSE step) + (IF disposable THEN pocSps.offset_for_non_ref_pic ELSE 0)
    BY <1>1, <1>4 DEF TrueTop
  <2> QED
    BY <1>2, <2>1
<1>5. CASE Mode = 2
  BY <1>5 DEF TrueTop
<1> QED
  BY <1>2, <1>3, <1>4, <1>5

SetUp(kind, step, bottom, num, top, due, h, read, m, N, n) ==
  /\ num \in Nat /\ top \in Int /\ due \in Int
  /\ N = (IF kind = "idr" THEN 0 ELSE LastNum) /\ num - N \in 0 .. MaxFrameNum - 1
  /\ h \in Headers /\ (h.idr <=> kind = "idr") /\ (h.disposable <=> kind = "non-ref") /\ (h.mmco5 <=> kind = "mmco5")
  /\ h.lsb = top % MaxPicOrderCntLsb /\ h.delta = step /\ h.bottom = bottom
  /\ read \in Counters /\ read.frame_num = num % MaxFrameNum /\ read.last_has_mmco_5 = img.last_has_mmco_5
  /\ read.PrevPicOrderCntMsb = img.PrevPicOrderCntMsb /\ read.PrevPicOrderCntLsb = img.PrevPicOrderCntLsb
  /\ read.PreviousFrameNum = img.PreviousFrameNum /\ read.PreviousFrameNumOffset = img.PreviousFrameNumOffset
  /\ read.toppoc = img.toppoc
  /\ Gap(read) <=> num - N >= 2
  /\ n \in Counters /\ m = decode_poc(n, h) /\ Reaches(n, read, h, N, num)
  /\ m \in Counters /\ Untouched(m, n) /\ m.framepoc = Min({m.toppoc, m.bottompoc})

(* What decode_poc() finds when a picture arrives. *)
LEMMA PictureSetUp ==
  ASSUME OrderInv, NEW kind, NEW step, NEW bottom, NEW skip, Sendable(kind, step, bottom, skip),
         NEW num, NEW top, NEW due, NEW h, NEW read, NEW m,
         PictureIs(kind, step, bottom, skip, num, top, due, h, read, m)
  PROVE  \E N, n : SetUp(kind, step, bottom, num, top, due, h, read, m, N, n)
<1>1. /\ pocSps \in PocSps /\ img \in Counters /\ sender.num \in Nat /\ sender.base \in Int
      /\ sender.disposable \in BOOLEAN /\ sender.pictures \in Nat
  BY DEF OrderInv, PicTyped
<1>2. /\ kind \in {"idr", "ref", "non-ref", "mmco5"} /\ (kind # "idr" => sender.pictures > 0)
      /\ step \in Int /\ bottom \in Int /\ skip \in 0 .. MaxFrameNum - 2
  BY <1>1 DEF Sendable
<1>3. PICK M \in Int : M = MaxFrameNum /\ M > 1
  BY PicOrderAssumption
<1>4. PICK L \in Int : L = MaxPicOrderCntLsb /\ L > 0
  BY PicOrderAssumption
<1>5. num \in Nat /\ num \in Int /\ (kind = "idr" => num = 0) /\ (kind # "idr" => num = sender.num + 1 + skip)
  <2>1. (kind = "idr" => num = 0) /\ (kind # "idr" => num = sender.num + 1 + skip)
    BY Zenon DEF PictureIs
  <2>2. CASE kind = "idr"
    <3>1. num = 0
      BY <2>1, <2>2, Zenon
    <3> QED
      BY <2>2, <3>1, ZeroIsNatural, Zenon
  <2>3. CASE kind # "idr"
    <3>1. num = sender.num + 1 + skip
      BY <2>1, <2>3
    <3>2. skip \in Nat
      BY <1>2, <1>3
    <3>3. sender.num + 1 + skip \in Nat
      BY <1>1, <3>2
    <3> QED
      BY <2>1, <2>3, <3>1, <3>3
  <2> QED
    BY <2>2, <2>3
<1>6. top \in Int
  <2>1. PICK idr \in BOOLEAN, disposable \in BOOLEAN : (idr = (kind = "idr")) /\ (disposable = (kind = "non-ref"))
    OBVIOUS
  <2>2. TrueTop(idr, num, disposable, step) \in Int
    BY <1>1, <1>2, <1>5, TrueTyped
  <2>3. top = TrueTop(kind = "idr", num, kind = "non-ref", step)
    BY DEF PictureIs
  <2> QED
    BY <2>1, <2>2, <2>3, Zenon
<1>7. due \in Int
  <2>1. TrueBottom(top, bottom) \in Int
    <3>1. PICK o \in Int : o = pocSps.offset_for_top_to_bottom_field
      BY <1>1, SpsTyped
    <3>2. Mode \in {0, 1, 2}
      BY <1>1, SpsTyped
    <3> QED
      BY <1>2, <1>6, <3>1, <3>2 DEF TrueBottom
  <2>2. due = Min({top, TrueBottom(top, bottom)})
    BY DEF PictureIs
  <2> QED
    BY <1>6, <2>1, <2>2, LeastOfTwo
<1>8. PICK N \in Int : N = IF kind = "idr" THEN 0 ELSE LastNum
  BY <1>1 DEF LastNum
<1>9. num - N \in 0 .. MaxFrameNum - 1
  <2>1. CASE kind = "idr"
    BY <1>3, <1>5, <1>8, <2>1
  <2>2. CASE kind # "idr"
    <3>1. N = sender.num + (IF sender.disposable THEN 1 ELSE 0)
      BY <1>8, <2>2 DEF LastNum
    <3> QED
      BY <1>1, <1>2, <1>3, <1>5, <2>2, <3>1
  <2> QED
    BY <2>1, <2>2
<1>10. PICK f \in Int, l \in Int : f = num % MaxFrameNum /\ l = top % MaxPicOrderCntLsb
  BY <1>3, <1>4, <1>5, <1>6
<1>11. PICK a \in BOOLEAN, b \in BOOLEAN, c \in BOOLEAN :
         (a = (kind = "idr")) /\ (b = (kind = "non-ref")) /\ (c = (kind = "mmco5"))
  OBVIOUS
<1>12. h = [idr |-> a, disposable |-> b, mmco5 |-> c, frame_num |-> f, lsb |-> l, delta |-> step, bottom |-> bottom]
  <2>1. h = [idr |-> kind = "idr", disposable |-> kind = "non-ref", mmco5 |-> kind = "mmco5",
             frame_num |-> num % MaxFrameNum, lsb |-> top % MaxPicOrderCntLsb, delta |-> step, bottom |-> bottom]
    BY DEF PictureIs
  <2> QED
    BY <1>10, <1>11, <2>1, Zenon
<1>13. /\ h \in Headers /\ h.idr = a /\ h.disposable = b /\ h.mmco5 = c /\ h.frame_num = f /\ h.lsb = l
       /\ h.delta = step /\ h.bottom = bottom
  BY <1>2, <1>12 DEF Headers
<1>14. PICK p \in Int : p = IF h.idr THEN h.frame_num ELSE img.pre_frame_num
  BY <1>1, <1>13 DEF Counters
<1>15. PICK r : r = [img EXCEPT !.frame_num = f, !.pre_frame_num = p]
  OBVIOUS
<1>16. r = read
  <2>1. read = [img EXCEPT !.frame_num = h.frame_num, !.pre_frame_num = IF h.idr THEN h.frame_num ELSE img.pre_frame_num]
    BY DEF PictureIs, WithHeader
  <2> QED
    BY <1>13, <1>14, <1>15, <2>1, Zenon
<1>17. /\ r \in Counters /\ r.frame_num = f /\ r.pre_frame_num = p /\ r.last_has_mmco_5 = img.last_has_mmco_5
       /\ r.PrevPicOrderCntMsb = img.PrevPicOrderCntMsb /\ r.PrevPicOrderCntLsb = img.PrevPicOrderCntLsb
       /\ r.PreviousFrameNum = img.PreviousFrameNum /\ r.PreviousFrameNumOffset = img.PreviousFrameNumOffset
       /\ r.toppoc = img.toppoc
  BY <1>1, <1>15 DEF Counters
<1>18. read.pre_frame_num = N % MaxFrameNum /\ read.frame_num = num % MaxFrameNum
  <2>1. read.frame_num = num % MaxFrameNum
    BY <1>10, <1>16, <1>17, Zenon
  <2>2. CASE kind = "idr"
    <3>1. N = num
      BY <1>5, <1>8, <2>2
    <3>2. read.pre_frame_num = f
      BY <1>11, <1>13, <1>14, <1>16, <1>17, <2>2
    <3> QED
      BY <1>10, <2>1, <3>1, <3>2, Zenon
  <2>3. CASE kind # "idr"
    <3>1. read.pre_frame_num = img.pre_frame_num
      BY <1>11, <1>13, <1>14, <1>16, <1>17, <2>3
    <3>2. img.pre_frame_num = LastNum % MaxFrameNum
      BY <1>2, <2>3 DEF OrderInv, NumInv
    <3> QED
      BY <1>8, <2>1, <2>3, <3>1, <3>2, Zenon
  <2> QED
    BY <2>2, <2>3
<1>19. read \in Counters
  BY <1>16, <1>17
<1>20. Gap(read) <=> num - N >= 2
  BY <1>5, <1>9, <1>18, <1>19, GapOf
<1>21. PICK n \in Counters : init_picture(read, h) = decode_poc(n, h) /\ Reaches(n, read, h, N, num)
  <2>1. ~h.idr \/ num = N
    BY <1>5, <1>8, <1>11, <1>13
  <2>2. num \in Int
    BY <1>5
  <2> QED
    BY <1>1, <1>9, <1>13, <1>18, <1>19, <2>1, <2>2, BeforePicture
<1>22. m = decode_poc(n, h)
  BY <1>21 DEF PictureIs
<1>23. m \in Counters /\ Untouched(m, n)
  BY <1>1, <1>13, <1>22, Decoded
<1>24. m.framepoc = Min({m.toppoc, m.bottompoc})
  BY <1>1, <1>13, <1>22, FrameLeast, Zenon
<1>25. (h.idr <=> kind = "idr") /\ (h.disposable <=> kind = "non-ref") /\ (h.mmco5 <=> kind = "mmco5")
  BY <1>11, <1>13
<1>26. h.lsb = top % MaxPicOrderCntLsb /\ h.delta = step /\ h.bottom = bottom
  BY <1>10, <1>13, Zenon
<1>27. SetUp(kind, step, bottom, num, top, due, h, read, m, N, n)
  BY <1>5, <1>6, <1>7, <1>8, <1>9, <1>13, <1>16, <1>17, <1>18, <1>19, <1>20, <1>21, <1>22, <1>23, <1>24, <1>25, <1>26, Zenon
     DEF SetUp
<1> QED
  BY <1>27, Zenon

(* What a picture does to the sender's counts and to the history. *)
LEMMA SenderNext ==
  ASSUME NEW kind, NEW step, NEW bottom, NEW skip, NEW num, NEW top, NEW due, NEW h, NEW read, NEW m,
         PictureIs(kind, step, bottom, skip, num, top, due, h, read, m)
  PROVE  /\ sender'.num = (IF kind = "non-ref" THEN num - 1 ELSE IF kind \in {"idr", "mmco5"} THEN 0 ELSE num)
         /\ sender'.base = (IF kind = "non-ref" THEN sender.base ELSE IF kind = "mmco5" THEN top - due ELSE top)
         /\ sender'.disposable = (kind = "non-ref") /\ sender'.pictures = sender.pictures + 1
BY DEF PictureIs

(* A picture leaves everything of its type. *)
LEMMA SentTyped ==
  ASSUME OrderInv, NEW kind, NEW step, NEW bottom, NEW skip, Sendable(kind, step, bottom, skip),
         NEW num, NEW top, NEW due, NEW h, NEW read, NEW m, NEW N, NEW n,
         PictureIs(kind, step, bottom, skip, num, top, due, h, read, m),
         SetUp(kind, step, bottom, num, top, due, h, read, m, N, n)
  PROVE  PicTyped' /\ img' = exit_picture(m, h)
<1>1. /\ pocSps \in PocSps /\ img \in Counters /\ sender.num \in Nat /\ sender.base \in Int
      /\ sender.disposable \in BOOLEAN /\ sender.pictures \in Nat /\ ordered \in Seq(Pairs)
  BY DEF OrderInv, PicTyped
<1>2. num \in Nat /\ top \in Int /\ due \in Int /\ h \in Headers /\ m \in Counters
  BY DEF SetUp
<1>3. img' = exit_picture(m, h) /\ pocSps' = pocSps
  BY DEF PictureIs
<1>4. img' \in Counters
  BY <1>2, <1>3, ExitStep
<1>5. kind = "non-ref" => num > 0
  <2>1. ASSUME kind = "non-ref" PROVE num > 0
    <3>1. N = LastNum /\ num - N \in 0 .. MaxFrameNum - 1
      BY <2>1 DEF SetUp
    <3>2. num = sender.num + 1 + skip
      BY <2>1, Zenon DEF PictureIs
    <3>3. skip \in 0 .. MaxFrameNum - 2 /\ MaxFrameNum \in Int
      BY PicOrderAssumption DEF Sendable
    <3> QED
      BY <1>1, <3>2, <3>3
  <2> QED
    BY <2>1
<1>6. PICK x \in Nat : x = IF kind = "non-ref" THEN num - 1 ELSE IF kind \in {"idr", "mmco5"} THEN 0 ELSE num
  BY <1>2, <1>5
<1>7. PICK y \in Int : y = IF kind = "non-ref" THEN sender.base ELSE IF kind = "mmco5" THEN top - due ELSE top
  <2>1. PICK v \in Int : v = sender.base
    BY <1>1
  <2>2. (IF kind = "mmco5" THEN top - due ELSE top) \in Int
    BY <1>2
  <2> QED
    BY <2>1, <2>2
<1>8. PICK d \in BOOLEAN : d = (kind = "non-ref")
  OBVIOUS
<1>9. PICK p \in Nat : p = sender.pictures + 1
  BY <1>1
<1>10. sender' = [num |-> x, base |-> y, disposable |-> d, pictures |-> p]
  BY <1>6, <1>7, <1>8, <1>9, Zenon DEF PictureIs
<1>11. sender' \in [num : Nat, base : Int, disposable : BOOLEAN, pictures : Nat]
  BY <1>10
<1>12. ordered' \in Seq(Pairs)
  <2>1. img'.framepoc \in Int /\ m.framepoc \in Int
    BY <1>2, <1>4 DEF Counters
  <2>2. CASE kind \in {"idr", "mmco5"}
    <3>1. PICK t \in Int : t = IF kind = "idr" THEN due ELSE 0
      BY <1>2
    <3>2. ordered' = <<[true |-> t, got |-> img'.framepoc]>>
      BY <2>2, <3>1, Zenon DEF PictureIs
    <3>3. [true |-> t, got |-> img'.framepoc] \in Pairs
      BY <2>1 DEF Pairs
    <3> QED
      BY <3>2, <3>3
  <2>3. CASE kind \notin {"idr", "mmco5"}
    <3>1. ordered' = Append(ordered, [true |-> due, got |-> m.framepoc])
      BY <2>3, Zenon DEF PictureIs
    <3>2. [true |-> due, got |-> m.framepoc] \in Pairs
      BY <1>2, <2>1 DEF Pairs
    <3> QED
      BY <1>1, <3>1, <3>2
  <2> QED
    BY <2>2, <2>3
<1> QED
  BY <1>1, <1>3, <1>4, <1>11, <1>12 DEF PicTyped

(* The decoder has seen the number the sender sent last. *)
LEMMA SentNumbers ==
  ASSUME OrderInv, NEW kind, NEW step, NEW bottom, NEW skip, Sendable(kind, step, bottom, skip),
         NEW num, NEW top, NEW due, NEW h, NEW read, NEW m, NEW N, NEW n,
         PictureIs(kind, step, bottom, skip, num, top, due, h, read, m),
         SetUp(kind, step, bottom, num, top, due, h, read, m, N, n)
  PROVE  NumInv' /\ sender'.pictures > 0 /\ LastNum' = (IF kind \in {"idr", "mmco5"} THEN 0 ELSE num)
<1>1. num \in Nat /\ m \in Counters /\ h \in Headers /\ kind \in {"idr", "ref", "non-ref", "mmco5"}
  BY DEF SetUp, Sendable
<1>2. LastNum' = (IF kind \in {"idr", "mmco5"} THEN 0 ELSE num)
  <2>1. LastNum' = sender'.num + (IF sender'.disposable THEN 1 ELSE 0)
    BY DEF LastNum
  <2>2. CASE kind = "non-ref"
    <3>4. sender'.num = (IF kind = "non-ref" THEN num - 1 ELSE IF kind \in {"idr", "mmco5"} THEN 0 ELSE num)
      BY SenderNext, Zenon
    <3>2. sender'.num = num - 1
      BY <2>2, <3>4
    <3>3. sender'.disposable = (kind = "non-ref")
      BY SenderNext, Zenon
    <3>1. sender'.num = num - 1 /\ sender'.disposable
      BY <2>2, <3>2, <3>3
    <3> QED
      BY <1>1, <2>1, <2>2, <3>1
  <2>3. CASE kind # "non-ref"
    <3>1. sender'.num = (IF kind \in {"idr", "mmco5"} THEN 0 ELSE num) /\ ~sender'.disposable
      BY <2>3, SenderNext
    <3> QED
      BY <1>1, <2>1, <2>3, <3>1
  <2> QED
    BY <2>2, <2>3
<1>3. img' = exit_picture(m, h) /\ PicTyped'
  BY SentTyped
<1>4. img'.pre_frame_num = LastNum' % MaxFrameNum
  <2>1. 0 % MaxFrameNum = 0
    BY PicOrderAssumption
  <2>2. CASE kind = "mmco5"
    <3>1. img'.pre_frame_num = 0
      BY <1>1, <1>3, <2>2, ExitStep DEF SetUp
    <3> QED
      BY <1>2, <2>1, <2>2, <3>1
  <2>3. CASE kind # "mmco5"
    <3>1. img'.pre_frame_num = m.pre_frame_num
      BY <1>1, <1>3, <2>3, ExitStep DEF SetUp
    <3>2. m.pre_frame_num = num % MaxFrameNum
      BY DEF SetUp, Untouched, Reaches
    <3>3. LastNum' = num
      <4>1. CASE kind = "idr"
        <5>1. num = 0
          BY <4>1, Zenon DEF PictureIs
        <5> QED
          BY <1>2, <4>1, <5>1
      <4>2. CASE kind # "idr"
        BY <1>2, <2>3, <4>2
      <4> QED
        BY <4>1, <4>2
    <3> QED
      BY <3>1, <3>2, <3>3, Zenon
  <2> QED
    BY <2>2, <2>3
<1>5. img'.last_has_mmco_5 => sender'.num = 0 /\ ~sender'.disposable
  <2>1. ASSUME img'.last_has_mmco_5 PROVE kind = "mmco5"
    BY <1>1, <1>3, <2>1, ExitStep DEF SetUp
  <2> QED
    BY <2>1, SenderNext
<1>6. Len(ordered') > 0
  <2>1. CASE kind \in {"idr", "mmco5"}
    <3>1. ordered' = <<[true |-> IF kind = "idr" THEN due ELSE 0, got |-> img'.framepoc]>>
      BY <2>1, Zenon DEF PictureIs
    <3> QED
      BY <3>1
  <2>2. CASE kind \notin {"idr", "mmco5"}
    <3>1. ordered' = Append(ordered, [true |-> due, got |-> m.framepoc])
      BY <2>2, Zenon DEF PictureIs
    <3>2. ordered \in Seq(Pairs)
      BY DEF OrderInv, PicTyped
    <3> QED
      BY <3>1, <3>2
  <2> QED
    BY <2>1, <2>2
<1>7. sender'.pictures > 0
  <2>1. sender.pictures \in Nat
    BY DEF OrderInv, PicTyped
  <2> QED
    BY <2>1, SenderNext
<1> QED
  BY <1>2, <1>4, <1>5, <1>6, <1>7 DEF NumInv

(* After command 5 the picture's own count is 0. *)
LEMMA CommandCount ==
  ASSUME NEW m \in Counters, NEW h \in Headers, h.mmco5, m.framepoc = Min({m.toppoc, m.bottompoc})
  PROVE  exit_picture(m, h).framepoc = 0
<1>1. PICK t \in Int, b \in Int, f \in Int : t = m.toppoc /\ b = m.bottompoc /\ f = m.framepoc
  BY DEF Counters
<1>2. f = IF t <= b THEN t ELSE b
  BY <1>1, LeastOfTwo
<1>3. PICK u \in Int, v \in Int : u = t - f /\ v = b - f
  OBVIOUS
<1>4. Min({u, v}) = IF u <= v THEN u ELSE v
  BY LeastOfTwo
<1>5. Min({u, v}) = 0
  BY <1>2, <1>3, <1>4
<1> QED
  BY <1>1, <1>3, <1>5, ExitStep, Zenon

(* The count of an IDR picture is the sender's. *)
LEMMA IdrCount ==
  ASSUME OrderInv, NEW kind, NEW step, NEW bottom, NEW skip, Sendable(kind, step, bottom, skip), kind = "idr",
         NEW num, NEW top, NEW due, NEW h, NEW read, NEW m, NEW N, NEW n,
         PictureIs(kind, step, bottom, skip, num, top, due, h, read, m),
         SetUp(kind, step, bottom, num, top, due, h, read, m, N, n)
  PROVE  /\ m.framepoc = due
         /\ Mode = 0 => top = 0 /\ m.PrevPicOrderCntLsb = 0 /\ m.PrevPicOrderCntMsb = 0
         /\ Mode # 0 => m.PreviousFrameNum = 0 /\ m.PreviousFrameNumOffset = 0
         /\ Mode = 2 => due = 0
<1>1. pocSps \in PocSps /\ Mode \in {0, 1, 2}
  BY SpsTyped DEF OrderInv, PicTyped
<1>2. num = 0 /\ step = 0 /\ bottom = 0
  <2>1. num = 0
    BY Zenon DEF PictureIs
  <2> QED
    BY <2>1 DEF Sendable
<1>3. n \in Counters /\ h \in Headers /\ h.idr /\ ~h.disposable /\ m = decode_poc(n, h) /\ h.delta = 0 /\ h.bottom = 0
  BY <1>2 DEF SetUp
<1>4. n.frame_num = 0
  <2>1. n.frame_num = num % MaxFrameNum
    BY DEF SetUp, Reaches
  <2>2. 0 % MaxFrameNum = 0
    BY PicOrderAssumption
  <2> QED
    BY <1>2, <2>1, <2>2
<1>10. PICK yes, no : yes = TRUE /\ no = FALSE /\ h.disposable = no
  <2>1. h.disposable \in BOOLEAN
    BY <1>3 DEF Headers
  <2> QED
    BY <1>3, <2>1
<1>5. top = TrueTop(yes, 0, no, 0) /\ due = Min({top, TrueBottom(top, 0)})
  <2>1. (kind = "idr") = TRUE /\ (kind = "non-ref") = FALSE
    OBVIOUS
  <2> QED
    BY <1>2, <1>10, <2>1, Zenon DEF PictureIs
<1>6. Min({0, 0}) = 0
  BY LeastOfTwo
<1>7. CASE Mode = 0
  <2>1. top = 0 /\ TrueBottom(top, 0) = 0
    BY <1>5, <1>7, <1>10 DEF TrueTop, TrueBottom
  <2>2. 0 % MaxPicOrderCntLsb = 0
    BY PicOrderAssumption
  <2>3. h.lsb = 0
    BY <2>1, <2>2 DEF SetUp
  <2>4. m.framepoc = 0 /\ m.PrevPicOrderCntLsb = 0 /\ m.PrevPicOrderCntMsb = 0
    BY <1>1, <1>3, <1>4, <1>7, <2>3, CountedIdr
  <2> QED
    BY <1>5, <1>6, <1>7, <2>1, <2>4
<1>8. CASE Mode = 1
  <2>1. PICK e \in Int : e = ExpectedPoc(0, no) /\ e = TrueExpected(0, no)
    <3>1. 0 \in Nat /\ no \in BOOLEAN
      BY <1>10
    <3>2. TrueExpected(0, no) \in Int /\ ExpectedPoc(0, no) = TrueExpected(0, no) + 0
      BY <1>1, <1>10, <3>1, ExpectedRight
    <3> QED
      BY <3>2
  <2>2. PICK o \in Int : o = pocSps.offset_for_top_to_bottom_field
    BY <1>1, SpsTyped
  <2>3. top = e /\ TrueBottom(top, 0) = e + o
    <3>1. top = e + 0 + 0
      BY <1>5, <1>8, <1>10, <2>1 DEF TrueTop
    <3> QED
      BY <1>8, <2>2, <3>1 DEF TrueBottom
  <2>4. m.framepoc = Min({e, e + o}) /\ m.PreviousFrameNum = 0 /\ m.PreviousFrameNumOffset = 0
    <3>1. /\ m.framepoc = Min({ExpectedPoc(0, h.disposable), ExpectedPoc(0, h.disposable) + pocSps.offset_for_top_to_bottom_field})
          /\ m.PreviousFrameNum = 0 /\ m.PreviousFrameNumOffset = 0
      <4>1. Mode # 0 /\ Mode # 2
        BY <1>8
      <4>2. Mode = 0 => h.lsb = 0
        BY <4>1
      <4> QED
        BY <1>1, <1>3, <1>4, <1>8, <4>1, <4>2, CountedIdr, Zenon
    <3> QED
      BY <1>10, <2>1, <2>2, <3>1, Zenon
  <2> QED
    BY <1>5, <1>8, <2>3, <2>4
<1>9. CASE Mode = 2
  <2>1. top = 0 /\ TrueBottom(top, 0) = 0
    <3>3. top = 2 * 0 - (IF no THEN 1 ELSE 0)
      BY <1>5, <1>9 DEF TrueTop
    <3>1. top = 2 * 0 - 0
      BY <1>10, <3>3
    <3>2. TrueBottom(top, 0) = top + 0
      BY <1>9 DEF TrueBottom
    <3> QED
      BY <3>1, <3>2
  <2>2. m.framepoc = 0 /\ m.PreviousFrameNum = 0 /\ m.PreviousFrameNumOffset = 0
    BY <1>1, <1>3, <1>4, <1>9, CountedIdr
  <2> QED
    BY <1>5, <1>6, <1>9, <2>1, <2>2
<1> QED
  BY <1>1, <1>7, <1>8, <1>9

(* A picture that shifts the counts is remembered as one. *)
LEMMA OdditiesNext ==
  ASSUME NEW kind, NEW step, NEW bottom, NEW skip, NEW num, NEW top, NEW due, NEW h, NEW read, NEW m,
         PictureIs(kind, step, bottom, skip, num, top, due, h, read, m)
  PROVE  /\ kind \notin {"idr", "mmco5"} => oddities \subseteq oddities'
         /\ img.last_has_mmco_5 /\ Gap(read) => "gap after command 5" \in oddities'
         /\ kind = "non-ref" /\ Gap(read) => "gap before a non-reference" \in oddities'
         /\ kind = "non-ref" /\ read.frame_num < img.PreviousFrameNum => "wrap at a non-reference" \in oddities'
<1>1. oddities' = (IF kind \in {"idr", "mmco5"} THEN {} ELSE oddities)
       \cup (IF img.last_has_mmco_5 /\ Gap(read) THEN {"gap after command 5"} ELSE {})
       \cup (IF kind = "non-ref" /\ read.frame_num < img.PreviousFrameNum THEN {"wrap at a non-reference"} ELSE {})
       \cup (IF kind = "non-ref" /\ Gap(read) THEN {"gap before a non-reference"} ELSE {})
  BY DEF PictureIs
<1> QED
  BY <1>1, Zenon

(* IDR pictures and command 5 start the counts again. *)
LEMMA RestartedCounts ==
  ASSUME OrderInv, NEW kind, NEW step, NEW bottom, NEW skip, Sendable(kind, step, bottom, skip),
         NEW num, NEW top, NEW due, NEW h, NEW read, NEW m, NEW N, NEW n,
         PictureIs(kind, step, bottom, skip, num, top, due, h, read, m),
         SetUp(kind, step, bottom, num, top, due, h, read, m, N, n), kind \in {"idr", "mmco5"}
  PROVE  /\ Len(ordered') = 1 /\ AllSame(ordered') /\ Rising(ordered')
         /\ Mode = 2 => ordered'[1].true = 0 /\ ordered'[1].got = 0
         /\ sender'.num = 0 /\ ~sender'.disposable /\ LastNum' = 0
<1>1. m \in Counters /\ h \in Headers /\ due \in Int /\ img' = exit_picture(m, h) /\ (h.mmco5 <=> kind = "mmco5")
  BY SentTyped DEF SetUp
<1>2. PICK t : /\ t = (IF kind = "idr" THEN due ELSE 0) /\ t = img'.framepoc /\ (Mode = 2 => t = 0)
  <2>1. CASE kind = "idr"
    <3>1. img'.framepoc = m.framepoc
      BY <1>1, <2>1, ExitStep
    <3>2. m.framepoc = due /\ (Mode = 2 => due = 0)
      BY <2>1, IdrCount
    <3> QED
      BY <2>1, <3>1, <3>2
  <2>2. CASE kind = "mmco5"
    <3>1. img'.framepoc = 0
      BY <1>1, <2>2, CommandCount DEF SetUp
    <3> QED
      BY <2>2, <3>1
  <2> QED
    BY <2>1, <2>2
<1>3. ordered' = <<[true |-> t, got |-> t]>>
  BY <1>2, Zenon DEF PictureIs
<1>4. Len(ordered') = 1 /\ ordered'[1].true = t /\ ordered'[1].got = t
  BY <1>3
<1>5. AllSame(ordered') /\ Rising(ordered')
  <2>1. \A k \in 1 .. 1 : k = 1
    OBVIOUS
  <2>2. \A i, j \in 1 .. 1 : ~(i < j)
    OBVIOUS
  <2> QED
    BY <1>4, <2>1, <2>2, Zenon DEF AllSame, Rising
<1>6. sender'.num = 0 /\ ~sender'.disposable
  <2>1. sender'.num = (IF kind = "non-ref" THEN num - 1 ELSE IF kind \in {"idr", "mmco5"} THEN 0 ELSE num)
    BY SenderNext, Zenon
  <2>2. sender'.disposable = (kind = "non-ref")
    BY SenderNext, Zenon
  <2>3. kind # "non-ref"
    OBVIOUS
  <2> QED
    BY <2>1, <2>2, <2>3
<1>7. LastNum' = 0
  BY <1>6 DEF LastNum
<1> QED
  BY <1>2, <1>4, <1>5, <1>6, <1>7

(* The other pictures go on with them. *)
Continued(num, skip, due, h, m, N) ==
  /\ sender.pictures > 0 /\ NumInv /\ CountInv /\ ~h.idr /\ ~h.mmco5
  /\ num = sender.num + 1 + skip /\ N = LastNum
  /\ ordered' = Append(ordered, [true |-> due, got |-> m.framepoc])
  /\ ~img'.last_has_mmco_5 /\ img'.framepoc = m.framepoc
  /\ img'.PrevPicOrderCntMsb = m.PrevPicOrderCntMsb /\ img'.PrevPicOrderCntLsb = m.PrevPicOrderCntLsb
  /\ img'.PreviousFrameNum = m.PreviousFrameNum /\ img'.PreviousFrameNumOffset = m.PreviousFrameNumOffset
  /\ oddities \subseteq oddities' /\ LastNum' = num

(* Any other picture is appended to the history. *)
LEMMA ContinuedCounts ==
  ASSUME OrderInv, NEW kind, NEW step, NEW bottom, NEW skip, Sendable(kind, step, bottom, skip),
         NEW num, NEW top, NEW due, NEW h, NEW read, NEW m, NEW N, NEW n,
         PictureIs(kind, step, bottom, skip, num, top, due, h, read, m),
         SetUp(kind, step, bottom, num, top, due, h, read, m, N, n), kind \notin {"idr", "mmco5"}
  PROVE  Continued(num, skip, due, h, m, N)
<1>1. sender.pictures > 0
  <2>1. sender.pictures \in Nat
    BY DEF OrderInv, PicTyped
  <2> QED
    BY <2>1 DEF Sendable
<1>2. NumInv /\ CountInv
  BY <1>1 DEF OrderInv
<1>3. m \in Counters /\ h \in Headers /\ ~h.idr /\ ~h.mmco5 /\ N = LastNum
  BY DEF SetUp
<1>4. img' = exit_picture(m, h) /\ LastNum' = num
  BY SentTyped, SentNumbers
<1>5. /\ exit_picture(m, h).last_has_mmco_5 = h.mmco5 /\ h.mmco5 \in BOOLEAN
      /\ exit_picture(m, h).framepoc = m.framepoc
      /\ exit_picture(m, h).PrevPicOrderCntMsb = m.PrevPicOrderCntMsb
      /\ exit_picture(m, h).PrevPicOrderCntLsb = m.PrevPicOrderCntLsb
      /\ exit_picture(m, h).PreviousFrameNum = m.PreviousFrameNum
      /\ exit_picture(m, h).PreviousFrameNumOffset = m.PreviousFrameNumOffset
  <2>1. h.mmco5 \in BOOLEAN
    BY <1>3 DEF Headers
  <2> QED
    BY <1>3, <2>1, ExitStep, Zenon
<1>6. num = sender.num + 1 + skip /\ ordered' = Append(ordered, [true |-> due, got |-> m.framepoc])
  BY Zenon DEF PictureIs
<1>7. h.mmco5 = FALSE
  BY <1>3, <1>5
<1>8. oddities \subseteq oddities'
  BY OdditiesNext, Zenon
<1> QED
  BY <1>1, <1>2, <1>3, <1>4, <1>5, <1>6, <1>7, <1>8, Zenon DEF Continued

(* What a step of the history does, whatever the type. *)
LEMMA CountsAppended ==
  ASSUME ordered \in Seq(Pairs), Len(ordered) > 0, NEW t \in Int, NEW g \in Int,
         ordered' = Append(ordered, [true |-> t, got |-> g])
  PROVE  /\ ordered'[Len(ordered')].true = t /\ ordered'[Len(ordered')].got = g
         /\ AllSame(ordered) /\ g = t => AllSame(ordered')
         /\ Rising(ordered) /\ ordered[Len(ordered)].true < t /\ ordered[Len(ordered)].got < g => Rising(ordered')
<1> DEFINE a == Append(ordered, [true |-> t, got |-> g])
<1>1. /\ a \in Seq(Pairs) /\ Len(a) > 0 /\ a[Len(a)].true = t /\ a[Len(a)].got = g
      /\ AllSame(ordered) /\ g = t => AllSame(a)
      /\ Rising(ordered) /\ ordered[Len(ordered)].true < t /\ ordered[Len(ordered)].got < g => Rising(a)
  BY OneAppended, Zenon
<1>2. ordered' = a
  OBVIOUS
<1> QED
  BY <1>1, <1>2, Zenon

(* Integers add up to one. *)
LEMMA SumOfTwo ==
  ASSUME NEW a \in Int, NEW b \in Int
  PROVE  a + b \in Int
OBVIOUS

(* Each type is not the others. *)
LEMMA ZeroAlone ==
  ASSUME Mode = 0
  PROVE  Mode # 1 /\ Mode # 2
OBVIOUS

(* What SameCounts says of type 0. *)
LEMMA SameCounts0 ==
  ASSUME Mode = 0, SameCounts, "gap after command 5" \notin oddities
  PROVE  AllSame(ordered)
<1>1. Mode # 1 /\ Mode # 2
  BY ZeroAlone
<1> QED
  BY <1>1, Zenon DEF SameCounts, AllSame

(* Type 0. *)
LEMMA Count0 ==
  ASSUME OrderInv, NEW kind, NEW step, NEW bottom, NEW skip, Sendable(kind, step, bottom, skip),
         NEW num, NEW top, NEW due, NEW h, NEW read, NEW m, NEW N, NEW n,
         PictureIs(kind, step, bottom, skip, num, top, due, h, read, m),
         SetUp(kind, step, bottom, num, top, due, h, read, m, N, n), Mode = 0
  PROVE  /\ img'.last_has_mmco_5 \/ "gap after command 5" \notin oddities' => Low(img', sender'.base)
         /\ "gap after command 5" \notin oddities' => AllSame(ordered')
<1>1. /\ pocSps \in PocSps /\ ordered \in Seq(Pairs) /\ sender.base \in Int /\ num \in Nat /\ top \in Int /\ due \in Int
      /\ n \in Counters /\ h \in Headers /\ m \in Counters /\ m = decode_poc(n, h) /\ img' = exit_picture(m, h)
      /\ step \in Int /\ bottom \in Int /\ h.bottom = bottom /\ h.lsb = top % MaxPicOrderCntLsb
      /\ (h.idr <=> kind = "idr") /\ (h.mmco5 <=> kind = "mmco5") /\ (h.disposable <=> kind = "non-ref")
      /\ -MaxPicOrderCntLsb < 2 * step /\ 2 * step <= MaxPicOrderCntLsb /\ -bottom < MaxPicOrderCntLsb
  <2>1. /\ num \in Nat /\ num \in Int /\ top \in Int /\ due \in Int
        /\ n \in Counters /\ h \in Headers /\ m \in Counters /\ m = decode_poc(n, h)
        /\ h.bottom = bottom /\ h.delta = step /\ h.lsb = top % MaxPicOrderCntLsb
        /\ (h.idr <=> kind = "idr") /\ (h.mmco5 <=> kind = "mmco5") /\ (h.disposable <=> kind = "non-ref")
        /\ num - N \in 0 .. MaxFrameNum - 1 /\ Reaches(n, read, h, N, num)
    <3>1. num \in Nat => num \in Int
      OBVIOUS
    <3> QED
      BY <3>1, Zenon DEF SetUp
  <2>2. /\ step \in Int /\ bottom \in Int
        /\ -MaxPicOrderCntLsb < 2 * step /\ 2 * step <= MaxPicOrderCntLsb /\ -bottom < MaxPicOrderCntLsb
    BY Zenon DEF Sendable
  <2>3. pocSps \in PocSps /\ ordered \in Seq(Pairs) /\ sender.base \in Int
    BY DEF OrderInv, PicTyped
  <2>4. img' = exit_picture(m, h)
    BY SentTyped, Zenon
  <2> QED
    BY <2>1, <2>2, <2>3, <2>4, Zenon
<1>2. sender'.base = (IF kind = "non-ref" THEN sender.base ELSE IF kind = "mmco5" THEN top - due ELSE top)
  BY SenderNext, Zenon
<1>3. due = Min({top, top + bottom})
  <2>1. TrueBottom(top, bottom) = top + bottom
    BY DEF TrueBottom
  <2> QED
    BY <2>1, Zenon DEF PictureIs
<1>4. kind # "idr" => top = sender.base + step
  <2>1. ASSUME kind # "idr" PROVE top = sender.base + step
    <3>1. PICK no, d : no = (kind = "idr") /\ d = (kind = "non-ref")
      OBVIOUS
    <3>2. top = TrueTop(no, num, d, step)
      BY <3>1, Zenon DEF PictureIs
    <3>3. top = (IF no THEN 0 ELSE sender.base + step)
      BY <3>2 DEF TrueTop
    <3> QED
      BY <2>1, <3>1, <3>3
  <2> QED
    BY <2>1
<1>5. CASE kind = "idr"
  <2>1. top = 0 /\ m.PrevPicOrderCntLsb = 0 /\ m.PrevPicOrderCntMsb = 0
    BY <1>5, IdrCount
  <2>2. img'.PrevPicOrderCntLsb = 0 /\ img'.PrevPicOrderCntMsb = 0 /\ ~img'.last_has_mmco_5
    <3>1. ~h.mmco5 /\ h.mmco5 \in BOOLEAN
      BY <1>1, <1>5 DEF Headers
    <3> QED
      BY <1>1, <2>1, <3>1, ExitStep
  <2>3. 0 % MaxPicOrderCntLsb = 0
    BY PicOrderAssumption
  <2>4. sender'.base = 0
    BY <1>2, <1>5, <2>1
  <2>5. Low(img', sender'.base)
    BY <2>2, <2>3, <2>4 DEF Low
  <2>6. AllSame(ordered')
    BY <1>5, RestartedCounts
  <2> QED
    BY <2>5, <2>6
<1>6. CASE kind = "mmco5"
  <2>1. ~h.idr /\ h.mmco5
    BY <1>1, <1>6
  <2>2. PICK t \in Int, f \in Int : t = m.toppoc /\ f = m.framepoc
    BY <1>1 DEF Counters
  <2>3. f = Min({t, t + bottom})
    BY <1>1, <2>1, <2>2, Counted0, Zenon
  <2>4. t - f = top - due
    <3>1. Min({t, t + bottom}) = IF t <= t + bottom THEN t ELSE t + bottom
      <4>1. t + bottom \in Int
        BY <1>1
      <4> QED
        BY <4>1, LeastOfTwo
    <3>2. Min({top, top + bottom}) = IF top <= top + bottom THEN top ELSE top + bottom
      <4>1. top + bottom \in Int
        BY <1>1
      <4> QED
        BY <1>1, <4>1, LeastOfTwo
    <3> QED
      BY <1>1, <1>3, <2>3, <3>1, <3>2
  <2>5. t - f \in 0 .. MaxPicOrderCntLsb - 1
    <3>1. Min({t, t + bottom}) = IF t <= t + bottom THEN t ELSE t + bottom
      <4>1. t + bottom \in Int
        BY <1>1
      <4> QED
        BY <4>1, LeastOfTwo
    <3>2. MaxPicOrderCntLsb \in Int /\ MaxPicOrderCntLsb > 0
      BY PicOrderAssumption
    <3> QED
      BY <1>1, <2>3, <3>1, <3>2
  <2>6. img'.toppoc = t - f /\ img'.last_has_mmco_5
    BY <1>1, <2>1, <2>2, ExitStep
  <2>7. sender'.base = t - f
    BY <1>2, <1>6, <2>4
  <2>8. Low(img', sender'.base)
    BY <2>5, <2>6, <2>7 DEF Low
  <2>9. AllSame(ordered')
    BY <1>6, RestartedCounts
  <2> QED
    BY <2>8, <2>9
<1>7. CASE kind \notin {"idr", "mmco5"}
  <2>1. /\ NumInv /\ CountInv /\ ~h.idr /\ oddities \subseteq oddities' /\ ~img'.last_has_mmco_5
        /\ ordered' = Append(ordered, [true |-> due, got |-> m.framepoc])
        /\ img'.PrevPicOrderCntMsb = m.PrevPicOrderCntMsb /\ img'.PrevPicOrderCntLsb = m.PrevPicOrderCntLsb
    <3>1. Continued(num, skip, due, h, m, N)
      BY <1>7, ContinuedCounts
    <3> QED
      BY <3>1, Zenon DEF Continued
  <2> SUFFICES ASSUME "gap after command 5" \notin oddities'
               PROVE  Low(img', sender'.base) /\ AllSame(ordered')
    BY <2>1
  <2>2. "gap after command 5" \notin oddities /\ ~(img.last_has_mmco_5 /\ Gap(read))
    <3>1. img.last_has_mmco_5 /\ Gap(read) => "gap after command 5" \in oddities'
      BY OdditiesNext, Zenon
    <3> QED
      BY <2>1, <3>1
  <2>3. Low(img, sender.base) /\ AllSame(ordered)
    <3>1. SameCounts
      BY DEF OrderInv
    <3>2. AllSame(ordered)
      BY <2>2, <3>1, SameCounts0
    <3>3. Low(img, sender.base)
      BY <2>1, <2>2 DEF CountInv
    <3> QED
      BY <3>2, <3>3
  <2>4. Low(n, sender.base)
    <3>1. Reaches(n, read, h, N, num)
      BY DEF SetUp
    <3>2. CASE Gap(read)
      <4>1. ~n.last_has_mmco_5 /\ ~img.last_has_mmco_5
        BY <2>2, <3>1, <3>2 DEF Reaches
      <4>2. n.PrevPicOrderCntMsb = img.PrevPicOrderCntMsb /\ n.PrevPicOrderCntLsb = img.PrevPicOrderCntLsb
        BY <3>1, <3>2 DEF Reaches, SetUp
      <4> QED
        BY <2>3, <4>1, <4>2, Zenon DEF Low
    <3>3. CASE ~Gap(read)
      <4>1. /\ n.last_has_mmco_5 = img.last_has_mmco_5 /\ n.toppoc = img.toppoc
            /\ n.PrevPicOrderCntMsb = img.PrevPicOrderCntMsb /\ n.PrevPicOrderCntLsb = img.PrevPicOrderCntLsb
        BY <3>1, <3>3 DEF Reaches, SetUp
      <4> QED
        BY <2>3, <4>1, Zenon DEF Low
    <3> QED
      BY <3>2, <3>3
  <2>5. top = sender.base + step
    BY <1>4, <1>7
  <2>6. PICK base \in Int : base = sender.base
    BY <1>1
  <2>7. PICK now \in Int : now = (IF h.disposable THEN base ELSE base + step)
    <3>1. base + step \in Int
      BY <1>1, SumOfTwo, Zenon
    <3>2. (IF h.disposable THEN base ELSE base + step) \in Int
      BY <3>1, Zenon
    <3> QED
      BY <3>2, Zenon
  <2>8. /\ m.toppoc = base + step /\ m.framepoc = Min({m.toppoc, m.toppoc + bottom})
        /\ m.PrevPicOrderCntLsb = now % MaxPicOrderCntLsb /\ m.PrevPicOrderCntMsb = now - (now % MaxPicOrderCntLsb)
    <3>3. decode_poc(n, h).framepoc = Min({decode_poc(n, h).toppoc, decode_poc(n, h).toppoc + h.bottom})
      BY <1>1, <2>1, Counted0, Zenon
    <3>4. \A b \in Int, s \in Int :
            (/\ Low(n, b) /\ h.lsb = (b + s) % MaxPicOrderCntLsb
             /\ -MaxPicOrderCntLsb < 2 * s /\ 2 * s <= MaxPicOrderCntLsb)
            => LET nxt == IF h.disposable THEN b ELSE b + s
               IN  /\ decode_poc(n, h).toppoc = b + s
                   /\ decode_poc(n, h).PrevPicOrderCntLsb = nxt % MaxPicOrderCntLsb
                   /\ decode_poc(n, h).PrevPicOrderCntMsb = nxt - (nxt % MaxPicOrderCntLsb)
      BY <1>1, <2>1, Counted0, Zenon
    <3>2. Low(n, base) /\ h.lsb = (base + step) % MaxPicOrderCntLsb
      BY <1>1, <2>4, <2>5, <2>6, Zenon
    <3>5. LET nxt == IF h.disposable THEN base ELSE base + step
          IN  /\ decode_poc(n, h).toppoc = base + step
              /\ decode_poc(n, h).PrevPicOrderCntLsb = nxt % MaxPicOrderCntLsb
              /\ decode_poc(n, h).PrevPicOrderCntMsb = nxt - (nxt % MaxPicOrderCntLsb)
      BY <1>1, <3>2, <3>4, Zenon
    <3> QED
      BY <1>1, <2>7, <3>3, <3>5, Zenon
  <2>9. sender'.base = now
    BY <1>1, <1>2, <1>7, <2>5, <2>6, <2>7, Zenon
  <2>10. Low(img', sender'.base)
    BY <2>1, <2>8, <2>9, Zenon DEF Low
  <2>11. m.framepoc = due
    BY <1>3, <2>5, <2>6, <2>8, Zenon
  <2>12. AllSame(ordered')
    <3>1. Len(ordered) > 0
      BY <2>1 DEF NumInv
    <3>2. ordered' = Append(ordered, [true |-> due, got |-> due])
      BY <2>1, <2>11, Zenon
    <3> QED
      BY <1>1, <2>3, <3>1, <3>2, CountsAppended, Zenon
  <2> QED
    BY <2>10, <2>12
<1> QED
  BY <1>5, <1>6, <1>7

(* Types 1 and 2: where the counts start again. *)
LEMMA RestartTracks ==
  ASSUME OrderInv, Mode # 0, NEW kind, NEW step, NEW bottom, NEW skip, Sendable(kind, step, bottom, skip),
         NEW num, NEW top, NEW due, NEW h, NEW read, NEW m, NEW N, NEW n,
         PictureIs(kind, step, bottom, skip, num, top, due, h, read, m),
         SetUp(kind, step, bottom, num, top, due, h, read, m, N, n), kind \in {"idr", "mmco5"}
  PROVE  Tracks(img', 0, 0)
<1>1. m \in Counters /\ h \in Headers /\ (h.mmco5 <=> kind = "mmco5") /\ img' = exit_picture(m, h)
  BY SentTyped DEF SetUp
<1>2. 0 % MaxFrameNum = 0 /\ 0 - 0 + 0 = 0
  BY PicOrderAssumption
<1>3. CASE kind = "mmco5"
  <2>3. h.mmco5
    BY <1>1, <1>3
  <2>4. img'.last_has_mmco_5 = h.mmco5
    BY <1>1, ExitStep, Zenon
  <2>1. img'.last_has_mmco_5
    BY <2>3, <2>4, Zenon
  <2> QED
    BY <1>2, <2>1, Zenon DEF Tracks
<1>4. CASE kind = "idr"
  <2>1. m.PreviousFrameNum = 0 /\ m.PreviousFrameNumOffset = 0
    BY <1>4, IdrCount
  <2>2. img'.PreviousFrameNum = 0 /\ img'.PreviousFrameNumOffset = 0
    BY <1>1, <1>4, <2>1, ExitStep
  <2> QED
    BY <1>2, <2>2, Zenon DEF Tracks
<1> QED
  BY <1>3, <1>4

(* Type 1. *)
LEMMA Count1 ==
  ASSUME OrderInv, NEW kind, NEW step, NEW bottom, NEW skip, Sendable(kind, step, bottom, skip),
         NEW num, NEW top, NEW due, NEW h, NEW read, NEW m, NEW N, NEW n,
         PictureIs(kind, step, bottom, skip, num, top, due, h, read, m),
         SetUp(kind, step, bottom, num, top, due, h, read, m, N, n), Mode = 1
  PROVE  Tracks(img', LastNum', 0) /\ AllSame(ordered')
<1>1. /\ pocSps \in PocSps /\ ordered \in Seq(Pairs) /\ num \in Nat /\ num \in Int /\ top \in Int /\ due \in Int
      /\ n \in Counters /\ h \in Headers /\ m \in Counters /\ m = decode_poc(n, h) /\ img' = exit_picture(m, h)
      /\ step \in Int /\ bottom \in Int /\ h.bottom = bottom /\ h.delta = step
      /\ (h.idr <=> kind = "idr") /\ (h.mmco5 <=> kind = "mmco5") /\ (h.disposable <=> kind = "non-ref")
      /\ num - N \in 0 .. MaxFrameNum - 1 /\ Reaches(n, read, h, N, num)
  <2>1. /\ num \in Nat /\ num \in Int /\ top \in Int /\ due \in Int
        /\ n \in Counters /\ h \in Headers /\ m \in Counters /\ m = decode_poc(n, h)
        /\ h.bottom = bottom /\ h.delta = step /\ h.lsb = top % MaxPicOrderCntLsb
        /\ (h.idr <=> kind = "idr") /\ (h.mmco5 <=> kind = "mmco5") /\ (h.disposable <=> kind = "non-ref")
        /\ num - N \in 0 .. MaxFrameNum - 1 /\ Reaches(n, read, h, N, num)
    <3>1. num \in Nat => num \in Int
      OBVIOUS
    <3> QED
      BY <3>1, Zenon DEF SetUp
  <2>2. /\ step \in Int /\ bottom \in Int
        /\ -MaxPicOrderCntLsb < 2 * step /\ 2 * step <= MaxPicOrderCntLsb /\ -bottom < MaxPicOrderCntLsb
    BY Zenon DEF Sendable
  <2>3. pocSps \in PocSps /\ ordered \in Seq(Pairs) /\ sender.base \in Int
    BY DEF OrderInv, PicTyped
  <2>4. img' = exit_picture(m, h)
    BY SentTyped, Zenon
  <2> QED
    BY <2>1, <2>2, <2>3, <2>4, Zenon
<1>2. 0 % MaxFrameNum = 0 /\ 0 - 0 + 0 = 0 /\ MaxFrameNum \in Int /\ MaxFrameNum > 1
  BY PicOrderAssumption
<1>3. CASE kind \in {"idr", "mmco5"}
  <2>1. LastNum' = 0 /\ AllSame(ordered')
    BY <1>3, RestartedCounts
  <2>2. Mode # 0
    OBVIOUS
  <2> QED
    BY <1>3, <2>1, <2>2, RestartTracks
<1>4. CASE kind \notin {"idr", "mmco5"}
  <2>1. /\ NumInv /\ CountInv /\ ~h.idr /\ N = LastNum /\ ~img'.last_has_mmco_5
        /\ ordered' = Append(ordered, [true |-> due, got |-> m.framepoc])
        /\ img'.PreviousFrameNum = m.PreviousFrameNum /\ img'.PreviousFrameNumOffset = m.PreviousFrameNumOffset
        /\ LastNum' = num
    <3>1. Continued(num, skip, due, h, m, N)
      BY <1>4, ContinuedCounts
    <3> QED
      BY <3>1, Zenon DEF Continued
  <2>2. N \in Int
    BY <2>1 DEF LastNum, OrderInv, PicTyped
  <2>3. Tracks(read, N, 0)
    <3>1. Tracks(img, N, 0)
      BY <2>1 DEF CountInv
    <3>2. /\ read.last_has_mmco_5 = img.last_has_mmco_5 /\ read.PreviousFrameNum = img.PreviousFrameNum
          /\ read.PreviousFrameNumOffset = img.PreviousFrameNumOffset
      BY DEF SetUp
    <3> QED
      BY <3>1, <3>2, Zenon DEF Tracks
  <2>4. PICK X \in Int : Tracks(n, X, 0) /\ num - X \in 0 .. MaxFrameNum - 1
    <3>1. CASE Gap(read)
      <4>1. N \in N - 1 .. N /\ 0 \in Int
        BY <2>2
      <4>2. Tracks(n, num - 1, 0)
        BY <1>1, <2>3, <3>1, <4>1 DEF Reaches
      <4>3. num - 1 \in Int /\ num - (num - 1) \in 0 .. MaxFrameNum - 1
        BY <1>1, <1>2
      <4> QED
        BY <4>2, <4>3
    <3>2. CASE ~Gap(read)
      <4>1. /\ n.last_has_mmco_5 = read.last_has_mmco_5 /\ n.PreviousFrameNum = read.PreviousFrameNum
            /\ n.PreviousFrameNumOffset = read.PreviousFrameNumOffset
        BY <1>1, <3>2 DEF Reaches
      <4>2. Tracks(n, N, 0)
        BY <2>3, <4>1, Zenon DEF Tracks
      <4> QED
        BY <1>1, <2>2, <4>2
    <3> QED
      BY <3>1, <3>2
  <2>5. n.frame_num = num % MaxFrameNum
    BY DEF SetUp, Reaches
  <2>6. PICK e \in Int, z \in Int, o \in Int :
           /\ e = TrueExpected(num, h.disposable) /\ z = (IF h.disposable THEN pocSps.offset_for_non_ref_pic ELSE 0)
           /\ o = pocSps.offset_for_top_to_bottom_field /\ ExpectedPoc(num, h.disposable) = e + z
    <3>1. h.disposable \in BOOLEAN
      BY <1>1 DEF Headers
    <3> QED
      BY <1>1, <3>1, ExpectedRight, SpsTyped
  <2>7. /\ m.PreviousFrameNumOffset = num - (num % MaxFrameNum) + 0 /\ m.PreviousFrameNum = num % MaxFrameNum
        /\ m.framepoc = Min({e + z + step, e + z + step + o + bottom})
    <3>1. PICK u \in Int, v \in Int : u = e + z + step /\ v = u + o + bottom
      <4>1. bottom \in Int /\ step \in Int
        BY <1>1
      <4>2. e + z + step \in Int /\ e + z + step + o + bottom \in Int
        BY <4>1
      <4> QED
        BY <4>2, Zenon
    <3>2. /\ pocSps \in PocSps /\ ~h.idr /\ num \in Int /\ n \in Counters /\ h \in Headers
          /\ m = decode_poc(n, h) /\ h.delta = step /\ h.bottom = bottom
      BY <1>1, <2>1, Zenon
    <3>3. PICK z0 \in Int : z0 = 0 /\ num + z0 = num
      BY <3>2
    <3>4. /\ u = ExpectedPoc(num + z0, h.disposable) + h.delta /\ Tracks(n, X, z0)
          /\ v = u + pocSps.offset_for_top_to_bottom_field + h.bottom
      BY <2>4, <2>6, <3>1, <3>2, <3>3, Zenon
    <3>5. After1(decode_poc(n, h), z0, num, u, v)
      BY <2>4, <2>5, <3>2, <3>4, Counted1
    <3>6. Min({u, v}) = IF u <= v THEN u ELSE v
      BY LeastOfTwo
    <3> QED
      BY <3>1, <3>2, <3>3, <3>5, <3>6, Zenon DEF After1
  <2>8. Tracks(img', LastNum', 0)
    BY <2>1, <2>7, Zenon DEF Tracks
  <2>9. top = e + step + z
    <3>1. top = TrueTop(kind = "idr", num, kind = "non-ref", step)
      BY DEF PictureIs
    <3>2. (kind = "idr") = FALSE /\ (kind = "non-ref") = h.disposable
      <4>1. h.disposable \in BOOLEAN
        BY <1>1 DEF Headers
      <4> QED
        BY <1>1, <1>4, <4>1
    <3>3. PICK no : no = FALSE
      OBVIOUS
    <3>4. top = TrueTop(no, num, h.disposable, step)
      BY <3>1, <3>2, <3>3, Zenon
    <3>5. top = TrueExpected(num, h.disposable) + (IF no THEN 0 ELSE step)
                  + (IF h.disposable THEN pocSps.offset_for_non_ref_pic ELSE 0)
      BY <3>4 DEF TrueTop
    <3> QED
      BY <2>6, <3>3, <3>5
  <2>10. m.framepoc = due
    <3>2. m.framepoc = Min({e + z + step, e + z + step + o + bottom})
      BY <2>7
    <3>3. due = Min({top, top + (o + bottom)})
      <4>1. TrueBottom(top, bottom) = top + (o + bottom)
        BY <2>6 DEF TrueBottom
      <4> QED
        BY <4>1, Zenon DEF PictureIs
    <3>4. e + z + step = top /\ e + z + step + o + bottom = top + (o + bottom)
      BY <1>1, <2>9
    <3> QED
      BY <3>2, <3>3, <3>4, Zenon
  <2>11. AllSame(ordered')
    <3>1. Len(ordered) > 0
      BY <2>1 DEF NumInv
    <3>2. ordered' = Append(ordered, [true |-> due, got |-> due])
      BY <2>1, <2>10, Zenon
    <3>3. AllSame(ordered)
      BY DEF OrderInv, SameCounts, AllSame
    <3> QED
      BY <1>1, <3>1, <3>2, <3>3, CountsAppended, Zenon
  <2> QED
    BY <2>8, <2>11
<1> QED
  BY <1>3, <1>4

(* What the sender counts for type 2. *)
LEMMA Due2 ==
  ASSUME Mode = 2, NEW kind, NEW step, NEW bottom, NEW skip, NEW num \in Int, NEW top, NEW due, NEW h, NEW read, NEW m,
         PictureIs(kind, step, bottom, skip, num, top, due, h, read, m), kind # "idr"
  PROVE  (kind = "non-ref" => due = 2 * num - 1) /\ (kind # "non-ref" => due = 2 * num)
<1>1. PICK no, d : no = (kind = "idr") /\ d = (kind = "non-ref")
  OBVIOUS
<1>2. top = TrueTop(no, num, d, step) /\ due = Min({top, TrueBottom(top, bottom)})
  BY <1>1, Zenon DEF PictureIs
<1>3. top = 2 * num - (IF d THEN 1 ELSE 0)
  BY <1>2 DEF TrueTop
<1>4. PICK p \in Int : p = 2 * num - (IF d THEN 1 ELSE 0)
  <2>1. PICK z \in Int : z = (IF d THEN 1 ELSE 0)
    OBVIOUS
  <2>2. 2 * num - z \in Int
    OBVIOUS
  <2> QED
    BY <2>1, <2>2, Zenon
<1>5. TrueBottom(top, bottom) = p
  BY <1>3, <1>4 DEF TrueBottom
<1>6. Min({p, p}) = p
  BY LeastOfTwo
<1>7. due = p
  BY <1>2, <1>3, <1>4, <1>5, <1>6, Zenon
<1>8. CASE kind = "non-ref"
  <2>1. d
    BY <1>1, <1>8
  <2>2. p = 2 * num - 1
    BY <1>4, <2>1
  <2> QED
    BY <1>7, <1>8, <2>2
<1>9. CASE kind # "non-ref"
  <2>1. ~d
    BY <1>1, <1>9
  <2>2. p = 2 * num
    BY <1>4, <2>1
  <2> QED
    BY <1>7, <1>9, <2>2
<1> QED
  BY <1>8, <1>9

(* Each type is not the others. *)
LEMMA TwoAlone ==
  ASSUME Mode = 2
  PROVE  Mode # 0 /\ Mode # 1
OBVIOUS

(* What SameCounts says of type 2. *)
LEMMA SameCounts2 ==
  ASSUME Mode = 2, SameCounts, oddities = {}
  PROVE  AllSame(ordered)
<1>1. Mode # 0 /\ Mode # 1
  BY TwoAlone
<1> QED
  BY <1>1, Zenon DEF SameCounts, AllSame

(* One frame number on, the remainder goes one up or back to 0. *)
LEMMA RemainderOneOn ==
  ASSUME NEW R \in Nat, NEW M \in Int, M > 1
  PROVE  /\ (R + 1) % M \in 0 .. M - 1 /\ R % M \in 0 .. M - 1
         /\ (R + 1) % M = (IF (R % M) + 1 >= M THEN (R % M) + 1 - M ELSE (R % M) + 1)
<1>1. R % M \in 0 .. M - 1 /\ R \in Int /\ 1 \in Int /\ M > 0 /\ -M <= 1 /\ 1 <= M
  OBVIOUS
<1>2. (R + 1) % M = IF (R % M) + 1 < 0 THEN (R % M) + 1 + M
                    ELSE IF (R % M) + 1 >= M THEN (R % M) + 1 - M ELSE (R % M) + 1
  BY <1>1, RemainderNear, Zenon
<1> QED
  BY <1>1, <1>2

(* Ahead holds after a step that keeps its parts. *)
LEMMA AheadNext ==
  ASSUME NEW D \in Nat, NEW T, NEW t, NEW g, NEW z, T = sender'.num, Tracks(img', T, D), oddities' = {} => D = 0,
         z = (IF sender'.disposable THEN 1 ELSE 0),
         ordered'[Len(ordered')].true = t, ordered'[Len(ordered')].got = g,
         t = 2 * T + z, g <= 2 * (D + T) + z
  PROVE  Ahead(D)'
BY Zenon DEF Ahead, Tracks

(* Type 2: a reference picture. *)
LEMMA Reference2 ==
  ASSUME OrderInv, NEW kind, NEW step, NEW bottom, NEW skip, Sendable(kind, step, bottom, skip),
         NEW num, NEW top, NEW due, NEW h, NEW read, NEW m, NEW N, NEW n,
         PictureIs(kind, step, bottom, skip, num, top, due, h, read, m),
         SetUp(kind, step, bottom, num, top, due, h, read, m, N, n),
         kind \notin {"idr", "mmco5"}, ~h.disposable, Mode = 2,
         NEW D \in Nat, Ahead(D)
  PROVE  /\ Tracks(img', num, D) /\ sender'.num = num /\ ~sender'.disposable
         /\ due = 2 * num /\ m.framepoc = 2 * (num + D)
         /\ ordered[Len(ordered)].true < due /\ ordered[Len(ordered)].got < m.framepoc
<1>2. kind # "non-ref" /\ kind # "idr"
  BY DEF SetUp
<1>3. /\ num = sender.num + 1 + skip /\ N = LastNum /\ ~h.idr /\ NumInv
      /\ ~img'.last_has_mmco_5 /\ img'.PreviousFrameNum = m.PreviousFrameNum
      /\ img'.PreviousFrameNumOffset = m.PreviousFrameNumOffset
  <2>1. Continued(num, skip, due, h, m, N)
    BY ContinuedCounts
  <2> QED
    BY <2>1, Zenon DEF Continued
<1>4. /\ num \in Nat /\ n \in Counters /\ h \in Headers /\ ~h.disposable /\ m = decode_poc(n, h)
      /\ num - N \in 0 .. MaxFrameNum - 1 /\ Reaches(n, read, h, N, num) /\ n.frame_num = num % MaxFrameNum
  BY <1>2 DEF SetUp, Reaches
<1>5. pocSps \in PocSps /\ sender.num \in Nat /\ sender.disposable \in BOOLEAN
  BY DEF OrderInv, PicTyped
<1>6. PICK M \in Int : M = MaxFrameNum /\ M > 1
  BY PicOrderAssumption
<1>7. PICK R \in Nat, z \in 0 .. 1 : R = sender.num /\ z = (IF sender.disposable THEN 1 ELSE 0) /\ N = R + z
  BY <1>3, <1>5 DEF LastNum
<1>8. skip \in 0 .. M - 2 /\ num = R + 1 + skip
  BY <1>2, <1>3, <1>6, <1>7 DEF Sendable
<1>9. Tracks(read, R, D)
  <2>1. Tracks(img, R, D)
    BY <1>7, Zenon DEF Ahead
  <2>2. /\ read.last_has_mmco_5 = img.last_has_mmco_5 /\ read.PreviousFrameNum = img.PreviousFrameNum
        /\ read.PreviousFrameNumOffset = img.PreviousFrameNumOffset
    BY <1>2, Zenon DEF SetUp
  <2> QED
    BY <2>1, <2>2, Zenon DEF Tracks
<1>10. PICK X \in Int : Tracks(n, X, D) /\ num - X \in 0 .. MaxFrameNum - 1
  <2>1. CASE Gap(read)
    <3>1. R \in N - 1 .. N /\ D \in Int
      BY <1>7
    <3>2. Tracks(n, num - 1, D)
      BY <1>4, <1>9, <2>1, <3>1 DEF Reaches
    <3>3. num - 1 \in Int /\ num - (num - 1) \in 0 .. MaxFrameNum - 1
      BY <1>4, <1>6
    <3> QED
      BY <3>2, <3>3
  <2>2. CASE ~Gap(read)
    <3>1. /\ n.last_has_mmco_5 = read.last_has_mmco_5 /\ n.PreviousFrameNum = read.PreviousFrameNum
          /\ n.PreviousFrameNumOffset = read.PreviousFrameNumOffset
      BY <1>4, <2>2 DEF Reaches
    <3>2. Tracks(n, R, D)
      BY <1>9, <3>1, Zenon DEF Tracks
    <3>3. R \in Int /\ num - R \in 0 .. MaxFrameNum - 1
      BY <1>6, <1>8
    <3> QED
      BY <3>2, <3>3
  <2> QED
    BY <2>1, <2>2
<1>11. /\ m.PreviousFrameNumOffset = num - (num % MaxFrameNum) + D
       /\ m.PreviousFrameNum = num % MaxFrameNum /\ m.framepoc = 2 * (num + D)
  <2>1. num \in Int /\ D \in Int
    BY <1>4
  <2>2. /\ pocSps \in PocSps /\ n \in Counters /\ h \in Headers /\ ~h.idr /\ n.frame_num = num % MaxFrameNum
    BY <1>3, <1>4, <1>5, Zenon
  <2>3. After2(decode_poc(n, h), h, X, D, num)
    BY <1>10, <2>1, <2>2, Counted2
  <2> QED
    BY <1>4, <2>3, Zenon DEF After2
<1>12. Tracks(img', num, D)
  BY <1>3, <1>11, Zenon DEF Tracks
<1>13. sender'.num = num /\ ~sender'.disposable
  BY <1>2, SenderNext
<1>14. due = 2 * num
  <2>1. num \in Int
    BY <1>4
  <2> QED
    BY <1>2, <2>1, Due2, Zenon
<1>15. ordered[Len(ordered)].true = 2 * R + z /\ ordered[Len(ordered)].got <= 2 * (D + R) + z
  BY <1>7, Zenon DEF Ahead
<1>16. ordered[Len(ordered)].true \in Int /\ ordered[Len(ordered)].got \in Int
  <2>1. ordered \in Seq(Pairs) /\ Len(ordered) > 0
    <3>1. NumInv
      BY <1>3
    <3> QED
      BY <3>1 DEF NumInv, OrderInv, PicTyped
  <2>2. ordered[Len(ordered)] \in Pairs
    BY <2>1
  <2> QED
    BY <2>2 DEF Pairs
<1>17. ordered[Len(ordered)].true < due /\ ordered[Len(ordered)].got < m.framepoc
  <2>1. PICK t \in Int, g \in Int : t = ordered[Len(ordered)].true /\ g = ordered[Len(ordered)].got
    BY <1>16
  <2>2. t < 2 * num /\ g < 2 * (num + D)
    BY <1>8, <1>15, <2>1
  <2> QED
    BY <1>11, <1>14, <2>1, <2>2, Zenon
<1> QED
  BY <1>11, <1>12, <1>13, <1>14, <1>17

(* How far the decoder is after it. *)
Further(num, D, read) ==
  \E E \in Nat : /\ Tracks(img', num - 1, E) /\ D <= E
                 /\ ~(read.frame_num < img.PreviousFrameNum) => E = D

(* Type 2: a picture nobody refers to.  At the wrap it is counted a cycle   *)
(* too far.                                                                 *)
LEMMA NonReference2 ==
  ASSUME OrderInv, NEW kind, NEW step, NEW bottom, NEW skip, Sendable(kind, step, bottom, skip),
         NEW num, NEW top, NEW due, NEW h, NEW read, NEW m, NEW N, NEW n,
         PictureIs(kind, step, bottom, skip, num, top, due, h, read, m),
         SetUp(kind, step, bottom, num, top, due, h, read, m, N, n),
         kind \notin {"idr", "mmco5"}, h.disposable, Mode = 2,
         NEW D \in Nat, Ahead(D), ~Gap(read)
  PROVE  /\ sender'.num = num - 1 /\ sender'.disposable
         /\ due = 2 * num - 1 /\ m.framepoc = 2 * (num + D) - 1
         /\ ordered[Len(ordered)].true < due /\ ordered[Len(ordered)].got < m.framepoc
         /\ Further(num, D, read)
<1>2. kind = "non-ref" /\ kind # "idr"
  BY DEF SetUp
<1>3. /\ num = sender.num + 1 + skip /\ N = LastNum /\ ~h.idr /\ NumInv
      /\ ~img'.last_has_mmco_5 /\ img'.PreviousFrameNum = m.PreviousFrameNum
      /\ img'.PreviousFrameNumOffset = m.PreviousFrameNumOffset
  <2>1. Continued(num, skip, due, h, m, N)
    BY ContinuedCounts
  <2> QED
    BY <2>1, Zenon DEF Continued
<1>4. /\ num \in Nat /\ n \in Counters /\ h \in Headers /\ h.disposable /\ m = decode_poc(n, h)
      /\ num - N \in 0 .. MaxFrameNum - 1 /\ Reaches(n, read, h, N, num) /\ n.frame_num = num % MaxFrameNum
      /\ read.frame_num = num % MaxFrameNum /\ ~(num - N >= 2)
  BY <1>2 DEF SetUp, Reaches
<1>5. pocSps \in PocSps /\ sender.num \in Nat /\ ~sender.disposable
  <2>1. Mode = 2 => ~(kind = "non-ref" /\ sender.disposable)
    BY <1>2, Zenon DEF PictureIs
  <2> QED
    BY <1>2, <2>1 DEF OrderInv, PicTyped
<1>6. PICK M \in Int : M = MaxFrameNum /\ M > 1
  BY PicOrderAssumption
<1>7. PICK R \in Nat : R = sender.num /\ N = R
  BY <1>3, <1>5 DEF LastNum
<1>8. num = R + 1
  <2>1. skip \in 0 .. M - 2
    BY <1>2, <1>6 DEF Sendable
  <2> QED
    BY <1>3, <1>4, <1>7, <2>1
<1>9. Tracks(n, R, D)
  <2>1. Tracks(img, R, D)
    BY <1>7, Zenon DEF Ahead
  <2>2. /\ read.last_has_mmco_5 = img.last_has_mmco_5 /\ read.PreviousFrameNum = img.PreviousFrameNum
        /\ read.PreviousFrameNumOffset = img.PreviousFrameNumOffset
    BY <1>2, Zenon DEF SetUp
  <2>3. /\ n.last_has_mmco_5 = read.last_has_mmco_5 /\ n.PreviousFrameNum = read.PreviousFrameNum
        /\ n.PreviousFrameNumOffset = read.PreviousFrameNumOffset
    BY <1>4 DEF Reaches
  <2> QED
    BY <2>1, <2>2, <2>3, Zenon DEF Tracks
<1>10. PICK x \in 0 .. M - 1, y \in 0 .. M - 1 : /\ x = R % MaxFrameNum /\ y = num % MaxFrameNum
                                               /\ y = (IF x + 1 >= M THEN x + 1 - M ELSE x + 1)
  BY <1>6, <1>8, RemainderOneOn
<1>11. /\ m.PreviousFrameNumOffset = num - y + D
       /\ m.PreviousFrameNum = x /\ m.framepoc = 2 * (num + D) - 1
  <2>1. num \in Int /\ D \in Int /\ R \in Int /\ num - R \in 0 .. MaxFrameNum - 1
    BY <1>4, <1>6, <1>8
  <2>2. /\ pocSps \in PocSps /\ n \in Counters /\ h \in Headers /\ ~h.idr /\ n.frame_num = num % MaxFrameNum
    BY <1>3, <1>4, <1>5, Zenon
  <2>3. After2(decode_poc(n, h), h, R, D, num)
    BY <1>9, <2>1, <2>2, Counted2
  <2> QED
    BY <1>4, <1>10, <2>3, Zenon DEF After2
<1>12. PICK E \in Nat : E = (IF x + 1 >= M THEN D + M ELSE D)
  BY <1>6
<1>13. Tracks(img', num - 1, E)
  <2>1. num - 1 = R /\ num - y + D = R - x + E
    BY <1>6, <1>8, <1>10, <1>12
  <2> QED
    BY <1>3, <1>10, <1>11, <2>1, Zenon DEF Tracks
<1>14. D <= E
  BY <1>6, <1>12
<1>15. ASSUME ~(read.frame_num < img.PreviousFrameNum) PROVE E = D
  <2>1. CASE img.last_has_mmco_5
    <3>1. R = 0
      BY <1>3, <1>7, <2>1 DEF NumInv
    <3>2. x = 0
      BY <1>6, <1>10, <3>1
    <3> QED
      BY <1>6, <1>12, <3>2
  <2>2. CASE ~img.last_has_mmco_5
    <3>1. Tracks(img, R, D)
      BY <1>7, Zenon DEF Ahead
    <3>2. img.PreviousFrameNum = x
      BY <1>10, <2>2, <3>1, Zenon DEF Tracks
    <3>3. ~(y < x)
      BY <1>4, <1>10, <1>15, <3>2, Zenon
    <3> QED
      BY <1>6, <1>10, <1>12, <3>3
  <2> QED
    BY <2>1, <2>2
<1>16. sender'.num = num - 1 /\ sender'.disposable
  <2>1. sender'.disposable = (kind = "non-ref") /\ sender'.num = (IF kind = "non-ref" THEN num - 1 ELSE IF kind \in {"idr", "mmco5"} THEN 0 ELSE num)
    BY SenderNext, Zenon
  <2> QED
    BY <1>2, <2>1
<1>17. due = 2 * num - 1
  <2>1. num \in Int
    BY <1>4
  <2> QED
    BY <1>2, <2>1, Due2, Zenon
<1>18. ordered[Len(ordered)].true = 2 * R + 0 /\ ordered[Len(ordered)].got <= 2 * (D + R) + 0
  BY <1>5, <1>7, Zenon DEF Ahead
<1>19. ordered[Len(ordered)].true \in Int /\ ordered[Len(ordered)].got \in Int
  <2>1. ordered \in Seq(Pairs) /\ Len(ordered) > 0
    BY <1>3 DEF NumInv, OrderInv, PicTyped
  <2>2. ordered[Len(ordered)] \in Pairs
    BY <2>1
  <2> QED
    BY <2>2 DEF Pairs
<1>20. ordered[Len(ordered)].true < due /\ ordered[Len(ordered)].got < m.framepoc
  <2>1. PICK t \in Int, g \in Int : t = ordered[Len(ordered)].true /\ g = ordered[Len(ordered)].got
    BY <1>19
  <2>2. t < 2 * num - 1 /\ g < 2 * (num + D) - 1
    BY <1>8, <1>18, <2>1
  <2> QED
    BY <1>11, <1>17, <2>1, <2>2, Zenon
<1> QED
  BY <1>11, <1>13, <1>14, <1>15, <1>16, <1>17, <1>20, Zenon DEF Further

(* Type 2. *)
LEMMA Count2 ==
  ASSUME OrderInv, NEW kind, NEW step, NEW bottom, NEW skip, Sendable(kind, step, bottom, skip),
         NEW num, NEW top, NEW due, NEW h, NEW read, NEW m, NEW N, NEW n,
         PictureIs(kind, step, bottom, skip, num, top, due, h, read, m),
         SetUp(kind, step, bottom, num, top, due, h, read, m, N, n), Mode = 2
  PROVE  /\ "gap before a non-reference" \notin oddities' => Rising(ordered') /\ \E D \in Nat : Ahead(D)'
         /\ oddities' = {} => AllSame(ordered')
<1>1. CASE kind \in {"idr", "mmco5"}
  <2>1. /\ Len(ordered') = 1 /\ AllSame(ordered') /\ Rising(ordered')
        /\ ordered'[1].true = 0 /\ ordered'[1].got = 0
        /\ sender'.num = 0 /\ ~sender'.disposable
    BY <1>1, RestartedCounts
  <2>2. Tracks(img', 0, 0)
    <3>1. Mode # 0
      BY TwoAlone
    <3> QED
      BY <1>1, <3>1, RestartTracks
  <2>3. PICK D \in Nat, z \in Int : D = 0 /\ z = 0 /\ 0 = 2 * 0 + z /\ 0 <= 2 * (D + 0) + z
    OBVIOUS
  <2>4. Ahead(D)'
    BY <2>1, <2>2, <2>3, AheadNext, Zenon
  <2> QED
    BY <2>1, <2>4
<1>2. CASE kind \notin {"idr", "mmco5"}
  <2>1. Continued(num, skip, due, h, m, N)
    BY <1>2, ContinuedCounts
  <2>2. /\ CountInv /\ NumInv /\ oddities \subseteq oddities'
        /\ ordered' = Append(ordered, [true |-> due, got |-> m.framepoc])
    BY <2>1, Zenon DEF Continued
  <2>3. ordered \in Seq(Pairs) /\ Len(ordered) > 0 /\ due \in Int /\ m.framepoc \in Int /\ num \in Nat
    <3>1. m \in Counters /\ due \in Int /\ num \in Nat
      BY DEF SetUp
    <3> QED
      BY <2>2, <3>1 DEF NumInv, OrderInv, PicTyped, Counters
  <2>4. oddities' = {} => oddities = {} /\ "gap before a non-reference" \notin oddities'
    BY <2>2
  <2>12. SUFFICES ASSUME "gap before a non-reference" \notin oddities'
               PROVE  /\ Rising(ordered') /\ \E D \in Nat : Ahead(D)'
                      /\ oddities' = {} => AllSame(ordered')
    BY <2>4, Zenon
  <2>5. "gap before a non-reference" \notin oddities
    BY <2>2, <2>12
  <2>6. Rising(ordered) /\ \E D \in Nat : Ahead(D)
    BY <2>2, <2>5, Zenon DEF CountInv
  <2>7. PICK D \in Nat : Ahead(D)
    BY <2>6, Zenon
  <2>8. oddities' = {} => D = 0 /\ AllSame(ordered)
    <3>1. oddities = {} => D = 0
      BY <2>7, Zenon DEF Ahead
    <3>2. oddities = {} => AllSame(ordered)
      BY SameCounts2 DEF OrderInv
    <3> QED
      BY <2>4, <3>1, <3>2, Zenon
  <2>9. /\ ordered'[Len(ordered')].true = due /\ ordered'[Len(ordered')].got = m.framepoc
        /\ AllSame(ordered) /\ m.framepoc = due => AllSame(ordered')
        /\ ordered[Len(ordered)].true < due /\ ordered[Len(ordered)].got < m.framepoc => Rising(ordered')
    BY <2>2, <2>3, <2>6, CountsAppended, Zenon
  <2>10. CASE ~h.disposable
    <3>1. /\ Tracks(img', num, D) /\ sender'.num = num /\ ~sender'.disposable
          /\ due = 2 * num /\ m.framepoc = 2 * (num + D)
          /\ ordered[Len(ordered)].true < due /\ ordered[Len(ordered)].got < m.framepoc
      BY <1>2, <2>7, <2>10, Reference2
    <3>2. oddities' = {} => m.framepoc = due
      BY <2>3, <2>8, <3>1
    <3>3. PICK z \in Int : z = 0 /\ due = 2 * num + z /\ m.framepoc <= 2 * (D + num) + z
      <4>1. due = 2 * num /\ m.framepoc = 2 * (num + D) /\ num \in Nat
        BY <2>3, <3>1, Zenon
      <4>2. due = 2 * num + 0 /\ m.framepoc <= 2 * (D + num) + 0
        BY <4>1
      <4> QED
        BY <4>2, ZeroIsNatural, Zenon
    <3>4. Ahead(D)'
      BY <2>8, <2>9, <3>1, <3>3, AheadNext, Zenon
    <3> QED
      BY <2>8, <2>9, <3>1, <3>2, <3>4, Zenon
  <2>11. CASE h.disposable
    <3>1. ~Gap(read) /\ kind = "non-ref"
      <4>1. kind = "non-ref"
        BY <2>11 DEF SetUp
      <4> QED
        BY <2>12, <4>1, OdditiesNext, Zenon
    <3>2. /\ sender'.num = num - 1 /\ sender'.disposable
          /\ due = 2 * num - 1 /\ m.framepoc = 2 * (num + D) - 1
          /\ ordered[Len(ordered)].true < due /\ ordered[Len(ordered)].got < m.framepoc
          /\ Further(num, D, read)
      BY <1>2, <2>7, <2>11, <3>1, NonReference2
    <3>3. PICK E \in Nat : /\ Tracks(img', num - 1, E) /\ D <= E
                           /\ ~(read.frame_num < img.PreviousFrameNum) => E = D
      BY <3>2, Zenon DEF Further
    <3>4. oddities' = {} => E = 0 /\ m.framepoc = due
      <4>1. oddities' = {} => ~(read.frame_num < img.PreviousFrameNum)
        BY <3>1, OdditiesNext, Zenon
      <4> QED
        BY <2>3, <2>8, <3>2, <3>3, <4>1
    <3>5. PICK T \in Int, z \in Int : T = num - 1 /\ z = 1 /\ due = 2 * T + z /\ m.framepoc <= 2 * (E + T) + z
      <4>1. due = 2 * num - 1 /\ m.framepoc = 2 * (num + D) - 1 /\ num \in Nat /\ D <= E
        BY <2>3, <3>2, <3>3, Zenon
      <4>2. num - 1 \in Int /\ 1 \in Int /\ due = 2 * (num - 1) + 1 /\ m.framepoc <= 2 * (E + (num - 1)) + 1
        BY <4>1
      <4> QED
        BY <4>2, Zenon
    <3>6. Ahead(E)'
      BY <2>9, <3>2, <3>3, <3>4, <3>5, AheadNext, Zenon
    <3> QED
      BY <2>8, <2>9, <3>2, <3>4, <3>6, Zenon
  <2> QED
    BY <2>10, <2>11
<1> QED
  BY <1>1, <1>2

(* Reaches the first picture there is nothing to count. *)
LEMMA OrderStarts == PicInit => OrderInv
<1> SUFFICES ASSUME PicInit PROVE OrderInv
  OBVIOUS
<1>1. PICK z \in Int, no \in BOOLEAN : z = 0 /\ no = FALSE
  <2>1. FALSE \in BOOLEAN
    OBVIOUS
  <2> QED
    BY <2>1, ZeroIsNatural, Zenon
<1>2. img \in Counters
  <2>1. img = [frame_num |-> z, pre_frame_num |-> z, PrevPicOrderCntMsb |-> z, PrevPicOrderCntLsb |-> z,
            PreviousFrameNum |-> z, PreviousFrameNumOffset |-> z, last_has_mmco_5 |-> no,
            toppoc |-> z, bottompoc |-> z, framepoc |-> z]
    BY <1>1, Zenon DEF PicInit
  <2> QED
    BY <2>1 DEF Counters
<1>3. sender \in [num : Nat, base : Int, disposable : BOOLEAN, pictures : Nat] /\ sender.pictures = 0
  <2>1. PICK o \in Nat : o = 0
    OBVIOUS
  <2>2. sender = [num |-> o, base |-> z, disposable |-> no, pictures |-> o]
    BY <1>1, <2>1, Zenon DEF PicInit
  <2> QED
    BY <2>1, <2>2
<1>4. ordered = <<>> /\ pocSps \in PocSps
  BY Zenon DEF PicInit
<1>5. ordered \in Seq(Pairs) /\ Len(ordered) = 0
  BY <1>4
<1>6. SameCounts
  <2>1. \A k \in 1 .. 0 : ordered[k].got = ordered[k].true
    OBVIOUS
  <2> QED
    BY <1>5, <2>1, Zenon DEF SameCounts
<1>7. ~(sender.pictures > 0)
  BY <1>3
<1> QED
  BY <1>2, <1>3, <1>4, <1>5, <1>6, <1>7, Zenon DEF OrderInv, PicTyped

(* Each type is not the others. *)
LEMMA OneAlone ==
  ASSUME Mode = 1
  PROVE  Mode # 0 /\ Mode # 2
OBVIOUS

(* What SameCounts says of type 1. *)
LEMMA SameCounts1 ==
  ASSUME Mode = 1, SameCounts
  PROVE  AllSame(ordered)
<1>1. Mode # 0 /\ Mode # 2
  BY OneAlone
<1> QED
  BY <1>1, Zenon DEF SameCounts, AllSame

(* Counts that are the same, or both rise, are in the same order. *)
LEMMA SameWay ==
  ASSUME ordered \in Seq(Pairs), AllSame(ordered) \/ Rising(ordered)
  PROVE  \A i, j \in 1 .. Len(ordered) :
           ordered[i].true < ordered[j].true <=> ordered[i].got < ordered[j].got
<1>1. \A i \in 1 .. Len(ordered) : ordered[i].true \in Int /\ ordered[i].got \in Int
  <2> SUFFICES ASSUME NEW i \in 1 .. Len(ordered) PROVE ordered[i].true \in Int /\ ordered[i].got \in Int
    OBVIOUS
  <2>1. ordered[i] \in Pairs
    OBVIOUS
  <2> QED
    BY <2>1 DEF Pairs
<1>2. ASSUME NEW i \in 1 .. Len(ordered), NEW j \in 1 .. Len(ordered)
      PROVE  ordered[i].true < ordered[j].true <=> ordered[i].got < ordered[j].got
  <2>1. PICK p \in Int, q \in Int, u \in Int, v \in Int :
          p = ordered[i].true /\ q = ordered[j].true /\ u = ordered[i].got /\ v = ordered[j].got
    BY <1>1
  <2>2. CASE AllSame(ordered)
    <3>1. u = p /\ v = q
      BY <2>1, <2>2, Zenon DEF AllSame
    <3> QED
      BY <2>1, <3>1, Zenon
  <2>3. CASE Rising(ordered)
    <3>1. i \in Int /\ j \in Int
      OBVIOUS
    <3>2. i < j => p < q /\ u < v
      BY <2>1, <2>3, Zenon DEF Rising
    <3>3. j < i => q < p /\ v < u
      BY <2>1, <2>3, Zenon DEF Rising
    <3>4. i = j => p = q /\ u = v
      BY <2>1, Zenon
    <3>5. p < q <=> u < v
      BY <3>1, <3>2, <3>3, <3>4
    <3> QED
      BY <2>1, <3>5, Zenon
  <2> QED
    BY <2>2, <2>3
<1> QED
  BY <1>2

(* Which is what SameOrder asks of each type. *)
LEMMA SameOrderIf ==
  ASSUME PicTyped,
         Mode = 0 /\ "gap after command 5" \notin oddities => AllSame(ordered),
         Mode = 1 => AllSame(ordered),
         Mode = 2 /\ "gap before a non-reference" \notin oddities => Rising(ordered)
  PROVE  SameOrder
<1>2. ASSUME AllSame(ordered) \/ Rising(ordered), NEW i \in 1 .. Len(ordered), NEW j \in 1 .. Len(ordered)
      PROVE  ordered[i].true < ordered[j].true <=> ordered[i].got < ordered[j].got
  <2>1. ordered \in Seq(Pairs)
    BY Zenon DEF PicTyped
  <2> QED
    BY <1>2, <2>1, SameWay, Zenon
<1>3. Mode \in {0, 1, 2}
  BY SpsTyped DEF PicTyped
<1>4. CASE Mode = 0
  <2>1. Mode # 1 /\ Mode # 2
    BY <1>4, ZeroAlone
  <2> QED
    BY <1>2, <1>4, <2>1, Zenon DEF SameOrder
<1>5. CASE Mode = 1
  BY <1>2, <1>5, Zenon DEF SameOrder
<1>6. CASE Mode = 2
  <2>1. Mode # 0 /\ Mode # 1
    BY <1>6, TwoAlone
  <2> QED
    BY <1>2, <1>6, <2>1, Zenon DEF SameOrder
<1> QED
  BY <1>3, <1>4, <1>5, <1>6

(* A picture keeps the invariant. *)
LEMMA PictureKeeps ==
  ASSUME OrderInv, NEW kind, NEW step, NEW bottom, NEW skip, Sendable(kind, step, bottom, skip),
         NEW num, NEW top, NEW due, NEW h, NEW read, NEW m, NEW N, NEW n,
         PictureIs(kind, step, bottom, skip, num, top, due, h, read, m),
         SetUp(kind, step, bottom, num, top, due, h, read, m, N, n)
  PROVE  OrderInv'
<1>1. PicTyped'
  BY SentTyped, Zenon
<1>2. NumInv' /\ sender'.pictures > 0
  BY SentNumbers, Zenon
<1>3. pocSps' = pocSps /\ Mode' = Mode
  BY Zenon DEF PictureIs, Mode
<1>4. Mode = 0 => /\ img'.last_has_mmco_5 \/ "gap after command 5" \notin oddities' => Low(img', sender'.base)
                  /\ "gap after command 5" \notin oddities' => AllSame(ordered')
  BY Count0, Zenon
<1>5. Mode = 1 => Tracks(img', LastNum', 0) /\ AllSame(ordered')
  BY Count1, Zenon
<1>6. Mode = 2 => /\ "gap before a non-reference" \notin oddities' => Rising(ordered') /\ \E D \in Nat : Ahead(D)'
                  /\ oddities' = {} => AllSame(ordered')
  BY Count2, Zenon
<1>7. CountInv'
  BY <1>3, <1>4, <1>5, <1>6, Zenon DEF CountInv, Low, Tracks, Rising
<1>8. SameCounts'
  <2>1. Mode \in {0, 1, 2}
    BY SpsTyped DEF OrderInv, PicTyped
  <2>2. CASE Mode = 0
    <3>1. Mode' = 0 /\ Mode' # 1 /\ Mode' # 2
      BY <1>3, <2>2, ZeroAlone
    <3> QED
      BY <1>4, <2>2, <3>1, Zenon DEF SameCounts, AllSame
  <2>3. CASE Mode = 1
    BY <1>5, <2>3, Zenon DEF SameCounts, AllSame
  <2>4. CASE Mode = 2
    <3>1. Mode' = 2 /\ Mode' # 0 /\ Mode' # 1
      BY <1>3, <2>4, TwoAlone
    <3> QED
      BY <1>6, <2>4, <3>1, Zenon DEF SameCounts, AllSame
  <2> QED
    BY <2>1, <2>2, <2>3, <2>4
<1>9. sender'.pictures # 0
  <2>1. sender'.pictures \in Nat
    BY <1>1 DEF PicTyped
  <2> QED
    BY <1>2, <2>1
<1> QED
  BY <1>1, <1>2, <1>7, <1>8, <1>9, Zenon DEF OrderInv

(* Every step does. *)
LEMMA OrderKept == OrderInv /\ [PicNext]_pocVars => OrderInv'
<1> SUFFICES ASSUME OrderInv, [PicNext]_pocVars PROVE OrderInv'
  OBVIOUS
<1>1. CASE DecodePicture
  <2>1. PicTyped
    BY Zenon DEF OrderInv
  <2>2. PICK kind, step, bottom, skip :
           Sendable(kind, step, bottom, skip) /\ Picture(kind, step, bottom, skip) /\ UNCHANGED pocSps
    BY <1>1, <2>1, PictureSent, Zenon
  <2>3. PICK num, top, due, h, read, m : PictureIs(kind, step, bottom, skip, num, top, due, h, read, m)
    BY <2>2, PictureNamed, Zenon
  <2>4. PICK N, n : SetUp(kind, step, bottom, num, top, due, h, read, m, N, n)
    BY <2>2, <2>3, PictureSetUp, Zenon
  <2> QED
    BY <2>2, <2>3, <2>4, PictureKeeps, Zenon
<1>2. CASE UNCHANGED pocVars
  <2>1. pocSps' = pocSps /\ sender' = sender /\ img' = img /\ ordered' = ordered /\ oddities' = oddities
    BY <1>2 DEF pocVars
  <2>2. PicTyped' /\ NumInv' = NumInv /\ CountInv' = CountInv /\ SameCounts'
    <3>1. PicTyped' /\ SameCounts'
      BY <2>1, Zenon DEF OrderInv, PicTyped, SameCounts, Mode
    <3>2. NumInv' = NumInv
      BY <2>1, Zenon DEF NumInv, LastNum
    <3>3. CountInv' = CountInv
      BY <2>1, Zenon DEF CountInv, LastNum, Mode, Ahead, Low, Tracks, Rising
    <3> QED
      BY <3>1, <3>2, <3>3
  <2> QED
    BY <2>1, <2>2, Zenon DEF OrderInv
<1> QED
  BY <1>1, <1>2, Zenon DEF PicNext

(* The invariant is as strong as OrderRight. *)
LEMMA OrderEnough == OrderInv => OrderRight
<1> SUFFICES ASSUME OrderInv PROVE OrderRight
  OBVIOUS
<1>1. PicTyped /\ SameCounts /\ (sender.pictures = 0 => ordered = <<>>) /\ (sender.pictures > 0 => CountInv)
  BY Zenon DEF OrderInv
<1>2. Mode = 0 /\ "gap after command 5" \notin oddities => AllSame(ordered)
  BY <1>1, SameCounts0, Zenon
<1>3. Mode = 1 => AllSame(ordered)
  BY <1>1, SameCounts1, Zenon
<1>4. Mode = 2 /\ "gap before a non-reference" \notin oddities => Rising(ordered)
  <2>1. CASE sender.pictures = 0
    <3>1. Len(ordered) = 0
      BY <1>1, <2>1
    <3>2. \A i, j \in 1 .. 0 : i < j => ordered[i].true < ordered[j].true /\ ordered[i].got < ordered[j].got
      OBVIOUS
    <3> QED
      BY <3>1, <3>2, Zenon DEF Rising
  <2>2. CASE sender.pictures > 0
    BY <1>1, <2>2, Zenon DEF CountInv
  <2>3. sender.pictures \in Nat
    BY <1>1 DEF PicTyped
  <2>4. sender.pictures = 0 \/ sender.pictures > 0
    BY <2>3
  <2> QED
    BY <2>1, <2>2, <2>4, Zenon
<1>5. SameOrder
  BY <1>1, <1>2, <1>3, <1>4, SameOrderIf, Zenon
<1> QED
  BY <1>1, <1>5, Zenon DEF OrderRight

(***************************************************************************)
(* header.c:452-621, mbuffer.c:1896-1917, mbuffer.c:2585-2634: whatever the  *)
(* parameter set, the ranges of frame_num and of the low part, the numbers    *)
(* left out and the resets by command 5, the counts of a sequence are the     *)
(* sender's and pictures come out in the sender's order, but in the cases     *)
(* that SameCounts and SameOrder name.                                      *)
(***************************************************************************)
THEOREM OrderCountsRight == PicSpec => []OrderRight
<1>1. PicInit => OrderInv
  BY OrderStarts
<1>2. OrderInv /\ [PicNext]_pocVars => OrderInv'
  BY OrderKept
<1>3. OrderInv => OrderRight
  BY OrderEnough
<1> QED
  BY <1>1, <1>2, <1>3, PTL DEF PicSpec
=============================================================================
