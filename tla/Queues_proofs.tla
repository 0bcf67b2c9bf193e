---------------------------- MODULE Queues_proofs ----------------------------
(***************************************************************************)
(* What retain and insert do to a queue, for every queue.                  *)
(***************************************************************************)
EXTENDS Queues, FiniteSetTheorems, WellFoundedInduction, TLAPS

\* Every rank from 1 to the number of positions belongs to exactly one position,
\* and ranks are ordered as the positions are.
LEMMA RankOrder ==
  ASSUME NEW n \in Nat, NEW at \in SUBSET (1..n)
  PROVE  /\ IsFiniteSet(at) /\ Cardinality(at) \in 0..n
         /\ \A i \in at : Rank(at, i) \in 1..Cardinality(at)
         /\ \A i, j \in at : i < j => Rank(at, i) < Rank(at, j)
<1>1. IsFiniteSet(at) /\ Cardinality(at) \in 0..n
  <2>1. IsFiniteSet(1..n) /\ Cardinality(1..n) = n
    BY FS_Interval
  <2>2. IsFiniteSet(at) /\ Cardinality(at) <= n
    BY <2>1, FS_Subset
  <2> QED
    BY <2>2, FS_CardinalityType
<1>2. ASSUME NEW i \in at
      PROVE  Rank(at, i) \in 1..Cardinality(at)
  <2> DEFINE low == {j \in at : j <= i}
  <2>1. low \subseteq at /\ i \in low
    OBVIOUS
  <2>2. IsFiniteSet(low) /\ Cardinality(low) \in Nat /\ Cardinality(low) <= Cardinality(at)
    BY <1>1, <2>1, FS_Subset, FS_CardinalityType
  <2>3. Cardinality(low) # 0
    BY <2>1, <2>2, FS_EmptySet
  <2> QED
    BY <1>1, <2>2, <2>3 DEF Rank
<1>3. ASSUME NEW i \in at, NEW j \in at, i < j
      PROVE  Rank(at, i) < Rank(at, j)
  <2> DEFINE low == {k \in at : k <= i}
             high == {k \in at : k <= j}
  <2>1. low \in SUBSET high /\ j \in high /\ j \notin low /\ high \in SUBSET at
    <3>1. \A k \in at : k <= i => k <= j
      BY <1>3
    <3>2. ~(j <= i) /\ j <= j
      BY <1>3
    <3> QED
      BY <3>1, <3>2
  <2>2. IsFiniteSet(high)
    BY <1>1, <2>1, FS_Subset
  <2>3. /\ Cardinality(low) <= Cardinality(high)
        /\ Cardinality(high) = Cardinality(low) => high = low
    BY <2>1, <2>2, FS_Subset
  <2>4. Cardinality(low) # Cardinality(high)
    BY <2>1, <2>3
  <2>5. Cardinality(low) \in Nat /\ Cardinality(high) \in Nat
    BY <2>1, <2>2, FS_Subset, FS_CardinalityType
  <2> QED
    BY <2>3, <2>4, <2>5 DEF Rank
<1> QED
  BY <1>1, <1>2, <1>3

LEMMA NthOrder ==
  ASSUME NEW n \in Nat, NEW at \in SUBSET (1..n)
  PROVE  /\ \A k \in 1..Cardinality(at) : Nth(at, k) \in at /\ Rank(at, Nth(at, k)) = k
         /\ \A i \in at : Nth(at, Rank(at, i)) = i
         /\ \A k, l \in 1..Cardinality(at) : k < l => Nth(at, k) < Nth(at, l)
<1> DEFINE c == Cardinality(at)
           f == [i \in at |-> Rank(at, i)]
<1>1. /\ IsFiniteSet(at) /\ c \in Nat
      /\ \A i \in at : Rank(at, i) \in 1..c
      /\ \A i, j \in at : i < j => Rank(at, i) < Rank(at, j)
  BY RankOrder
<1>2. f \in Injection(at, 1..c)
  <2>1. f \in [at -> 1..c]
    BY <1>1
  <2>2. \A i, j \in at : f[i] = f[j] => i = j
    BY <1>1
  <2> QED
    BY <2>1, <2>2 DEF Injection, IsInjective
<1>3. IsFiniteSet(1..c) /\ Cardinality(1..c) = c
  BY <1>1, FS_Interval
<1>4. f \in Surjection(at, 1..c)
  BY <1>1, <1>2, <1>3, FS_Injection
<1>5. \A k \in 1..c : \E i \in at : Rank(at, i) = k
  BY <1>4 DEF Surjection
<1>6. \A k \in 1..c : Nth(at, k) \in at /\ Rank(at, Nth(at, k)) = k
  BY <1>5 DEF Nth
<1>7. \A i, j \in at : Rank(at, i) = Rank(at, j) => i = j
  BY <1>1
<1>8. \A i \in at : Nth(at, Rank(at, i)) = i
  BY <1>1, <1>6, <1>7
<1>9. ASSUME NEW i \in at, NEW j \in at, Rank(at, i) < Rank(at, j)
      PROVE  i < j
  <2>1. Rank(at, i) \in Int /\ Rank(at, j) \in Int /\ i \in Int /\ j \in Int
    BY <1>1
  <2>2. j < i => Rank(at, j) < Rank(at, i)
    BY <1>1
  <2> QED
    BY <1>9, <2>1, <2>2
<1>10. \A k, l \in 1..c : k < l => Nth(at, k) < Nth(at, l)
  BY <1>1, <1>6, <1>9
<1> QED
  BY <1>6, <1>8, <1>10

\* Retain keeps exactly the entries in S, one for one, in their order.
LEMMA RetainProperties ==
  ASSUME NEW T, NEW q \in Seq(T), NEW S
  PROVE  LET r == Retain(q, S)
             nth(k) == Nth(Where(q, S), k)
         IN /\ r \in Seq(T) /\ Len(r) <= Len(q)
            /\ \A k \in 1..Len(r) : nth(k) \in 1..Len(q) /\ r[k] = q[nth(k)] /\ r[k] \in S
            /\ \A k, l \in 1..Len(r) : k < l => nth(k) < nth(l)
            /\ \A i \in 1..Len(q) : q[i] \in S => \E k \in 1..Len(r) : nth(k) = i
<1> DEFINE at == Where(q, S)
           r == Retain(q, S)
           n == Len(q)
<1>1. n \in Nat /\ DOMAIN q = 1..n /\ at \in SUBSET (1..n)
  BY DEF Where
<1>2. Cardinality(at) \in Nat /\ Cardinality(at) <= n
  BY <1>1, RankOrder
<1>3. /\ \A k \in 1..Cardinality(at) : Nth(at, k) \in at
      /\ \A i \in at : Nth(at, Rank(at, i)) = i /\ Rank(at, i) \in 1..Cardinality(at)
      /\ \A k, l \in 1..Cardinality(at) : k < l => Nth(at, k) < Nth(at, l)
  BY <1>1, NthOrder, RankOrder
<1>4. \A i \in at : i \in 1..n /\ q[i] \in S /\ q[i] \in T
  BY <1>1 DEF Where
<1>5. r = [k \in 1..Cardinality(at) |-> q[Nth(at, k)]]
  BY DEF Retain
<1> HIDE DEF at, r
<1>6. r \in Seq(T) /\ Len(r) = Cardinality(at)
  <2>1. r \in [1..Cardinality(at) -> T]
    BY <1>3, <1>4, <1>5
  <2> QED
    BY <1>2, <2>1
<1>7. \A i \in 1..n : q[i] \in S => i \in at
  BY <1>1 DEF at, Where
<1> QED
  BY <1>1, <1>2, <1>3, <1>4, <1>5, <1>6, <1>7 DEF at, r

LEMMA Least ==
  ASSUME NEW A \in SUBSET Nat, A # {}
  PROVE  \E i \in A : \A j \in A : i <= j
<1>1. PICK i \in A : \A j \in A : ~(<<j, i>> \in OpToRel(<, Nat))
  BY WFMin, NatLessThanWellFounded
<1>2. \A j \in A : ~(j < i)
  BY <1>1 DEF OpToRel
<1> QED
  BY <1>2

\* InsertBefore puts the new entry after nothing of S and moves nothing else.
LEMMA InsertProperties ==
  ASSUME NEW T, NEW q \in Seq(T), NEW S, NEW e \in T
  PROVE  LET p == FirstIn(q, S)
             r == InsertBefore(q, S, e)
         IN /\ p \in 1..Len(q) + 1
            /\ p <= Len(q) => q[p] \in S
            /\ \A i \in 1..Len(q) : i < p => q[i] \notin S
            /\ r \in Seq(T) /\ Len(r) = Len(q) + 1
            /\ \A i \in 1..Len(r) :
                 r[i] = IF i < p THEN q[i] ELSE IF i = p THEN e ELSE q[i - 1]
<1> DEFINE n == Len(q)
           p == FirstIn(q, S)
           r == InsertBefore(q, S, e)
           at == {i \in 1..n : q[i] \in S}
           First(k) == /\ k <= n => q[k] \in S
                       /\ \A i \in 1..k - 1 : q[i] \notin S
<1>1. n \in Nat
  OBVIOUS
<1>2. \E k \in 1..n + 1 : First(k)
  <2>1. CASE at = {}
    <3>1. \A i \in 1..(n + 1) - 1 : q[i] \notin S
      BY <1>1, <2>1
    <3>2. n + 1 \in 1..n + 1 /\ ~(n + 1 <= n)
      BY <1>1
    <3> QED
      BY <3>1, <3>2
  <2>2. CASE at # {}
    <3> at \in SUBSET Nat
      BY <1>1
    <3>1. PICK i \in at : \A j \in at : i <= j
      <4> HIDE DEF at
      <4> QED
        BY <2>2, Least
    <3>2. i \in 1..n + 1 /\ q[i] \in S
      BY <1>1, <3>1
    <3>3. \A j \in 1..i - 1 : j \in 1..n /\ ~(i <= j)
      BY <1>1, <3>1
    <3>4. \A j \in 1..i - 1 : q[j] \notin S
      BY <3>1, <3>3
    <3> QED
      BY <3>2, <3>4
  <2> QED
    BY <2>1, <2>2
<1>3. p \in 1..n + 1 /\ First(p)
  BY <1>2 DEF FirstIn
<1>4. r = [i \in 1..n + 1 |-> IF i < p THEN q[i] ELSE IF i = p THEN e ELSE q[i - 1]]
  BY DEF InsertBefore, Insert
<1> HIDE DEF p, r
<1>5. \A i \in 1..n + 1 : (i < p => i \in 1..n) /\ (i > p => i - 1 \in 1..n)
  BY <1>1, <1>3
<1>6. r \in [1..n + 1 -> T]
  BY <1>1, <1>3, <1>4, <1>5
<1>7. r \in Seq(T) /\ Len(r) = n + 1
  BY <1>1, <1>6
<1>8. \A i \in 1..n : i < p => i \in 1..p - 1
  BY <1>1, <1>3
<1> QED
  BY <1>1, <1>3, <1>4, <1>7, <1>8 DEF p, r
==============================================================================
