------------------------------ MODULE Counting ------------------------------
(***************************************************************************)
(* Counting arguments that several of the proofs need: total sizes, ranks, *)
(* and the elements that leave and enter a set.                            *)
(***************************************************************************)
EXTENDS FiniteSetTheorems, TLAPS

(* As many units as the members of S have in all.                          *)
Units(S, size) == UNION {{x} \X (1 .. size[x]) : x \in S}

LEMMA UnitsFinite ==
  ASSUME NEW S, IsFiniteSet(S), NEW size, \A x \in S : size[x] \in Nat
  PROVE  IsFiniteSet(Units(S, size)) /\ Cardinality(Units(S, size)) \in Nat
<1> DEFINE T == {{x} \X (1 .. size[x]) : x \in S}
           f == [x \in S |-> {x} \X (1 .. size[x])]
<1>1. f \in Surjection(S, T)
  BY DEF Surjection
<1>2. IsFiniteSet(T)
  <2> HIDE DEF f, T
  <2> QED  BY <1>1, FS_Surjection
<1>3. ASSUME NEW U \in T PROVE IsFiniteSet(U)
  <2>1. PICK x \in S : U = {x} \X (1 .. size[x])
    OBVIOUS
  <2>2. IsFiniteSet({x}) /\ size[x] \in Int
    <3>1. size[x] \in Nat
      BY <2>1
    <3>2. IsFiniteSet({x})
      BY FS_Singleton
    <3> QED  BY <3>1, <3>2
  <2>3. IsFiniteSet(1 .. size[x])
    <3>1. \A n \in Int : IsFiniteSet(1 .. n)
      BY FS_Interval
    <3> QED  BY <2>2, <3>1
  <2> QED  BY <2>1, <2>2, <2>3, FS_Product
<1>4. IsFiniteSet(UNION T)
  <2> HIDE DEF T
  <2> QED  BY <1>2, <1>3, FS_UNION
<1> QED  BY <1>4, FS_CardinalityType DEF Units

LEMMA NoUnits == ASSUME NEW size PROVE Cardinality(Units({}, size)) = 0
<1>1. Units({}, size) = {}
  BY DEF Units
<1> QED  BY <1>1, FS_EmptySet

LEMMA UnitsOfOne ==
  ASSUME NEW x, NEW size, size[x] \in Nat
  PROVE  Cardinality(Units({x}, size)) = size[x]
<1>1. Units({x}, size) = {x} \X (1 .. size[x])
  BY DEF Units
<1>2. IsFiniteSet({x}) /\ Cardinality({x}) = 1
  BY FS_Singleton
<1>3. IsFiniteSet(1 .. size[x]) /\ Cardinality(1 .. size[x]) = size[x]
  <2>1. \A n \in Nat : IsFiniteSet(1 .. n) /\ Cardinality(1 .. n) = n
    BY FS_Interval
  <2> QED  BY <2>1
<1>4. Cardinality({x} \X (1 .. size[x])) = Cardinality({x}) * Cardinality(1 .. size[x])
  BY <1>2, <1>3, FS_Product
<1>5. 1 * size[x] = size[x]
  OBVIOUS
<1>6. Cardinality({x} \X (1 .. size[x])) = 1 * size[x]
  BY <1>2, <1>3, <1>4
<1> QED  BY <1>1, <1>5, <1>6

\* Finite disjoint sets of things that have a size.
CanBeAdded(S, T, size) ==
  IsFiniteSet(S) /\ IsFiniteSet(T) /\ S \cap T = {} /\ \A x \in S \cup T : size[x] \in Nat

(* Disjoint sets have the units of both.                                    *)
LEMMA UnitsAdd ==
  ASSUME NEW S, NEW T, NEW size, CanBeAdded(S, T, size)
  PROVE  Cardinality(Units(S \cup T, size))
           = Cardinality(Units(S, size)) + Cardinality(Units(T, size))
<1> USE DEF CanBeAdded
<1>1. Units(S \cup T, size) = Units(S, size) \cup Units(T, size)
  BY DEF Units
<1>2. Units(S, size) \cap Units(T, size) = {}
  BY DEF Units
<1>3. /\ IsFiniteSet(Units(S, size)) /\ Cardinality(Units(S, size)) \in Nat
      /\ IsFiniteSet(Units(T, size)) /\ Cardinality(Units(T, size)) \in Nat
  BY UnitsFinite
<1>4. Cardinality(Units(S, size) \cap Units(T, size)) = 0
  BY <1>2, FS_EmptySet
<1>5. Cardinality(Units(S, size) \cup Units(T, size))
        = Cardinality(Units(S, size)) + Cardinality(Units(T, size))
            - Cardinality(Units(S, size) \cap Units(T, size))
  BY <1>3, FS_Union
<1>6. Cardinality(Units(S \cup T, size)) = Cardinality(Units(S, size) \cup Units(T, size))
  BY <1>1
<1>7. \A m, n, k, l : m \in Nat /\ n \in Nat /\ k = 0 /\ l = m + n - k => l = m + n
  OBVIOUS
<1> QED  BY <1>3, <1>4, <1>5, <1>6, <1>7

(* What a set is short of and what it has gained account for its size.     *)
LEMMA Moved ==
  ASSUME NEW A, NEW B, IsFiniteSet(A), IsFiniteSet(B)
  PROVE  Cardinality(A) = Cardinality(B) - Cardinality(B \ A) + Cardinality(A \ B)
<1>1. /\ Cardinality(B \ A) = Cardinality(B) - Cardinality(A \cap B)
      /\ Cardinality(A \ B) = Cardinality(A) - Cardinality(A \cap B)
  <2>1. A \cap B = B \cap A
    OBVIOUS
  <2> QED  BY <2>1, FS_Difference
<1>2. IsFiniteSet(A \cap B)
  BY FS_Intersection
<1>3. Cardinality(A) \in Nat /\ Cardinality(B) \in Nat /\ Cardinality(A \cap B) \in Nat
  BY <1>2, FS_CardinalityType
<1> QED  BY <1>1, <1>3

(* R puts the members of S in a line.                                       *)
StrictOrder(R, S) ==
  /\ \A p \in S : <<p, p>> \notin R
  /\ \A p, q, r \in S : <<p, q>> \in R /\ <<q, r>> \in R => <<p, r>> \in R
  /\ \A p, q \in S : p # q => <<p, q>> \in R \/ <<q, p>> \in R

RankIn(S, R, p) == Cardinality({q \in S : <<q, p>> \in R})
Ranks(S, R) == {RankIn(S, R, p) : p \in S}

(* Numbering by how many come before leaves no gap.                         *)
LEMMA RanksInOrder ==
  ASSUME NEW S, IsFiniteSet(S), NEW R, StrictOrder(R, S)
  PROVE  /\ Ranks(S, R) = 0 .. (Cardinality(S) - 1)
         /\ \A p, q \in S : <<p, q>> \in R => RankIn(S, R, p) < RankIn(S, R, q)
         /\ \A p, q \in S : RankIn(S, R, p) = RankIn(S, R, q) => p = q
<1> DEFINE rank == [p \in S |-> RankIn(S, R, p)]
           T == 0 .. (Cardinality(S) - 1)
<1>1. IsFiniteSet(S) /\ Cardinality(S) \in Nat
  BY FS_CardinalityType
<1>2. ASSUME NEW p \in S
      PROVE  /\ IsFiniteSet({q \in S : <<q, p>> \in R}) /\ rank[p] \in Nat
             /\ rank[p] < Cardinality(S)
  <2>1. {q \in S : <<q, p>> \in R} \subseteq S /\ p \notin {q \in S : <<q, p>> \in R}
    BY DEF StrictOrder
  <2>2. /\ IsFiniteSet({q \in S : <<q, p>> \in R})
        /\ Cardinality({q \in S : <<q, p>> \in R}) <= Cardinality(S)
        /\ Cardinality({q \in S : <<q, p>> \in R}) # Cardinality(S)
    BY <1>1, <2>1, FS_Subset
  <2> QED  BY <1>1, <2>2, FS_CardinalityType DEF RankIn
<1>3. ASSUME NEW p \in S, NEW q \in S, <<p, q>> \in R PROVE rank[p] < rank[q]
  <2> DEFINE A == {x \in S : <<x, p>> \in R}
             B == {x \in S : <<x, q>> \in R}
  <2>1. A \subseteq B /\ p \in B /\ p \notin A
    BY <1>3 DEF StrictOrder
  <2>2. IsFiniteSet(A) /\ IsFiniteSet(B) /\ rank[p] = Cardinality(A) /\ rank[q] = Cardinality(B)
        /\ rank[p] \in Nat /\ rank[q] \in Nat
    BY <1>2 DEF RankIn
  <2> HIDE DEF A, B, rank
  <2>3. Cardinality(A) <= Cardinality(B) /\ Cardinality(A) # Cardinality(B)
    BY <2>1, <2>2, FS_Subset
  <2> QED  BY <2>2, <2>3
<1>4. rank \in [S -> T]
  <2>1. \A p \in S : rank[p] \in T
    <3>1. \A p \in S : rank[p] \in Nat /\ rank[p] < Cardinality(S)
      BY <1>2
    <3> HIDE DEF rank
    <3> QED  BY <1>1, <3>1
  <2>2. rank = [p \in S |-> rank[p]]
    OBVIOUS
  <2> HIDE DEF rank, T
  <2> QED  BY <2>1, <2>2
<1>5. ASSUME NEW p \in S, NEW q \in S, rank[p] = rank[q] PROVE p = q
  <2>1. rank[p] \in Nat /\ rank[q] \in Nat
    BY <1>2
  <2> HIDE DEF rank
  <2>2. ~(rank[p] < rank[q]) /\ ~(rank[q] < rank[p])
    BY <1>5, <2>1
  <2> QED  BY <1>3, <2>2 DEF StrictOrder
<1>6. rank \in Injection(S, T)
  <2> HIDE DEF rank, T
  <2> QED  BY <1>4, <1>5 DEF Injection, IsInjective
<1>7. IsFiniteSet(T) /\ Cardinality(T) = Cardinality(S)
  <2>1. \A n \in Nat : IsFiniteSet(0 .. (n - 1)) /\ Cardinality(0 .. (n - 1)) = n
    BY FS_Interval
  <2> QED  BY <1>1, <2>1
<1>8. rank \in Surjection(S, T)
  <2> HIDE DEF rank, T
  <2> QED  BY <1>6, <1>7, FS_Injection
<1>9. \A t \in T : \E p \in S : rank[p] = t
  <2> HIDE DEF rank, T
  <2> QED  BY <1>8 DEF Surjection
<1>10. {RankIn(S, R, p) : p \in S} = {rank[p] : p \in S}
  OBVIOUS
<1>11. {rank[p] : p \in S} = T
  <2> HIDE DEF rank, T
  <2> QED  BY <1>4, <1>9
<1>12. \A p \in S : rank[p] = RankIn(S, R, p)
  OBVIOUS
<1> HIDE DEF rank
<1> QED  BY <1>3, <1>5, <1>10, <1>11, <1>12 DEF Ranks

LEMMA RanksAreDense ==
  ASSUME NEW S \in SUBSET Nat, IsFiniteSet(S)
  PROVE  {Cardinality({q \in S : q < p}) : p \in S} = 0 .. (Cardinality(S) - 1)
<1> DEFINE R == {x \in S \X S : x[1] < x[2]}
<1>1. StrictOrder(R, S)
  <2>1. \A x \in S : x \in Nat
    OBVIOUS
  <2>2. \A p, q \in S : <<p, q>> \in R <=> p < q
    OBVIOUS
  <2> HIDE DEF R
  <2>3. \A p \in S : <<p, p>> \notin R
    BY <2>1, <2>2
  <2>4. \A p, q, r \in S : <<p, q>> \in R /\ <<q, r>> \in R => <<p, r>> \in R
    BY <2>1, <2>2
  <2>5. \A p, q \in S : p # q => <<p, q>> \in R \/ <<q, p>> \in R
    BY <2>1, <2>2
  <2> QED  BY <2>3, <2>4, <2>5 DEF StrictOrder
<1>2. \A p \in S : {q \in S : <<q, p>> \in R} = {q \in S : q < p}
  OBVIOUS
<1>3. Ranks(S, R) = 0 .. (Cardinality(S) - 1)
  <2> HIDE DEF R
  <2> QED  BY <1>1, RanksInOrder
<1>4. Ranks(S, R) = {Cardinality({q \in S : q < p}) : p \in S}
  <2> HIDE DEF R
  <2> QED  BY <1>2 DEF RankIn, Ranks
<1> QED  BY <1>3, <1>4

(* The members of S in the order of R.                                      *)
Ranked(S, R) ==
  [n \in 1 .. Cardinality(S) |-> CHOOSE x \in S : RankIn(S, R, x) = n - 1]

LEMMA RankedEnumerates ==
  ASSUME NEW S, IsFiniteSet(S), NEW R, StrictOrder(R, S)
  PROVE  /\ Cardinality(S) \in Nat
         /\ Ranked(S, R) \in [1 .. Cardinality(S) -> S]
         /\ \A x \in S : \E n \in 1 .. Cardinality(S) : Ranked(S, R)[n] = x
         /\ \A m, n \in 1 .. Cardinality(S) : m < n => <<Ranked(S, R)[m], Ranked(S, R)[n]>> \in R
<1> DEFINE c == Cardinality(S)
           rank(x) == RankIn(S, R, x)
           q == Ranked(S, R)
<1>1. c \in Nat
  BY FS_CardinalityType
<1>2. {rank(p) : p \in S} = 0 .. (c - 1)
  BY RanksInOrder DEF Ranks
<1>3. \A x, y \in S : /\ <<x, y>> \in R => rank(x) < rank(y)
                      /\ rank(x) = rank(y) => x = y
  BY RanksInOrder
<1>4. ASSUME NEW n \in 1 .. c PROVE q[n] \in S /\ rank(q[n]) = n - 1
  <2>1. n - 1 \in 0 .. (c - 1)
    BY <1>1
  <2>2. \E x \in S : rank(x) = n - 1
    <3> HIDE DEF rank, c
    <3> QED  BY <1>2, <2>1
  <2>3. q[n] = CHOOSE x \in S : rank(x) = n - 1
    BY DEF Ranked
  <2> HIDE DEF rank, q
  <2> QED  BY <2>2, <2>3
<1>5. ASSUME NEW x \in S PROVE \E n \in 1 .. c : q[n] = x
  <2>1. rank(x) \in 0 .. (c - 1)
    <3> HIDE DEF rank, c
    <3> QED  BY <1>2
  <2>2. rank(x) + 1 \in 1 .. c /\ (rank(x) + 1) - 1 = rank(x)
    <3> HIDE DEF rank, c
    <3> QED  BY <1>1, <2>1
  <2>3. q[rank(x) + 1] = x
    <3> HIDE DEF rank, c, q
    <3> QED  BY <1>3, <1>4, <2>2
  <2> QED  BY <2>2, <2>3
<1>6. ASSUME NEW m \in 1 .. c, NEW n \in 1 .. c, m < n PROVE <<q[m], q[n]>> \in R
  <2>1. m - 1 < n - 1 /\ m - 1 # n - 1 /\ ~(n - 1 < m - 1)
    BY <1>1, <1>6
  <2>2. q[m] \in S /\ q[n] \in S /\ rank(q[m]) < rank(q[n])
    <3> HIDE DEF rank, c, q
    <3> QED  BY <1>4, <2>1
  <2>3. ~(rank(q[n]) < rank(q[m])) /\ rank(q[m]) # rank(q[n])
    <3>1. rank(q[m]) = m - 1 /\ rank(q[n]) = n - 1
      BY <1>4
    <3> HIDE DEF rank, q
    <3> QED  BY <2>1, <3>1
  <2> HIDE DEF rank, c, q
  <2> QED  BY <1>3, <2>2, <2>3 DEF StrictOrder
<1>7. q \in [1 .. c -> S]
  <2>1. \A n \in 1 .. c : q[n] \in S
    BY <1>4
  <2>2. q = [n \in 1 .. c |-> q[n]]
    BY DEF Ranked
  <2> HIDE DEF q
  <2> QED  BY <2>1, <2>2
<1> QED  BY <1>1, <1>5, <1>6, <1>7, Zenon

(* An increasing enumeration with as many places as the set has members     *)
(* misses none of them.                                                     *)
LEMMA IncreasingIsOnto ==
  ASSUME NEW S \in SUBSET Nat, IsFiniteSet(S), NEW q \in [1 .. Cardinality(S) -> S],
         \A m, n \in DOMAIN q : m < n => q[m] < q[n]
  PROVE  /\ \A x \in S : \E n \in DOMAIN q : q[n] = x
         /\ \A m, n \in DOMAIN q : q[m] = q[n] => m = n
<1> DEFINE I == 1 .. Cardinality(S)
<1>1. Cardinality(S) \in Nat
  BY FS_CardinalityType
<1>2. IsFiniteSet(I) /\ Cardinality(I) = Cardinality(S)
  <2>1. \A n \in Nat : IsFiniteSet(1 .. n) /\ Cardinality(1 .. n) = n
    BY FS_Interval
  <2> QED  BY <1>1, <2>1
<1>3. ASSUME NEW m \in I, NEW n \in I, q[m] = q[n] PROVE m = n
  <2>1. q[m] \in S /\ q[n] \in S /\ DOMAIN q = I
    OBVIOUS
  <2>2. q[m] \in Nat /\ q[n] \in Nat
    <3>1. S \subseteq Nat
      OBVIOUS
    <3> HIDE DEF I
    <3> QED  BY <2>1, <3>1, Zenon
  <2>3. m \in Int /\ n \in Int
    <3>1. \A k \in Nat : \A i \in 1 .. k : i \in Int
      OBVIOUS
    <3> QED  BY <1>1, <3>1
  <2>4. \A i, j \in I : i < j => q[i] < q[j]
    BY <2>1
  <2>5. ~(m < n) /\ ~(n < m)
    <3>1. ~(q[m] < q[n]) /\ ~(q[n] < q[m])
      BY <1>3, <2>2
    <3> HIDE DEF I
    <3> QED  BY <2>4, <3>1
  <2>6. \A i, j \in Int : ~(i < j) /\ ~(j < i) => i = j
    OBVIOUS
  <2> QED  BY <2>3, <2>5, <2>6
<1>4. q \in Injection(I, S)
  BY <1>3 DEF Injection, IsInjective
<1>5. q \in Surjection(I, S)
  <2> HIDE DEF I
  <2> QED  BY <1>2, <1>4, FS_Injection
<1> QED  BY <1>3, <1>5 DEF Surjection

(* Induction, with the set of the numbers the claim holds for.              *)
LEMMA SetInduction ==
  ASSUME NEW T, 0 \in T, \A n \in Nat : n \in T => n + 1 \in T
  PROVE  \A n \in Nat : n \in T
<1> SUFFICES ASSUME NEW k \in Nat, k \notin T PROVE FALSE
  OBVIOUS
<1> DEFINE S == {n \in 0 .. k : n \notin T}
<1>1. S \in SUBSET Nat /\ IsFiniteSet(S) /\ k \in S
  <2>1. IsFiniteSet(0 .. k)
    BY FS_Interval
  <2>2. S \subseteq 0 .. k
    OBVIOUS
  <2>3. IsFiniteSet(S)
    <3> HIDE DEF S
    <3> QED  BY <2>1, <2>2, FS_Subset
  <2> QED  BY <2>3
<1>2. Cardinality(S) \in Nat /\ Cardinality(S) # 0
  <2> HIDE DEF S
  <2> QED  BY <1>1, FS_CardinalityType, FS_EmptySet
<1>3. 0 \in {Cardinality({q \in S : q < p}) : p \in S}
  <2> HIDE DEF S
  <2> QED  BY <1>1, <1>2, RanksAreDense
<1>4. PICK p \in S : Cardinality({q \in S : q < p}) = 0
  BY <1>3
<1>5. \A q \in S : ~(q < p)
  <2>1. {q \in S : q < p} \subseteq S
    OBVIOUS
  <2>2. IsFiniteSet({q \in S : q < p})
    <3> HIDE DEF S
    <3> QED  BY <1>1, <2>1, FS_Subset
  <2>3. {q \in S : q < p} = {}
    <3> HIDE DEF S
    <3> QED  BY <1>4, <2>2, FS_EmptySet
  <2> QED  BY <2>3
<1>6. p \in Nat /\ p # 0 /\ p <= k /\ p \notin T
  OBVIOUS
<1>7. p - 1 \in 0 .. k /\ p - 1 \in Nat /\ p - 1 < p /\ (p - 1) + 1 = p
  <2> HIDE DEF S
  <2> QED  BY <1>6
<1>8. p - 1 \in T
  BY <1>5, <1>7
<1> QED  BY <1>6, <1>7, <1>8

(* A set of numbers that is not empty has a least member.                   *)
LEMMA LeastExists ==
  ASSUME NEW S \in SUBSET Nat, S # {}
  PROVE  \E n \in S : \A m \in S : n <= m
<1> SUFFICES ASSUME \A n \in S : \E m \in S : m < n PROVE FALSE
  OBVIOUS
<1> DEFINE T == {n \in Nat : \A m \in S : m > n}
<1>1. 0 \in T
  <2>1. ASSUME NEW m \in S PROVE m > 0
    <3>1. PICK k \in S : k < m
      OBVIOUS
    <3> QED  BY <3>1
  <2> QED  BY <2>1
<1>2. ASSUME NEW n \in Nat, n \in T PROVE n + 1 \in T
  <2>1. ASSUME NEW m \in S PROVE m > n + 1
    <3>1. PICK k \in S : k < m
      OBVIOUS
    <3>2. k > n
      BY <1>2
    <3> QED  BY <3>1, <3>2
  <2> QED  BY <2>1
<1>3. \A n \in Nat : n \in T
  <2> HIDE DEF T
  <2> QED  BY <1>1, <1>2, SetInduction
<1>4. PICK n \in S : TRUE
  OBVIOUS
<1> QED  BY <1>3, <1>4

(* W starts with a, and its step after the n-th is F[n].                    *)
Recurs(W, F, a) == W[0] = a /\ \A n \in Nat : W[n + 1] = F[n][W[n]]

LEMMA RecursionExists ==
  ASSUME NEW A, NEW a \in A, NEW F \in [Nat -> [A -> A]]
  PROVE  \E W \in [Nat -> A] : Recurs(W, F, a)
<1> DEFINE Walk(p, n) == p[0] = a /\ \A i \in 0 .. (n - 1) : p[i + 1] = F[i][p[i]]
           T == {n \in Nat : \E p \in [Nat -> A] : Walk(p, n)}
           U == {n \in Nat : \A p, q \in [Nat -> A] : Walk(p, n) /\ Walk(q, n) => p[n] = q[n]}
<1>1. \A n \in Nat : n \in T
  <2>1. 0 \in T
    <3>1. [i \in Nat |-> a] \in [Nat -> A] /\ Walk([i \in Nat |-> a], 0)
      OBVIOUS
    <3> QED  BY <3>1
  <2>2. ASSUME NEW n \in Nat, n \in T PROVE n + 1 \in T
    <3>1. PICK p \in [Nat -> A] : Walk(p, n)
      BY <2>2
    <3> DEFINE q == [i \in Nat |-> IF i <= n THEN p[i] ELSE F[n][p[n]]]
    <3>2. q \in [Nat -> A]
      OBVIOUS
    <3>3. Walk(q, n + 1)
      <4>1. q[0] = a
        BY <3>1
      <4>2. ASSUME NEW i \in 0 .. n PROVE q[i + 1] = F[i][q[i]]
        <5>1. CASE i = n
          BY <5>1
        <5>2. CASE i # n
          <6>1. i \in 0 .. (n - 1) /\ q[i] = p[i] /\ q[i + 1] = p[i + 1]
            BY <5>2
          <6> QED  BY <3>1, <6>1
        <5> QED  BY <5>1, <5>2
      <4>3. \A i \in 0 .. ((n + 1) - 1) : i \in 0 .. n
        OBVIOUS
      <4> HIDE DEF q
      <4> QED  BY <4>1, <4>2, <4>3
    <3> HIDE DEF q
    <3> QED  BY <3>2, <3>3
  <2> HIDE DEF T
  <2> QED  BY <2>1, <2>2, SetInduction
<1>2. ASSUME NEW n \in Nat, NEW p, Walk(p, n + 1)
      PROVE  Walk(p, n) /\ p[n + 1] = F[n][p[n]]
  <2>1. n \in 0 .. ((n + 1) - 1) /\ \A i \in 0 .. (n - 1) : i \in 0 .. ((n + 1) - 1)
    OBVIOUS
  <2> QED  BY <1>2, <2>1
<1>3. \A n \in Nat : n \in U
  <2>1. 0 \in U
    OBVIOUS
  <2>2. ASSUME NEW n \in Nat, n \in U PROVE n + 1 \in U
    <3> SUFFICES ASSUME NEW p \in [Nat -> A], NEW q \in [Nat -> A], Walk(p, n + 1), Walk(q, n + 1)
                 PROVE  p[n + 1] = q[n + 1]
      OBVIOUS
    <3>1. p[n] = q[n]
      <4> HIDE DEF Walk
      <4> QED  BY <1>2, <2>2
    <3> HIDE DEF Walk
    <3> QED  BY <1>2, <3>1
  <2> HIDE DEF U
  <2> QED  BY <2>1, <2>2, SetInduction
<1> DEFINE p(n) == CHOOSE p \in [Nat -> A] : Walk(p, n)
           W == [n \in Nat |-> p(n)[n]]
<1>4. \A n \in Nat : p(n) \in [Nat -> A] /\ Walk(p(n), n)
  <2> HIDE DEF Walk
  <2> QED  BY <1>1
<1>5. W \in [Nat -> A] /\ W[0] = a
  <2> HIDE DEF p
  <2> QED  BY <1>4
<1>6. ASSUME NEW n \in Nat PROVE W[n + 1] = F[n][W[n]]
  <2>1. p(n) \in [Nat -> A] /\ Walk(p(n), n)
    BY <1>4, Zenon
  <2>2. p(n + 1) \in [Nat -> A] /\ Walk(p(n + 1), n + 1)
    <3>1. n + 1 \in Nat
      OBVIOUS
    <3> QED  BY <1>4, <3>1, Zenon
  <2> HIDE DEF p, Walk
  <2>3. Walk(p(n + 1), n) /\ p(n + 1)[n + 1] = F[n][p(n + 1)[n]]
    BY <1>2, <2>2
  <2>4. p(n + 1)[n] = p(n)[n]
    BY <1>3, <2>1, <2>2, <2>3
  <2> QED  BY <2>3, <2>4
<1> HIDE DEF W
<1> QED  BY <1>5, <1>6 DEF Recurs

(* What a fold over the numbers of a set computes, from the least to the     *)
(* greatest: the same equation that the folds of the community modules are   *)
(* defined by.                                                             *)
Top(s) == CHOOSE x \in s : \A y \in s : x >= y

LEMMA TopOf ==
  ASSUME NEW n \in Nat, NEW s \in SUBSET (1 .. n), s # {}
  PROVE  Top(s) \in s /\ \A y \in s : Top(s) >= y
<1> DEFINE B == {m \in Nat : \A y \in s : m >= y}
<1>1. n \in B
  OBVIOUS
<1>2. PICK m \in B : \A k \in B : m <= k
  <2>1. B \in SUBSET Nat
    OBVIOUS
  <2> HIDE DEF B
  <2> QED  BY <1>1, <2>1, LeastExists
<1>3. m \in Nat /\ \A y \in s : m >= y
  OBVIOUS
<1>4. m \in s
  <2> SUFFICES ASSUME m \notin s PROVE FALSE
    OBVIOUS
  <2>1. PICK z \in s : TRUE
    OBVIOUS
  <2>2. z >= 1 /\ m >= z
    BY <1>3
  <2>3. m - 1 \in B
    <3>1. m - 1 \in Nat
      BY <1>3, <2>2
    <3>2. ASSUME NEW y \in s PROVE m - 1 >= y
      <4>1. m >= y /\ m # y /\ y \in Nat
        BY <1>3
      <4> QED  BY <1>3, <4>1
    <3> QED  BY <3>1, <3>2
  <2> QED  BY <1>2, <1>3, <2>3
<1>5. \E x \in s : \A y \in s : x >= y
  BY <1>3, <1>4
<1> QED  BY <1>5 DEF Top

LEMMA TopOfInterval ==
  ASSUME NEW n \in Nat, NEW k \in 1 .. n
  PROVE  /\ 1 .. k \in SUBSET (1 .. n) /\ 1 .. k # {} /\ Top(1 .. k) = k
         /\ (1 .. k) \ {k} = 1 .. (k - 1)
<1>1. k \in 1 .. k /\ 1 .. k \in SUBSET (1 .. n)
  OBVIOUS
<1>2. Top(1 .. k) \in 1 .. k /\ \A y \in 1 .. k : Top(1 .. k) >= y
  BY <1>1, TopOf
<1>3. Top(1 .. k) = k
  BY <1>1, <1>2
<1> QED  BY <1>1, <1>3

Folds(it, F, a, n) ==
  /\ it[{}] = a
  /\ \A s \in SUBSET (1 .. n) : s # {} => it[s] = F[Top(s)][it[s \ {Top(s)}]]

LEMMA FoldExists ==
  ASSUME NEW A, NEW a \in A, NEW n \in Nat, NEW F \in [1 .. n -> [A -> A]]
  PROVE  \E it \in [SUBSET (1 .. n) -> A] : Folds(it, F, a, n)
<1> DEFINE I == 1 .. n
           Follows(W, s) ==
             /\ W[0] = a
             /\ \A i \in Nat : W[i + 1] = IF i + 1 \in s THEN F[i + 1][W[i]] ELSE W[i]
           V(s) == CHOOSE W \in [Nat -> A] : Follows(W, s)
           it == [s \in SUBSET I |-> V(s)[n]]
<1>1. ASSUME NEW s \in SUBSET I PROVE V(s) \in [Nat -> A] /\ Follows(V(s), s)
  <2> DEFINE G == [i \in Nat |-> [x \in A |-> IF i + 1 \in s THEN F[i + 1][x] ELSE x]]
  <2>1. G \in [Nat -> [A -> A]]
    OBVIOUS
  <2>2. PICK W \in [Nat -> A] : Recurs(W, G, a)
    <3> HIDE DEF G, Follows, I
    <3> QED  BY <2>1, RecursionExists
  <2>3. Follows(W, s)
    BY <2>2 DEF Recurs
  <2> HIDE DEF Follows
  <2> QED  BY <2>3
<1> HIDE DEF V
<1>2. it \in [SUBSET I -> A]
  <2>1. n \in Nat
    OBVIOUS
  <2> HIDE DEF Follows, I
  <2> QED  BY <1>1, <2>1
<1>3. ASSUME NEW s \in SUBSET I, NEW t \in Nat, \A x \in s : x <= t
      PROVE  \A i \in Nat : i >= t => V(s)[i] = V(s)[t]
  <2> DEFINE T == {i \in Nat : i >= t => V(s)[i] = V(s)[t]}
  <2>1. 0 \in T
    OBVIOUS
  <2>2. ASSUME NEW i \in Nat, i \in T PROVE i + 1 \in T
    <3> SUFFICES ASSUME i + 1 >= t PROVE V(s)[i + 1] = V(s)[t]
      OBVIOUS
    <3>1. CASE i + 1 = t
      BY <3>1
    <3>2. CASE i + 1 # t
      <4>1. i >= t /\ i + 1 \notin s
        BY <1>3, <3>2
      <4> QED  BY <1>1, <2>2, <4>1
    <3> QED  BY <3>1, <3>2
  <2>3. \A i \in Nat : i \in T
    <3> HIDE DEF T
    <3> QED  BY <2>1, <2>2, SetInduction
  <2> QED  BY <2>3
<1>4. it[{}] = a
  <2>1. {} \in SUBSET I
    OBVIOUS
  <2>2. \A i \in Nat : i >= 0 => V({})[i] = V({})[0]
    BY <1>3, <2>1
  <2>3. V({})[0] = a
    BY <1>1, <2>1
  <2> QED  BY <2>1, <2>2, <2>3
<1>5. ASSUME NEW s \in SUBSET I, s # {} PROVE it[s] = F[Top(s)][it[s \ {Top(s)}]]
  <2> DEFINE t == Top(s)
             r == s \ {t}
  <2>1. t \in s /\ (\A y \in s : t >= y) /\ t \in I /\ t - 1 \in Nat /\ (t - 1) + 1 = t /\ t <= n
    <3>1. t \in s /\ \A y \in s : t >= y
      <4> HIDE DEF it
      <4> QED  BY <1>5, TopOf
    <3> HIDE DEF t
    <3> QED  BY <3>1
  <2>2. r \in SUBSET I /\ (\A x \in r : x <= t - 1) /\ t \notin r
    <3>1. \A x \in r : x \in I /\ x <= t /\ x # t
      BY <2>1
    <3> HIDE DEF t, r
    <3>2. \A x \in r : x <= t - 1
      BY <2>1, <3>1
    <3> USE DEF r
    <3> QED  BY <3>2
  <2> HIDE DEF t
  <2>3. V(s)[n] = V(s)[t] /\ V(r)[n] = V(r)[t - 1]
    <3>1. \A x \in s : x <= t
      BY <2>1
    <3>2. t \in Nat /\ t - 1 \in Nat /\ n >= t /\ n >= t - 1
      BY <2>1
    <3> HIDE DEF r, I
    <3> QED  BY <1>3, <2>2, <3>1, <3>2
  <2>4. \A i \in Nat : i < t => V(s)[i] = V(r)[i]
    <3> DEFINE T == {i \in Nat : i < t => V(s)[i] = V(r)[i]}
    <3>1. 0 \in T
      BY <1>1, <2>2
    <3>2. ASSUME NEW i \in Nat, i \in T PROVE i + 1 \in T
      <4> SUFFICES ASSUME i + 1 < t PROVE V(s)[i + 1] = V(r)[i + 1]
        OBVIOUS
      <4>1. i < t /\ i + 1 # t
        BY <2>1
      <4>2. i + 1 \in s <=> i + 1 \in r
        BY <4>1
      <4>3. /\ V(s)[i + 1] = IF i + 1 \in s THEN F[i + 1][V(s)[i]] ELSE V(s)[i]
            /\ V(r)[i + 1] = IF i + 1 \in r THEN F[i + 1][V(r)[i]] ELSE V(r)[i]
        BY <1>1, <2>2
      <4> QED  BY <3>2, <4>1, <4>2, <4>3
    <3>3. \A i \in Nat : i \in T
      <4> HIDE DEF T
      <4> QED  BY <3>1, <3>2, SetInduction
    <3> QED  BY <3>3
  <2>5. V(s)[t] = F[t][V(s)[t - 1]]
    <3>1. Follows(V(s), s)
      BY <1>1
    <3>2. V(s)[(t - 1) + 1] = F[(t - 1) + 1][V(s)[t - 1]]
      BY <2>1, <3>1
    <3> QED  BY <2>1, <3>2
  <2>6. V(s)[t - 1] = V(r)[t - 1]
    <3>1. t - 1 < t
      BY <2>1
    <3> QED  BY <2>1, <2>4, <3>1
  <2> QED  BY <2>2, <2>3, <2>5, <2>6 DEF t
<1> HIDE DEF it
<1> QED  BY <1>2, <1>4, <1>5 DEF Folds

(* The steps of F lead from a to e through A.                               *)
LeadsTo(A, F, a, n, e) ==
  \E W \in [0 .. n -> A] :
    W[0] = a /\ W[n] = e /\ \A k \in 1 .. n : W[k] = F[k][W[k - 1]]

(* What solves the equation of a fold takes the steps one after the other.  *)
LEMMA FoldWalks ==
  ASSUME NEW A, NEW a \in A, NEW n \in Nat, NEW F \in [1 .. n -> [A -> A]], NEW c, c[{}] = a,
         \A s \in SUBSET (1 .. n) :
           s # {} /\ c[s \ {Top(s)}] \in A => c[s] = F[Top(s)][c[s \ {Top(s)}]]
  PROVE  LeadsTo(A, F, a, n, c[1 .. n])
<1> DEFINE W == [k \in 0 .. n |-> c[1 .. k]]
           T == {k \in Nat : k <= n => W[k] \in A}
<1>1. W[0] = a
  <2>1. 0 \in 0 .. n /\ 1 .. 0 = {}
    OBVIOUS
  <2>2. W[0] = c[1 .. 0]
    BY <2>1
  <2> QED  BY <2>1, <2>2
<1>2. ASSUME NEW k \in 1 .. n, W[k - 1] \in A PROVE W[k] = F[k][W[k - 1]] /\ W[k] \in A
  <2>1. /\ 1 .. k \in SUBSET (1 .. n) /\ 1 .. k # {} /\ Top(1 .. k) = k
        /\ (1 .. k) \ {k} = 1 .. (k - 1)
    BY TopOfInterval
  <2>2. k - 1 \in 0 .. n /\ k \in 0 .. n
    OBVIOUS
  <2>3. W[k] = c[1 .. k] /\ W[k - 1] = c[1 .. (k - 1)]
    BY <2>2
  <2> HIDE DEF W
  <2>4. W[k] = F[k][W[k - 1]]
    <3> DEFINE s == 1 .. k
    <3>1. s \in SUBSET (1 .. n) /\ s # {} /\ c[s \ {Top(s)}] \in A
      BY <1>2, <2>1, <2>3
    <3>2. c[s] = F[Top(s)][c[s \ {Top(s)}]]
      <4> HIDE DEF s
      <4> QED  BY <3>1
    <3> QED  BY <2>1, <2>3, <3>2
  <2>5. F[k] \in [A -> A]
    OBVIOUS
  <2> QED  BY <1>2, <2>4, <2>5
<1>3. \A k \in Nat : k \in T
  <2> HIDE DEF W
  <2>1. 0 \in T
    BY <1>1
  <2>2. ASSUME NEW k \in Nat, k \in T PROVE k + 1 \in T
    <3> SUFFICES ASSUME k + 1 <= n PROVE W[k + 1] \in A
      OBVIOUS
    <3>1. k + 1 \in 1 .. n /\ (k + 1) - 1 = k /\ k <= n
      OBVIOUS
    <3> QED  BY <1>2, <2>2, <3>1
  <2> HIDE DEF T
  <2> QED  BY <2>1, <2>2, SetInduction
<1>4. \A k \in 0 .. n : W[k] \in A
  <2> HIDE DEF W
  <2> TAKE k \in 0 .. n
  <2>1. k \in Nat /\ k <= n
    OBVIOUS
  <2> QED  BY <1>3, <2>1
<1>5. W = [k \in 0 .. n |-> W[k]] /\ W[n] = c[1 .. n]
  OBVIOUS
<1> HIDE DEF W
<1>6. \A k \in 1 .. n : W[k] = F[k][W[k - 1]]
  <2> TAKE k \in 1 .. n
  <2>1. k - 1 \in 0 .. n
    OBVIOUS
  <2> QED  BY <1>2, <1>4, <2>1
<1>7. W \in [0 .. n -> A]
  BY <1>4, <1>5
<1> QED  BY <1>1, <1>5, <1>6, <1>7 DEF LeadsTo

(* What is reached from a by n steps of next, or fewer.                     *)
Spreads(W, next, a) ==
  /\ W[0] = {a}
  /\ \A n \in Nat : W[n + 1] = W[n] \cup UNION {next[j] : j \in W[n]}

(* There is such a set for every n: the ends of the walks of n steps.       *)
LEMMA SpreadExists ==
  ASSUME NEW S, NEW next \in [S -> SUBSET S], NEW a \in S
  PROVE  \E W \in [Nat -> SUBSET S] : Spreads(W, next, a)
<1> DEFINE Walk(p, n) == p[0] = a /\ \A i \in 0 .. (n - 1) : p[i + 1] = p[i] \/ p[i + 1] \in next[p[i]]
           W == [n \in Nat |-> {j \in S : \E p \in [Nat -> S] : Walk(p, n) /\ p[n] = j}]
<1>1. W \in [Nat -> SUBSET S]
  OBVIOUS
<1>2. W[0] = {a}
  <2>1. [i \in Nat |-> a] \in [Nat -> S] /\ Walk([i \in Nat |-> a], 0)
    OBVIOUS
  <2> QED  BY <2>1
<1>3. ASSUME NEW n \in Nat PROVE W[n + 1] = W[n] \cup UNION {next[j] : j \in W[n]}
  <2>1. ASSUME NEW j \in W[n + 1] PROVE j \in W[n] \cup UNION {next[k] : k \in W[n]}
    <3>1. PICK p \in [Nat -> S] : Walk(p, n + 1) /\ p[n + 1] = j
      OBVIOUS
    <3>2. Walk(p, n) /\ p[n] \in S /\ (p[n + 1] = p[n] \/ p[n + 1] \in next[p[n]])
      BY <3>1
    <3>3. p[n] \in W[n]
      BY <3>2
    <3> QED  BY <3>1, <3>2, <3>3
  <2>2. ASSUME NEW k \in W[n], NEW j \in S, j = k \/ j \in next[k] PROVE j \in W[n + 1]
    <3>1. PICK p \in [Nat -> S] : Walk(p, n) /\ p[n] = k
      OBVIOUS
    <3> DEFINE q == [i \in Nat |-> IF i <= n THEN p[i] ELSE j]
    <3>2. q \in [Nat -> S] /\ q[n + 1] = j
      OBVIOUS
    <3>3. Walk(q, n + 1)
      <4>1. q[0] = a
        BY <3>1
      <4>2. ASSUME NEW i \in 0 .. n PROVE q[i + 1] = q[i] \/ q[i + 1] \in next[q[i]]
        <5>1. CASE i = n
          BY <2>2, <3>1, <5>1
        <5>2. CASE i # n
          <6>1. i \in 0 .. (n - 1) /\ q[i] = p[i] /\ q[i + 1] = p[i + 1]
            BY <5>2
          <6> QED  BY <3>1, <6>1
        <5> QED  BY <5>1, <5>2
      <4>3. \A i \in 0 .. ((n + 1) - 1) : i \in 0 .. n
        OBVIOUS
      <4> HIDE DEF q
      <4> QED  BY <4>1, <4>2, <4>3
    <3> HIDE DEF q
    <3> QED  BY <3>2, <3>3
  <2>3. \A k \in W[n] : k \in S /\ next[k] \subseteq S
    OBVIOUS
  <2> HIDE DEF W
  <2> QED  BY <2>1, <2>2, <2>3
<1> HIDE DEF W
<1> QED  BY <1>1, <1>2, <1>3 DEF Spreads

(* After as many steps as there are members, nothing new is reached.        *)
LEMMA SpreadCloses ==
  ASSUME NEW S, IsFiniteSet(S), NEW next \in [S -> SUBSET S], NEW a \in S,
         NEW W \in [Nat -> SUBSET S], Spreads(W, next, a),
         NEW R, R = W[Cardinality(S)]
  PROVE  /\ R \subseteq S /\ a \in R
         /\ \A j \in R : next[j] \subseteq R
         /\ \A T : a \in T /\ (\A j \in T \cap S : next[j] \subseteq T) => R \subseteq T
<1> DEFINE Shut(n) == \A j \in W[n] : next[j] \subseteq W[n]
<1>1. Cardinality(S) \in Nat
  BY FS_CardinalityType
<1>2. \A n \in Nat : a \in W[n]
  <2> DEFINE T == {n \in Nat : a \in W[n]}
  <2>1. 0 \in T
    BY DEF Spreads
  <2>2. \A n \in Nat : n \in T => n + 1 \in T
    BY DEF Spreads
  <2>3. \A n \in Nat : n \in T
    <3> HIDE DEF T
    <3> QED  BY <2>1, <2>2, SetInduction
  <2> QED  BY <2>3
<1>3. \A n \in Nat : IsFiniteSet(W[n]) /\ Cardinality(W[n]) \in Nat /\ Cardinality(W[n]) <= Cardinality(S)
  BY FS_Subset, FS_CardinalityType
<1>4. \A n \in Nat : Shut(n) \/ Cardinality(W[n]) >= n + 1
  <2> DEFINE T == {n \in Nat : Shut(n) \/ Cardinality(W[n]) >= n + 1}
  <2>1. 0 \in T
    <3>1. Cardinality(W[0]) = 1
      BY FS_Singleton DEF Spreads
    <3> QED  BY <3>1
  <2>2. ASSUME NEW n \in Nat, n \in T PROVE n + 1 \in T
    <3>1. W[n + 1] = W[n] \cup UNION {next[j] : j \in W[n]}
      BY DEF Spreads
    <3>2. CASE Shut(n)
      <4>1. W[n + 1] = W[n]
        BY <3>1, <3>2
      <4> QED  BY <3>2, <4>1
    <3>3. CASE ~Shut(n)
      <4>1. W[n] \subseteq W[n + 1] /\ W[n] # W[n + 1]
        BY <3>1, <3>3
      <4>2. Cardinality(W[n]) <= Cardinality(W[n + 1]) /\ Cardinality(W[n]) # Cardinality(W[n + 1])
        BY <1>3, <4>1, FS_Subset
      <4>3. Cardinality(W[n]) >= n + 1
        BY <2>2, <3>3
      <4>4. Cardinality(W[n + 1]) >= (n + 1) + 1
        <5>1. \A k, l \in Nat : k <= l /\ k # l /\ k >= n + 1 => l >= (n + 1) + 1
          OBVIOUS
        <5>2. n + 1 \in Nat
          OBVIOUS
        <5> QED  BY <1>3, <4>2, <4>3, <5>1, <5>2
      <4> QED  BY <4>4
    <3> QED  BY <3>2, <3>3
  <2>3. \A n \in Nat : n \in T
    <3> HIDE DEF T
    <3> QED  BY <2>1, <2>2, SetInduction
  <2> QED  BY <2>3
<1>5. Shut(Cardinality(S))
  <2>1. Cardinality(W[Cardinality(S)]) <= Cardinality(S) /\ Cardinality(W[Cardinality(S)]) \in Nat
    BY <1>1, <1>3
  <2>2. \A k, n \in Nat : k <= n => ~(k >= n + 1)
    OBVIOUS
  <2> QED  BY <1>1, <1>4, <2>1, <2>2
<1>6. ASSUME NEW T, a \in T, \A j \in T \cap S : next[j] \subseteq T PROVE R \subseteq T
  <2> DEFINE K == {n \in Nat : W[n] \subseteq T}
  <2>1. 0 \in K
    BY <1>6 DEF Spreads
  <2>2. \A n \in Nat : n \in K => n + 1 \in K
    BY <1>6 DEF Spreads
  <2>3. \A n \in Nat : n \in K
    <3> HIDE DEF K
    <3> QED  BY <2>1, <2>2, SetInduction
  <2> QED  BY <1>1, <2>3
<1> QED  BY <1>1, <1>2, <1>5, <1>6

=============================================================================
