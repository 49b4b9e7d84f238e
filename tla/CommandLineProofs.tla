-------------------------- MODULE CommandLineProofs -------------------------
(***************************************************************************)
(* Proofs about the command line: its paths, selectors and rule selection,  *)
(* and the reports it makes.                                               *)
(***************************************************************************)
EXTENDS CommandLine, SequenceTheorems, Counting

-----------------------------------------------------------------------------
(* What a name path denotes.                                               *)

Suffix(path, i) == SubSeq(path, i, Len(path))

(* What a path denotes that is not promoted by its first name.              *)
Plain(environment, rest) ==
  IF rest # <<>> /\ IsRealm(environment, rest[1]) THEN <<Realm>> \o Tail(rest) ELSE rest

(* j is where the first suffix starts that is not promoted.                 *)
FirstPlain(environment, path, j) ==
  /\ ~IsPromotedPath(environment, Suffix(path, j))
  /\ \A k \in 1 .. (j - 1) : IsPromotedPath(environment, Suffix(path, k))

LEMMA LastSuffix ==
  ASSUME NEW S, NEW path \in Seq(S), NEW environment
  PROVE  ~IsPromotedPath(environment, Suffix(path, Len(path) + 1))
<1>1. Suffix(path, Len(path) + 1) = <<>>
  BY SubSeqEmpty DEF Suffix
<1>2. Len(<<>>) = 0
  OBVIOUS
<1> QED  BY <1>1, <1>2 DEF IsPromotedPath

LEMMA FirstPlainExists ==
  ASSUME NEW S, NEW path \in Seq(S), NEW environment, NEW i \in 1 .. (Len(path) + 1)
  PROVE  \E j \in i .. (Len(path) + 1) :
           /\ ~IsPromotedPath(environment, Suffix(path, j))
           /\ \A k \in i .. (j - 1) : IsPromotedPath(environment, Suffix(path, k))
<1> DEFINE J == {j \in i .. (Len(path) + 1) : ~IsPromotedPath(environment, Suffix(path, j))}
<1>1. Len(path) + 1 \in J
  BY LastSuffix
<1>2. J \in SUBSET Nat
  OBVIOUS
<1>3. PICK j \in J : \A k \in J : j <= k
  <2> HIDE DEF J
  <2> QED  BY <1>1, <1>2, LeastExists
<1>4. j \in i .. (Len(path) + 1) /\ ~IsPromotedPath(environment, Suffix(path, j))
  OBVIOUS
<1>5. ASSUME NEW k \in i .. (j - 1) PROVE IsPromotedPath(environment, Suffix(path, k))
  <2>1. k \in i .. (Len(path) + 1) /\ k < j
    BY <1>4
  <2> QED  BY <1>3, <2>1
<1> QED  BY <1>4, <1>5

(* The recursion passes over every promoting name.                          *)
LEMMA DenotesFirstPlain ==
  ASSUME NEW S, NEW path \in Seq(S), NEW environment, NEW j \in 1 .. (Len(path) + 1),
         FirstPlain(environment, path, j)
  PROVE  Denotes(environment, path) = Plain(environment, Suffix(path, j))
<1> DEFINE I == 1 .. (Len(path) + 1)
           P(i) == IsPromotedPath(environment, Suffix(path, i))
           V(i) == Plain(environment, Suffix(path, i))
           First(i) == CHOOSE l \in i .. (Len(path) + 1) : ~P(l) /\ \A k \in i .. (l - 1) : P(k)
           Solves(d) == d = [i \in I |-> IF P(i) THEN d[i + 1] ELSE V(i)]
           d0 == [i \in I |-> V(First(i))]
<1>1. \A i \in I : /\ First(i) \in i .. (Len(path) + 1)
                   /\ ~P(First(i)) /\ \A k \in i .. (First(i) - 1) : P(k)
  BY FirstPlainExists
<1>2. ASSUME NEW i \in I PROVE d0[i] = IF P(i) THEN d0[i + 1] ELSE V(i)
  <2>1. CASE ~P(i)
    <3> DEFINE a == First(i)
    <3>1. a \in i .. (Len(path) + 1) /\ \A k \in i .. (a - 1) : P(k)
      BY <1>1
    <3> HIDE DEF a, P, V
    <3>2. a = i
      <4>1. ~(a > i)
        BY <2>1, <3>1
      <4> QED  BY <3>1, <4>1
    <3> USE DEF a
    <3> QED  BY <2>1, <3>2
  <2>2. CASE P(i)
    <3>1. i # Len(path) + 1
      BY <2>2, LastSuffix
    <3>2. i + 1 \in I
      BY <3>1
    <3>3. First(i) # i
      BY <1>1, <2>2
    <3>4. First(i) = First(i + 1)
      <4> DEFINE a == First(i)
                 b == First(i + 1)
      <4>1. a \in (i + 1) .. (Len(path) + 1) /\ ~P(a) /\ \A k \in i .. (a - 1) : P(k)
        <5>1. a \in i .. (Len(path) + 1) /\ ~P(a) /\ (\A k \in i .. (a - 1) : P(k)) /\ a # i
          BY <1>1, <3>3
        <5> HIDE DEF a, P
        <5> QED  BY <5>1
      <4>2. b \in (i + 1) .. (Len(path) + 1) /\ ~P(b) /\ \A k \in (i + 1) .. (b - 1) : P(k)
        BY <1>1, <3>2
      <4> HIDE DEF a, b, P
      <4>3. ~(a < b) /\ ~(b < a)
        BY <4>1, <4>2
      <4>4. a = b
        BY <4>1, <4>2, <4>3
      <4> USE DEF a, b, P
      <4> QED  BY <4>4
    <3> HIDE DEF First, P, V
    <3> QED  BY <2>2, <3>2, <3>4
  <2> QED  BY <2>1, <2>2
<1>3. Solves(d0)
  <2> HIDE DEF First, P, V
  <2> QED  BY <1>2
<1> DEFINE dd == CHOOSE d : Solves(d)
<1>4. Denotes(environment, path) = dd[1]
  BY DEF Denotes, Plain, Suffix
<1>5. Solves(dd)
  <2> HIDE DEF Solves, d0
  <2> QED  BY <1>3
<1> HIDE DEF dd
<1>6. \A i \in I : dd[i] = IF P(i) THEN dd[i + 1] ELSE V(i)
  <2> HIDE DEF P, V
  <2> QED  BY <1>5
<1>7. \A k \in 1 .. (j - 1) : P(k)
  BY DEF FirstPlain
<1>8. \A n \in Nat : n < j => dd[1] = dd[n + 1]
  <2> DEFINE T == {n \in Nat : n < j => dd[1] = dd[n + 1]}
  <2>1. 0 \in T
    OBVIOUS
  <2>2. ASSUME NEW n \in Nat, n \in T PROVE n + 1 \in T
    <3> SUFFICES ASSUME n + 1 < j PROVE dd[1] = dd[(n + 1) + 1]
      OBVIOUS
    <3>1. n + 1 \in 1 .. (j - 1) /\ n + 1 \in I
      OBVIOUS
    <3> HIDE DEF P, V, I
    <3> QED  BY <1>6, <1>7, <2>2, <3>1
  <2>3. \A n \in Nat : n \in T
    <3> HIDE DEF T
    <3> QED  BY <2>1, <2>2, SetInduction
  <2> QED  BY <2>3
<1>9. dd[1] = dd[j]
  <2>1. j - 1 \in Nat /\ j - 1 < j /\ (j - 1) + 1 = j
    OBVIOUS
  <2> QED  BY <1>8, <2>1
<1>10. ~P(j) /\ j \in I
  BY DEF FirstPlain
<1> QED  BY <1>4, <1>6, <1>9, <1>10

(* The first name of a path says nothing when it promotes the second.       *)
LEMMA DenotesUnfolds ==
  ASSUME NEW S, NEW path \in Seq(S), NEW environment
  PROVE  Denotes(environment, path) =
           IF IsPromotedPath(environment, path) THEN Denotes(environment, Tail(path))
           ELSE Plain(environment, path)
<1> DEFINE n == Len(path)
<1>1. n \in Nat /\ 1 \in 1 .. (n + 1)
  OBVIOUS
<1>2. Suffix(path, 1) = path
  BY SubSeqFull DEF Suffix
<1>3. CASE ~IsPromotedPath(environment, path)
  <2>1. FirstPlain(environment, path, 1)
    BY <1>2, <1>3 DEF FirstPlain
  <2> QED  BY <1>1, <1>2, <1>3, <2>1, DenotesFirstPlain
<1>4. CASE IsPromotedPath(environment, path)
  <2>1. n >= 2 /\ path # <<>>
    BY <1>4 DEF IsPromotedPath
  <2>2. Tail(path) \in Seq(S) /\ Len(Tail(path)) = n - 1
    BY <2>1, HeadTailProperties
  <2>3. PICK j \in 1 .. (Len(Tail(path)) + 1) : FirstPlain(environment, Tail(path), j)
    <3>1. 1 \in 1 .. (Len(Tail(path)) + 1)
      BY <2>1, <2>2
    <3> QED  BY <2>2, <3>1, FirstPlainExists DEF FirstPlain
  <2>4. ASSUME NEW i \in 1 .. n PROVE Suffix(Tail(path), i) = Suffix(path, i + 1)
    <3>1. DOMAIN path = 1 .. n /\ DOMAIN Tail(path) = 1 .. (n - 1)
      BY <2>2
    <3>2. \A k \in 1 .. (n - 1) : Tail(path)[k] = path[k + 1]
      BY <2>1, <2>2, HeadTailProperties
    <3>3. /\ SubSeq(Tail(path), i, n - 1) \in Seq(S) /\ SubSeq(path, i + 1, n) \in Seq(S)
          /\ Len(SubSeq(Tail(path), i, n - 1)) = Len(SubSeq(path, i + 1, n))
          /\ \A k \in 1 .. (n - i) : SubSeq(Tail(path), i, n - 1)[k] = Tail(path)[i + k - 1]
          /\ \A k \in 1 .. (n - i) : SubSeq(path, i + 1, n)[k] = path[(i + 1) + k - 1]
          /\ Len(SubSeq(path, i + 1, n)) = n - i
      <4>1. \A k \in i .. (n - 1) : Tail(path)[k] \in S
        BY <2>2
      <4>2. \A k \in (i + 1) .. n : path[k] \in S
        OBVIOUS
      <4>3. /\ i \in Int /\ n \in Int /\ n - 1 \in Int /\ i + 1 \in Int
            /\ (n - 1) - i + 1 = n - i /\ n - (i + 1) + 1 = n - i /\ n - i >= 0
            /\ (i <= n - 1 <=> i + 1 <= n) /\ (~(i <= n - 1) => n - i = 0)
        OBVIOUS
      <4> HIDE DEF n
      <4>4. /\ SubSeq(Tail(path), i, n - 1) \in Seq(S)
            /\ Len(SubSeq(Tail(path), i, n - 1)) = n - i
            /\ \A k \in 1 .. (n - i) : SubSeq(Tail(path), i, n - 1)[k] = Tail(path)[i + k - 1]
        <5>1. i <= n - 1 => Len(SubSeq(Tail(path), i, n - 1)) = n - i
          BY <4>1, <4>3, SubSeqProperties
        <5>2. ~(i <= n - 1) => Len(SubSeq(Tail(path), i, n - 1)) = n - i
          BY <4>1, <4>3, SubSeqProperties
        <5>3. SubSeq(Tail(path), i, n - 1) \in Seq(S)
          BY <4>1, <4>3, SubSeqProperties
        <5>4. \A k \in 1 .. ((n - 1) - i + 1) : SubSeq(Tail(path), i, n - 1)[k] = Tail(path)[i + k - 1]
          <6> DEFINE e == n - 1
                     t == Tail(path)
          <6>1. e \in Int /\ i \in Int /\ \A k \in i .. e : t[k] \in S
            BY <4>1, <4>3
          <6> HIDE DEF e, t
          <6>2. \A k \in 1 .. (e - i + 1) : SubSeq(t, i, e)[k] = t[i + k - 1]
            BY <6>1, SubSeqProperties
          <6> USE DEF e, t
          <6> QED  BY <6>2
        <5> QED  BY <4>3, <5>1, <5>2, <5>3, <5>4
      <4>5. /\ SubSeq(path, i + 1, n) \in Seq(S)
            /\ Len(SubSeq(path, i + 1, n)) = n - i
            /\ \A k \in 1 .. (n - i) : SubSeq(path, i + 1, n)[k] = path[(i + 1) + k - 1]
        BY <4>2, <4>3, SubSeqProperties
      <4> QED  BY <4>4, <4>5
    <3>4. ASSUME NEW k \in 1 .. (n - i)
          PROVE  SubSeq(Tail(path), i, n - 1)[k] = SubSeq(path, i + 1, n)[k]
      <4>1. i + k - 1 \in 1 .. (n - 1) /\ (i + k - 1) + 1 = (i + 1) + k - 1
        BY <1>1
      <4> HIDE DEF n
      <4> QED  BY <3>2, <3>3, <4>1
    <3> HIDE DEF n
    <3>5. SubSeq(Tail(path), i, n - 1) = SubSeq(path, i + 1, n)
      BY <3>3, <3>4, SeqEqual
    <3> USE DEF n
    <3> QED  BY <2>2, <3>5 DEF Suffix
  <2>5. j + 1 \in 1 .. (n + 1) /\ j \in 1 .. n
    BY <2>2
  <2>6. FirstPlain(environment, path, j + 1)
    <3>1. ~IsPromotedPath(environment, Suffix(path, j + 1))
      BY <2>3, <2>4, <2>5 DEF FirstPlain
    <3>2. ASSUME NEW k \in 1 .. ((j + 1) - 1) PROVE IsPromotedPath(environment, Suffix(path, k))
      <4>1. CASE k = 1
        BY <1>2, <1>4, <4>1
      <4>2. CASE k # 1
        <5>1. k - 1 \in 1 .. (j - 1) /\ k - 1 \in 1 .. n /\ (k - 1) + 1 = k
          BY <4>2, <2>5
        <5> QED  BY <2>3, <2>4, <5>1 DEF FirstPlain
      <4> QED  BY <4>1, <4>2
    <3> QED  BY <3>1, <3>2 DEF FirstPlain
  <2>7. Denotes(environment, path) = Plain(environment, Suffix(path, j + 1))
    BY <2>5, <2>6, DenotesFirstPlain
  <2>8. Denotes(environment, Tail(path)) = Plain(environment, Suffix(Tail(path), j))
    BY <2>2, <2>3, DenotesFirstPlain
  <2> QED  BY <1>4, <2>4, <2>5, <2>7, <2>8
<1> QED  BY <1>3, <1>4

(* Two paths that match denote the same, whichever is asked about first.    *)
LEMMA MatchingPaths ==
  ASSUME NEW S, NEW left \in Seq(S), NEW right \in Seq(S), NEW environment,
         PathsMatch(environment, left, right)
  PROVE  /\ PathsMatch(environment, right, left)
         /\ Denotes(environment, left) = Denotes(environment, right)
<1> DEFINE Alias(a, b) == a # <<>> /\ b # <<>> /\ AliasesMatch(environment, Head(a), Head(b))
<1>1. Alias(left, right) <=> Alias(right, left)
  BY DEF AliasesMatch
<1>2. PathsMatch(environment, right, left)
  BY <1>1 DEF PathsMatch
<1>3. CASE left = right
  BY <1>3
<1>4. CASE left # right /\ Alias(left, right)
  <2>1. Tail(left) = Tail(right)
    BY <1>4 DEF PathsMatch
  <2>2. /\ Len(Tail(left)) = Len(left) - 1 /\ Len(Tail(right)) = Len(right) - 1
        /\ \A i \in 1 .. Len(Tail(left)) : Tail(left)[i] = left[i + 1]
        /\ \A i \in 1 .. Len(Tail(right)) : Tail(right)[i] = right[i + 1]
    BY <1>4, HeadTailProperties
  <2>3. Len(left) = Len(right) /\ Len(left) \in Nat
    <3>1. Len(left) \in Nat /\ Len(right) \in Nat
      OBVIOUS
    <3>2. Len(left) - 1 = Len(right) - 1
      BY <2>1, <2>2, Zenon
    <3> QED  BY <3>1, <3>2
  <2>4. \A i \in 2 .. Len(left) : left[i] = right[i]
    <3> TAKE i \in 2 .. Len(left)
    <3>1. i - 1 \in 1 .. Len(Tail(left)) /\ (i - 1) + 1 = i
      BY <2>2, <2>3
    <3> QED  BY <2>1, <2>2, <3>1
  <2>5. left[1] # right[1]
    <3> SUFFICES ASSUME left[1] = right[1] PROVE FALSE
      OBVIOUS
    <3>1. \A i \in 1 .. Len(left) : left[i] = right[i]
      <4> TAKE i \in 1 .. Len(left)
      <4>1. i = 1 \/ i \in 2 .. Len(left)
        BY <2>3
      <4> QED  BY <2>4, <4>1
    <3> QED  BY <1>4, <2>3, <3>1, SeqEqual
  <2>6. IsRealm(environment, left[1]) /\ IsRealm(environment, right[1])
    BY <1>4, <2>5 DEF AliasesMatch
  <2>7. IsPromotedPath(environment, left) <=> IsPromotedPath(environment, right)
    <3>1. Len(left) >= 2 => left[2] = right[2]
      BY <2>3, <2>4
    <3> QED  BY <2>3, <2>6, <3>1 DEF IsPromotedPath, IsGlobalMember, IsRealm
  <2>8. Plain(environment, left) = Plain(environment, right)
    BY <1>4, <2>1, <2>6 DEF Plain
  <2> QED  BY <1>2, <2>1, <2>7, <2>8, DenotesUnfolds
<1>5. CASE left # right /\ ~Alias(left, right)
  <2>1. \/ IsPromotedPath(environment, left) /\ Tail(left) = right
        \/ IsPromotedPath(environment, right) /\ Tail(right) = left
    BY <1>5 DEF PathsMatch
  <2> QED  BY <1>2, <2>1, DenotesUnfolds
<1> QED  BY <1>3, <1>4, <1>5

(* Paths up to any length that match denote the same thing: MatchingPaths    *)
(* says it of any two paths in whatever environment, so that no step has to   *)
(* be looked at (environment.rs: global_object_name_paths_match).            *)
THEOREM PathMatchIsAlwaysSound == Spec => []PathMatchIsSound
<1>1. PathMatchIsSound
  <2> SUFFICES ASSUME NEW n \in 1 .. MaxPathLength, NEW m \in 1 .. MaxPathLength,
                      NEW left \in [1 .. n -> PathNames], NEW right \in [1 .. m -> PathNames],
                      PathsMatch(env, left, right)
               PROVE  /\ PathsMatch(env, right, left)
                      /\ Denotes(env, left) = Denotes(env, right)
    BY DEF PathMatchIsSound
  <2>1. left \in Seq(PathNames) /\ right \in Seq(PathNames)
    <3>1. n \in Nat /\ m \in Nat
      BY PathLengthAssumption
    <3> QED  BY <3>1, SeqDef
  <2> QED  BY <2>1, MatchingPaths
<1> QED  BY <1>1, PTL

-----------------------------------------------------------------------------
(* Reports.                                                                *)

(* Ranges, and reports of files, in the order of a relation are all there.  *)
LEMMA SortedByPathEnumerates ==
  ASSUME NEW reports, IsFiniteSet(ToSet(reports)),
         \A f \in ToSet(reports) : f.path \in Int,
         \A f, g \in ToSet(reports) : f.path = g.path => f = g
  PROVE  LET c == Cardinality(ToSet(reports))
             sorted == SortedByPath(reports)
         IN  /\ c \in Nat /\ sorted \in [1 .. c -> ToSet(reports)] /\ ToSet(sorted) = ToSet(reports)
             /\ \A m, n \in 1 .. c : m < n => sorted[m].path < sorted[n].path
<1> DEFINE S == ToSet(reports)
           c == Cardinality(S)
           R == {x \in S \X S : x[1].path < x[2].path}
           sorted == SortedByPath(reports)
<1>1. \A a, b \in S : <<a, b>> \in R <=> a.path < b.path
  OBVIOUS
<1>2. StrictOrder(R, S)
  <2> HIDE DEF R, S
  <2>1. \A f \in S : f.path \in Int
    BY DEF S
  <2>2. \A f, g \in S : f.path = g.path => f = g
    BY DEF S
  <2>3. \A p \in S : <<p, p>> \notin R
    BY <1>1, <2>1
  <2>4. \A p, q, r \in S : <<p, q>> \in R /\ <<q, r>> \in R => <<p, r>> \in R
    BY <1>1, <2>1
  <2>5. \A p, q \in S : p # q => <<p, q>> \in R \/ <<q, p>> \in R
    BY <1>1, <2>1, <2>2
  <2> QED  BY <2>3, <2>4, <2>5 DEF StrictOrder
<1>3. sorted = Ranked(S, R)
  <2>1. \A x \in S : {y \in S : y.path < x.path} = {y \in S : <<y, x>> \in R}
    BY <1>1
  <2>2. ASSUME NEW n \in 1 .. c
        PROVE  (CHOOSE x \in S : Cardinality({y \in S : y.path < x.path}) = n - 1)
                 = (CHOOSE x \in S : RankIn(S, R, x) = n - 1)
    <3>1. \A x \in S : Cardinality({y \in S : y.path < x.path}) = n - 1 <=> RankIn(S, R, x) = n - 1
      <4> HIDE DEF S, R
      <4> QED  BY <2>1 DEF RankIn
    <3> HIDE DEF S, R
    <3> QED  BY <3>1
  <2>3. sorted = [n \in 1 .. c |-> CHOOSE x \in S : Cardinality({y \in S : y.path < x.path}) = n - 1]
    BY DEF SortedByPath, Sorted
  <2>4. Ranked(S, R) = [n \in 1 .. c |-> CHOOSE x \in S : RankIn(S, R, x) = n - 1]
    BY DEF Ranked
  <2> HIDE DEF S, R, sorted, c
  <2> QED  BY <2>2, <2>3, <2>4
<1>4. /\ c \in Nat /\ sorted \in [1 .. c -> S]
      /\ \A x \in S : \E n \in 1 .. c : sorted[n] = x
      /\ \A m, n \in 1 .. c : m < n => <<sorted[m], sorted[n]>> \in R
  <2> HIDE DEF R, sorted
  <2> QED  BY <1>2, <1>3, RankedEnumerates
<1>5. ToSet(sorted) = S
  <2> HIDE DEF S, sorted, c
  <2> QED  BY <1>4 DEF ToSet
<1>6. \A m, n \in 1 .. c : m < n => sorted[m].path < sorted[n].path
  <2> HIDE DEF S, R, sorted, c
  <2> QED  BY <1>1, <1>4
<1> QED  BY <1>4, <1>5, <1>6

(* A single step of a fold, and none.                                       *)
LEMMA CombineTwo ==
  ASSUME NEW a, NEW b
  PROVE  CombineReports(<<a, b>>) =
           LET all == CombineStep(<<"Ok", a>>, b)
           IN  IF all[1] = "Ok" THEN <<"Ok", [all[2] EXCEPT !.files = SortedByPath(@)]>> ELSE all
<1> DEFINE seq == <<b>>
           base == <<"Ok", a>>
           Solves(it) == it = [s \in SUBSET DOMAIN seq |->
                                 IF s = {} THEN base
                                 ELSE CombineStep(it[s \ {Max(s)}], seq[Max(s)])]
           it0 == [s \in SUBSET DOMAIN seq |-> IF s = {} THEN base ELSE CombineStep(base, b)]
           chosen == CHOOSE it : Solves(it)
<1>1. DOMAIN seq = {1} /\ seq[1] = b
  OBVIOUS
<1>2. \A s \in SUBSET DOMAIN seq : s # {} => s = {1} /\ Max(s) = 1 /\ s \ {Max(s)} = {}
  <2>1. Max({1}) = 1
    BY DEF Max
  <2> QED  BY <1>1, <2>1
<1>3. Solves(it0)
  <2> HIDE DEF seq, base
  <2> QED  BY <1>1, <1>2
<1>4. Solves(chosen)
  <2> HIDE DEF Solves, it0
  <2> QED  BY <1>3
<1>5. FoldLeft(CombineStep, base, seq) = chosen[DOMAIN seq]
  BY DEF FoldLeft, MapThenFoldSet
<1>6. chosen[DOMAIN seq] = CombineStep(base, b)
  <2> HIDE DEF chosen, seq, base
  <2>1. {} \in SUBSET DOMAIN seq /\ DOMAIN seq \in SUBSET DOMAIN seq /\ DOMAIN seq # {}
    BY <1>1
  <2>2. chosen[{}] = base
    BY <1>4, <2>1
  <2> QED  BY <1>1, <1>2, <1>4, <2>1, <2>2
<1>7. <<a, b>> # <<>> /\ Head(<<a, b>>) = a /\ Tail(<<a, b>>) = <<b>>
  OBVIOUS
<1> HIDE DEF chosen
<1> QED  BY <1>5, <1>6, <1>7 DEF CombineReports

LEMMA ConcatenatedFiles ==
  ASSUME NEW s, s \in Seq(ToSet(s)), NEW t, t \in Seq(ToSet(t))
  PROVE  /\ ToSet(s \o t) = ToSet(s) \cup ToSet(t)
         /\ SortedByPath(s \o t) = SortedByPath(t \o s)
         /\ IsFiniteSet(ToSet(s \o t))
<1> DEFINE T == ToSet(s) \cup ToSet(t)
           By(S) == Sorted(S, LAMBDA a, b : a.path < b.path)
<1>1. s \in Seq(T) /\ t \in Seq(T)
  BY SeqMonotonic
<1>2. ASSUME NEW x \in Seq(T), NEW y \in Seq(T) PROVE ToSet(x \o y) = ToSet(x) \cup ToSet(y)
  <2> HIDE DEF T
  <2>1. /\ x \o y \in Seq(T) /\ Len(x \o y) = Len(x) + Len(y)
        /\ \A i \in 1 .. Len(x) + Len(y) : (x \o y)[i] = IF i <= Len(x) THEN x[i] ELSE y[i - Len(x)]
    BY ConcatProperties
  <2>2. /\ DOMAIN x = 1 .. Len(x) /\ DOMAIN y = 1 .. Len(y) /\ DOMAIN (x \o y) = 1 .. (Len(x) + Len(y))
        /\ Len(x) \in Nat /\ Len(y) \in Nat
    BY <2>1
  <2>3. ASSUME NEW i \in DOMAIN x PROVE i \in DOMAIN (x \o y) /\ (x \o y)[i] = x[i]
    BY <2>1, <2>2
  <2>4. ASSUME NEW i \in DOMAIN y
        PROVE  i + Len(x) \in DOMAIN (x \o y) /\ (x \o y)[i + Len(x)] = y[i]
    <3>1. i + Len(x) \in 1 .. Len(x) + Len(y) /\ ~(i + Len(x) <= Len(x)) /\ (i + Len(x)) - Len(x) = i
      BY <2>2
    <3> QED  BY <2>1, <2>2, <3>1
  <2>5. ASSUME NEW i \in DOMAIN (x \o y)
        PROVE  \/ i \in DOMAIN x /\ (x \o y)[i] = x[i]
               \/ i - Len(x) \in DOMAIN y /\ (x \o y)[i] = y[i - Len(x)]
    <3>1. i \in 1 .. Len(x) + Len(y) /\ (i <= Len(x) => i \in 1 .. Len(x))
          /\ (~(i <= Len(x)) => i - Len(x) \in 1 .. Len(y))
      BY <2>2
    <3> QED  BY <2>1, <2>2, <3>1
  <2>6. ToSet(x \o y) \subseteq ToSet(x) \cup ToSet(y)
    <3> DEFINE z == x \o y
    <3> HIDE DEF z
    <3> QED  BY <2>5 DEF ToSet, z
  <2>7. ToSet(x) \cup ToSet(y) \subseteq ToSet(x \o y)
    <3> DEFINE z == x \o y
    <3> HIDE DEF z
    <3> QED  BY <2>3, <2>4 DEF ToSet, z
  <2> QED  BY <2>6, <2>7
<1>3. ToSet(s \o t) = ToSet(s) \cup ToSet(t) /\ ToSet(t \o s) = ToSet(s) \cup ToSet(t)
  <2>1. ToSet(s \o t) = ToSet(s) \cup ToSet(t)
    BY <1>1, <1>2
  <2>2. ToSet(t \o s) = ToSet(t) \cup ToSet(s)
    BY <1>1, <1>2
  <2> QED  BY <2>1, <2>2
<1>4. SortedByPath(s \o t) = By(ToSet(s \o t)) /\ SortedByPath(t \o s) = By(ToSet(t \o s))
  BY DEF SortedByPath
<1>5. IsFiniteSet(ToSet(s)) /\ IsFiniteSet(ToSet(t))
  <2>1. ASSUME NEW x, x \in Seq(ToSet(x)) PROVE IsFiniteSet(ToSet(x))
    <3> DEFINE D == 1 .. Len(x)
               S == ToSet(x)
    <3>1. Len(x) \in Nat /\ DOMAIN x = D /\ x \in [D -> S]
      BY <2>1
    <3>2. IsFiniteSet(D)
      BY <3>1, FS_Interval
    <3>3. x \in Surjection(D, S)
      <4>1. \A v \in S : \E d \in D : x[d] = v
        BY <3>1 DEF ToSet
      <4> HIDE DEF D, S
      <4> QED  BY <3>1, <4>1 DEF Surjection
    <3> HIDE DEF D
    <3> QED  BY <3>2, <3>3, FS_Surjection
  <2> QED  BY <2>1
<1> HIDE DEF By
<1> QED  BY <1>3, <1>4, <1>5, FS_Union

LEMMA CombineIsSymmetric ==
  ASSUME NEW a, IsReport(a), NEW b, IsReport(b)
  PROVE  LET one == CombineReports(<<a, b>>)
             two == CombineReports(<<b, a>>)
         IN  /\ one[1] = two[1]
             /\ one[1] = "Ok" =>
                  /\ one = two
                  /\ \A r \in {a, b} :
                       /\ ToSet(r.files) \subseteq ToSet(one[2].files)
                       /\ r.diagnostics \sqsubseteq one[2].diagnostics
                       /\ (r.completion = "Partial" => one[2].completion = "Partial")
<1> DEFINE Whole(x, y) == [Merge(x, y) EXCEPT !.files = SortedByPath(@)]
           Same == a.version = b.version /\ a.tool = b.tool
           Apart == ReportPaths(a) \cap ReportPaths(b) = {}
           fields == {"version", "tool", "files", "diagnostics", "completion"}
<1>1. ASSUME NEW x, NEW y
      PROVE  CombineReports(<<x, y>>) =
               IF y.version # x.version THEN <<"SchemaMismatch", y.version>>
               ELSE IF y.tool # x.tool THEN <<"ToolVersionMismatch", y.tool>>
               ELSE IF ReportPaths(y) \cap ReportPaths(x) # {}
               THEN <<"DuplicateFilePath", ReportPaths(y) \cap ReportPaths(x)>>
               ELSE <<"Ok", Whole(x, y)>>
  <2>1. CombineStep(<<"Ok", x>>, y) =
          IF y.version # x.version THEN <<"SchemaMismatch", y.version>>
          ELSE IF y.tool # x.tool THEN <<"ToolVersionMismatch", y.tool>>
          ELSE IF ReportPaths(y) \cap ReportPaths(x) # {}
          THEN <<"DuplicateFilePath", ReportPaths(y) \cap ReportPaths(x)>>
          ELSE <<"Ok", Merge(x, y)>>
    BY DEF CombineStep
  <2> DEFINE step == CombineStep(<<"Ok", x>>, y)
  <2>2. CombineReports(<<x, y>>) =
          IF step[1] = "Ok" THEN <<"Ok", [step[2] EXCEPT !.files = SortedByPath(@)]>> ELSE step
    BY CombineTwo
  <2>3. CASE y.version # x.version
    <3>1. step = <<"SchemaMismatch", y.version>>
      BY <2>1, <2>3
    <3> HIDE DEF step
    <3> QED  BY <2>2, <2>3, <3>1
  <2>6. CASE y.version = x.version /\ y.tool # x.tool
    <3>1. step = <<"ToolVersionMismatch", y.tool>>
      BY <2>1, <2>6
    <3> HIDE DEF step
    <3> QED  BY <2>2, <2>6, <3>1
  <2>4. CASE y.version = x.version /\ y.tool = x.tool /\ ReportPaths(y) \cap ReportPaths(x) # {}
    <3>1. step = <<"DuplicateFilePath", ReportPaths(y) \cap ReportPaths(x)>>
      BY <2>1, <2>4
    <3> HIDE DEF step
    <3> QED  BY <2>2, <2>4, <3>1
  <2>5. CASE y.version = x.version /\ y.tool = x.tool /\ ReportPaths(y) \cap ReportPaths(x) = {}
    <3>1. step = <<"Ok", Merge(x, y)>>
      BY <2>1, <2>5
    <3>2. step[1] = "Ok" /\ step[2] = Merge(x, y)
      BY <3>1
    <3> HIDE DEF step
    <3> QED  BY <2>2, <2>5, <3>2
  <2> QED  BY <2>3, <2>4, <2>5, <2>6
<1>2. CASE a.version # b.version
  <2>1. CombineReports(<<a, b>>) = <<"SchemaMismatch", b.version>>
    BY <1>1, <1>2
  <2>2. CombineReports(<<b, a>>) = <<"SchemaMismatch", a.version>>
    BY <1>1, <1>2
  <2> QED  BY <2>1, <2>2
<1>5. CASE a.version = b.version /\ a.tool # b.tool
  <2>1. CombineReports(<<a, b>>) = <<"ToolVersionMismatch", b.tool>>
    BY <1>1, <1>5
  <2>2. CombineReports(<<b, a>>) = <<"ToolVersionMismatch", a.tool>>
    BY <1>1, <1>5
  <2> QED  BY <2>1, <2>2
<1>3. CASE Same /\ ~Apart
  <2>1. ReportPaths(b) \cap ReportPaths(a) # {} /\ ReportPaths(a) \cap ReportPaths(b) # {}
    BY <1>3
  <2>2. CombineReports(<<a, b>>) = <<"DuplicateFilePath", ReportPaths(b) \cap ReportPaths(a)>>
    BY <1>1, <1>3, <2>1
  <2>3. CombineReports(<<b, a>>) = <<"DuplicateFilePath", ReportPaths(a) \cap ReportPaths(b)>>
    BY <1>1, <1>3, <2>1
  <2> QED  BY <2>2, <2>3
<1>4. CASE Same /\ Apart
  <2>1. CombineReports(<<a, b>>) = <<"Ok", Whole(a, b)>> /\ CombineReports(<<b, a>>) = <<"Ok", Whole(b, a)>>
    <3>1. ReportPaths(b) \cap ReportPaths(a) = {}
      BY <1>4
    <3> HIDE DEF Whole
    <3> QED  BY <1>1, <1>4, <3>1
  <2>2. ASSUME NEW x, DOMAIN x = fields, NEW y
        PROVE  /\ DOMAIN Whole(x, y) = fields
               /\ Whole(x, y).version = x.version /\ Whole(x, y).tool = x.tool
               /\ Whole(x, y).files = SortedByPath(x.files \o y.files)
               /\ Whole(x, y).diagnostics = x.diagnostics (+) y.diagnostics
               /\ Whole(x, y).completion = Join(x.completion, y.completion)
    BY <2>2 DEF Merge
  <2>3. ASSUME NEW x, IsABag(x), NEW y, IsABag(y)
        PROVE  x (+) y = y (+) x /\ x \sqsubseteq x (+) y
    <3>1. (\A e \in DOMAIN x : x[e] \in Nat) /\ (\A e \in DOMAIN y : y[e] \in Nat)
      BY <2>3 DEF IsABag
    <3>2. x (+) y = y (+) x
      BY <3>1 DEF (+)
    <3>3. \A e \in DOMAIN x : x[e] <= (x (+) y)[e]
      BY <3>1 DEF (+)
    <3>4. DOMAIN x \subseteq DOMAIN (x (+) y)
      BY DEF (+)
    <3> QED  BY <3>2, <3>3, <3>4 DEF \sqsubseteq
  <2> DEFINE sum == a.diagnostics (+) b.diagnostics
             sorted == SortedByPath(a.files \o b.files)
  <2>4. Whole(a, b) = Whole(b, a)
    <3>1. Join(a.completion, b.completion) = Join(b.completion, a.completion)
      BY DEF Join
    <3>2. SortedByPath(a.files \o b.files) = SortedByPath(b.files \o a.files)
      BY ConcatenatedFiles DEF IsReport
    <3>3. a.diagnostics (+) b.diagnostics = b.diagnostics (+) a.diagnostics
      BY <2>3 DEF IsReport
    <3>4. DOMAIN a = fields /\ DOMAIN b = fields
      BY DEF IsReport
    <3>5. \A f \in fields : Whole(a, b)[f] = Whole(b, a)[f]
      <4> HIDE DEF Whole, sum, sorted
      <4> QED  BY <1>4, <2>2, <3>1, <3>2, <3>3, <3>4
    <3>6. Whole(a, b) = [f \in fields |-> Whole(a, b)[f]] /\ Whole(b, a) = [f \in fields |-> Whole(b, a)[f]]
      <4>1. DOMAIN Whole(a, b) = fields /\ DOMAIN Whole(b, a) = fields
        <5> HIDE DEF Whole
        <5> QED  BY <2>2, <3>4
      <4> QED  BY <3>4, <4>1 DEF Merge
    <3> HIDE DEF Whole
    <3> QED  BY <3>5, <3>6
  <2>5. ToSet(sorted) = ToSet(a.files) \cup ToSet(b.files)
    <3> DEFINE F == a.files \o b.files
    <3>1. ToSet(F) = ToSet(a.files) \cup ToSet(b.files) /\ IsFiniteSet(ToSet(F))
      BY ConcatenatedFiles DEF IsReport
    <3>2. \A f, g \in ToSet(F) : f.path \in Int /\ (f.path = g.path => f = g)
      <4>1. \A x \in {a, b} : \A f, g \in ToSet(x.files) :
              f.path \in Int /\ f.path \in ReportPaths(x) /\ (f.path = g.path => f = g)
        <5> SUFFICES ASSUME NEW x \in {a, b}, NEW i \in DOMAIN x.files, NEW j \in DOMAIN x.files
                     PROVE  /\ x.files[i].path \in Int /\ x.files[i].path \in ReportPaths(x)
                            /\ (x.files[i].path = x.files[j].path => x.files[i] = x.files[j])
          BY DEF ToSet
        <5>1. IsReport(x)
          OBVIOUS
        <5>2. x.files[i].path \in Int /\ (x.files[i].path = x.files[j].path => i = j)
          BY <5>1 DEF IsReport
        <5>3. x.files[i].path \in ReportPaths(x)
          BY DEF ReportPaths
        <5> QED  BY <5>2, <5>3
      <4> HIDE DEF F
      <4> QED  BY <1>4, <3>1, <4>1
    <3> HIDE DEF F
    <3>3. ToSet(SortedByPath(F)) = ToSet(F)
      BY <3>1, <3>2, SortedByPathEnumerates
    <3> USE DEF F
    <3> QED  BY <3>1, <3>3
  <2>6. \A r \in {a, b} :
          /\ ToSet(r.files) \subseteq ToSet(Whole(a, b).files)
          /\ r.diagnostics \sqsubseteq Whole(a, b).diagnostics
          /\ (r.completion = "Partial" => Whole(a, b).completion = "Partial")
    <3>1. a.diagnostics \sqsubseteq sum /\ b.diagnostics \sqsubseteq sum
      <4>1. b.diagnostics \sqsubseteq b.diagnostics (+) a.diagnostics
            /\ b.diagnostics (+) a.diagnostics = sum
        BY <2>3 DEF IsReport
      <4> QED  BY <2>3, <4>1 DEF IsReport
    <3>2. DOMAIN a = fields
      BY DEF IsReport
    <3>3. \A r \in {a, b} : r.completion = "Partial" => Join(a.completion, b.completion) = "Partial"
      BY DEF Join
    <3>4. /\ Whole(a, b).files = sorted /\ Whole(a, b).diagnostics = sum
          /\ Whole(a, b).completion = Join(a.completion, b.completion)
      <4> HIDE DEF Whole
      <4> QED  BY <2>2, <3>2
    <3> HIDE DEF Whole, sum, sorted
    <3> QED  BY <2>5, <3>1, <3>3, <3>4
  <2> HIDE DEF Whole
  <2> QED  BY <2>1, <2>4, <2>6
<1> QED  BY <1>2, <1>3, <1>4, <1>5

-----------------------------------------------------------------------------
(* The steps of the command.                                               *)

(* What a file may have become.                                             *)
Texts ==
  {Unparsed} \cup UNION {{Artifact(source.asks, source.limits, source.misshapen) : source \in Sources(n)}
                           : n \in 1 .. MaxFiles}

Analysing == {"analysing", "matching", "reported"}

(* Everything before the analysis of the files.                             *)
Preparing ==
  \/ AddGlobal \/ AddObject \/ ExtendEnvironment \/ Configure
  \/ \E selector \in IF config.overrides = <<>> THEN Selectors ELSE FurtherSelectors :
       \E enabled \in BOOLEAN : Override(selector, enabled)
  \/ LoadDefault
  \/ \E provider \in DOMAIN CatalogsOf, profile \in Profiles : Load(provider, profile)
  \/ Edit \/ Build \/ OperationalError

LEMMA PreparingKeeps ==
  ASSUME Preparing
  PROVE  /\ UNCHANGED analysed
         /\ phase \notin Analysing \cup {"done"} /\ phase' \notin Analysing
<1>1. CASE AddGlobal \/ AddObject \/ ExtendEnvironment
  <2>1. PICK to : ChangeEnvironment(to)
    BY <1>1 DEF AddGlobal, AddObject, ExtendEnvironment
  <2> QED  BY <2>1 DEF ChangeEnvironment, Analysing
<1>2. CASE Configure
  BY <1>2 DEF Configure, Analysing
<1>3. ASSUME NEW selector, NEW enabled, Override(selector, enabled)
      PROVE  UNCHANGED analysed /\ phase = "configuring" /\ phase' \in {"configuring", "done"}
  BY <1>3 DEF Override, Refuse
<1>4. CASE LoadDefault
  BY <1>4 DEF LoadDefault, Analysing
<1>5. ASSUME NEW provider, NEW profile, Load(provider, profile)
      PROVE  UNCHANGED analysed /\ phase = "configuring" /\ phase' \in {"loaded", "done"}
  BY <1>5 DEF Load, Refuse
<1>6. CASE Edit
  BY <1>6 DEF Edit, Analysing
<1>7. CASE Build
  BY <1>7 DEF Build, Refuse, Analysing
<1>8. CASE OperationalError
  BY <1>8 DEF OperationalError, Refuse, Analysing
<1> HIDE DEF Analysing
<1>9. {"configuring", "loaded", "done"} \cap Analysing = {}
  BY DEF Analysing
<1>10. CASE \E selector \in IF config.overrides = <<>> THEN Selectors ELSE FurtherSelectors :
              \E enabled \in BOOLEAN : Override(selector, enabled)
  BY <1>3, <1>9, <1>10
<1>11. CASE \E provider \in DOMAIN CatalogsOf, profile \in Profiles : Load(provider, profile)
  BY <1>5, <1>9, <1>11
<1> QED  BY <1>1, <1>2, <1>4, <1>6, <1>7, <1>8, <1>10, <1>11 DEF Preparing

(* The analysed files are of the kinds a source may be, and what is reported *)
(* is the report of the files, findings and status there are.               *)
AnalysisInv ==
  /\ files \in Seq(Texts)
  /\ phase \in Analysing => size \in 1 .. MaxFiles
  /\ phase = "reported" => report = <<NewReport(files, findings, status, LinkDiagnostics(links))>>

LEMMA AnalysisInvHolds == Spec => []AnalysisInv
<1>1. Init => AnalysisInv
  <2>1. <<>> \in Seq(Texts)
    OBVIOUS
  <2> QED  BY <2>1 DEF Init, AnalysisInv, Analysing
<1>2. AnalysisInv /\ [Next]_vars => AnalysisInv'
  <2> SUFFICES ASSUME AnalysisInv, [Next]_vars PROVE AnalysisInv'
    OBVIOUS
  <2>1. CASE Preparing
    <3>1. UNCHANGED analysed /\ phase' \notin Analysing
      BY <2>1, PreparingKeeps
    <3>2. phase' # "reported"
      BY <3>1 DEF Analysing
    <3>3. files' = files
      BY <3>1 DEF analysed
    <3> QED  BY <3>1, <3>2, <3>3 DEF AnalysisInv
  <2>2. ASSUME NEW n \in 1 .. MaxFiles, Open(n) PROVE AnalysisInv'
    BY <2>2 DEF Open, AnalysisInv
  <2>3. ASSUME NEW source \in Sources(size), Analyse(source) PROVE AnalysisInv'
    <3> DEFINE t == IF source.parses THEN Artifact(source.asks, source.limits, source.misshapen)
                    ELSE Unparsed
    <3>1. size \in 1 .. MaxFiles
      BY <2>3 DEF Analyse, AnalysisInv, Analysing
    <3>2. t \in Texts
      BY <3>1 DEF Texts
    <3>3. files' = Append(files, t) /\ phase' = phase /\ size' = size /\ phase = "analysing"
      BY <2>3 DEF Analyse
    <3> HIDE DEF t
    <3> QED  BY <3>1, <3>2, <3>3 DEF AnalysisInv
  <2>4. ASSUME NEW linked, NEW bounds, Match(linked, bounds) PROVE AnalysisInv'
    BY <2>4 DEF Match, AnalysisInv, Analysing
  <2>5. ASSUME NEW found, Render(found) PROVE AnalysisInv'
    BY <2>5 DEF Render, AnalysisInv, Analysing
  <2>6. CASE Report
    <3>1. /\ report' = <<NewReport(files, findings, status, LinkDiagnostics(links))>>
          /\ UNCHANGED <<files, findings, status, links, size>>
          /\ phase' \in Analysing /\ phase \in Analysing
      BY <2>6 DEF Report, Analysing
    <3>2. NewReport(files, findings, status, LinkDiagnostics(links))'
            = NewReport(files, findings, status, LinkDiagnostics(links))
      BY <3>1
    <3> HIDE DEF NewReport, LinkDiagnostics
    <3> QED  BY <3>1, <3>2 DEF AnalysisInv
  <2>7. ASSUME NEW partial, NEW messages, NEW failOn, ExitProject(partial, messages, failOn)
        PROVE  AnalysisInv'
    BY <2>7 DEF ExitProject, Leave, AnalysisInv, Analysing
  <2>8. ASSUME NEW failOn, ExitSnippet(failOn) PROVE AnalysisInv'
    BY <2>8 DEF ExitSnippet, Leave, AnalysisInv, Analysing
  <2>9. CASE BrokenPipe
    BY <2>9 DEF BrokenPipe, AnalysisInv, Analysing
  <2>10. CASE UNCHANGED vars
    <3>1. files' = files /\ phase' = phase /\ size' = size /\ report' = report /\ findings' = findings
          /\ status' = status /\ links' = links
      BY <2>10 DEF vars
    <3> QED  BY <3>1 DEF AnalysisInv
  <2> QED  BY <2>1, <2>2, <2>3, <2>4, <2>5, <2>6, <2>7, <2>8, <2>9, <2>10 DEF Next, Preparing
<1> QED  BY <1>1, <1>2, PTL DEF Spec

(* A new report is one: about each file once, under its path.               *)
LEMMA NewReportIsReport ==
  ASSUME NEW S, NEW texts \in Seq(S), NEW found, NEW entries, NEW linked
  PROVE  /\ IsReport(NewReport(texts, found, entries, linked))
         /\ ToSet(NewReport(texts, found, entries, linked).files)
              = ToSet(ReportFiles(texts, found, Diagnosed(entries) \cup linked))
<1> DEFINE told == Diagnosed(entries) \cup linked
           given == ReportFiles(texts, found, told)
           r == NewReport(texts, found, entries, linked)
           D == 1 .. Len(texts)
           F == ToSet(given)
<1>1. DOMAIN given = D /\ Len(texts) \in Nat /\ \A p \in D : given[p].path = p
  BY DEF ReportFiles, FileReport
<1>2. /\ \A f \in F : f.path \in Int
      /\ \A f, g \in F : f.path = g.path => f = g
  <2> HIDE DEF given
  <2> QED  BY <1>1 DEF ToSet
<1>3. IsFiniteSet(F)
  <2>1. given \in Surjection(D, F)
    <3>1. given = [p \in D |-> given[p]]
      BY <1>1 DEF ReportFiles
    <3> HIDE DEF given
    <3> QED  BY <1>1, <3>1 DEF ToSet, Surjection
  <2>2. IsFiniteSet(D)
    BY <1>1, FS_Interval
  <2> HIDE DEF given, D, F
  <2> QED  BY <2>1, <2>2, FS_Surjection
<1> DEFINE c == Cardinality(F)
           sorted == SortedByPath(given)
<1>4. /\ c \in Nat /\ sorted \in [1 .. c -> F] /\ ToSet(sorted) = F
      /\ \A m, n \in 1 .. c : m < n => sorted[m].path < sorted[n].path
  <2> HIDE DEF given
  <2> QED  BY <1>2, <1>3, SortedByPathEnumerates
<1>5. sorted \in Seq(ToSet(sorted))
  <2> HIDE DEF sorted, F, c
  <2>1. sorted \in Seq(F)
    BY <1>4, SeqDef
  <2> QED  BY <1>4, <2>1
<1>6. ASSUME NEW i \in DOMAIN sorted, NEW j \in DOMAIN sorted
      PROVE  sorted[i].path \in Int /\ (sorted[i].path = sorted[j].path => i = j)
  <2> HIDE DEF sorted, F, c
  <2>1. i \in 1 .. c /\ j \in 1 .. c /\ sorted[i] \in F /\ sorted[j] \in F
    BY <1>4
  <2>2. sorted[i].path \in Int /\ sorted[j].path \in Int
    BY <1>2, <2>1
  <2>3. i < j \/ j < i \/ i = j
    BY <1>4, <2>1
  <2> QED  BY <1>4, <2>1, <2>2, <2>3
<1>7. IsABag(r.diagnostics)
  <2>1. \A X : IsABag(SetToBag(X))
    BY DEF IsABag, SetToBag
  <2>2. r.diagnostics = SetToBag({e.reason : e \in {e \in told : e.scope = Project}})
    BY DEF NewReport
  <2> QED  BY <2>1, <2>2
<1>8. /\ DOMAIN r = {"version", "tool", "files", "diagnostics", "completion"} /\ r.files = sorted
      /\ r.completion \in {"Complete", "Partial"}
  BY DEF NewReport
<1> HIDE DEF r, sorted
<1>9. r.files \in Seq(ToSet(r.files))
  BY <1>5, <1>8, Zenon
<1>10. \A i, j \in DOMAIN r.files :
         r.files[i].path \in Int /\ (r.files[i].path = r.files[j].path => i = j)
  BY <1>6, <1>8, Zenon
<1>11. IsReport(r)
  BY <1>7, <1>8, <1>9, <1>10, Zenon DEF IsReport
<1>12. ToSet(r.files) = F
  BY <1>4, <1>8, Zenon
<1> QED  BY <1>11, <1>12 DEF r

(* The report combined with any other one, before or behind it, is the same *)
(* report with everything of both in it, or the same error                  *)
(* (project/report/mod.rs: ProjectReport::combine).                         *)
THEOREM CombineIsAlwaysOrderFree == Spec => []CombineIsOrderFree
<1>1. AnalysisInv => CombineIsOrderFree
  <2> SUFFICES ASSUME AnalysisInv, phase = "reported", NEW other \in OtherReports
               PROVE  LET one == CombineReports(<<report[1], other>>)
                          two == CombineReports(<<other, report[1]>>)
                      IN  /\ one[1] = two[1]
                          /\ one[1] = "Ok" =>
                               /\ one = two
                               /\ \A r \in {report[1], other} :
                                    /\ ToSet(r.files) \subseteq ToSet(one[2].files)
                                    /\ r.diagnostics \sqsubseteq one[2].diagnostics
                                    /\ (r.completion = "Partial" => one[2].completion = "Partial")
    BY DEF CombineIsOrderFree
  <2>1. report[1] = NewReport(files, findings, status, LinkDiagnostics(links)) /\ files \in Seq(Texts)
    BY DEF AnalysisInv
  <2>2. IsReport(report[1])
    BY <2>1, NewReportIsReport
  <2>3. IsReport(other)
    BY ReportsAssumption
  <2> QED  BY <2>2, <2>3, CombineIsSymmetric
<1> QED  BY <1>1, AnalysisInvHolds, PTL

-----------------------------------------------------------------------------
(* Selectors: the segments of a pattern.                                   *)

LEMMA SegmentsFold ==
  ASSUME NEW S, NEW selector \in Seq(S)
  PROVE  \E W \in [0 .. Len(selector) -> Seq(Seq(S))] :
           /\ W[0] = <<>>
           /\ \A k \in 1 .. Len(selector) : W[k] = AddCharacter(W[k - 1], selector[k])
           /\ Segments(selector) = W[Len(selector)]
<1> DEFINE n == Len(selector)
           I == 1 .. n
           A == Seq(Seq(S))
           F == [k \in I |-> [x \in A |-> AddCharacter(x, selector[k])]]
           Solves(it) == it = [s \in SUBSET DOMAIN selector |->
                                 IF s = {} THEN <<>>
                                 ELSE AddCharacter(it[s \ {Max(s)}], selector[Max(s)])]
           chosen == CHOOSE it : Solves(it)
<1>1. n \in Nat /\ DOMAIN selector = I /\ \A k \in I : selector[k] \in S
  OBVIOUS
<1>2. ASSUME NEW x \in A, NEW c \in S PROVE AddCharacter(x, c) \in A
  <2>1. Wildcard \in Seq(S) /\ <<c>> \in Seq(S)
    BY DEF Wildcard
  <2>2. CASE c = "*"
    <3>1. AddCharacter(x, c) = Append(x, Wildcard)
      BY <2>2 DEF AddCharacter
    <3> QED  BY <2>1, <3>1
  <2>3. CASE c # "*" /\ x # <<>> /\ Last(x) # Wildcard
    <3>1. AddCharacter(x, c) = [x EXCEPT ![Len(x)] = Append(x[Len(x)], c)]
      BY <2>3 DEF AddCharacter
    <3>2. Len(x) \in 1 .. Len(x)
      BY <2>3
    <3>3. Append(x[Len(x)], c) \in Seq(S)
      BY <3>2
    <3> QED  BY <3>1, <3>2, <3>3, ExceptSeq
  <2>4. CASE c # "*" /\ ~(x # <<>> /\ Last(x) # Wildcard)
    <3>1. AddCharacter(x, c) = Append(x, <<c>>)
      BY <2>4 DEF AddCharacter
    <3> QED  BY <2>1, <3>1
  <2> QED  BY <2>2, <2>3, <2>4
<1>3. F \in [I -> [A -> A]] /\ \A k \in I : \A x \in A : F[k][x] = AddCharacter(x, selector[k])
  <2> HIDE DEF A
  <2> QED  BY <1>1, <1>2
<1>4. PICK it \in [SUBSET I -> A] : Folds(it, F, <<>>, n)
  <2>1. <<>> \in A
    OBVIOUS
  <2> HIDE DEF A, F
  <2> QED  BY <1>1, <1>3, <2>1, FoldExists
<1>5. Solves(it)
  <2>1. ASSUME NEW s \in SUBSET I, s # {}
        PROVE  it[s] = AddCharacter(it[s \ {Max(s)}], selector[Max(s)])
    <3>1. Max(s) = Top(s)
      BY DEF Max, Top
    <3>2. Top(s) \in I
      BY <1>1, <2>1, TopOf
    <3>3. it[s \ {Top(s)}] \in A
      OBVIOUS
    <3> HIDE DEF F, A
    <3> QED  BY <1>3, <1>4, <2>1, <3>1, <3>2, <3>3 DEF Folds
  <2>2. it[{}] = <<>>
    BY <1>4 DEF Folds
  <2>3. it = [s \in SUBSET DOMAIN selector |-> it[s]]
    BY <1>1
  <2> HIDE DEF I, A
  <2> QED  BY <1>1, <2>1, <2>2, <2>3
<1>6. Solves(chosen)
  <2> HIDE DEF Solves
  <2> QED  BY <1>5
<1>7. Segments(selector) = chosen[DOMAIN selector]
  BY DEF Segments, FoldLeft, MapThenFoldSet
<1> HIDE DEF chosen
<1>8. LeadsTo(A, F, <<>>, n, chosen[1 .. n])
  <2>1. <<>> \in A /\ chosen[{}] = <<>>
    BY <1>6
  <2>2. ASSUME NEW s \in SUBSET I, s # {}, chosen[s \ {Top(s)}] \in A
        PROVE  chosen[s] = F[Top(s)][chosen[s \ {Top(s)}]]
    <3>1. Max(s) = Top(s)
      BY DEF Max, Top
    <3>2. Top(s) \in I
      BY <1>1, <2>2, TopOf
    <3>3. chosen[s] = AddCharacter(chosen[s \ {Max(s)}], selector[Max(s)])
      BY <1>1, <1>6, <2>2
    <3> HIDE DEF F, A, I, Solves
    <3> QED  BY <1>3, <2>2, <3>1, <3>2, <3>3
  <2>3. F \in [1 .. n -> [A -> A]] /\ n \in Nat
    BY <1>1, <1>3
  <2>4. \A s \in SUBSET (1 .. n) :
          s # {} /\ chosen[s \ {Top(s)}] \in A => chosen[s] = F[Top(s)][chosen[s \ {Top(s)}]]
    <3> HIDE DEF F, A, Solves
    <3> QED  BY <2>2
  <2> HIDE DEF F, A, Solves, n
  <2> QED  BY <2>1, <2>3, <2>4, FoldWalks
<1>9. PICK W \in [0 .. n -> A] :
        W[0] = <<>> /\ W[n] = chosen[1 .. n] /\ \A k \in 1 .. n : W[k] = F[k][W[k - 1]]
  <2> HIDE DEF F, A, n
  <2> QED  BY <1>8 DEF LeadsTo
<1>10. \A k \in 1 .. n : W[k] = AddCharacter(W[k - 1], selector[k])
  <2> TAKE k \in 1 .. n
  <2>1. k - 1 \in 0 .. n
    OBVIOUS
  <2> HIDE DEF F, A
  <2> QED  BY <1>3, <1>9, <2>1
<1> HIDE DEF F
<1> QED  BY <1>1, <1>7, <1>9, <1>10

(* Where a literal stands in a text.                                        *)
StandsAt(literal, text, k) ==
  k + Len(literal) <= Len(text) /\ \A x \in 1 .. Len(literal) : text[k + x] = literal[x]

LEMMA SubSeqStands ==
  ASSUME NEW S, NEW text \in Seq(S), NEW literal \in Seq(S), NEW k \in Nat,
         k + Len(literal) <= Len(text)
  PROVE  SubSeq(text, k + 1, k + Len(literal)) = literal <=> StandsAt(literal, text, k)
<1> DEFINE l == Len(literal)
           u == SubSeq(text, k + 1, k + l)
<1>1. l \in Nat /\ k + 1 \in Int /\ k + l \in Int /\ \A i \in (k + 1) .. (k + l) : text[i] \in S
  OBVIOUS
<1>2. u \in Seq(S) /\ Len(u) = l /\ \A i \in 1 .. l : u[i] = text[k + i]
  <2> DEFINE a == k + 1
             b == k + l
  <2>1. a \in Int /\ b \in Int /\ (\A i \in a .. b : text[i] \in S) /\ (a <= b => b - a + 1 = l)
        /\ (~(a <= b) => l = 0) /\ (\A i \in 1 .. l : i \in 1 .. b - a + 1 /\ a + i - 1 = k + i)
    BY <1>1
  <2> HIDE DEF a, b, l
  <2>2. /\ SubSeq(text, a, b) \in Seq(S)
        /\ Len(SubSeq(text, a, b)) = IF a <= b THEN b - a + 1 ELSE 0
        /\ \A i \in 1 .. b - a + 1 : SubSeq(text, a, b)[i] = text[a + i - 1]
    BY <2>1, SubSeqProperties
  <2>3. u = SubSeq(text, a, b)
    BY DEF a, b
  <2> HIDE DEF u
  <2> QED  BY <2>1, <2>2, <2>3
<1> HIDE DEF u
<1>3. CASE u = literal
  <2>1. \A i \in 1 .. Len(literal) : text[k + i] = literal[i]
    BY <1>2, <1>3
  <2> QED  BY <1>3, <2>1 DEF StandsAt
<1>4. CASE StandsAt(literal, text, k)
  <2>1. \A i \in 1 .. l : u[i] = literal[i]
    BY <1>2, <1>4 DEF StandsAt
  <2>2. u = literal
    BY <1>2, <2>1, SeqEqual
  <2> QED  BY <1>4, <2>2 DEF u
<1> QED  BY <1>3, <1>4 DEF u

LEMMA PrefixStands ==
  ASSUME NEW S, NEW text \in Seq(S), NEW literal \in Seq(S)
  PROVE  IsPrefix(literal, text) <=> StandsAt(literal, text, 0)
<1>1. SubSeq(literal, 1, Len(literal)) = literal
  BY SubSeqFull
<1>2. CASE Len(literal) <= Len(text)
  <2>1. SubSeq(text, 0 + 1, 0 + Len(literal)) = literal <=> StandsAt(literal, text, 0)
    <3>1. 0 \in Nat /\ 0 + Len(literal) <= Len(text)
      BY <1>2
    <3> QED  BY <3>1, SubSeqStands
  <2>2. 0 + 1 = 1 /\ 0 + Len(literal) = Len(literal)
    OBVIOUS
  <2> QED  BY <1>1, <1>2, <2>1, <2>2 DEF IsPrefix
<1>3. CASE ~(Len(literal) <= Len(text))
  BY <1>3 DEF IsPrefix, StandsAt
<1> QED  BY <1>2, <1>3

LEMMA SuffixStands ==
  ASSUME NEW S, NEW text \in Seq(S), NEW literal \in Seq(S), NEW pos \in 0 .. Len(text)
  PROVE  IsSuffix(literal, SubSeq(text, pos + 1, Len(text)))
           <=> /\ Len(literal) <= Len(text) - pos
               /\ StandsAt(literal, text, Len(text) - Len(literal))
<1> DEFINE n == Len(text)
           l == Len(literal)
           rest == SubSeq(text, pos + 1, n)
           r == Reverse(rest)
           q == Reverse(literal)
<1>1. n \in Nat /\ l \in Nat /\ pos \in Nat /\ pos <= n /\ n - pos \in Nat
  OBVIOUS
<1>2. rest \in Seq(S) /\ Len(rest) = n - pos /\ \A i \in 1 .. (n - pos) : rest[i] = text[pos + i]
  <2> DEFINE a == pos + 1
  <2>1. a \in Int /\ n \in Int /\ (\A i \in a .. n : text[i] \in S) /\ (a <= n => n - a + 1 = n - pos)
        /\ (~(a <= n) => n - pos = 0)
        /\ (\A i \in 1 .. (n - pos) : i \in 1 .. n - a + 1 /\ a + i - 1 = pos + i)
    BY <1>1
  <2> HIDE DEF a, n
  <2>2. /\ SubSeq(text, a, n) \in Seq(S)
        /\ Len(SubSeq(text, a, n)) = IF a <= n THEN n - a + 1 ELSE 0
        /\ \A i \in 1 .. n - a + 1 : SubSeq(text, a, n)[i] = text[a + i - 1]
    BY <2>1, SubSeqProperties
  <2>3. rest = SubSeq(text, a, n)
    BY DEF a
  <2> HIDE DEF rest
  <2> QED  BY <2>1, <2>2, <2>3
<1> HIDE DEF rest
<1>3. r \in Seq(S) /\ Len(r) = n - pos /\ \A i \in 1 .. (n - pos) : r[i] = text[n - i + 1]
  <2>1. r = [i \in 1 .. (n - pos) |-> rest[((n - pos) - i) + 1]]
    BY <1>2 DEF Reverse
  <2>2. \A i \in 1 .. (n - pos) : /\ ((n - pos) - i) + 1 \in 1 .. (n - pos)
                                  /\ pos + (((n - pos) - i) + 1) = n - i + 1
    BY <1>1
  <2>3. \A i \in 1 .. (n - pos) : rest[((n - pos) - i) + 1] \in S
    BY <1>2, <2>2
  <2>4. r \in [1 .. (n - pos) -> S]
    <3> HIDE DEF r
    <3> QED  BY <2>1, <2>3
  <2>5. r \in Seq(S) /\ Len(r) = n - pos
    <3> HIDE DEF r
    <3> QED  BY <1>1, <2>4, SeqDef
  <2>6. \A i \in 1 .. (n - pos) : r[i] = text[n - i + 1]
    <3> HIDE DEF r
    <3> QED  BY <1>2, <2>1, <2>2
  <2> QED  BY <2>5, <2>6
<1>4. q \in Seq(S) /\ Len(q) = l /\ \A i \in 1 .. l : q[i] = literal[(l - i) + 1]
  <2>1. q = [i \in 1 .. l |-> literal[(l - i) + 1]]
    BY DEF Reverse
  <2>2. \A i \in 1 .. l : literal[(l - i) + 1] \in S
    <3>1. \A i \in 1 .. l : (l - i) + 1 \in 1 .. l
      BY <1>1
    <3> QED  BY <3>1
  <2>3. q \in [1 .. l -> S]
    <3> HIDE DEF q
    <3> QED  BY <2>1, <2>2
  <2> HIDE DEF q
  <2>4. q \in Seq(S) /\ Len(q) = l
    BY <1>1, <2>3, SeqDef
  <2> QED  BY <2>1, <2>4
<1>5. IsSuffix(literal, rest) <=> StandsAt(q, r, 0)
  <2>1. IsSuffix(literal, rest) <=> IsPrefix(q, r)
    BY DEF IsSuffix
  <2> HIDE DEF q, r
  <2> QED  BY <1>3, <1>4, <2>1, PrefixStands
<1> HIDE DEF q, r
<1>6. ASSUME l <= n - pos
      PROVE  (\A i \in 1 .. l : r[0 + i] = q[i]) <=> (\A x \in 1 .. l : text[(n - l) + x] = literal[x])
  <2>1. ASSUME NEW i \in 1 .. l
        PROVE  /\ r[0 + i] = text[n - i + 1] /\ q[i] = literal[(l - i) + 1]
               /\ (l - i) + 1 \in 1 .. l /\ (n - l) + ((l - i) + 1) = n - i + 1
               /\ l - ((l - i) + 1) + 1 = i
    <3>1. 0 + i = i /\ i \in 1 .. (n - pos)
      BY <1>1, <1>6
    <3>2. /\ (l - i) + 1 \in 1 .. l /\ (n - l) + ((l - i) + 1) = n - i + 1
          /\ l - ((l - i) + 1) + 1 = i
      BY <1>1
    <3> HIDE DEF n, l
    <3> QED  BY <1>3, <1>4, <3>1, <3>2
  <2>2. ASSUME \A i \in 1 .. l : r[0 + i] = q[i], NEW x \in 1 .. l
        PROVE  text[(n - l) + x] = literal[x]
    <3> DEFINE i == (l - x) + 1
    <3>1. i \in 1 .. l /\ (l - i) + 1 = x /\ n - i + 1 = (n - l) + x
      BY <1>1
    <3> HIDE DEF i, n, l
    <3> QED  BY <2>1, <2>2, <3>1
  <2>3. ASSUME \A x \in 1 .. l : text[(n - l) + x] = literal[x], NEW i \in 1 .. l
        PROVE  r[0 + i] = q[i]
    <3> HIDE DEF n, l
    <3> QED  BY <2>1, <2>3
  <2> HIDE DEF n, l
  <2> QED  BY <2>2, <2>3
<1>7. 0 + l <= n - pos <=> l <= n - pos
  BY <1>1
<1>8. (n - l) + l <= n
  BY <1>1
<1> QED  BY <1>3, <1>4, <1>5, <1>6, <1>7, <1>8 DEF StandsAt, rest

(* The search finds the first place from pos on, or there is none.          *)
LEMMA FindsFirst ==
  ASSUME NEW S, NEW text \in Seq(S), NEW literal \in Seq(S), NEW pos \in 0 .. Len(text)
  PROVE  \/ /\ FindFrom(text, pos, literal) = Failed
            /\ \A k \in Nat : k >= pos => ~StandsAt(literal, text, k)
         \/ \E k \in pos .. Len(text) :
              /\ StandsAt(literal, text, k) /\ FindFrom(text, pos, literal) = k + Len(literal)
              /\ \A i \in Nat : i >= pos /\ StandsAt(literal, text, i) => k <= i
<1> DEFINE n == Len(text)
           l == Len(literal)
           found == {k \in pos .. (n - l) : SubSeq(text, k + 1, k + l) = literal}
<1>1. n \in Nat /\ l \in Nat /\ pos \in Nat
  OBVIOUS
<1>2. \A k \in Nat : k \in found <=> k >= pos /\ StandsAt(literal, text, k)
  <2> TAKE k \in Nat
  <2>1. k \in pos .. (n - l) <=> k >= pos /\ k + l <= n
    BY <1>1
  <2>2. k + l <= n => (SubSeq(text, k + 1, k + l) = literal <=> StandsAt(literal, text, k))
    BY SubSeqStands
  <2>3. StandsAt(literal, text, k) => k + l <= n
    BY DEF StandsAt
  <2> HIDE DEF n, l
  <2> QED  BY <2>1, <2>2, <2>3
<1>3. found \in SUBSET Nat
  BY <1>1
<1>4. FindFrom(text, pos, literal) =
        IF found = {} THEN Failed ELSE (CHOOSE k \in found : \A i \in found : k <= i) + l
  BY DEF FindFrom
<1> HIDE DEF found
<1>5. CASE found = {}
  BY <1>2, <1>4, <1>5
<1>6. CASE found # {}
  <2>1. \E k \in found : \A i \in found : k <= i
    BY <1>3, <1>6, LeastExists
  <2>2. PICK k \in found : k = (CHOOSE x \in found : \A i \in found : x <= i) /\ \A i \in found : k <= i
    BY <2>1
  <2>3. k \in Nat /\ StandsAt(literal, text, k) /\ k >= pos
    BY <1>2, <1>3
  <2>4. k \in pos .. n
    <3>1. k + l <= n
      BY <2>3 DEF StandsAt
    <3> QED  BY <1>1, <2>3, <3>1
  <2> QED  BY <1>2, <1>4, <1>6, <2>2, <2>3, <2>4
<1> QED  BY <1>5, <1>6

(* R[i] is where in the text the i-th suffix of the pattern matches the rest. *)
RowOf(R, pattern, text, i) ==
  IF pattern[i] = "*" THEN {j \in 1 .. (Len(text) + 1) : \E k \in R[i + 1] : j <= k}
  ELSE {j \in 1 .. Len(text) : text[j] = pattern[i] /\ j + 1 \in R[i + 1]}

AreRows(R, pattern, text) ==
  /\ R[Len(pattern) + 1] = {Len(text) + 1}
  /\ \A i \in 1 .. Len(pattern) : R[i] = RowOf(R, pattern, text, i)

LEMMA RowsExist ==
  ASSUME NEW S, NEW pattern \in Seq(S), NEW text \in Seq(S)
  PROVE  \E R \in [1 .. (Len(pattern) + 1) -> SUBSET (1 .. (Len(text) + 1))] :
           AreRows(R, pattern, text)
<1> DEFINE m == Len(pattern)
           n == Len(text)
           A == SUBSET (1 .. (n + 1))
           Row(c, x) == IF c = "*" THEN {j \in 1 .. (n + 1) : \E k \in x : j <= k}
                        ELSE {j \in 1 .. n : text[j] = c /\ j + 1 \in x}
           F == [t \in Nat |-> [x \in A |-> Row(pattern[m - t], x)]]
<1>1. m \in Nat /\ n \in Nat /\ {n + 1} \in A
  OBVIOUS
<1>2. \A c : \A x \in A : Row(c, x) \in A
  BY <1>1
<1>3. F \in [Nat -> [A -> A]] /\ \A t \in Nat : \A x \in A : F[t][x] = Row(pattern[m - t], x)
  <2> HIDE DEF Row, A
  <2> QED  BY <1>2
<1>4. PICK W \in [Nat -> A] : Recurs(W, F, {n + 1})
  <2> HIDE DEF F, A
  <2> QED  BY <1>1, <1>3, RecursionExists
<1> DEFINE R == [i \in 1 .. (m + 1) |-> W[(m + 1) - i]]
<1>5. \A i \in 1 .. (m + 1) : (m + 1) - i \in Nat
  BY <1>1
<1>6. R \in [1 .. (m + 1) -> A]
  <2> HIDE DEF A, m
  <2> QED  BY <1>5
<1>7. R[m + 1] = {n + 1}
  <2>1. m + 1 \in 1 .. (m + 1) /\ (m + 1) - (m + 1) = 0
    BY <1>1
  <2>2. W[0] = {n + 1}
    <3> HIDE DEF F
    <3> QED  BY <1>4 DEF Recurs
  <2> QED  BY <2>1, <2>2
<1>8. ASSUME NEW i \in 1 .. m PROVE R[i] = Row(pattern[i], R[i + 1])
  <2> DEFINE t == m - i
  <2>1. t \in Nat /\ (m + 1) - i = t + 1 /\ (m + 1) - (i + 1) = t /\ m - t = i
        /\ i \in 1 .. (m + 1) /\ i + 1 \in 1 .. (m + 1)
    BY <1>1
  <2>2. R[i] = W[t + 1] /\ R[i + 1] = W[t]
    BY <2>1
  <2> HIDE DEF t, F, Row, R, A, m
  <2>3. W[t + 1] = F[t][W[t]]
    BY <1>4, <2>1 DEF Recurs
  <2> QED  BY <1>3, <2>1, <2>2, <2>3, SMTT(30)
<1>9. AreRows(R, pattern, text)
  <2> HIDE DEF R
  <2> QED  BY <1>7, <1>8 DEF AreRows, RowOf
<1> HIDE DEF R
<1> QED  BY <1>6, <1>9

LEMMA GlobRows ==
  ASSUME NEW S, NEW pattern \in Seq(S), NEW text \in Seq(S)
  PROVE  \E R \in [1 .. (Len(pattern) + 1) -> SUBSET (1 .. (Len(text) + 1))] :
           AreRows(R, pattern, text) /\ (Glob(pattern, text) <=> 1 \in R[1])
<1> DEFINE m == Len(pattern)
           n == Len(text)
           I == 1 .. (m + 1)
           J == 1 .. (n + 1)
           Solves(g) == g = [i \in I |->
                               IF i > m THEN {n + 1}
                               ELSE IF pattern[i] = "*" THEN {j \in J : \E k \in g[i + 1] : j <= k}
                               ELSE {j \in 1 .. n : text[j] = pattern[i] /\ j + 1 \in g[i + 1]}]
           chosen == CHOOSE g : Solves(g)
<1>1. m \in Nat /\ n \in Nat
  OBVIOUS
<1>2. \A i \in I : (i > m <=> i = m + 1) /\ (~(i > m) => i \in 1 .. m)
  BY <1>1
<1>3. PICK Q \in [I -> SUBSET J] : AreRows(Q, pattern, text)
  BY RowsExist
<1>4. Solves(Q)
  <2>1. \A i \in I : Q[i] = IF i > m THEN {n + 1} ELSE RowOf(Q, pattern, text, i)
    <3> HIDE DEF I, J
    <3> QED  BY <1>2, <1>3 DEF AreRows
  <2> QED  BY <2>1 DEF RowOf
<1>5. Solves(chosen)
  <2> HIDE DEF Solves
  <2> QED  BY <1>4
<1>6. Glob(pattern, text) <=> 1 \in chosen[1]
  BY DEF Glob
<1> HIDE DEF chosen
<1>7. /\ \A i \in I : chosen[i] = IF i > m THEN {n + 1} ELSE RowOf(chosen, pattern, text, i)
      /\ chosen = [i \in I |-> chosen[i]]
  BY <1>5 DEF RowOf
<1>8. AreRows(chosen, pattern, text)
  <2>1. m + 1 \in I /\ m + 1 > m /\ \A i \in 1 .. m : i \in I /\ ~(i > m)
    BY <1>1
  <2> HIDE DEF Solves, I
  <2> QED  BY <1>7, <2>1 DEF AreRows
<1>9. \A i \in I : chosen[i] \in SUBSET J
  <2>1. {n + 1} \in SUBSET J /\ \A i : RowOf(chosen, pattern, text, i) \in SUBSET J
    BY <1>1 DEF RowOf
  <2> HIDE DEF Solves, I, J
  <2> QED  BY <1>7, <2>1
<1> HIDE DEF Solves, I, J
<1>10. chosen \in [I -> SUBSET J]
  BY <1>7, <1>9
<1> QED  BY <1>6, <1>8, <1>10 DEF I, J

LEMMA LiteralRows ==
  ASSUME NEW S, NEW pattern \in Seq(S), NEW text \in Seq(S),
         NEW R \in [1 .. (Len(pattern) + 1) -> SUBSET (1 .. (Len(text) + 1))],
         AreRows(R, pattern, text),
         NEW i \in 1 .. (Len(pattern) + 1), NEW literal \in Seq(S),
         i + Len(literal) <= Len(pattern) + 1,
         \A x \in 1 .. Len(literal) : pattern[i + x - 1] = literal[x] /\ literal[x] # "*"
  PROVE  \A k \in 0 .. Len(text) :
           k + 1 \in R[i] <=> /\ StandsAt(literal, text, k)
                              /\ k + Len(literal) + 1 \in R[i + Len(literal)]
<1> DEFINE m == Len(pattern)
           n == Len(text)
           l == Len(literal)
           Upto(k, d) == k + d <= n /\ \A x \in 1 .. d : text[k + x] = literal[x]
           T == {d \in Nat : d <= l => \A k \in 0 .. n :
                               k + 1 \in R[i] <=> Upto(k, d) /\ k + d + 1 \in R[i + d]}
<1>1. m \in Nat /\ n \in Nat /\ l \in Nat /\ i \in Nat /\ i + l <= m + 1
  OBVIOUS
<1>2. 0 \in T
  BY <1>1
<1>3. ASSUME NEW d \in Nat, d \in T PROVE d + 1 \in T
  <2> SUFFICES ASSUME d + 1 <= l, NEW k \in 0 .. n
               PROVE  k + 1 \in R[i] <=> Upto(k, d + 1) /\ k + (d + 1) + 1 \in R[i + (d + 1)]
    OBVIOUS
  <2>1. k + 1 \in R[i] <=> Upto(k, d) /\ k + d + 1 \in R[i + d]
    BY <1>1, <1>3
  <2>2. i + d \in 1 .. m /\ d + 1 \in 1 .. l /\ i + (d + 1) - 1 = i + d /\ (i + d) + 1 = i + (d + 1)
    BY <1>1
  <2>3. pattern[i + d] = literal[d + 1] /\ pattern[i + d] # "*"
    BY <2>2
  <2>4. R[i + d] = {j \in 1 .. n : text[j] = literal[d + 1] /\ j + 1 \in R[i + (d + 1)]}
    <3> DEFINE e == i + d
    <3>1. e \in 1 .. m /\ pattern[e] = literal[d + 1] /\ pattern[e] # "*" /\ e + 1 = i + (d + 1)
      BY <2>2, <2>3
    <3> HIDE DEF e
    <3>2. R[e] = {j \in 1 .. n : text[j] = literal[d + 1] /\ j + 1 \in R[e + 1]}
      <4>1. R[e] = RowOf(R, pattern, text, e)
        BY <3>1 DEF AreRows
      <4>2. RowOf(R, pattern, text, e) = {j \in 1 .. n : text[j] = pattern[e] /\ j + 1 \in R[e + 1]}
        BY <3>1, Zenon DEF RowOf
      <4> QED  BY <3>1, <4>1, <4>2
    <3> QED  BY <3>1, <3>2 DEF e
  <2>5. k + d + 1 \in R[i + d] <=> /\ k + (d + 1) <= n /\ text[k + (d + 1)] = literal[d + 1]
                                   /\ k + (d + 1) + 1 \in R[i + (d + 1)]
    <3>1. k + d + 1 = k + (d + 1) /\ (k + (d + 1) \in 1 .. n <=> k + (d + 1) <= n)
      BY <1>1
    <3> HIDE DEF n
    <3> QED  BY <2>4, <3>1
  <2>6. Upto(k, d + 1) <=> Upto(k, d) /\ k + (d + 1) <= n /\ text[k + (d + 1)] = literal[d + 1]
    <3>1. \A x \in 1 .. (d + 1) : x \in 1 .. d \/ x = d + 1
      OBVIOUS
    <3>2. d + 1 \in 1 .. (d + 1) /\ \A x \in 1 .. d : x \in 1 .. (d + 1)
      OBVIOUS
    <3>3. k + (d + 1) <= n => k + d <= n
      BY <1>1
    <3> HIDE DEF n
    <3> QED  BY <3>1, <3>2, <3>3
  <2> HIDE DEF Upto
  <2> QED  BY <2>1, <2>5, <2>6
<1>4. \A d \in Nat : d \in T
  <2> HIDE DEF T
  <2> QED  BY <1>2, <1>3, SetInduction
<1>5. \A k \in 0 .. n : Upto(k, l) <=> StandsAt(literal, text, k)
  BY DEF StandsAt
<1>6. \A k \in 0 .. n : k + 1 \in R[i] <=> Upto(k, l) /\ k + l + 1 \in R[i + l]
  <2>1. l \in T /\ l <= l
    <3> HIDE DEF T
    <3> QED  BY <1>1, <1>4
  <2> HIDE DEF Upto
  <2> QED  BY <2>1
<1> HIDE DEF Upto
<1> QED  BY <1>5, <1>6

LEMMA AppendIsNotEmpty == \A S : \A s \in Seq(S), x \in S : Append(s, x) # <<>>
<1> SUFFICES ASSUME NEW S, NEW s \in Seq(S), NEW x \in S PROVE Append(s, x) # <<>>
  OBVIOUS
<1>1. Len(Append(s, x)) = Len(s) + 1 /\ Len(s) \in Nat
  OBVIOUS
<1>2. Len(<<>>) = 0
  OBVIOUS
<1>3. Len(Append(s, x)) # 0
  BY <1>1
<1> QED  BY <1>2, <1>3, Zenon

(* The segments cut the first k characters of a pattern at b.               *)
Cut(segs, pattern, k, b) ==
  /\ b[1] = 1 /\ b[Len(segs) + 1] = k + 1
  /\ \A i \in 1 .. Len(segs) :
       IF segs[i] = Wildcard
       THEN pattern[b[i]] = "*" /\ b[i + 1] = b[i] + 1
       ELSE /\ b[i + 1] = b[i] + Len(segs[i])
            /\ \A x \in 1 .. Len(segs[i]) :
                 pattern[b[i] + x - 1] = segs[i][x] /\ segs[i][x] # "*"
            /\ i > 1 => segs[i - 1] = Wildcard

LEMMA CutGrows ==
  ASSUME NEW S, NEW pattern \in Seq(S), NEW k \in Nat, k + 1 <= Len(pattern),
         NEW segs \in Seq(Seq(S)), NEW b \in [1 .. (Len(segs) + 1) -> 1 .. (k + 1)],
         Cut(segs, pattern, k, b)
  PROVE  LET grown == AddCharacter(segs, pattern[k + 1])
         IN  /\ grown \in Seq(Seq(S))
             /\ \E c \in [1 .. (Len(grown) + 1) -> 1 .. (k + 2)] : Cut(grown, pattern, k + 1, c)
<1> DEFINE n == Len(segs)
           ch == pattern[k + 1]
           grown == AddCharacter(segs, ch)
<1>1. n \in Nat /\ DOMAIN segs = 1 .. n /\ ch \in S /\ k + 1 \in 1 .. Len(pattern)
      /\ \A i \in 1 .. n : segs[i] \in Seq(S)
  OBVIOUS
<1>2. CASE ch # "*" /\ segs # <<>> /\ Last(segs) # Wildcard
  <2>1. n \in 1 .. n /\ segs[n] # Wildcard /\ segs[n] \in Seq(S)
    BY <1>1, <1>2 DEF Last
  <2> DEFINE longer == Append(segs[n], ch)
             c == [b EXCEPT ![n + 1] = k + 2]
  <2>2. longer \in Seq(S) /\ Len(longer) = Len(segs[n]) + 1 /\ longer # Wildcard
        /\ (\A x \in 1 .. Len(segs[n]) : longer[x] = segs[n][x]) /\ longer[Len(segs[n]) + 1] = ch
    <3> DEFINE s == segs[n]
    <3>1. s \in Seq(S) /\ ch \in S
      BY <1>1, <2>1
    <3> HIDE DEF s, ch
    <3>2. /\ Append(s, ch) \in Seq(S) /\ Len(Append(s, ch)) = Len(s) + 1
          /\ (\A x \in 1 .. Len(s) : Append(s, ch)[x] = s[x]) /\ Append(s, ch)[Len(s) + 1] = ch
      BY <3>1
    <3>3. Append(s, ch) # <<>>
      BY <3>1, AppendIsNotEmpty
    <3> QED  BY <3>2, <3>3 DEF s, Wildcard
  <2>3. grown = [segs EXCEPT ![n] = longer]
    BY <1>2 DEF AddCharacter
  <2> HIDE DEF longer
  <2>4. grown \in Seq(Seq(S)) /\ Len(grown) = n
        /\ \A i \in 1 .. n : grown[i] = IF i = n THEN longer ELSE segs[i]
    BY <2>1, <2>2, <2>3, ExceptSeq
  <2>5. c \in [1 .. (n + 1) -> 1 .. (k + 2)] /\ c[n + 1] = k + 2
        /\ \A i \in 1 .. n : c[i] = b[i]
    <3>1. b \in [1 .. (n + 1) -> 1 .. (k + 1)] /\ \A i \in 1 .. (n + 1) : b[i] \in 1 .. (k + 2)
      <4>1. 1 .. (k + 1) \subseteq 1 .. (k + 2) /\ b \in [1 .. (n + 1) -> 1 .. (k + 1)]
        OBVIOUS
      <4> HIDE DEF n, grown
      <4> QED  BY <4>1
    <3>2. n + 1 \in 1 .. (n + 1) /\ k + 2 \in 1 .. (k + 2) /\ \A i \in 1 .. n : i \in 1 .. (n + 1) /\ i # n + 1
      BY <1>1
    <3> HIDE DEF n
    <3> QED  BY <3>1, <3>2
  <2> HIDE DEF grown, c
  <2>6. \A i \in 1 .. n : grown[i] = Wildcard <=> segs[i] = Wildcard
    BY <2>1, <2>2, <2>4
  <2>7. c[1] = 1
    BY <1>1, <2>1, <2>5 DEF Cut
  <2>8. ASSUME NEW i \in 1 .. n
        PROVE  IF grown[i] = Wildcard
               THEN pattern[c[i]] = "*" /\ c[i + 1] = c[i] + 1
               ELSE /\ c[i + 1] = c[i] + Len(grown[i])
                    /\ \A x \in 1 .. Len(grown[i]) :
                         pattern[c[i] + x - 1] = grown[i][x] /\ grown[i][x] # "*"
                    /\ i > 1 => grown[i - 1] = Wildcard
    <3>1. i > 1 => i - 1 \in 1 .. n
      BY <1>1
    <3>2. CASE i # n
      <4>1. i + 1 \in 1 .. n
        <5> HIDE DEF n
        <5> QED  BY <1>1, <3>2
      <4>2. c[i] = b[i] /\ c[i + 1] = b[i + 1] /\ grown[i] = segs[i]
        BY <2>4, <2>5, <3>2, <4>1
      <4>3. IF segs[i] = Wildcard
            THEN pattern[b[i]] = "*" /\ b[i + 1] = b[i] + 1
            ELSE /\ b[i + 1] = b[i] + Len(segs[i])
                 /\ \A x \in 1 .. Len(segs[i]) :
                      pattern[b[i] + x - 1] = segs[i][x] /\ segs[i][x] # "*"
                 /\ i > 1 => segs[i - 1] = Wildcard
        BY DEF Cut
      <4> HIDE DEF n
      <4> QED  BY <2>6, <3>1, <4>2, <4>3
    <3>3. CASE i = n
      <4>1. b[n + 1] = k + 1 /\ b[n + 1] = b[n] + Len(segs[n])
        BY <2>1 DEF Cut
      <4>2. c[n + 1] = c[n] + Len(longer) /\ c[n] + (Len(segs[n]) + 1) - 1 = k + 1
        <5>1. b[n] \in Nat /\ Len(segs[n]) \in Nat /\ c[n] = b[n]
          BY <2>1, <2>5
        <5> QED  BY <2>2, <2>5, <4>1, <5>1, SMTT(30)
      <4>3. ASSUME NEW x \in 1 .. Len(longer)
            PROVE  pattern[c[n] + x - 1] = longer[x] /\ longer[x] # "*"
        <5>1. x \in 1 .. Len(segs[n]) \/ x = Len(segs[n]) + 1
          BY <2>1, <2>2, SMTT(30)
        <5>2. CASE x \in 1 .. Len(segs[n])
          <6>1. pattern[b[n] + x - 1] = segs[n][x] /\ segs[n][x] # "*"
            BY <2>1, <5>2 DEF Cut
          <6> QED  BY <2>1, <2>2, <2>5, <5>2, <6>1
        <5>3. CASE x = Len(segs[n]) + 1
          BY <1>2, <2>2, <4>2, <5>3
        <5> QED  BY <5>1, <5>2, <5>3
      <4>4. i > 1 => grown[i - 1] = Wildcard
        <5>1. i > 1 => segs[i - 1] = Wildcard
          BY <2>1, <3>3 DEF Cut
        <5> QED  BY <2>6, <3>1, <5>1
      <4>5. grown[n] = longer /\ ~(grown[n] = Wildcard)
        BY <2>1, <2>2, <2>4
      <4> HIDE DEF n
      <4> QED  BY <3>3, <4>2, <4>3, <4>4, <4>5
    <3> QED  BY <3>2, <3>3
  <2>9. c[Len(grown) + 1] = (k + 1) + 1
    BY <2>4, <2>5
  <2>10. Cut(grown, pattern, k + 1, c)
    BY <2>4, <2>7, <2>8, <2>9 DEF Cut
  <2> HIDE DEF n
  <2> QED  BY <2>4, <2>5, <2>10 DEF grown
<1>3. ASSUME NEW last \in Seq(S), grown = Append(segs, last),
             \/ last = Wildcard /\ ch = "*"
             \/ last = <<ch>> /\ ch # "*" /\ (segs = <<>> \/ Last(segs) = Wildcard)
      PROVE  /\ grown \in Seq(Seq(S))
             /\ \E c \in [1 .. (Len(grown) + 1) -> 1 .. (k + 2)] : Cut(grown, pattern, k + 1, c)
  <2> DEFINE c == [i \in 1 .. (n + 2) |-> IF i = n + 2 THEN k + 2 ELSE b[i]]
  <2>1. grown \in Seq(Seq(S)) /\ Len(grown) = n + 1 /\ grown[n + 1] = last
        /\ \A i \in 1 .. n : grown[i] = segs[i]
    BY <1>1, <1>3
  <2>2. c \in [1 .. (n + 2) -> 1 .. (k + 2)] /\ c[n + 2] = k + 2
        /\ \A i \in 1 .. (n + 1) : c[i] = b[i]
    <3>1. b \in [1 .. (n + 1) -> 1 .. (k + 1)] /\ \A i \in 1 .. (n + 1) : b[i] \in 1 .. (k + 2)
      <4>1. 1 .. (k + 1) \subseteq 1 .. (k + 2) /\ b \in [1 .. (n + 1) -> 1 .. (k + 1)]
        OBVIOUS
      <4> HIDE DEF n, grown
      <4> QED  BY <4>1
    <3>2. /\ n + 2 \in 1 .. (n + 2) /\ k + 2 \in 1 .. (k + 2)
          /\ \A i \in 1 .. (n + 2) : i = n + 2 \/ i \in 1 .. (n + 1)
          /\ \A i \in 1 .. (n + 1) : i \in 1 .. (n + 2) /\ i # n + 2
      BY <1>1
    <3> HIDE DEF n
    <3> QED  BY <3>1, <3>2
  <2> HIDE DEF c, grown
  <2>3. c[1] = 1 /\ c[n + 1] = k + 1
    BY <1>1, <2>2, SMTT(30) DEF Cut
  <2>4. ASSUME NEW i \in 1 .. (n + 1)
        PROVE  IF grown[i] = Wildcard
               THEN pattern[c[i]] = "*" /\ c[i + 1] = c[i] + 1
               ELSE /\ c[i + 1] = c[i] + Len(grown[i])
                    /\ \A x \in 1 .. Len(grown[i]) :
                         pattern[c[i] + x - 1] = grown[i][x] /\ grown[i][x] # "*"
                    /\ i > 1 => grown[i - 1] = Wildcard
    <3>1. CASE i # n + 1
      <4>1. i \in 1 .. n /\ i + 1 \in 1 .. (n + 1) /\ i \in 1 .. (n + 1) /\ (i > 1 => i - 1 \in 1 .. n)
        BY <1>1, <3>1
      <4>2. c[i] = b[i] /\ c[i + 1] = b[i + 1] /\ grown[i] = segs[i]
            /\ (i > 1 => grown[i - 1] = segs[i - 1])
        BY <2>1, <2>2, <4>1
      <4>3. IF segs[i] = Wildcard
            THEN pattern[b[i]] = "*" /\ b[i + 1] = b[i] + 1
            ELSE /\ b[i + 1] = b[i] + Len(segs[i])
                 /\ \A x \in 1 .. Len(segs[i]) :
                      pattern[b[i] + x - 1] = segs[i][x] /\ segs[i][x] # "*"
                 /\ i > 1 => segs[i - 1] = Wildcard
        BY <4>1 DEF Cut
      <4> HIDE DEF n
      <4> QED  BY <4>1, <4>2, <4>3
    <3>2. CASE i = n + 1
      <4>1. c[i] = k + 1 /\ c[i + 1] = k + 2 /\ grown[i] = last
        <5>1. i + 1 = n + 2
          BY <1>1, <3>2
        <5> QED  BY <2>1, <2>2, <2>3, <3>2, <5>1
      <4>2. CASE last = Wildcard /\ ch = "*"
        BY <4>1, <4>2
      <4>3. CASE last = <<ch>> /\ ch # "*" /\ (segs = <<>> \/ Last(segs) = Wildcard)
        <5>1. last # Wildcard /\ Len(last) = 1 /\ last[1] = ch
          BY <4>3 DEF Wildcard
        <5>2. i > 1 => grown[i - 1] = Wildcard
          <6> SUFFICES ASSUME i > 1 PROVE grown[i - 1] = Wildcard
            OBVIOUS
          <6>1. i - 1 = n /\ n \in 1 .. n /\ segs # <<>>
            BY <1>1, <3>2
          <6> QED  BY <2>1, <4>3, <6>1 DEF Last
        <5>3. \A x \in 1 .. 1 : x = 1
          OBVIOUS
        <5>4. (k + 1) + 1 - 1 = k + 1 /\ (k + 1) + 1 = k + 2
          OBVIOUS
        <5> QED  BY <4>1, <4>3, <5>1, <5>2, <5>3, <5>4
      <4> QED  BY <1>3, <4>2, <4>3
    <3> QED  BY <3>1, <3>2
  <2>5. c[Len(grown) + 1] = (k + 1) + 1 /\ Len(grown) + 1 = n + 2
    BY <1>1, <2>1, <2>2
  <2>6. Cut(grown, pattern, k + 1, c)
    BY <2>1, <2>3, <2>4, <2>5 DEF Cut
  <2> QED  BY <2>1, <2>2, <2>5, <2>6
<1>4. CASE ch = "*"
  <2>1. grown = Append(segs, Wildcard) /\ Wildcard \in Seq(S)
    BY <1>4 DEF AddCharacter, Wildcard
  <2> HIDE DEF grown
  <2> QED  BY <1>3, <1>4, <2>1 DEF grown
<1>5. CASE ch # "*" /\ (segs = <<>> \/ Last(segs) = Wildcard)
  <2>1. grown = Append(segs, <<ch>>) /\ <<ch>> \in Seq(S)
    <3>1. grown = Append(segs, <<ch>>)
      BY <1>5 DEF AddCharacter
    <3>2. <<ch>> \in Seq(S)
      <4>1. ch \in S
        BY <1>1
      <4> HIDE DEF ch
      <4> QED  BY <4>1
    <3> QED  BY <3>1, <3>2
  <2> HIDE DEF grown
  <2> QED  BY <1>3, <1>5, <2>1 DEF grown
<1> QED  BY <1>2, <1>4, <1>5

LEMMA SegmentsCut ==
  ASSUME NEW S, NEW selector \in Seq(S)
  PROVE  /\ Segments(selector) \in Seq(Seq(S))
         /\ \E b \in [1 .. (Len(Segments(selector)) + 1) -> 1 .. (Len(selector) + 1)] :
              Cut(Segments(selector), selector, Len(selector), b)
<1> DEFINE m == Len(selector)
<1>1. m \in Nat
  OBVIOUS
<1>2. PICK W \in [0 .. m -> Seq(Seq(S))] :
        /\ W[0] = <<>>
        /\ \A k \in 1 .. m : W[k] = AddCharacter(W[k - 1], selector[k])
        /\ Segments(selector) = W[m]
  BY SegmentsFold
<1> DEFINE IsCut(k) == \E b \in [1 .. (Len(W[k]) + 1) -> 1 .. (k + 1)] : Cut(W[k], selector, k, b)
           T == {k \in Nat : k <= m => IsCut(k)}
<1>3. 0 \in T
  <2> DEFINE b == [i \in 1 .. 1 |-> 1]
  <2>1. b \in [1 .. 1 -> 1 .. 1] /\ b[1] = 1
    OBVIOUS
  <2> HIDE DEF b
  <2>2. W[0] = <<>> /\ Len(W[0]) = 0 /\ Len(W[0]) + 1 = 1 /\ 0 + 1 = 1
    BY <1>2
  <2>3. Cut(W[0], selector, 0, b)
    BY <2>1, <2>2 DEF Cut
  <2>4. b \in [1 .. (Len(W[0]) + 1) -> 1 .. (0 + 1)]
    BY <2>1, <2>2
  <2> QED  BY <2>3, <2>4
<1>4. ASSUME NEW k \in Nat, k \in T PROVE k + 1 \in T
  <2> SUFFICES ASSUME k + 1 <= m PROVE IsCut(k + 1)
    OBVIOUS
  <2>1. k \in 0 .. m /\ k + 1 \in 1 .. m /\ (k + 1) - 1 = k /\ (k + 1) + 1 = k + 2 /\ k <= m
    BY <1>1
  <2>2. W[k] \in Seq(Seq(S)) /\ W[k + 1] = AddCharacter(W[k], selector[k + 1])
    BY <1>2, <2>1
  <2>3. PICK b \in [1 .. (Len(W[k]) + 1) -> 1 .. (k + 1)] : Cut(W[k], selector, k, b)
    BY <1>4, <2>1
  <2> HIDE DEF IsCut
  <2>4. \E c \in [1 .. (Len(W[k + 1]) + 1) -> 1 .. (k + 2)] : Cut(W[k + 1], selector, k + 1, c)
    BY <2>2, <2>3, CutGrows
  <2> QED  BY <2>1, <2>4 DEF IsCut
<1>5. \A k \in Nat : k \in T
  <2> HIDE DEF T
  <2> QED  BY <1>3, <1>4, SetInduction
<1>6. IsCut(m)
  <2>1. m \in T /\ m <= m
    <3> HIDE DEF T
    <3> QED  BY <1>1, <1>5
  <2> HIDE DEF IsCut
  <2> QED  BY <2>1
<1>7. W[m] \in Seq(Seq(S))
  BY <1>1
<1> QED  BY <1>2, <1>6, <1>7


(* How much of the text each of the segments leaves consumed.               *)
Consumed(segs, text) ==
  FoldLeft(LAMBDA pos, index : Consume(segs, text, pos, index), 0, [i \in DOMAIN segs |-> i])

Walks(W, segs, text) ==
  W[0] = 0 /\ \A k \in 1 .. Len(segs) : W[k] = Consume(segs, text, W[k - 1], k)

LEMMA ConsumeFold ==
  ASSUME NEW S, NEW text \in Seq(S), NEW segs \in Seq(Seq(S))
  PROVE  \E W \in [0 .. Len(segs) -> -1 .. Len(text)] :
           Walks(W, segs, text) /\ Consumed(segs, text) = W[Len(segs)]
<1> DEFINE n == Len(segs)
           indexes == [i \in DOMAIN segs |-> i]
           I == 1 .. n
           A == -1 .. Len(text)
           F == [k \in I |-> [x \in A |-> Consume(segs, text, x, indexes[k])]]
           Solves(it) == it = [s \in SUBSET DOMAIN indexes |->
                                 IF s = {} THEN 0
                                 ELSE Consume(segs, text, it[s \ {Max(s)}], indexes[Max(s)])]
           chosen == CHOOSE it : Solves(it)
<1>1. n \in Nat /\ DOMAIN indexes = I /\ \A k \in I : indexes[k] = k
  OBVIOUS
<1>2. ASSUME NEW x \in A, NEW k \in I PROVE Consume(segs, text, x, indexes[k]) \in A
  <2>1. segs[k] \in Seq(S) /\ indexes[k] = k /\ (k = 1 => 1 \in 1 .. Len(segs))
    BY <1>1
  <2>2. Failed \in A /\ Len(text) \in Nat
    BY DEF Failed
  <2>3. CASE x = Failed
    BY <2>1, <2>2, <2>3 DEF Consume
  <2>4. CASE x # Failed
    <3>1. x \in 0 .. Len(text)
      BY <2>4 DEF Failed
    <3>2. IsPrefix(segs[k], text) => Len(segs[k]) \in A
      BY <2>1, <2>2 DEF IsPrefix
    <3>3. FindFrom(text, x, segs[k]) \in A
      <4>1. \A j \in x .. Len(text) : StandsAt(segs[k], text, j) => j + Len(segs[k]) \in A
        BY <2>1, <2>2, <3>1 DEF StandsAt
      <4> DEFINE lit == segs[k]
      <4>2. lit \in Seq(S)
        BY <2>1
      <4> HIDE DEF A, lit
      <4>3. FindFrom(text, x, lit) = Failed
              \/ \E j \in x .. Len(text) :
                   StandsAt(lit, text, j) /\ FindFrom(text, x, lit) = j + Len(lit)
        BY <3>1, <4>2, FindsFirst
      <4> QED  BY <2>2, <4>1, <4>3 DEF lit
    <3> HIDE DEF A
    <3> QED  BY <2>1, <2>2, <3>2, <3>3 DEF Consume
  <2> QED  BY <2>3, <2>4
<1>3. F \in [I -> [A -> A]] /\ \A k \in I : \A x \in A : F[k][x] = Consume(segs, text, x, indexes[k])
  <2> HIDE DEF A
  <2> QED  BY <1>2
<1>4. PICK it \in [SUBSET I -> A] : Folds(it, F, 0, n)
  <2>1. 0 \in A
    OBVIOUS
  <2> HIDE DEF A, F
  <2> QED  BY <1>1, <1>3, <2>1, FoldExists
<1>5. Solves(it)
  <2>1. ASSUME NEW s \in SUBSET I, s # {}
        PROVE  it[s] = Consume(segs, text, it[s \ {Max(s)}], indexes[Max(s)])
    <3>1. Max(s) = Top(s)
      BY DEF Max, Top
    <3>2. Top(s) \in I
      BY <1>1, <2>1, TopOf
    <3>3. it[s \ {Top(s)}] \in A
      OBVIOUS
    <3>4. it[s] = F[Top(s)][it[s \ {Top(s)}]]
      BY <1>4, <2>1 DEF Folds
    <3>5. F[Top(s)][it[s \ {Top(s)}]] = Consume(segs, text, it[s \ {Top(s)}], indexes[Top(s)])
      <4> HIDE DEF F, A, I
      <4> QED  BY <1>3, <3>2, <3>3
    <3> HIDE DEF F, A, I
    <3> QED  BY <3>1, <3>4, <3>5
  <2>2. it[{}] = 0
    BY <1>4 DEF Folds
  <2>3. it = [s \in SUBSET DOMAIN indexes |-> it[s]]
    BY <1>1
  <2> HIDE DEF I, A
  <2> QED  BY <1>1, <2>1, <2>2, <2>3
<1>6. Solves(chosen)
  <2> HIDE DEF Solves
  <2> QED  BY <1>5
<1>7. Consumed(segs, text) = chosen[DOMAIN indexes]
  BY DEF Consumed, FoldLeft, MapThenFoldSet
<1> HIDE DEF chosen
<1>8. LeadsTo(A, F, 0, n, chosen[1 .. n])
  <2>1. 0 \in A /\ chosen[{}] = 0
    <3>1. 0 \in A
      OBVIOUS
    <3>2. chosen[{}] = 0
      BY <1>6
    <3> QED  BY <3>1, <3>2
  <2>2. ASSUME NEW s \in SUBSET I, s # {}, chosen[s \ {Top(s)}] \in A
        PROVE  chosen[s] = F[Top(s)][chosen[s \ {Top(s)}]]
    <3>1. Max(s) = Top(s)
      BY DEF Max, Top
    <3>2. Top(s) \in I
      BY <1>1, <2>2, TopOf
    <3>3. chosen[s] = Consume(segs, text, chosen[s \ {Max(s)}], indexes[Max(s)])
      BY <1>1, <1>6, <2>2
    <3> HIDE DEF F, A, I, Solves
    <3> QED  BY <1>3, <2>2, <3>1, <3>2, <3>3
  <2>3. F \in [1 .. n -> [A -> A]] /\ n \in Nat
    BY <1>1, <1>3
  <2>4. \A s \in SUBSET (1 .. n) :
          s # {} /\ chosen[s \ {Top(s)}] \in A => chosen[s] = F[Top(s)][chosen[s \ {Top(s)}]]
    <3> HIDE DEF F, A, Solves
    <3> QED  BY <2>2
  <2> HIDE DEF F, A, Solves, n
  <2> QED  BY <2>1, <2>3, <2>4, FoldWalks
<1>9. PICK W \in [0 .. n -> A] :
        W[0] = 0 /\ W[n] = chosen[1 .. n] /\ \A k \in 1 .. n : W[k] = F[k][W[k - 1]]
  <2> HIDE DEF F, A, n
  <2> QED  BY <1>8 DEF LeadsTo
<1>10. \A k \in 1 .. n : W[k] = Consume(segs, text, W[k - 1], indexes[k])
  <2> TAKE k \in 1 .. n
  <2>1. W[k - 1] \in A
    <3>1. k - 1 \in 0 .. n
      BY <1>1
    <3> HIDE DEF A, n
    <3> QED  BY <1>9, <3>1
  <2>2. W[k] = F[k][W[k - 1]]
    BY <1>9
  <2> HIDE DEF F, A
  <2> QED  BY <1>3, <2>1, <2>2
<1> HIDE DEF F, indexes
<1>11. \A k \in 1 .. n : W[k] = Consume(segs, text, W[k - 1], k)
  BY <1>1, <1>10
<1> HIDE DEF chosen
<1> QED  BY <1>1, <1>7, <1>9, <1>11 DEF Walks


(* A is where the rest of the text matches from a segment on, B from the   *)
(* next one on.                                                             *)
Opens(A, B, n) == A = {j \in 1 .. (n + 1) : \E i \in B : j <= i}
Reads(A, B, literal, text) ==
  \A k \in 0 .. Len(text) :
    k + 1 \in A <=> StandsAt(literal, text, k) /\ k + Len(literal) + 1 \in B
From(A, pos) == \E j \in A : pos + 1 <= j

LEMMA WildcardConsumed ==
  ASSUME NEW S, NEW text \in Seq(S), NEW segs \in Seq(Seq(S)), NEW k \in 1 .. Len(segs),
         NEW pos \in 0 .. Len(text), segs[k] = Wildcard,
         NEW B \in SUBSET (1 .. (Len(text) + 1)), NEW A, Opens(A, B, Len(text))
  PROVE  /\ Consume(segs, text, pos, k) = pos
         /\ pos + 1 \in A <=> From(B, pos)
         /\ From(A, pos) <=> From(B, pos)
<1>1. Consume(segs, text, pos, k) = pos
  BY DEF Consume
<1>2. pos + 1 \in 1 .. (Len(text) + 1) /\ pos + 1 <= pos + 1
  OBVIOUS
<1>3. pos + 1 \in A <=> From(B, pos)
  BY <1>2 DEF Opens, From
<1>4. \A j \in 1 .. (Len(text) + 1) : \A i \in B : pos + 1 <= j /\ j <= i => pos + 1 <= i
  <2>1. B \subseteq Nat /\ 1 .. (Len(text) + 1) \subseteq Nat /\ pos \in Nat
    OBVIOUS
  <2> QED  BY <2>1
<1>5. From(A, pos) => From(B, pos)
  BY <1>4 DEF Opens, From
<1>6. pos + 1 \in A => From(A, pos)
  BY <1>2 DEF From
<1> QED  BY <1>1, <1>3, <1>5, <1>6

LEMMA FirstConsumed ==
  ASSUME NEW S, NEW text \in Seq(S), NEW segs \in Seq(Seq(S)), 1 \in 1 .. Len(segs),
         segs[1] # Wildcard, NEW A, NEW B, Reads(A, B, segs[1], text)
  PROVE  \/ Consume(segs, text, 0, 1) = Failed /\ 1 \notin A
         \/ /\ Consume(segs, text, 0, 1) = Len(segs[1])
            /\ 1 \in A <=> Len(segs[1]) + 1 \in B
<1> DEFINE literal == segs[1]
<1>1. literal \in Seq(S) /\ Len(literal) \in Nat
  OBVIOUS
<1>2. Consume(segs, text, 0, 1) = IF IsPrefix(literal, text) THEN Len(literal) ELSE Failed
  BY DEF Consume, Failed
<1>3. 0 \in 0 .. Len(text) /\ 0 + 1 = 1 /\ 0 + Len(literal) + 1 = Len(literal) + 1
  BY <1>1
<1> HIDE DEF literal
<1>4. IsPrefix(literal, text) <=> StandsAt(literal, text, 0)
  BY <1>1, PrefixStands
<1>5. 1 \in A <=> StandsAt(literal, text, 0) /\ Len(literal) + 1 \in B
  <2>1. Reads(A, B, literal, text)
    BY DEF literal
  <2>2. 0 + 1 \in A <=> StandsAt(literal, text, 0) /\ 0 + Len(literal) + 1 \in B
    BY <1>3, <2>1 DEF Reads
  <2> QED  BY <1>3, <2>2
<1> QED  BY <1>2, <1>4, <1>5 DEF literal

LEMMA NextConsumed ==
  ASSUME NEW S, NEW text \in Seq(S), NEW segs \in Seq(Seq(S)), NEW k \in 1 .. Len(segs),
         k > 1, k < Len(segs), segs[k] # Wildcard, NEW pos \in 0 .. Len(text),
         NEW A \in SUBSET (1 .. (Len(text) + 1)), NEW B \in SUBSET (1 .. (Len(text) + 1)), NEW C,
         Reads(A, B, segs[k], text), Opens(B, C, Len(text)), C \in SUBSET (1 .. (Len(text) + 1))
  PROVE  \/ Consume(segs, text, pos, k) = Failed /\ ~From(A, pos)
         \/ /\ Consume(segs, text, pos, k) \in 0 .. Len(text)
            /\ From(A, pos) <=> Consume(segs, text, pos, k) + 1 \in B
<1> DEFINE n == Len(text)
           literal == segs[k]
           l == Len(literal)
           to == FindFrom(text, pos, literal)
<1>1. literal \in Seq(S) /\ l \in Nat /\ n \in Nat /\ pos \in Nat
  OBVIOUS
<1>2. Consume(segs, text, pos, k) = to
  <2>1. k \in Int /\ Len(segs) \in Int /\ k # 1 /\ k # Len(segs) /\ pos # Failed
    BY DEF Failed
  <2> QED  BY <2>1 DEF Consume
<1>3. \A j \in A : pos + 1 <= j => /\ j - 1 \in 0 .. n /\ j - 1 \in Nat /\ j - 1 >= pos
                                   /\ StandsAt(literal, text, j - 1)
                                   /\ (j - 1) + l + 1 \in B
  <2> SUFFICES ASSUME NEW j \in A, pos + 1 <= j
               PROVE  /\ j - 1 \in 0 .. n /\ j - 1 \in Nat /\ j - 1 >= pos
                      /\ StandsAt(literal, text, j - 1) /\ (j - 1) + l + 1 \in B
    OBVIOUS
  <2>1. j \in 1 .. (n + 1)
    OBVIOUS
  <2> DEFINE q == j - 1
  <2>2. q \in 0 .. n /\ q \in Nat /\ q >= pos /\ q + 1 = j
    BY <1>1, <2>1
  <2>3. Reads(A, B, literal, text)
    OBVIOUS
  <2> HIDE DEF q, literal
  <2>4. StandsAt(literal, text, q) /\ q + l + 1 \in B
    BY <2>2, <2>3 DEF Reads
  <2> QED  BY <2>2, <2>4 DEF q
<1>4. Reads(A, B, literal, text)
  OBVIOUS
<1> HIDE DEF literal, to
<1>5. \/ /\ to = Failed
         /\ \A i \in Nat : i >= pos => ~StandsAt(literal, text, i)
      \/ \E q \in pos .. n :
           /\ StandsAt(literal, text, q) /\ to = q + l
           /\ \A i \in Nat : i >= pos /\ StandsAt(literal, text, i) => q <= i
  BY <1>1, FindsFirst DEF to
<1>6. CASE /\ to = Failed
           /\ \A i \in Nat : i >= pos => ~StandsAt(literal, text, i)
  BY <1>2, <1>3, <1>6 DEF From
<1>7. ASSUME NEW q \in pos .. n, StandsAt(literal, text, q), to = q + l,
             \A i \in Nat : i >= pos /\ StandsAt(literal, text, i) => q <= i
      PROVE  to \in 0 .. n /\ (From(A, pos) <=> to + 1 \in B)
  <2>1. q \in 0 .. n /\ q \in Nat /\ q >= pos /\ q + l + 1 = to + 1 /\ pos + 1 <= q + 1
    BY <1>1, <1>7
  <2>2. to \in 0 .. n
    <3>1. q + l <= n
      BY <1>7 DEF StandsAt
    <3> QED  BY <1>1, <1>7, <2>1, <3>1
  <2>3. ASSUME to + 1 \in B PROVE From(A, pos)
    <3>1. q + 1 \in A
      BY <1>4, <1>7, <2>1, <2>3 DEF Reads
    <3> QED  BY <2>1, <3>1 DEF From
  <2>4. ASSUME NEW j \in A, pos + 1 <= j PROVE to + 1 \in B
    <3>1. q <= j - 1 /\ (j - 1) + l + 1 \in B /\ j - 1 \in Nat
      BY <1>3, <1>7, <2>4
    <3>2. to + 1 <= (j - 1) + l + 1 /\ to + 1 \in 1 .. (n + 1) /\ (j - 1) + l + 1 \in Nat
      BY <1>1, <1>7, <2>2, <3>1
    <3> DEFINE e == (j - 1) + l + 1
               d == to + 1
    <3>3. e \in B /\ d <= e /\ d \in 1 .. (n + 1) /\ e \in Nat
      BY <3>1, <3>2
    <3> HIDE DEF e, d
    <3>4. PICK i \in C : e <= i
      BY <3>3 DEF Opens
    <3>5. i \in Nat /\ d \in Nat
      BY <3>3
    <3>6. d <= i
      BY <3>3, <3>4, <3>5
    <3>7. d \in B
      BY <3>3, <3>6 DEF Opens
    <3> QED  BY <3>7 DEF d
  <2> QED  BY <2>2, <2>3, <2>4 DEF From
<1>8. CASE \E q \in pos .. n :
             /\ StandsAt(literal, text, q) /\ to = q + l
             /\ \A i \in Nat : i >= pos /\ StandsAt(literal, text, i) => q <= i
  BY <1>2, <1>7, <1>8
<1> QED  BY <1>5, <1>6, <1>8

LEMMA LastConsumed ==
  ASSUME NEW S, NEW text \in Seq(S), NEW segs \in Seq(Seq(S)), NEW k \in 1 .. Len(segs),
         k > 1, k = Len(segs), segs[k] # Wildcard, NEW pos \in 0 .. Len(text),
         NEW A \in SUBSET (1 .. (Len(text) + 1)), Reads(A, {Len(text) + 1}, segs[k], text)
  PROVE  Consume(segs, text, pos, k) # Failed <=> From(A, pos)
<1> DEFINE n == Len(text)
           literal == segs[k]
           l == Len(literal)
           at == n - l
<1>1. literal \in Seq(S) /\ l \in Nat /\ n \in Nat /\ pos \in Nat /\ pos <= n /\ pos # Failed
  BY DEF Failed
<1>2. Consume(segs, text, pos, k) =
        IF IsSuffix(literal, SubSeq(text, pos + 1, n)) THEN pos ELSE Failed
  <2>1. k \in Int /\ Len(segs) \in Int /\ k # 1
    OBVIOUS
  <2> QED  BY <1>1, <2>1 DEF Consume
<1>3. Reads(A, {n + 1}, literal, text)
  OBVIOUS
<1> HIDE DEF literal
<1>4. IsSuffix(literal, SubSeq(text, pos + 1, n)) <=> l <= n - pos /\ StandsAt(literal, text, at)
  BY <1>1, SuffixStands
<1>5. ASSUME l <= n - pos, StandsAt(literal, text, at) PROVE From(A, pos)
  <2>1. at \in 0 .. n /\ at + l + 1 = n + 1 /\ pos + 1 <= at + 1
    BY <1>1, <1>5
  <2> HIDE DEF at
  <2>2. at + 1 \in A
    BY <1>3, <1>5, <2>1 DEF Reads
  <2> QED  BY <2>1, <2>2 DEF From
<1>6. ASSUME NEW j \in A, pos + 1 <= j PROVE l <= n - pos /\ StandsAt(literal, text, at)
  <2> DEFINE q == j - 1
  <2>1. j \in 1 .. (n + 1)
    OBVIOUS
  <2>2. q \in 0 .. n /\ q + 1 = j /\ q >= pos
    BY <1>1, <1>6, <2>1
  <2> HIDE DEF q, at, n
  <2>3. StandsAt(literal, text, q) /\ q + l + 1 = n + 1
    BY <1>3, <2>2 DEF Reads, n
  <2>4. q = at /\ l <= n - pos
    <3> HIDE DEF l
    <3>1. q \in Int /\ l \in Int /\ n \in Int /\ pos \in Int
      BY <1>1, <2>2
    <3> QED  BY <2>2, <2>3, <3>1 DEF at, l
  <2> QED  BY <2>3, <2>4
<1> QED  BY <1>1, <1>2, <1>4, <1>5, <1>6 DEF From

LEMMA SegmentRows ==
  ASSUME NEW S, NEW selector \in Seq(S), NEW text \in Seq(S), NEW segs \in Seq(Seq(S)),
         NEW R \in [1 .. (Len(selector) + 1) -> SUBSET (1 .. (Len(text) + 1))],
         AreRows(R, selector, text),
         NEW b \in [1 .. (Len(segs) + 1) -> 1 .. (Len(selector) + 1)],
         Cut(segs, selector, Len(selector), b), NEW k \in 1 .. Len(segs)
  PROVE  /\ R[b[k]] \in SUBSET (1 .. (Len(text) + 1))
         /\ segs[k] = Wildcard => Opens(R[b[k]], R[b[k + 1]], Len(text))
         /\ segs[k] # Wildcard => Reads(R[b[k]], R[b[k + 1]], segs[k], text)
<1> DEFINE m == Len(selector)
           n == Len(text)
           i == b[k]
           e == b[k + 1]
           literal == segs[k]
<1>1. m \in Nat /\ n \in Nat /\ literal \in Seq(S) /\ Len(literal) \in Nat
  OBVIOUS
<1>2. i \in 1 .. (m + 1) /\ e \in 1 .. (m + 1)
  <2>1. k \in 1 .. (Len(segs) + 1) /\ k + 1 \in 1 .. (Len(segs) + 1)
    OBVIOUS
  <2> QED  BY <2>1
<1>3. IF literal = Wildcard
      THEN selector[i] = "*" /\ e = i + 1
      ELSE /\ e = i + Len(literal)
           /\ \A x \in 1 .. Len(literal) : selector[i + x - 1] = literal[x] /\ literal[x] # "*"
  BY DEF Cut
<1>4. R[i] \in SUBSET (1 .. (n + 1))
  <2> HIDE DEF i, e
  <2> QED  BY <1>2
<1> HIDE DEF i, e, literal
<1>5. CASE literal = Wildcard
  <2>1. i \in 1 .. m
    <3> HIDE DEF m
    <3> QED  BY <1>1, <1>2, <1>3, <1>5
  <2>2. R[i] = RowOf(R, selector, text, i)
    BY <2>1 DEF AreRows
  <2>3. RowOf(R, selector, text, i) = {j \in 1 .. (n + 1) : \E x \in R[i + 1] : j <= x}
    BY <1>3, <1>5, Zenon DEF RowOf
  <2>4. Opens(R[i], R[e], n)
    BY <1>3, <1>5, <2>2, <2>3 DEF Opens
  <2> QED  BY <1>4, <1>5, <2>4 DEF i, e, literal
<1>6. CASE literal # Wildcard
  <2>1. i + Len(literal) <= m + 1
    <3> HIDE DEF m
    <3> QED  BY <1>1, <1>2, <1>3, <1>6
  <2>2. \A x \in 1 .. Len(literal) : selector[i + x - 1] = literal[x] /\ literal[x] # "*"
    BY <1>3, <1>6
  <2>3. \A q \in 0 .. n : q + 1 \in R[i] <=> /\ StandsAt(literal, text, q)
                                             /\ q + Len(literal) + 1 \in R[i + Len(literal)]
    BY <1>1, <1>2, <2>1, <2>2, LiteralRows, ZenonT(60)
  <2>4. Reads(R[i], R[e], literal, text)
    BY <1>3, <1>6, <2>3 DEF Reads
  <2> QED  BY <1>4, <1>6, <2>4 DEF i, e, literal
<1> QED  BY <1>5, <1>6

(* A pattern with a wildcard is not one literal.                            *)
LEMMA WildcardSegment ==
  ASSUME NEW S, NEW selector \in Seq(S), NEW segs \in Seq(Seq(S)),
         NEW b \in [1 .. (Len(segs) + 1) -> 1 .. (Len(selector) + 1)],
         Cut(segs, selector, Len(selector), b), HasWildcard(selector)
  PROVE  Len(segs) > 0 /\ (Len(segs) = 1 => segs[1] = Wildcard)
<1> DEFINE m == Len(selector)
<1>1. PICK x \in 1 .. m : selector[x] = "*"
  <2>1. DOMAIN selector = 1 .. m
    OBVIOUS
  <2> QED  BY <2>1 DEF HasWildcard, ToSet
<1>2. m \in Nat /\ x \in Nat /\ m >= 1 /\ Len(segs) \in Nat
  OBVIOUS
<1>3. b[1] = 1 /\ b[Len(segs) + 1] = m + 1
  BY DEF Cut
<1>4. Len(segs) # 0
  <2> SUFFICES ASSUME Len(segs) = 0 PROVE FALSE
    OBVIOUS
  <2>1. Len(segs) + 1 = 1
    OBVIOUS
  <2>2. m + 1 = 1
    BY <1>3, <2>1
  <2> QED  BY <1>2, <2>2
<1>5. ASSUME Len(segs) = 1, segs[1] # Wildcard PROVE FALSE
  <2>1. 1 \in 1 .. Len(segs) /\ 1 + 1 = Len(segs) + 1
    BY <1>5
  <2>2. /\ b[1 + 1] = b[1] + Len(segs[1])
        /\ \A y \in 1 .. Len(segs[1]) : selector[b[1] + y - 1] = segs[1][y] /\ segs[1][y] # "*"
    BY <1>5, <2>1 DEF Cut
  <2>3. Len(segs[1]) \in Nat
    BY <2>1
  <2> DEFINE l == Len(segs[1])
  <2>4. m + 1 = 1 + l
    BY <1>3, <2>1, <2>2
  <2>5. x \in 1 .. l /\ 1 + x - 1 = x
    <3> HIDE DEF m, l
    <3> QED  BY <1>1, <1>2, <2>3, <2>4 DEF l
  <2> QED  BY <1>1, <1>3, <2>2, <2>5
<1> QED  BY <1>2, <1>4, <1>5

LEMMA PatternIsGlob ==
  ASSUME NEW S, NEW selector \in Seq(S), NEW text \in Seq(S), HasWildcard(selector)
  PROVE  PatternMatches(selector, text) <=> Glob(selector, text)
<1> DEFINE m == Len(selector)
           n == Len(text)
           segs == Segments(selector)
           K == Len(segs)
<1>1. segs \in Seq(Seq(S))
  BY SegmentsCut
<1>2. PICK b \in [1 .. (Len(segs) + 1) -> 1 .. (m + 1)] : Cut(segs, selector, m, b)
  BY SegmentsCut
<1>3. PICK R \in [1 .. (m + 1) -> SUBSET (1 .. (n + 1))] :
        AreRows(R, selector, text) /\ (Glob(selector, text) <=> 1 \in R[1])
  BY GlobRows
<1>4. PatternMatches(selector, text) <=> Consumed(segs, text) # Failed
  BY Zenon DEF PatternMatches, Consumed
<1> HIDE DEF segs
<1>5. PICK W \in [0 .. Len(segs) -> -1 .. Len(text)] :
        Walks(W, segs, text) /\ Consumed(segs, text) = W[Len(segs)]
  BY <1>1, ConsumeFold
<1>6. W[0] = 0 /\ (\A k \in 1 .. K : W[k] = Consume(segs, text, W[k - 1], k))
      /\ Consumed(segs, text) = W[K]
  BY <1>5 DEF Walks
<1> DEFINE row(k) == R[b[k]]
           Matched == 1 \in R[1]
           Ends(k) == k > 0 /\ segs[k] = Wildcard
           Holds(k) == IF W[k] = Failed THEN ~Matched
                       ELSE Matched <=> IF Ends(k) THEN From(row(k + 1), W[k])
                                        ELSE W[k] + 1 \in row(k + 1)
           T == {k \in Nat : k < K \/ (k = K /\ segs[K] = Wildcard) => Holds(k)}
<1>7. K \in Nat /\ n \in Nat /\ m \in Nat /\ \A k \in 1 .. K : segs[k] \in Seq(S)
  BY <1>1
<1>8. \A k \in 0 .. K : W[k] \in -1 .. n
  BY <1>6
<1>9. \A k \in 0 .. K : W[k] # Failed => W[k] \in 0 .. n
  BY <1>7, <1>8 DEF Failed
<1>10. ASSUME NEW k \in 0 .. (K - 1)
       PROVE  /\ W[k + 1] = Consume(segs, text, W[k], k + 1)
              /\ k + 1 \in 1 .. K /\ k \in 0 .. K /\ (k + 1) + 1 = k + 2
  <2>1. k + 1 \in 1 .. K /\ (k + 1) - 1 = k /\ k \in 0 .. K /\ (k + 1) + 1 = k + 2
    BY <1>7
  <2> QED  BY <1>6, <2>1
<1>11. b[1] = 1 /\ b[K + 1] = m + 1 /\ row(1) = R[1] /\ row(K + 1) = {n + 1}
  BY <1>2, <1>3 DEF Cut, AreRows
<1>12. ASSUME NEW k \in 1 .. K
       PROVE  /\ row(k) \in SUBSET (1 .. (n + 1))
              /\ segs[k] = Wildcard => Opens(row(k), row(k + 1), n)
              /\ segs[k] # Wildcard => Reads(row(k), row(k + 1), segs[k], text)
  BY <1>1, <1>2, <1>3, SegmentRows
<1>13. \A k \in 1 .. (K + 1) : row(k) \in SUBSET (1 .. (n + 1))
  <2> SUFFICES ASSUME NEW k \in 1 .. (K + 1) PROVE row(k) \in SUBSET (1 .. (n + 1))
    OBVIOUS
  <2>1. k \in 1 .. K \/ k = K + 1
    BY <1>7
  <2>2. {n + 1} \in SUBSET (1 .. (n + 1))
    BY <1>7
  <2> HIDE DEF row, K, n
  <2> QED  BY <1>11, <1>12, <2>1, <2>2
<1>14. ASSUME NEW k \in 1 .. K, segs[k] # Wildcard, k > 1
       PROVE  segs[k - 1] = Wildcard
  BY <1>2, <1>14 DEF Cut
<1>15. K > 0 /\ (K = 1 => segs[1] = Wildcard)
  BY <1>1, <1>2, WildcardSegment
<1> HIDE DEF row
<1>16. 0 \in T
  <2>1. W[0] # Failed /\ W[0] + 1 = 1 /\ 0 + 1 = 1 /\ ~(0 > 0)
    BY <1>6 DEF Failed
  <2> QED  BY <1>11, <2>1
<1>17. ASSUME NEW k \in Nat, k \in T PROVE k + 1 \in T
  <2> SUFFICES ASSUME k + 1 < K \/ (k + 1 = K /\ segs[K] = Wildcard) PROVE Holds(k + 1)
    OBVIOUS
  <2>1. k < K /\ k \in 0 .. (K - 1)
    BY <1>7
  <2>2. Holds(k)
    BY <1>17, <2>1
  <2>3. W[k + 1] = Consume(segs, text, W[k], k + 1) /\ k + 1 \in 1 .. K /\ k \in 0 .. K
        /\ (k + 1) + 1 = k + 2 /\ k + 1 > 0 /\ k + 2 \in 1 .. (K + 1) /\ k + 1 \in 1 .. (K + 1)
    BY <1>7, <1>10, <2>1
  <2> DEFINE p == W[k]
             q == W[k + 1]
             A == row(k + 1)
             B == row(k + 2)
  <2>4. A \in SUBSET (1 .. (n + 1)) /\ B \in SUBSET (1 .. (n + 1))
    BY <1>13, <2>3
  <2>5. SUFFICES IF q = Failed THEN ~Matched
                 ELSE Matched <=> IF segs[k + 1] = Wildcard THEN From(B, q) ELSE q + 1 \in B
    BY <2>3
  <2>6. CASE p = Failed
    <3>1. q = Failed
      BY <2>3, <2>6 DEF Consume
    <3> QED  BY <2>2, <2>6, <3>1
  <2>7. CASE p # Failed /\ segs[k + 1] = Wildcard
    <3>1. p \in 0 .. n
      BY <1>9, <2>3, <2>7
    <3>2. Opens(A, B, n)
      BY <1>12, <2>3, <2>7
    <3>3. q = p /\ (p + 1 \in A <=> From(B, p)) /\ (From(A, p) <=> From(B, p))
      <4> HIDE DEF p, A, B, q
      <4>1. q = Consume(segs, text, p, k + 1)
        BY <2>3 DEF p, q
      <4>2. /\ Consume(segs, text, p, k + 1) = p
            /\ p + 1 \in A <=> From(B, p)
            /\ From(A, p) <=> From(B, p)
        <5>1. segs \in Seq(Seq(S)) /\ text \in Seq(S) /\ k + 1 \in 1 .. Len(segs)
          BY <1>1, <2>3
        <5>2. p \in 0 .. Len(text) /\ segs[k + 1] = Wildcard
          BY <2>7, <3>1
        <5>3. B \in SUBSET (1 .. (Len(text) + 1)) /\ Opens(A, B, Len(text))
          BY <2>4, <3>2
        <5> QED  BY <5>1, <5>2, <5>3, WildcardConsumed
      <4> QED  BY <4>1, <4>2
    <3> QED  BY <2>2, <2>7, <3>3
  <2>8. CASE p # Failed /\ segs[k + 1] # Wildcard /\ k = 0
    <3>1. p = 0 /\ k + 1 = 1 /\ q = Consume(segs, text, 0, 1) /\ 1 \in 1 .. K /\ A = R[1]
      BY <1>6, <1>11, <2>3, <2>8
    <3>2. Reads(A, B, segs[1], text) /\ segs[1] # Wildcard
      BY <1>12, <2>3, <2>8, <3>1
    <3>3. \/ q = Failed /\ 1 \notin A
          \/ q = Len(segs[1]) /\ (1 \in A <=> Len(segs[1]) + 1 \in B)
      <4> HIDE DEF p, A, B, q
      <4> QED  BY <1>1, <3>1, <3>2, FirstConsumed
    <3>4. Len(segs[1]) # Failed
      BY <1>7, <3>1 DEF Failed
    <3> HIDE DEF p, A, B, q, T, Holds
    <3> QED  BY <2>8, <3>1, <3>3, <3>4
  <2>9. CASE p # Failed /\ segs[k + 1] # Wildcard /\ k > 0
    <3>1. k + 1 < K
      BY <2>9
    <3>2. segs[k] = Wildcard
      <4>1. k + 1 > 1 /\ (k + 1) - 1 = k
        BY <2>9
      <4> QED  BY <1>14, <2>3, <2>9, <4>1
    <3>3. k + 2 \in 1 .. K /\ k + 2 > 1 /\ (k + 2) - 1 = k + 1 /\ k + 3 \in 1 .. (K + 1) /\ (k + 2) + 1 = k + 3
          /\ k + 1 > 1
      BY <1>7, <2>9, <3>1
    <3>4. segs[k + 2] = Wildcard
      BY <1>14, <2>9, <3>3
    <3> DEFINE C == row(k + 3)
    <3>5. Opens(B, C, n) /\ C \in SUBSET (1 .. (n + 1)) /\ Reads(A, B, segs[k + 1], text)
      BY <1>12, <1>13, <2>3, <2>9, <3>3, <3>4
    <3>6. p \in 0 .. n /\ (Matched <=> From(A, p))
      BY <1>9, <2>2, <2>3, <2>9, <3>2
    <3>7. q = Consume(segs, text, p, k + 1)
      BY <2>3
    <3> HIDE DEF p, q, A, B, C, T, Holds
    <3>8. \/ q = Failed /\ ~From(A, p)
          \/ q \in 0 .. n /\ (From(A, p) <=> q + 1 \in B)
      BY <1>1, <2>3, <2>4, <2>9, <3>1, <3>3, <3>5, <3>6, <3>7, NextConsumed
    <3>9. q \in 0 .. n => q # Failed
      BY DEF Failed
    <3> QED  BY <2>9, <3>6, <3>8, <3>9
  <2> QED  BY <2>6, <2>7, <2>8, <2>9
<1>18. \A k \in Nat : k \in T
  <2> HIDE DEF T
  <2> QED  BY <1>16, <1>17, SetInduction
<1>19. CASE segs[K] = Wildcard
  <2>1. Holds(K) /\ K \in 0 .. K
    <3>1. K \in T /\ K \in Nat /\ K \in 0 .. K
      <4> HIDE DEF T
      <4> QED  BY <1>7, <1>18
    <3> QED  BY <1>19, <3>1
  <2>2. W[K] # Failed => From(row(K + 1), W[K])
    <3> SUFFICES ASSUME W[K] # Failed PROVE From({n + 1}, W[K])
      BY <1>11
    <3>1. W[K] \in 0 .. n
      BY <1>9, <2>1
    <3>2. W[K] + 1 <= n + 1
      BY <1>7, <3>1
    <3> QED  BY <3>2 DEF From
  <2> HIDE DEF T
  <2> QED  BY <1>3, <1>4, <1>6, <1>15, <1>19, <2>1, <2>2
<1>20. CASE segs[K] # Wildcard
  <2> DEFINE k == K - 1
             p == W[k]
             q == W[K]
             A == row(K)
  <2>1. k \in Nat /\ k < K /\ k \in 0 .. (K - 1) /\ k + 1 = K /\ k > 0 /\ K > 1 /\ K \in 1 .. K
        /\ k \in 0 .. K
    <3>1. K # 1 /\ K > 0 /\ K \in Nat
      <4> HIDE DEF K
      <4> QED  BY <1>7, <1>15, <1>20
    <3> HIDE DEF K
    <3> QED  BY <3>1
  <2>2. Holds(k)
    <3>1. k \in T
      <4> HIDE DEF T, k
      <4> QED  BY <1>18, <2>1
    <3> HIDE DEF k
    <3> QED  BY <2>1, <3>1
  <2>3. segs[k] = Wildcard
    BY <1>14, <1>20, <2>1
  <2>4. q = Consume(segs, text, p, K)
    <3> HIDE DEF k
    <3> QED  BY <1>10, <2>1
  <2>5. A \in SUBSET (1 .. (n + 1)) /\ Reads(A, {n + 1}, segs[K], text)
    BY <1>11, <1>12, <1>20, <2>1
  <2>6. IF p = Failed THEN ~Matched ELSE Matched <=> From(A, p)
    <3> HIDE DEF k
    <3> QED  BY <2>1, <2>2, <2>3
  <2>7. p # Failed => p \in 0 .. n
    <3> HIDE DEF k
    <3> QED  BY <1>9, <2>1
  <2> HIDE DEF k, p, q, A, T, Holds
  <2>8. q # Failed <=> Matched
    <3>1. CASE p = Failed
      <4>1. q = Failed
        BY <2>4, <3>1 DEF Consume
      <4> QED  BY <2>6, <3>1, <4>1
    <3>2. CASE p # Failed
      <4>1. Consume(segs, text, p, K) # Failed <=> From(A, p)
        BY <1>1, <1>20, <2>1, <2>5, <2>7, <3>2, LastConsumed
      <4> QED  BY <2>4, <2>6, <3>2, <4>1
    <3> QED  BY <3>1, <3>2
  <2> QED  BY <1>3, <1>4, <1>6, <2>8 DEF q
<1> QED  BY <1>19, <1>20

(* A pattern without wildcards matches itself.                              *)
LEMMA ExactIsGlob ==
  ASSUME NEW S, NEW selector \in Seq(S), NEW text \in Seq(S), ~HasWildcard(selector)
  PROVE  Glob(selector, text) <=> text = selector
<1> DEFINE m == Len(selector)
           n == Len(text)
<1>1. PICK R \in [1 .. (m + 1) -> SUBSET (1 .. (n + 1))] :
        AreRows(R, selector, text) /\ (Glob(selector, text) <=> 1 \in R[1])
  BY GlobRows
<1>2. \A x \in 1 .. m : selector[x] # "*"
  <2>1. DOMAIN selector = 1 .. m
    OBVIOUS
  <2> QED  BY <2>1 DEF HasWildcard, ToSet
<1>3. m \in Nat /\ n \in Nat /\ 1 \in 1 .. (m + 1) /\ 1 + m <= m + 1 /\ R[m + 1] = {n + 1}
  BY <1>1 DEF AreRows
<1>4. \A k \in 0 .. n : k + 1 \in R[1] <=> StandsAt(selector, text, k) /\ k + m + 1 \in R[1 + m]
  <2>1. \A x \in 1 .. m : selector[1 + x - 1] = selector[x] /\ selector[x] # "*"
    BY <1>2
  <2>2. AreRows(R, selector, text)
    BY <1>1
  <2> DEFINE i == 1
  <2>3. i \in 1 .. (m + 1) /\ i + Len(selector) <= m + 1
        /\ \A x \in 1 .. Len(selector) : selector[i + x - 1] = selector[x] /\ selector[x] # "*"
    BY <1>3, <2>1
  <2> HIDE DEF i
  <2>4. \A k \in 0 .. n : k + 1 \in R[i] <=> /\ StandsAt(selector, text, k)
                                             /\ k + Len(selector) + 1 \in R[i + Len(selector)]
    BY <2>2, <2>3, LiteralRows, ZenonT(60)
  <2> QED  BY <2>4 DEF i
<1>5. 1 \in R[1] <=> StandsAt(selector, text, 0) /\ m = n
  <2>1. 0 \in 0 .. n /\ 0 + 1 = 1 /\ 0 + m + 1 = m + 1 /\ 1 + m = m + 1 /\ (m + 1 = n + 1 <=> m = n)
    BY <1>3
  <2>2. 0 + 1 \in R[1] <=> StandsAt(selector, text, 0) /\ 0 + m + 1 \in R[1 + m]
    BY <1>4, <2>1
  <2> HIDE DEF m, n
  <2> QED  BY <1>3, <2>1, <2>2
<1>6. StandsAt(selector, text, 0) /\ m = n <=> text = selector
  <2>1. ASSUME StandsAt(selector, text, 0), m = n PROVE text = selector
    <3>1. \A x \in 1 .. m : text[x] = selector[x]
      BY <2>1 DEF StandsAt
    <3> QED  BY <2>1, <3>1, SeqEqual
  <2>2. StandsAt(selector, selector, 0)
    BY DEF StandsAt
  <2> QED  BY <2>1, <2>2
<1> QED  BY <1>1, <1>5, <1>6

LEMMA SelectorGlobs ==
  ASSUME NEW S, NEW selector \in Seq(S), NEW text \in Seq(S)
  PROVE  SelectorMatches(selector, text) <=> Glob(selector, text)
<1>1. CASE HasWildcard(selector)
  BY <1>1, PatternIsGlob DEF SelectorMatches
<1>2. CASE ~HasWildcard(selector)
  BY <1>2, ExactIsGlob DEF SelectorMatches
<1> QED  BY <1>1, <1>2

-----------------------------------------------------------------------------
(* The configuration.                                                      *)

Text == Seq(STRING)
Configs ==
  [provider : DOMAIN CatalogsOf, profile : Profiles,
   overrides : Seq([selector : Text, enabled : BOOLEAN])]

ConfigInv == config \in Configs

LEMMA ConfigInvHolds == Spec => []ConfigInv
<1>1. DefaultConfig \in Configs
  <2>1. <<>> \in Seq([selector : Text, enabled : BOOLEAN])
    OBVIOUS
  <2> QED  BY <2>1, CatalogsAssumption DEF DefaultConfig, Configs, Profiles
<1>2. config \in Configs /\ [Next]_vars => config' \in Configs
  <2> SUFFICES ASSUME config \in Configs, [Next]_vars PROVE config' \in Configs
    OBVIOUS
  <2>1. ASSUME NEW selector \in Text, NEW enabled \in BOOLEAN, Override(selector, enabled)
        PROVE  config' \in Configs
    <3>1. config' = DefaultConfig
            \/ config' = [config EXCEPT !.overrides =
                            Append(@, [selector |-> selector, enabled |-> enabled])]
      BY <2>1 DEF Override
    <3>2. Append(config.overrides, [selector |-> selector, enabled |-> enabled])
            \in Seq([selector : Text, enabled : BOOLEAN])
      BY DEF Configs
    <3> QED  BY <1>1, <3>1, <3>2 DEF Configs
  <2>2. ASSUME NEW provider \in DOMAIN CatalogsOf, NEW profile \in Profiles, Load(provider, profile)
        PROVE  config' \in Configs
    <3>1. config' = DefaultConfig
            \/ config' = [config EXCEPT !.provider = provider, !.profile = profile]
      BY <2>2 DEF Load
    <3> QED  BY <1>1, <3>1 DEF Configs
  <2>3. CASE Edit
    <3>1. <<>> \in Seq([selector : Text, enabled : BOOLEAN])
      OBVIOUS
    <3> QED  BY <2>3, <3>1 DEF Edit, Configs
  <2>4. ASSUME NEW to, ChangeEnvironment(to) PROVE config' \in Configs
    BY <2>4 DEF ChangeEnvironment, configured
  <2>5. CASE AddGlobal \/ AddObject \/ ExtendEnvironment
    <3>1. PICK to : ChangeEnvironment(to)
      BY <2>5 DEF AddGlobal, AddObject, ExtendEnvironment
    <3> QED  BY <2>4, <3>1
  <2>6. CASE Configure \/ LoadDefault \/ Build \/ OperationalError
    BY <1>1, <2>6 DEF Configure, LoadDefault, Build, OperationalError, configured
  <2>7. ASSUME NEW n, Open(n) PROVE config' \in Configs
    BY <1>1, <2>7 DEF Open
  <2>8. ASSUME NEW source, Analyse(source) PROVE config' \in Configs
    BY <2>8 DEF Analyse, configured
  <2>9. ASSUME NEW linkStatus, NEW bounds, Match(linkStatus, bounds) PROVE config' \in Configs
    BY <2>9 DEF Match, configured
  <2>10. ASSUME NEW found, Render(found) PROVE config' \in Configs
    BY <2>10 DEF Render, configured
  <2>11. CASE Report \/ BrokenPipe
    BY <2>11 DEF Report, BrokenPipe, configured
  <2>12. ASSUME NEW partial, NEW messages, NEW failOn, ExitProject(partial, messages, failOn)
         PROVE  config' \in Configs
    BY <2>12 DEF ExitProject, configured
  <2>13. ASSUME NEW failOn, ExitSnippet(failOn) PROVE config' \in Configs
    BY <2>13 DEF ExitSnippet, configured
  <2>14. CASE UNCHANGED vars
    BY <2>14 DEF vars
  <2>15. CASE \E selector \in IF config.overrides = <<>> THEN Selectors ELSE FurtherSelectors :
                \E enabled \in BOOLEAN : Override(selector, enabled)
    BY <2>1, <2>15, SelectorsAssumption DEF Text
  <2> QED  BY <2>2, <2>3, <2>5, <2>6, <2>7, <2>8, <2>9, <2>10, <2>11, <2>12, <2>13, <2>14, <2>15
           DEF Next
<1>3. Init => ConfigInv
  BY <1>1 DEF Init, ConfigInv
<1>4. ConfigInv /\ [Next]_vars => ConfigInv'
  BY <1>2 DEF ConfigInv
<1> QED  BY <1>3, <1>4, PTL DEF Spec

(* An accepted selector selects exactly the ids that its text describes with *)
(* every * replaced by some text (lint/selection.rs: PatternSelector).       *)
THEOREM SelectorIsAlwaysGlob == Spec => []SelectorIsGlob
<1>1. ConfigInv => SelectorIsGlob
  <2> SUFFICES ASSUME ConfigInv, config.overrides # <<>>, NEW id \in RuleIds
               PROVE  SelectorMatches(Last(config.overrides).selector, id)
                        <=> Glob(Last(config.overrides).selector, id)
    BY DEF SelectorIsGlob
  <2> DEFINE o == config.overrides
  <2>1. o \in Seq([selector : Text, enabled : BOOLEAN]) /\ o # <<>>
    BY DEF Configs, ConfigInv
  <2>2. Last(o) \in [selector : Text, enabled : BOOLEAN]
    <3>1. Last(o) = o[Len(o)]
      BY DEF Last
    <3> DEFINE O == [selector : Text, enabled : BOOLEAN]
    <3> HIDE DEF o, O
    <3>2. Len(o) \in 1 .. Len(o) /\ o \in Seq(O)
      BY <2>1 DEF O
    <3>3. o[Len(o)] \in O
      BY <3>2
    <3> QED  BY <3>1, <3>3 DEF O
  <2>3. Last(o).selector \in Seq(STRING) /\ id \in Seq(STRING)
    BY <2>2, SelectorsAssumption DEF Text
  <2> QED  BY <2>3, SelectorGlobs
<1> QED  BY <1>1, ConfigInvHolds, PTL

-----------------------------------------------------------------------------
(* Which rules a selection enables.                                        *)

Overrides == [selector : Text, enabled : BOOLEAN]


LEMMA SelectionFold ==
  ASSUME NEW b, NEW overrides \in Seq(Overrides)
  PROVE  \E W \in [0 .. Len(overrides) -> [baseline : {b}, overrides : Seq(Overrides)]] :
           /\ W[0] = NewSelection(b)
           /\ \A k \in 1 .. Len(overrides) : W[k] = WithOverride(W[k - 1], overrides[k])
           /\ FoldLeft(WithOverride, NewSelection(b), overrides) = W[Len(overrides)]
<1> DEFINE n == Len(overrides)
           I == 1 .. n
           A == [baseline : {b}, overrides : Seq(Overrides)]
           F == [k \in I |-> [x \in A |-> WithOverride(x, overrides[k])]]
           Solves(it) == it = [s \in SUBSET DOMAIN overrides |->
                                 IF s = {} THEN NewSelection(b)
                                 ELSE WithOverride(it[s \ {Max(s)}], overrides[Max(s)])]
           chosen == CHOOSE it : Solves(it)
<1>1. n \in Nat /\ DOMAIN overrides = I
  OBVIOUS
<1>2. ASSUME NEW x \in A, NEW k \in I PROVE WithOverride(x, overrides[k]) \in A
  BY SMTT(30) DEF WithOverride
<1>3. F \in [I -> [A -> A]] /\ \A k \in I : \A x \in A : F[k][x] = WithOverride(x, overrides[k])
  <2> HIDE DEF A
  <2> QED  BY <1>2
<1>4. PICK it \in [SUBSET I -> A] : Folds(it, F, NewSelection(b), n)
  <2>1. NewSelection(b) \in A
    BY DEF NewSelection
  <2> HIDE DEF A, F
  <2> QED  BY <1>1, <1>3, <2>1, FoldExists
<1>5. Solves(it)
  <2>1. ASSUME NEW s \in SUBSET I, s # {}
        PROVE  it[s] = WithOverride(it[s \ {Max(s)}], overrides[Max(s)])
    <3>1. Max(s) = Top(s)
      BY DEF Max, Top
    <3>2. Top(s) \in I
      BY <1>1, <2>1, TopOf
    <3>3. it[s \ {Top(s)}] \in A
      OBVIOUS
    <3>4. it[s] = F[Top(s)][it[s \ {Top(s)}]]
      BY <1>4, <2>1 DEF Folds
    <3>5. F[Top(s)][it[s \ {Top(s)}]] = WithOverride(it[s \ {Top(s)}], overrides[Top(s)])
      <4> HIDE DEF F, A, I
      <4> QED  BY <1>3, <3>2, <3>3
    <3> HIDE DEF F, A, I
    <3> QED  BY <3>1, <3>4, <3>5
  <2>2. it[{}] = NewSelection(b)
    BY <1>4 DEF Folds
  <2>3. it = [s \in SUBSET DOMAIN overrides |-> it[s]]
    BY <1>1
  <2> HIDE DEF I, A
  <2> QED  BY <1>1, <2>1, <2>2, <2>3
<1>6. Solves(chosen)
  <2> HIDE DEF Solves
  <2> QED  BY <1>5
<1>7. FoldLeft(WithOverride, NewSelection(b), overrides) = chosen[DOMAIN overrides]
  BY DEF FoldLeft, MapThenFoldSet
<1> HIDE DEF chosen
<1>8. LeadsTo(A, F, NewSelection(b), n, chosen[1 .. n])
  <2>1. NewSelection(b) \in A /\ chosen[{}] = NewSelection(b)
    <3>1. NewSelection(b) \in A
      BY DEF NewSelection
    <3>2. chosen[{}] = NewSelection(b)
      BY <1>6
    <3> QED  BY <3>1, <3>2
  <2>2. ASSUME NEW s \in SUBSET I, s # {}, chosen[s \ {Top(s)}] \in A
        PROVE  chosen[s] = F[Top(s)][chosen[s \ {Top(s)}]]
    <3>1. Max(s) = Top(s)
      BY DEF Max, Top
    <3>2. Top(s) \in I
      BY <1>1, <2>2, TopOf
    <3>3. chosen[s] = WithOverride(chosen[s \ {Max(s)}], overrides[Max(s)])
      BY <1>1, <1>6, <2>2
    <3> HIDE DEF F, A, I, Solves
    <3> QED  BY <1>3, <2>2, <3>1, <3>2, <3>3
  <2>3. F \in [1 .. n -> [A -> A]] /\ n \in Nat
    BY <1>1, <1>3
  <2>4. \A s \in SUBSET (1 .. n) :
          s # {} /\ chosen[s \ {Top(s)}] \in A => chosen[s] = F[Top(s)][chosen[s \ {Top(s)}]]
    <3> HIDE DEF F, A, Solves
    <3> QED  BY <2>2
  <2> HIDE DEF F, A, Solves, n
  <2> QED  BY <2>1, <2>3, <2>4, FoldWalks
<1>9. PICK W \in [0 .. n -> A] :
        W[0] = NewSelection(b) /\ W[n] = chosen[1 .. n] /\ \A k \in 1 .. n : W[k] = F[k][W[k - 1]]
  <2> HIDE DEF F, A, n
  <2> QED  BY <1>8 DEF LeadsTo
<1>10. \A k \in 1 .. n : W[k] = WithOverride(W[k - 1], overrides[k])
  <2> TAKE k \in 1 .. n
  <2>1. W[k - 1] \in A
    <3>1. k - 1 \in 0 .. n
      BY <1>1
    <3> HIDE DEF A, n
    <3> QED  BY <1>9, <3>1
  <2>2. W[k] = F[k][W[k - 1]]
    BY <1>9
  <2> HIDE DEF F, A
  <2> QED  BY <1>3, <2>1, <2>2
<1> HIDE DEF F
<1> QED  BY <1>1, <1>7, <1>9, <1>10


LEMMA EnabledFold ==
  ASSUME NEW selection, selection.overrides \in Seq(Overrides), NEW rule, InBaseline(selection.baseline, rule) \in BOOLEAN
  PROVE  \E W \in [0 .. Len(selection.overrides) -> BOOLEAN] :
           /\ W[0] = InBaseline(selection.baseline, rule)
           /\ \A k \in 1 .. Len(selection.overrides) : W[k] = (IF SelectorMatches(selection.overrides[k].selector, rule.id) THEN selection.overrides[k].enabled ELSE W[k - 1])
           /\ IsEnabled(selection, rule) = W[Len(selection.overrides)]
<1> DEFINE n == Len(selection.overrides)
           I == 1 .. n
           A == BOOLEAN
           F == [k \in I |-> [x \in A |-> (IF SelectorMatches(selection.overrides[k].selector, rule.id) THEN selection.overrides[k].enabled ELSE x)]]
           Solves(it) == it = [s \in SUBSET DOMAIN selection.overrides |->
                                 IF s = {} THEN InBaseline(selection.baseline, rule)
                                 ELSE (IF SelectorMatches(selection.overrides[Max(s)].selector, rule.id) THEN selection.overrides[Max(s)].enabled ELSE it[s \ {Max(s)}])]
           chosen == CHOOSE it : Solves(it)
<1>1. n \in Nat /\ DOMAIN selection.overrides = I
  OBVIOUS
<1>2. ASSUME NEW x \in A, NEW k \in I PROVE (IF SelectorMatches(selection.overrides[k].selector, rule.id) THEN selection.overrides[k].enabled ELSE x) \in A
  <2>1. selection.overrides[k] \in Overrides
    OBVIOUS
  <2> DEFINE o == selection.overrides[k]
  <2> HIDE DEF o
  <2>2. o.enabled \in BOOLEAN
    BY <2>1 DEF Overrides, o
  <2> QED  BY <2>2, Zenon DEF o
<1>3. F \in [I -> [A -> A]] /\ \A k \in I : \A x \in A : F[k][x] = (IF SelectorMatches(selection.overrides[k].selector, rule.id) THEN selection.overrides[k].enabled ELSE x)
  <2> HIDE DEF A
  <2> QED  BY <1>2
<1>4. PICK it \in [SUBSET I -> A] : Folds(it, F, InBaseline(selection.baseline, rule), n)
  <2>1. InBaseline(selection.baseline, rule) \in A
    OBVIOUS
  <2> HIDE DEF A, F
  <2> QED  BY <1>1, <1>3, <2>1, FoldExists
<1>5. Solves(it)
  <2>1. ASSUME NEW s \in SUBSET I, s # {}
        PROVE  it[s] = (IF SelectorMatches(selection.overrides[Max(s)].selector, rule.id) THEN selection.overrides[Max(s)].enabled ELSE it[s \ {Max(s)}])
    <3>1. Max(s) = Top(s)
      BY DEF Max, Top
    <3>2. Top(s) \in I
      BY <1>1, <2>1, TopOf
    <3>3. it[s \ {Top(s)}] \in A
      OBVIOUS
    <3>4. it[s] = F[Top(s)][it[s \ {Top(s)}]]
      BY <1>4, <2>1 DEF Folds
    <3>5. F[Top(s)][it[s \ {Top(s)}]] = (IF SelectorMatches(selection.overrides[Top(s)].selector, rule.id) THEN selection.overrides[Top(s)].enabled ELSE it[s \ {Top(s)}])
      <4> HIDE DEF F, A, I
      <4> QED  BY <1>3, <3>2, <3>3
    <3> HIDE DEF F, A, I
    <3> QED  BY <3>1, <3>4, <3>5
  <2>2. it[{}] = InBaseline(selection.baseline, rule)
    BY <1>4 DEF Folds
  <2>3. it = [s \in SUBSET DOMAIN selection.overrides |-> it[s]]
    BY <1>1
  <2> HIDE DEF I, A
  <2> QED  BY <1>1, <2>1, <2>2, <2>3
<1>6. Solves(chosen)
  <2> HIDE DEF Solves
  <2> QED  BY <1>5
<1>7. IsEnabled(selection, rule) = chosen[DOMAIN selection.overrides]
  BY DEF IsEnabled, FoldLeft, MapThenFoldSet
<1> HIDE DEF chosen
<1>8. LeadsTo(A, F, InBaseline(selection.baseline, rule), n, chosen[1 .. n])
  <2>1. InBaseline(selection.baseline, rule) \in A /\ chosen[{}] = InBaseline(selection.baseline, rule)
    <3>1. InBaseline(selection.baseline, rule) \in A
      OBVIOUS
    <3>2. chosen[{}] = InBaseline(selection.baseline, rule)
      BY <1>6
    <3> QED  BY <3>1, <3>2
  <2>2. ASSUME NEW s \in SUBSET I, s # {}, chosen[s \ {Top(s)}] \in A
        PROVE  chosen[s] = F[Top(s)][chosen[s \ {Top(s)}]]
    <3>1. Max(s) = Top(s)
      BY DEF Max, Top
    <3>2. Top(s) \in I
      BY <1>1, <2>2, TopOf
    <3>3. chosen[s] = (IF SelectorMatches(selection.overrides[Max(s)].selector, rule.id) THEN selection.overrides[Max(s)].enabled ELSE chosen[s \ {Max(s)}])
      BY <1>1, <1>6, <2>2
    <3> HIDE DEF F, A, I, Solves
    <3> QED  BY <1>3, <2>2, <3>1, <3>2, <3>3
  <2>3. F \in [1 .. n -> [A -> A]] /\ n \in Nat
    BY <1>1, <1>3
  <2>4. \A s \in SUBSET (1 .. n) :
          s # {} /\ chosen[s \ {Top(s)}] \in A => chosen[s] = F[Top(s)][chosen[s \ {Top(s)}]]
    <3> HIDE DEF F, A, Solves
    <3> QED  BY <2>2
  <2> HIDE DEF F, A, Solves, n
  <2> QED  BY <2>1, <2>3, <2>4, FoldWalks
<1>9. PICK W \in [0 .. n -> A] :
        W[0] = InBaseline(selection.baseline, rule) /\ W[n] = chosen[1 .. n] /\ \A k \in 1 .. n : W[k] = F[k][W[k - 1]]
  <2> HIDE DEF F, A, n
  <2> QED  BY <1>8 DEF LeadsTo
<1>10. \A k \in 1 .. n : W[k] = (IF SelectorMatches(selection.overrides[k].selector, rule.id) THEN selection.overrides[k].enabled ELSE W[k - 1])
  <2> TAKE k \in 1 .. n
  <2>1. W[k - 1] \in A
    <3>1. k - 1 \in 0 .. n
      BY <1>1
    <3> HIDE DEF A, n
    <3> QED  BY <1>9, <3>1
  <2>2. W[k] = F[k][W[k - 1]]
    BY <1>9
  <2> HIDE DEF F, A
  <2> QED  BY <1>3, <2>1, <2>2
<1> HIDE DEF F
<1> QED  BY <1>1, <1>7, <1>9, <1>10


Picks(W, selection, catalog, n) ==
  /\ W[0] = <<>>
  /\ \A k \in 1 .. n : W[k] = (IF IsEnabled(selection, catalog[k]) THEN Append(W[k - 1], k)
                              ELSE W[k - 1])

LEMMA EvaluateFold ==
  ASSUME NEW selection, NEW catalog, NEW N \in Nat, DOMAIN catalog = 1 .. N
  PROVE  \E W \in [0 .. N -> Seq(1 .. N)] :
           Picks(W, selection, catalog, N) /\ Evaluate(selection, catalog) = W[N]
<1> DEFINE n == N
           indexes == [i \in DOMAIN catalog |-> i]
           I == 1 .. n
           A == Seq(1 .. N)
           F == [k \in I |-> [x \in A |-> (IF IsEnabled(selection, catalog[indexes[k]]) THEN Append(x, indexes[k]) ELSE x)]]
           Solves(it) == it = [s \in SUBSET DOMAIN indexes |->
                                 IF s = {} THEN <<>>
                                 ELSE (IF IsEnabled(selection, catalog[indexes[Max(s)]]) THEN Append(it[s \ {Max(s)}], indexes[Max(s)]) ELSE it[s \ {Max(s)}])]
           chosen == CHOOSE it : Solves(it)
<1>1. n \in Nat /\ DOMAIN indexes = I /\ \A k \in I : indexes[k] = k
  OBVIOUS
<1>2. ASSUME NEW x \in A, NEW k \in I PROVE (IF IsEnabled(selection, catalog[indexes[k]]) THEN Append(x, indexes[k]) ELSE x) \in A
  <2>1. indexes[k] \in 1 .. N
    OBVIOUS
  <2> DEFINE e == indexes[k]
             I2 == 1 .. N
  <2>2. e \in I2 /\ x \in Seq(I2)
    BY <2>1
  <2> HIDE DEF e, I2
  <2>3. Append(x, e) \in Seq(I2)
    BY <2>2
  <2> QED  BY <2>2, <2>3 DEF e, I2
<1>3. F \in [I -> [A -> A]] /\ \A k \in I : \A x \in A : F[k][x] = (IF IsEnabled(selection, catalog[indexes[k]]) THEN Append(x, indexes[k]) ELSE x)
  <2> HIDE DEF A
  <2> QED  BY <1>2
<1>4. PICK it \in [SUBSET I -> A] : Folds(it, F, <<>>, n)
  <2>1. <<>> \in A
    OBVIOUS
  <2> HIDE DEF A, F
  <2> QED  BY <1>1, <1>3, <2>1, FoldExists
<1>5. Solves(it)
  <2>1. ASSUME NEW s \in SUBSET I, s # {}
        PROVE  it[s] = (IF IsEnabled(selection, catalog[indexes[Max(s)]]) THEN Append(it[s \ {Max(s)}], indexes[Max(s)]) ELSE it[s \ {Max(s)}])
    <3>1. Max(s) = Top(s)
      BY DEF Max, Top
    <3>2. Top(s) \in I
      BY <1>1, <2>1, TopOf
    <3>3. it[s \ {Top(s)}] \in A
      OBVIOUS
    <3>4. it[s] = F[Top(s)][it[s \ {Top(s)}]]
      BY <1>4, <2>1 DEF Folds
    <3>5. F[Top(s)][it[s \ {Top(s)}]] = (IF IsEnabled(selection, catalog[indexes[Top(s)]]) THEN Append(it[s \ {Top(s)}], indexes[Top(s)]) ELSE it[s \ {Top(s)}])
      <4> HIDE DEF F, A, I
      <4> QED  BY <1>3, <3>2, <3>3
    <3> HIDE DEF F, A, I
    <3> QED  BY <3>1, <3>4, <3>5
  <2>2. it[{}] = <<>>
    BY <1>4 DEF Folds
  <2>3. it = [s \in SUBSET DOMAIN indexes |-> it[s]]
    BY <1>1
  <2> HIDE DEF I, A
  <2> QED  BY <1>1, <2>1, <2>2, <2>3
<1>6. Solves(chosen)
  <2> HIDE DEF Solves
  <2> QED  BY <1>5
<1>7. Evaluate(selection, catalog) = chosen[DOMAIN indexes]
  BY DEF Evaluate, FoldLeft, MapThenFoldSet
<1> HIDE DEF chosen
<1>8. LeadsTo(A, F, <<>>, n, chosen[1 .. n])
  <2>1. <<>> \in A /\ chosen[{}] = <<>>
    <3>1. <<>> \in A
      OBVIOUS
    <3>2. chosen[{}] = <<>>
      BY <1>6
    <3> QED  BY <3>1, <3>2
  <2>2. ASSUME NEW s \in SUBSET I, s # {}, chosen[s \ {Top(s)}] \in A
        PROVE  chosen[s] = F[Top(s)][chosen[s \ {Top(s)}]]
    <3>1. Max(s) = Top(s)
      BY DEF Max, Top
    <3>2. Top(s) \in I
      BY <1>1, <2>2, TopOf
    <3>3. chosen[s] = (IF IsEnabled(selection, catalog[indexes[Max(s)]]) THEN Append(chosen[s \ {Max(s)}], indexes[Max(s)]) ELSE chosen[s \ {Max(s)}])
      BY <1>1, <1>6, <2>2
    <3> HIDE DEF F, A, I, Solves
    <3> QED  BY <1>3, <2>2, <3>1, <3>2, <3>3
  <2>3. F \in [1 .. n -> [A -> A]] /\ n \in Nat
    BY <1>1, <1>3
  <2>4. \A s \in SUBSET (1 .. n) :
          s # {} /\ chosen[s \ {Top(s)}] \in A => chosen[s] = F[Top(s)][chosen[s \ {Top(s)}]]
    <3> HIDE DEF F, A, Solves
    <3> QED  BY <2>2
  <2> HIDE DEF F, A, Solves, n
  <2> QED  BY <2>1, <2>3, <2>4, FoldWalks
<1>9. PICK W \in [0 .. n -> A] :
        W[0] = <<>> /\ W[n] = chosen[1 .. n] /\ \A k \in 1 .. n : W[k] = F[k][W[k - 1]]
  <2> HIDE DEF F, A, n
  <2> QED  BY <1>8 DEF LeadsTo
<1>10. \A k \in 1 .. n : W[k] = (IF IsEnabled(selection, catalog[indexes[k]]) THEN Append(W[k - 1], indexes[k]) ELSE W[k - 1])
  <2> TAKE k \in 1 .. n
  <2>1. W[k - 1] \in A
    <3>1. k - 1 \in 0 .. n
      BY <1>1
    <3> HIDE DEF A, n
    <3> QED  BY <1>9, <3>1
  <2>2. W[k] = F[k][W[k - 1]]
    BY <1>9
  <2> HIDE DEF F, A
  <2> QED  BY <1>3, <2>1, <2>2
<1> HIDE DEF F, indexes, chosen
<1>11. \A k \in 1 .. n : W[k] = (IF IsEnabled(selection, catalog[k]) THEN Append(W[k - 1], k)
                                ELSE W[k - 1])
  BY <1>1, <1>10, Zenon
<1> QED  BY <1>1, <1>7, <1>9, <1>11 DEF Picks


(* The last override about a rule decides.                                  *)
LEMMA EnabledIsLast ==
  ASSUME NEW selection, selection.overrides \in Seq(Overrides), NEW rule, rule.id \in Text,
         InBaseline(selection.baseline, rule) \in BOOLEAN
  PROVE  LET about == {k \in DOMAIN selection.overrides :
                         Glob(selection.overrides[k].selector, rule.id)}
         IN  IsEnabled(selection, rule)
               <=> IF about = {} THEN InBaseline(selection.baseline, rule)
                   ELSE selection.overrides[CHOOSE k \in about : \A l \in about : l <= k].enabled
<1> DEFINE o == selection.overrides
           n == Len(o)
           base == InBaseline(selection.baseline, rule)
           Hits(k) == SelectorMatches(o[k].selector, rule.id)
           about == {k \in DOMAIN o : Glob(o[k].selector, rule.id)}
           Last1(k, j) == j \in 1 .. k /\ Hits(j) /\ \A l \in 1 .. k : Hits(l) => l <= j
<1>1. PICK W \in [0 .. n -> BOOLEAN] :
        /\ W[0] = base
        /\ \A k \in 1 .. n : W[k] = (IF SelectorMatches(o[k].selector, rule.id) THEN o[k].enabled
                                     ELSE W[k - 1])
        /\ IsEnabled(selection, rule) = W[n]
  BY EnabledFold
<1>2. n \in Nat /\ DOMAIN o = 1 .. n
  OBVIOUS
<1>3. \A k \in 1 .. n : Hits(k) <=> Glob(o[k].selector, rule.id)
  <2> SUFFICES ASSUME NEW k \in 1 .. n PROVE Hits(k) <=> Glob(o[k].selector, rule.id)
    OBVIOUS
  <2>1. o[k] \in Overrides
    OBVIOUS
  <2> DEFINE s == o[k].selector
             id == rule.id
  <2>2. s \in Seq(STRING) /\ id \in Seq(STRING)
    <3> DEFINE e == o[k]
    <3> HIDE DEF e
    <3>1. e.selector \in Text
      BY <2>1 DEF Overrides, e
    <3> QED  BY <3>1 DEF Text, e
  <2> HIDE DEF s, id
  <2>3. SelectorMatches(s, id) <=> Glob(s, id)
    BY <2>2, SelectorGlobs
  <2> QED  BY <2>3 DEF s, id
<1> HIDE DEF o, base, Hits
<1> DEFINE T == {k \in Nat : k <= n =>
                   \/ (\A j \in 1 .. k : ~Hits(j)) /\ W[k] = base
                   \/ \E j \in 1 .. k : Last1(k, j) /\ W[k] = o[j].enabled}
<1>4. 0 \in T
  BY <1>1
<1>5. ASSUME NEW k \in Nat, k \in T PROVE k + 1 \in T
  <2> SUFFICES ASSUME k + 1 <= n
               PROVE  \/ (\A j \in 1 .. (k + 1) : ~Hits(j)) /\ W[k + 1] = base
                      \/ \E j \in 1 .. (k + 1) : Last1(k + 1, j) /\ W[k + 1] = o[j].enabled
    OBVIOUS
  <2>1. k + 1 \in 1 .. n /\ (k + 1) - 1 = k /\ k <= n /\ k + 1 \in 1 .. (k + 1)
    BY <1>2
  <2>2. W[k + 1] = (IF Hits(k + 1) THEN o[k + 1].enabled ELSE W[k])
    <3>1. W[k + 1] = (IF SelectorMatches(o[k + 1].selector, rule.id) THEN o[k + 1].enabled
                      ELSE W[(k + 1) - 1])
      BY <1>1, <2>1
    <3> QED  BY <2>1, <3>1, Zenon DEF Hits
  <2>3. \A j \in 1 .. (k + 1) : j \in 1 .. k \/ j = k + 1
    OBVIOUS
  <2>4. \A j \in 1 .. k : j \in 1 .. (k + 1) /\ j <= k + 1
    OBVIOUS
  <2>5. CASE Hits(k + 1)
    <3>1. Last1(k + 1, k + 1)
      BY <2>1, <2>5
    <3> HIDE DEF Last1
    <3> QED  BY <2>1, <2>2, <2>5, <3>1, Zenon
  <2>6. CASE ~Hits(k + 1)
    <3>1. W[k + 1] = W[k]
      BY <2>2, <2>6, Zenon
    <3>2. CASE (\A j \in 1 .. k : ~Hits(j)) /\ W[k] = base
      BY <2>3, <2>6, <3>1, <3>2, Zenon
    <3>3. ASSUME NEW j \in 1 .. k, Last1(k, j), W[k] = o[j].enabled
          PROVE  \E i \in 1 .. (k + 1) : Last1(k + 1, i) /\ W[k + 1] = o[i].enabled
      <4>1. Last1(k + 1, j)
        <5>1. j \in 1 .. (k + 1) /\ Hits(j) /\ \A l \in 1 .. k : Hits(l) => l <= j
          BY <2>4, <3>3
        <5> QED  BY <2>3, <2>6, <5>1
      <4> HIDE DEF Last1
      <4> QED  BY <2>4, <3>1, <3>3, <4>1, Zenon
    <3>4. \/ (\A j \in 1 .. k : ~Hits(j)) /\ W[k] = base
          \/ \E j \in 1 .. k : Last1(k, j) /\ W[k] = o[j].enabled
      BY <1>5, <2>1
    <3> HIDE DEF Last1
    <3> QED  BY <3>2, <3>3, <3>4
  <2> QED  BY <2>5, <2>6
<1>6. \A k \in Nat : k \in T
  <2> HIDE DEF T
  <2> QED  BY <1>4, <1>5, SetInduction
<1>7. \/ (\A j \in 1 .. n : ~Hits(j)) /\ W[n] = base
      \/ \E j \in 1 .. n : Last1(n, j) /\ W[n] = o[j].enabled
  <2>1. n \in T /\ n <= n
    <3> HIDE DEF T, n
    <3>1. n <= n
      BY <1>2
    <3> QED  BY <1>2, <1>6, <3>1
  <2> HIDE DEF Last1, n
  <2> QED  BY <2>1
<1>8. about = {k \in 1 .. n : Hits(k)}
  BY <1>2, <1>3
<1> HIDE DEF about, n, T
<1>9. CASE (\A j \in 1 .. n : ~Hits(j)) /\ W[n] = base
  <2>1. about = {}
    BY <1>8, <1>9
  <2> QED  BY <1>1, <1>9, <2>1, Zenon DEF about, o, n, base
<1>10. ASSUME NEW j \in 1 .. n, Last1(n, j), W[n] = o[j].enabled
       PROVE  about # {} /\ W[n] = o[CHOOSE k \in about : \A l \in about : l <= k].enabled
  <2>1. j \in about /\ \A l \in about : l <= j
    BY <1>8, <1>10
  <2>2. about \subseteq Int
    BY <1>8
  <2> DEFINE c == CHOOSE k \in about : \A l \in about : l <= k
  <2>3. c \in about /\ \A l \in about : l <= c
    BY <2>1
  <2> HIDE DEF c
  <2>4. c = j
    BY <2>1, <2>2, <2>3
  <2> QED  BY <1>10, <2>1, <2>4 DEF c
<1> QED
  <2>1. CASE \E j \in 1 .. n : Last1(n, j) /\ W[n] = o[j].enabled
    <3>1. about # {} /\ W[n] = o[CHOOSE k \in about : \A l \in about : l <= k].enabled
      BY <1>10, <2>1
    <3> QED  BY <1>1, <3>1, Zenon DEF about, o, n
  <2> QED  BY <1>7, <1>9, <2>1

(* The enabled indexes are in order and miss none.                          *)
LEMMA EvaluateEnumerates ==
  ASSUME NEW selection, NEW catalog, NEW N \in Nat, DOMAIN catalog = 1 .. N
  PROVE  /\ Evaluate(selection, catalog) \in Seq(1 .. N)
         /\ ToSet(Evaluate(selection, catalog)) = {i \in 1 .. N : IsEnabled(selection, catalog[i])}
         /\ \A i \in 1 .. (Len(Evaluate(selection, catalog)) - 1) :
              Evaluate(selection, catalog)[i] < Evaluate(selection, catalog)[i + 1]
<1>1. PICK W \in [0 .. N -> Seq(1 .. N)] :
        Picks(W, selection, catalog, N) /\ Evaluate(selection, catalog) = W[N]
  BY EvaluateFold
<1>2. W[0] = <<>> /\ Evaluate(selection, catalog) = W[N]
      /\ \A k \in 1 .. N : W[k] = (IF IsEnabled(selection, catalog[k]) THEN Append(W[k - 1], k)
                                  ELSE W[k - 1])
  BY <1>1 DEF Picks
<1> DEFINE On(i) == IsEnabled(selection, catalog[i])
           Lists(e, k) == /\ ToSet(e) = {i \in 1 .. k : On(i)}
                          /\ \A i \in 1 .. (Len(e) - 1) : e[i] < e[i + 1]
           T == {k \in Nat : k <= N => Lists(W[k], k)}
<1>3. \A k \in 1 .. N : W[k] = (IF On(k) THEN Append(W[k - 1], k) ELSE W[k - 1])
  BY <1>2, Zenon
<1> HIDE DEF On
<1>4. 0 \in T
  BY <1>2 DEF ToSet
<1>5. ASSUME NEW k \in Nat, k \in T PROVE k + 1 \in T
  <2> SUFFICES ASSUME k + 1 <= N PROVE Lists(W[k + 1], k + 1)
    OBVIOUS
  <2>1. k + 1 \in 1 .. N /\ (k + 1) - 1 = k /\ k \in 0 .. N /\ k <= N
    OBVIOUS
  <2> DEFINE e == W[k]
  <2>2. e \in Seq(1 .. N) /\ ToSet(e) = {i \in 1 .. k : On(i)}
        /\ \A i \in 1 .. (Len(e) - 1) : e[i] < e[i + 1]
    BY <1>2, <1>5, <2>1
  <2>3. W[k + 1] = (IF On(k + 1) THEN Append(e, k + 1) ELSE e)
    BY <1>3, <2>1, Zenon
  <2> HIDE DEF e, T
  <2>4. {i \in 1 .. (k + 1) : On(i)} =
          {i \in 1 .. k : On(i)} \cup {i \in {k + 1} : On(i)}
    BY <2>1
  <2>5. CASE ~On(k + 1)
    <3>1. W[k + 1] = e /\ {i \in 1 .. (k + 1) : On(i)} = {i \in 1 .. k : On(i)}
      BY <2>3, <2>4, <2>5
    <3> QED  BY <2>2, <3>1
  <2>6. CASE On(k + 1)
    <3> DEFINE f == Append(e, k + 1)
               l == Len(e)
    <3>1. l \in Nat /\ Len(f) = l + 1 /\ f[l + 1] = k + 1 /\ (\A i \in 1 .. l : f[i] = e[i])
          /\ DOMAIN f = 1 .. (l + 1) /\ DOMAIN e = 1 .. l
      BY <2>1, <2>2
    <3> HIDE DEF f, l
    <3>2. ToSet(f) = ToSet(e) \cup {k + 1}
      <4>1. \A i \in 1 .. (l + 1) : i \in 1 .. l \/ i = l + 1
        BY <3>1
      <4>2. l + 1 \in 1 .. (l + 1) /\ \A i \in 1 .. l : i \in 1 .. (l + 1)
        BY <3>1
      <4> QED  BY <3>1, <4>1, <4>2 DEF ToSet
    <3>3. ASSUME NEW i \in 1 .. (Len(f) - 1) PROVE f[i] < f[i + 1]
      <4>1. i \in 1 .. l /\ (i \in 1 .. (l - 1) \/ i = l)
        BY <3>1
      <4>2. e[i] \in ToSet(e)
        BY <3>1, <4>1 DEF ToSet
      <4>3. e[i] \in 1 .. k
        BY <2>2, <4>2
      <4>4. CASE i = l
        BY <3>1, <4>1, <4>3, <4>4
      <4>5. CASE i \in 1 .. (l - 1)
        <5>1. i + 1 \in 1 .. l
          BY <3>1, <4>5
        <5> QED  BY <2>2, <3>1, <4>1, <4>5, <5>1 DEF l
      <4> QED  BY <4>1, <4>4, <4>5
    <3>4. W[k + 1] = f
      BY <2>3, <2>6, Zenon DEF f
    <3>5. {i \in {k + 1} : On(i)} = {k + 1}
      BY <2>6
    <3> QED  BY <2>2, <2>4, <3>2, <3>3, <3>4, <3>5
  <2> QED  BY <2>5, <2>6
<1>6. \A k \in Nat : k \in T
  <2> HIDE DEF T
  <2> QED  BY <1>4, <1>5, SetInduction
<1>7. Lists(W[N], N)
  <2>1. N \in T /\ N <= N
    <3> HIDE DEF T
    <3> QED  BY <1>6
  <2> HIDE DEF Lists
  <2> QED  BY <2>1
<1> DEFINE e == Evaluate(selection, catalog)
<1>8. e \in Seq(1 .. N) /\ e = W[N]
  BY <1>2
<1> HIDE DEF e
<1>9. ToSet(e) = {i \in 1 .. N : On(i)} /\ \A i \in 1 .. (Len(e) - 1) : e[i] < e[i + 1]
  BY <1>7, <1>8
<1>10. ToSet(e) = {i \in 1 .. N : IsEnabled(selection, catalog[i])}
  BY <1>9, Zenon DEF On
<1> QED  BY <1>8, <1>9, <1>10, Zenon DEF e

LEMMA SelectionIs ==
  ASSUME NEW c \in Configs
  PROVE  SelectionOf(c) = [baseline |-> ProfileBaseline(c.profile), overrides |-> c.overrides]
<1> DEFINE b == ProfileBaseline(c.profile)
           o == c.overrides
           n == Len(o)
<1>1. o \in Seq(Overrides) /\ n \in Nat
  BY DEF Configs, Overrides
<1>2. SelectionOf(c) = FoldLeft(WithOverride, NewSelection(b), o)
  BY DEF SelectionOf
<1> HIDE DEF b, o
<1>3. PICK W \in [0 .. Len(o) -> [baseline : {b}, overrides : Seq(Overrides)]] :
        /\ W[0] = NewSelection(b)
        /\ \A k \in 1 .. Len(o) : W[k] = WithOverride(W[k - 1], o[k])
        /\ FoldLeft(WithOverride, NewSelection(b), o) = W[Len(o)]
  BY <1>1, SelectionFold
<1> DEFINE U == {k \in Nat : k <= n => /\ Len(W[k].overrides) = k
                                       /\ \A i \in 1 .. k : W[k].overrides[i] = o[i]}
<1>4. 0 \in U
  <2>1. W[0].overrides = <<>>
    BY <1>3 DEF NewSelection
  <2> QED  BY <2>1
<1>5. ASSUME NEW k \in Nat, k \in U PROVE k + 1 \in U
  <2> SUFFICES ASSUME k + 1 <= n
               PROVE  /\ Len(W[k + 1].overrides) = k + 1
                      /\ \A i \in 1 .. (k + 1) : W[k + 1].overrides[i] = o[i]
    OBVIOUS
  <2>1. k + 1 \in 1 .. n /\ (k + 1) - 1 = k /\ k \in 0 .. n /\ k <= n
    BY <1>1
  <2> DEFINE e == W[k].overrides
  <2>2. W[k] \in [baseline : {b}, overrides : Seq(Overrides)]
    BY <1>3, <2>1
  <2>3. e \in Seq(Overrides) /\ Len(e) = k /\ \A i \in 1 .. k : e[i] = o[i]
    BY <1>5, <2>1, <2>2
  <2>4. W[k + 1].overrides = Append(e, o[k + 1])
    <3>1. W[k + 1] = WithOverride(W[k], o[k + 1])
      BY <1>3, <2>1
    <3> QED  BY <2>2, <3>1 DEF WithOverride
  <2> DEFINE x == o[k + 1]
  <2>5. x \in Overrides
    BY <1>1, <2>1
  <2> HIDE DEF e, U, x
  <2>6. Len(Append(e, x)) = k + 1 /\ Append(e, x)[k + 1] = x /\ \A i \in 1 .. k : Append(e, x)[i] = e[i]
    BY <2>3, <2>5
  <2>7. \A i \in 1 .. (k + 1) : i \in 1 .. k \/ i = k + 1
    OBVIOUS
  <2> QED  BY <2>3, <2>4, <2>6, <2>7 DEF x
<1>6. \A k \in Nat : k \in U
  <2> HIDE DEF U
  <2> QED  BY <1>4, <1>5, SetInduction
<1>7. Len(W[n].overrides) = n /\ \A i \in 1 .. n : W[n].overrides[i] = o[i]
  <2>1. n \in U /\ n <= n
    <3> HIDE DEF U
    <3> QED  BY <1>1, <1>6
  <2> QED  BY <2>1
<1>8. W[n] \in [baseline : {b}, overrides : Seq(Overrides)]
  BY <1>1, <1>3
<1>9. W[n].overrides = o
  <2> DEFINE e == W[n].overrides
  <2>1. e \in Seq(Overrides) /\ Len(e) = Len(o) /\ \A i \in 1 .. Len(o) : e[i] = o[i]
    BY <1>7, <1>8
  <2> HIDE DEF e
  <2>2. e = o
    BY <1>1, <2>1, SeqEqual
  <2> QED  BY <2>2 DEF e
<1>10. W[n] = [baseline |-> b, overrides |-> o]
  BY <1>8, <1>9
<1> QED  BY <1>2, <1>3, <1>10 DEF b, o

LEMMA PrepareGives ==
  ASSUME NEW selection, NEW catalog
  PROVE  /\ IsOk(Prepare(selection, catalog)) =>
              Prepare(selection, catalog)[2] = [catalog |-> catalog, enabled |-> Evaluate(selection, catalog)]
         /\ Idle(selection, catalog) = {} => IsOk(Prepare(selection, catalog))
<1>1. CASE Idle(selection, catalog) = {}
  <2>1. Resolve(selection, catalog) = Ok(Evaluate(selection, catalog))
    BY <1>1 DEF Resolve
  <2> QED  BY <2>1 DEF Prepare, Ok, IsOk
<1>2. CASE Idle(selection, catalog) # {}
  <2> DEFINE idle == Idle(selection, catalog)
             first == selection.overrides[CHOOSE k \in idle : \A l \in idle : k <= l].selector
  <2>1. \/ Resolve(selection, catalog) = Err("InvalidSelector", first)
        \/ Resolve(selection, catalog) = Err("UnknownRule", first)
    BY <1>2, Zenon DEF Resolve
  <2> HIDE DEF first
  <2>2. ~IsOk(Resolve(selection, catalog))
    BY <2>1 DEF Err, IsOk
  <2> QED  BY <1>2, <2>2 DEF Prepare
<1> QED  BY <1>1, <1>2

CatalogOf(provider) == FlattenSeq(CatalogsOf[provider])

LEMMA CatalogsCombine ==
  ASSUME NEW provider \in DOMAIN CatalogsOf
  PROVE  Combine(CatalogsOf[provider]) = Ok(CatalogOf(provider))
<1>1. IsOk(Combine(CatalogsOf[provider]))
  BY CatalogsAssumption
<1> DEFINE records == CatalogOf(provider)
           again == {i \in DOMAIN records : \E j \in 1 .. (i - 1) : records[j].id = records[i].id}
<1>2. Combine(CatalogsOf[provider]) =
        IF again = {} THEN Ok(records)
        ELSE Err("DuplicateRule", records[CHOOSE i \in again : \A j \in again : i <= j].id)
  BY DEF Combine, CatalogOf
<1> HIDE DEF records, again
<1>3. \A v : ~IsOk(Err("DuplicateRule", v))
  BY DEF Err, IsOk
<1> QED  BY <1>1, <1>2, <1>3 DEF records

LEMMA WithRulesGives ==
  ASSUME NEW provider \in DOMAIN CatalogsOf, NEW selection
  PROVE  NewLinter(WithRules(NewConfig(CatalogsOf[provider]), selection))
           = Prepare(selection, CatalogOf(provider))
<1>1. Combine(CatalogsOf[provider]) = Ok(CatalogOf(provider))
  BY CatalogsCombine
<1> DEFINE w == WithRules(NewConfig(CatalogsOf[provider]), selection)
<1>2. w.prepared = FALSE /\ w.catalogs = CatalogsOf[provider] /\ w.selection = selection
  BY DEF WithRules, NewConfig
<1> HIDE DEF w
<1>3. IsOk(Ok(CatalogOf(provider))) /\ Ok(CatalogOf(provider))[2] = CatalogOf(provider)
  BY DEF IsOk, Ok
<1> QED  BY <1>1, <1>2, <1>3 DEF NewLinter, w

LEMMA BaseCatalogIs ==
  ASSUME NEW provider \in DOMAIN CatalogsOf, NEW profile
  PROVE  BaseCatalog(provider, profile) = CatalogOf(provider)
<1> DEFINE selection == NewSelection(ProfileBaseline(profile))
<1>1. Idle(selection, CatalogOf(provider)) = {}
  <2>1. selection.overrides = <<>>
    BY DEF NewSelection
  <2> HIDE DEF selection
  <2> QED  BY <2>1 DEF Idle
<1> HIDE DEF selection
<1>2. Prepare(selection, CatalogOf(provider))[2].catalog = CatalogOf(provider)
  <2> DEFINE catalog == CatalogOf(provider)
  <2>1. IsOk(Prepare(selection, catalog))
    BY <1>1, PrepareGives
  <2>2. Prepare(selection, catalog)[2]
          = [catalog |-> catalog, enabled |-> Evaluate(selection, catalog)]
    BY <2>1, PrepareGives
  <2> QED  BY <2>2
<1> QED  BY <1>2, WithRulesGives DEF BaseCatalog, selection

(* The linter a configuration asks for.                                     *)
LinterOf(c) ==
  [catalog |-> CatalogOf(c.provider), enabled |-> Evaluate(SelectionOf(c), CatalogOf(c.provider))]

LinterInv ==
  /\ ConfigInv
  /\ prepared # <<>> => prepared[1].selection = LinterOf(prepared[1].of)
  /\ phase = "built" => linter = <<LinterOf(config)>>

LEMMA LinterInvHolds == Spec => []LinterInv
<1>1. Init /\ ConfigInv => LinterInv
  BY DEF Init, LinterInv
<1>2. LinterInv /\ ConfigInv' /\ [Next]_vars => LinterInv'
  <2> SUFFICES ASSUME LinterInv, ConfigInv', [Next]_vars PROVE LinterInv'
    OBVIOUS
  <2>1. ASSUME UNCHANGED prepared, phase' # "built" PROVE LinterInv'
    BY <2>1 DEF LinterInv
  <2>2. ASSUME NEW provider \in DOMAIN CatalogsOf, NEW profile, Load(provider, profile)
        PROVE  LinterInv'
    <3> DEFINE c == [config EXCEPT !.provider = provider, !.profile = profile]
               selection == Prepare(SelectionOf(c), BaseCatalog(provider, profile))
    <3>1. phase' # "built"
      BY <2>2 DEF Load, Refuse
    <3>2. c.provider = provider
      BY DEF LinterInv, ConfigInv, Configs
    <3>3. \/ prepared' = <<>>
          \/ IsOk(selection) /\ prepared' = <<[of |-> c, selection |-> selection[2]]>>
      BY <2>2, Zenon DEF Load
    <3>4. BaseCatalog(provider, profile) = CatalogOf(c.provider)
      BY <3>2, BaseCatalogIs
    <3>5. IsOk(selection) => selection[2] = LinterOf(c)
      <4> HIDE DEF c
      <4> QED  BY <3>4, PrepareGives DEF LinterOf
    <3> HIDE DEF c, selection
    <3>6. prepared' # <<>> => prepared'[1].selection = LinterOf(prepared'[1].of)
      BY <3>3, <3>5
    <3> QED  BY <3>1, <3>6 DEF LinterInv
  <2>3. CASE Build
    <3> DEFINE built == NewLinter(LinterConfigOf(config))
    <3>1. prepared' = <<>> /\ config' = config
          /\ (phase' = "built" => IsOk(built) /\ linter' = <<built[2]>>)
      BY <2>3 DEF Build, Refuse
    <3>2. config.provider \in DOMAIN CatalogsOf
      BY DEF LinterInv, ConfigInv, Configs
    <3>3. IsOk(built) => built[2] = LinterOf(config)
      <4>1. CASE StillPrepared(config)
        <5> DEFINE w == LinterConfigOf(config)
                   L == LinterOf(config)
        <5>1. prepared # <<>> /\ prepared[1].of = config /\ prepared[1].selection = L
          BY <4>1 DEF StillPrepared, LinterInv
        <5>2. w = WithPreparedRules(NewConfig(CatalogsOf[config.provider]), L)
          BY <4>1, <5>1 DEF LinterConfigOf
        <5> HIDE DEF w, L
        <5>3. w.prepared = TRUE /\ w.catalogs[1] = L.catalog /\ w.enabled = L.enabled
          BY <5>2 DEF WithPreparedRules
        <5>4. built = Ok([catalog |-> L.catalog, enabled |-> L.enabled])
          BY <5>3 DEF NewLinter, w
        <5>5. L = [catalog |-> L.catalog, enabled |-> L.enabled]
          BY DEF L, LinterOf
        <5> HIDE DEF built
        <5>6. built[2] = L
          BY <5>4, <5>5 DEF Ok
        <5> QED  BY <5>6 DEF L
      <4>2. CASE ~StillPrepared(config)
        <5>1. built = Prepare(SelectionOf(config), CatalogOf(config.provider))
          BY <3>2, <4>2, WithRulesGives DEF LinterConfigOf
        <5> HIDE DEF built
        <5> QED  BY <5>1, PrepareGives DEF LinterOf
      <4> QED  BY <4>1, <4>2
    <3> HIDE DEF built
    <3>4. LinterOf(config') = LinterOf(config)
      BY <3>1
    <3>5. phase' = "built" => linter' = <<LinterOf(config')>>
      BY <3>1, <3>3, <3>4
    <3> QED  BY <3>1, <3>5 DEF LinterInv
  <2>4. CASE AddGlobal \/ AddObject \/ ExtendEnvironment
    <3>1. PICK to : ChangeEnvironment(to)
      BY <2>4 DEF AddGlobal, AddObject, ExtendEnvironment
    <3> QED  BY <2>1, <3>1 DEF ChangeEnvironment, configured
  <2>5. ASSUME NEW selector, NEW enabled, Override(selector, enabled) PROVE LinterInv'
    <3>1. UNCHANGED prepared /\ phase' # "built"
      BY <2>5 DEF Override, Refuse
    <3> QED  BY <2>1, <3>1
  <2>6. CASE Configure \/ LoadDefault \/ Edit \/ OperationalError
    <3>1. UNCHANGED prepared /\ phase' # "built"
      BY <2>6 DEF Configure, LoadDefault, Edit, OperationalError, Refuse, configured
    <3> QED  BY <2>1, <3>1
  <2>7. ASSUME NEW n, Open(n) PROVE LinterInv'
    BY <2>1, <2>7 DEF Open
  <2>8. ASSUME NEW source, Analyse(source) PROVE LinterInv'
    BY <2>1, <2>8 DEF Analyse, configured
  <2>9. ASSUME NEW linkStatus, NEW bounds, Match(linkStatus, bounds) PROVE LinterInv'
    BY <2>1, <2>9 DEF Match, configured
  <2>10. ASSUME NEW found, Render(found) PROVE LinterInv'
    BY <2>1, <2>10 DEF Render, configured
  <2>11. CASE Report \/ BrokenPipe
    BY <2>1, <2>11 DEF Report, BrokenPipe, configured
  <2>12. ASSUME NEW partial, NEW messages, NEW failOn, ExitProject(partial, messages, failOn)
         PROVE  LinterInv'
    BY <2>1, <2>12 DEF ExitProject, Leave, configured
  <2>13. ASSUME NEW failOn, ExitSnippet(failOn) PROVE LinterInv'
    BY <2>1, <2>13 DEF ExitSnippet, Leave, configured
  <2>14. CASE UNCHANGED vars
    <3>1. prepared' = prepared /\ phase' = phase /\ linter' = linter /\ config' = config
      BY <2>14 DEF vars
    <3>2. LinterOf(config') = LinterOf(config)
      BY <3>1
    <3> QED  BY <3>1, <3>2 DEF LinterInv
  <2> QED  BY <2>2, <2>3, <2>4, <2>5, <2>6, <2>7, <2>8, <2>9, <2>10, <2>11, <2>12, <2>13, <2>14
           DEF Next
<1> QED  BY <1>1, <1>2, ConfigInvHolds, PTL DEF Spec

(* The linter that is built enables exactly what the configuration asks for *)
(* as it is then, in the order of the catalog                               *)
(* (config.rs: selected_linter, lint/linter.rs, lint/selection.rs).         *)
THEOREM LinterIsAlwaysAskedFor == Spec => []LinterIsAskedFor
<1>1. LinterInv => LinterIsAskedFor
  <2> SUFFICES ASSUME LinterInv, phase = "built" PROVE LinterIsAskedFor
    BY DEF LinterIsAskedFor
  <2> DEFINE catalog == FlattenSeq(CatalogsOf[config.provider])
             N == Len(catalog)
             selection == SelectionOf(config)
             enabled == Evaluate(selection, catalog)
  <2>1. linter[1] = [catalog |-> catalog, enabled |-> enabled]
    BY DEF LinterInv, LinterOf, CatalogOf
  <2>2. config \in Configs /\ config.provider \in DOMAIN CatalogsOf
    BY DEF LinterInv, ConfigInv, Configs
  <2>3. catalog \in Seq(Rules)
    BY <2>2, CatalogsAssumption
  <2>4. selection.overrides \in Seq(Overrides)
    <3>1. selection = [baseline |-> ProfileBaseline(config.profile), overrides |-> config.overrides]
      BY <2>2, SelectionIs
    <3>2. config.overrides \in Seq(Overrides)
      BY <2>2 DEF Configs, Overrides
    <3> HIDE DEF selection
    <3> QED  BY <3>1, <3>2
  <2> HIDE DEF catalog, selection
  <2>5. N \in Nat /\ DOMAIN catalog = 1 .. N
    BY <2>3
  <2>6. /\ enabled \in Seq(1 .. N)
        /\ ToSet(enabled) = {i \in 1 .. N : IsEnabled(selection, catalog[i])}
        /\ \A i \in 1 .. (Len(enabled) - 1) : enabled[i] < enabled[i + 1]
    <3> HIDE DEF N
    <3> QED  BY <2>5, EvaluateEnumerates
  <2> DEFINE About(i) == {k \in DOMAIN selection.overrides :
                            Glob(selection.overrides[k].selector, catalog[i].id)}
             Asked(i) == IF About(i) = {} THEN InBaseline(selection.baseline, catalog[i])
                         ELSE selection.overrides[CHOOSE k \in About(i) : \A l \in About(i) : l <= k].enabled
  <2>7. \A i \in 1 .. N : IsEnabled(selection, catalog[i]) <=> Asked(i)
    <3> SUFFICES ASSUME NEW i \in 1 .. N PROVE IsEnabled(selection, catalog[i]) <=> Asked(i)
      OBVIOUS
    <3> DEFINE rule == catalog[i]
    <3>1. rule \in Rules
      BY <2>3
    <3> HIDE DEF rule
    <3>2. rule.id \in Text /\ InBaseline(selection.baseline, rule) \in BOOLEAN
      BY <3>1 DEF Rules, Text, InBaseline
    <3> QED  BY <2>4, <3>2, EnabledIsLast DEF rule
  <2>8. AskedFor(selection, catalog) = {catalog[i].id : i \in {i \in DOMAIN catalog : Asked(i)}}
    BY Zenon DEF AskedFor
  <2> HIDE DEF Asked, enabled
  <2>9. {catalog[i].id : i \in ToSet(enabled)} = AskedFor(selection, catalog)
    <3>1. ToSet(enabled) = {i \in DOMAIN catalog : Asked(i)}
      <4> HIDE DEF N
      <4> QED  BY <2>5, <2>6, <2>7
    <3> QED  BY <2>8, <3>1
  <2>10. SelectionIsValid(catalog, enabled)
    <3>1. ToSet(enabled) \subseteq DOMAIN catalog
      <4> HIDE DEF N
      <4> QED  BY <2>5, <2>6
    <3> QED  BY <2>6, <3>1 DEF SelectionIsValid
  <2> QED  BY <2>1, <2>9, <2>10 DEF LinterIsAskedFor, catalog, selection
<1> QED  BY <1>1, LinterInvHolds, PTL

-----------------------------------------------------------------------------
(* The findings of one rule in one file.                                   *)

Spans == {r \in [start : Int, end : Int] : r.start < r.end}
WidestFirst(items) ==
  Sorted(Ranges(items),
    LAMBDA a, b : a.start < b.start \/ (a.start = b.start /\ a.end > b.end))
Widest(S) == {r \in S : \A q \in S : Inside(q, r) => q = r}

LEMMA EntriesEnumerate ==
  ASSUME NEW items, IsFiniteSet(Ranges(items)), Ranges(items) \subseteq Spans
  PROVE  LET c == Cardinality(Ranges(items))
             sorted == Entries(items)
         IN  /\ c \in Nat /\ sorted \in [1 .. c -> Ranges(items)]
             /\ \A x \in Ranges(items) : \E n \in 1 .. c : sorted[n] = x
             /\ \A m, n \in 1 .. c : m < n =>
                  sorted[m].start < sorted[n].start \/ (sorted[m].start = sorted[n].start /\ sorted[m].end < sorted[n].end)
<1> DEFINE S == Ranges(items)
           c == Cardinality(S)
           R == {x \in S \X S : x[1].start < x[2].start \/ (x[1].start = x[2].start /\ x[1].end < x[2].end)}
           sorted == Entries(items)
<1>1. \A a, b \in S : <<a, b>> \in R <=> a.start < b.start \/ (a.start = b.start /\ a.end < b.end)
  OBVIOUS
<1>2. StrictOrder(R, S)
  <2> HIDE DEF R, S
  <2>1. \A f \in S : f.start \in Int /\ f.end \in Int
    BY DEF S, Spans
  <2>2. \A f, g \in S : f.start = g.start /\ f.end = g.end => f = g
    BY DEF S, Spans
  <2>3. \A p \in S : <<p, p>> \notin R
    BY <1>1, <2>1
  <2>4. \A p, q, r \in S : <<p, q>> \in R /\ <<q, r>> \in R => <<p, r>> \in R
    <3> SUFFICES ASSUME NEW p \in S, NEW q \in S, NEW r \in S, <<p, q>> \in R, <<q, r>> \in R
                 PROVE  <<p, r>> \in R
      OBVIOUS
    <3>1. (p.start < q.start \/ (p.start = q.start /\ p.end < q.end)) /\ (q.start < r.start \/ (q.start = r.start /\ q.end < r.end))
      BY <1>1
    <3>2. p.start < r.start \/ (p.start = r.start /\ p.end < r.end)
      BY <2>1, <3>1
    <3> QED  BY <1>1, <3>2
  <2>5. \A p, q \in S : p # q => <<p, q>> \in R \/ <<q, p>> \in R
    <3> SUFFICES ASSUME NEW p \in S, NEW q \in S, p # q PROVE <<p, q>> \in R \/ <<q, p>> \in R
      OBVIOUS
    <3>1. (p.start < q.start \/ (p.start = q.start /\ p.end < q.end)) \/ (q.start < p.start \/ (q.start = p.start /\ q.end < p.end))
      BY <2>1, <2>2
    <3> QED  BY <1>1, <3>1
  <2> QED  BY <2>3, <2>4, <2>5 DEF StrictOrder
<1>3. sorted = Ranked(S, R)
  <2>1. \A x \in S : {y \in S : y.start < x.start \/ (y.start = x.start /\ y.end < x.end)} = {y \in S : <<y, x>> \in R}
    BY <1>1
  <2>2. ASSUME NEW n \in 1 .. c
        PROVE  (CHOOSE x \in S : Cardinality({y \in S : y.start < x.start \/ (y.start = x.start /\ y.end < x.end)}) = n - 1)
                 = (CHOOSE x \in S : RankIn(S, R, x) = n - 1)
    <3>1. \A x \in S : Cardinality({y \in S : y.start < x.start \/ (y.start = x.start /\ y.end < x.end)}) = n - 1
                         <=> RankIn(S, R, x) = n - 1
      <4> HIDE DEF S, R
      <4> QED  BY <2>1 DEF RankIn
    <3> HIDE DEF S, R
    <3> QED  BY <3>1
  <2>3. sorted = [n \in 1 .. c |-> CHOOSE x \in S :
                                    Cardinality({y \in S : y.start < x.start \/ (y.start = x.start /\ y.end < x.end)}) = n - 1]
    BY DEF Entries, Sorted
  <2>4. Ranked(S, R) = [n \in 1 .. c |-> CHOOSE x \in S : RankIn(S, R, x) = n - 1]
    BY DEF Ranked
  <2> HIDE DEF S, R, sorted, c
  <2> QED  BY <2>2, <2>3, <2>4
<1>4. /\ c \in Nat /\ sorted \in [1 .. c -> S]
      /\ \A x \in S : \E n \in 1 .. c : sorted[n] = x
      /\ \A m, n \in 1 .. c : m < n => <<sorted[m], sorted[n]>> \in R
  <2> HIDE DEF R, sorted
  <2> QED  BY <1>2, <1>3, RankedEnumerates
<1>5. \A m, n \in 1 .. c : m < n => sorted[m].start < sorted[n].start \/ (sorted[m].start = sorted[n].start /\ sorted[m].end < sorted[n].end)
  <2> HIDE DEF S, R, sorted, c
  <2> QED  BY <1>1, <1>4
<1> QED  BY <1>4, <1>5


LEMMA WidestFirstEnumerates ==
  ASSUME NEW items, IsFiniteSet(Ranges(items)), Ranges(items) \subseteq Spans
  PROVE  LET c == Cardinality(Ranges(items))
             sorted == WidestFirst(items)
         IN  /\ c \in Nat /\ sorted \in [1 .. c -> Ranges(items)]
             /\ \A x \in Ranges(items) : \E n \in 1 .. c : sorted[n] = x
             /\ \A m, n \in 1 .. c : m < n =>
                  sorted[m].start < sorted[n].start \/ (sorted[m].start = sorted[n].start /\ sorted[m].end > sorted[n].end)
<1> DEFINE S == Ranges(items)
           c == Cardinality(S)
           R == {x \in S \X S : x[1].start < x[2].start \/ (x[1].start = x[2].start /\ x[1].end > x[2].end)}
           sorted == WidestFirst(items)
<1>1. \A a, b \in S : <<a, b>> \in R <=> a.start < b.start \/ (a.start = b.start /\ a.end > b.end)
  OBVIOUS
<1>2. StrictOrder(R, S)
  <2> HIDE DEF R, S
  <2>1. \A f \in S : f.start \in Int /\ f.end \in Int
    BY DEF S, Spans
  <2>2. \A f, g \in S : f.start = g.start /\ f.end = g.end => f = g
    BY DEF S, Spans
  <2>3. \A p \in S : <<p, p>> \notin R
    BY <1>1, <2>1
  <2>4. \A p, q, r \in S : <<p, q>> \in R /\ <<q, r>> \in R => <<p, r>> \in R
    <3> SUFFICES ASSUME NEW p \in S, NEW q \in S, NEW r \in S, <<p, q>> \in R, <<q, r>> \in R
                 PROVE  <<p, r>> \in R
      OBVIOUS
    <3>1. (p.start < q.start \/ (p.start = q.start /\ p.end > q.end)) /\ (q.start < r.start \/ (q.start = r.start /\ q.end > r.end))
      BY <1>1
    <3>2. p.start < r.start \/ (p.start = r.start /\ p.end > r.end)
      BY <2>1, <3>1
    <3> QED  BY <1>1, <3>2
  <2>5. \A p, q \in S : p # q => <<p, q>> \in R \/ <<q, p>> \in R
    <3> SUFFICES ASSUME NEW p \in S, NEW q \in S, p # q PROVE <<p, q>> \in R \/ <<q, p>> \in R
      OBVIOUS
    <3>1. (p.start < q.start \/ (p.start = q.start /\ p.end > q.end)) \/ (q.start < p.start \/ (q.start = p.start /\ q.end > p.end))
      BY <2>1, <2>2
    <3> QED  BY <1>1, <3>1
  <2> QED  BY <2>3, <2>4, <2>5 DEF StrictOrder
<1>3. sorted = Ranked(S, R)
  <2>1. \A x \in S : {y \in S : y.start < x.start \/ (y.start = x.start /\ y.end > x.end)} = {y \in S : <<y, x>> \in R}
    BY <1>1
  <2>2. ASSUME NEW n \in 1 .. c
        PROVE  (CHOOSE x \in S : Cardinality({y \in S : y.start < x.start \/ (y.start = x.start /\ y.end > x.end)}) = n - 1)
                 = (CHOOSE x \in S : RankIn(S, R, x) = n - 1)
    <3>1. \A x \in S : Cardinality({y \in S : y.start < x.start \/ (y.start = x.start /\ y.end > x.end)}) = n - 1
                         <=> RankIn(S, R, x) = n - 1
      <4> HIDE DEF S, R
      <4> QED  BY <2>1 DEF RankIn
    <3> HIDE DEF S, R
    <3> QED  BY <3>1
  <2>3. sorted = [n \in 1 .. c |-> CHOOSE x \in S :
                                    Cardinality({y \in S : y.start < x.start \/ (y.start = x.start /\ y.end > x.end)}) = n - 1]
    BY DEF WidestFirst, Sorted
  <2>4. Ranked(S, R) = [n \in 1 .. c |-> CHOOSE x \in S : RankIn(S, R, x) = n - 1]
    BY DEF Ranked
  <2> HIDE DEF S, R, sorted, c
  <2> QED  BY <2>2, <2>3, <2>4
<1>4. /\ c \in Nat /\ sorted \in [1 .. c -> S]
      /\ \A x \in S : \E n \in 1 .. c : sorted[n] = x
      /\ \A m, n \in 1 .. c : m < n => <<sorted[m], sorted[n]>> \in R
  <2> HIDE DEF R, sorted
  <2> QED  BY <1>2, <1>3, RankedEnumerates
<1>5. \A m, n \in 1 .. c : m < n => sorted[m].start < sorted[n].start \/ (sorted[m].start = sorted[n].start /\ sorted[m].end > sorted[n].end)
  <2> HIDE DEF S, R, sorted, c
  <2> QED  BY <1>1, <1>4
<1> QED  BY <1>4, <1>5


Keeps(W, s) ==
  /\ W[0] = <<>>
  /\ \A k \in 1 .. Len(s) :
       W[k] = (IF W[k - 1] # <<>> /\ s[k].end <= Last(W[k - 1]).end THEN W[k - 1]
               ELSE Append(W[k - 1], s[k]))

LEMMA RetainedFold ==
  ASSUME NEW items, WidestFirst(items) \in Seq(Ranges(items))
  PROVE  \E W \in [0 .. Len(WidestFirst(items)) -> Seq(Ranges(items))] :
           Keeps(W, WidestFirst(items)) /\ Retained(items) = W[Len(WidestFirst(items))]
<1> DEFINE n == Len(WidestFirst(items))
           I == 1 .. n
           A == Seq(Ranges(items))
           F == [k \in I |-> [x \in A |-> (IF x # <<>> /\ WidestFirst(items)[k].end <= Last(x).end THEN x ELSE Append(x, WidestFirst(items)[k]))]]
           Solves(it) == it = [s \in SUBSET DOMAIN WidestFirst(items) |->
                                 IF s = {} THEN <<>>
                                 ELSE (IF it[s \ {Max(s)}] # <<>> /\ WidestFirst(items)[Max(s)].end <= Last(it[s \ {Max(s)}]).end THEN it[s \ {Max(s)}] ELSE Append(it[s \ {Max(s)}], WidestFirst(items)[Max(s)]))]
           chosen == CHOOSE it : Solves(it)
<1>1. n \in Nat /\ DOMAIN WidestFirst(items) = I
  OBVIOUS
<1>2. ASSUME NEW x \in A, NEW k \in I PROVE (IF x # <<>> /\ WidestFirst(items)[k].end <= Last(x).end THEN x ELSE Append(x, WidestFirst(items)[k])) \in A
  <2> DEFINE e == WidestFirst(items)[k]
             S == Ranges(items)
  <2>1. e \in S /\ x \in Seq(S)
    OBVIOUS
  <2> HIDE DEF e, S
  <2>2. Append(x, e) \in Seq(S)
    BY <2>1
  <2> QED  BY <2>1, <2>2 DEF e, S
<1>3. F \in [I -> [A -> A]] /\ \A k \in I : \A x \in A : F[k][x] = (IF x # <<>> /\ WidestFirst(items)[k].end <= Last(x).end THEN x ELSE Append(x, WidestFirst(items)[k]))
  <2> HIDE DEF A
  <2> QED  BY <1>2
<1>4. PICK it \in [SUBSET I -> A] : Folds(it, F, <<>>, n)
  <2>1. <<>> \in A
    OBVIOUS
  <2> HIDE DEF A, F
  <2> QED  BY <1>1, <1>3, <2>1, FoldExists
<1>5. Solves(it)
  <2>1. ASSUME NEW s \in SUBSET I, s # {}
        PROVE  it[s] = (IF it[s \ {Max(s)}] # <<>> /\ WidestFirst(items)[Max(s)].end <= Last(it[s \ {Max(s)}]).end THEN it[s \ {Max(s)}] ELSE Append(it[s \ {Max(s)}], WidestFirst(items)[Max(s)]))
    <3>1. Max(s) = Top(s)
      BY DEF Max, Top
    <3>2. Top(s) \in I
      BY <1>1, <2>1, TopOf
    <3>3. it[s \ {Top(s)}] \in A
      OBVIOUS
    <3>4. it[s] = F[Top(s)][it[s \ {Top(s)}]]
      BY <1>4, <2>1 DEF Folds
    <3>5. F[Top(s)][it[s \ {Top(s)}]] = (IF it[s \ {Top(s)}] # <<>> /\ WidestFirst(items)[Top(s)].end <= Last(it[s \ {Top(s)}]).end THEN it[s \ {Top(s)}] ELSE Append(it[s \ {Top(s)}], WidestFirst(items)[Top(s)]))
      <4> HIDE DEF F, A, I
      <4> QED  BY <1>3, <3>2, <3>3
    <3> HIDE DEF F, A, I
    <3> QED  BY <3>1, <3>4, <3>5
  <2>2. it[{}] = <<>>
    BY <1>4 DEF Folds
  <2>3. it = [s \in SUBSET DOMAIN WidestFirst(items) |-> it[s]]
    BY <1>1
  <2> HIDE DEF I, A
  <2> QED  BY <1>1, <2>1, <2>2, <2>3
<1>6. Solves(chosen)
  <2> HIDE DEF Solves
  <2> QED  BY <1>5
<1>7. Retained(items) = chosen[DOMAIN WidestFirst(items)]
  BY DEF Retained, WidestFirst, FoldLeft, MapThenFoldSet
<1> HIDE DEF chosen
<1>8. LeadsTo(A, F, <<>>, n, chosen[1 .. n])
  <2>1. <<>> \in A /\ chosen[{}] = <<>>
    <3>1. <<>> \in A
      OBVIOUS
    <3>2. chosen[{}] = <<>>
      BY <1>6
    <3> QED  BY <3>1, <3>2
  <2>2. ASSUME NEW s \in SUBSET I, s # {}, chosen[s \ {Top(s)}] \in A
        PROVE  chosen[s] = F[Top(s)][chosen[s \ {Top(s)}]]
    <3>1. Max(s) = Top(s)
      BY DEF Max, Top
    <3>2. Top(s) \in I
      BY <1>1, <2>2, TopOf
    <3>3. chosen[s] = (IF chosen[s \ {Max(s)}] # <<>> /\ WidestFirst(items)[Max(s)].end <= Last(chosen[s \ {Max(s)}]).end THEN chosen[s \ {Max(s)}] ELSE Append(chosen[s \ {Max(s)}], WidestFirst(items)[Max(s)]))
      BY <1>1, <1>6, <2>2
    <3> HIDE DEF F, A, I, Solves
    <3> QED  BY <1>3, <2>2, <3>1, <3>2, <3>3
  <2>3. F \in [1 .. n -> [A -> A]] /\ n \in Nat
    BY <1>1, <1>3
  <2>4. \A s \in SUBSET (1 .. n) :
          s # {} /\ chosen[s \ {Top(s)}] \in A => chosen[s] = F[Top(s)][chosen[s \ {Top(s)}]]
    <3> HIDE DEF F, A, Solves
    <3> QED  BY <2>2
  <2> HIDE DEF F, A, Solves, n
  <2> QED  BY <2>1, <2>3, <2>4, FoldWalks
<1>9. PICK W \in [0 .. n -> A] :
        W[0] = <<>> /\ W[n] = chosen[1 .. n] /\ \A k \in 1 .. n : W[k] = F[k][W[k - 1]]
  <2> HIDE DEF F, A, n
  <2> QED  BY <1>8 DEF LeadsTo
<1>10. \A k \in 1 .. n : W[k] = (IF W[k - 1] # <<>> /\ WidestFirst(items)[k].end <= Last(W[k - 1]).end THEN W[k - 1] ELSE Append(W[k - 1], WidestFirst(items)[k]))
  <2> TAKE k \in 1 .. n
  <2>1. W[k - 1] \in A
    <3>1. k - 1 \in 0 .. n
      BY <1>1
    <3> HIDE DEF A, n
    <3> QED  BY <1>9, <3>1
  <2>2. W[k] = F[k][W[k - 1]]
    BY <1>9
  <2> HIDE DEF F, A
  <2> QED  BY <1>3, <2>1, <2>2
<1> HIDE DEF F
<1> HIDE DEF chosen
<1> QED  BY <1>1, <1>7, <1>9, <1>10 DEF Keeps


(* What is kept is what lies in nothing else, in the order of the starts.   *)
LEMMA RetainedAreWidest ==
  ASSUME NEW items, IsFiniteSet(Ranges(items)), Ranges(items) \subseteq Spans
  PROVE  /\ Retained(items) \in Seq(Ranges(items))
         /\ ToSet(Retained(items)) = Widest(Ranges(items))
         /\ \A r \in Ranges(items) : \E q \in Widest(Ranges(items)) : Inside(q, r)
         /\ \A a, b \in 1 .. Len(Retained(items)) :
              a < b => Retained(items)[a].start <= Retained(items)[b].start
<1> DEFINE S == Ranges(items)
           n == Cardinality(S)
           s == WidestFirst(items)
<1>1. /\ n \in Nat /\ s \in [1 .. n -> S]
      /\ \A x \in S : \E i \in 1 .. n : s[i] = x
      /\ \A i, j \in 1 .. n : i < j => \/ s[i].start < s[j].start
                                       \/ s[i].start = s[j].start /\ s[i].end > s[j].end
  BY WidestFirstEnumerates
<1>2. s \in Seq(S) /\ Len(s) = n
  <2> HIDE DEF s, S, n
  <2> QED  BY <1>1, SeqDef
<1>3. PICK W \in [0 .. Len(s) -> Seq(S)] : Keeps(W, s) /\ Retained(items) = W[Len(s)]
  BY <1>2, RetainedFold
<1>4. /\ W \in [0 .. n -> Seq(S)] /\ W[0] = <<>> /\ Retained(items) = W[n]
      /\ \A k \in 1 .. n :
           W[k] = (IF W[k - 1] # <<>> /\ s[k].end <= Last(W[k - 1]).end THEN W[k - 1]
                   ELSE Append(W[k - 1], s[k]))
  <2> HIDE DEF s, S, n
  <2> QED  BY <1>2, <1>3 DEF Keeps
<1>5. \A x \in S : x.start \in Int /\ x.end \in Int
  BY DEF Spans
<1> HIDE DEF S, s, n
<1> DEFINE From1(e, k) == \A a \in 1 .. Len(e) : e[a] \in Widest(S) /\ \E i \in 1 .. k : e[a] = s[i]
           Covers(e, k) == \A i \in 1 .. k : \E a \in 1 .. Len(e) : Inside(e[a], s[i])
           Ends(e, k) == k > 0 => e # <<>> /\ \A i \in 1 .. k : s[i].end <= Last(e).end
           Ordered(e) == \A a, b \in 1 .. Len(e) : a < b => e[a].start <= e[b].start
           Good(k) == From1(W[k], k) /\ Covers(W[k], k) /\ Ends(W[k], k) /\ Ordered(W[k])
           U == {k \in Nat : k <= n => Good(k)}
<1>6. 0 \in U
  BY <1>4
<1>7. ASSUME NEW k \in Nat, k \in U PROVE k + 1 \in U
  <2> SUFFICES ASSUME k + 1 <= n PROVE Good(k + 1)
    <3> HIDE DEF Good
    <3> QED  OBVIOUS
  <2> DEFINE e == W[k]
             r == s[k + 1]
             l == Len(e)
  <2>1. k + 1 \in 1 .. n /\ (k + 1) - 1 = k /\ k \in 0 .. n /\ k <= n
    BY <1>1
  <2>2. From1(e, k) /\ Covers(e, k) /\ Ends(e, k) /\ Ordered(e)
    <3>1. Good(k)
      <4> HIDE DEF Good
      <4> QED  BY <1>7, <2>1
    <3> QED  BY <3>1
  <2>3. e \in Seq(S) /\ l \in Nat /\ r \in S
    <3>1. e \in Seq(S)
      BY <1>4, <2>1
    <3>2. r \in S
      BY <1>1, <2>1
    <3> HIDE DEF e, r
    <3>3. Len(e) \in Nat
      BY <3>1
    <3> QED  BY <3>1, <3>2, <3>3
  <2>4. W[k + 1] = (IF e # <<>> /\ r.end <= Last(e).end THEN e ELSE Append(e, r))
    <3>1. W[k + 1] = (IF W[(k + 1) - 1] # <<>> /\ s[k + 1].end <= Last(W[(k + 1) - 1]).end
                      THEN W[(k + 1) - 1] ELSE Append(W[(k + 1) - 1], s[k + 1]))
      BY <1>4, <2>1
    <3> QED  BY <2>1, <3>1, Zenon
  <2>5. \A i \in 1 .. (k + 1) : i \in 1 .. k \/ i = k + 1
    OBVIOUS
  <2>6. \A i \in 1 .. k : i \in 1 .. n /\ i < k + 1 /\ i \in 1 .. (k + 1)
    BY <1>1, <2>1
  <2>7. \A i \in 1 .. k : s[i].start <= r.start
    <3> SUFFICES ASSUME NEW i \in 1 .. k PROVE s[i].start <= r.start
      OBVIOUS
    <3>1. s[i] \in S /\ (s[i].start < r.start \/ s[i].start = r.start)
      BY <1>1, <2>1, <2>6
    <3>2. s[i].start \in Int /\ r.start \in Int
      BY <1>5, <2>3, <3>1
    <3> QED  BY <3>1, <3>2
  <2> HIDE DEF e, r, U
  <2>8. CASE e # <<>> /\ r.end <= Last(e).end
    <3>1. W[k + 1] = e
      BY <2>4, <2>8
    <3>2. l \in 1 .. l /\ Last(e) = e[l]
      BY <2>3, <2>8 DEF Last
    <3>3. Inside(e[l], r)
      <4>1. PICK i \in 1 .. k : e[l] = s[i]
        BY <2>2, <3>2
      <4> QED  BY <2>7, <2>8, <3>2, <4>1 DEF Inside
    <3>4. From1(e, k + 1)
      BY <2>2, <2>6
    <3>5. Covers(e, k + 1)
      BY <2>2, <2>5, <3>2, <3>3 DEF r
    <3>6. Ends(e, k + 1)
      <4>1. \A i \in 1 .. k : s[i].end <= Last(e).end
        <5>1. \A i \in 1 .. k : k > 0
          OBVIOUS
        <5> QED  BY <2>2, <5>1
      <4>2. s[k + 1].end <= Last(e).end /\ e # <<>>
        BY <2>8 DEF r
      <4> QED  BY <2>5, <4>1, <4>2
    <3> QED  BY <2>2, <3>1, <3>4, <3>5, <3>6
  <2>9. CASE ~(e # <<>> /\ r.end <= Last(e).end)
    <3> DEFINE f == Append(e, r)
    <3>1. W[k + 1] = f
      BY <2>4, <2>9
    <3>2. Len(f) = l + 1 /\ f[l + 1] = r /\ (\A i \in 1 .. l : f[i] = e[i]) /\ f # <<>>
          /\ l + 1 \in 1 .. (l + 1) /\ Last(f) = r
          /\ \A i \in 1 .. (l + 1) : i \in 1 .. l \/ i = l + 1
      <4>1. Len(f) = l + 1 /\ f[l + 1] = r /\ (\A i \in 1 .. l : f[i] = e[i]) /\ f # <<>>
        BY <2>3
      <4>2. l + 1 \in 1 .. (l + 1) /\ \A i \in 1 .. (l + 1) : i \in 1 .. l \/ i = l + 1
        BY <2>3
      <4> QED  BY <4>1, <4>2 DEF Last
    <3> HIDE DEF f
    <3>3. \A i \in 1 .. k : s[i].end < r.end
      <4> SUFFICES ASSUME NEW i \in 1 .. k PROVE s[i].end < r.end
        OBVIOUS
      <4>1. e # <<>> /\ s[i].end <= Last(e).end
        BY <2>2
      <4>2. l \in 1 .. l /\ Last(e) = e[l] /\ e[l] \in S
        BY <2>3, <4>1 DEF Last
      <4>3. s[i] \in S
        BY <1>1, <2>6
      <4>4. Last(e).end \in Int /\ r.end \in Int /\ s[i].end \in Int
        BY <1>5, <2>3, <4>2, <4>3
      <4> QED  BY <2>9, <4>1, <4>4
    <3>4. r \in Widest(S)
      <4> SUFFICES ASSUME NEW q \in S, Inside(q, r) PROVE q = r
        BY <2>3 DEF Widest
      <4>1. PICK j \in 1 .. n : s[j] = q
        BY <1>1
      <4>2. q.start <= r.start /\ r.end <= q.end /\ q.start \in Int /\ q.end \in Int
            /\ r.start \in Int /\ r.end \in Int
        BY <1>5, <2>3 DEF Inside
      <4>3. j \in 1 .. k \/ j = k + 1 \/ k + 1 < j
        BY <2>1
      <4>4. CASE j \in 1 .. k
        BY <3>3, <4>1, <4>2, <4>4
      <4>5. CASE k + 1 < j
        <5>1. r.start < q.start \/ (r.start = q.start /\ r.end > q.end)
          BY <1>1, <2>1, <4>1, <4>5 DEF r
        <5> QED  BY <4>2, <5>1
      <4> QED  BY <4>1, <4>3, <4>4, <4>5 DEF r
    <3>5. From1(f, k + 1)
      <4>1. k + 1 \in 1 .. (k + 1)
        OBVIOUS
      <4>2. ASSUME NEW a \in 1 .. (l + 1)
            PROVE  f[a] \in Widest(S) /\ \E i \in 1 .. (k + 1) : f[a] = s[i]
        <5>1. CASE a \in 1 .. l
          BY <2>2, <2>6, <3>2, <5>1
        <5>2. CASE a = l + 1
          BY <3>2, <3>4, <4>1, <5>2 DEF r
        <5> QED  BY <3>2, <5>1, <5>2
      <4> QED  BY <3>2, <4>2
    <3>6. Covers(f, k + 1)
      <4>1. Inside(r, r)
        BY <1>5, <2>3 DEF Inside
      <4>2. ASSUME NEW i \in 1 .. (k + 1) PROVE \E a \in 1 .. (l + 1) : Inside(f[a], s[i])
        <5>1. CASE i \in 1 .. k
          <6>1. PICK a \in 1 .. l : Inside(e[a], s[i])
            BY <2>2, <5>1
          <6>2. a \in 1 .. (l + 1) /\ f[a] = e[a]
            BY <2>3, <3>2
          <6> QED  BY <6>1, <6>2
        <5>2. CASE i = k + 1
          BY <3>2, <4>1, <5>2 DEF r
        <5> QED  BY <2>5, <5>1, <5>2
      <4> QED  BY <3>2, <4>2
    <3>7. Ends(f, k + 1)
      <4> SUFFICES ASSUME NEW i \in 1 .. (k + 1) PROVE s[i].end <= r.end
        BY <3>2
      <4>1. CASE i \in 1 .. k
        <5>1. s[i] \in S
          BY <1>1, <2>6, <4>1
        <5> QED  BY <1>5, <2>3, <3>3, <4>1, <5>1
      <4>2. CASE i = k + 1
        BY <1>5, <2>3, <4>2 DEF r
      <4> QED  BY <2>5, <4>1, <4>2
    <3>8. Ordered(f)
      <4> SUFFICES ASSUME NEW a \in 1 .. (l + 1), NEW b \in 1 .. (l + 1), a < b
                   PROVE  f[a].start <= f[b].start
        BY <3>2
      <4>1. a \in 1 .. l
        BY <2>3
      <4>2. CASE b \in 1 .. l
        BY <2>2, <3>2, <4>1, <4>2
      <4>3. CASE b = l + 1
        <5>1. PICK i \in 1 .. k : e[a] = s[i]
          BY <2>2, <4>1
        <5> QED  BY <2>7, <3>2, <4>1, <4>3, <5>1
      <4> QED  BY <3>2, <4>2, <4>3
    <3> QED  BY <3>1, <3>5, <3>6, <3>7, <3>8
  <2> QED  BY <2>8, <2>9
<1>8. \A k \in Nat : k \in U
  <2> HIDE DEF U
  <2> QED  BY <1>6, <1>7, SetInduction
<1> DEFINE e == Retained(items)
<1>9. From1(e, n) /\ Covers(e, n) /\ Ordered(e)
  <2>1. n \in U /\ n <= n
    <3> HIDE DEF U
    <3> QED  BY <1>1, <1>8
  <2> QED  BY <1>4, <2>1
<1>10. e \in Seq(S) /\ DOMAIN e = 1 .. Len(e)
  <2>1. n \in 0 .. n
    BY <1>1
  <2>2. e \in Seq(S)
    BY <1>4, <2>1
  <2> HIDE DEF e
  <2> QED  BY <2>2
<1> HIDE DEF e, U
<1>11. \A r \in S : \E a \in 1 .. Len(e) : Inside(e[a], r)
  BY <1>1, <1>9
<1>12. ToSet(e) = Widest(S)
  <2>1. ToSet(e) = {e[a] : a \in 1 .. Len(e)}
    BY <1>10 DEF ToSet
  <2>2. \A a \in 1 .. Len(e) : e[a] \in Widest(S)
    BY <1>9
  <2>3. ASSUME NEW r \in Widest(S) PROVE \E a \in 1 .. Len(e) : e[a] = r
    <3>1. r \in S /\ \A q \in S : Inside(q, r) => q = r
      BY DEF Widest
    <3>2. PICK a \in 1 .. Len(e) : Inside(e[a], r)
      BY <1>11, <3>1
    <3>3. e[a] \in S
      BY <1>10
    <3> QED  BY <3>1, <3>2, <3>3
  <2> QED  BY <2>1, <2>2, <2>3
<1>13. \A r \in S : \E q \in Widest(S) : Inside(q, r)
  BY <1>9, <1>11
<1> QED  BY <1>9, <1>10, <1>12, <1>13 DEF e, S

(* Everything inside a kept range is in its group.                          *)
Gathered(R, r) == [range |-> r, members |-> {x \in R : Inside(r, x)}]

LEMMA GroupStep ==
  ASSUME NEW R, R \subseteq Spans, NEW entries \in Seq(R),
         \A x \in R : \E i \in 1 .. Len(entries) : entries[i] = x,
         NEW r \in R, NEW done, done.cursor \in Nat, done.cursor >= 1,
         \A i \in 1 .. Len(entries) : i < done.cursor => entries[i].end < r.start
  PROVE  LET next == Group(entries, done, r)
         IN  /\ next.cursor \in Nat /\ next.cursor >= 1
             /\ \A i \in 1 .. Len(entries) : i < next.cursor => entries[i].end < r.start
             /\ next.groups = Append(done.groups, Gathered(R, r))
             /\ next = [cursor |-> next.cursor, groups |-> next.groups]
<1> DEFINE c == Len(entries)
           behind == {i \in DOMAIN entries : i >= done.cursor /\ entries[i].end >= r.start}
           cursor == IF behind = {} THEN c + 1 ELSE CHOOSE i \in behind : \A j \in behind : i <= j
           members == {entries[i] : i \in {i \in cursor .. c :
                                              entries[i].start <= r.end /\ Inside(r, entries[i])}}
<1>1. c \in Nat /\ DOMAIN entries = 1 .. c /\ (\A i \in 1 .. c : entries[i] \in R)
      /\ \A x \in R : x.start \in Int /\ x.end \in Int /\ x.start < x.end
  <2>1. c \in Nat /\ DOMAIN entries = 1 .. c /\ (\A i \in 1 .. c : entries[i] \in R)
    OBVIOUS
  <2>2. \A x \in Spans : x.start \in Int /\ x.end \in Int /\ x.start < x.end
    BY DEF Spans
  <2> HIDE DEF c
  <2> QED  BY <2>1, <2>2, Zenon
<1>0. /\ \A a, b \in Int : ~(a >= b) <=> a < b
      /\ \A a, b, d, e \in Int : a <= b /\ d <= e /\ b < d => b <= e /\ ~(d < a)
  OBVIOUS
<1>2. Group(entries, done, r) =
        [cursor |-> cursor, groups |-> Append(done.groups, [range |-> r, members |-> members])]
  BY DEF Group
<1>3. \A i \in 1 .. c : i \in behind <=> i >= done.cursor /\ entries[i].end >= r.start
  BY <1>1
<1>4. behind \subseteq 1 .. c
  BY <1>1
<1> HIDE DEF behind
<1>5. /\ cursor \in Nat /\ cursor >= 1
      /\ \A i \in 1 .. c : i < cursor => entries[i].end < r.start
  <2>1. CASE behind = {}
    <3>1. cursor = c + 1
      BY <2>1
    <3>2. ASSUME NEW i \in 1 .. c PROVE entries[i].end < r.start
      <4>1. ~(i >= done.cursor) \/ ~(entries[i].end >= r.start)
        BY <1>3, <2>1
      <4>2. i < done.cursor \/ entries[i].end < r.start
        <5>1. i \in Int /\ entries[i].end \in Int /\ r.start \in Int /\ done.cursor \in Int
          BY <1>1
        <5> DEFINE C == done.cursor
                   E == entries[i].end
                   at == r.start
        <5>2. (~(i >= C) \/ ~(E >= at)) /\ i \in Int /\ E \in Int /\ at \in Int /\ C \in Int
          BY <4>1, <5>1
        <5> HIDE DEF C, E, at
        <5>3. i < C \/ E < at
          BY <5>2
        <5> QED  BY <5>3 DEF C, E, at
      <4> QED  BY <4>2
    <3>3. c + 1 \in Nat /\ c + 1 >= 1
      BY <1>1
    <3> HIDE DEF cursor
    <3> QED  BY <3>1, <3>2, <3>3, Zenon
  <2>2. CASE behind # {}
    <3>1. behind \in SUBSET Nat
      BY <1>1, <1>4
    <3>2. \E i \in behind : \A j \in behind : i <= j
      BY <2>2, <3>1, LeastExists
    <3>3. cursor = CHOOSE i \in behind : \A j \in behind : i <= j
      BY <2>2
    <3> HIDE DEF cursor
    <3>4. cursor \in behind /\ \A j \in behind : cursor <= j
      BY <3>2, <3>3
    <3>5. cursor \in 1 .. c
      BY <1>4, <3>4
    <3>6. ASSUME NEW i \in 1 .. c, i < cursor PROVE entries[i].end < r.start
      <4>1. i \notin behind
        BY <1>1, <3>4, <3>5, <3>6
      <4>2. i < done.cursor \/ entries[i].end < r.start
        <5>1. i \in Int /\ entries[i].end \in Int /\ r.start \in Int /\ done.cursor \in Int
          BY <1>1
        <5>0. ~(i >= done.cursor) \/ ~(entries[i].end >= r.start)
          BY <1>3, <4>1
        <5> DEFINE C == done.cursor
                   E == entries[i].end
                   at == r.start
        <5>2. (~(i >= C) \/ ~(E >= at)) /\ i \in Int /\ E \in Int /\ at \in Int /\ C \in Int
          BY <5>0, <5>1
        <5> HIDE DEF C, E, at
        <5>3. i < C \/ E < at
          BY <5>2
        <5> QED  BY <5>3 DEF C, E, at
      <4> QED  BY <4>2
    <3> QED  BY <1>1, <3>5, <3>6
  <2> QED  BY <2>1, <2>2
<1> HIDE DEF cursor
<1>6. members = {x \in R : Inside(r, x)}
  <2>1. ASSUME NEW x \in members PROVE x \in R /\ Inside(r, x)
    <3>1. PICK i \in cursor .. c : x = entries[i] /\ Inside(r, entries[i])
      BY <2>1
    <3>2. i \in 1 .. c
      BY <1>1, <1>5
    <3> QED  BY <1>1, <3>1, <3>2
  <2>2. ASSUME NEW x \in R, Inside(r, x) PROVE x \in members
    <3>1. PICK i \in 1 .. c : entries[i] = x
      OBVIOUS
    <3>2. r.start <= x.start /\ x.end <= r.end /\ x.start < x.end /\ x.start \in Int /\ x.end \in Int
          /\ r.start \in Int /\ r.end \in Int
      BY <1>1, <2>2 DEF Inside
    <3>3. x.start <= r.end /\ ~(x.end < r.start)
      BY <1>0, <3>2, Zenon
    <3>4. i \in cursor .. c
      BY <1>1, <1>5, <3>1, <3>3
    <3> QED  BY <2>2, <3>1, <3>3, <3>4
  <2> HIDE DEF members
  <2> QED  BY <2>1, <2>2
<1> HIDE DEF members
<1> QED  BY <1>2, <1>5, <1>6 DEF Gathered

Gatherings(R) == [cursor : Nat, groups : Seq([range : R, members : SUBSET R])]

LEMMA GroupTyped ==
  ASSUME NEW R, NEW entries \in Seq(R), NEW r \in R, R \subseteq Spans, NEW done \in Gatherings(R)
  PROVE  Group(entries, done, r) \in Gatherings(R)
<1> DEFINE c == Len(entries)
           behind == {i \in DOMAIN entries : i >= done.cursor /\ entries[i].end >= r.start}
           cursor == IF behind = {} THEN c + 1 ELSE CHOOSE i \in behind : \A j \in behind : i <= j
           members == {entries[i] : i \in {i \in cursor .. c :
                                              entries[i].start <= r.end /\ Inside(r, entries[i])}}
           group == [range |-> r, members |-> members]
<1>1. c \in Nat /\ DOMAIN entries = 1 .. c /\ \A i \in 1 .. c : entries[i] \in R
  OBVIOUS
<1>2. Group(entries, done, r) = [cursor |-> cursor, groups |-> Append(done.groups, group)]
  BY DEF Group
<1>3. behind \subseteq 1 .. c
  BY <1>1
<1> HIDE DEF behind, c
<1>4. cursor \in Nat /\ cursor >= 1
  <2>1. CASE behind = {}
    <3>1. c + 1 \in Nat /\ c + 1 >= 1
      BY <1>1
    <3> QED  BY <2>1, <3>1
  <2>2. CASE behind # {}
    <3>1. behind \in SUBSET Nat
      BY <1>1, <1>3
    <3>2. \E i \in behind : \A j \in behind : i <= j
      BY <2>2, <3>1, LeastExists
    <3>3. cursor = CHOOSE i \in behind : \A j \in behind : i <= j
      BY <2>2
    <3> HIDE DEF cursor
    <3>4. cursor \in behind
      BY <3>2, <3>3
    <3> QED  BY <1>1, <1>3, <3>4
  <2> QED  BY <2>1, <2>2
<1> HIDE DEF cursor
<1>5. members \in SUBSET R
  <2>1. \A i \in cursor .. c : i \in 1 .. c
    BY <1>1, <1>4
  <2> QED  BY <1>1, <2>1
<1> HIDE DEF members
<1>6. group \in [range : R, members : SUBSET R]
  BY <1>5
<1>7. done.groups \in Seq([range : R, members : SUBSET R])
  BY DEF Gatherings
<1> DEFINE S == [range : R, members : SUBSET R]
           before == done.groups
<1> HIDE DEF group, S, before
<1>8. Append(before, group) \in Seq(S)
  BY <1>6, <1>7 DEF S, before
<1> QED  BY <1>2, <1>4, <1>8 DEF Gatherings, S, before

GroupsFolded(items) ==
  LET entries == Entries(items)
  IN  FoldLeft(LAMBDA done, r : Group(entries, done, r), [cursor |-> 1, groups |-> <<>>],
               Retained(items))

Gathers(W, items) ==
  /\ W[0] = [cursor |-> 1, groups |-> <<>>]
  /\ \A k \in 1 .. Len(Retained(items)) :
       W[k] = Group(Entries(items), W[k - 1], Retained(items)[k])


LEMMA GroupsFold ==
  ASSUME NEW items, Ranges(items) \subseteq Spans, Entries(items) \in Seq(Ranges(items)),
         Retained(items) \in Seq(Ranges(items))
  PROVE  \E W \in [0 .. Len(Retained(items)) -> Gatherings(Ranges(items))] :
           Gathers(W, items) /\ GroupsFolded(items) = W[Len(Retained(items))]
<1> DEFINE n == Len(Retained(items))
           I == 1 .. n
           A == Gatherings(Ranges(items))
           F == [k \in I |-> [x \in A |-> Group(Entries(items), x, Retained(items)[k])]]
           Solves(it) == it = [s \in SUBSET DOMAIN Retained(items) |->
                                 IF s = {} THEN [cursor |-> 1, groups |-> <<>>]
                                 ELSE Group(Entries(items), it[s \ {Max(s)}], Retained(items)[Max(s)])]
           chosen == CHOOSE it : Solves(it)
<1>1. n \in Nat /\ DOMAIN Retained(items) = I
  OBVIOUS
<1>2. ASSUME NEW x \in A, NEW k \in I PROVE Group(Entries(items), x, Retained(items)[k]) \in A
  <2>1. Retained(items)[k] \in Ranges(items)
    OBVIOUS
  <2>2. Entries(items) \in Seq(Ranges(items)) /\ x \in Gatherings(Ranges(items))
    OBVIOUS
  <2> QED  BY <2>1, <2>2, GroupTyped
<1>3. F \in [I -> [A -> A]] /\ \A k \in I : \A x \in A : F[k][x] = Group(Entries(items), x, Retained(items)[k])
  <2> HIDE DEF A
  <2> QED  BY <1>2
<1>4. PICK it \in [SUBSET I -> A] : Folds(it, F, [cursor |-> 1, groups |-> <<>>], n)
  <2>1. [cursor |-> 1, groups |-> <<>>] \in A
    BY DEF Gatherings
  <2> HIDE DEF A, F
  <2> QED  BY <1>1, <1>3, <2>1, FoldExists
<1>5. Solves(it)
  <2>1. ASSUME NEW s \in SUBSET I, s # {}
        PROVE  it[s] = Group(Entries(items), it[s \ {Max(s)}], Retained(items)[Max(s)])
    <3>1. Max(s) = Top(s)
      BY DEF Max, Top
    <3>2. Top(s) \in I
      BY <1>1, <2>1, TopOf
    <3>3. it[s \ {Top(s)}] \in A
      OBVIOUS
    <3>4. it[s] = F[Top(s)][it[s \ {Top(s)}]]
      BY <1>4, <2>1 DEF Folds
    <3>5. F[Top(s)][it[s \ {Top(s)}]] = Group(Entries(items), it[s \ {Top(s)}], Retained(items)[Top(s)])
      <4> HIDE DEF F, A, I
      <4> QED  BY <1>3, <3>2, <3>3
    <3> HIDE DEF F, A, I
    <3> QED  BY <3>1, <3>4, <3>5
  <2>2. it[{}] = [cursor |-> 1, groups |-> <<>>]
    BY <1>4 DEF Folds
  <2>3. it = [s \in SUBSET DOMAIN Retained(items) |-> it[s]]
    BY <1>1
  <2> HIDE DEF I, A
  <2> QED  BY <1>1, <2>1, <2>2, <2>3
<1>6. Solves(chosen)
  <2> HIDE DEF Solves
  <2> QED  BY <1>5
<1>7. GroupsFolded(items) = chosen[DOMAIN Retained(items)]
  BY DEF GroupsFolded, FoldLeft, MapThenFoldSet
<1> HIDE DEF chosen
<1>8. LeadsTo(A, F, [cursor |-> 1, groups |-> <<>>], n, chosen[1 .. n])
  <2>1. [cursor |-> 1, groups |-> <<>>] \in A /\ chosen[{}] = [cursor |-> 1, groups |-> <<>>]
    <3>1. [cursor |-> 1, groups |-> <<>>] \in A
      BY DEF Gatherings
    <3>2. chosen[{}] = [cursor |-> 1, groups |-> <<>>]
      BY <1>6
    <3> QED  BY <3>1, <3>2
  <2>2. ASSUME NEW s \in SUBSET I, s # {}, chosen[s \ {Top(s)}] \in A
        PROVE  chosen[s] = F[Top(s)][chosen[s \ {Top(s)}]]
    <3>1. Max(s) = Top(s)
      BY DEF Max, Top
    <3>2. Top(s) \in I
      BY <1>1, <2>2, TopOf
    <3>3. chosen[s] = Group(Entries(items), chosen[s \ {Max(s)}], Retained(items)[Max(s)])
      BY <1>1, <1>6, <2>2
    <3> HIDE DEF F, A, I, Solves
    <3> QED  BY <1>3, <2>2, <3>1, <3>2, <3>3
  <2>3. F \in [1 .. n -> [A -> A]] /\ n \in Nat
    BY <1>1, <1>3
  <2>4. \A s \in SUBSET (1 .. n) :
          s # {} /\ chosen[s \ {Top(s)}] \in A => chosen[s] = F[Top(s)][chosen[s \ {Top(s)}]]
    <3> HIDE DEF F, A, Solves
    <3> QED  BY <2>2
  <2> HIDE DEF F, A, Solves, n
  <2> QED  BY <2>1, <2>3, <2>4, FoldWalks
<1>9. PICK W \in [0 .. n -> A] :
        W[0] = [cursor |-> 1, groups |-> <<>>] /\ W[n] = chosen[1 .. n] /\ \A k \in 1 .. n : W[k] = F[k][W[k - 1]]
  <2> HIDE DEF F, A, n
  <2> QED  BY <1>8 DEF LeadsTo
<1>10. \A k \in 1 .. n : W[k] = Group(Entries(items), W[k - 1], Retained(items)[k])
  <2> TAKE k \in 1 .. n
  <2>1. W[k - 1] \in A
    <3>1. k - 1 \in 0 .. n
      BY <1>1
    <3> HIDE DEF A, n
    <3> QED  BY <1>9, <3>1
  <2>2. W[k] = F[k][W[k - 1]]
    BY <1>9
  <2> HIDE DEF F, A
  <2> QED  BY <1>3, <2>1, <2>2
<1> HIDE DEF F
<1> QED  BY <1>1, <1>7, <1>9, <1>10 DEF Gathers


LEMMA GroupsAreWidest ==
  ASSUME NEW items, IsFiniteSet(Ranges(items)), Ranges(items) \subseteq Spans
  PROVE  ToSet(Groups(items)) = {Gathered(Ranges(items), r) : r \in Widest(Ranges(items))}
<1> DEFINE R == Ranges(items)
           e == Entries(items)
           q == Retained(items)
           n == Len(q)
           c == Len(e)
<1>1. e \in Seq(R) /\ \A x \in R : \E i \in 1 .. c : e[i] = x
  <2> DEFINE d == Cardinality(R)
  <2>1. d \in Nat /\ e \in [1 .. d -> R] /\ \A x \in R : \E i \in 1 .. d : e[i] = x
    BY EntriesEnumerate
  <2> HIDE DEF e, R, d
  <2>2. e \in Seq(R) /\ c = d
    BY <2>1, SeqDef
  <2> HIDE DEF c
  <2> QED  BY <2>1, <2>2
<1>2. /\ q \in Seq(R) /\ ToSet(q) = Widest(R)
      /\ \A a, b \in 1 .. n : a < b => q[a].start <= q[b].start
  BY RetainedAreWidest
<1>3. PICK W \in [0 .. n -> Gatherings(R)] : Gathers(W, items) /\ GroupsFolded(items) = W[n]
  BY <1>1, <1>2, GroupsFold
<1>4. /\ W[0] = [cursor |-> 1, groups |-> <<>>]
      /\ \A k \in 1 .. n : W[k] = Group(e, W[k - 1], q[k])
  BY <1>3 DEF Gathers
<1>5. Groups(items) = W[n].groups
  <2>1. Groups(items) = GroupsFolded(items).groups
    BY DEF Groups, GroupsFolded, FoldLeft, MapThenFoldSet
  <2> QED  BY <1>3, <2>1
<1>6. \A x \in R : x.start \in Int /\ x.end \in Int
  BY DEF Spans
<1>7. c \in Nat /\ n \in Nat /\ (\A i \in 1 .. c : e[i] \in R) /\ \A k \in 1 .. n : q[k] \in R
  <2>1. c \in Nat /\ \A i \in 1 .. c : e[i] \in R
    <3> HIDE DEF e, R
    <3> QED  BY <1>1
  <2>2. n \in Nat /\ \A k \in 1 .. n : q[k] \in R
    <3> HIDE DEF q, R
    <3> QED  BY <1>2
  <2> QED  BY <2>1, <2>2
<1>8. R \subseteq Spans
  OBVIOUS
<1> HIDE DEF R, e, q, n, c
<1> DEFINE Passed(k) == k > 0 => \A i \in 1 .. c : i < W[k].cursor => e[i].end < q[k].start
           Grouped(k) == /\ Len(W[k].groups) = k /\ DOMAIN W[k].groups = 1 .. k
                         /\ \A j \in 1 .. k : W[k].groups[j] = Gathered(R, q[j])
           Good(k) == Passed(k) /\ Grouped(k) /\ W[k].cursor \in Nat /\ W[k].cursor >= 1
                      /\ (k = 0 => W[k].cursor = 1)
           U == {k \in Nat : k <= n => Good(k)}
<1>9. 0 \in U
  <2>1. W[0].cursor = 1 /\ W[0].groups = <<>>
    BY <1>4
  <2>2. Grouped(0)
    BY <2>1
  <2> HIDE DEF Grouped
  <2> QED  BY <2>1, <2>2
<1>10. ASSUME NEW k \in Nat, k \in U PROVE k + 1 \in U
  <2> SUFFICES ASSUME k + 1 <= n PROVE Good(k + 1)
    <3> HIDE DEF Good
    <3> QED  OBVIOUS
  <2>1. k + 1 \in 1 .. n /\ (k + 1) - 1 = k /\ k \in 0 .. n /\ k <= n /\ k + 1 > 0 /\ k + 1 # 0
    BY <1>7
  <2>2. Good(k)
    <3> HIDE DEF Good
    <3> QED  BY <1>10, <2>1
  <2> DEFINE done == W[k]
             r == q[k + 1]
             next == W[k + 1]
  <2>3. next = Group(e, done, r)
    <3>1. W[k + 1] = Group(e, W[(k + 1) - 1], q[k + 1])
      BY <1>4, <2>1
    <3> QED  BY <2>1, <3>1, Zenon
  <2>4. r \in R /\ r.start \in Int
    BY <1>6, <1>7, <2>1
  <2>5. \A i \in 1 .. c : i < done.cursor => e[i].end < r.start
    <3> SUFFICES ASSUME NEW i \in 1 .. c, i < done.cursor PROVE e[i].end < r.start
      OBVIOUS
    <3>1. CASE k = 0
      <4>1. done.cursor = 1
        BY <2>2, <3>1
      <4> QED  BY <4>1
    <3>2. CASE k > 0
      <4>1. e[i].end < q[k].start
        BY <2>2, <3>2
      <4>2. k \in 1 .. n /\ k < k + 1
        BY <2>1, <3>2
      <4>3. q[k].start <= q[k + 1].start
        BY <1>2, <2>1, <4>2
      <4>4. e[i].end \in Int /\ q[k].start \in Int
        BY <1>6, <1>7, <4>2
      <4> QED  BY <2>4, <4>1, <4>3, <4>4
    <3> QED  BY <3>1, <3>2
  <2>6. done.cursor \in Nat /\ done.cursor >= 1 /\ Grouped(k)
    BY <2>2
  <2> HIDE DEF done, r, next, Grouped
  <2>7. /\ next.cursor \in Nat /\ next.cursor >= 1
        /\ \A i \in 1 .. c : i < next.cursor => e[i].end < r.start
        /\ next.groups = Append(done.groups, Gathered(R, r))
    BY <1>1, <1>8, <2>3, <2>4, <2>5, <2>6, GroupStep DEF c
  <2>8. Grouped(k + 1)
    <3> DEFINE f == done.groups
               g == Gathered(R, r)
    <3>1. done \in Gatherings(R)
      BY <1>3, <2>1 DEF done
    <3> DEFINE S == [range : R, members : SUBSET R]
    <3>2. f \in Seq(S)
      BY <3>1 DEF Gatherings
    <3>3. Len(f) = k /\ \A j \in 1 .. k : f[j] = Gathered(R, q[j])
      BY <2>6 DEF Grouped, done
    <3> HIDE DEF f, S, g
    <3>4. /\ Len(Append(f, g)) = k + 1 /\ DOMAIN Append(f, g) = 1 .. (k + 1)
          /\ Append(f, g)[k + 1] = g /\ \A j \in 1 .. k : Append(f, g)[j] = f[j]
      BY <3>2, <3>3
    <3>5. \A j \in 1 .. (k + 1) : j \in 1 .. k \/ j = k + 1
      OBVIOUS
    <3>6. next.groups = Append(f, g)
      BY <2>7 DEF f, g
    <3>7. \A j \in 1 .. (k + 1) : Append(f, g)[j] = Gathered(R, q[j])
      BY <3>3, <3>4, <3>5 DEF g, r
    <3> QED  BY <3>4, <3>6, <3>7 DEF Grouped, next
  <2> QED  BY <2>1, <2>7, <2>8 DEF next, r
<1>11. \A k \in Nat : k \in U
  <2> HIDE DEF U
  <2> QED  BY <1>9, <1>10, SetInduction
<1>12. Grouped(n)
  <2>1. n \in U /\ n <= n
    <3> HIDE DEF U
    <3> QED  BY <1>7, <1>11
  <2> QED  BY <2>1
<1> DEFINE f == W[n].groups
<1>13. DOMAIN f = 1 .. n /\ \A j \in 1 .. n : f[j] = Gathered(R, q[j])
  BY <1>12
<1>14. ToSet(q) = {q[j] : j \in 1 .. n}
  <2>1. DOMAIN q = 1 .. n
    BY <1>2 DEF n
  <2> QED  BY <2>1 DEF ToSet
<1> HIDE DEF f, U
<1>15. ToSet(f) = {f[j] : j \in 1 .. n}
  BY <1>13 DEF ToSet
<1>16. ToSet(f) = {Gathered(R, r) : r \in Widest(R)}
  <2>1. {f[j] : j \in 1 .. n} = {Gathered(R, q[j]) : j \in 1 .. n}
    BY <1>13
  <2>2. Widest(R) = {q[j] : j \in 1 .. n}
    BY <1>2, <1>14
  <2> QED  BY <1>15, <2>1, <2>2
<1> QED  BY <1>5, <1>16 DEF f, R

(* What a finding of a rule says of the evidence for it.                    *)
Says(f, rule, items) ==
  LET inside == {s \in Shown(items) : Inside(f.range, RangeOf(s.at))}
  IN  /\ f.rule = rule.id /\ f.severity = rule.severity /\ f.range \in Widest(Ranges(items))
      /\ f.certainty = "Definite" <=> \E s \in inside : s.item.certainty = "Definite"
      /\ f.truncated <=> \E s \in inside : s.item.truncated
      /\ f.traces # {}

LEMMA FindingsSay ==
  ASSUME NEW rule, NEW items, IsFiniteSet(Ranges(items)), Ranges(items) \subseteq Spans
  PROVE  LET found == Findings(rule.id, rule.severity, items)
         IN  /\ \A f \in found : Says(f, rule, items)
             /\ \A r \in Widest(Ranges(items)) : \E f \in found : f.range = r
             /\ \A f, g \in found : f.range = g.range => f = g
<1> DEFINE R == Ranges(items)
           in(g) == {s \in Shown(items) : RangeOf(s.at) \in g.members}
           F(g) == [rule |-> rule.id, severity |-> rule.severity, range |-> g.range,
                    traces |-> Traces(in(g)),
                    truncated |-> \E s \in in(g) : s.item.truncated,
                    certainty |-> IF \E s \in in(g) : s.item.certainty = "Definite"
                                  THEN "Definite" ELSE "Possible"]
           found == Findings(rule.id, rule.severity, items)
<1>1. found = {F(g) : g \in ToSet(Groups(items))}
  BY DEF Findings
<1>2. ToSet(Groups(items)) = {Gathered(R, r) : r \in Widest(R)}
  BY GroupsAreWidest
<1>3. ASSUME NEW r \in Widest(R)
      PROVE  F(Gathered(R, r)).range = r /\ Says(F(Gathered(R, r)), rule, items)
  <2> DEFINE g == Gathered(R, r)
             inside == {s \in Shown(items) : Inside(r, RangeOf(s.at))}
  <2>1. g.range = r /\ g.members = {x \in R : Inside(r, x)}
    BY DEF Gathered
  <2>2. \A s \in Shown(items) : RangeOf(s.at) \in R
    BY DEF Ranges
  <2>3. \A s \in Shown(items) : RangeOf(s.at) \in g.members <=> Inside(r, RangeOf(s.at))
    <3> HIDE DEF R, g
    <3> QED  BY <2>1, <2>2
  <2>4. in(g) = inside
    <3> HIDE DEF g
    <3> QED  BY <2>3
  <2> DEFINE f == [rule |-> rule.id, severity |-> rule.severity, range |-> r,
                   traces |-> Traces(inside),
                   truncated |-> \E s \in inside : s.item.truncated,
                   certainty |-> IF \E s \in inside : s.item.certainty = "Definite"
                                 THEN "Definite" ELSE "Possible"]
  <2>5. F(g) = f
    <3> HIDE DEF g, inside
    <3> QED  BY <2>1, <2>4
  <2>6. f.rule = rule.id /\ f.severity = rule.severity /\ f.range = r
        /\ f.traces = Traces(inside)
    OBVIOUS
  <2>7. f.certainty = "Definite" <=> \E s \in inside : s.item.certainty = "Definite"
    <3> HIDE DEF inside
    <3> QED  OBVIOUS
  <2>8. f.truncated <=> \E s \in inside : s.item.truncated
    <3> HIDE DEF inside
    <3> QED  OBVIOUS
  <2>9. Traces(inside) # {}
    <3> HIDE DEF inside
    <3>1. "occurrence" \in {"occurrence"}
      OBVIOUS
    <3> QED  BY <3>1, Zenon DEF Traces
  <2>10. inside = {s \in Shown(items) : Inside(f.range, RangeOf(s.at))}
    <3> HIDE DEF f
    <3> QED  BY <2>6
  <2> HIDE DEF f, inside, F, R
  <2>11. Says(f, rule, items)
    BY <2>6, <2>7, <2>8, <2>9, <2>10 DEF Says, R
  <2> QED  BY <2>5, <2>6, <2>11
<1> HIDE DEF F, R, found
<1>4. \A f \in found : \E r \in Widest(R) : f = F(Gathered(R, r))
  BY <1>1, <1>2
<1>5. \A r \in Widest(R) : F(Gathered(R, r)) \in found
  BY <1>1, <1>2
<1>6. \A f \in found : Says(f, rule, items)
  BY <1>3, <1>4
<1>7. \A r \in Widest(R) : \E f \in found : f.range = r
  BY <1>3, <1>5
<1>8. \A f, g \in found : f.range = g.range => f = g
  BY <1>3, <1>4
<1> QED  BY <1>6, <1>7, <1>8 DEF found, R

(* Findings of different rules stay as they are when they are merged.       *)
Alike(m, f) ==
  /\ m.rule = f.rule /\ m.range = f.range /\ m.severity = f.severity /\ m.traces = f.traces
  /\ m.truncated <=> f.truncated
  /\ m.certainty = "Definite" <=> f.certainty = "Definite"

LEMMA MergeKeeps ==
  ASSUME NEW F, \A f \in F : f.severity \in Int,
         \A f, g \in F : f.rule = g.rule /\ f.range = g.range => f = g
  PROVE  /\ \A m \in MergeFindings(F) : \E f \in F : Alike(m, f)
         /\ \A f \in F : \E m \in MergeFindings(F) : Alike(m, f)
<1> DEFINE same(f) == {g \in F : g.rule = f.rule /\ g.range = f.range}
           M(f) == [rule |-> f.rule, range |-> f.range,
                    severity |-> Min({g.severity : g \in same(f)}),
                    traces |-> UNION {g.traces : g \in same(f)},
                    truncated |-> \E g \in same(f) : g.truncated,
                    certainty |-> IF \E g \in same(f) : g.certainty = "Definite"
                                  THEN "Definite" ELSE "Possible"]
<1>1. MergeFindings(F) = {M(f) : f \in F}
  BY DEF MergeFindings
<1>2. ASSUME NEW f \in F PROVE Alike(M(f), f)
  <2>1. same(f) = {f}
    OBVIOUS
  <2> HIDE DEF same
  <2>2. Min({g.severity : g \in same(f)}) = f.severity
    <3>1. {g.severity : g \in same(f)} = {f.severity}
      BY <2>1
    <3> DEFINE v == f.severity
    <3>2. v \in Int
      OBVIOUS
    <3> HIDE DEF v
    <3>3. Min({v}) = v
      BY <3>2 DEF Min
    <3> QED  BY <3>1, <3>3 DEF v
  <2>3. UNION {g.traces : g \in same(f)} = f.traces
    BY <2>1
  <2>4. (\E g \in same(f) : g.truncated) <=> f.truncated
    BY <2>1, Zenon
  <2>5. (\E g \in same(f) : g.certainty = "Definite") <=> f.certainty = "Definite"
    BY <2>1, Zenon
  <2>6. M(f).rule = f.rule /\ M(f).range = f.range
        /\ M(f).severity = Min({g.severity : g \in same(f)})
        /\ M(f).traces = UNION {g.traces : g \in same(f)}
    OBVIOUS
  <2>7. M(f).truncated <=> \E g \in same(f) : g.truncated
    OBVIOUS
  <2>8. M(f).certainty = "Definite" <=> \E g \in same(f) : g.certainty = "Definite"
    OBVIOUS
  <2> HIDE DEF M
  <2> QED  BY <2>2, <2>3, <2>4, <2>5, <2>6, <2>7, <2>8 DEF Alike
<1> HIDE DEF M
<1> QED  BY <1>1, <1>2

LEMMA ImageIsFinite ==
  ASSUME NEW S, IsFiniteSet(S), NEW f
  PROVE  IsFiniteSet({f[x] : x \in S})
<1> DEFINE T == {f[x] : x \in S}
           g == [x \in S |-> f[x]]
<1>1. g \in Surjection(S, T)
  BY DEF Surjection
<1> HIDE DEF g, T
<1> QED  BY <1>1, FS_Surjection DEF T

LEMMA EvidenceHasSpans ==
  ASSUME NEW found, NEW rule, IsEvidence(found, DOMAIN found), rule \in DOMAIN found,
         NEW items, items \subseteq found[rule]
  PROVE  IsFiniteSet(Ranges(items)) /\ Ranges(items) \subseteq Spans
<1> DEFINE f == [i \in items |-> i.occurrences]
           O == UNION {f[i] : i \in items}
           g == [o \in O |-> RangeOf(o)]
<1>1. IsFiniteSet(items) /\ \A i \in items : f[i] = i.occurrences /\ IsFiniteSet(f[i])
      /\ \A o \in f[i] : o.start \in Int /\ o.end \in Int
  <2>1. IsFiniteSet(found[rule])
    BY DEF IsEvidence
  <2>2. items \in SUBSET found[rule]
    OBVIOUS
  <2>3. IsFiniteSet(items)
    BY <2>1, <2>2, FS_Subset
  <2> QED  BY <2>3 DEF IsEvidence
<1> HIDE DEF f
<1>2. IsFiniteSet(O) /\ \A o \in O : o.start \in Int /\ o.end \in Int
  <2>1. IsFiniteSet({f[i] : i \in items})
    BY <1>1, ImageIsFinite
  <2>2. \A t \in {f[i] : i \in items} : IsFiniteSet(t)
    BY <1>1
  <2>3. IsFiniteSet(O)
    BY <2>1, <2>2, FS_UNION
  <2> QED  BY <1>1, <2>3
<1>3. \A s \in Shown(items) : s.at \in O /\ s.at.start < s.at.end
  BY <1>1 DEF Shown
<1>4. Ranges(items) \subseteq {g[o] : o \in O}
  BY <1>3 DEF Ranges
<1>5. IsFiniteSet(Ranges(items))
  <2> DEFINE T == {g[o] : o \in O}
  <2>1. IsFiniteSet(T)
    <3> HIDE DEF g, O
    <3> QED  BY <1>2, ImageIsFinite
  <2>2. Ranges(items) \in SUBSET T
    BY <1>4
  <2> HIDE DEF T
  <2> QED  BY <2>1, <2>2, FS_Subset
<1>6. Ranges(items) \subseteq Spans
  <2> SUFFICES ASSUME NEW s \in Shown(items) PROVE RangeOf(s.at) \in Spans
    BY DEF Ranges
  <2> DEFINE a == s.at.start
             b == s.at.end
  <2>1. a \in Int /\ b \in Int /\ a < b
    BY <1>2, <1>3
  <2>2. RangeOf(s.at) = [start |-> a, end |-> b]
    BY DEF RangeOf
  <2> HIDE DEF a, b
  <2> QED  BY <2>1, <2>2 DEF Spans
<1> QED  BY <1>5, <1>6

(* The findings of a file say what the evidence of each rule says.          *)
Distinct(rules) ==
  /\ \A rule \in rules : rule.severity \in Int
  /\ \A q, rule \in rules : q.id = rule.id => q = rule
Reaching(artifact, items) == {i \in items : Reaches(artifact, i)}

LEMMA FindingsOfSay ==
  ASSUME NEW artifact, NEW found, IsEvidence(found, DOMAIN found), Distinct(DOMAIN found),
         NEW rule, rule \in DOMAIN found
  PROVE  LET items == Reaching(artifact, found[rule])
             mine == {f \in FindingsOf(artifact, found) : f.rule = rule.id}
         IN  /\ \A f \in mine : Says(f, rule, items)
             /\ {f.range : f \in mine} = Widest(Ranges(items))
<1> DEFINE of(q) == Findings(q.id, q.severity, Reaching(artifact, found[q]))
           F == UNION {of(q) : q \in DOMAIN found}
           items == Reaching(artifact, found[rule])
<1>1. FindingsOf(artifact, found) = MergeFindings(F)
  BY DEF FindingsOf, Reaching
<1>2. ASSUME NEW q, q \in DOMAIN found
      PROVE  /\ \A f \in of(q) : Says(f, q, Reaching(artifact, found[q]))
             /\ \A r \in Widest(Ranges(Reaching(artifact, found[q]))) : \E f \in of(q) : f.range = r
             /\ \A f, g \in of(q) : f.range = g.range => f = g
  <2> DEFINE reaching == Reaching(artifact, found[q])
  <2>1. reaching \subseteq found[q]
    BY DEF Reaching
  <2> HIDE DEF reaching
  <2>2. IsFiniteSet(Ranges(reaching)) /\ Ranges(reaching) \subseteq Spans
    BY <1>2, <2>1, EvidenceHasSpans
  <2> QED  BY <2>2, FindingsSay DEF reaching
<1>3. \A q \in DOMAIN found : \A f \in of(q) : f.rule = q.id /\ f.severity = q.severity
  BY <1>2 DEF Says
<1> HIDE DEF of
<1>4. \A f \in F : f.severity \in Int
  BY <1>3 DEF Distinct
<1>5. \A f, g \in F : f.rule = g.rule /\ f.range = g.range => f = g
  <2> SUFFICES ASSUME NEW f \in F, NEW g \in F, f.rule = g.rule, f.range = g.range PROVE f = g
    OBVIOUS
  <2>1. PICK q \in DOMAIN found : f \in of(q)
    OBVIOUS
  <2>2. PICK r \in DOMAIN found : g \in of(r)
    OBVIOUS
  <2>3. q = r
    BY <1>3, <2>1, <2>2 DEF Distinct
  <2> QED  BY <1>2, <2>1, <2>2, <2>3
<1>6. \A f \in F : f.rule = rule.id <=> f \in of(rule)
  BY <1>3 DEF Distinct
<1>7. of(rule) \subseteq F
  OBVIOUS
<1> HIDE DEF F
<1>8. /\ \A m \in MergeFindings(F) : \E f \in F : Alike(m, f)
      /\ \A f \in F : \E m \in MergeFindings(F) : Alike(m, f)
  BY <1>4, <1>5, MergeKeeps
<1> DEFINE mine == {f \in FindingsOf(artifact, found) : f.rule = rule.id}
<1>9. ASSUME NEW m \in mine
      PROVE  Says(m, rule, items)
  <2>1. m \in MergeFindings(F) /\ m.rule = rule.id
    BY <1>1
  <2>2. PICK f \in F : Alike(m, f)
    BY <1>8, <2>1
  <2>3. f \in of(rule)
    BY <1>6, <2>1, <2>2 DEF Alike
  <2>4. Says(f, rule, items)
    BY <1>2, <2>3
  <2> HIDE DEF items
  <2> QED  BY <2>2, <2>4 DEF Alike, Says
<1>10. \A m \in mine : m.range \in Widest(Ranges(items))
  BY <1>9 DEF Says
<1>11. ASSUME NEW r \in Widest(Ranges(items)) PROVE \E m \in mine : m.range = r
  <2>1. PICK f \in of(rule) : f.range = r
    BY <1>2
  <2>2. PICK m \in MergeFindings(F) : Alike(m, f)
    BY <1>7, <1>8, <2>1
  <2>3. m.rule = rule.id /\ m.range = r
    BY <1>3, <2>1, <2>2 DEF Alike
  <2> QED  BY <1>1, <2>2, <2>3
<1> HIDE DEF mine, items
<1>12. {f.range : f \in mine} = Widest(Ranges(items))
  BY <1>10, <1>11
<1> QED  BY <1>9, <1>12 DEF mine, items

-----------------------------------------------------------------------------
(* The facts of a file: whatever is not among them has left a mark.         *)

Issues == {"BudgetExhausted", "PathExhausted", "InvalidParserSpan"}

Asks == {"Fact", "Outside", "Generated", "Path", "Name", "Value"}

Builders(limits, misshapen, K) ==
  {b \in [limits : {limits}, scoped : BOOLEAN, used : Nat, exhausted : BOOLEAN, facts : Nat,
          paths : Nat, names : Nat, values : Nat, issues : SUBSET Issues, namesFull : BOOLEAN,
          valuesFull : BOOLEAN, lost : SUBSET K] :
     /\ b.scoped <=> ~misshapen
     /\ b.lost # {} => b.exhausted \/ b.issues # {} \/ b.namesFull \/ b.valuesFull \/ misshapen}

LEMMA ChargeKeeps ==
  ASSUME NEW limits, NEW misshapen, NEW K, NEW b \in Builders(limits, misshapen, K)
  PROVE  TryCharge(b) \in Builders(limits, misshapen, K)
<1>1. [b EXCEPT !.exhausted = TRUE] \in Builders(limits, misshapen, K)
  BY DEF Builders
<1>2. [b EXCEPT !.used = @ + 1] \in Builders(limits, misshapen, K)
  BY DEF Builders
<1> QED  BY <1>1, <1>2, Zenon DEF TryCharge

LEMMA LosingKeeps ==
  ASSUME NEW limits, NEW misshapen, NEW K, NEW b \in Builders(limits, misshapen, K), NEW k \in K
  PROVE  /\ b.exhausted \/ b.namesFull \/ b.valuesFull \/ ~b.scoped =>
              Lose(b, k) \in Builders(limits, misshapen, K)
         /\ \A issue \in Issues : Issue(b, issue, k) \in Builders(limits, misshapen, K)
<1>1. b.exhausted \/ b.namesFull \/ b.valuesFull \/ ~b.scoped =>
        Lose(b, k) \in Builders(limits, misshapen, K)
  BY DEF Lose, Builders
<1>2. ASSUME NEW issue \in Issues PROVE Issue(b, issue, k) \in Builders(limits, misshapen, K)
  BY DEF Issue, Lose, Builders
<1> QED  BY <1>1, <1>2

LEMMA InterningKeeps ==
  ASSUME NEW limits, NEW misshapen, NEW K, NEW b \in Builders(limits, misshapen, K), NEW k \in K
  PROVE  InternName(b, k) \in Builders(limits, misshapen, K) /\ InternValue(b, k) \in Builders(limits, misshapen, K)
<1>1. InternName(b, k) \in Builders(limits, misshapen, K)
  <2> DEFINE c == TryCharge(b)
  <2>1. c \in Builders(limits, misshapen, K)
    BY ChargeKeeps
  <2> HIDE DEF c
  <2>2. Lose([c EXCEPT !.namesFull = TRUE], k) \in Builders(limits, misshapen, K)
    BY <2>1 DEF Lose, Builders
  <2>3. [c EXCEPT !.names = @ + 1] \in Builders(limits, misshapen, K)
    BY <2>1 DEF Builders
  <2>4. c.exhausted => Lose(c, k) \in Builders(limits, misshapen, K)
    BY <2>1, LosingKeeps
  <2> QED  BY <2>2, <2>3, <2>4 DEF InternName, c
<1>2. InternValue(b, k) \in Builders(limits, misshapen, K)
  <2>1. Lose([b EXCEPT !.valuesFull = TRUE], k) \in Builders(limits, misshapen, K)
    BY DEF Lose, Builders
  <2>2. [b EXCEPT !.values = @ + 1] \in Builders(limits, misshapen, K)
    BY DEF Builders
  <2> QED  BY <2>1, <2>2 DEF InternValue
<1> QED  BY <1>1, <1>2

LEMMA WalkKeeps ==
  ASSUME NEW limits, NEW misshapen, NEW K, NEW b \in Builders(limits, misshapen, K), NEW k \in K,
         NEW ask \in Asks
  PROVE  Walk(b, ask, k) \in Builders(limits, misshapen, K)
<1>1. Emit(b, ask, k) \in Builders(limits, misshapen, K)
  <2> DEFINE c == TryCharge(b)
  <2>1. c \in Builders(limits, misshapen, K)
    BY ChargeKeeps
  <2> HIDE DEF c
  <2>2. Issue(c, "BudgetExhausted", k) \in Builders(limits, misshapen, K)
    BY <2>1, LosingKeeps DEF Issues
  <2>3. [c EXCEPT !.facts = @ + 1] \in Builders(limits, misshapen, K)
    BY <2>1 DEF Builders
  <2>4. AppendFact(c, k) \in Builders(limits, misshapen, K)
    BY <2>2, <2>3 DEF AppendFact
  <2>5. Issue(b, "InvalidParserSpan", k) \in Builders(limits, misshapen, K)
    BY LosingKeeps DEF Issues
  <2>6. b.exhausted \/ ~b.scoped => Lose(b, k) \in Builders(limits, misshapen, K)
    BY LosingKeeps
  <2> QED  BY <2>4, <2>5, <2>6 DEF Emit, c
<1>3. AppendPath(b, k) \in Builders(limits, misshapen, K)
  <2> DEFINE c == TryCharge(b)
             named == InternName(c, k)
  <2>1. c \in Builders(limits, misshapen, K)
    BY ChargeKeeps
  <2> HIDE DEF c
  <2>2. named \in Builders(limits, misshapen, K)
    BY <2>1, InterningKeeps
  <2>3. c.exhausted => Lose(c, k) \in Builders(limits, misshapen, K)
    BY <2>1, LosingKeeps
  <2> HIDE DEF named
  <2>4. Issue(named, "PathExhausted", k) \in Builders(limits, misshapen, K)
    BY <2>2, LosingKeeps DEF Issues
  <2>5. [named EXCEPT !.paths = @ + 1] \in Builders(limits, misshapen, K)
    BY <2>2 DEF Builders
  <2> QED  BY <2>2, <2>3, <2>4, <2>5 DEF AppendPath, named, c
<1>4. InternName(b, k) \in Builders(limits, misshapen, K) /\ InternValue(b, k) \in Builders(limits, misshapen, K)
  BY InterningKeeps
<1> QED  BY <1>1, <1>3, <1>4 DEF Walk, Asks

LEMMA FactsAreBuilt ==
  ASSUME NEW limits, NEW misshapen, NEW file, NEW N \in Nat, DOMAIN file = 1 .. N,
         \A k \in 1 .. N : file[k] \in Asks
  PROVE  BuildFacts(file, limits, misshapen) \in Builders(limits, misshapen, 1 .. N)
<1> DEFINE n == N
           indexes == [i \in DOMAIN file |-> i]
           I == 1 .. n
           A == Builders(limits, misshapen, 1 .. N)
           F == [k \in I |-> [x \in A |-> Walk(x, file[indexes[k]], indexes[k])]]
           Solves(it) == it = [s \in SUBSET DOMAIN indexes |->
                                 IF s = {} THEN NewBuilder(limits, misshapen)
                                 ELSE Walk(it[s \ {Max(s)}], file[indexes[Max(s)]], indexes[Max(s)])]
           chosen == CHOOSE it : Solves(it)
<1>1. n \in Nat /\ DOMAIN indexes = I /\ \A k \in I : indexes[k] = k
  OBVIOUS
<1>2. ASSUME NEW x \in A, NEW k \in I PROVE Walk(x, file[indexes[k]], indexes[k]) \in A
  <2>1. indexes[k] \in 1 .. N /\ file[indexes[k]] \in Asks
    BY <1>1
  <2>2. x \in Builders(limits, misshapen, 1 .. N)
    OBVIOUS
  <2> QED  BY <2>1, <2>2, WalkKeeps
<1>3. F \in [I -> [A -> A]] /\ \A k \in I : \A x \in A : F[k][x] = Walk(x, file[indexes[k]], indexes[k])
  <2> HIDE DEF A
  <2> QED  BY <1>2
<1>4. PICK it \in [SUBSET I -> A] : Folds(it, F, NewBuilder(limits, misshapen), n)
  <2>1. NewBuilder(limits, misshapen) \in A
    BY DEF NewBuilder, Builders, Issues
  <2> HIDE DEF A, F
  <2> QED  BY <1>1, <1>3, <2>1, FoldExists
<1>5. Solves(it)
  <2>1. ASSUME NEW s \in SUBSET I, s # {}
        PROVE  it[s] = Walk(it[s \ {Max(s)}], file[indexes[Max(s)]], indexes[Max(s)])
    <3>1. Max(s) = Top(s)
      BY DEF Max, Top
    <3>2. Top(s) \in I
      BY <1>1, <2>1, TopOf
    <3>3. it[s \ {Top(s)}] \in A
      OBVIOUS
    <3>4. it[s] = F[Top(s)][it[s \ {Top(s)}]]
      BY <1>4, <2>1 DEF Folds
    <3>5. F[Top(s)][it[s \ {Top(s)}]] = Walk(it[s \ {Top(s)}], file[indexes[Top(s)]], indexes[Top(s)])
      <4> HIDE DEF F, A, I
      <4> QED  BY <1>3, <3>2, <3>3
    <3> HIDE DEF F, A, I
    <3> QED  BY <3>1, <3>4, <3>5
  <2>2. it[{}] = NewBuilder(limits, misshapen)
    BY <1>4 DEF Folds
  <2>3. it = [s \in SUBSET DOMAIN indexes |-> it[s]]
    BY <1>1
  <2> HIDE DEF I, A
  <2> QED  BY <1>1, <2>1, <2>2, <2>3
<1>6. Solves(chosen)
  <2> HIDE DEF Solves
  <2> QED  BY <1>5
<1>7. BuildFacts(file, limits, misshapen) = chosen[DOMAIN indexes]
  BY DEF BuildFacts, FoldLeft, MapThenFoldSet
<1> HIDE DEF chosen
<1>8. LeadsTo(A, F, NewBuilder(limits, misshapen), n, chosen[1 .. n])
  <2>1. NewBuilder(limits, misshapen) \in A /\ chosen[{}] = NewBuilder(limits, misshapen)
    <3>1. NewBuilder(limits, misshapen) \in A
      BY DEF NewBuilder, Builders, Issues
    <3>2. chosen[{}] = NewBuilder(limits, misshapen)
      BY <1>6
    <3> QED  BY <3>1, <3>2
  <2>2. ASSUME NEW s \in SUBSET I, s # {}, chosen[s \ {Top(s)}] \in A
        PROVE  chosen[s] = F[Top(s)][chosen[s \ {Top(s)}]]
    <3>1. Max(s) = Top(s)
      BY DEF Max, Top
    <3>2. Top(s) \in I
      BY <1>1, <2>2, TopOf
    <3>3. chosen[s] = Walk(chosen[s \ {Max(s)}], file[indexes[Max(s)]], indexes[Max(s)])
      BY <1>1, <1>6, <2>2
    <3> HIDE DEF F, A, I, Solves
    <3> QED  BY <1>3, <2>2, <3>1, <3>2, <3>3
  <2>3. F \in [1 .. n -> [A -> A]] /\ n \in Nat
    BY <1>1, <1>3
  <2>4. \A s \in SUBSET (1 .. n) :
          s # {} /\ chosen[s \ {Top(s)}] \in A => chosen[s] = F[Top(s)][chosen[s \ {Top(s)}]]
    <3> HIDE DEF F, A, Solves
    <3> QED  BY <2>2
  <2> HIDE DEF F, A, Solves, n
  <2> QED  BY <2>1, <2>3, <2>4, FoldWalks
<1> HIDE DEF F
<1>9. PICK W \in [0 .. n -> A] : W[n] = chosen[1 .. n]
  <2> HIDE DEF A, n
  <2> QED  BY <1>8 DEF LeadsTo
<1>10. W[n] \in A
  <2>1. n \in 0 .. n
    BY <1>1
  <2> HIDE DEF A, n
  <2> QED  BY <1>9, <2>1
<1> HIDE DEF A, n
<1>11. BuildFacts(file, limits, misshapen) \in A
  BY <1>1, <1>7, <1>9, <1>10
<1> QED  BY <1>11 DEF A


(* An artifact without a status has everything and is projected whole; only *)
(* what was not parsed says so.                                             *)
Honest(t) ==
  /\ t.status = {} => ~t.lost /\ t.derived /\ t.projectable
  /\ "ParseFailure" \in t.status => t = Unparsed

LEMMA ArtifactIsHonest ==
  ASSUME NEW file \in Seq(Asks), NEW limits, NEW misshapen
  PROVE  Honest(Artifact(file, limits, misshapen))
<1> DEFINE b == BuildFacts(file, limits, misshapen)
           s == Assess(b, misshapen)
           a == Artifact(file, limits, misshapen)
<1>1. b \in Builders(limits, misshapen, 1 .. Len(file))
  <2>1. Len(file) \in Nat /\ DOMAIN file = 1 .. Len(file)
        /\ \A k \in 1 .. Len(file) : file[k] \in Asks
    OBVIOUS
  <2> QED  BY <2>1, FactsAreBuilt
<1> HIDE DEF b
<1>2. /\ b.issues \subseteq Issues
      /\ b.exhausted \in BOOLEAN /\ b.namesFull \in BOOLEAN /\ b.valuesFull \in BOOLEAN
      /\ b.lost # {} => b.exhausted \/ b.issues # {} \/ b.namesFull \/ b.valuesFull \/ misshapen
  BY <1>1 DEF Builders
<1>3. "ParseFailure" \notin s
  <2>1. "ParseFailure" \notin ConstructionFailure(b)
    BY DEF ConstructionFailure
  <2> QED  BY <2>1 DEF Assess
<1>4. ASSUME s = {}
      PROVE  ~b.exhausted /\ b.issues = {} /\ ~b.namesFull /\ ~b.valuesFull /\ ~misshapen
  <2>1. /\ (IF misshapen THEN {"ScopeShapeMismatch"} ELSE {}) = {}
        /\ ConstructionFailure(b) = {}
        /\ (IF "InvalidParserSpan" \in b.issues THEN {"InvalidParserSpan"} ELSE {}) = {}
        /\ (IF b.namesFull THEN {"NameExhausted"} ELSE {}) = {}
    BY <1>4 DEF Assess
  <2>2. ~misshapen /\ "InvalidParserSpan" \notin b.issues /\ ~b.namesFull
    BY <2>1
  <2>3. ~b.exhausted /\ "BudgetExhausted" \notin b.issues /\ "PathExhausted" \notin b.issues
        /\ ~b.valuesFull
    BY <2>1, <2>2 DEF ConstructionFailure
  <2> QED  BY <1>2, <2>2, <2>3 DEF Issues
<1>5. /\ a.status = s /\ (a.derived <=> s = {}) /\ (a.projectable <=> b.issues = {} /\ ~b.namesFull)
      /\ (a.lost <=> b.lost # {} \/ misshapen)
  BY DEF Artifact, b
<1> HIDE DEF a, s
<1>6. a.status = {} => ~a.lost /\ a.derived /\ a.projectable
  BY <1>2, <1>4, <1>5
<1> QED  BY <1>3, <1>5, <1>6 DEF Honest, a

LEMMA TextsAreHonest == \A t \in Texts : Honest(t)
<1>1. Honest(Unparsed)
  BY DEF Honest, Unparsed
<1>2. ASSUME NEW n \in 1 .. MaxFiles, NEW source \in Sources(n)
      PROVE  Honest(Artifact(source.asks, source.limits, source.misshapen))
  BY SourcesAssumption, ArtifactIsHonest DEF Asks
<1> QED  BY <1>1, <1>2 DEF Texts

-----------------------------------------------------------------------------
(* The report of an analysis.                                              *)

(* The four parts of what linking adds to the status.                       *)
Unknowns(k) == {Entry(p, "UnsupportedCommonjsExports") : p \in k.unknown}
Unanswered(k) == UNION {RequestStatus(r) : r \in k.requests}
Ambiguous(k) == {Entry(r.from, "AmbiguousStarExport") : r \in Importing(k, "Ambiguous")}
Cuts(k) == IF k.exhausted \/ k.oversized THEN {Entry(Project, "LinkingBudgetExhausted")} ELSE {}

LEMMA LinkStatusParts ==
  ASSUME NEW k
  PROVE  LinkStatus(k) = Unknowns(k) \cup Unanswered(k) \cup Ambiguous(k) \cup Cuts(k)
BY Zenon DEF LinkStatus, Unknowns, Unanswered, Ambiguous, Cuts

(* What linking says is said of the project or of a parsed file, and is no   *)
(* parse failure.                                                          *)
LEMMA LinksAreTold ==
  ASSUME NEW paths, NEW k \in LinkResults(paths), NEW e \in LinkStatus(k) \cup LinkDiagnostics(k)
  PROVE  e.scope \in {Project} \cup paths /\ e.reason # "ParseFailure"
<1>1. k.unknown \in SUBSET paths /\ k.requests \in SUBSET Requests(paths)
  BY DEF LinkResults
<1>2. \A r \in k.requests : r.from \in paths
  BY <1>1 DEF Requests
<1>3. ASSUME e \in Unanswered(k)
      PROVE  e.scope \in {Project} \cup paths /\ e.reason # "ParseFailure"
  <2>1. PICK r \in k.requests : e \in RequestStatus(r)
    BY <1>3 DEF Unanswered
  <2> QED  BY <1>2, <2>1 DEF RequestStatus, Entry
<1>4. ASSUME e \in Unknowns(k)
      PROVE  e.scope \in {Project} \cup paths /\ e.reason # "ParseFailure"
  BY <1>1, <1>4 DEF Entry, Unknowns
<1>5. ASSUME e \in Ambiguous(k)
      PROVE  e.scope \in {Project} \cup paths /\ e.reason # "ParseFailure"
  BY <1>2, <1>5 DEF Entry, Importing, Ambiguous
<1>6. ASSUME e \in Cuts(k)
      PROVE  e.scope \in {Project} \cup paths /\ e.reason # "ParseFailure"
  BY <1>6 DEF Entry, Cuts
<1>7. ASSUME e \in LinkDiagnostics(k)
      PROVE  e.scope \in {Project} \cup paths /\ e.reason # "ParseFailure"
  <2>1. PICK r \in Importing(k, "Absent") :
          e = Entry(IF r.located THEN r.from ELSE Project, "MissingImportedExport")
    BY <1>7 DEF LinkDiagnostics
  <2>2. r \in k.requests
    BY DEF Importing
  <2> QED  BY <1>2, <2>1, <2>2 DEF Entry
<1>8. e \in LinkStatus(k) => e \in Unknowns(k) \/ e \in Unanswered(k) \/ e \in Ambiguous(k) \/ e \in Cuts(k)
  BY LinkStatusParts
<1> QED  BY <1>3, <1>4, <1>5, <1>6, <1>7, <1>8

(* Links that left no status reach what they were made for.                 *)
LEMMA LinksAreWhole ==
  ASSUME NEW paths, NEW k \in LinkResults(paths), LinkStatus(k) = {}
  PROVE  /\ k.unknown = {} /\ ~k.exhausted /\ ~k.oversized
         /\ \A r \in k.requests : Linked(r)
<1>1. Unknowns(k) = {} /\ Unanswered(k) = {} /\ Ambiguous(k) = {} /\ Cuts(k) = {}
  BY LinkStatusParts
<1>2. k.unknown = {}
  <2> SUFFICES ASSUME NEW p \in k.unknown PROVE FALSE
    OBVIOUS
  <2>1. Entry(p, "UnsupportedCommonjsExports") \in Unknowns(k)
    BY DEF Unknowns
  <2> QED  BY <1>1, <2>1
<1>3. ~k.exhausted /\ ~k.oversized
  BY <1>1 DEF Cuts
<1>4. ASSUME NEW r \in k.requests PROVE Linked(r)
  <2>1. RequestStatus(r) = {}
    BY <1>1 DEF Unanswered
  <2>2. r.answer \in Answers
    BY DEF LinkResults, Requests
  <2>3. /\ ~(r.internal /\ r.answer \in {"Missing", "None"})
        /\ r.answer # "Outside" /\ r.answer # "Unsupported"
    BY <2>1 DEF RequestStatus
  <2>4. ASSUME r.answer = "Internal", "Ambiguous" \in r.imported PROVE FALSE
    <3>1. r \in Importing(k, "Ambiguous")
      BY <1>3, <2>4 DEF Importing
    <3>2. Entry(r.from, "AmbiguousStarExport") \in Ambiguous(k)
      BY <3>1 DEF Ambiguous
    <3> QED  BY <1>1, <3>2
  <2> QED  BY <2>2, <2>3, <2>4 DEF Linked, Answers
<1> QED  BY <1>2, <1>3, <1>4

(* The status of an analysis: of the links, the files and their projection. *)
StatusFrom(s, fs, k, l, bounds) ==
  s = InitialStatus(fs, LinkStatus(k)) \cup ProjectionStatus(ProjectModules(fs, NeedsFlow(l), bounds))

(* What a report tells of the findings, the status and the links it was made *)
(* from.                                                                   *)
Tells(r, e) ==
  IF e.scope = Project THEN e.reason \in BagToSet(r.diagnostics)
  ELSE \E f \in ToSet(r.files) : f.path = e.scope /\ e.reason \in f.diagnostics

Delivers(r, fs, fi, s, k) ==
  /\ r.completion \in {"Complete", "Partial"}
  /\ r.completion = "Complete" => s = {}
  /\ r.completion = "Partial" =>
       BagToSet(r.diagnostics) # {} \/ \E f \in ToSet(r.files) : f.diagnostics # {}
  /\ \A p \in Parsed(fs) : \E f \in ToSet(r.files) : f.findings = fi[p]
  /\ \A e \in LinkDiagnostics(k) : Tells(r, e)

LEMMA BagOfSet == \A X : BagToSet(SetToBag(X)) = X
BY DEF BagToSet, SetToBag

LEMMA NewReportDelivers ==
  ASSUME NEW fs \in Seq(Texts), NEW fi, NEW s, NEW k \in LinkResults(Parsed(fs)), NEW l, NEW bounds,
         StatusFrom(s, fs, k, l, bounds)
  PROVE  Delivers(NewReport(fs, fi, s, LinkDiagnostics(k)), fs, fi, s, k)
<1> DEFINE all == Diagnosed(s) \cup LinkDiagnostics(k)
           r == NewReport(fs, fi, s, LinkDiagnostics(k))
           given == ReportFiles(fs, fi, all)
           told == {e.reason : e \in {e \in all : e.scope = Project}}
<1>1. ToSet(r.files) = ToSet(given) /\ DOMAIN given = DOMAIN fs
  <2>1. ToSet(r.files) = ToSet(given)
    BY NewReportIsReport
  <2> QED  BY <2>1 DEF ReportFiles
<1>2. \A p \in DOMAIN fs : given[p] \in ToSet(given)
  <2> HIDE DEF given
  <2> QED  BY <1>1 DEF ToSet
<1>3. /\ r.completion = (IF s = {} THEN "Complete" ELSE "Partial")
      /\ BagToSet(r.diagnostics) = told
  <2>1. r.diagnostics = SetToBag(told)
    BY DEF NewReport
  <2>2. r.completion = (IF s = {} THEN "Complete" ELSE "Partial")
    BY DEF NewReport
  <2> HIDE DEF r, told
  <2> QED  BY <2>1, <2>2, BagOfSet
<1>4. ASSUME NEW p \in DOMAIN fs
      PROVE  /\ given[p].findings = (IF p \in Parsed(fs) THEN fi[p] ELSE {})
             /\ given[p].path = p
             /\ given[p].diagnostics = ParseDiagnostics(fs, p)
                                         \cup {e.reason : e \in {e \in all : e.scope = p}}
  BY DEF ReportFiles, FileReport
<1>5. Parsed(fs) \subseteq DOMAIN fs
  BY DEF Parsed
<1> HIDE DEF given, r
<1>6. \A p \in Parsed(fs) : \E f \in ToSet(r.files) : f.findings = fi[p]
  BY <1>1, <1>2, <1>4, <1>5
<1>7. ASSUME NEW e \in s
      PROVE  told # {} \/ \E p \in DOMAIN fs : given[p].diagnostics # {}
  <2> DEFINE link == LinkStatus(k)
  <2>1. s = InitialStatus(fs, link) \cup ProjectionStatus(ProjectModules(fs, NeedsFlow(l), bounds))
    BY DEF StatusFrom
  <2> DEFINE outcome == ProjectModules(fs, NeedsFlow(l), bounds)
  <2>2. outcome.effects \subseteq Parsed(fs)
    BY DEF ProjectModules
  <2> HIDE DEF outcome
  <2>3. ASSUME e.reason # "ParseFailure", e.scope = Project
        PROVE  told # {}
    <3>1. e.reason \in told
      BY <2>3 DEF Diagnosed
    <3> HIDE DEF told
    <3> QED  BY <3>1
  <2>4. ASSUME e.reason # "ParseFailure", NEW p \in DOMAIN fs, e.scope = p
        PROVE  given[p].diagnostics # {}
    <3>1. e.reason \in {x.reason : x \in {x \in all : x.scope = p}}
      BY <2>4 DEF Diagnosed
    <3> QED  BY <1>4, <3>1
  <2>5. CASE e \in link
    <3>1. e.scope \in {Project} \cup Parsed(fs) /\ e.reason # "ParseFailure"
      BY <2>5, LinksAreTold
    <3> QED  BY <1>5, <2>3, <2>4, <3>1
  <2>6. ASSUME NEW p \in DOMAIN fs, NEW reason \in fs[p].status, e = Entry(p, reason)
        PROVE  given[p].diagnostics # {}
    <3>1. e.scope = p /\ e.reason = reason
      BY <2>6 DEF Entry
    <3>2. CASE reason = "ParseFailure"
      <4>1. fs[p] \in Texts
        OBVIOUS
      <4>2. fs[p] = Unparsed
        BY <3>2, <4>1, TextsAreHonest DEF Honest
      <4>3. "Parse" \in ParseDiagnostics(fs, p)
        BY <4>2 DEF ParseDiagnostics, Parsed
      <4> QED  BY <1>4, <4>3
    <3>3. CASE reason # "ParseFailure"
      BY <2>4, <3>1, <3>3
    <3> QED  BY <3>2, <3>3
  <2>7. CASE e \in ProjectionStatus(outcome)
    <3>1. CASE \E p \in outcome.effects : e = Entry(p, "EffectsBudgetExhausted")
      <4>1. PICK p \in outcome.effects : e = Entry(p, "EffectsBudgetExhausted")
        BY <3>1
      <4>2. e.reason # "ParseFailure" /\ e.scope = p
        BY <4>1 DEF Entry
      <4> QED  BY <1>5, <2>2, <2>4, <4>2
    <3>2. CASE e = Entry(Project, "FlowBudgetExhausted")
      <4>1. e.reason # "ParseFailure" /\ e.scope = Project
        BY <3>2 DEF Entry
      <4> QED  BY <2>3, <4>1
    <3> QED  BY <2>7, <3>1, <3>2 DEF ProjectionStatus
  <2>8. e \in link \/ (\E p \in DOMAIN fs : \E reason \in fs[p].status : e = Entry(p, reason))
        \/ e \in ProjectionStatus(outcome)
    BY <2>1 DEF InitialStatus, outcome
  <2> QED  BY <2>5, <2>6, <2>7, <2>8
<1>8. s # {} => BagToSet(r.diagnostics) # {} \/ \E f \in ToSet(r.files) : f.diagnostics # {}
  <2> HIDE DEF told
  <2> QED  BY <1>1, <1>2, <1>3, <1>7
<1>9. ASSUME NEW e \in LinkDiagnostics(k) PROVE Tells(r, e)
  <2>1. e \in all /\ e.scope \in {Project} \cup Parsed(fs)
    BY LinksAreTold
  <2>2. CASE e.scope = Project
    BY <1>3, <2>1, <2>2 DEF Tells
  <2>3. ASSUME e.scope # Project PROVE Tells(r, e)
    <3> DEFINE p == e.scope
    <3>1. p \in DOMAIN fs
      BY <1>5, <2>1, <2>3
    <3>2. e.reason \in {x.reason : x \in {x \in all : x.scope = p}}
      BY <2>1
    <3>3. given[p] \in ToSet(r.files) /\ given[p].path = p /\ e.reason \in given[p].diagnostics
      BY <1>1, <1>2, <1>4, <3>1, <3>2
    <3> QED  BY <2>3, <3>3 DEF Tells
  <2> QED  BY <2>2, <2>3
<1> HIDE DEF told
<1> QED  BY <1>3, <1>6, <1>8, <1>9 DEF Delivers, r

(* What the loader adds and what is done to write it keep what is told.     *)
LEMMA LoadedDelivers ==
  ASSUME NEW r, IsReport(r), NEW fs, NEW fi, NEW s, NEW k, Delivers(r, fs, fi, s, k), NEW messages
  PROVE  /\ Delivers(WithProjectDiagnostics(r, messages), fs, fi, s, k)
         /\ Delivers(IntoPartial(WithProjectDiagnostics(r, messages)), fs, fi, s, k)
<1> DEFINE w == WithProjectDiagnostics(r, messages)
           q == IntoPartial(w)
<1>0. \A a, b : BagToSet(a (+) b) = DOMAIN a \cup DOMAIN b
  BY DEF BagToSet, (+)
<1>1. DOMAIN r = {"version", "tool", "files", "diagnostics", "completion"}
  BY DEF IsReport
<1>2. /\ w.files = r.files /\ w.completion = r.completion
      /\ w.diagnostics = r.diagnostics (+) SetToBag(messages)
      /\ DOMAIN w = {"version", "tool", "files", "diagnostics", "completion"}
  BY <1>1 DEF WithProjectDiagnostics
<1> HIDE DEF w
<1>3. /\ q.files = w.files /\ q.completion = Join(w.completion, "Partial")
      /\ q.diagnostics = w.diagnostics (+) SetToBag({"IncompleteProject"})
  BY <1>2 DEF IntoPartial
<1> HIDE DEF q
<1>4. BagToSet(r.diagnostics) \subseteq BagToSet(w.diagnostics)
  <2>1. BagToSet(w.diagnostics) = DOMAIN r.diagnostics \cup DOMAIN SetToBag(messages)
    BY <1>0, <1>2
  <2>2. BagToSet(r.diagnostics) = DOMAIN r.diagnostics
    BY DEF BagToSet
  <2> QED  BY <2>1, <2>2
<1>5. Delivers(w, fs, fi, s, k)
  BY <1>2, <1>4 DEF Delivers, Tells
<1>6. q.completion = "Partial"
  BY <1>3 DEF Join
<1>7. "IncompleteProject" \in BagToSet(q.diagnostics)
  <2>1. DOMAIN SetToBag({"IncompleteProject"}) = {"IncompleteProject"}
    BY DEF SetToBag
  <2> QED  BY <1>0, <1>3, <2>1
<1>9. BagToSet(w.diagnostics) \subseteq BagToSet(q.diagnostics)
  <2>1. BagToSet(q.diagnostics) = DOMAIN w.diagnostics \cup DOMAIN SetToBag({"IncompleteProject"})
    BY <1>0, <1>3
  <2>2. BagToSet(w.diagnostics) = DOMAIN w.diagnostics
    BY DEF BagToSet
  <2> QED  BY <2>1, <2>2
<1>8. Delivers(q, fs, fi, s, k)
  BY <1>2, <1>3, <1>5, <1>6, <1>7, <1>9 DEF Delivers, Tells
<1> QED  BY <1>5, <1>8 DEF w, q

LEMMA CombineOne ==
  ASSUME NEW r
  PROVE  CombineReports(<<r>>)[2] = [r EXCEPT !.files = SortedByPath(@)]
<1> DEFINE seq == <<>>
           base == <<"Ok", r>>
           Solves(it) == it = [s \in SUBSET DOMAIN seq |->
                                 IF s = {} THEN base
                                 ELSE CombineStep(it[s \ {Max(s)}], seq[Max(s)])]
           it0 == [s \in SUBSET DOMAIN seq |-> base]
           chosen == CHOOSE it : Solves(it)
<1>1. DOMAIN seq = {} /\ SUBSET DOMAIN seq = {{}}
  OBVIOUS
<1>2. Solves(it0)
  <2> HIDE DEF seq, base
  <2> QED  BY <1>1
<1>3. Solves(chosen)
  <2> HIDE DEF Solves, it0
  <2> QED  BY <1>2
<1>4. FoldLeft(CombineStep, base, seq) = chosen[DOMAIN seq]
  BY DEF FoldLeft, MapThenFoldSet
<1>5. chosen[DOMAIN seq] = base
  <2> HIDE DEF chosen, seq, base
  <2> QED  BY <1>1, <1>3
<1>6. <<r>> # <<>> /\ Head(<<r>>) = r /\ Tail(<<r>>) = <<>>
  OBVIOUS
<1> HIDE DEF chosen
<1>7. FoldLeft(CombineStep, <<"Ok", Head(<<r>>)>>, Tail(<<r>>)) = <<"Ok", r>>
  BY <1>4, <1>5, <1>6
<1> DEFINE all == FoldLeft(CombineStep, <<"Ok", Head(<<r>>)>>, Tail(<<r>>))
<1>8. CombineReports(<<r>>) =
        IF all[1] = "Ok" THEN <<"Ok", [all[2] EXCEPT !.files = SortedByPath(@)]>> ELSE all
  BY <1>6 DEF CombineReports
<1> HIDE DEF all
<1>9. all[1] = "Ok" /\ all[2] = r
  BY <1>7 DEF all
<1> QED  BY <1>8, <1>9

LEMMA WrittenDelivers ==
  ASSUME NEW r, IsReport(r), NEW fs, NEW fi, NEW s, NEW k, Delivers(r, fs, fi, s, k)
  PROVE  Delivers(CombineReports(<<r>>)[2], fs, fi, s, k)
<1> DEFINE given == r.files
           F == ToSet(given)
           q == [r EXCEPT !.files = SortedByPath(@)]
<1>1. /\ given \in Seq(F)
      /\ \A i, j \in DOMAIN given : given[i].path \in Int /\ (given[i].path = given[j].path => i = j)
      /\ DOMAIN r = {"version", "tool", "files", "diagnostics", "completion"}
  BY DEF IsReport
<1> HIDE DEF given
<1>2. /\ \A f \in F : f.path \in Int
      /\ \A f, g \in F : f.path = g.path => f = g
  BY <1>1 DEF ToSet
<1>3. IsFiniteSet(F)
  <2>1. DOMAIN given = 1 .. Len(given) /\ Len(given) \in Nat
    BY <1>1
  <2>2. IsFiniteSet(DOMAIN given)
    BY <2>1, FS_Interval
  <2>3. F = {given[i] : i \in DOMAIN given}
    BY DEF ToSet
  <2> HIDE DEF F
  <2> QED  BY <2>2, <2>3, ImageIsFinite
<1>4. ToSet(SortedByPath(given)) = F
  BY <1>2, <1>3, SortedByPathEnumerates
<1>5. q.files = SortedByPath(given) /\ q.completion = r.completion /\ q.diagnostics = r.diagnostics
  BY <1>1 DEF given
<1> HIDE DEF q, F
<1>6. Delivers(q, fs, fi, s, k)
  BY <1>4, <1>5 DEF Delivers, Tells, F, given
<1> QED  BY <1>6, CombineOne DEF q

(* Without a status nothing was missed, and no evidence is hidden.          *)
LEMMA CompleteIsWhole ==
  ASSUME NEW n \in 1 .. MaxFiles, NEW fs \in Seq(Texts), Len(fs) = n, NEW l,
         NEW k \in LinkResults(Parsed(fs)), NEW bounds \in HitSets(n), StatusFrom({}, fs, k, l, bounds)
  PROVE  /\ \A p \in DOMAIN fs : p \in Parsed(fs) /\ ~fs[p].lost /\ fs[p].derived /\ fs[p].projectable
         /\ ~(NeedsFlow(l) /\ bounds # {})
         /\ k.unknown = {} /\ ~k.exhausted /\ ~k.oversized /\ \A r \in k.requests : Linked(r)
<1> DEFINE outcome == ProjectModules(fs, NeedsFlow(l), bounds)
<1>1. /\ LinkStatus(k) = {} /\ ProjectionStatus(outcome) = {}
      /\ \A p \in DOMAIN fs : fs[p].status = {}
  <2> DEFINE link == LinkStatus(k)
  <2>1. {} = InitialStatus(fs, link) \cup ProjectionStatus(outcome)
    BY DEF StatusFrom
  <2> HIDE DEF outcome
  <2>2. InitialStatus(fs, link) = {} /\ ProjectionStatus(outcome) = {}
    BY <2>1
  <2> HIDE DEF link
  <2>3. link = {} /\ UNION {{Entry(p, reason) : reason \in fs[p].status} : p \in DOMAIN fs} = {}
    BY <2>2 DEF InitialStatus
  <2>4. ASSUME NEW p \in DOMAIN fs, NEW reason \in fs[p].status PROVE FALSE
    <3>1. Entry(p, reason) \in UNION {{Entry(q, x) : x \in fs[q].status} : q \in DOMAIN fs}
      OBVIOUS
    <3> QED  BY <2>3, <3>1
  <2> QED  BY <2>2, <2>3, <2>4 DEF link
<1>2. ASSUME NEW p \in DOMAIN fs
      PROVE  p \in Parsed(fs) /\ ~fs[p].lost /\ fs[p].derived /\ fs[p].projectable
  <2>1. fs[p] \in Texts /\ fs[p].status = {}
    BY <1>1
  <2>2. ~fs[p].lost /\ fs[p].derived /\ fs[p].projectable
    BY <2>1, TextsAreHonest DEF Honest
  <2>3. fs[p] # Unparsed
    <3>1. Unparsed.status = {"ParseFailure"}
      BY DEF Unparsed
    <3>2. {"ParseFailure"} # {}
      OBVIOUS
    <3> QED  BY <2>1, <3>1, <3>2, Zenon
  <2> QED  BY <2>2, <2>3 DEF Parsed
<1>3. outcome.effects = {} /\ ~outcome.flow
  <2> HIDE DEF outcome
  <2>1. {Entry(p, "EffectsBudgetExhausted") : p \in outcome.effects} = {}
    BY <1>1 DEF ProjectionStatus
  <2>2. (IF outcome.flow THEN {Entry(Project, "FlowBudgetExhausted")} ELSE {}) = {}
    BY <1>1 DEF ProjectionStatus
  <2>3. ASSUME NEW p \in outcome.effects PROVE FALSE
    <3>1. Entry(p, "EffectsBudgetExhausted") \in {Entry(q, "EffectsBudgetExhausted") : q \in outcome.effects}
      OBVIOUS
    <3> QED  BY <2>1, <3>1
  <2> QED  BY <2>2, <2>3
<1>4. ASSUME NeedsFlow(l), NEW h \in bounds PROVE FALSE
  <2> DEFINE flowing == {p \in Parsed(fs) : NeedsFlow(l) /\ fs[p].derived}
  <2>1. DOMAIN fs = 1 .. n /\ n \in Nat /\ n \in 1 .. n
    BY FilesAssumption
  <2>2. \A p \in 1 .. n : p \in flowing /\ fs[p].projectable
    BY <1>2, <1>4, <2>1
  <2>3. h \in (-n) .. n
    BY HitsAssumption
  <2>4. outcome.effects = flowing \cap bounds
    BY DEF ProjectModules
  <2>5. outcome.flow <=> \/ \E p \in flowing : fs[p].projectable /\ -p \in bounds
                         \/ NeedsFlow(l) /\ Project \in bounds
    BY DEF ProjectModules
  <2> HIDE DEF flowing, outcome
  <2>6. CASE h \in 1 .. n
    BY <1>3, <2>2, <2>4, <2>6
  <2>7. CASE -h \in 1 .. n
    <3>1. -(-h) = h
      BY <2>1, <2>3
    <3> QED  BY <1>3, <2>2, <2>5, <2>7, <3>1
  <2>8. CASE h = 0
    BY <1>3, <1>4, <2>5, <2>8 DEF Project
  <2>9. h \in 1 .. n \/ -h \in 1 .. n \/ h = 0
    BY <2>1, <2>3
  <2> QED  BY <2>6, <2>7, <2>8, <2>9
<1> QED  BY <1>1, <1>2, <1>4, LinksAreWhole

LEMMA NothingIsHidden ==
  ASSUME NEW artifact, artifact.derived, artifact.projectable,
         NEW found, IsEvidence(found, DOMAIN found), Distinct(DOMAIN found),
         NEW rule, rule \in DOMAIN found, NEW s \in Shown(found[rule])
  PROVE  \E f \in FindingsOf(artifact, found) :
           f.rule = rule.id /\ f.severity = rule.severity /\ Inside(f.range, RangeOf(s.at))
<1> DEFINE items == Reaching(artifact, found[rule])
           mine == {f \in FindingsOf(artifact, found) : f.rule = rule.id}
<1>1. items = found[rule]
  BY DEF Reaching, Reaches
<1>2. (\A f \in mine : Says(f, rule, items)) /\ {f.range : f \in mine} = Widest(Ranges(items))
  BY FindingsOfSay
<1>3. IsFiniteSet(Ranges(items)) /\ Ranges(items) \subseteq Spans
  BY <1>1, EvidenceHasSpans
<1> HIDE DEF items
<1>4. \A r \in Ranges(items) : \E q \in Widest(Ranges(items)) : Inside(q, r)
  BY <1>3, RetainedAreWidest
<1>5. RangeOf(s.at) \in Ranges(items)
  BY <1>1 DEF Ranges
<1>6. PICK q \in Widest(Ranges(items)) : Inside(q, RangeOf(s.at))
  BY <1>4, <1>5
<1>7. PICK f \in mine : f.range = q
  <2> HIDE DEF mine
  <2> QED  BY <1>2
<1> QED  BY <1>2, <1>6, <1>7 DEF Says

-----------------------------------------------------------------------------
(* The run of the command.                                                 *)

(* The rules of a linter are rules of one provider, told apart by their ids. *)
IsLinter(l) ==
  \E provider \in DOMAIN CatalogsOf :
    l.catalog = CatalogOf(provider) /\ ToSet(l.enabled) \subseteq DOMAIN l.catalog

LEMMA LinterRules ==
  ASSUME NEW l, IsLinter(l)
  PROVE  /\ \E provider \in DOMAIN CatalogsOf : EnabledRules(l) \in SUBSET ToSet(CatalogOf(provider))
         /\ Distinct(EnabledRules(l))
<1>1. PICK provider \in DOMAIN CatalogsOf :
        l.catalog = CatalogOf(provider) /\ ToSet(l.enabled) \subseteq DOMAIN l.catalog
  BY DEF IsLinter
<1> DEFINE c == CatalogOf(provider)
<1>2. c \in Seq(Rules)
  BY CatalogsAssumption DEF CatalogOf
<1>3. \A i, j \in DOMAIN c : c[i].id = c[j].id => i = j
  <2> DEFINE again == {i \in DOMAIN c : \E j \in 1 .. (i - 1) : c[j].id = c[i].id}
  <2>1. again = {}
    <3>1. IsOk(Combine(CatalogsOf[provider]))
      BY CatalogsAssumption
    <3>2. Combine(CatalogsOf[provider]) =
            IF again = {} THEN Ok(c) ELSE Err("DuplicateRule", c[CHOOSE i \in again : \A j \in again : i <= j].id)
      BY DEF Combine, CatalogOf
    <3> HIDE DEF c, again
    <3>3. \A v : ~IsOk(Err("DuplicateRule", v))
      BY DEF Err, IsOk
    <3> QED  BY <3>1, <3>2, <3>3
  <2>2. DOMAIN c = 1 .. Len(c) /\ Len(c) \in Nat
    <3> HIDE DEF c
    <3> QED  BY <1>2
  <2>3. \A i, j \in DOMAIN c : j < i => c[j].id # c[i].id
    <3> SUFFICES ASSUME NEW i \in DOMAIN c, NEW j \in DOMAIN c, j < i PROVE c[j].id # c[i].id
      OBVIOUS
    <3> HIDE DEF c
    <3>1. j \in 1 .. (i - 1)
      BY <2>2
    <3> QED  BY <2>1, <3>1
  <2>4. \A i, j \in DOMAIN c : i < j \/ j < i \/ i = j
    <3> HIDE DEF c
    <3> QED  BY <2>2
  <2> HIDE DEF c, again
  <2> QED  BY <2>3, <2>4
<1>4. EnabledRules(l) = {c[i] : i \in ToSet(l.enabled)}
  BY <1>1 DEF EnabledRules
<1>5. \A i \in ToSet(l.enabled) : i \in DOMAIN c
  BY <1>1
<1> HIDE DEF c
<1>6. \A i \in DOMAIN c : c[i] \in Rules /\ c[i] \in ToSet(c)
  BY <1>2 DEF ToSet
<1>7. EnabledRules(l) \subseteq ToSet(c)
  BY <1>4, <1>5, <1>6
<1>8. \A rule \in EnabledRules(l) : rule.severity \in Int
  <2>1. \A rule \in Rules : rule.severity \in Int
    BY DEF Rules
  <2> QED  BY <1>4, <1>5, <1>6, <2>1
<1>9. \A q, rule \in EnabledRules(l) : q.id = rule.id => q = rule
  BY <1>3, <1>4, <1>5
<1> QED  BY <1>7, <1>8, <1>9 DEF Distinct, c

LEMMA LinterOfIsLinter ==
  ASSUME NEW c \in Configs
  PROVE  IsLinter(LinterOf(c))
<1> DEFINE catalog == CatalogOf(c.provider)
           selection == SelectionOf(c)
           l == LinterOf(c)
<1>1. c.provider \in DOMAIN CatalogsOf
  BY DEF Configs
<1>2. catalog \in Seq(Rules)
  BY <1>1, CatalogsAssumption DEF CatalogOf
<1>3. l.catalog = catalog /\ l.enabled = Evaluate(selection, catalog)
  BY DEF LinterOf
<1> HIDE DEF catalog, selection, l
<1> DEFINE N == Len(catalog)
<1>4. N \in Nat /\ DOMAIN catalog = 1 .. N
  BY <1>2
<1> HIDE DEF N
<1>5. ToSet(Evaluate(selection, catalog)) = {i \in 1 .. N : IsEnabled(selection, catalog[i])}
  BY <1>4, EvaluateEnumerates
<1>6. ToSet(l.enabled) \subseteq DOMAIN l.catalog
  BY <1>3, <1>4, <1>5
<1> QED  BY <1>1, <1>3, <1>6 DEF IsLinter, catalog, l

(* The evidence and the findings of the files that were rendered.           *)
Rendered(ev, fi, fs, l) ==
  /\ ev \in Seq(ToSet(ev)) /\ fi \in Seq(ToSet(fi)) /\ Len(ev) = Len(fi)
  /\ \A p \in 1 .. Len(fi) :
       IsEvidence(ev[p], EnabledRules(l)) /\ fi[p] = FindingsOf(fs[p], ev[p])

LEMMA AppendOne ==
  ASSUME NEW s, s \in Seq(ToSet(s)), NEW x
  PROVE  /\ Append(s, x) \in Seq(ToSet(Append(s, x)))
         /\ Len(s) \in Nat /\ Len(Append(s, x)) = Len(s) + 1 /\ Append(s, x)[Len(s) + 1] = x
         /\ \A i \in 1 .. Len(s) : Append(s, x)[i] = s[i]
<1> DEFINE S == ToSet(s) \cup {x}
           t == Append(s, x)
<1>1. s \in Seq(S)
  <2>1. ToSet(s) \subseteq S
    OBVIOUS
  <2> HIDE DEF S
  <2> QED  BY <2>1, SeqMonotonic
<1>2. x \in S
  OBVIOUS
<1> HIDE DEF S
<1>3. /\ t \in Seq(S) /\ Len(s) \in Nat /\ Len(t) = Len(s) + 1 /\ t[Len(s) + 1] = x
      /\ \A i \in 1 .. Len(s) : t[i] = s[i]
  BY <1>1, <1>2
<1> HIDE DEF t
<1>4. DOMAIN t = 1 .. Len(t) /\ \A i \in 1 .. Len(t) : t[i] \in ToSet(t)
  <2>1. DOMAIN t = 1 .. Len(t)
    BY <1>3
  <2> QED  BY <2>1 DEF ToSet
<1>5. t \in Seq(ToSet(t))
  <2>1. t = [i \in 1 .. Len(t) |-> t[i]] /\ Len(t) \in Nat
    BY <1>3
  <2>2. t \in [1 .. Len(t) -> ToSet(t)]
    BY <1>4, <2>1
  <2> DEFINE T == ToSet(t)
             n == Len(t)
  <2> HIDE DEF T, n
  <2>3. t \in Seq(T)
    BY <2>1, <2>2, SeqDef DEF T, n
  <2> QED  BY <2>3 DEF T
<1> QED  BY <1>3, <1>5 DEF t

LEMMA RenderedOneMore ==
  ASSUME NEW ev, NEW fi, NEW fs, NEW l, Rendered(ev, fi, fs, l), NEW found,
         IsEvidence(found, EnabledRules(l))
  PROVE  Rendered(Append(ev, found), Append(fi, FindingsOf(fs[Len(fi) + 1], found)), fs, l)
<1> DEFINE x == FindingsOf(fs[Len(fi) + 1], found)
           e == Append(ev, found)
           f == Append(fi, x)
           n == Len(fi)
<1>1. ev \in Seq(ToSet(ev)) /\ fi \in Seq(ToSet(fi)) /\ Len(ev) = n
      /\ \A p \in 1 .. n : IsEvidence(ev[p], EnabledRules(l)) /\ fi[p] = FindingsOf(fs[p], ev[p])
  BY DEF Rendered
<1> HIDE DEF x
<1>2. /\ e \in Seq(ToSet(e)) /\ Len(e) = n + 1 /\ e[n + 1] = found /\ \A i \in 1 .. n : e[i] = ev[i]
  BY <1>1, AppendOne
<1>3. /\ f \in Seq(ToSet(f)) /\ Len(f) = n + 1 /\ f[n + 1] = x /\ \A i \in 1 .. n : f[i] = fi[i]
      /\ n \in Nat
  BY <1>1, AppendOne
<1> HIDE DEF e, f, n
<1>4. \A p \in 1 .. (n + 1) : p \in 1 .. n \/ p = n + 1
  BY <1>3
<1>5. x = FindingsOf(fs[n + 1], found)
  BY DEF x, n
<1>6. ASSUME NEW p \in 1 .. (n + 1)
      PROVE  IsEvidence(e[p], EnabledRules(l)) /\ f[p] = FindingsOf(fs[p], e[p])
  <2>1. CASE p \in 1 .. n
    BY <1>1, <1>2, <1>3, <2>1
  <2>2. CASE p = n + 1
    BY <1>2, <1>3, <1>5, <2>2
  <2> QED  BY <1>4, <2>1, <2>2
<1> QED  BY <1>2, <1>3, <1>6 DEF Rendered, e, f, x

Matched ==
  /\ size \in 1 .. MaxFiles /\ files \in Seq(Texts) /\ Len(files) = size
  /\ links \in LinkResults(Parsed(files)) /\ hits \in HitSets(size)
  /\ StatusFrom(status, files, links, linter[1], hits)
  /\ Rendered(evidence, findings, files, linter[1])

(* From the linter that was built to the report that was delivered: what is *)
(* there of an analysis was made from what was there before it.             *)
RunInv ==
  /\ phase \in {"built"} \cup Analysing \/ report # <<>> => IsLinter(linter[1])
  /\ phase \notin {"matching", "reported", "done"} => evidence = <<>> /\ findings = <<>>
  /\ phase \notin {"reported", "done"} => report = <<>>
  /\ phase # "done" => ~cut
  /\ phase = "matching" \/ report # <<>> => Matched
  /\ report # <<>> => Len(findings) = size /\ Delivers(report[1], files, findings, status, links)
  /\ phase = "done" /\ exit = 0 /\ report # <<>> =>
       ~cut /\ \E failOn \in FailOn : ~ReportFails(report[1], failOn)

LEMMA MatchedKeeps ==
  ASSUME Matched, UNCHANGED <<size, files, links, hits, status, evidence, findings, linter>>
  PROVE  Matched'
BY DEF Matched

LEMMA MatchKeepsRun ==
  ASSUME RunInv, AnalysisInv, NEW linked, NEW bounds \in HitSets(size), Match(linked, bounds)
  PROVE  RunInv'
<1>1. /\ phase = "analysing" /\ phase' = "matching" /\ Len(files) = size
      /\ UNCHANGED <<size, files, linter, cut, evidence, findings, report, exit>>
      /\ hits' = bounds /\ links' = linked /\ linked \in LinkResults(Parsed(files))
  BY DEF Match, configured
<1>2. StatusFrom(status', files, linked, linter[1], bounds)
  BY DEF Match, StatusFrom
<1>3. size \in 1 .. MaxFiles /\ files \in Seq(Texts)
  BY <1>1 DEF AnalysisInv, Analysing
<1>4. evidence = <<>> /\ findings = <<>> /\ report = <<>> /\ IsLinter(linter[1]) /\ ~cut
  BY <1>1 DEF RunInv, Analysing
<1>5. Rendered(<<>>, <<>>, files, linter[1])
  <2>1. <<>> \in Seq(ToSet(<<>>)) /\ Len(<<>>) = 0
    OBVIOUS
  <2> QED  BY <2>1 DEF Rendered
<1>6. Matched'
  <2>1. Parsed(files)' = Parsed(files)
    BY <1>1 DEF Parsed
  <2> QED  BY <1>1, <1>2, <1>3, <1>4, <1>5, <2>1 DEF Matched
<1> QED  BY <1>1, <1>4, <1>6 DEF RunInv

LEMMA RenderKeepsRun ==
  ASSUME RunInv, NEW found \in Found(Len(findings) + 1), Render(found)
  PROVE  RunInv'
<1> DEFINE p == Len(findings) + 1
           rules == EnabledRules(linter[1])
<1>1. /\ phase = "matching" /\ phase' = "matching" /\ p <= size
      /\ UNCHANGED <<size, files, links, hits, status, linter, cut, report, exit>>
      /\ evidence' = Append(evidence, found)
      /\ findings' = Append(findings, FindingsOf(files[p], found))
  BY DEF Render, configured
<1>2. Matched /\ report = <<>> /\ ~cut /\ IsLinter(linter[1])
  BY <1>1 DEF RunInv, Analysing
<1>3. IsEvidence(found, rules)
  <2>1. CASE p \in Parsed(files)
    <3>1. found \in Evidences(size, p, rules)
      BY <2>1 DEF Found
    <3>2. size \in 1 .. MaxFiles /\ p \in 1 .. size
      <4>1. size \in 1 .. MaxFiles /\ files \in Seq(Texts) /\ Len(files) = size
        BY <1>2 DEF Matched
      <4>2. p \in DOMAIN files
        BY <2>1 DEF Parsed
      <4> QED  BY <4>1, <4>2
    <3>3. PICK provider \in DOMAIN CatalogsOf : rules \in SUBSET ToSet(CatalogOf(provider))
      BY <1>2, LinterRules
    <3> HIDE DEF rules, p
    <3> QED  BY <3>1, <3>2, <3>3, EvidencesAssumption DEF CatalogOf
  <2>2. CASE p \notin Parsed(files)
    <3>1. found = [rule \in rules |-> {}]
      BY <2>2 DEF Found
    <3>2. IsFiniteSet({})
      BY FS_EmptySet
    <3> HIDE DEF rules
    <3> QED  BY <3>1, <3>2 DEF IsEvidence
  <2> QED  BY <2>1, <2>2
<1>4. Rendered(evidence', findings', files, linter[1])
  <2>1. Rendered(evidence, findings, files, linter[1])
    BY <1>2 DEF Matched
  <2> QED  BY <1>1, <1>3, <2>1, RenderedOneMore
<1>5. Matched'
  BY <1>1, <1>2, <1>4 DEF Matched
<1> QED  BY <1>1, <1>2, <1>5 DEF RunInv

LEMMA ReportKeepsRun ==
  ASSUME RunInv, Report
  PROVE  RunInv'
<1>1. /\ phase = "matching" /\ phase' = "reported" /\ Len(findings) = size
      /\ UNCHANGED <<size, files, links, hits, status, evidence, findings, linter, cut, exit>>
      /\ report' = <<NewReport(files, findings, status, LinkDiagnostics(links))>>
  BY DEF Report, configured
<1>2. Matched /\ ~cut /\ IsLinter(linter[1])
  BY <1>1 DEF RunInv, Analysing
<1>3. Matched'
  BY <1>1, <1>2, MatchedKeeps
<1>4. report'[1] = NewReport(files, findings, status, LinkDiagnostics(links))
  <2> HIDE DEF NewReport, LinkDiagnostics
  <2> QED  BY <1>1
<1>5. Delivers(report'[1], files, findings, status, links)
  <2>1. /\ files \in Seq(Texts) /\ links \in LinkResults(Parsed(files))
        /\ StatusFrom(status, files, links, linter[1], hits)
    BY <1>2 DEF Matched
  <2>2. Delivers(NewReport(files, findings, status, LinkDiagnostics(links)), files, findings, status, links)
    BY <2>1, NewReportDelivers
  <2> QED  BY <1>4, <2>2, Zenon
<1>6. (Len(findings) = size /\ Delivers(report[1], files, findings, status, links))'
  BY <1>1, <1>5
<1> QED  BY <1>1, <1>2, <1>3, <1>6 DEF RunInv

LEMMA LeavingKeepsRun ==
  ASSUME RunInv, phase = "reported", report # <<>>,
         NEW r, NEW partial, NEW failOn \in FailOn, Leave(r, partial, failOn),
         cut' => partial, Delivers(r, files, findings, status, links),
         UNCHANGED <<size, files, links, hits, status, evidence, findings, linter>>
  PROVE  RunInv'
<1>1. phase' = "done" /\ report' = <<r>> /\ exit' = (IF partial \/ ReportFails(r, failOn) THEN 1 ELSE 0)
  BY DEF Leave
<1>2. Matched /\ IsLinter(linter[1]) /\ Len(findings) = size
  BY DEF RunInv, Analysing
<1>3. Matched'
  BY <1>2, MatchedKeeps
<1>4. report'[1] = r /\ report' # <<>>
  BY <1>1
<1>5. exit' = 0 => ~partial /\ ~ReportFails(r, failOn)
  <2> DEFINE bad == partial \/ ReportFails(r, failOn)
  <2>1. exit' = (IF bad THEN 1 ELSE 0)
    BY <1>1
  <2> HIDE DEF bad
  <2>2. exit' = 0 => ~bad
    BY <2>1
  <2> QED  BY <2>2 DEF bad
<1>6. exit' = 0 => ~cut' /\ ~ReportFails(report'[1], failOn)
  BY <1>4, <1>5, Zenon
<1>7. (Len(findings) = size /\ Delivers(report[1], files, findings, status, links))'
  BY <1>2, <1>4
<1>8. (phase = "done" /\ exit = 0 /\ report # <<>> =>
         ~cut /\ \E failOn_1 \in FailOn : ~ReportFails(report[1], failOn_1))'
  BY <1>6
<1>9. IsLinter(linter'[1])
  BY <1>2
<1> QED  BY <1>1, <1>3, <1>7, <1>8, <1>9 DEF RunInv

LEMMA RunInvHolds == Spec => []RunInv
<1>1. Init => RunInv
  BY DEF Init, RunInv, Analysing
<1>2. RunInv /\ AnalysisInv /\ LinterInv' /\ [Next]_vars => RunInv'
  <2> SUFFICES ASSUME RunInv, AnalysisInv, LinterInv', [Next]_vars PROVE RunInv'
    OBVIOUS
  <2>0. AnalysisInv /\ phase = "reported" => report # <<>> /\ report[1] = NewReport(files, findings, status, LinkDiagnostics(links))
                                             /\ IsReport(report[1])
    <3> SUFFICES ASSUME phase = "reported"
                 PROVE  report # <<>> /\ report[1] = NewReport(files, findings, status, LinkDiagnostics(links)) /\ IsReport(report[1])
      OBVIOUS
    <3> DEFINE r == NewReport(files, findings, status, LinkDiagnostics(links))
    <3>1. report = <<r>> /\ files \in Seq(Texts)
      BY DEF AnalysisInv
    <3>2. IsReport(r)
      BY <3>1, NewReportIsReport
    <3> HIDE DEF r
    <3>3. report # <<>> /\ report[1] = r
      BY <3>1
    <3> QED  BY <3>2, <3>3 DEF r
  <2>1. CASE Preparing
    <3>1. UNCHANGED analysed /\ phase \notin Analysing \cup {"done"} /\ phase' \notin Analysing
      BY <2>1, PreparingKeeps
    <3>2. UNCHANGED <<evidence, findings, report, cut>>
      BY <3>1 DEF analysed
    <3>3. evidence = <<>> /\ findings = <<>> /\ report = <<>> /\ ~cut
      BY <3>1 DEF RunInv, Analysing
    <3>4. phase' = "built" => IsLinter(linter'[1])
      <4> SUFFICES ASSUME phase' = "built" PROVE IsLinter(linter'[1])
        OBVIOUS
      <4>1. linter' = <<LinterOf(config')>> /\ config' \in Configs
        BY DEF LinterInv, ConfigInv
      <4>2. linter'[1] = LinterOf(config')
        BY <4>1
      <4> QED  BY <4>1, <4>2, LinterOfIsLinter
    <3> QED  BY <3>1, <3>2, <3>3, <3>4 DEF RunInv, Analysing
  <2>2. ASSUME NEW n \in 1 .. MaxFiles, Open(n) PROVE RunInv'
    <3>1. phase = "built" /\ phase' = "analysing"
          /\ UNCHANGED <<linter, evidence, findings, report, cut, exit>>
      BY <2>2 DEF Open
    <3> QED  BY <3>1 DEF RunInv, Analysing
  <2>3. ASSUME NEW source \in Sources(size), Analyse(source) PROVE RunInv'
    <3>1. phase = "analysing" /\ phase' = "analysing"
          /\ UNCHANGED <<linter, evidence, findings, report, cut, exit>>
      BY <2>3 DEF Analyse, configured
    <3> QED  BY <3>1 DEF RunInv, Analysing
  <2>4. ASSUME NEW linked \in Links(size), NEW bounds \in HitSets(size), Match(linked, bounds)
        PROVE  RunInv'
    BY <2>4, MatchKeepsRun
  <2>5. ASSUME NEW found \in Found(Len(findings) + 1), Render(found) PROVE RunInv'
    BY <2>5, RenderKeepsRun
  <2>6. CASE Report
    BY <2>6, ReportKeepsRun
  <2>7. ASSUME NEW partial \in BOOLEAN, NEW messages, NEW failOn \in FailOn,
               ExitProject(partial, messages, failOn)
        PROVE  RunInv'
    <3> DEFINE loaded == WithProjectDiagnostics(report[1], messages)
               r == IF partial THEN IntoPartial(loaded) ELSE loaded
    <3>1. /\ phase = "reported" /\ Leave(r, partial, failOn) /\ cut' = partial
          /\ UNCHANGED <<size, files, links, hits, status, evidence, findings, linter>>
      BY <2>7 DEF ExitProject, configured
    <3>2. Delivers(report[1], files, findings, status, links) /\ IsReport(report[1]) /\ report # <<>>
      BY <2>0, <3>1 DEF RunInv
    <3>3. Delivers(loaded, files, findings, status, links) /\ Delivers(IntoPartial(loaded), files, findings, status, links)
      BY <3>2, LoadedDelivers
    <3> HIDE DEF loaded
    <3>4. Delivers(r, files, findings, status, links)
      BY <3>3
    <3> HIDE DEF r
    <3> QED  BY <3>1, <3>2, <3>4, LeavingKeepsRun
  <2>8. ASSUME NEW failOn \in FailOn, ExitSnippet(failOn) PROVE RunInv'
    <3> DEFINE r == CombineReports(<<report[1]>>)[2]
    <3>1. /\ phase = "reported" /\ Leave(r, FALSE, failOn) /\ cut' = cut
          /\ UNCHANGED <<size, files, links, hits, status, evidence, findings, linter>>
      BY <2>8 DEF ExitSnippet, configured
    <3>2. Delivers(report[1], files, findings, status, links) /\ IsReport(report[1]) /\ report # <<>> /\ ~cut
      BY <2>0, <3>1 DEF RunInv
    <3>3. Delivers(r, files, findings, status, links)
      BY <3>2, WrittenDelivers
    <3>4. cut' => FALSE
      BY <3>1, <3>2
    <3> HIDE DEF r
    <3> QED  BY <3>1, <3>2, <3>3, <3>4, LeavingKeepsRun
  <2>9. CASE BrokenPipe
    BY <2>9 DEF BrokenPipe, RunInv, Analysing
  <2>10. CASE UNCHANGED vars
    <3>1. UNCHANGED <<size, files, links, hits, status, evidence, findings, linter>>
          /\ phase' = phase /\ report' = report /\ cut' = cut /\ exit' = exit
      BY <2>10 DEF vars
    <3>2. Matched => Matched'
      BY <3>1, MatchedKeeps
    <3>3. (Delivers(report[1], files, findings, status, links))' <=> Delivers(report[1], files, findings, status, links)
      BY <3>1
    <3> QED  BY <3>1, <3>2, <3>3 DEF RunInv
  <2> QED  BY <2>1, <2>2, <2>3, <2>4, <2>5, <2>6, <2>7, <2>8, <2>9, <2>10 DEF Next, Preparing
<1> QED  BY <1>1, <1>2, AnalysisInvHolds, LinterInvHolds, PTL DEF Spec

(* The findings of every matched file lie in exactly the widest ranges of    *)
(* the evidence that reaches them, and say what the evidence inside says     *)
(* (lint/report/evidence.rs).                                               *)
THEOREM FindingsAlwaysCoverEvidence == Spec => []FindingsCoverEvidence
<1>1. RunInv => FindingsCoverEvidence
  <2> SUFFICES ASSUME RunInv, phase = "matching", findings # <<>>,
                      NEW rule \in DOMAIN evidence[Len(findings)]
               PROVE  LET p == Len(findings)
                          shown == Shown(Reached(p, rule))
                          ranges == {RangeOf(s.at) : s \in shown}
                          widest == {r \in ranges : \A q \in ranges : Inside(q, r) => q = r}
                      IN  /\ {f.range : f \in FoundBy(p, rule)} = widest
                          /\ \A f \in FoundBy(p, rule) :
                               LET inside == {s \in shown : Inside(f.range, RangeOf(s.at))}
                               IN  /\ f.certainty = "Definite" <=> \E s \in inside : s.item.certainty = "Definite"
                                   /\ f.truncated <=> \E s \in inside : s.item.truncated
                                   /\ f.traces # {}
    BY DEF FindingsCoverEvidence
  <2> DEFINE p == Len(findings)
             items == Reaching(files[p], evidence[p][rule])
             mine == {f \in FindingsOf(files[p], evidence[p]) : f.rule = rule.id}
  <2>1. Rendered(evidence, findings, files, linter[1]) /\ IsLinter(linter[1])
    BY DEF RunInv, Matched, Analysing
  <2>2. p \in 1 .. p
    <3>1. findings \in Seq(ToSet(findings))
      BY <2>1 DEF Rendered
    <3> DEFINE S == ToSet(findings)
    <3> HIDE DEF S
    <3> QED  BY <3>1 DEF S
  <2>3. IsEvidence(evidence[p], EnabledRules(linter[1])) /\ findings[p] = FindingsOf(files[p], evidence[p])
    BY <2>1, <2>2 DEF Rendered
  <2>4. IsEvidence(evidence[p], DOMAIN evidence[p]) /\ Distinct(DOMAIN evidence[p])
    <3>1. DOMAIN evidence[p] = EnabledRules(linter[1])
      BY <2>3 DEF IsEvidence
    <3> QED  BY <2>1, <2>3, <3>1, LinterRules
  <2>5. (\A f \in mine : Says(f, rule, items)) /\ {f.range : f \in mine} = Widest(Ranges(items))
    BY <2>4, FindingsOfSay
  <2>6. FoundBy(p, rule) = mine
    BY <2>3 DEF FoundBy
  <2>7. Reached(p, rule) = items
    BY DEF Reached, Reaching
  <2> HIDE DEF p, items, mine
  <2>8. Ranges(items) = {RangeOf(s.at) : s \in Shown(items)}
    BY DEF Ranges
  <2>9. {f.range : f \in FoundBy(p, rule)} =
          {r \in Ranges(items) : \A q \in Ranges(items) : Inside(q, r) => q = r}
    BY <2>5, <2>6 DEF Widest
  <2>10. \A f \in FoundBy(p, rule) :
           LET inside == {s \in Shown(items) : Inside(f.range, RangeOf(s.at))}
           IN  /\ f.certainty = "Definite" <=> \E s \in inside : s.item.certainty = "Definite"
               /\ f.truncated <=> \E s \in inside : s.item.truncated
               /\ f.traces # {}
    BY <2>5, <2>6 DEF Says
  <2> QED  BY <2>7, <2>8, <2>9, <2>10, Zenon DEF p
<1> QED  BY <1>1, RunInvHolds, PTL

(* What a report that was not refused leaves out.                           *)
LEMMA WholeReports ==
  ASSUME RunInv, report # <<>>, report[1].completion = "Complete"
  PROVE  /\ ~Missed
         /\ \A p \in DOMAIN files : \A rule \in DOMAIN evidence[p] : \A s \in Shown(evidence[p][rule]) :
              \E f \in FoundBy(p, rule) : f.severity = rule.severity /\ Inside(f.range, RangeOf(s.at))
         /\ \A p \in DOMAIN files : \E f \in ToSet(report[1].files) : f.findings = findings[p]
         /\ \A r \in links.requests : r.answer = "Internal" /\ "Absent" \in r.imported => AbsentIsTold(r)
<1>1. /\ Matched /\ Len(findings) = size /\ IsLinter(linter[1])
      /\ Delivers(report[1], files, findings, status, links)
  BY DEF RunInv
<1>2. status = {}
  BY <1>1 DEF Delivers
<1>3. /\ size \in 1 .. MaxFiles /\ files \in Seq(Texts) /\ Len(files) = size
      /\ links \in LinkResults(Parsed(files)) /\ hits \in HitSets(size)
      /\ StatusFrom({}, files, links, linter[1], hits)
      /\ Rendered(evidence, findings, files, linter[1])
  BY <1>1, <1>2 DEF Matched
<1>4. /\ \A p \in DOMAIN files :
           p \in Parsed(files) /\ ~files[p].lost /\ files[p].derived /\ files[p].projectable
      /\ ~(NeedsFlow(linter[1]) /\ hits # {})
      /\ links.unknown = {} /\ ~links.exhausted /\ ~links.oversized /\ \A r \in links.requests : Linked(r)
  BY <1>3, CompleteIsWhole
<1>5. ~Missed
  BY <1>4 DEF Missed
<1>6. ASSUME NEW p \in DOMAIN files, NEW rule \in DOMAIN evidence[p], NEW s \in Shown(evidence[p][rule])
      PROVE  \E f \in FoundBy(p, rule) : f.severity = rule.severity /\ Inside(f.range, RangeOf(s.at))
  <2>1. p \in 1 .. Len(findings)
    BY <1>1, <1>3
  <2>2. IsEvidence(evidence[p], EnabledRules(linter[1])) /\ findings[p] = FindingsOf(files[p], evidence[p])
    BY <1>3, <2>1 DEF Rendered
  <2>3. IsEvidence(evidence[p], DOMAIN evidence[p]) /\ Distinct(DOMAIN evidence[p])
    <3>1. DOMAIN evidence[p] = EnabledRules(linter[1])
      BY <2>2 DEF IsEvidence
    <3> QED  BY <1>1, <2>2, <3>1, LinterRules
  <2>4. files[p].derived /\ files[p].projectable
    BY <1>4
  <2> DEFINE artifact == files[p]
             found == evidence[p]
  <2>5. artifact.derived /\ artifact.projectable /\ IsEvidence(found, DOMAIN found) /\ Distinct(DOMAIN found)
        /\ rule \in DOMAIN found /\ s \in Shown(found[rule]) /\ findings[p] = FindingsOf(artifact, found)
    BY <2>2, <2>3, <2>4
  <2> HIDE DEF artifact, found
  <2>6. \E f \in FindingsOf(artifact, found) :
          f.rule = rule.id /\ f.severity = rule.severity /\ Inside(f.range, RangeOf(s.at))
    BY <2>5, NothingIsHidden
  <2> QED  BY <2>5, <2>6 DEF FoundBy
<1>7. \A p \in DOMAIN files : \E f \in ToSet(report[1].files) : f.findings = findings[p]
  BY <1>1, <1>4 DEF Delivers
<1>8. ASSUME NEW r \in links.requests, r.answer = "Internal", "Absent" \in r.imported
      PROVE  AbsentIsTold(r)
  <2> DEFINE e == Entry(IF r.located THEN r.from ELSE Project, "MissingImportedExport")
  <2>1. r \in Importing(links, "Absent")
    BY <1>4, <1>8 DEF Importing
  <2>2. e \in LinkDiagnostics(links)
    BY <2>1 DEF LinkDiagnostics
  <2>3. Tells(report[1], e)
    BY <1>1, <2>2 DEF Delivers
  <2>4. e.scope = (IF r.located THEN r.from ELSE Project) /\ e.reason = "MissingImportedExport"
    BY DEF Entry
  <2>5. r.from # Project
    <3>1. r.from \in Parsed(files)
      BY <1>3 DEF LinkResults, Requests
    <3>2. Parsed(files) \subseteq 1 .. size
      BY <1>3 DEF Parsed
    <3> QED  BY <3>1, <3>2 DEF Project
  <2> HIDE DEF e
  <2>6. CASE r.located
    <3>1. PICK f \in ToSet(report[1].files) : f.path = r.from /\ "MissingImportedExport" \in f.diagnostics
      BY <2>3, <2>4, <2>5, <2>6 DEF Tells
    <3>2. PICK i \in DOMAIN report[1].files : report[1].files[i] = f
      BY <3>1 DEF ToSet
    <3> QED  BY <2>6, <3>1, <3>2 DEF AbsentIsTold
  <2>7. CASE ~r.located
    <3>1. "MissingImportedExport" \in BagToSet(report[1].diagnostics)
      BY <2>3, <2>4, <2>7 DEF Tells
    <3> QED  BY <2>7, <3>1 DEF AbsentIsTold
  <2> QED  BY <2>6, <2>7
<1> QED  BY <1>5, <1>6, <1>7, <1>8

(* A report that calls itself complete missed nothing, tells the imported    *)
(* names that no module exports and hides no evidence; one that calls itself  *)
(* partial says why (semantic/mod.rs, project/linker, projection/outcome.rs,  *)
(* lint/report, loader.rs).                                                *)
THEOREM CompletionIsAlwaysHonest == Spec => []CompletionIsHonest
<1>1. RunInv => CompletionIsHonest
  <2> SUFFICES ASSUME RunInv, report # <<>>
               PROVE  IF report[1].completion = "Complete"
                      THEN /\ ~Missed
                           /\ \A r \in links.requests :
                                r.answer = "Internal" /\ "Absent" \in r.imported => AbsentIsTold(r)
                           /\ \A p \in DOMAIN files : \A rule \in DOMAIN evidence[p] : Hidden(p, rule) = {}
                      ELSE \/ BagToSet(report[1].diagnostics) # {}
                           \/ \E i \in DOMAIN report[1].files : report[1].files[i].diagnostics # {}
    BY DEF CompletionIsHonest
  <2>1. CASE report[1].completion = "Complete"
    <3>1. ~Missed
      BY <2>1, WholeReports
    <3>2. ASSUME NEW p \in DOMAIN files, NEW rule \in DOMAIN evidence[p] PROVE Hidden(p, rule) = {}
      <4>1. \A s \in Shown(evidence[p][rule]) :
              \E f \in FoundBy(p, rule) : f.severity = rule.severity /\ Inside(f.range, RangeOf(s.at))
        BY <2>1, WholeReports
      <4> QED  BY <4>1 DEF Hidden
    <3>3. \A r \in links.requests : r.answer = "Internal" /\ "Absent" \in r.imported => AbsentIsTold(r)
      BY <2>1, WholeReports
    <3> QED  BY <2>1, <3>1, <3>2, <3>3
  <2>2. CASE report[1].completion # "Complete"
    <3>1. Delivers(report[1], files, findings, status, links)
      BY DEF RunInv
    <3>2. BagToSet(report[1].diagnostics) # {} \/ \E f \in ToSet(report[1].files) : f.diagnostics # {}
      BY <2>2, <3>1 DEF Delivers
    <3>3. ASSUME NEW f \in ToSet(report[1].files), f.diagnostics # {}
          PROVE  \E i \in DOMAIN report[1].files : report[1].files[i].diagnostics # {}
      BY <3>3 DEF ToSet
    <3> QED  BY <2>2, <3>2, <3>3
  <2> QED  BY <2>1, <2>2
<1> QED  BY <1>1, RunInvHolds, PTL

(* The command succeeds, having delivered its report, only if nothing was    *)
(* missed, the load was not cut short and no evidence reaches the threshold  *)
(* (glass-lint-cli README.md:77-82, lint.rs, config.rs: report_fails).      *)
THEOREM SuccessIsAlwaysEarned == Spec => []SuccessIsEarned
<1>1. RunInv => SuccessIsEarned
  <2> SUFFICES ASSUME RunInv, phase = "done", exit = 0, report # <<>>
               PROVE  \E failOn \in FailOn :
                        /\ ~cut /\ ~Missed
                        /\ ~ReportFails(report[1], failOn)
                        /\ \A p \in DOMAIN files : \A rule \in DOMAIN evidence[p] :
                             rule.severity >= failOn => Shown(evidence[p][rule]) = {}
    BY DEF SuccessIsEarned
  <2>1. PICK failOn \in FailOn : ~cut /\ ~ReportFails(report[1], failOn)
    BY DEF RunInv
  <2>2. report[1].completion = "Complete"
    <3>1. report[1].completion # "Partial"
      BY <2>1 DEF ReportFails
    <3>2. Delivers(report[1], files, findings, status, links)
      BY DEF RunInv
    <3> QED  BY <3>1, <3>2 DEF Delivers
  <2>3. ~Missed
    BY <2>2, WholeReports
  <2>4. ASSUME NEW p \in DOMAIN files, NEW rule \in DOMAIN evidence[p], rule.severity >= failOn,
               NEW s \in Shown(evidence[p][rule])
        PROVE  FALSE
    <3>1. PICK f \in FoundBy(p, rule) : f.severity = rule.severity
      BY <2>2, WholeReports
    <3>2. PICK g \in ToSet(report[1].files) : g.findings = findings[p]
      BY <2>2, WholeReports
    <3>3. PICK i \in DOMAIN report[1].files : report[1].files[i] = g
      BY <3>2 DEF ToSet
    <3>4. f \in report[1].files[i].findings /\ f.severity >= failOn
      BY <2>4, <3>1, <3>2, <3>3 DEF FoundBy
    <3>5. ReportFails(report[1], failOn)
      BY <3>4 DEF ReportFails
    <3> QED  BY <2>1, <3>5
  <2> QED  BY <2>1, <2>3, <2>4
<1> QED  BY <1>1, RunInvHolds, PTL
=============================================================================
