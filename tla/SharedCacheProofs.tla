------------------------- MODULE SharedCacheProofs -------------------------
(***************************************************************************)
(* Proofs about the artifact cache and the threads that share it, for any  *)
(* set of keys, any fingerprint function (collisions included), any        *)
(* capacity and any number of threads.                                     *)
(***************************************************************************)
EXTENDS SharedCache, SequenceTheorems, TLAPS

USE CacheAssumption, SharedAssumption

----------------------------------------------------------------------------
(* What a lookup in the cache finds and an insertion keeps.                 *)

(* The invariant of the deque. *)
WellFormed(s) == s \in Seq(Entry) /\ Bounded(s) /\ UniqueKeys(s) /\ Sound(s)

(* Entries of a cache have keys, and its positions are 1 .. Len. *)
LEMMA EntryFacts ==
  ASSUME NEW s \in Seq(Entry)
  PROVE  /\ Len(s) \in Nat /\ DOMAIN s = 1 .. Len(s)
         /\ \A n \in DOMAIN s : s[n] \in Entry /\ s[n].key \in Keys /\ s[n].artifact \in Keys
<1> DEFINE E == Entry
<1>1. s \in Seq(E)
  OBVIOUS
<1> HIDE DEF E
<1>2. Len(s) \in Nat /\ DOMAIN s = 1 .. Len(s)
  BY <1>1
<1>3. \A n \in DOMAIN s : s[n] \in E
  BY <1>1, <1>2, ElementOfSeq
<1> QED  BY <1>2, <1>3 DEF E, Entry

(* With one entry per key the search finds that entry and no other. *)
LEMMA FirstIsTheMatch ==
  ASSUME NEW s, WellFormed(s), NEW k \in Keys, Positions(s, k) # {}
  PROVE  /\ First(Positions(s, k)) \in DOMAIN s
         /\ s[First(Positions(s, k))].key = k
         /\ Positions(s, k) = {First(Positions(s, k))}
<1>1. PICK n \in DOMAIN s : n \in Positions(s, k)
  BY DEF Positions
<1>2. Positions(s, k) = {n} /\ s[n].key = k
  BY <1>1 DEF Positions, Matches, WellFormed, UniqueKeys
<1>3. n \in Nat
  BY <1>1, EntryFacts DEF WellFormed
<1>4. First({n}) = n
  BY <1>3 DEF First
<1> QED  BY <1>1, <1>2, <1>4

(* A hit is the artifact of exactly the key asked for. *)
LEMMA LookupIsExact ==
  ASSUME NEW s, WellFormed(s), NEW k \in Keys
  PROVE  /\ Lookup(s, k) \in {k, Miss}
         /\ Lookup(s, k) = Miss <=> k \notin CachedKeys(s)
<1>1. CASE Positions(s, k) = {}
  BY <1>1 DEF Lookup, Positions, Matches, CachedKeys
<1>2. CASE Positions(s, k) # {}
  <2>1. Lookup(s, k) = k
    BY <1>2, FirstIsTheMatch DEF Lookup, WellFormed, Sound
  <2>2. k \in CachedKeys(s)
    BY <1>2 DEF Positions, Matches, CachedKeys
  <2> QED  BY <2>1, <2>2
<1> QED  BY <1>1, <1>2

(* Inserting an artifact under its own key keeps the deque well formed, adds *)
(* at most that key, and removes nothing when the key was there.             *)
LEMMA InsertKeeps ==
  ASSUME NEW s, WellFormed(s), NEW k \in Keys
  PROVE  /\ WellFormed(Insert(s, k, k))
         /\ CachedKeys(Insert(s, k, k)) \subseteq CachedKeys(s) \cup {k}
         /\ k \in CachedKeys(s) => CachedKeys(Insert(s, k, k)) = CachedKeys(s)
<1> USE EntryFacts
<1>1. CASE Positions(s, k) # {}
  <2> DEFINE f == First(Positions(s, k))
             r == [s EXCEPT ![f].artifact = k]
  <2>1. /\ f \in DOMAIN s /\ s[f].key = k
        /\ Insert(s, k, k) = r
    BY <1>1, FirstIsTheMatch DEF Insert
  <2>2. s[f] \in Entry /\ s[f].artifact = k
    BY <2>1 DEF WellFormed, Sound
  <2> HIDE DEF f
  <2>3. [s[f] EXCEPT !.artifact = k] = s[f]
    BY <2>2 DEF Entry
  <2>4. r = s
    BY <2>1, <2>3 DEF WellFormed
  <2> QED  BY <2>1, <2>4
<1>2. CASE Positions(s, k) = {}
  <2> DEFINE kept == IF Len(s) >= MaxEntries THEN Tail(s) ELSE s
             e == [key |-> k, artifact |-> k]
             r == Append(kept, e)
  <2>1. Insert(s, k, k) = r /\ e \in Entry /\ e.key = k /\ e.artifact = k
    BY <1>2 DEF Insert, Entry
  <2>2. s \in Seq(Entry) /\ Len(s) <= MaxEntries /\ k \notin CachedKeys(s)
    BY <1>2 DEF WellFormed, Bounded, Positions, Matches, CachedKeys
  <2>3. /\ kept \in Seq(Entry) /\ Len(kept) < MaxEntries
        /\ \A n \in 1 .. Len(kept) : \E m \in DOMAIN s : kept[n] = s[m]
        /\ \A m, n \in 1 .. Len(kept) : kept[m].key = kept[n].key => m = n
    <3>1. CASE Len(s) >= MaxEntries
      <4>1. s # <<>> /\ kept = Tail(s)
        BY <2>2, <3>1
      <4>2. kept \in Seq(Entry) /\ Len(kept) = Len(s) - 1
        BY <2>2, <4>1, HeadTailProperties
      <4>3. \A n \in 1 .. Len(kept) : kept[n] = s[n + 1] /\ n + 1 \in DOMAIN s
        BY <2>2, <4>1, <4>2, HeadTailProperties
      <4> HIDE DEF kept
      <4>4. \A m, n \in 1 .. Len(kept) : kept[m].key = kept[n].key => m = n
        <5> SUFFICES ASSUME NEW m \in 1 .. Len(kept), NEW n \in 1 .. Len(kept),
                            kept[m].key = kept[n].key
                     PROVE  m = n
          OBVIOUS
        <5>1. s[m + 1].key = s[n + 1].key /\ m + 1 \in DOMAIN s /\ n + 1 \in DOMAIN s
          BY <4>3
        <5>2. m + 1 = n + 1
          BY <5>1 DEF WellFormed, UniqueKeys
        <5> QED  BY <5>2
      <4>5. kept \in Seq(Entry) /\ Len(kept) < MaxEntries
        BY <2>2, <4>2
      <4>6. \A n \in 1 .. Len(kept) : \E m \in DOMAIN s : kept[n] = s[m]
        BY <4>3
      <4> QED  BY <4>4, <4>5, <4>6
    <3>2. CASE Len(s) < MaxEntries
      <4>1. kept = s
        BY <2>2, <3>2
      <4> HIDE DEF kept
      <4>2. DOMAIN s = 1 .. Len(s)
        BY <2>2
      <4>3. \A n \in 1 .. Len(kept) : \E m \in DOMAIN s : kept[n] = s[m]
        BY <4>1, <4>2
      <4>4. \A m, n \in 1 .. Len(kept) : kept[m].key = kept[n].key => m = n
        BY <4>1, <4>2 DEF WellFormed, UniqueKeys
      <4> QED  BY <2>2, <3>2, <4>1, <4>3, <4>4
    <3>3. Len(s) \in Nat
      BY <2>2
    <3> HIDE DEF kept
    <3> QED  BY <3>1, <3>2, <3>3
  <2> HIDE DEF kept, e
  <2>4. /\ r \in Seq(Entry) /\ Len(r) = Len(kept) + 1 /\ DOMAIN r = 1 .. Len(r)
        /\ \A n \in 1 .. Len(kept) : r[n] = kept[n]
        /\ r[Len(kept) + 1] = e
    BY <2>1, <2>3, AppendProperties
  <2>5. Len(kept) \in Nat
    BY <2>3
  <2> HIDE DEF r
  <2>6. ASSUME NEW n \in DOMAIN r, r[n] # e
        PROVE  n \in 1 .. Len(kept) /\ r[n] = kept[n]
    BY <2>4, <2>5, <2>6
  <2>12. \A n \in DOMAIN r : r[n] = e => n = Len(r)
    <3> SUFFICES ASSUME NEW n \in DOMAIN r, n # Len(r) PROVE r[n] # e
      OBVIOUS
    <3>1. n \in 1 .. Len(kept) /\ r[n] = kept[n]
      BY <2>4, <2>5
    <3>2. \E m \in DOMAIN s : r[n] = s[m]
      BY <2>3, <3>1
    <3> QED  BY <2>1, <2>2, <3>2 DEF CachedKeys
  <2>7. \A n \in 1 .. Len(kept) : kept[n].key # k
    BY <2>2, <2>3 DEF CachedKeys
  <2>8. UniqueKeys(r)
    <3> SUFFICES ASSUME NEW m \in DOMAIN r, NEW n \in DOMAIN r, r[m].key = r[n].key
                 PROVE  m = n
      BY DEF UniqueKeys
    <3>1. CASE r[m] = e \/ r[n] = e
      BY <2>1, <2>6, <2>7, <2>12, <3>1
    <3>2. CASE r[m] # e /\ r[n] # e
      BY <2>3, <2>6, <3>2
    <3> QED  BY <3>1, <3>2
  <2>9. Sound(r)
    <3> SUFFICES ASSUME NEW n \in DOMAIN r PROVE r[n].artifact = r[n].key
      BY DEF Sound
    <3>1. CASE r[n] = e
      BY <2>1, <3>1
    <3>2. CASE r[n] # e
      BY <2>3, <2>6, <3>2 DEF Sound, WellFormed
    <3> QED  BY <3>1, <3>2
  <2>10. Bounded(r)
    BY <2>3, <2>4, <2>5 DEF Bounded
  <2>11. CachedKeys(r) \subseteq CachedKeys(s) \cup {k}
    <3> SUFFICES ASSUME NEW n \in DOMAIN r, r[n] # e
                 PROVE  r[n].key \in CachedKeys(s)
      BY <2>1 DEF CachedKeys
    <3>1. \E m \in DOMAIN s : r[n] = s[m]
      BY <2>3, <2>6
    <3> QED  BY <3>1 DEF CachedKeys
  <2> QED  BY <2>1, <2>2, <2>4, <2>8, <2>9, <2>10, <2>11 DEF WellFormed
<1> QED  BY <1>1, <1>2

----------------------------------------------------------------------------
(* The threads.                                                            *)

(* What a finished thread recorded, thread by thread. *)
Faithful(t) == outcome[t] = IF KeyOf(t) \in ParseFails THEN ParseFailed(path[t])
                            ELSE Located(path[t], KeyOf(t))

(* The inductive invariant: the deque is well formed and holds no key that   *)
(* fails to parse; only such a key never reaches the insertion; and a        *)
(* finished thread has recorded what its own source yields.                  *)
ThreadInv(t) ==
  /\ pc[t] \in {"idle", "lookup", "analyze", "insert", "done"}
  /\ path[t] \in Paths \cup {Miss}
  /\ pc[t] # "idle" => path[t] \in Paths
  /\ pc[t] = "insert" => KeyOf(t) \notin ParseFails
  /\ pc[t] = "done" => Faithful(t)
  /\ pc[t] # "done" => outcome[t] = NoOutcome

IInv ==
  /\ WellFormed(entries)
  /\ CachedKeys(entries) \cap ParseFails = {}
  /\ poisoned \in BOOLEAN
  /\ pc \in [Threads -> {"idle", "lookup", "analyze", "insert", "done"}]
  /\ path \in [Threads -> Paths \cup {Miss}]
  /\ outcome \in [Threads -> [path : Paths \cup {Miss}, artifact : Keys \cup {Miss}]]
  /\ \A t \in Threads : ThreadInv(t)

(* The inductive invariant gives every invariant the runs check. *)
LEMMA InvariantImplies ==
  IInv => TypeOK /\ CacheWellFormed /\ Transparent /\ ParseFailuresNotCached
<1> SUFFICES ASSUME IInv
             PROVE  TypeOK /\ CacheWellFormed /\ Transparent /\ ParseFailuresNotCached
  OBVIOUS
<1>1. CacheWellFormed /\ ParseFailuresNotCached
  BY DEF IInv, WellFormed, CacheWellFormed, ParseFailuresNotCached
<1>2. Transparent
  BY DEF IInv, ThreadInv, Faithful, Transparent
<1>3. ASSUME NEW t \in Threads
      PROVE  pc[t] = "done" <=> outcome[t].path # Miss
  <2>1. CASE pc[t] = "done"
    <3>1. path[t] \in Paths /\ Faithful(t)
      BY <2>1 DEF IInv, ThreadInv
    <3>2. outcome[t].path = path[t]
      BY <3>1 DEF Faithful, ParseFailed, Located
    <3> QED  BY <2>1, <3>1, <3>2
  <2>2. CASE pc[t] # "done"
    BY <2>2 DEF IInv, ThreadInv, NoOutcome
  <2> QED  BY <2>1, <2>2
<1>4. TypeOK
  BY <1>3 DEF TypeOK, IInv, ThreadInv, WellFormed
<1> QED  BY <1>1, <1>2, <1>4

(* What one thread does to its own program counter, source and outcome       *)
(* concerns no other thread.                                                 *)
LEMMA OneThreadMoves ==
  ASSUME IInv, NEW t \in Threads,
         NEW c \in {"idle", "lookup", "analyze", "insert", "done"},
         NEW p \in Paths \cup {Miss},
         NEW o \in [path : Paths \cup {Miss}, artifact : Keys \cup {Miss}],
         pc' = [pc EXCEPT ![t] = c],
         path' = [path EXCEPT ![t] = p],
         outcome' = [outcome EXCEPT ![t] = o],
         poisoned' \in BOOLEAN,
         NEW s, entries' = s, WellFormed(s), CachedKeys(s) \cap ParseFails = {},
         c # "idle" => p \in Paths,
         c = "insert" => Contents[p] \notin ParseFails,
         c = "done" => o = IF Contents[p] \in ParseFails THEN ParseFailed(p)
                           ELSE Located(p, Contents[p]),
         c # "done" => o = NoOutcome
  PROVE  IInv'
<1>1. /\ pc' \in [Threads -> {"idle", "lookup", "analyze", "insert", "done"}]
      /\ path' \in [Threads -> Paths \cup {Miss}]
  BY DEF IInv
<1>2. outcome' \in [Threads -> [path : Paths \cup {Miss}, artifact : Keys \cup {Miss}]]
  BY DEF IInv
<1>3. ThreadInv(t)'
  <2>1. pc'[t] = c /\ path'[t] = p /\ outcome'[t] = o
    BY DEF IInv
  <2> QED  BY <2>1 DEF ThreadInv, Faithful, KeyOf
<1>4. ASSUME NEW u \in Threads, u # t PROVE ThreadInv(u)'
  <2>1. pc'[u] = pc[u] /\ path'[u] = path[u] /\ outcome'[u] = outcome[u]
    BY <1>4 DEF IInv
  <2>2. ThreadInv(u)
    BY DEF IInv
  <2> QED  BY <2>1, <2>2 DEF ThreadInv, Faithful, KeyOf
<1>5. \A u \in Threads : ThreadInv(u)'
  BY <1>3, <1>4
<1> QED  BY <1>1, <1>2, <1>5 DEF IInv

(* Every step of a thread preserves the invariant. *)
LEMMA StepKeepsIInv == ASSUME IInv, NEW t \in Threads, Step(t) PROVE IInv'
<1>1. /\ path[t] \in Paths \cup {Miss} /\ pc \in [Threads -> {"idle", "lookup", "analyze", "insert", "done"}]
      /\ outcome[t] \in [path : Paths \cup {Miss}, artifact : Keys \cup {Miss}]
      /\ path = [path EXCEPT ![t] = path[t]] /\ outcome = [outcome EXCEPT ![t] = outcome[t]]
      /\ pc[t] # "idle" => path[t] \in Paths /\ KeyOf(t) \in Keys
      /\ pc[t] # "done" => outcome[t] = NoOutcome
      /\ pc[t] = "insert" => KeyOf(t) \notin ParseFails
      /\ WellFormed(entries) /\ CachedKeys(entries) \cap ParseFails = {} /\ poisoned \in BOOLEAN
  <2>1. ThreadInv(t)
    BY DEF IInv
  <2>2. pc[t] # "idle" => path[t] \in Paths /\ KeyOf(t) \in Keys
    BY <2>1 DEF ThreadInv, KeyOf
  <2>3. outcome[t] \in [path : Paths \cup {Miss}, artifact : Keys \cup {Miss}]
    BY DEF IInv
  <2>4. path = [path EXCEPT ![t] = path[t]] /\ outcome = [outcome EXCEPT ![t] = outcome[t]]
    BY DEF IInv
  <2> QED  BY <2>1, <2>2, <2>3, <2>4 DEF IInv, ThreadInv
<1>2. NoOutcome \in [path : Paths \cup {Miss}, artifact : Keys \cup {Miss}]
  BY DEF NoOutcome
<1>3. CASE Begin(t)
  <2>1. PICK p \in Paths : path' = [path EXCEPT ![t] = p]
    BY <1>3 DEF Begin
  <2>2. /\ pc' = [pc EXCEPT ![t] = "lookup"] /\ outcome' = [outcome EXCEPT ![t] = NoOutcome]
        /\ entries' = entries /\ poisoned' = poisoned
    BY <1>3 DEF Begin
  <2> QED  BY <1>1, <1>2, <2>1, <2>2, OneThreadMoves
<1>4. CASE Hit(t)
  <2> DEFINE a == Lookup(entries, KeyOf(t))
  <2>1. pc[t] = "lookup" /\ a = KeyOf(t) /\ KeyOf(t) \in CachedKeys(entries)
    BY <1>1, <1>4, LookupIsExact DEF Hit
  <2> HIDE DEF a
  <2>2. /\ pc' = [pc EXCEPT ![t] = "done"]
        /\ outcome' = [outcome EXCEPT ![t] = Located(path[t], a)]
        /\ path' = path /\ entries' = entries /\ poisoned' = poisoned
    BY <1>4 DEF Hit, RecordLocal, a
  <2>3. /\ Located(path[t], a) \in [path : Paths \cup {Miss}, artifact : Keys \cup {Miss}]
        /\ KeyOf(t) \notin ParseFails
    BY <1>1, <2>1 DEF Located
  <2> QED  BY <1>1, <2>1, <2>2, <2>3, OneThreadMoves DEF KeyOf
<1>5. CASE MissAndAnalyze(t)
  <2>1. /\ pc[t] = "lookup" /\ pc' = [pc EXCEPT ![t] = "analyze"]
        /\ outcome' = outcome /\ path' = path /\ entries' = entries /\ poisoned' = poisoned
    BY <1>5 DEF MissAndAnalyze
  <2> QED  BY <1>1, <1>2, <2>1, OneThreadMoves
<1>6. CASE FailParse(t)
  <2>1. /\ pc[t] = "analyze" /\ pc' = [pc EXCEPT ![t] = "done"] /\ KeyOf(t) \in ParseFails
        /\ outcome' = [outcome EXCEPT ![t] = ParseFailed(path[t])]
        /\ path' = path /\ entries' = entries /\ poisoned' = poisoned
    BY <1>6 DEF FailParse
  <2>2. ParseFailed(path[t]) \in [path : Paths \cup {Miss}, artifact : Keys \cup {Miss}]
    BY <1>1 DEF ParseFailed
  <2> QED  BY <1>1, <2>1, <2>2, OneThreadMoves DEF KeyOf
<1>7. CASE Analyze(t)
  <2>1. /\ pc[t] = "analyze" /\ pc' = [pc EXCEPT ![t] = "insert"] /\ KeyOf(t) \notin ParseFails
        /\ outcome' = outcome /\ path' = path /\ entries' = entries /\ poisoned' = poisoned
    BY <1>7 DEF Analyze
  <2> QED  BY <1>1, <1>2, <2>1, OneThreadMoves DEF KeyOf
<1>8. CASE PanicInAnalysis(t)
  <2>1. /\ pc[t] = "analyze" /\ pc' = [pc EXCEPT ![t] = "idle"]
        /\ path' = [path EXCEPT ![t] = Miss]
        /\ outcome' = outcome /\ entries' = entries /\ poisoned' = poisoned
    BY <1>8 DEF PanicInAnalysis
  <2> QED  BY <1>1, <1>2, <2>1, OneThreadMoves
<1>9. CASE Complete(t)
  <2> DEFINE s == Insert(entries, KeyOf(t), KeyOf(t))
  <2>1. /\ pc[t] = "insert" /\ pc' = [pc EXCEPT ![t] = "done"] /\ entries' = s
        /\ outcome' = [outcome EXCEPT ![t] = Located(path[t], KeyOf(t))]
        /\ path' = path /\ poisoned' = poisoned
    BY <1>9 DEF Complete, RecordLocal
  <2>2. WellFormed(s) /\ CachedKeys(s) \subseteq CachedKeys(entries) \cup {KeyOf(t)}
    BY <1>1, <2>1, InsertKeeps
  <2> HIDE DEF s
  <2>3. CachedKeys(s) \cap ParseFails = {}
    BY <1>1, <2>1, <2>2
  <2>4. Located(path[t], KeyOf(t)) \in [path : Paths \cup {Miss}, artifact : Keys \cup {Miss}]
    BY <1>1, <2>1 DEF Located
  <2> QED  BY <1>1, <2>1, <2>2, <2>3, <2>4, OneThreadMoves DEF KeyOf
<1>10. CASE PanicUnderLock(t)
  <2>1. /\ pc[t] \in {"lookup", "insert"} /\ pc' = [pc EXCEPT ![t] = "idle"]
        /\ path' = [path EXCEPT ![t] = Miss]
        /\ outcome' = outcome /\ entries' = entries /\ poisoned' = TRUE
    BY <1>10 DEF PanicUnderLock
  <2> QED  BY <1>1, <1>2, <2>1, OneThreadMoves
<1> QED  BY <1>3, <1>4, <1>5, <1>6, <1>7, <1>8, <1>9, <1>10 DEF Step

(* The invariant holds initially: the cache is empty and nothing recorded. *)
LEMMA InitIInv == Init => IInv
<1> SUFFICES ASSUME Init PROVE IInv
  OBVIOUS
<1>1. entries = <<>> /\ WellFormed(entries)
  BY DEF Init, WellFormed, Bounded, UniqueKeys, Sound
<1>2. CachedKeys(entries) = {}
  BY <1>1 DEF CachedKeys
<1>3. outcome \in [Threads -> [path : Paths \cup {Miss}, artifact : Keys \cup {Miss}]]
  BY DEF Init, NoOutcome
<1>4. \A t \in Threads : ThreadInv(t)
  BY DEF Init, ThreadInv
<1>5. /\ poisoned \in BOOLEAN
      /\ pc \in [Threads -> {"idle", "lookup", "analyze", "insert", "done"}]
      /\ path \in [Threads -> Paths \cup {Miss}]
  BY DEF Init
<1> QED  BY <1>1, <1>2, <1>3, <1>4, <1>5 DEF IInv

(* The inductive invariant holds in every reachable state. *)
THEOREM SpecIInv == Spec => []IInv
<1>1. IInv /\ [Next]_vars => IInv'
  <2> SUFFICES ASSUME IInv, [Next]_vars PROVE IInv'
    OBVIOUS
  <2>1. CASE Next
    BY <2>1, StepKeepsIInv DEF Next
  <2>2. CASE UNCHANGED vars
    BY <2>2 DEF vars, IInv, ThreadInv, Faithful, KeyOf, WellFormed, CachedKeys, Bounded, UniqueKeys, Sound
  <2> QED  BY <2>1, <2>2
<1> QED  BY <1>1, InitIInv, PTL DEF Spec

(* Every variable has its type, a thread past `idle` has a source, and a     *)
(* thread is done exactly when it has recorded an outcome.                   *)
THEOREM TypeCorrect == Spec => []TypeOK
<1> QED  BY SpecIInv, InvariantImplies, PTL

(* The cache stays bounded, free of duplicates and sound, whatever hashes    *)
(* collide and however many threads miss the same key at once.               *)
THEOREM CacheStaysWellFormed == Spec => []CacheWellFormed
<1> QED  BY SpecIInv, InvariantImplies, PTL

(* No thread can tell a cached analysis from one of its own. *)
THEOREM CacheIsTransparent == Spec => []Transparent
<1> QED  BY SpecIInv, InvariantImplies, PTL

(* A key that fails to parse is never found in the cache. *)
THEOREM ParseFailuresStayOut == Spec => []ParseFailuresNotCached
<1> QED  BY SpecIInv, InvariantImplies, PTL

(* The cache and what the threads took from it are what uncached analyses    *)
(* make, for any number of threads, keys and entries.                        *)
THEOREM CacheIsFaithfulAlways == Spec => []CacheIsFaithful
<1>1. CacheWellFormed /\ Transparent /\ ParseFailuresNotCached => CacheIsFaithful
  BY DEF CacheIsFaithful
<1> QED  BY <1>1, CacheStaysWellFormed, CacheIsTransparent, ParseFailuresStayOut, PTL

(* The thread that loses the race to insert a key evicts nothing: only       *)
(* Complete moves a thread from the insertion to `done`.                     *)
THEOREM RacersEvictNothing == Spec => ReplacementEvictsNothing
<1> DEFINE Quiet == \A t \in Threads :
             pc[t] = "insert" /\ pc'[t] = "done" /\ KeyOf(t) \in CachedKeys(entries)
               => CachedKeys(entries') = CachedKeys(entries)
<1>1. ASSUME IInv, Next PROVE Quiet
  <2> SUFFICES ASSUME NEW t \in Threads, pc[t] = "insert", pc'[t] = "done",
                      KeyOf(t) \in CachedKeys(entries)
               PROVE  CachedKeys(entries') = CachedKeys(entries)
    OBVIOUS
  <2>1. PICK u \in Threads : Step(u)
    BY <1>1 DEF Next
  <2>2. u = t
    BY <1>1, <2>1 DEF Step, Begin, Hit, MissAndAnalyze, FailParse, Analyze, PanicInAnalysis,
                      Complete, PanicUnderLock, IInv
  <2>3. Complete(t)
    BY <1>1, <2>1, <2>2 DEF Step, Begin, Hit, MissAndAnalyze, FailParse, Analyze,
                            PanicInAnalysis, PanicUnderLock, IInv
  <2>4. KeyOf(t) \in Keys /\ WellFormed(entries)
    BY <1>1 DEF IInv, ThreadInv, KeyOf
  <2> QED  BY <2>3, <2>4, InsertKeeps DEF Complete
<1>2. IInv /\ [Next]_vars => [Quiet]_vars
  BY <1>1
<1> QED  BY <1>2, SpecIInv, PTL DEF Spec, ReplacementEvictsNothing
=============================================================================
