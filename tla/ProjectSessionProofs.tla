------------------------ MODULE ProjectSessionProofs ------------------------
(***************************************************************************)
(* The safety of a project session, for any paths, contents, sizes and     *)
(* limits, any cache capacity and worker counts, any jobs that panic and    *)
(* any number of other sessions that fill the shared cache meanwhile.       *)
(*                                                                         *)
(* The argument: whatever the cache answers is the artifact of the key that *)
(* was asked for (CacheInv), and a source is recorded once, so every        *)
(* outcome is the source's own (OutcomesFaithful).  The sources of a  *)
(* batch are distinct, pending and no longer candidates (BatchInv), hence   *)
(* the order in which they complete or panic does not matter.               *)
(***************************************************************************)
EXTENDS ProjectSession, SequenceTheorems, Counting

USE CacheAssumption, SessionAssumption

----------------------------------------------------------------------------
(* The inductive invariant.                                                *)

Honest(s) == s \in Seq(Entry) /\ Sound(s)

CacheInv == Honest(entries) /\ CachedKeys(entries) \cap ParseFails = {}

(* The jobs of a batch are distinct sources that are pending and taken.     *)
BatchInv ==
  /\ \A n \in 1 .. Len(batch) : batch[n] \in Pending \ todo
  /\ \A m, n \in 1 .. Len(batch) : batch[m] = batch[n] => m = n

(* What a call may have left to do, by the place where it is.               *)
CallInv ==
  /\ pc \in {"idle", "over"} => todo = {}
  /\ pc \in {"one", "analyze"} => todo \subseteq Pending
  /\ pc \notin {"fill", "merge"} => batch = <<>>
  /\ pc # "merge" => crashed = {}

(* Every request was handed over or is about to be.                         *)
HandedInv ==
  pc # "over" /\ ~failed => authored = IF pc = "idle" THEN returned ELSE returned \cup requests

(* A report is about the tables as they are.                                *)
ReportInv == report # NoReport => pc = "over" /\ ReportDeterministic

TablesOK ==
  /\ sources \subseteq Paths /\ sourceBytes \in Nat
  /\ outcomes \in [Paths -> Keys \cup {Miss, ParseFailed}]
  /\ authored \subseteq AllRequests

ControlOK ==
  /\ requests \subseteq authored /\ returned \subseteq authored
  /\ pool \in WorkerCounts \cup {0}
  /\ pc \in {"idle", "one", "analyze", "fill", "merge", "over"}
  /\ todo \subseteq sources /\ crashed \subseteq sources
  /\ batch \in Seq(Paths) /\ Len(batch) <= Window
  /\ panicked \in BOOLEAN /\ failed \in BOOLEAN
  /\ result \in {"none", "ok", "rejected", "failed"}

IInv ==
  /\ TablesOK /\ ControlOK
  /\ CacheInv /\ AdmissionBounded /\ OutcomesFaithful
  /\ BatchInv /\ CallInv /\ HandedInv /\ ReportInv

----------------------------------------------------------------------------
(* Sizes of sets of sources.                                               *)

LEMMA BytesFinite ==
  ASSUME NEW S \in SUBSET Paths
  PROVE  /\ IsFiniteSet(S) /\ Cardinality(S) \in Nat
         /\ TotalBytes(S) = Cardinality(Units(S, Size)) /\ TotalBytes(S) \in Nat
<1>1. IsFiniteSet(S) /\ \A p \in S : Size[p] \in Nat
  BY FS_Subset
<1>2. TotalBytes(S) = Cardinality(Units(S, Size))
  BY DEF TotalBytes, Units
<1> QED  BY <1>1, <1>2, UnitsFinite, FS_CardinalityType

(* Disjoint sets of sources have the bytes of both.                         *)
LEMMA BytesAdd ==
  ASSUME NEW S \in SUBSET Paths, NEW T \in SUBSET Paths, S \cap T = {}
  PROVE  TotalBytes(S \cup T) = TotalBytes(S) + TotalBytes(T)
<1>1. IsFiniteSet(S) /\ IsFiniteSet(T)
  BY BytesFinite
<1>4. \A p \in S \cup T : Size[p] \in Nat
  OBVIOUS
<1>2. Cardinality(Units(S \cup T, Size))
        = Cardinality(Units(S, Size)) + Cardinality(Units(T, Size))
  <2>1. CanBeAdded(S, T, Size)
    BY <1>1, <1>4 DEF CanBeAdded
  <2> QED  BY <2>1, UnitsAdd
<1>3. S \cup T \in SUBSET Paths
  OBVIOUS
<1> QED  BY <1>2, <1>3, BytesFinite

LEMMA NoBytes == TotalBytes({}) = 0 /\ Cardinality({}) = 0
BY NoUnits, BytesFinite, FS_EmptySet

(* The arguments of a call are no more sources than it has arguments.       *)
LEMMA RangeBounded ==
  ASSUME NEW n \in Nat, NEW args \in [1 .. n -> Paths]
  PROVE  /\ Range(args) \in SUBSET Paths /\ Cardinality(Range(args)) <= n
         /\ n = 0 => Range(args) = {}
<1>1. Range(args) \in SUBSET Paths
  BY DEF Range
<1>2. args \in Surjection(1 .. n, Range(args))
  BY DEF Surjection, Range
<1>3. IsFiniteSet(1 .. n) /\ Cardinality(1 .. n) = n
  BY FS_Interval
<1>4. Cardinality(Range(args)) <= n
  BY <1>2, <1>3, FS_Surjection
<1>5. n = 0 => Range(args) = {}
  BY DEF Range
<1> QED  BY <1>1, <1>4, <1>5

----------------------------------------------------------------------------
(* What the invariant says of single variables, for the leaves below.       *)

LEMMA SeqNarrows ==
  ASSUME NEW S, NEW T, NEW s \in Seq(S), \A n \in 1 .. Len(s) : s[n] \in T
  PROVE  s \in Seq(T)
BY SeqDef

LEMMA SessionFacts ==
  ASSUME IInv
  PROVE  /\ sources \in SUBSET Paths /\ Pending \in SUBSET sources /\ todo \in SUBSET sources
         /\ batch \in Seq(Paths) /\ Len(batch) \in Nat
         /\ outcomes \in [Paths -> Keys \cup {Miss, ParseFailed}]
         /\ pool \in Nat
         /\ (pc # "over" => report = NoReport)
<1>1. batch \in Seq(Paths)
  BY DEF IInv, ControlOK
<1>2. Len(batch) \in Nat
  BY <1>1, LenProperties
<1> QED  BY <1>1, <1>2 DEF IInv, TablesOK, ControlOK, ReportInv, Pending

LEMMA TypesFollow == IInv => TypeOK
<1> SUFFICES ASSUME IInv PROVE TypeOK
  OBVIOUS
<1>1. batch \in Seq(Pending)
  BY SessionFacts, SeqNarrows DEF IInv, BatchInv
<1> QED  BY <1>1 DEF IInv, TablesOK, ControlOK, CacheInv, Honest, TypeOK

(* A recorded source has its own outcome, and its requests are registered   *)
(* and collected.                                                          *)
Recorded(p) ==
  \/ /\ Contents[p] \notin ParseFails
     /\ outcomes' = [outcomes EXCEPT ![p] = Contents[p]]
     /\ authored' = authored \cup RequestsOf(p, Contents[p])
     /\ requests' = requests \cup RequestsOf(p, Contents[p])
  \/ /\ Contents[p] \in ParseFails
     /\ outcomes' = [outcomes EXCEPT ![p] = ParseFailed]
     /\ UNCHANGED <<authored, requests>>

(* With an honest cache a hit is the artifact of exactly the key asked for:  *)
(* the key itself is compared, whatever the fingerprints are.               *)
LEMMA FirstIsAMatch ==
  ASSUME NEW s, Honest(s), NEW k \in Keys, Positions(s, k) # {},
         NEW f, f = First(Positions(s, k))
  PROVE  f \in DOMAIN s /\ s[f] \in Entry /\ s[f].key = k /\ s[f].artifact = k
<1>1. DOMAIN s \in SUBSET Nat
  <2>1. DOMAIN s = 1 .. Len(s) /\ Len(s) \in Nat
    BY DEF Honest
  <2> QED  BY <2>1
<1>2. Positions(s, k) \in SUBSET Nat
  BY <1>1 DEF Positions
<1>3. f \in Positions(s, k)
  BY <1>2, LeastExists DEF First
<1>4. s[f] \in Entry
  BY <1>3, ElementOfSeq DEF Positions, Honest
<1> QED  BY <1>3, <1>4 DEF Positions, Matches, Honest, Sound

LEMMA HitIsHonest ==
  ASSUME NEW s, Honest(s), NEW k \in Keys, Lookup(s, k) # Miss
  PROVE  Lookup(s, k) = k /\ k \in CachedKeys(s)
<1>1. Positions(s, k) # {} /\ Lookup(s, k) = s[First(Positions(s, k))].artifact
  BY DEF Lookup
<1> QED  BY <1>1, FirstIsAMatch DEF CachedKeys

LEMMA InsertIsHonest ==
  ASSUME NEW s, Honest(s), NEW k \in Keys
  PROVE  Honest(Insert(s, k, k)) /\ CachedKeys(Insert(s, k, k)) \subseteq CachedKeys(s) \cup {k}
<1>0. Len(s) \in Nat /\ DOMAIN s = 1 .. Len(s)
  BY DEF Honest
<1>1. CASE Positions(s, k) # {}
  <2> DEFINE f == First(Positions(s, k))
             r == [s EXCEPT ![f].artifact = k]
  <2>1. f \in DOMAIN s /\ s[f] \in Entry /\ s[f].key = k /\ s[f].artifact = k
    BY <1>1, FirstIsAMatch
  <2>2. Insert(s, k, k) = r
    BY <1>1 DEF Insert
  <2> HIDE DEF f
  <2>3. [s[f] EXCEPT !.artifact = k] = s[f]
    BY <2>1 DEF Entry
  <2>4. r = s
    BY <2>1, <2>3 DEF Honest
  <2> QED  BY <2>2, <2>4
<1>2. CASE Positions(s, k) = {}
  <2> DEFINE E == Entry
             kept == IF Len(s) >= MaxEntries THEN Tail(s) ELSE s
             e == [key |-> k, artifact |-> k]
             r == Append(kept, e)
  <2>1. Insert(s, k, k) = r /\ e \in Entry /\ e.key = k /\ e.artifact = k
    BY <1>2 DEF Insert, Entry
  <2>2. kept \in Seq(Entry) /\ \A n \in 1 .. Len(kept) : \E m \in DOMAIN s : kept[n] = s[m]
    <3>1. CASE Len(s) >= MaxEntries
      <4>1. s # <<>> /\ kept = Tail(s) /\ s \in Seq(Entry)
        BY <3>1, <1>0 DEF Honest
      <4>2. kept \in Seq(Entry) /\ Len(kept) = Len(s) - 1
        BY <4>1, HeadTailProperties
      <4> HIDE DEF kept
      <4>3. /\ Len(Tail(s)) = Len(s) - 1
            /\ \A n \in 1 .. Len(Tail(s)) : Tail(s)[n] = s[n + 1]
        BY <4>1, HeadTailProperties
      <4>4. \A n \in 1 .. Len(kept) : kept[n] = s[n + 1] /\ n + 1 \in DOMAIN s
        BY <1>0, <4>1, <4>3
      <4> QED  BY <4>2, <4>4
    <3>2. CASE ~(Len(s) >= MaxEntries)
      BY <3>2, <1>0 DEF Honest
    <3> QED  BY <3>1, <3>2
  <2>0. e \in E /\ kept \in Seq(E)
    BY <2>1, <2>2
  <2> HIDE DEF kept, e, E
  <2>3. /\ r \in Seq(E) /\ Len(r) = Len(kept) + 1 /\ DOMAIN r = 1 .. Len(r)
        /\ \A n \in 1 .. Len(kept) : r[n] = kept[n]
        /\ r[Len(kept) + 1] = e
    BY <2>0, AppendProperties
  <2>4. Len(kept) \in Nat
    BY <2>0
  <2> HIDE DEF r
  <2>5. \A n \in DOMAIN r : r[n] = e \/ \E m \in DOMAIN s : r[n] = s[m]
    <3> SUFFICES ASSUME NEW n \in DOMAIN r PROVE r[n] = e \/ \E m \in DOMAIN s : r[n] = s[m]
      OBVIOUS
    <3>1. n = Len(kept) + 1 \/ n \in 1 .. Len(kept)
      BY <2>3, <2>4
    <3> QED  BY <2>2, <2>3, <3>1
  <2>6. \A m \in DOMAIN s : s[m].artifact = s[m].key
    BY DEF Honest, Sound
  <2>7. Sound(r)
    <3> SUFFICES ASSUME NEW n \in DOMAIN r PROVE r[n].artifact = r[n].key
      BY DEF Sound
    <3>1. CASE r[n] = e
      BY <2>1, <3>1
    <3>2. CASE \E m \in DOMAIN s : r[n] = s[m]
      BY <2>6, <3>2
    <3> QED  BY <2>5, <3>1, <3>2
  <2>8. CachedKeys(r) \subseteq CachedKeys(s) \cup {k}
    <3> SUFFICES ASSUME NEW n \in DOMAIN r PROVE r[n].key \in CachedKeys(s) \cup {k}
      BY DEF CachedKeys
    <3> QED  BY <2>1, <2>5 DEF CachedKeys
  <2> QED  BY <2>1, <2>3, <2>7, <2>8 DEF Honest, E
<1> QED  BY <1>1, <1>2

LEMMA CacheInvNext ==
  ASSUME NEW s, entries' = s, Honest(s), CachedKeys(s) \cap ParseFails = {}
  PROVE  CacheInv'
BY DEF CacheInv, Honest, Sound, CachedKeys

LEMMA CompletionRecords ==
  ASSUME CacheInv, NEW p \in Paths, CompleteJob(p) PROVE Recorded(p) /\ CacheInv'
<1>1. Recorded(p)
  BY DEF CompleteJob, Recorded, RecordLocal, RecordParseFailure
<1>2. Contents[p] \in Keys
  OBVIOUS
<1>3. CASE Contents[p] \notin ParseFails /\ entries' = Insert(entries, Contents[p], Contents[p])
  <2> DEFINE s == Insert(entries, Contents[p], Contents[p])
  <2>1. Honest(s) /\ CachedKeys(s) \subseteq CachedKeys(entries) \cup {Contents[p]}
    BY <1>2, InsertIsHonest DEF CacheInv
  <2> HIDE DEF s
  <2>2. CachedKeys(s) \cap ParseFails = {}
    BY <1>3, <2>1 DEF CacheInv
  <2>3. entries' = s
    BY <1>3 DEF s
  <2> QED  BY <2>1, <2>2, <2>3, <1>1, CacheInvNext
<1>4. CASE entries' = entries
  BY <1>1, <1>4, CacheInvNext DEF CacheInv
<1> QED  BY <1>1, <1>3, <1>4 DEF CompleteJob

LEMMA HitRecords ==
  ASSUME CacheInv, NEW p \in Paths, Cached(p) # Miss, RecordHit(p) PROVE Recorded(p)
<1>1. Contents[p] \in Keys
  OBVIOUS
<1>2. Cached(p) = Contents[p] /\ Contents[p] \notin ParseFails
  BY <1>1, HitIsHonest DEF CacheInv, Cached
<1> QED  BY <1>2 DEF RecordHit, RecordLocal, Recorded

LEMMA RecordFacts ==
  ASSUME IInv, NEW p \in Pending, Recorded(p), sources' = sources
  PROVE  /\ outcomes' \in [Paths -> Keys \cup {Miss, ParseFailed}]
         /\ Pending' = Pending \ {p}
         /\ authored' \subseteq AllRequests /\ authored \subseteq authored'
         /\ requests' \subseteq authored'
         /\ (authored = returned \cup requests => authored' = returned \cup requests')
         /\ OutcomesFaithful'
<1> USE SessionFacts
<1>1. p \in Paths /\ p \in sources /\ outcomes[p] = Miss
  BY DEF Pending
<1>2. Contents[p] \in Keys /\ Yield(p) \in Keys \cup {ParseFailed} /\ Yield(p) # Miss
  BY <1>1 DEF Yield
<1>3. outcomes' = [outcomes EXCEPT ![p] = Yield(p)]
  BY DEF Recorded, Yield
<1>4. outcomes' \in [Paths -> Keys \cup {Miss, ParseFailed}] /\ Pending' = Pending \ {p}
  BY <1>1, <1>2, <1>3 DEF Pending
<1>5. authored \subseteq AllRequests /\ requests \subseteq authored
  BY DEF IInv, TablesOK, ControlOK
<1>6. RequestsOf(p, Contents[p]) \subseteq AllRequests
  BY <1>1 DEF AllRequests
<1>7. /\ authored' \subseteq AllRequests /\ authored \subseteq authored' /\ requests' \subseteq authored'
      /\ (authored = returned \cup requests => authored' = returned \cup requests')
  BY <1>5, <1>6 DEF Recorded
<1>8. \A q \in Paths : outcomes'[q] # Miss => q \in sources' /\ outcomes'[q] = Yield(q)
  BY <1>1, <1>3 DEF IInv, OutcomesFaithful
<1>9. authored' = UNION {RequestsOf(q, outcomes'[q]) : q \in Modules'}
  <2>1. authored = UNION {RequestsOf(q, outcomes[q]) : q \in Modules}
    BY DEF IInv, OutcomesFaithful
  <2>2. CASE Contents[p] \notin ParseFails
    <3>1. /\ Modules' = Modules \cup {p} /\ p \notin Modules /\ outcomes'[p] = Contents[p]
          /\ \A q \in Modules : outcomes'[q] = outcomes[q]
      BY <1>1, <1>2, <1>3, <2>2 DEF Modules, Yield
    <3>2. authored' = authored \cup RequestsOf(p, Contents[p])
      BY <2>2 DEF Recorded
    <3> QED  BY <2>1, <3>1, <3>2
  <2>3. CASE Contents[p] \in ParseFails
    <3>1. Modules' = Modules /\ \A q \in Modules : outcomes'[q] = outcomes[q]
      BY <1>1, <1>2, <1>3, <2>3 DEF Modules, Yield
    <3>2. authored' = authored
      BY <2>3 DEF Recorded
    <3> QED  BY <2>1, <3>1, <3>2
  <2> QED  BY <2>2, <2>3
<1>10. OutcomesFaithful'
  BY <1>8, <1>9 DEF OutcomesFaithful, Yield
<1> QED  BY <1>4, <1>7, <1>10

----------------------------------------------------------------------------
(* The kinds of steps.                                                     *)

(* Only the state of the call changes.                                      *)
LEMMA ControlStep ==
  ASSUME IInv, pc # "over", UNCHANGED <<entries, tables, outcomes, authored, report>>,
         ControlOK', BatchInv', CallInv', HandedInv'
  PROVE  IInv'
<1>1. TablesOK'
  BY DEF IInv, TablesOK, tables, AllRequests
<1>2. CacheInv'
  BY CacheInvNext DEF IInv, CacheInv
<1>3. AdmissionBounded' /\ OutcomesFaithful'
  BY DEF IInv, tables, AdmissionBounded, TotalBytes, OutcomesFaithful, Modules, Yield
<1>4. ReportInv'
  BY SessionFacts DEF ReportInv
<1> QED  BY <1>1, <1>2, <1>3, <1>4 DEF IInv

(* One pending source is recorded.                                          *)
LEMMA RecordStep ==
  ASSUME IInv, pc # "over", UNCHANGED <<tables, report>>, CacheInv',
         NEW p \in Pending, Recorded(p), ControlOK', BatchInv', CallInv', HandedInv'
  PROVE  IInv'
<1>1. sources' = sources
  BY DEF tables
<1>2. TablesOK'
  BY <1>1, RecordFacts DEF IInv, TablesOK, tables, AllRequests
<1>3. AdmissionBounded'
  BY DEF IInv, tables, AdmissionBounded, TotalBytes
<1>4. OutcomesFaithful'
  BY <1>1, RecordFacts
<1>5. ReportInv'
  BY SessionFacts DEF ReportInv
<1> QED  BY <1>2, <1>3, <1>4, <1>5 DEF IInv

(* New sources are admitted.                                                *)
LEMMA AdmitStep ==
  ASSUME IInv, pc = "idle", NEW n \in Nat, NEW args \in [1 .. n -> Paths],
         Len(args) = n, Admissible(args), Admit(args),
         UNCHANGED <<entries, outcomes, authored, report>>,
         ControlOK', BatchInv', CallInv', HandedInv'
  PROVE  IInv'
<1> USE SessionFacts
<1>1. /\ Range(args) \in SUBSET Paths /\ Cardinality(Range(args)) <= n
      /\ n = 0 => Range(args) = {}
  BY RangeBounded
<1>2. sources' = sources \cup Range(args) /\ sourceBytes' = sourceBytes + TotalBytes(Range(args))
      /\ Range(args) \cap sources = {}
  BY DEF Admit, Admissible
<1>3. sourceBytes = TotalBytes(sources) /\ sourceBytes \in Nat /\ TotalBytes(Range(args)) \in Nat
      /\ sourceBytes <= MaxSourceBytes /\ Cardinality(sources) <= MaxSources
  BY <1>1, BytesFinite DEF IInv, AdmissionBounded, TablesOK
<1>4. TablesOK'
  <2>1. sources' \subseteq Paths /\ sourceBytes' \in Nat
    BY <1>1, <1>2, <1>3
  <2>2. AllRequests' = AllRequests
    BY DEF AllRequests, RequestsOf
  <2> QED  BY <2>1, <2>2 DEF IInv, TablesOK
<1>5. AdmissionBounded'
  <2>1. sourceBytes' = TotalBytes(sources')
    BY <1>1, <1>2, <1>3, BytesAdd, ZenonT(60)
  <2>2. IsFiniteSet(sources) /\ IsFiniteSet(Range(args)) /\ Cardinality(sources) \in Nat
        /\ Cardinality(Range(args)) \in Nat
    BY <1>1, BytesFinite
  <2>3. Cardinality(sources') = Cardinality(sources) + Cardinality(Range(args))
    <3>1. Cardinality(sources \cap Range(args)) = 0
      BY <1>2, FS_EmptySet
    <3>2. Cardinality(sources \cup Range(args)) =
            Cardinality(sources) + Cardinality(Range(args)) - Cardinality(sources \cap Range(args))
      BY <2>2, FS_Union
    <3>3. sources' = sources \cup Range(args)
      BY <1>2
    <3> QED  BY <2>2, <3>1, <3>2, <3>3
  <2>4. CASE n = 0
    <3>1. sources' = sources /\ TotalBytes(Range(args)) = 0
      BY <1>1, <1>2, <2>4, NoBytes
    <3> QED  BY <1>2, <1>3, <2>1, <3>1 DEF AdmissionBounded, TotalBytes
  <2>5. CASE n # 0
    <3>1. args # <<>>
      BY <2>5
    <3>2. /\ Cardinality(sources) + n <= MaxSources
          /\ sourceBytes + TotalBytes(Range(args)) <= MaxSourceBytes
      BY <3>1 DEF Admissible
    <3>3. Cardinality(sources') <= MaxSources /\ sourceBytes' <= MaxSourceBytes
      BY <1>1, <1>2, <1>3, <2>2, <2>3, <3>2, SMTT(30)
    <3> QED  BY <2>1, <3>3 DEF AdmissionBounded, TotalBytes
  <2> QED  BY <2>4, <2>5
<1>6. OutcomesFaithful'
  <2>1. Modules' = Modules
    <3>1. \A p \in Range(args) : outcomes[p] = Miss
      BY <1>1, <1>2 DEF IInv, OutcomesFaithful
    <3> QED  BY <1>2, <3>1 DEF Modules
  <2> QED  BY <1>2, <2>1 DEF IInv, OutcomesFaithful, Yield
<1>7. CacheInv'
  BY CacheInvNext DEF IInv, CacheInv
<1>8. ReportInv'
  BY DEF ReportInv
<1> QED  BY <1>4, <1>5, <1>6, <1>7, <1>8 DEF IInv

----------------------------------------------------------------------------
(* The caller.                                                             *)

LEMMA RejectKeeps == ASSUME IInv, NEW args, Reject(args) PROVE IInv'
<1>1. /\ pc = "idle" /\ UNCHANGED <<entries, tables, outcomes, authored, report>>
      /\ UNCHANGED <<executor, pc, requests, returned, failed>> /\ result' = "rejected"
  BY DEF Reject
<1>2. ControlOK'
  BY <1>1 DEF IInv, ControlOK, Window, tables, executor
<1>3. BatchInv' /\ CallInv' /\ HandedInv'
  BY <1>1 DEF IInv, BatchInv, Pending, CallInv, HandedInv, tables, executor
<1> QED  BY <1>1, <1>2, <1>3, ControlStep

LEMMA AnalyzeSourceKeeps == ASSUME IInv, NEW p \in Paths, AnalyzeSource(p) PROVE IInv'
<1> USE SessionFacts
<1>1. /\ pc = "idle" /\ Admissible(<<p>>) /\ Admit(<<p>>)
      /\ pc' = "one" /\ todo' = {p} /\ requests' = {}
      /\ UNCHANGED <<entries, outcomes, authored, report>>
      /\ UNCHANGED <<pool, batch, crashed, panicked, returned, result, failed>>
  BY DEF AnalyzeSource, caller
<1>2. Range(<<p>>) = {p} /\ <<p>> \in [1 .. 1 -> Paths] /\ Len(<<p>>) = 1
  BY DEF Range
<1>3. sources' = sources \cup {p} /\ p \notin sources /\ batch = <<>>
  BY <1>1, <1>2 DEF Admit, Admissible, IInv, CallInv
<1>4. ControlOK'
  BY <1>1, <1>3 DEF IInv, ControlOK, Window
<1>5. outcomes[p] = Miss
  BY <1>3 DEF IInv, OutcomesFaithful
<1>6. BatchInv' /\ CallInv' /\ HandedInv'
  BY <1>1, <1>3, <1>5 DEF IInv, BatchInv, Pending, CallInv, HandedInv
<1> QED  BY <1>1, <1>2, <1>4, <1>6, AdmitStep

LEMMA ArgumentsFacts ==
  ASSUME NEW S, NEW args \in Arguments(S) PROVE \E n \in Nat : args \in [1 .. n -> S]
<1>1. PICK n \in 0 .. MaxArguments : args \in [1 .. n -> S]
  BY DEF Arguments
<1>2. n \in Nat
  OBVIOUS
<1> QED  BY <1>1, <1>2

LEMMA AnalyzeSourcesKeeps ==
  ASSUME IInv, NEW args \in Arguments(Paths), NEW workers \in WorkerCounts,
         AnalyzeSources(args, workers)
  PROVE  IInv'
<1> USE SessionFacts
<1>1. /\ pc = "idle" /\ Admissible(args) /\ Admit(args)
      /\ pool' = workers /\ pc' = "fill" /\ todo' = sources' /\ requests' = {}
      /\ UNCHANGED <<entries, outcomes, authored, report>>
      /\ UNCHANGED <<batch, crashed, panicked, returned, result, failed>>
  BY DEF AnalyzeSources, caller
<1>2. PICK n \in Nat : args \in [1 .. n -> Paths]
  BY ArgumentsFacts
<1>3. Len(args) = n
  BY <1>2
<1>4. sources \subseteq sources' /\ batch = <<>> /\ workers \in Nat
  BY <1>1 DEF Admit, IInv, CallInv
<1>5. ControlOK'
  BY <1>1, <1>4 DEF IInv, ControlOK, Window
<1>6. BatchInv' /\ CallInv' /\ HandedInv'
  BY <1>1, <1>4 DEF IInv, BatchInv, Pending, CallInv, HandedInv
<1> QED  BY <1>1, <1>2, <1>3, <1>5, <1>6, AdmitStep

LEMMA PoolUnavailableKeeps ==
  ASSUME IInv, NEW args \in Arguments(Paths), NEW workers \in WorkerCounts,
         PoolUnavailable(args, workers)
  PROVE  IInv'
<1> USE SessionFacts
<1>1. /\ pc = "idle" /\ Admissible(args) /\ Admit(args)
      /\ pc' = "idle" /\ result' = "failed" /\ failed' = TRUE /\ requests' = {}
      /\ UNCHANGED <<entries, outcomes, authored, report>>
      /\ UNCHANGED <<pool, todo, batch, crashed, panicked, returned>>
  BY DEF PoolUnavailable, ReturnError, executor
<1>2. PICK n \in Nat : args \in [1 .. n -> Paths]
  BY ArgumentsFacts
<1>3. Len(args) = n
  BY <1>2
<1>4. sources \subseteq sources' /\ batch = <<>>
  BY <1>1 DEF Admit, IInv, CallInv
<1>5. ControlOK'
  BY <1>1, <1>4 DEF IInv, ControlOK, Window
<1>6. BatchInv' /\ CallInv' /\ HandedInv'
  BY <1>1, <1>4 DEF IInv, BatchInv, Pending, CallInv, HandedInv
<1> QED  BY <1>1, <1>2, <1>3, <1>5, <1>6, AdmitStep

LEMMA FinishRejectedKeeps == ASSUME IInv, NEW answers, FinishRejected(answers) PROVE IInv'
<1>1. /\ pc = "idle" /\ UNCHANGED <<entries, tables, outcomes, authored, report>>
      /\ UNCHANGED <<executor, requests, returned, failed>>
      /\ pc' = "over" /\ result' = "rejected"
  BY DEF FinishRejected
<1>2. ControlOK'
  BY <1>1 DEF IInv, ControlOK, Window, tables, executor
<1>3. BatchInv' /\ CallInv' /\ HandedInv'
  BY <1>1 DEF IInv, BatchInv, Pending, CallInv, HandedInv, tables, executor
<1> QED  BY <1>1, <1>2, <1>3, ControlStep

LEMMA NewSessionKeeps == ASSUME IInv, NewSession PROVE IInv'
<1>1. /\ pc \in {"idle", "over"} /\ sources' = {} /\ sourceBytes' = 0
      /\ outcomes' = [p \in Paths |-> Miss] /\ authored' = {}
      /\ pool' = 0 /\ pc' = "idle" /\ requests' = {}
      /\ returned' = {} /\ result' = "none" /\ failed' = FALSE
      /\ report' = NoReport
      /\ UNCHANGED <<entries, todo, batch, crashed, panicked>>
  BY DEF NewSession
<1>2. todo = {} /\ batch = <<>> /\ crashed = {}
  BY <1>1 DEF IInv, CallInv
<1>3. TablesOK'
  BY <1>1 DEF TablesOK
<1>4. ControlOK'
  <2>1. batch' \in Seq(Paths) /\ Len(batch') <= Window'
    BY <1>1, <1>2, EmptySeq DEF Window
  <2> QED  BY <1>1, <1>2, <2>1 DEF IInv, ControlOK
<1>5. CacheInv'
  BY <1>1, CacheInvNext DEF IInv, CacheInv
<1>6. AdmissionBounded'
  BY <1>1, NoBytes DEF AdmissionBounded, TotalBytes
<1>7. OutcomesFaithful'
  BY <1>1 DEF OutcomesFaithful, Modules
<1>8. BatchInv' /\ CallInv' /\ HandedInv' /\ ReportInv'
  BY <1>1, <1>2 DEF BatchInv, CallInv, HandedInv, ReportInv
<1> QED  BY <1>3, <1>4, <1>5, <1>6, <1>7, <1>8 DEF IInv

LEMMA OtherSessionKeeps == ASSUME IInv, OtherSession PROVE IInv'
<1>1. PICK k \in Keys \ ParseFails : entries' = Insert(entries, k, k)
  BY DEF OtherSession
<1>2. /\ UNCHANGED <<sources, sourceBytes, outcomes, authored>>
      /\ UNCHANGED <<pool, todo, batch, crashed, panicked>>
      /\ UNCHANGED <<pc, requests, returned, result, failed, report>>
  BY DEF OtherSession, tables, executor, caller
<1>3. CacheInv'
  <2> DEFINE s == Insert(entries, k, k)
  <2>1. Honest(s) /\ CachedKeys(s) \subseteq CachedKeys(entries) \cup {k}
    BY InsertIsHonest DEF IInv, CacheInv
  <2>2. entries' = s
    BY <1>1
  <2> HIDE DEF s
  <2>3. CachedKeys(s) \cap ParseFails = {}
    BY <2>1 DEF IInv, CacheInv
  <2> QED  BY <2>1, <2>2, <2>3, CacheInvNext
<1>4. TablesOK' /\ ControlOK'
  BY <1>2 DEF IInv, TablesOK, ControlOK, Window
<1>5. AdmissionBounded' /\ OutcomesFaithful'
  BY <1>2 DEF IInv, AdmissionBounded, TotalBytes, OutcomesFaithful, Modules, Yield
<1>6. BatchInv' /\ CallInv' /\ HandedInv'
  BY <1>2 DEF IInv, BatchInv, Pending, CallInv, HandedInv
<1>7. ReportInv'
  BY <1>2 DEF IInv, ReportInv, ReportDeterministic
<1> QED  BY <1>3, <1>4, <1>5, <1>6, <1>7 DEF IInv

(* Nothing is pending, so the modules of the report are the sources that    *)
(* parse, and an accepted answer is about a registered request.             *)
LEMMA FinishKeeps ==
  ASSUME IInv, NEW answers \in Arguments(Answers), Finish(answers) PROVE IInv'
<1> USE SessionFacts
<1> DEFINE r == [modules |-> Modules, failures |-> Failures, answers |-> Range(answers),
                 ids |-> [p \in sources |-> Cardinality({q \in sources : q < p})]]
<1>1. /\ pc = "idle" /\ Pending = {} /\ Acceptable(answers) /\ report' = r
      /\ UNCHANGED <<sources, sourceBytes, entries, outcomes, authored>>
      /\ UNCHANGED <<pool, todo, batch, crashed, panicked, requests, returned, failed>>
      /\ pc' = "over" /\ result' = "ok"
  BY DEF Finish, Complete, tables, executor
<1>2. TablesOK' /\ ControlOK'
  BY <1>1 DEF IInv, TablesOK, ControlOK, Window
<1>3. AdmissionBounded' /\ OutcomesFaithful'
  BY <1>1 DEF IInv, AdmissionBounded, TotalBytes, OutcomesFaithful, Modules, Yield
<1>4. BatchInv' /\ CallInv' /\ HandedInv'
  BY <1>1 DEF IInv, BatchInv, Pending, CallInv, HandedInv
<1>5. CacheInv'
  BY <1>1, CacheInvNext DEF IInv, CacheInv
<1>6. Modules = {p \in sources : Contents[p] \notin ParseFails} /\ Failures = sources \ Modules
  <2>1. \A p \in sources : outcomes[p] = Yield(p) /\ Contents[p] \in Keys
    BY <1>1 DEF IInv, OutcomesFaithful, Pending
  <2> QED  BY <2>1 DEF Modules, Failures, Yield
<1>7. {r.ids[p] : p \in sources} = 0 .. (Cardinality(sources) - 1)
  <2>1. \A p \in sources : r.ids[p] = Cardinality({q \in sources : q < p})
    OBVIOUS
  <2> HIDE DEF r
  <2> DEFINE rank(p) == Cardinality({q \in sources : q < p})
  <2>2. {r.ids[p] : p \in sources} = {rank(p) : p \in sources}
    <3>1. \A p \in sources : r.ids[p] = rank(p)
      BY <2>1
    <3> HIDE DEF rank
    <3> QED  BY <3>1
  <2>3. sources \in SUBSET Paths
    BY DEF IInv, TablesOK
  <2>4. {Cardinality({q \in sources : q < p}) : p \in sources} = 0 .. (Cardinality(sources) - 1)
    BY <2>3, BytesFinite, RanksAreDense
  <2> QED  BY <2>2, <2>4
<1>8. ASSUME NEW a \in Range(answers)
      PROVE  /\ a.key[1] \in Modules /\ a.target \in sources \cup {External}
             /\ \A b \in Range(answers) : a.key = b.key => a = b
  <2>1. PICK n \in DOMAIN answers : a = answers[n]
    BY DEF Range
  <2>2. a \in Answers
    <3>1. PICK k \in Nat : answers \in [1 .. k -> Answers]
      BY ArgumentsFacts
    <3> HIDE DEF r
    <3> QED  BY <2>1, <3>1
  <2>3. a.key \in authored /\ a.target # Invalid /\ (a.target \in Paths => a.target \in sources)
    BY <1>1, <2>1 DEF Acceptable
  <2>4. a.target \in sources \cup {External}
    BY <2>2, <2>3 DEF Answers
  <2>5. PICK p \in Modules : a.key \in RequestsOf(p, outcomes[p])
    BY <2>3 DEF IInv, OutcomesFaithful
  <2>6. a.key[1] \in Modules
    BY <2>5 DEF RequestsOf
  <2>7. \A b \in Range(answers) : a.key = b.key => a = b
    BY <1>1, <2>1 DEF Acceptable, Range
  <2> QED  BY <2>4, <2>6, <2>7
<1>9. /\ r.modules = Modules /\ r.failures = Failures /\ r.answers = Range(answers)
  OBVIOUS
<1> HIDE DEF r
<1>10. ReportDeterministic'
  BY <1>1, <1>6, <1>7, <1>8, <1>9 DEF ReportDeterministic
<1> QED  BY <1>1, <1>2, <1>3, <1>4, <1>5, <1>10 DEF IInv, ReportInv

----------------------------------------------------------------------------
(* The thread inside a call.                                               *)

LEMMA OneHitKeeps == ASSUME IInv, NEW p \in Paths, OneHit(p) PROVE IInv'
<1> USE SessionFacts
<1>1. /\ pc = "one" /\ p \in todo /\ Cached(p) # Miss /\ RecordHit(p) /\ todo' = {}
      /\ pc' = "idle" /\ result' = "ok" /\ returned' = returned \cup requests'
      /\ UNCHANGED <<entries, tables, report, failed, pool, batch, crashed, panicked>>
  BY DEF OneHit, ReturnOk
<1>2. p \in Pending /\ Recorded(p)
  BY <1>1, HitRecords DEF IInv, CallInv
<1>3. sources' = sources
  BY <1>1 DEF tables
<1>4. /\ authored \subseteq authored' /\ requests' \subseteq authored'
      /\ (authored = returned \cup requests => authored' = returned \cup requests')
  BY <1>2, <1>3, RecordFacts
<1>5. batch = <<>>
  BY <1>1 DEF IInv, CallInv
<1>6. ControlOK'
  BY <1>1, <1>3, <1>4 DEF IInv, ControlOK, Window
<1>7. BatchInv' /\ CallInv' /\ HandedInv'
  BY <1>1, <1>4, <1>5 DEF IInv, BatchInv, CallInv, HandedInv
<1>8. CacheInv'
  BY <1>1, CacheInvNext DEF IInv, CacheInv
<1> QED  BY <1>1, <1>2, <1>6, <1>7, <1>8, RecordStep

LEMMA OneMissKeeps == ASSUME IInv, NEW p \in Paths, OneMiss(p) PROVE IInv'
<1>1. /\ pc = "one" /\ pc' = "analyze"
      /\ UNCHANGED <<entries, tables, outcomes, authored, report>>
      /\ UNCHANGED <<executor, requests, returned, result, failed>>
  BY DEF OneMiss, caller
<1>2. ControlOK'
  BY <1>1 DEF IInv, ControlOK, Window, tables, executor
<1>3. BatchInv' /\ CallInv' /\ HandedInv'
  BY <1>1 DEF IInv, BatchInv, Pending, CallInv, HandedInv, tables, executor
<1> QED  BY <1>1, <1>2, <1>3, ControlStep

LEMMA OneAnalyzedKeeps == ASSUME IInv, NEW p \in Paths, OneAnalyzed(p) PROVE IInv'
<1> USE SessionFacts
<1>1. /\ pc = "analyze" /\ p \in todo /\ CompleteJob(p) /\ todo' = {}
      /\ pc' = "idle" /\ result' = "ok" /\ returned' = returned \cup requests'
      /\ UNCHANGED <<tables, report, failed, pool, batch, crashed, panicked>>
  BY DEF OneAnalyzed, ReturnOk
<1>2. p \in Pending /\ Recorded(p) /\ CacheInv'
  BY <1>1, CompletionRecords DEF IInv, CallInv
<1>3. sources' = sources
  BY <1>1 DEF tables
<1>4. /\ authored \subseteq authored' /\ requests' \subseteq authored'
      /\ (authored = returned \cup requests => authored' = returned \cup requests')
  BY <1>2, <1>3, RecordFacts
<1>5. batch = <<>>
  BY <1>1 DEF IInv, CallInv
<1>6. ControlOK'
  BY <1>1, <1>3, <1>4 DEF IInv, ControlOK, Window
<1>7. BatchInv' /\ CallInv' /\ HandedInv'
  BY <1>1, <1>4, <1>5 DEF IInv, BatchInv, CallInv, HandedInv
<1> QED  BY <1>1, <1>2, <1>6, <1>7, RecordStep

LEMMA OnePanicsKeeps == ASSUME IInv, NEW p \in Paths, OnePanics(p) PROVE IInv'
<1>1. /\ pc = "analyze" /\ pc' = "idle" /\ todo' = {} /\ result' = "failed" /\ failed' = TRUE
      /\ UNCHANGED <<entries, tables, outcomes, authored, report>>
      /\ UNCHANGED <<pool, batch, crashed, panicked, requests, returned>>
  BY DEF OnePanics, ReturnError
<1>2. ControlOK'
  BY <1>1 DEF IInv, ControlOK, Window, tables
<1>3. batch = <<>>
  BY <1>1 DEF IInv, CallInv
<1>4. BatchInv' /\ CallInv' /\ HandedInv'
  BY <1>1, <1>3 DEF IInv, BatchInv, Pending, CallInv, HandedInv, tables
<1> QED  BY <1>1, <1>2, <1>4, ControlStep

LEMMA SkipKeeps == ASSUME IInv, NEW p \in Paths, Skip(p) PROVE IInv'
<1> USE SessionFacts
<1>1. /\ pc = "fill" /\ p \in todo /\ todo' = todo \ {p}
      /\ UNCHANGED <<entries, tables, outcomes, authored, report>>
      /\ UNCHANGED <<pool, batch, crashed, panicked, pc, requests, returned, result, failed>>
  BY DEF Skip, Candidate, caller
<1>2. ControlOK'
  BY <1>1 DEF IInv, ControlOK, Window, tables
<1>3. BatchInv' /\ CallInv' /\ HandedInv'
  BY <1>1 DEF IInv, BatchInv, Pending, CallInv, HandedInv, tables
<1> QED  BY <1>1, <1>2, <1>3, ControlStep

LEMMA TakeHitKeeps == ASSUME IInv, NEW p \in Paths, TakeHit(p) PROVE IInv'
<1> USE SessionFacts
<1>1. /\ pc = "fill" /\ p \in todo /\ todo' = todo \ {p}
      /\ outcomes[p] = Miss /\ Cached(p) # Miss /\ RecordHit(p)
      /\ UNCHANGED <<entries, tables, report>>
      /\ UNCHANGED <<pool, batch, crashed, panicked, pc, returned, result, failed>>
  BY DEF TakeHit, Candidate, NeedsAnalysis, caller
<1>2. p \in Pending /\ Recorded(p)
  BY <1>1, HitRecords DEF IInv, Pending
<1>3. sources' = sources
  BY <1>1 DEF tables
<1>4. /\ authored \subseteq authored' /\ requests' \subseteq authored' /\ Pending' = Pending \ {p}
      /\ (authored = returned \cup requests => authored' = returned \cup requests')
  BY <1>2, <1>3, RecordFacts
<1>5. ControlOK'
  BY <1>1, <1>3, <1>4 DEF IInv, ControlOK, Window
<1>6. BatchInv'
  BY <1>1, <1>4 DEF IInv, BatchInv
<1>7. CallInv' /\ HandedInv'
  BY <1>1, <1>4 DEF IInv, CallInv, HandedInv
<1>8. CacheInv'
  BY <1>1, CacheInvNext DEF IInv, CacheInv
<1> QED  BY <1>1, <1>2, <1>5, <1>6, <1>7, <1>8, RecordStep

LEMMA TakeJobKeeps == ASSUME IInv, NEW p \in Paths, TakeJob(p) PROVE IInv'
<1> USE SessionFacts
<1>1. /\ pc = "fill" /\ p \in todo /\ todo' = todo \ {p} /\ Len(batch) < Window
      /\ outcomes[p] = Miss /\ batch' = Append(batch, p)
      /\ UNCHANGED <<entries, tables, outcomes, authored, report>>
      /\ UNCHANGED <<pool, crashed, panicked, pc, requests, returned, result, failed>>
  BY DEF TakeJob, Candidate, NeedsAnalysis, caller
<1>2. /\ batch' \in Seq(Paths) /\ Len(batch') = Len(batch) + 1
      /\ batch'[Len(batch) + 1] = p /\ \A n \in 1 .. Len(batch) : batch'[n] = batch[n]
  BY <1>1, AppendProperties
<1>3. ControlOK'
  <2>1. Window \in Nat /\ Window' = Window
    BY <1>1 DEF Window
  <2>2. Len(batch') <= Window'
    BY <1>1, <1>2, <2>1
  <2> QED  BY <1>1, <1>2, <2>2 DEF IInv, ControlOK, tables
<1>4. p \in Pending /\ Pending' = Pending
  BY <1>1 DEF Pending, tables
<1>5. \A n \in 1 .. Len(batch') : n \in 1 .. Len(batch) \/ n = Len(batch) + 1
  BY <1>2
<1>6. \A n \in 1 .. Len(batch) : batch[n] \in Pending \ todo
  BY DEF IInv, BatchInv
<1>7. BatchInv'
  <2>1. \A n \in 1 .. Len(batch') : batch'[n] \in Pending' \ todo'
    BY <1>1, <1>2, <1>4, <1>5, <1>6
  <2>2. \A n \in 1 .. Len(batch) : batch[n] # p
    BY <1>1, <1>6
  <2>3. \A m, n \in 1 .. Len(batch') : batch'[m] = batch'[n] => m = n
    BY <1>2, <1>5, <2>2 DEF IInv, BatchInv
  <2> QED  BY <2>1, <2>3 DEF BatchInv
<1>8. CallInv' /\ HandedInv'
  BY <1>1 DEF IInv, CallInv, HandedInv
<1> QED  BY <1>1, <1>3, <1>7, <1>8, ControlStep

LEMMA RunBatchKeeps == ASSUME IInv, RunBatch PROVE IInv'
<1> USE SessionFacts
<1>1. /\ pc = "fill" /\ pc' = "merge" /\ crashed' \in SUBSET Range(batch) /\ panicked' = FALSE
      /\ UNCHANGED <<entries, tables, outcomes, authored, report>>
      /\ UNCHANGED <<pool, todo, batch, requests, returned, result, failed>>
  BY DEF RunBatch, caller
<1>2. Range(batch) \subseteq sources
  <2>1. \A n \in 1 .. Len(batch) : batch[n] \in sources
    BY DEF IInv, BatchInv
  <2>2. DOMAIN batch = 1 .. Len(batch)
    BY LenProperties
  <2> QED  BY <2>1, <2>2 DEF Range
<1>3. ControlOK'
  BY <1>1, <1>2 DEF IInv, ControlOK, Window, tables
<1>4. BatchInv' /\ CallInv' /\ HandedInv'
  BY <1>1 DEF IInv, BatchInv, Pending, CallInv, HandedInv, tables
<1> QED  BY <1>1, <1>3, <1>4, ControlStep

(* The first job of a batch is pending and no later one is the same source. *)
LEMMA HeadFacts ==
  ASSUME IInv, batch # <<>>
  PROVE  /\ Head(batch) \in Pending /\ Head(batch) \notin todo
         /\ Tail(batch) \in Seq(Paths) /\ Len(Tail(batch)) = Len(batch) - 1
         /\ \A n \in 1 .. Len(Tail(batch)) : /\ Tail(batch)[n] \in Pending \ todo
                                             /\ Tail(batch)[n] # Head(batch)
         /\ \A m, n \in 1 .. Len(Tail(batch)) : Tail(batch)[m] = Tail(batch)[n] => m = n
<1> USE SessionFacts
<1> DEFINE h == Head(batch)
           t == Tail(batch)
<1>1. /\ h = batch[1] /\ t \in Seq(Paths) /\ Len(t) = Len(batch) - 1 /\ Len(batch) > 0
      /\ \A n \in 1 .. Len(t) : t[n] = batch[n + 1]
  BY HeadTailProperties, EmptySeq
<1> HIDE DEF h, t
<1>2. \A n \in 1 .. Len(t) : n + 1 \in 1 .. Len(batch) /\ n + 1 # 1
  BY <1>1
<1>3. /\ \A n \in 1 .. Len(batch) : batch[n] \in Pending \ todo
      /\ \A m, n \in 1 .. Len(batch) : batch[m] = batch[n] => m = n
  BY DEF IInv, BatchInv
<1>4. 1 \in 1 .. Len(batch)
  BY <1>1
<1>5. \A n \in 1 .. Len(t) : t[n] \in Pending \ todo /\ t[n] # h
  BY <1>1, <1>2, <1>3, <1>4
<1>6. ASSUME NEW m \in 1 .. Len(t), NEW n \in 1 .. Len(t), t[m] = t[n] PROVE m = n
  <2>1. batch[m + 1] = batch[n + 1]
    BY <1>1, <1>6
  <2>2. m + 1 = n + 1
    BY <1>2, <1>3, <2>1
  <2> QED  BY <2>2
<1>7. h \in Pending /\ h \notin todo
  BY <1>1, <1>3, <1>4
<1> QED  BY <1>1, <1>5, <1>6, <1>7 DEF h, t

LEMMA ReleaseKeeps == ASSUME IInv, Release PROVE IInv'
<1> USE SessionFacts
<1> DEFINE p == Head(batch)
<1>1. /\ pc = "merge" /\ batch # <<>> /\ CompleteJob(p) /\ batch' = Tail(batch)
      /\ UNCHANGED <<tables, report>>
      /\ UNCHANGED <<pool, todo, crashed, panicked, pc, returned, result, failed>>
  BY DEF Release, caller
<1>2. p \in Pending /\ p \in Paths
  BY <1>1, HeadFacts
<1>3. /\ batch' \in Seq(Paths) /\ Len(batch') <= Len(batch)
      /\ \A n \in 1 .. Len(batch') : batch'[n] \in Pending \ todo /\ batch'[n] # p
      /\ \A m, n \in 1 .. Len(batch') : batch'[m] = batch'[n] => m = n
  <2>1. /\ Tail(batch) \in Seq(Paths) /\ Len(Tail(batch)) = Len(batch) - 1 /\ Len(batch) \in Nat
        /\ \A n \in 1 .. Len(Tail(batch)) : /\ Tail(batch)[n] \in Pending \ todo
                                            /\ Tail(batch)[n] # p
        /\ \A m, n \in 1 .. Len(Tail(batch)) : Tail(batch)[m] = Tail(batch)[n] => m = n
    BY <1>1, HeadFacts, LenProperties DEF IInv, ControlOK
  <2>2. batch' = Tail(batch)
    BY <1>1
  <2> HIDE DEF p
  <2> QED  BY <2>1, <2>2
<1> HIDE DEF p
<1>4. Recorded(p) /\ CacheInv'
  BY <1>1, <1>2, CompletionRecords DEF IInv
<1>5. sources' = sources
  BY <1>1 DEF tables
<1>6. /\ authored \subseteq authored' /\ requests' \subseteq authored' /\ Pending' = Pending \ {p}
      /\ (authored = returned \cup requests => authored' = returned \cup requests')
  BY <1>2, <1>4, <1>5, RecordFacts
<1>7. ControlOK'
  <2>1. Len(batch') <= Window'
    <3>1. Window \in Nat /\ Window' = Window /\ Len(batch) <= Window /\ Len(batch') \in Nat
      BY <1>1, <1>3, LenProperties DEF IInv, ControlOK, Window
    <3> QED  BY <1>3, <3>1
  <2> QED  BY <1>1, <1>3, <1>5, <1>6, <2>1 DEF IInv, ControlOK
<1>8. BatchInv'
  BY <1>1, <1>3, <1>6 DEF BatchInv
<1>9. CallInv' /\ HandedInv'
  BY <1>1, <1>6 DEF IInv, CallInv, HandedInv
<1> QED  BY <1>1, <1>2, <1>4, <1>7, <1>8, <1>9, RecordStep

LEMMA DiscardKeeps == ASSUME IInv, Discard PROVE IInv'
<1> USE SessionFacts
<1>1. /\ pc = "merge" /\ batch # <<>> /\ batch' = Tail(batch) /\ panicked' = TRUE
      /\ UNCHANGED <<entries, tables, outcomes, authored, report>>
      /\ UNCHANGED <<pool, todo, crashed, pc, requests, returned, result, failed>>
  BY DEF Discard, caller
<1>2. /\ batch' \in Seq(Paths) /\ Len(batch') <= Len(batch)
      /\ \A n \in 1 .. Len(batch') : batch'[n] \in Pending \ todo
      /\ \A m, n \in 1 .. Len(batch') : batch'[m] = batch'[n] => m = n
  BY <1>1, HeadFacts
<1>3. ControlOK'
  <2>1. Len(batch') <= Window'
    <3>1. Window \in Nat /\ Window' = Window /\ Len(batch) <= Window /\ Len(batch') \in Nat
      BY <1>1, <1>2, LenProperties DEF IInv, ControlOK, Window
    <3> QED  BY <1>2, <3>1
  <2> QED  BY <1>1, <1>2, <2>1 DEF IInv, ControlOK, tables
<1>4. Pending' = Pending
  BY <1>1 DEF Pending, tables
<1>5. BatchInv'
  BY <1>1, <1>2, <1>4 DEF BatchInv
<1>6. CallInv' /\ HandedInv'
  BY <1>1 DEF IInv, CallInv, HandedInv
<1> QED  BY <1>1, <1>3, <1>5, <1>6, ControlStep

LEMMA NextBatchKeeps == ASSUME IInv, NextBatch PROVE IInv'
<1>1. /\ pc = "merge" /\ pc' = "fill" /\ crashed' = {}
      /\ UNCHANGED <<entries, tables, outcomes, authored, report>>
      /\ UNCHANGED <<pool, todo, batch, panicked, requests, returned, result, failed>>
  BY DEF NextBatch, caller
<1>2. ControlOK'
  BY <1>1 DEF IInv, ControlOK, Window, tables
<1>3. BatchInv' /\ CallInv' /\ HandedInv'
  BY <1>1 DEF IInv, BatchInv, Pending, CallInv, HandedInv, tables
<1> QED  BY <1>1, <1>2, <1>3, ControlStep

LEMMA BatchPanickedKeeps == ASSUME IInv, BatchPanicked PROVE IInv'
<1>1. /\ pc = "merge" /\ batch = <<>> /\ pc' = "idle" /\ result' = "failed" /\ failed' = TRUE
      /\ todo' = {} /\ crashed' = {} /\ panicked' = FALSE
      /\ UNCHANGED <<entries, tables, outcomes, authored, report>>
      /\ UNCHANGED <<pool, batch, requests, returned>>
  BY DEF BatchPanicked, ReturnError
<1>2. ControlOK'
  BY <1>1 DEF IInv, ControlOK, Window, tables
<1>3. BatchInv' /\ CallInv' /\ HandedInv'
  BY <1>1 DEF IInv, BatchInv, Pending, CallInv, HandedInv, tables
<1> QED  BY <1>1, <1>2, <1>3, ControlStep

LEMMA AllAnalyzedKeeps == ASSUME IInv, AllAnalyzed PROVE IInv'
<1>1. /\ pc = "fill" /\ todo = {} /\ batch = <<>> /\ pc' = "idle" /\ result' = "ok"
      /\ returned' = returned \cup requests
      /\ UNCHANGED <<entries, tables, outcomes, authored, report>>
      /\ UNCHANGED <<pool, todo, batch, crashed, panicked, requests, failed>>
  BY DEF AllAnalyzed, ReturnOk, executor
<1>2. ControlOK'
  BY <1>1 DEF IInv, ControlOK, Window, tables
<1>3. BatchInv' /\ CallInv' /\ HandedInv'
  BY <1>1 DEF IInv, BatchInv, Pending, CallInv, HandedInv, tables
<1> QED  BY <1>1, <1>2, <1>3, ControlStep

----------------------------------------------------------------------------
(* The invariant.                                                          *)

LEMMA InitEstablishes == Init => IInv
<1> SUFFICES ASSUME Init PROVE IInv
  OBVIOUS
<1>1. /\ entries = <<>> /\ sources = {} /\ sourceBytes = 0
      /\ outcomes = [p \in Paths |-> Miss] /\ authored = {}
      /\ pool = 0 /\ pc = "idle" /\ todo = {} /\ batch = <<>> /\ crashed = {} /\ panicked = FALSE
      /\ requests = {} /\ returned = {} /\ result = "none" /\ failed = FALSE
      /\ report = NoReport
  BY DEF Init
<1>2. TablesOK
  BY <1>1 DEF TablesOK
<1>3. ControlOK
  <2>1. batch \in Seq(Paths) /\ Len(batch) = 0
    BY <1>1, EmptySeq
  <2>2. Window = 0
    BY <1>1 DEF Window
  <2>3. Len(batch) <= Window
    BY <2>1, <2>2
  <2> QED  BY <1>1, <2>1, <2>3 DEF ControlOK
<1>4. CacheInv
  BY <1>1 DEF CacheInv, Honest, Sound, CachedKeys
<1>5. AdmissionBounded
  BY <1>1, NoBytes DEF AdmissionBounded
<1>6. OutcomesFaithful
  BY <1>1 DEF OutcomesFaithful, Modules
<1>7. BatchInv /\ CallInv /\ HandedInv /\ ReportInv
  BY <1>1 DEF BatchInv, CallInv, HandedInv, ReportInv
<1> QED  BY <1>2, <1>3, <1>4, <1>5, <1>6, <1>7 DEF IInv

LEMMA StutterKeeps == ASSUME IInv, UNCHANGED vars PROVE IInv'
<1>1. /\ UNCHANGED <<entries, sources, sourceBytes, outcomes, authored>>
      /\ UNCHANGED <<pool, todo, batch, crashed, panicked>>
      /\ UNCHANGED <<pc, requests, returned, result, failed, report>>
  BY DEF vars, tables, executor, caller
<1>2. TablesOK' /\ ControlOK'
  BY <1>1 DEF IInv, TablesOK, ControlOK, Window
<1>3. AdmissionBounded' /\ OutcomesFaithful'
  BY <1>1 DEF IInv, AdmissionBounded, TotalBytes, OutcomesFaithful, Modules, Yield
<1>4. BatchInv' /\ CallInv' /\ HandedInv'
  BY <1>1 DEF IInv, BatchInv, Pending, CallInv, HandedInv
<1>5. ReportInv' /\ CacheInv'
  BY <1>1, CacheInvNext DEF IInv, ReportInv, ReportDeterministic, CacheInv
<1> QED  BY <1>2, <1>3, <1>4, <1>5 DEF IInv

LEMMA NextKeeps == IInv /\ [Next]_vars => IInv'
<1> SUFFICES ASSUME IInv, [Next]_vars PROVE IInv'
  OBVIOUS
<1>1. CASE Client
  BY <1>1, RejectKeeps, AnalyzeSourceKeeps, AnalyzeSourcesKeeps, PoolUnavailableKeeps,
     FinishKeeps, FinishRejectedKeeps, NewSessionKeeps DEF Client
<1>2. CASE Working
  BY <1>2, OneHitKeeps, OneMissKeeps, OneAnalyzedKeeps, OnePanicsKeeps, SkipKeeps,
     TakeHitKeeps, TakeJobKeeps, RunBatchKeeps, ReleaseKeeps, DiscardKeeps, NextBatchKeeps,
     BatchPanickedKeeps, AllAnalyzedKeeps DEF Working
<1>3. CASE OtherSession
  BY <1>3, OtherSessionKeeps
<1>4. CASE UNCHANGED vars
  BY <1>4, StutterKeeps
<1> QED  BY <1>1, <1>2, <1>3, <1>4 DEF Next

(* The invariant holds in every session, with every other session.          *)
THEOREM SessionInvariant == Spec => []IInv
<1>1. Init => IInv
  BY InitEstablishes
<1>2. IInv /\ [Next]_vars => IInv'
  BY NextKeeps
<1> QED  BY <1>1, <1>2, PTL DEF Spec

(* The tables hold what their types in project/session say, a batch holds    *)
(* pending sources only and no more jobs than its window.                   *)
THEOREM SessionTypeCorrect == Spec => []TypeOK
<1>1. IInv => TypeOK
  BY TypesFollow
<1> QED  BY <1>1, SessionInvariant, PTL

(* However sources arrive, the limits of the session hold and its byte      *)
(* count is exact (SourceTable::admit_all).                                 *)
THEOREM SessionAdmissionBounded == Spec => []AdmissionBounded
<1>1. IInv => AdmissionBounded
  BY DEF IInv
<1> QED  BY <1>1, SessionInvariant, PTL

(* No outcome is another source's, whatever the cache and the other jobs do  *)
(* (LocalAnalysisTransition).                                               *)
THEOREM SessionOutcomesFaithful == Spec => []OutcomesFaithful
<1>1. IInv => OutcomesFaithful
  BY DEF IInv
<1> QED  BY <1>1, SessionInvariant, PTL

(* A caller whose calls succeed has been handed every authored request.     *)
THEOREM SessionHandsOver == Spec => []RequestsHandedOver
<1>1. IInv => RequestsHandedOver
  BY DEF IInv, HandedInv, RequestsHandedOver
<1> QED  BY <1>1, SessionInvariant, PTL

(* In a batched call every pending source is a candidate or a job, unless a  *)
(* panicked job was merged, which makes the call fail.                      *)
Accounted == Pending \subseteq todo \cup Range(batch)
AccountInv ==
  /\ pc = "fill" => Accounted
  /\ pc = "merge" /\ ~panicked => Accounted

LEMMA RangeAppends ==
  ASSUME NEW S, NEW s \in Seq(S), NEW e \in S
  PROVE  Range(Append(s, e)) = Range(s) \cup {e}
<1>1. /\ Append(s, e) \in Seq(S) /\ Len(Append(s, e)) = Len(s) + 1
      /\ \A n \in 1 .. Len(s) : Append(s, e)[n] = s[n]
      /\ Append(s, e)[Len(s) + 1] = e
  BY AppendProperties
<1>2. /\ DOMAIN s = 1 .. Len(s) /\ Len(s) \in Nat
      /\ DOMAIN Append(s, e) = 1 .. (Len(s) + 1)
  BY <1>1, LenProperties
<1>3. 1 .. (Len(s) + 1) = (1 .. Len(s)) \cup {Len(s) + 1}
  BY <1>2
<1> QED  BY <1>1, <1>2, <1>3 DEF Range

LEMMA RangeOfTail ==
  ASSUME NEW S, NEW s \in Seq(S), s # <<>>
  PROVE  Range(s) = {Head(s)} \cup Range(Tail(s))
<1>1. /\ Head(s) = s[1] /\ Tail(s) \in Seq(S) /\ Len(Tail(s)) = Len(s) - 1
      /\ \A n \in 1 .. Len(Tail(s)) : Tail(s)[n] = s[n + 1]
  BY HeadTailProperties
<1>2. /\ DOMAIN s = 1 .. Len(s) /\ Len(s) \in Nat /\ Len(s) > 0
      /\ DOMAIN Tail(s) = 1 .. (Len(s) - 1)
  BY <1>1, LenProperties, EmptySeq
<1>3. Range(s) \subseteq {Head(s)} \cup Range(Tail(s))
  <2> SUFFICES ASSUME NEW n \in 1 .. Len(s) PROVE s[n] \in {Head(s)} \cup Range(Tail(s))
    BY <1>2 DEF Range
  <2>1. CASE n = 1
    BY <1>1, <2>1
  <2>2. CASE n # 1
    <3>1. n - 1 \in 1 .. (Len(s) - 1) /\ (n - 1) + 1 = n
      BY <1>2, <2>2
    <3>2. Tail(s)[n - 1] = s[n]
      BY <1>1, <3>1
    <3> QED  BY <1>2, <3>1, <3>2 DEF Range
  <2> QED  BY <2>1, <2>2
<1>4. {Head(s)} \cup Range(Tail(s)) \subseteq Range(s)
  <2>1. \A n \in 1 .. (Len(s) - 1) : n + 1 \in 1 .. Len(s)
    BY <1>2
  <2>2. 1 \in 1 .. Len(s)
    BY <1>2
  <2> QED  BY <1>1, <1>2, <2>1, <2>2 DEF Range
<1> QED  BY <1>3, <1>4

(* A job that completes is no longer pending.                               *)
LEMMA CompletedIsRecorded ==
  ASSUME IInv, NEW p \in Pending, Recorded(p), sources' = sources
  PROVE  Pending' = Pending \ {p}
BY RecordFacts

LEMMA AccountKept == IInv /\ AccountInv /\ [Next]_vars => AccountInv'
<1> SUFFICES ASSUME IInv, AccountInv, [Next]_vars PROVE AccountInv'
  OBVIOUS
<1> USE SessionFacts
<1>1. CASE Client
  <2>1. ASSUME NEW args \in Arguments(Paths), NEW workers \in WorkerCounts,
               AnalyzeSources(args, workers)
        PROVE  AccountInv'
    BY <2>1 DEF AnalyzeSources, AccountInv, Accounted, Pending
  <2>2. ASSUME ~\E args \in Arguments(Paths), workers \in WorkerCounts :
                   AnalyzeSources(args, workers)
        PROVE  AccountInv'
    <3>1. pc' \notin {"fill", "merge"}
      BY <1>1, <2>2 DEF Client, Reject, AnalyzeSource, PoolUnavailable, ReturnError, Finish,
         FinishRejected, NewSession
    <3> QED  BY <3>1 DEF AccountInv
  <2> QED  BY <2>1, <2>2
<1>2. CASE \E p \in Paths : OneHit(p) \/ OneMiss(p) \/ OneAnalyzed(p) \/ OnePanics(p)
  <2>1. pc' \notin {"fill", "merge"}
    BY <1>2 DEF OneHit, OneMiss, OneAnalyzed, OnePanics, ReturnOk, ReturnError
  <2> QED  BY <2>1 DEF AccountInv
<1>3. ASSUME NEW p \in Paths, Skip(p) PROVE AccountInv'
  BY <1>3 DEF Skip, Candidate, NeedsAnalysis, AccountInv, Accounted, Pending, tables
<1>4. ASSUME NEW p \in Paths, TakeHit(p) PROVE AccountInv'
  <2>1. /\ pc = "fill" /\ pc' = pc /\ p \in todo /\ todo' = todo \ {p} /\ batch' = batch
        /\ outcomes[p] = Miss /\ Cached(p) # Miss /\ RecordHit(p) /\ sources' = sources
    BY <1>4 DEF TakeHit, Candidate, NeedsAnalysis, tables
  <2>2. p \in Pending /\ Recorded(p)
    BY <2>1, HitRecords DEF IInv, Pending
  <2>3. Pending' = Pending \ {p}
    BY <2>1, <2>2, CompletedIsRecorded
  <2> QED  BY <2>1, <2>3 DEF AccountInv, Accounted
<1>5. ASSUME NEW p \in Paths, TakeJob(p) PROVE AccountInv'
  <2>1. /\ pc = "fill" /\ pc' = pc /\ todo' = todo \ {p} /\ batch' = Append(batch, p)
        /\ Pending' = Pending
    BY <1>5 DEF TakeJob, Candidate, Pending, tables
  <2>2. Range(batch') = Range(batch) \cup {p}
    BY <2>1, RangeAppends
  <2> QED  BY <2>1, <2>2 DEF AccountInv, Accounted
<1>6. CASE RunBatch
  BY <1>6 DEF RunBatch, AccountInv, Accounted, Pending, tables
<1>7. CASE Release
  <2> DEFINE p == Head(batch)
  <2>1. /\ pc = "merge" /\ batch # <<>> /\ CompleteJob(p) /\ batch' = Tail(batch)
        /\ todo' = todo /\ pc' = pc /\ panicked' = panicked /\ sources' = sources
    BY <1>7 DEF Release, tables
  <2>2. p \in Pending /\ p \in Paths
    BY <2>1, HeadFacts
  <2>3. Range(batch) = {p} \cup Range(batch')
    BY <2>1, RangeOfTail
  <2> HIDE DEF p
  <2>4. Recorded(p)
    BY <2>1, <2>2, CompletionRecords DEF IInv
  <2>5. Pending' = Pending \ {p}
    BY <2>1, <2>2, <2>4, CompletedIsRecorded
  <2> QED  BY <2>1, <2>3, <2>5 DEF AccountInv, Accounted
<1>8. CASE Discard
  BY <1>8 DEF Discard, AccountInv
<1>9. CASE NextBatch
  BY <1>9 DEF NextBatch, AccountInv, Accounted, Pending, tables
<1>10. CASE BatchPanicked \/ AllAnalyzed
  BY <1>10 DEF BatchPanicked, AllAnalyzed, ReturnOk, ReturnError, AccountInv
<1>11. CASE OtherSession \/ UNCHANGED vars
  BY <1>11 DEF OtherSession, vars, executor, tables, AccountInv, Accounted, Pending
<1> QED
  BY <1>1, <1>2, <1>3, <1>4, <1>5, <1>6, <1>7, <1>8, <1>9, <1>10, <1>11 DEF Next, Working

(* A batched call ends well only when no candidate and no job is left.      *)
LEMMA OkLeavesNothing ==
  ASSUME IInv, AccountInv, [Next]_vars, pc \in {"fill", "merge"}, pc' = "idle", result' = "ok"
  PROVE  Pending' = {}
<1>1. CASE AllAnalyzed
  <2>1. /\ pc = "fill" /\ todo = {} /\ Range(batch) = {} /\ Pending' = Pending
    BY <1>1 DEF AllAnalyzed, tables, Pending, Range
  <2> QED  BY <2>1 DEF AccountInv, Accounted
<1>2. CASE ~AllAnalyzed
  <2>1. ~Client
    BY DEF Client, Reject, AnalyzeSource, AnalyzeSources, PoolUnavailable, Finish,
       FinishRejected, NewSession
  <2>2. ~\E p \in Paths : OneHit(p) \/ OneMiss(p) \/ OneAnalyzed(p) \/ OnePanics(p)
    BY DEF OneHit, OneMiss, OneAnalyzed, OnePanics
  <2>3. ~\E p \in Paths : Skip(p) \/ TakeHit(p) \/ TakeJob(p)
    BY DEF Skip, TakeHit, TakeJob
  <2>4. ~(RunBatch \/ Release \/ Discard \/ NextBatch \/ BatchPanicked)
    BY DEF RunBatch, Release, Discard, NextBatch, BatchPanicked, ReturnError
  <2>5. ~OtherSession /\ ~UNCHANGED vars
    BY DEF OtherSession, vars
  <2> QED  BY <1>2, <2>1, <2>2, <2>3, <2>4, <2>5 DEF Next, Working
<1> QED  BY <1>1, <1>2

(* A batched call that succeeds has picked up every source that was left     *)
(* without an outcome (AnalysisArtifacts, pending candidates of a call).    *)
THEOREM SessionPicksUpRest == Spec => RestIsPickedUp
<1>1. Init => AccountInv
  BY DEF Init, AccountInv
<1>2. IInv /\ AccountInv /\ [Next]_vars => AccountInv'
  BY AccountKept
<1>3. IInv /\ AccountInv /\ [Next]_vars
        => [(pc \in {"fill", "merge"} /\ pc' = "idle" /\ result' = "ok") => Pending' = {}]_vars
  BY OkLeavesNothing
<1> QED  BY <1>1, <1>2, <1>3, SessionInvariant, PTL DEF Spec, RestIsPickedUp

(* A report is a function of the sources and the answers (finish).          *)
THEOREM SessionReportDeterministic == Spec => []ReportDeterministic
<1>1. IInv => ReportDeterministic
  BY DEF IInv, ReportInv, ReportDeterministic
<1> QED  BY <1>1, SessionInvariant, PTL
=============================================================================
