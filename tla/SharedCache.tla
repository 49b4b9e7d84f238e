---------------------------- MODULE SharedCache ----------------------------
(***************************************************************************)
(* Threads that analyze sources through one shared artifact cache: the     *)
(* jobs of a batch and the sessions of cloned linters all hold the same    *)
(* ArtifactCacheHandle (LocalAnalysisTransition::analyze_requested in      *)
(* project/session/mod.rs over analysis/local.rs).  The lock is held for   *)
(* the lookup and for the insertion, never for the analysis in between.    *)
(***************************************************************************)
EXTENDS ArtifactCache

CONSTANTS Threads,
          Paths,        \* project-relative paths of the sources
          Contents,     \* path -> cache key of its source
          ParseFails,   \* the keys whose source does not parse
          MayPoison     \* whether a thread may panic while it holds the lock

ASSUME SharedAssumption ==
  /\ Miss \notin Paths
  /\ Contents \in [Paths -> Keys]
  /\ ParseFails \subseteq Keys
  /\ MayPoison \in BOOLEAN

VARIABLES entries,   \* the deque behind the mutex
          poisoned,  \* the mutex was poisoned
          pc,        \* where each thread is in analyze_requested
          path,      \* the source each thread works on
          outcome    \* what a thread recorded for its source

vars == <<entries, poisoned, pc, path, outcome>>

(* A LocalArtifact: the shared semantic part attached to a source path. *)
Located(p, a) == [path |-> p, artifact |-> a]
ParseFailed(p) == [path |-> p, artifact |-> Miss]
NoOutcome      == [path |-> Miss, artifact |-> Miss]

TypeOK ==
  /\ entries \in Seq(Entry)
  /\ poisoned \in BOOLEAN
  /\ pc \in [Threads -> {"idle", "lookup", "analyze", "insert", "done"}]
  /\ path \in [Threads -> Paths \cup {Miss}]
  /\ \A t \in Threads : pc[t] # "idle" => path[t] \in Paths
  /\ outcome \in [Threads -> [path : Paths \cup {Miss}, artifact : Keys \cup {Miss}]]
  /\ \A t \in Threads : pc[t] = "done" <=> outcome[t].path # Miss

Init ==
  /\ entries = <<>>
  /\ poisoned = FALSE
  /\ pc = [t \in Threads |-> "idle"]
  /\ path = [t \in Threads |-> Miss]
  /\ outcome = [t \in Threads |-> NoOutcome]

KeyOf(t) == Contents[path[t]]

(* A new session admits a source and looks its key up. *)
Begin(t) ==
  /\ pc[t] \in {"idle", "done"}
  /\ \E p \in Paths : path' = [path EXCEPT ![t] = p]
  /\ outcome' = [outcome EXCEPT ![t] = NoOutcome]
  /\ pc' = [pc EXCEPT ![t] = "lookup"]
  /\ UNCHANGED <<entries, poisoned>>

(* Mutant: the cached artifact keeps the location it was analyzed at. *)
RecordSharedLocation(t, a) ==
  outcome' = [outcome EXCEPT ![t] =
    Located(CHOOSE p \in Paths : Contents[p] = a, a)]

(* get_local attaches the shared artifact to the path of this source. *)
RecordLocal(t, a) == outcome' = [outcome EXCEPT ![t] = Located(path[t], a)]

Hit(t) ==
  /\ pc[t] = "lookup"
  /\ Lookup(entries, KeyOf(t)) # Miss
  /\ RecordLocal(t, Lookup(entries, KeyOf(t)))
  /\ pc' = [pc EXCEPT ![t] = "done"]
  /\ UNCHANGED <<entries, poisoned, path>>

MissAndAnalyze(t) ==
  /\ pc[t] = "lookup"
  /\ Lookup(entries, KeyOf(t)) = Miss
  /\ pc' = [pc EXCEPT ![t] = "analyze"]
  /\ UNCHANGED <<entries, poisoned, path, outcome>>

(* A parse failure is recorded and never cached. *)
FailParse(t) ==
  /\ pc[t] = "analyze"
  /\ KeyOf(t) \in ParseFails
  /\ outcome' = [outcome EXCEPT ![t] = ParseFailed(path[t])]
  /\ pc' = [pc EXCEPT ![t] = "done"]
  /\ UNCHANGED <<entries, poisoned, path>>

Analyze(t) ==
  /\ pc[t] = "analyze"
  /\ KeyOf(t) \notin ParseFails
  /\ pc' = [pc EXCEPT ![t] = "insert"]
  /\ UNCHANGED <<entries, poisoned, path, outcome>>

(* The analysis panics: the job ends with the cache untouched. *)
PanicInAnalysis(t) ==
  /\ pc[t] = "analyze"
  /\ pc' = [pc EXCEPT ![t] = "idle"]
  /\ path' = [path EXCEPT ![t] = Miss]
  /\ UNCHANGED <<entries, poisoned, outcome>>

(* `complete`: cache the artifact, then record it for this source. *)
Complete(t) ==
  /\ pc[t] = "insert"
  /\ entries' = Insert(entries, KeyOf(t), KeyOf(t))
  /\ RecordLocal(t, KeyOf(t))
  /\ pc' = [pc EXCEPT ![t] = "done"]
  /\ UNCHANGED <<poisoned, path>>

(* A panic under the lock poisons the mutex; the next lock() recovers it. *)
PanicUnderLock(t) ==
  /\ MayPoison
  /\ pc[t] \in {"lookup", "insert"}
  /\ poisoned' = TRUE
  /\ pc' = [pc EXCEPT ![t] = "idle"]
  /\ path' = [path EXCEPT ![t] = Miss]
  /\ UNCHANGED <<entries, outcome>>

Step(t) == \/ Begin(t)
           \/ Hit(t) \/ MissAndAnalyze(t)
           \/ FailParse(t) \/ Analyze(t) \/ PanicInAnalysis(t)
           \/ Complete(t)
           \/ PanicUnderLock(t)

Next == \E t \in Threads : Step(t)

Spec == Init /\ [][Next]_vars

----------------------------------------------------------------------------
(* Whatever the threads do, the cache stays bounded, two threads that missed *)
(* the same key leave one entry for it, and no entry holds another key's     *)
(* artifact, even when fingerprints collide or the mutex was poisoned.       *)
CacheWellFormed == Bounded(entries) /\ UniqueKeys(entries) /\ Sound(entries)

(* The cache never changes a result: a finished thread has exactly what an   *)
(* uncached analysis of its own source would have recorded, at its own path. *)
Transparent ==
  \A t \in Threads :
    pc[t] = "done" =>
      outcome[t] = IF KeyOf(t) \in ParseFails THEN ParseFailed(path[t])
                   ELSE Located(path[t], KeyOf(t))

(* Parse failures are not cached, so a source that fails to parse is always  *)
(* parsed again.                                                             *)
ParseFailuresNotCached == CachedKeys(entries) \cap ParseFails = {}

(* What the cache holds and what the threads got from it is what uncached    *)
(* analyses make, in every interleaving.                                     *)
CacheIsFaithful == CacheWellFormed /\ Transparent /\ ParseFailuresNotCached

(* Caching a key that is already cached (two threads raced) pushes no other  *)
(* artifact out.                                                             *)
ReplacementEvictsNothing ==
  [][\A t \in Threads :
       pc[t] = "insert" /\ pc'[t] = "done" /\ KeyOf(t) \in CachedKeys(entries)
         => CachedKeys(entries') = CachedKeys(entries)]_vars

=============================================================================
