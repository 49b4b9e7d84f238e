--------------------------- MODULE ProjectSession ---------------------------
(***************************************************************************)
(* One project session (glass-lint-core/src/project/session): sources are  *)
(* admitted and analyzed once, one at a time (analyze_source) or in        *)
(* bounded parallel batches (analyze_sources), through an artifact cache   *)
(* that other sessions use at the same time; every analysis returns the    *)
(* module requests its sources author; `finish` validates the answers to   *)
(* those requests and turns the session into a report.                     *)
(*                                                                         *)
(* Paths are numbers in normalized path order.  A request is a pair of its *)
(* importer and an occurrence in that source.                              *)
(***************************************************************************)
EXTENDS ArtifactCache, FiniteSets, Functions

CONSTANTS Paths,
          Contents,      \* path -> cache key of its source
          Size,          \* path -> bytes of its source
          ParseFails,    \* the keys whose source does not parse
          Occurrences,   \* key -> the requests its artifact authors
          MaxSources, MaxSourceBytes,   \* ProjectAdmissionLimits
          MaxRequests,   \* MAX_PROJECT_REQUESTS
          WorkerCounts,  \* normalized worker limits the caller asks for
          MaxArguments,  \* bound: sources per call and answers to finish
          External,      \* an answer that leaves the project
          Invalid,       \* an Unsupported answer without a reason
          ParseFailed    \* the outcome of a source that does not parse

ASSUME SessionAssumption ==
  /\ Paths \subseteq Nat /\ IsFiniteSet(Paths)
  /\ Contents \in [Paths -> Keys]
  /\ Size \in [Paths -> Nat]
  /\ ParseFails \subseteq Keys
  /\ DOMAIN Occurrences = Keys
  /\ MaxSources \in Nat /\ MaxSourceBytes \in Nat /\ MaxRequests \in Nat
  /\ WorkerCounts \subseteq Nat \ {0}
  /\ MaxArguments \in Nat
  /\ {External, Invalid} \cap Paths = {} /\ External # Invalid
  /\ ParseFailed \notin Keys \cup {Miss}

VARIABLES entries,              \* the deque of the shared artifact cache
          sources, sourceBytes, \* SourceTable
          outcomes, authored,   \* AnalysisArtifacts
          pool,                 \* workers of the executor's pool, 0: none
          pc,                   \* where the current call is
          todo,                 \* candidates the executor has not taken
          batch,                \* jobs submitted and not merged
          crashed,              \* of these, the jobs that panicked
          panicked,             \* a panicked job has been discarded
          requests,             \* authored requests collected by this call
          returned,             \* history: requests handed to the caller
          result,               \* how the last call ended
          failed,               \* history: some analysis failed
          report                \* what `finish` returned

tables   == <<sources, sourceBytes>>
executor == <<pool, todo, batch, crashed, panicked>>
caller   == <<returned, result, failed, report>>
vars     == <<entries, tables, outcomes, authored, executor, pc, requests, caller>>

(* What an analysis of the source at p yields, whoever runs it. *)
Yield(p) == IF Contents[p] \in ParseFails THEN ParseFailed ELSE Contents[p]

RequestsOf(p, a)   == {p} \X Occurrences[a]
AllRequests        == UNION {RequestsOf(p, Contents[p]) : p \in Paths}
TotalBytes(S)      == Cardinality(UNION {{p} \X (1 .. Size[p]) : p \in S})
Arguments(S)       == UNION {[1 .. n -> S] : n \in 0 .. MaxArguments}
Answers            == [key : AllRequests, target : Paths \cup {External, Invalid}]
Pending            == {p \in sources : outcomes[p] = Miss}
NoReport           == [modules |-> {}, failures |-> {}, answers |-> {}, ids |-> <<>>]
(* Twice the worker limit (bounds.rs). *)
Window             == 2 * pool

TypeOK ==
  /\ entries \in Seq(Entry)
  /\ sources \subseteq Paths /\ sourceBytes \in Nat
  /\ outcomes \in [Paths -> Keys \cup {Miss, ParseFailed}]
  /\ authored \subseteq AllRequests /\ requests \subseteq authored /\ returned \subseteq authored
  /\ pool \in WorkerCounts \cup {0}
  /\ pc \in {"idle", "one", "analyze", "fill", "merge", "over"}
  /\ todo \subseteq sources
  /\ batch \in Seq(Pending) /\ Len(batch) <= Window
  /\ crashed \subseteq sources
  /\ panicked \in BOOLEAN /\ failed \in BOOLEAN
  /\ result \in {"none", "ok", "rejected", "failed"}

Init ==
  /\ entries = <<>>
  /\ sources = {} /\ sourceBytes = 0
  /\ outcomes = [p \in Paths |-> Miss] /\ authored = {}
  /\ pool = 0 /\ pc = "idle" /\ todo = {} /\ batch = <<>> /\ crashed = {} /\ panicked = FALSE
  /\ requests = {} /\ returned = {} /\ result = "none" /\ failed = FALSE
  /\ report = NoReport

----------------------------------------------------------------------------
(* SourceTable::admit_all *)

(* Mutant: the limits are checked for the staged sources alone. *)
AdmissibleAlone(args) ==
  /\ \A m, n \in DOMAIN args : args[m] = args[n] => m = n
  /\ Range(args) \cap sources = {}
  /\ Len(args) <= MaxSources
  /\ TotalBytes(Range(args)) <= MaxSourceBytes

(* No duplicate, and both limits hold with the sources already admitted.     *)
Admissible(args) ==
  /\ \A m, n \in DOMAIN args : args[m] = args[n] => m = n
  /\ Range(args) \cap sources = {}
  /\ args # <<>> => /\ Cardinality(sources) + Len(args) <= MaxSources
                    /\ sourceBytes + TotalBytes(Range(args)) <= MaxSourceBytes

Admit(args) ==
  /\ sources' = sources \cup Range(args)
  /\ sourceBytes' = sourceBytes + TotalBytes(Range(args))

(* A rejected batch changes neither table. *)
Reject(args) ==
  /\ pc = "idle"
  /\ ~Admissible(args)
  /\ result' = "rejected"
  /\ UNCHANGED <<entries, tables, outcomes, authored, executor, pc, requests, returned,
                 failed, report>>

----------------------------------------------------------------------------
(* AnalysisArtifacts: one outcome per path, the requests of an artifact      *)
(* registered and collected together.                                        *)

RecordLocal(p, a) ==
  /\ outcomes' = [outcomes EXCEPT ![p] = a]
  /\ authored' = authored \cup RequestsOf(p, a)
  /\ requests' = requests \cup RequestsOf(p, a)

RecordParseFailure(p) ==
  /\ outcomes' = [outcomes EXCEPT ![p] = ParseFailed]
  /\ UNCHANGED <<authored, requests>>

(* LocalAnalysisTransition::complete: cache, then record. *)
CompleteJob(p) ==
  \/ /\ Contents[p] \notin ParseFails
     /\ entries' = Insert(entries, Contents[p], Contents[p])
     /\ RecordLocal(p, Contents[p])
  \/ /\ Contents[p] \in ParseFails
     /\ RecordParseFailure(p)
     /\ UNCHANGED entries

Cached(p) == Lookup(entries, Contents[p])

(* Mutant: the requests of a cached artifact are registered, not collected. *)
RecordHitSilently(p) ==
  /\ outcomes' = [outcomes EXCEPT ![p] = Cached(p)]
  /\ authored' = authored \cup RequestsOf(p, Cached(p))
  /\ UNCHANGED requests

RecordHit(p) == RecordLocal(p, Cached(p))

ReturnOk ==
  /\ pc' = "idle"
  /\ result' = "ok"
  /\ returned' = returned \cup requests'
  /\ UNCHANGED <<failed, report>>

(* An error carries no requests: those the call collected are dropped. *)
ReturnError ==
  /\ pc' = "idle"
  /\ result' = "failed" /\ failed' = TRUE
  /\ UNCHANGED <<returned, report>>

----------------------------------------------------------------------------
(* analyze_source *)

AnalyzeSource(p) ==
  /\ pc = "idle"
  /\ Admissible(<<p>>) /\ Admit(<<p>>)
  /\ pc' = "one" /\ todo' = {p} /\ requests' = {}
  /\ UNCHANGED <<entries, outcomes, authored, pool, batch, crashed, panicked, caller>>

OneHit(p) ==
  /\ pc = "one" /\ p \in todo
  /\ Cached(p) # Miss
  /\ RecordHit(p)
  /\ todo' = {}
  /\ ReturnOk
  /\ UNCHANGED <<entries, tables, pool, batch, crashed, panicked>>

OneMiss(p) ==
  /\ pc = "one" /\ p \in todo
  /\ Cached(p) = Miss
  /\ pc' = "analyze"
  /\ UNCHANGED <<entries, tables, outcomes, authored, executor, requests, caller>>

OneAnalyzed(p) ==
  /\ pc = "analyze" /\ p \in todo
  /\ CompleteJob(p)
  /\ todo' = {}
  /\ ReturnOk
  /\ UNCHANGED <<tables, pool, batch, crashed, panicked>>

(* The analysis panics in the caller's thread: nothing catches it here. *)
OnePanics(p) ==
  /\ pc = "analyze" /\ p \in todo
  /\ todo' = {}
  /\ ReturnError
  /\ UNCHANGED <<entries, tables, outcomes, authored, pool, batch, crashed, panicked, requests>>

----------------------------------------------------------------------------
(* analyze_sources over ThreadLocalJobExecutor::execute *)

(* Mutant: only the sources of this call are candidates. *)
AnalyzeSourcesNew(args, workers) ==
  /\ pc = "idle"
  /\ Admissible(args) /\ Admit(args)
  /\ pool' = workers
  /\ pc' = "fill" /\ todo' = Range(args) /\ requests' = {}
  /\ UNCHANGED <<entries, outcomes, authored, batch, crashed, panicked, caller>>

(* Every admitted source is a candidate, those of earlier calls included. *)
AnalyzeSources(args, workers) ==
  /\ pc = "idle"
  /\ Admissible(args) /\ Admit(args)
  /\ pool' = workers
  /\ pc' = "fill" /\ todo' = sources' /\ requests' = {}
  /\ UNCHANGED <<entries, outcomes, authored, batch, crashed, panicked, caller>>

(* The pool has to be (re)built for this worker count and cannot be: the     *)
(* sources stay admitted.                                                    *)
PoolUnavailable(args, workers) ==
  /\ pc = "idle" /\ pool # workers
  /\ Admissible(args) /\ Admit(args)
  /\ requests' = {}
  /\ ReturnError
  /\ UNCHANGED <<entries, outcomes, authored, executor>>

NeedsAnalysis(p) == outcomes[p] = Miss

Candidate(p) == /\ pc = "fill" /\ Len(batch) < Window
                /\ p \in todo /\ \A q \in todo : p <= q
                /\ todo' = todo \ {p}

Skip(p) ==
  /\ Candidate(p)
  /\ ~NeedsAnalysis(p)
  /\ UNCHANGED <<entries, tables, outcomes, authored, pool, batch, crashed, panicked, pc,
                 requests, caller>>

TakeHit(p) ==
  /\ Candidate(p)
  /\ NeedsAnalysis(p) /\ Cached(p) # Miss
  /\ RecordHit(p)
  /\ UNCHANGED <<entries, tables, pool, batch, crashed, panicked, pc, caller>>

TakeJob(p) ==
  /\ Candidate(p)
  /\ NeedsAnalysis(p) /\ Cached(p) = Miss
  /\ batch' = Append(batch, p)
  /\ UNCHANGED <<entries, tables, outcomes, authored, pool, crashed, panicked, pc, requests,
                 caller>>

(* Mutant: only a full batch is run. *)
RunFullBatch ==
  /\ pc = "fill" /\ Len(batch) = Window
  /\ crashed' \in SUBSET Range(batch)
  /\ panicked' = FALSE
  /\ pc' = "merge"
  /\ UNCHANGED <<entries, tables, outcomes, authored, pool, todo, batch, requests, caller>>

(* The jobs run in parallel, each catching its own panic; their results come *)
(* back in batch order.                                                      *)
RunBatch ==
  /\ pc = "fill" /\ batch # <<>>
  /\ todo = {} \/ Len(batch) = Window
  /\ crashed' \in SUBSET Range(batch)
  /\ panicked' = FALSE
  /\ pc' = "merge"
  /\ UNCHANGED <<entries, tables, outcomes, authored, pool, todo, batch, requests, caller>>

Release ==
  /\ pc = "merge" /\ batch # <<>>
  /\ Head(batch) \notin crashed
  /\ CompleteJob(Head(batch))
  /\ batch' = Tail(batch)
  /\ UNCHANGED <<tables, pool, todo, crashed, panicked, pc, caller>>

(* Mutant: a panicked job ends as a parse failure. *)
DiscardAsParseFailure ==
  /\ pc = "merge" /\ batch # <<>>
  /\ Head(batch) \in crashed
  /\ RecordParseFailure(Head(batch))
  /\ batch' = Tail(batch) /\ panicked' = TRUE
  /\ UNCHANGED <<entries, tables, pool, todo, crashed, pc, caller>>

Discard ==
  /\ pc = "merge" /\ batch # <<>>
  /\ Head(batch) \in crashed
  /\ batch' = Tail(batch)
  /\ panicked' = TRUE
  /\ UNCHANGED <<entries, tables, outcomes, authored, pool, todo, crashed, pc, requests, caller>>

NextBatch ==
  /\ pc = "merge" /\ batch = <<>> /\ ~panicked
  /\ pc' = "fill" /\ crashed' = {}
  /\ UNCHANGED <<entries, tables, outcomes, authored, pool, todo, batch, panicked, requests,
                 caller>>

(* A panicked job ends the call after its whole batch is merged; the         *)
(* candidates not taken yet stay pending.                                    *)
BatchPanicked ==
  /\ pc = "merge" /\ batch = <<>> /\ panicked
  /\ todo' = {} /\ crashed' = {} /\ panicked' = FALSE
  /\ ReturnError
  /\ UNCHANGED <<entries, tables, outcomes, authored, pool, batch, requests>>

AllAnalyzed ==
  /\ pc = "fill" /\ todo = {} /\ batch = <<>>
  /\ UNCHANGED requests
  /\ ReturnOk
  /\ UNCHANGED <<entries, tables, outcomes, authored, executor>>

----------------------------------------------------------------------------
(* finish *)

Modules  == {p \in sources : outcomes[p] \in Keys}
Failures == {p \in sources : outcomes[p] = ParseFailed}

(* Mutant: the completeness gate is missing. *)
CompleteUnchecked == pc = "idle"

Complete == Pending = {}

(* Answers are accepted for authored requests only, once each, and a path    *)
(* they name must be an admitted source.                                     *)
Acceptable(answers) ==
  /\ \A n \in DOMAIN answers : /\ answers[n].key \in authored
                               /\ answers[n].target # Invalid
                               /\ answers[n].target \in Paths => answers[n].target \in sources
  /\ \A m, n \in DOMAIN answers : answers[m].key = answers[n].key => m = n
  /\ Cardinality(authored) <= MaxRequests

(* Module ids number every admitted source in path order, those that did not *)
(* parse included.                                                           *)
Finish(answers) ==
  /\ pc = "idle"
  /\ Complete /\ Acceptable(answers)
  /\ report' = [modules  |-> Modules, failures |-> Failures, answers |-> Range(answers),
                ids |-> [p \in sources |-> Cardinality({q \in sources : q < p})]]
  /\ pc' = "over" /\ result' = "ok"
  /\ UNCHANGED <<entries, tables, outcomes, authored, executor, requests, returned, failed>>

FinishRejected(answers) ==
  /\ pc = "idle"
  /\ ~Complete \/ ~Acceptable(answers)
  /\ pc' = "over" /\ result' = "rejected"
  /\ UNCHANGED <<entries, tables, outcomes, authored, executor, requests, returned, failed,
                 report>>

----------------------------------------------------------------------------
(* Another session of the same linter caches an artifact. *)
OtherSession ==
  /\ \E k \in Keys \ ParseFails : entries' = Insert(entries, k, k)
  /\ UNCHANGED <<tables, outcomes, authored, executor, pc, requests, caller>>

(* The session is over or dropped; the next one starts with the cache as is. *)
NewSession ==
  /\ pc \in {"idle", "over"}
  /\ sources' = {} /\ sourceBytes' = 0
  /\ outcomes' = [p \in Paths |-> Miss] /\ authored' = {}
  /\ pool' = 0 /\ pc' = "idle" /\ requests' = {}
  /\ returned' = {} /\ result' = "none" /\ failed' = FALSE
  /\ report' = NoReport
  /\ UNCHANGED <<entries, todo, batch, crashed, panicked>>

Client ==
  \/ \E args \in Arguments(Paths) : Reject(args)
  \/ \E p \in Paths : AnalyzeSource(p)
  \/ \E args \in Arguments(Paths), workers \in WorkerCounts :
       AnalyzeSources(args, workers) \/ PoolUnavailable(args, workers)
  \/ \E answers \in Arguments(Answers) : Finish(answers) \/ FinishRejected(answers)
  \/ NewSession

Working ==
  \/ \E p \in Paths : \/ OneHit(p) \/ OneMiss(p) \/ OneAnalyzed(p) \/ OnePanics(p)
                      \/ Skip(p) \/ TakeHit(p) \/ TakeJob(p)
  \/ RunBatch \/ Release \/ Discard
  \/ NextBatch \/ BatchPanicked \/ AllAnalyzed

Next == Client \/ Working \/ OtherSession

Spec == Init /\ [][Next]_vars

(* A call that has begun is executed; nobody has to make another call.       *)
FairSpec == Spec /\ WF_vars(Working)

----------------------------------------------------------------------------
(* However the sources arrive, one by one or in batches, the session never   *)
(* holds more of them than its limits allow, and its byte count is that of   *)
(* the sources it holds.                                                     *)
AdmissionBounded ==
  /\ sourceBytes = TotalBytes(sources)
  /\ sourceBytes <= MaxSourceBytes
  /\ Cardinality(sources) <= MaxSources

(* Every recorded outcome is what an analysis of that very source yields and *)
(* every authored request belongs to a recorded artifact: neither the shared *)
(* cache nor a panicked neighbour in the batch can change or invent one.     *)
OutcomesFaithful ==
  /\ \A p \in Paths : outcomes[p] # Miss => p \in sources /\ outcomes[p] = Yield(p)
  /\ authored = UNION {RequestsOf(p, outcomes[p]) : p \in Modules}

(* While no analysis has failed the caller holds every authored request, the *)
(* ones found in the cache included, so that it can answer them all.         *)
RequestsHandedOver == pc = "idle" /\ ~failed => returned = authored

(* A report depends on the admitted sources and the answers alone: each      *)
(* source is in it once, as a module exactly when it parses, whatever the    *)
(* worker counts, the cache and earlier panics were; and every answer is     *)
(* about a request of such a module and points at an admitted source.        *)
ReportDeterministic ==
  report # NoReport =>
    /\ report.modules = {p \in sources : Contents[p] \notin ParseFails}
    /\ report.failures = sources \ report.modules
    /\ {report.ids[p] : p \in sources} = 0 .. (Cardinality(sources) - 1)
    /\ \A a \in report.answers :
         /\ a.key[1] \in report.modules
         /\ a.target \in sources \cup {External}
         /\ \A b \in report.answers : a.key = b.key => a = b

(* A batched call that succeeds leaves no admitted source without an         *)
(* outcome: it also picks up what earlier calls admitted and then lost to a  *)
(* panic or to a pool that could not be built.                               *)
RestIsPickedUp ==
  [][(pc \in {"fill", "merge"} /\ pc' = "idle" /\ result' = "ok") => Pending' = {}]_vars

(* Every analysis call returns, whichever jobs panic. *)
EveryCallReturns == pc \notin {"idle", "over"} ~> pc \in {"idle", "over"}
=============================================================================
