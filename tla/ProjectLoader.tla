---------------------------- MODULE ProjectLoader ----------------------------
(***************************************************************************)
(* Loading one project from the filesystem (glass-lint-project/src:        *)
(* loader.rs with boundary.rs, loader_phases.rs and loader_metrics.rs).    *)
(* First the selection is discovered (module Discovery), to its end or to  *)
(* an error.  What it found is queued; waves of queued paths are accepted, *)
(* read and analyzed, the requests they author are resolved and internal   *)
(* targets join the queue, until the frontier is closed, a limit or an     *)
(* error stops the load, or the deadline has passed.  After discovery      *)
(* files may be removed or grow.                                           *)
(*                                                                         *)
(* The core session is represented by what module ProjectSession shows of  *)
(* it: analyze_sources admits a wave or rejects it whole, it succeeds only *)
(* with an outcome for every source, and finish fails while a source has   *)
(* none or an answer names a path that was not admitted.                   *)
(***************************************************************************)
EXTENDS Discovery

CONSTANTS Files,         \* acceptable paths, as numbers in path order
          PathOf,        \* file -> its canonical path
          Bytes,         \* file -> its size on disk
          Growth,        \* bytes a file may grow between metadata and read
          Imports,       \* file -> the sequence of specifiers it requests
          External,      \* a specifier that no file answers
          Missing,       \* the answer to an internal request without a file
          MaxRequests, MaxSourceBytes, MaxProjectBytes,
          SessionMaxSources,  \* ProjectAdmissionLimits of the linter
          WaveSize,
          MaxRemovals    \* bound: files removed during the load

ASSUME LoaderAssumption ==
  /\ Files \subseteq Nat /\ IsFiniteSet(Files)
  /\ Bytes \in [Files -> Nat] /\ PathOf \in [Files -> SourceNodes]
  /\ Growth \in Nat
  /\ Imports \in [Files -> Seq(Files \cup {External})]
  /\ External \notin Files /\ Missing \notin Files /\ External # Missing
  /\ {MaxFiles, MaxRequests, MaxSourceBytes, SessionMaxSources, WaveSize} \subseteq Nat \ {0}
  /\ MaxProjectBytes \in Nat /\ MaxProjectBytes >= MaxSourceBytes
  /\ MaxRemovals \in Nat

VARIABLES present,                \* files that exist
          pc,                     \* where load_and_lint is
          queue, seen,            \* PathWorkQueue
          accepted,               \* AcceptedPaths
          bytes, requestCount,    \* ProjectLoadMetrics
          wave, read, deferred,   \* the wave being read and its outcome
          loaded,                 \* ProjectLoadState::sources
          admitted, analyzed,     \* the session's sources; those with an outcome
          todo,                   \* requests of the wave not resolved yet
          targets,                \* internal targets not enqueued yet
          byKey, bySpecifier,     \* ResolutionCache, as sets of pairs
          known,                  \* accepted_target_cache
          reason,                 \* the error that stopped the frontier
          outcome                 \* what load_and_lint returns

disk     == <<present, expired>>
frontier == <<queue, seen, accepted, known>>
metrics  == <<bytes, requestCount>>
waveVars == <<wave, read, deferred, todo, targets>>
session  == <<loaded, admitted, analyzed>>
answers  == <<byKey, bySpecifier>>
loader   == <<present, pc, frontier, metrics, waveVars, session, answers, reason, outcome>>
vars     == <<discovery, disk, pc, frontier, metrics, waveVars, session, answers, reason, outcome>>

Targets    == Files \cup {External, Missing}
RequestsOf(f) == {f} \X DOMAIN Imports[f]
Requests   == UNION {RequestsOf(f) : f \in Files}
Specifier(r) == Imports[r[1]][r[2]]
(* Core sorts the requests it returns by importer and range. *)
IsFirst(r, S) == r \in S /\ \A q \in S : r[1] < q[1] \/ (r[1] = q[1] /\ r[2] <= q[2])
(* The members of S in path order: there is one such sequence. *)
InPathOrder(S) ==
  {q \in [1 .. Cardinality(S) -> S] : \A m, n \in DOMAIN q : m < n => q[m] < q[n]}
TotalBytes(S) == Cardinality(UNION {{f} \X (1 .. Bytes[f]) : f \in S})
Answered(f, s) == {b \in bySpecifier : b.importer = f /\ b.specifier = s}

(* The limits of README.md:34-36 that are no timeouts. *)
Boundaries == {"TooManyFiles", "ProjectSourceTooLarge", "SourceTooLarge", "TooManyRequests"}
Reasons    == Boundaries \cup {"none", "Io", "Session", "WorkerPanic"}

TypeOK ==
  /\ present \subseteq Files /\ expired \in BOOLEAN
  /\ pc \in {"discover", "wave", "read", "analyze", "resolve", "enqueue", "finish", "done"}
  /\ queue \in Seq(Files) /\ seen \subseteq Files /\ accepted \subseteq seen
  /\ Range(queue) \cap accepted = {} /\ known \subseteq seen
  /\ bytes \in Nat /\ requestCount \in Nat
  /\ wave \in Seq(Files) /\ Len(wave) <= WaveSize /\ read \subseteq accepted /\ deferred \in BOOLEAN
  /\ todo \subseteq Requests /\ targets \in Seq(Files)
  /\ loaded \subseteq accepted /\ admitted \subseteq loaded /\ analyzed \subseteq admitted
  /\ byKey \subseteq [key : Requests, target : Targets]
  /\ bySpecifier \subseteq [importer : Files, specifier : Files \cup {External}, target : Targets]
  /\ reason \in Reasons
  /\ outcome \in {"running", "complete", "partial", "timeout", "incomplete", "invalid target",
                 "refused"}

Init ==
  /\ DiscoveryInit
  /\ present = Files /\ expired = FALSE
  /\ pc = "discover" /\ queue = <<>> /\ seen = {}
  /\ accepted = {} /\ known = {}
  /\ bytes = 0 /\ requestCount = 0
  /\ wave = <<>> /\ read = {} /\ deferred = FALSE /\ todo = {} /\ targets = <<>>
  /\ loaded = {} /\ admitted = {} /\ analyzed = {}
  /\ byKey = {} /\ bySpecifier = {}
  /\ reason = "none" /\ outcome = "running"

----------------------------------------------------------------------------
(* An error ends close_frontier; what has been analyzed goes on to finish.   *)
Stop(why) == pc' = "finish" /\ reason' = why

(* LoadDeadline::check, at every wave and before every resolution. *)
TimeOut ==
  /\ expired
  /\ pc = "wave" \/ (pc = "resolve" /\ todo # {})
  /\ pc' = "done" /\ outcome' = "timeout"
  /\ UNCHANGED <<disk, frontier, metrics, waveVars, session, answers, reason>>

WaveLength == IF Len(queue) < WaveSize THEN Len(queue) ELSE WaveSize
(* A path that is accepted already is passed over. *)
NewPaths(paths) ==
  IF Range(paths) \cap accepted = {} THEN paths ELSE SelectSeq(paths, LAMBDA f : f \notin accepted)

(* Mutant: the wave stays in the queue. *)
StartWavePeeking ==
  /\ pc = "wave" /\ ~expired /\ queue # <<>>
  /\ wave' = NewPaths(SubSeq(queue, 1, WaveLength))
  /\ pc' = "read" /\ read' = {} /\ deferred' = FALSE
  /\ UNCHANGED <<disk, frontier, metrics, todo, targets, session, answers, reason, outcome>>

StartWave ==
  /\ pc = "wave" /\ ~expired /\ queue # <<>>
  /\ wave' = NewPaths(SubSeq(queue, 1, WaveLength))
  /\ queue' = SubSeq(queue, WaveLength + 1, Len(queue))
  /\ pc' = "read" /\ read' = {} /\ deferred' = FALSE
  /\ UNCHANGED <<disk, seen, accepted, known, metrics, todo, targets, session, answers, reason,
                 outcome>>

FrontierClosed ==
  /\ pc = "wave" /\ ~expired /\ queue = <<>>
  /\ Stop("none")
  /\ UNCHANGED <<disk, frontier, metrics, waveVars, session, answers, outcome>>

----------------------------------------------------------------------------
(* read_wave *)

Reading == pc = "read" /\ wave # <<>>

(* Mutant: the file limit is one too high. *)
WithinFileLimitOffByOne == Cardinality(accepted) <= MaxFiles

WithinFileLimit == Cardinality(accepted) < MaxFiles

FileLimit ==
  /\ Reading
  /\ ~WithinFileLimit
  /\ Stop("TooManyFiles")
  /\ UNCHANGED <<disk, frontier, metrics, waveVars, session, answers, outcome>>

Accept == /\ Reading /\ WithinFileLimit
          /\ accepted' = accepted \cup {Head(wave)}

(* The file is gone or no UTF-8 text, or it is larger than one source may be. *)
ReadFails ==
  /\ Accept
  /\ \/ /\ Head(wave) \in present => bytes + Bytes[Head(wave)] <= MaxProjectBytes
        /\ Stop("Io")
     \/ /\ Head(wave) \in present
        /\ bytes + Bytes[Head(wave)] <= MaxProjectBytes
        /\ Bytes[Head(wave)] + Growth > MaxSourceBytes
        /\ Stop("SourceTooLarge")
  /\ UNCHANGED <<disk, queue, seen, known, metrics, waveVars, session, answers, outcome>>

(* The metadata already exceed the byte budget: stop reading, analyze first. *)
ByteLimit ==
  /\ Accept
  /\ Head(wave) \in present
  /\ bytes + Bytes[Head(wave)] > MaxProjectBytes
  /\ deferred' = TRUE
  /\ pc' = "analyze"
  /\ UNCHANGED <<disk, queue, seen, known, metrics, wave, read, todo, targets, session, answers,
                 reason, outcome>>

(* The bytes read count, whatever the metadata said. *)
Read ==
  /\ Accept
  /\ Head(wave) \in present
  /\ bytes + Bytes[Head(wave)] <= MaxProjectBytes
  /\ \E size \in {Bytes[Head(wave)], Bytes[Head(wave)] + Growth} :
       /\ size <= MaxSourceBytes
       /\ bytes' = bytes + size
       /\ \/ /\ bytes + size <= MaxProjectBytes
             /\ read' = read \cup {Head(wave)} /\ wave' = Tail(wave)
             /\ UNCHANGED <<pc, deferred>>
          \/ /\ bytes + size > MaxProjectBytes
             /\ deferred' = TRUE /\ pc' = "analyze"
             /\ UNCHANGED <<read, wave>>
  /\ UNCHANGED <<disk, queue, seen, known, requestCount, todo, targets, session, answers, reason,
                 outcome>>

WaveRead ==
  /\ pc = "read" /\ wave = <<>>
  /\ pc' = "analyze"
  /\ UNCHANGED <<disk, frontier, metrics, waveVars, session, answers, reason, outcome>>

----------------------------------------------------------------------------
(* analyze_wave: the texts are kept for presentation before the session has  *)
(* seen the sources.                                                         *)

Submit == pc = "analyze" /\ read # {} /\ loaded' = loaded \cup read

Admissible == /\ read \cap admitted = {}
              /\ Cardinality(admitted) + Cardinality(read) <= SessionMaxSources

SessionRejects ==
  /\ Submit
  /\ ~Admissible
  /\ Stop("Session")
  /\ UNCHANGED <<disk, frontier, metrics, waveVars, admitted, analyzed, answers, outcome>>

SessionAdmits == /\ Submit
                 /\ Admissible
                 /\ admitted' = admitted \cup read

(* A worker panics, or there is no pool: some of the wave is left without an *)
(* outcome.                                                                  *)
WorkerPanics ==
  /\ SessionAdmits
  /\ \E done \in SUBSET read : done # read /\ analyzed' = analyzed \cup done
  /\ Stop("WorkerPanic")
  /\ UNCHANGED <<disk, frontier, metrics, waveVars, answers, outcome>>

(* Every source has an outcome; one that does not parse authors no request.  *)
Analyzed ==
  /\ SessionAdmits
  /\ analyzed' = analyzed \cup read
  /\ \E parsed \in SUBSET read : todo' = UNION {RequestsOf(f) : f \in parsed}
  /\ requestCount' = requestCount + Cardinality(todo')
  /\ \/ requestCount' > MaxRequests /\ Stop("TooManyRequests")
     \/ requestCount' <= MaxRequests /\ pc' = "resolve" /\ UNCHANGED reason
  /\ UNCHANGED <<disk, frontier, bytes, wave, read, deferred, targets, answers, outcome>>

(* Nothing was read: the wave only carries its deferred error. *)
NothingRead ==
  /\ pc = "analyze" /\ read = {}
  /\ \/ deferred /\ Stop("ProjectSourceTooLarge")
     \/ ~deferred /\ pc' = "wave" /\ UNCHANGED reason
  /\ UNCHANGED <<disk, frontier, metrics, waveVars, session, answers, outcome>>

----------------------------------------------------------------------------
(* resolve_requests, over the two-level ResolutionCache *)

Internal(t) == IF t \in Files THEN <<t>> ELSE <<>>

Answer(r, t) ==
  /\ byKey' = byKey \cup {[key |-> r, target |-> t]}
  /\ bySpecifier' = bySpecifier \cup
       {[importer |-> r[1], specifier |-> Specifier(r), target |-> t]}
  /\ targets' = targets \o Internal(t)
  /\ todo' = todo \ {r}

Resolving(r) == pc = "resolve" /\ IsFirst(r, todo) /\ ~expired

FromDisk(s) == IF s = External \/ s \in present THEN s ELSE Missing

(* A specifier that its importer requested before keeps its first answer.    *)
Resolve(r) ==
  /\ Resolving(r)
  /\ \/ /\ Answered(r[1], Specifier(r)) = {}
        /\ Answer(r, FromDisk(Specifier(r)))
     \/ \E b \in Answered(r[1], Specifier(r)) : Answer(r, b.target)
  /\ UNCHANGED <<disk, pc, frontier, metrics, wave, read, deferred, session, reason, outcome>>

(* The target vanishes between resolution and classification. *)
ResolverFails(r) ==
  /\ Resolving(r)
  /\ Answered(r[1], Specifier(r)) = {}
  /\ Specifier(r) \in Files \ present
  /\ Stop("Io")
  /\ UNCHANGED <<disk, frontier, metrics, waveVars, session, answers, outcome>>

Resolved ==
  /\ pc = "resolve" /\ todo = {}
  /\ pc' = "enqueue"
  /\ UNCHANGED <<disk, frontier, metrics, waveVars, session, answers, reason, outcome>>

----------------------------------------------------------------------------
(* apply_request_resolution *)

Target(f) == pc = "enqueue" /\ targets # <<>> /\ f = Head(targets) /\ targets' = Tail(targets)

(* PathWorkQueue::push *)
Push(f) == /\ seen' = seen \cup {f}
           /\ queue' = IF f \in seen THEN queue ELSE Append(queue, f)

(* A target seen before needs no look at the disk. *)
Enqueue(f) ==
  /\ Target(f)
  /\ f \in known \/ f \in present
  /\ known' = known \cup {f}
  /\ Push(f)
  /\ UNCHANGED <<disk, pc, accepted, metrics, wave, read, deferred, todo, session, answers,
                 reason, outcome>>

(* The target is gone: it is skipped, or classifying it fails. *)
TargetGone(f) ==
  /\ Target(f)
  /\ f \notin known \cup present
  /\ \/ UNCHANGED <<pc, reason>>
     \/ Stop("Io")
  /\ UNCHANGED <<disk, frontier, metrics, wave, read, deferred, todo, session, answers, outcome>>

(* Mutant: the deferred error of the wave is forgotten. *)
EndWaveForgetting ==
  /\ pc = "enqueue" /\ targets = <<>>
  /\ pc' = "wave"
  /\ UNCHANGED <<disk, frontier, metrics, waveVars, session, answers, reason, outcome>>

(* Only now does the wave report that it hit the byte limit. *)
EndWave ==
  /\ pc = "enqueue" /\ targets = <<>>
  /\ \/ deferred /\ Stop("ProjectSourceTooLarge")
     \/ ~deferred /\ pc' = "wave" /\ UNCHANGED reason
  /\ UNCHANGED <<disk, frontier, metrics, waveVars, session, answers, outcome>>

----------------------------------------------------------------------------
(* ProjectSession::finish with every cached answer, then the status. *)
Finish ==
  /\ pc = "finish"
  /\ pc' = "done"
  /\ outcome' = IF analyzed # admitted THEN "incomplete"
                ELSE IF \E a \in byKey : a.target \in Files \ admitted THEN "invalid target"
                ELSE IF reason = "none" THEN "complete" ELSE "partial"
  /\ UNCHANGED <<disk, frontier, metrics, waveVars, session, answers, reason>>

Load ==
  /\ \/ TimeOut \/ StartWave \/ FrontierClosed
     \/ FileLimit \/ ReadFails \/ ByteLimit \/ Read \/ WaveRead
     \/ SessionRejects \/ WorkerPanics \/ Analyzed \/ NothingRead
     \/ \E r \in Requests : Resolve(r) \/ ResolverFails(r)
     \/ Resolved
     \/ \E f \in Files : Enqueue(f) \/ TargetGone(f)
     \/ EndWave \/ Finish
  /\ UNCHANGED discovery

(* from_selection runs to its end before the first wave.                     *)
Select == /\ pc = "discover"
          /\ Discover
          /\ UNCHANGED <<expired, loader>>

(* What was found is queued in path order; the walker and the accepted paths *)
(* of discovery are dropped, its error ends the load.                        *)
Discovered ==
  /\ pc = "discover" /\ stage = "found"
  /\ seen' = {f \in Files : PathOf[f] \in chosen}
  /\ queue' \in InPathOrder(seen')
  /\ pc' = "wave"
  /\ Forget
  /\ UNCHANGED <<disk, accepted, known, metrics, waveVars, session, answers, reason, outcome>>

NotDiscovered ==
  /\ pc = "discover" /\ stage = "refused"
  /\ pc' = "done"
  /\ outcome' = IF failure = <<"timeout">> THEN "timeout" ELSE "refused"
  /\ Forget
  /\ UNCHANGED <<disk, frontier, metrics, waveVars, session, answers, reason>>

(* The rest of the machine: time passes and files are removed. *)
Expire ==
  /\ pc # "done" /\ ~expired
  /\ expired' = TRUE
  /\ UNCHANGED <<discovery, loader>>

(* The disk is still while discovery runs. *)
FileRemoved ==
  /\ pc \notin {"discover", "done"}
  /\ Cardinality(Files) - Cardinality(present) < MaxRemovals
  /\ \E f \in present : present' = present \ {f}
  /\ UNCHANGED <<discovery, expired, pc, frontier, metrics, waveVars, session, answers, reason,
                 outcome>>

(* A load that has returned stays so. *)
Returned == pc = "done" /\ UNCHANGED vars

Next == Load \/ Select \/ Discovered \/ NotDiscovered \/ Returned \/ Expire \/ FileRemoved

Spec == Init /\ [][Next]_vars

(* The loading thread keeps running until it returns.  A step of discovery   *)
(* is enabled until it has found its files or was refused (deadlock is       *)
(* checked); its fairness says so without ENABLED, whose evaluation is slow. *)
FairSpec ==
  /\ Spec
  /\ WF_vars(Load \/ Discovered \/ NotDiscovered)
  /\ []<>(stage \in {"found", "refused", "dropped"}) \/ []<><<Select>>_vars

----------------------------------------------------------------------------
(* Whatever grows or disappears on the way, no more files are accepted and   *)
(* no more requests resolved than the options allow, and the bytes read      *)
(* exceed their budget only in the wave that ends the load for it.           *)
BudgetsHold ==
  /\ Cardinality(accepted) <= MaxFiles
  /\ TotalBytes(admitted) <= MaxProjectBytes
  /\ bytes > MaxProjectBytes => deferred
  /\ Cardinality(byKey) <= MaxRequests

(* A load that reports completion has not lost anything on the way: every    *)
(* path that was ever queued is an admitted, analyzed source, and every      *)
(* request these author has an answer; all the requests of one importer for  *)
(* one specifier have the same, even when the file it denotes disappears     *)
(* between two of them.                                                      *)
CompleteIsClosed ==
  /\ outcome = "complete" => /\ analyzed = seen
                             /\ Cardinality({a.key : a \in byKey}) = requestCount
  /\ \A a, b \in byKey :
       (a.key[1] = b.key[1] /\ Specifier(a.key) = Specifier(b.key)) => a.target = b.target

(* Every load returns, whatever happens to the files. *)
EveryLoadReturns == <>(pc = "done")

=============================================================================
