# A TLA+ model of glass-lint

glass-lint is a semantic linter for JavaScript and TypeScript.  `glass-lint-core`
analyzes owned sources without touching the filesystem: it parses each source once
into an immutable local artifact, links the artifacts of a project, and evaluates
compiled rules over the result.  `glass-lint-project` finds, reads and resolves the
files of a project and drives a core session; `glass-lint-cli` puts configuration in
front and an exit status behind.  This directory models the parts of the three crates
that decide what is found and what is reported, and those that have state over time —
threads, budgets, caches, partial failures.  TLC checks them on small instances and
TLAPS proves the most important facts for every value of the constants.

Everything below refers to the modules of this directory and to the code under
`glass-lint-core/src` (core), `glass-lint-project/src` (project) and
`glass-lint-cli/src` (cli).

## The system

| component | code | state | operations | hard behaviour |
|---|---|---|---|---|
| batch linting | core `lint/batch.rs`, `lint/linter.rs` | `BatchDriver` (window, pending results, flags, sender), the pool's jobs, one mpsc channel | `next`, `drop`; jobs run, panic, send | completion order, window, a drop while jobs run, lost or bogus completions, when `recv` may block |
| artifact cache | core `analysis/local.rs` | a FIFO deque of 64 entries behind a mutex shared by cloned linters | get, insert | racing misses, fingerprint collisions, eviction, poisoning |
| project session | core `project/session/*`, `project/tables.rs`, `analysis/project/model.rs` | source table, outcomes, authored requests, executor pool | `analyze_source`, `analyze_sources`, `finish` | atomic admission, a job of a batch panics, retry, validation of answers, determinism |
| discovery | project `discovery.rs`, `walk.rs`, `tsconfig/*`, `boundary.rs` | stack, active and visited configurations, inheritance chain, entry, byte and configuration budgets | select an entry, a directory, a tsconfig | cycles of references and of `extends`, inherited patterns, links, limits |
| project loader | project `loader*.rs`, `boundary.rs`, `source_collection.rs` | work queue, accepted paths, byte and request counters, resolution cache, deadline | `load_and_lint`: discovery, then waves of accept, read, analyze, resolve, enqueue | files vanish or grow, limits hit half way, deferred errors, timeouts, cyclic imports |
| project linker | core `analysis/project/linker/*`, `analysis/project/resolver.rs` | module graph, export tables, lookup cache, budgets | build graph, order components, resolve exports, validate imports | cyclic re-exports, answers cached too early, star exports that disagree, budget exhaustion |
| scope analysis | core `analysis/scope/*` | scopes, the collector's path environment, checkpoints, write sets, frozen assignments | plan, collect, join, freeze, look up | joins, hoisting, dynamic scopes, lookup by position instead of path |
| flow analysis | core `analysis/flow/*` | frontier of path environments, control stack, undo log, function effects, contexts of the project-wide pass | transfer, branch, abrupt exit, replay a loop, project contexts | truncation of alternatives, replay of saved paths, definiteness |
| queries | core `api/rule/query/*`, `api/compiler/*`, `analysis/matching/*` | none over time | build, compile, match | normalization, contradictions, overlays, certainty of unknown alternatives |
| rules and environment | core `rule_id.rs`, `environment.rs`, `lint/{selection,catalog,linter}.rs` | catalogs, prepared selections, global objects | parse, select, extend, match paths | greedy globs, stale preparation, order of registration |
| parser frontend, facts | core `analysis/{syntax,facts,semantic}` | fact builder and its budget | emit, intern, assess, seal | budgets and how their exhaustion shows |
| reports | core `lint/report`, `project/report`, `analysis/project/projection*` | none over time | project, group evidence, combine | evidence lost in grouping, honest completion, order |
| command line | cli `config.rs`, `lint.rs`, `lib.rs`, `bin.rs` | loaded configuration | load, edit, build, run, exit | success claimed for a run that was not complete |
| resolver, rule catalogs, data structures, output, harness | the other files | — | — | third-party resolution, declarative data, formatting |

They interact through calls and one piece of shared state.  `Linter::lint_batch` runs
each source of an iterator as a one-file project session on a pool thread;
`ProjectLoader::load_and_lint` discovers files and drives one session with waves of
them.  Every session of a linter and of its clones uses the same artifact cache, so any
thread may change the cache between two steps of another.  A session returns the module
requests its sources author; the loader resolves them, queues internal targets, and
hands all answers to `finish`, which validates, links, runs local and project-wide flow
analysis, matches the compiled rules and assembles the report.

What makes each component correct:

- *batch linting*: results in input order, one for each source taken, each for its own
  source; at most `max_in_flight` sources taken and not returned; no invented panics;
  no call of `next` blocks for ever; after a drop nothing starts.
- *artifact cache*: it cannot be observed in any result.
- *project session*: limits hold however sources arrive; an outcome is what an analysis
  of that source yields; every request reaches the caller once; success means complete;
  the report is a function of sources and answers.
- *discovery*: it finds the files the selection means, whatever the shape of references
  and inheritance, and reports what it left out.
- *project loader*: budgets hold although files change; a load reported complete lost
  nothing; the load returns.
- *linker*: names resolve to the one thing they can mean or to unknown, never to a stale or
  order-dependent answer; cycles terminate; a link that does not report an exhausted budget
  left nothing out.
- *scopes*: what a name is said to stand for covers what it stands for in every run.
- *flow*: definite means on every path; a run that hit no limit misses nothing; resuming a
  path gives back exactly that path.
- *queries*: the findings are the facts the rule means; a query is refused only for cause.
- *the rest*: the linter that runs is the one asked for, findings cover the evidence,
  completion is honest, and success is earned.

## Modules

| module | models | checked by | proved in |
|---|---|---|---|
| `BatchContract` | what `lint_batch` promises its caller | (refined by `LintBatch`) | |
| `LintBatch` | `BatchDriver`, `PendingBatch`, pool jobs and channel | `LintBatch` | `LintBatchProofs` |
| `ArtifactCache`, `SharedCache` | the deque of the cache; threads analyzing sources through one cache | `SharedCache` | `SharedCacheProofs` |
| `ProjectSession` | one session over a cache other sessions use | `ProjectSession` | `ProjectSessionProofs` |
| `TsconfigSelection` | fields, inheritance, rebasing and matching of one tsconfig, as operators | with `Discovery` | |
| `Discovery` | from a selection to the accepted initial paths | with `ProjectLoader` | |
| `ProjectLoader` | one load, discovery first, over a changing filesystem | `ProjectLoader` | `ProjectLoaderProofs` |
| `ProjectLinker` | one link of a project: graph, exports, imports | `ProjectLinker` | `ProjectLinkerProofs` |
| `FlowLifecycle` | aliases, tracked objects and how far their lifecycle has come, on one path | with its users | `FlowHistoryProofs` |
| `FlowProjector` | object-flow projection of one file | `FlowProjector` | |
| `FlowReference` | the fact stream of a file with its control markers, and what the executions of the file do (reference) | with `FlowProjector` | |
| `FlowHistory` | the undo log that path cursors point into | `FlowHistory` | `FlowHistoryProofs` |
| `FunctionEffects`, `FunctionSummaries` | what a function does with its parameters; which of them reach a sink | with `CrossFlow` | |
| `CrossFlow` | project-wide flow projection with its sources, contexts and worklist | `CrossFlow` | |
| `CrossReference` | the routes an object can take from call to call (reference) | with `CrossFlow` | |
| `QueryAlgebra`, `QueryCompiler`, `QueryMatching` | builders; validation, normalization and planning; indexes, overlays and evaluation | with `QueryPipeline` | |
| `QueryPipeline` | a rule from its author to its findings | `Query` | |
| `ScopeSyntax`, `ScopeCollector` | the hooks of a file; bounded alternatives, planner, collector, frozen lookups | with `ScopeReference` | |
| `ScopeReference` | the runs of a file, without scopes or joins (reference) | `Scope`, `ScopeExit` | |
| `RuleSelection`, `FactConstruction`, `ReportAssembly` | rule selection and the names of globals; the fact builder and its budget; projection status, findings and reports | with `CommandLine` | `CommandLineProofs` |
| `CommandLine` | the command from configuration to exit status | `CommandLine` | `CommandLineProofs` |

Each run has a module `MC...` with its instance, except that `FlowHistory` is checked as it is.
`Counting` holds the lemmas several proofs share: counting, orders and ranks, folds, recursive functions.  `PROJECT.json` maps every definition to its
lines.  Definitions that its "mutants" name as mutated forms are wrong on purpose: each
is a plausible bug in the definition that follows it and breaks a property of a run; no
specification uses them.

### LintBatch

The k-th source is the number k and so is its result; `WorkerPanic` is the only other
result.  `entries` is `PendingBatch::entries`, with `Missing` for a pending `None`.
`pc` says where the consumer thread is: outside (`ready`), in `refill`, in the loop of
`next_result` (`poll`), or gone (`dropped`).  One action is one turn of a loop: `Submit`
is one iteration of `refill`, `ExhaustInput` and `StopRefill` are its exits followed by
`close_input`, `Yield` is `take_ready`, `Finish` the empty window, `ReceiveCompletion`
and `ReceiveDisconnected` the two results of `recv`.  The pool's jobs interleave with
them: `StartJob` and `SkipJob` read the cancellation flag, `FinishJob` runs the analysis
under `catch_unwind` and sends.  `recv` fails exactly when the channel is empty and no
sender is left: the driver's, and the clone each queued or running job holds.

`Faults` adds misbehaviour of the channel that the wiring of `lint_batch` excludes but
`PendingBatch` defends against and the unit tests inject: a completion for an index never
submitted, one sent twice, one lost.  The counter `faults` says how many have happened;
accounting and genuine panics are stated for `faults = 0`.  A completion is lost only once the
driver is done with its input, because before that `recv` would rightly wait for ever on
the driver's own sender.

### ArtifactCache and SharedCache

A key stands for everything that identifies a local analysis; the artifact of key k is
written k.  Fingerprints are a function of keys that may collide.  `SharedCache` runs
`analyze_requested` on several threads: lookup and insertion are atomic (the mutex), the
analysis between them is not.  `PanicUnderLock` poisons the mutex, which changes nothing
because both accesses recover it.

### ProjectSession

Sources are numbers in normalized path order.  `pc` is the position inside a call: `one`
and `analyze` for `analyze_source`, `fill` and `merge` for the two loops of `execute`.
`Skip`, `TakeHit` and `TakeJob` are the three results of `prepare`; `RunBatch` runs a batch in
parallel and decides which jobs panic; `Release` and `Discard` merge in batch order.
`Finish` contains all validations of `finish` in both files, as one condition, because the
session is consumed either way.  `OtherSession` inserts artifacts at any moment;
`NewSession` starts over with the cache as it is.  The export-count limit of
`ResolvedLinkInput::build` is the same gate as the request-count limit and is not
modelled a second time.

### TsconfigSelection and Discovery

A path or pattern is the sequence of its components, because inheritance, rebasing and
globs are about components and prefixes; names have no inner structure.  `TsconfigSelection` is
pure: `ParseTsconfig` tells absent, null, wrong and present fields apart, `MergeChild`,
`RebaseParent` and `CompileSelection` are the functions of `selection.rs`, `Includes` judges a path.

`Discovery` is the state machine around it.  `stage` is where `from_selection` is: it has
selected nothing yet, walks the graph of references (`refStack`, `active`, `visited`), opens the
chain of a configuration's `extends` downwards (`chain`, one `OpenConfig` each), merges it
upwards (`MergeConfig`, `BuiltConfig`), or collects the sources of one compiled selection after the
other (`SelectFiles`, `SelectPatterns`).  The recursion of `build_inner` is that chain.  Every
error ends discovery with its kind in `failure`.  `Meant`, `Reached`, `Lineage` give the
meaning of a selection without stack, budget or order; `SelectionIsExact` and
`DiagnosticsAreEarned` compare.

### ProjectLoader

`Files` are the paths the boundary accepts; a specifier names a file, or is external.
`Select` takes one step of discovery, `Discovered` queues what it found, `NotDiscovered`
ends the load with its error.  The wave actions follow `process_wave`: `FileLimit`, `ReadFails`,
`ByteLimit` and `Read` are the outcomes of one turn of `read_wave`, `SessionRejects`,
`WorkerPanics` and `Analyzed` those of `analyze_wave` with `admit_requests`, `Resolve` one
request of `resolve_requests`, `Enqueue` and `TargetGone` one of `enqueue_internal_target`,
`EndWave` the deferred error.  `Finish` is `ProjectLoadState::finish` with the status of
`load_project_with_outcome`.  The session is reduced to what `ProjectSession` shows of it: a
wave is admitted whole or not at all, success means that every source has an outcome, and
`finish` fails on sources without one and on answers that name a path that was not admitted.
`FileRemoved`, `Growth` and `Expire` are the machine around the load; the disk does not change
during discovery, but the deadline may pass.

### ProjectLinker

A program is the input of one link: the interface of each module (requests, explicit
exports, unknown or not), the targets of the requests and the link limit.  Modules, requests
and names are numbers in the order of the code's maps and vectors, so "the next one" is the
least of a set.  `CollectEdges` is `GraphBuild::build`; `StartComponent` takes any component
whose dependencies are settled, of which the code's topological order is one; `OpenExport`,
`AskRequest` and `SetExport` are the steps of `try_set_export`; `NextRound`, `GiveUp` and
`Settle` the ways a pass over a component ends; `StartValidation`, `CheckImport` and
`FinishLink` are `validate_imported_exports`.

The recursion of `lookup_export_inner` is an explicit stack with one frame for each module
export whose star exports are being walked.  `Enter` pushes a frame, `AskStar` asks the next
star export, `Leave` caches the answer and hands it to the caller with `Deliver`;
`AnswerAtOnce` and `AnswerWithoutWalk` are the lookups that need no frame.  Thus it can be seen
what the table and the cache hold while a lookup is suspended, and the limit on its
depth is a limit on the stack.

What a local export resolves to without a request (its own qualified identity, a static
string, a global, unknown) is a value of the input, `Direct`.  An import that is exported
again (`resolve_imported_identity`) is `Imported`.  The local name behind an export and the
spelling of specifiers are left out, except whether a specifier can only mean a file.
The linked program is then looked at once more for namespace imports: `NamespaceIdentities`
(`module_identities`, `resolve_namespace`) and `ExportedIdentities`
(`collect_exported_identities`) give the matcher the members of a namespace by name, with `Star`
for the wildcard.  They change no state, so `NamespaceIsExact` evaluates them where a link ends.
The reference definition is `Meaning`: the values at the ends of all paths an export is
reached by, without order, memory or budget.

### Flow analysis

A path through a file is an environment (`FlowLifecycle`): which variables alias which
tracked object and which source, requirements and sinks each object has met.
`FlowProjector` reads the fact stream once.  `frontier` is the bounded list of environments
that may hold, `stack` the frames of the open control constructs, `loops` the fixed points
under way, `run` what the run has consumed.  `Straightline` transfers one fact over every
path; `Branch`, `Switch`, `Try`, `Abrupt`, `Function` and `LoopStart` … `LoopEnd` handle the control markers; `Route` sends an abrupt exit to
the frame that takes it; `TryEnd` resumes the exits a finalizer held back, each with its kind, and
where one has no target left marks the run incomplete and goes on without any path
(`control.rs:242-245`); `StartFixedPoint` and `EndTurn` replay a loop's body over its back
edges.  Limits on paths, objects, states and emissions reject what does not fit, and `Finish` makes
every finding of a run that ran out `Possible`.  `FlowReference` executes the same block
path by path with no joins, bounds or facts; the three properties compare findings with it.
`MCFlowProjector` adds the history variable `misplaced`: it becomes true at the step at which a
finalizer loses the places of its paths (it branches, or paths that entered normally have become
one before an exit), or at which a jump gets past it by the second way a jump is routed.  The
properties of the run are stated for executions in which this never happens; what happens otherwise
is told below ("Where code and documents disagree").

The code does not keep environments but cursors into an undo log.  `FlowHistory` is that log:
every change of the tables is a delta with a parent; resuming a path climbs to the
nearest common ancestor, undoing, and comes down, redoing, one step per action.  `saved` is a
history variable.  It justifies the environments of `FlowProjector`, and the checkpoints of
`ScopeCollector`, which use the same log.

`FunctionEffects` collects what a function does with its parameters, values, calls and the bindings
it refers to under its budget; `FunctionSummaries` propagates sinks of a module's functions to their callers in
rounds; `CrossFlow` follows returned source objects between functions (`CollectSources`,
`PropagateSource`), seeds contexts from sources and from calls, and projects each context
once, in worklist order.  `CrossReference` finds routes on the bodies.

### Queries

`QueryAlgebra` holds the builders, `QueryCompiler` the passes from validation to physical roots,
`QueryMatching` the indexes, the linked overlay, the lookups of each kind of root, the argument
evaluator and the normalization of evidence: all pure operators.  `QueryPipeline` is the author
who makes calls, the compiler which takes one declaration after the other, and the matcher in its
two phases.  `Means` defines what a declaration means over facts, without index, plan or
overlay.

### Scopes

`ScopeSyntax` flattens statements into the hooks of `ScopeTraversal`.  `ScopeCollector` plans
the scopes (`Plan`), then takes one hook per action; `path` is the environment with its write
set and reachability, `frames` are the constructs being joined.  Frozen, `Resolve` is the lookup
by position.  `ScopeReference` runs the file on its tokens: a run has values, a call stack
of at most two, and takes any condition.  Properties compare `Resolve` at a use with the runs
that come there.

### Command line

`CommandLine` chains three components: an environment and a configuration are made, edited and
built into a linter (`RuleSelection`); each source is constructed under its
budget (`FactConstruction`), matched, projected, rendered and reported (`ReportAssembly`); the
report decides the exit status.  Ids and selectors are sequences of characters because what a
selector selects is the question.  What a rule finds in a module is a choice: it is the subject
of the other modules.

So is what came of linking: `LinkResults` are facts about the link — modules without a known
interface, requests with their answers and what became of the names they import, an exhausted budget,
a component that is too large — and `RequestStatus` and `LinkStatus` make of them the status entries that
`linker/mod.rs`, `graph.rs` and `export.rs` record, `LinkDiagnostics` the diagnostics that are in
no status (`MissingImportedExport`).  An imported name whose answer is unknown is in neither, and the
properties do not count it as missed: no document promises a mark for it.  A lookup cut at its
depth ends there when it goes through a re-export; asked directly it is reported as a missing export.

`CombineStep` refuses reports of another schema, of another version of the tool, or with a path that
is there already.  In `FactConstruction` a fact without a place in the source (what TypeScript lowering
generates) is left out without a mark, as in `emit`, and is not counted as lost.

## Runs

| run | instance | what it shows |
|---|---|---|
| LintBatch | 2 workers, 4 inputs, window 2, any job may panic, up to 2 channel faults | `DriverConsistent` (bounded window; results in order; until a fault every missing result has exactly one carrier), cancellation by a drop, refinement of `BatchContract`, every call of `next` returns |
| SharedCache | 2 threads, 5 sources, 4 keys (2 colliding, 1 not parsing), 2 entries, panics under the lock | `CacheIsFaithful`: well formed, transparent, no parse failure cached |
| ProjectSession | 4 sources, limits 3 sources and 4 bytes, 1 cache entry, 1 or 2 workers, 2 arguments per call | admission, outcomes, requests and report, over any sequence of calls; a batched call that succeeds has picked up what earlier calls lost (`RestIsPickedUp`); every call returns |
| ProjectLoader | 5 source files below a root, one linked directory, families of configurations (reference graphs of three files, odd references, faulty fields, inheritance, lists, single selections); waves of 2, every limit reachable, one removal, growth by one byte | `SelectionIsExact`, `DiagnosticsAreEarned`, budgets, `CompleteIsClosed` (a complete load lost nothing and answered equal requests equally), termination |
| ProjectLinker | 4 modules, 2 names, 10752 programs: an entry, a barrel, a middle and a last module with every combination of own exports, re-exports, aliases, stars, an unknown interface and two limits | every export outside a cycle gets what it means; `NamespaceIsExact`: the members of a namespace are the same whatever the arrangement of star exports, cycles included; linking ends |
| FlowProjector | files that make an object, take it through one control construct (with others nested in it) and use it; returns, breaks and continues out of tries with handlers and finalizers, of loops inside and around them, and of finalizers; 4 policies; generous and tight bounds; loops turn at most twice in the reference | `DefiniteWhenPlaced`, `WitnessedWhenPlaced`, `ExactWhenPlaced`: definite means on every path, nothing invented, a run that met no limit and lost no exit misses nothing |
| FlowHistory | one variable, two objects, every tree of up to 3 recorded changes | a resumed path has exactly its tables and counts |
| CrossFlow | three functions, 7×8×8 bodies in 4 layouts over modules, 4 policies, 2 limits, at most 14 contexts | summaries are exact, witnesses are routes, complete runs miss none, definite holds on every route |
| Query | rules of up to 5 builder calls, six files under six linkings | findings are the facts meant, queries are refused only for cause, truncation is announced |
| Scope | two statements of every kind around x and y, and helper functions with their calls | answers cover the runs; `LookupIsFaithful`: lookups by position find the scope of the language and the value in force; parameter aliases agree with the calls |
| ScopeExit | the same files, `if` with an early exit | **fails**: see below |
| CommandLine | 2 providers with 3 rules; selectors over `a`, `b`, `*` up to 2:3 letters and invalid ones; 84 ids; 2 overrides, 1 edit, 2 environment calls, paths up to 3 of 4 names; 1 or 2 files of 13 and 4 shapes; every kind of answer to a request and of imported name, exhausted and oversized links; evidence on 4 positions | path matching, selectors, the linter asked for, findings, completion, combination, exit status |

Some properties are conjunctions of facts that share a state: `DriverConsistent` contains
`WindowBound`, `OrderedResults` and `CompletionAccounted`; `CacheIsFaithful` contains
`CacheWellFormed`, `Transparent` and `ParseFailuresNotCached`; `RefusalsAreJust` contains
`ContradictionIsExact` and `AcceptedCompiles`; `ReportIsExact` contains
`PlanIsExact` and `TruncationAnnounced`; `LookupIsFaithful` contains `LookupMatchesCollection` and
`LookupIsLexical`.  The type invariants, `AbortIsFinal`, `EndsComplete`, `NoInventedPanic` and
`ReplacementEvictsNothing` are stated and proved but are not properties of a run.

Bounds.  Two workers or threads are the smallest number with a race; every property is
about at most two actors and the state they share.  Inputs exceed the window by enough that
the window slides; the cache is smaller than the set of keys so that eviction happens; the
session's limits are smaller than the set of sources, its batch of one worker (two jobs)
smaller than its sources; the loader's files are more than a wave, than the file limit, than
the session's limit and than the byte limit.  Discovery's limits (4 files, 27 entries, 6
configurations, depth 3, 7 bytes of configuration) are each exceeded by some selection and
kept by others, and every kind of failure and diagnostic occurs.  The linker's programs have
cycles of two, three and four modules, a star export seen from two sides and a diamond; its
lookup depth, cache, edge, export and component limits all bite.  The flow runs include path
limits of one and two, so that joins truncate.  Of the 5712 files with a jump out of a try block,
2543 have a run that `misplaced` exempts; the others, and those with a loop inside a try and none
around it, are checked in full and reach the exit without a target.  `MaxFaults`, `MaxRemovals`, `Growth`,
`MaxArguments`, `MaxTurns`, `MaxObjects`, `MaxHops`, `MaxCallDepth`, `MaxCalls`, `MaxOverrides`,
`MaxEdits`, `MaxEnvironmentCalls` and the linker's `MaxRequests` are bounds of the models, not of
the code.  Deadlock is checked except where a pipeline ends and has nothing to do (CommandLine,
Query, CrossFlow, Scope, ScopeExit).  `MaxPathLength` of `CommandLine` bounds the paths compared
in TLC only.

Fairness.  `LintBatch!FairSpec` is weakly fair for the consumer thread while it is inside
`next` and for each pool thread while it has work: `recv` and pool threads are scheduled
by the operating system, and a job always ends because analysis is bounded.  No caller has
to call `next`, drop the iterator or inject a fault.  `ProjectSession!FairSpec` and
`ProjectLoader!FairSpec` are fair only for the thread inside the call.  The loader's fairness
for discovery says without ENABLED that steps go on until files are found or refused; that a
step is possible until then is the deadlock check.  `ProjectLinker!FairSpec` is fair for its
caller's thread, which never waits inside a link.  Nothing makes the deadline pass, a file vanish or
another session act.  The other components are sequential computations; their runs terminate
because TLC finds a finite graph without cycles other than ends, and they state no liveness.

## Proofs

TLAPS checks, for every value of the constants:

`LintBatchProofs`.  `WindowBound`, `OrderedResults`, `EndsComplete` and `TypeOK` follow from
`IInv`, the conjunction of
- `WindowInv`: the pending map is exactly the interval from the next expected to the next index,
  `in_flight` is its size, and each entry is missing or belongs to its index.  The
  invariants alone are not inductive: they do not say what is *in* the map when `Yield` takes
  from it;
- `ResultInv`: every message with a result carries the result of its index;
- `FlagInv`: how sender, exhausted, aborted, finished and cancelled constrain one another; in
  particular the sender is given up only when nothing more will be submitted.

The action properties `DropCancels` and `AbortIsFinal` and the refinement
`ImplementsContract` use the same invariant: initial states map to initial states, and each
step to a step of the contract or a stutter.  Faults may be any set, so these hold with
and without channel misbehaviour.  A second invariant, `AInv`, says that while no fault has
happened each missing result has exactly one carrier (a queued job, a running job or a
message) and nothing else has one; `CompletionAccounted` and `NoInventedPanic` follow, and with the
above `DriverIsConsistent`.

`SharedCacheProofs`.  The facts about the deque that both its users rest on come first: a lookup
returns the artifact of the very key or a miss, whatever fingerprints collide (`LookupIsExact`), and
an insertion keeps the deque bounded, free of duplicates and sound (`InsertKeeps`).  The invariant
adds to them that a thread about to insert has a key that parses and a finished thread has the
outcome of its own source.  `CacheIsFaithfulAlways` and
`ReplacementEvictsNothing` follow for any number of threads, keys and capacities.

`ProjectSessionProofs`.  The invariant `IInv` proved by `SessionInvariant` adds to the tables' types
and the checked properties
- `CacheInv`: the cache is well formed and holds no key that fails to parse, so that an outcome
  taken from it is the source's own;
- `BatchInv`: jobs and results are of distinct sources which are admitted, pending and no longer
  candidates.  Without it `OutcomesFaithful` is not inductive: a second completion of a source
  could replace a recorded outcome;
- `CallInv`: what a call may have left to do at each place, so that a session at rest has nothing
  left over; `HandedInv`: unless a call failed, the authored requests are those already returned
  and those of the call under way;
- `ReportInv`: the report exists only when the session is over.  Consecutive ids follow from
  `RanksAreDense` of `Counting`.

`TablesOK`, `ControlOK` and `AdmissionBounded` are its other parts.  It says that jobs are pending
sources, not that every pending source has a job; that is `AccountInv`, which holds only inside a
batched call and until a panicked job was merged, and is proved from `IInv` for `SessionPicksUpRest`:
when a batched call succeeds nothing is left pending, whichever call admitted it.

`SessionAdmissionBounded`, `SessionOutcomesFaithful`, `SessionHandsOver` and
`SessionReportDeterministic` follow for any sources, limits, worker counts and any sequence of
calls, panics and insertions by other sessions.

`ProjectLoaderProofs`.  `LoaderInvariant` proves `IInv`: until something cuts the load short, what was
ever queued is queued, in the wave, read or analyzed (`QueueInv`, `KeptInv`); the byte counter
covers the admitted sources, and what was read beyond the limit is deferred before it is admitted
(`BytesInv`); the request counter is the answered requests and the open ones (`RequestInv`); answers
of one importer go through one table by specifier (`AnswerInv`).  `LoaderKeepsBudgets` and
`LoaderCompleteIsClosed` follow while files vanish, grow or time runs out.  Of discovery these use
only that it ends with a sequence of distinct accepted paths or a refusal, which its type gives.

`LoaderDiagnosticsAreEarned` is about discovery itself, with an invariant of its own
(`DiscoveryInv`):
- `WalkInv`: the active configurations are a path of references from the selection (`IsPath`); the
  stack is layered: what an active configuration still refers to lies above its own exit and below
  that of the next one on the path (`Layered`); every reference of an active configuration is left, pending,
  next on the path or reported as a cycle (`Handled`); what a configuration that was left refers
  to has been left, and it is on no cycle unless one was reported (`Left`).  The property is not
  inductive without the stack: that a cycle closes on the *active* path, not on what is merely
  visited, shows only in where the exits lie;
- `ChainInv`: the chain of `extends` under way is the beginning of `Lineage`, without repetition;
- `ToldInv`: apart from cycles and patterns, the diagnostics are exactly those of the configurations
  read so far, the one under way as far as it has got.

At the end the stack is empty, so the visited configurations are closed under references and the
least such set, which is `Reached` (`ReachedIsLeast`, `WalkIsExact`), and `LineageIs` identifies
the chains.  The statement is about discoveries that succeed; one that fails at a limit, the deadline
or a file that does not parse delivers no diagnostics.

`ProjectLinkerProofs`.  `LinkerInvariant` proves `IInv`: `TypeInv` (with `WaitInv`: who waits for the
answer of a lookup), `StartInv` and, once the graph is built and unless a limit was exhausted,
`LinkInv`, whose parts are
- `GraphWhole`: the graph has every internal request and the components are those of the graph;
- `OrderInv`: the dependencies of what is settled, and of the component under way, are settled;
- `PresentInv`: what has been passed has an entry in the table;
- `CallInv`: the frames of the stack and the lookup they wait for are distinct exports, each asked
  for by the one before it, and each frame is right for the star exports it has asked already;
- `GoalInv`: the same for the requests of the export under way;
- `AnswersRight`: every answer in the table and the cache is `Right`: a definite identity is all the
  name can mean, and a name which means one thing has it when no lookup can get too deep;
- `SettledMeans`: what leads on somewhere and is settled comes to a value.

The invariant speaks of half-made walks because the cache is filled while callers are suspended;
this is what makes the never invalidated cache harmless outside cycles.  Reachability and
`Paths` are closures bounded by the number of modules or exports; `SpreadCloses` of `Counting` shows
that the bounds suffice.

`LinkerAcyclicIsExact` follows for every program, number of modules, order of the components, cache
capacity and depth limit.  The proof showed why `DepthSuffices` has to be a condition on the whole
project: a lookup that is cut at `MAX_EXPORT_DEPTH` answers None without marking anything as
exhausted (`resolver.rs:37`), and the callers' None is remembered (`resolver.rs:192`) and given
to shallower lookups later.  That no lookup is cut then follows because the modules on the
stack are distinct and all have star exports.

`FlowHistoryProofs`.  `HistoryInvariant` proves `IInv`: every recorded position has an earlier
parent, replaying its delta on what was saved for the parent gives what was saved for it, and
during a transition the live tables are what was saved for the position it stands on
while the rest of the way is linked.  `HistoryTypeCorrect` and `RestoreExactEverywhere` — a
resumed path is exactly the path that was saved — follow for any tables, events and number of
changes, and so does `CountsExactEverywhere`: the reference counts, which each step changes by one,
are the sizes of the sets of variables that hold an object.  It needs `Vars` to be finite.

`CommandLineProofs`.  All seven properties of the run, for any catalogs, selectors, files, evidence
and other reports.
- `PathMatchIsAlwaysSound`: for every `MaxPathLength`, though the lemma `MatchingPaths` it is an instance
  of speaks of any two paths in any environment: matching is a pure function, and no step
  of the specification is needed.  What a path denotes is the suffix behind the first prefix that is not a
  global object, and matching keeps it (`FirstPlain`, `DenotesUnfolds`).
- `SelectorIsAlwaysGlob`: `Glob` is the textbook recursion on both texts, the matcher walks
  segments from left to right and takes the leftmost place of each.  The lemma `PatternIsGlob`
  shows them equal: a text that fits fits with the leftmost place too, so being greedy loses
  nothing.  `ConfigInv` says that overrides are texts.
- `LinterIsAlwaysAskedFor`: `LinterInv` says that the prepared selection belongs to the
  configuration it was made from and a built linter to the present one.  The
  property is not inductive without it: an edit makes the two differ, and only the comparison
  made when the linter is built tells.  `EnabledIsLast` shows that the fold over overrides is
  the last override that selects the rule.
- `FindingsAlwaysCoverEvidence`: sorted by start with the longer first, a range is kept exactly if it
  lies in no other (`RetainedAreWidest`); the cursor, which only moves forward, passes no entry
  that a later kept range contains (`GroupsAreWidest`); merging what rules of one id found keeps both
  (`MergeKeeps`).
- `CombineIsAlwaysOrderFree`: sorting by path gives one sequence for one set of files
  (`RankedEnumerates` of `Counting`).
- `CompletionIsAlwaysHonest` and `SuccessIsAlwaysEarned`: `RunInv` carries what was known when a file
  was analysed up to the exit: the linter is one of a catalog, status, evidence and findings are
  made from the files there are (`Matched`), and the report delivers them (`Delivers`) whatever
  the loader adds.  `CompletionIsHonest` alone is not inductive: it does not say where the
  status came from.  `Missed` does not look at the status: it is read off the files, off what came of
  each request and export in the link, and off the flow bounds.  `ArtifactIsHonest` says that a budget
  cut leaves its mark in the facts, `LinksAreTold` and `LinksAreWhole` that everything the linker meets
  reaches status or diagnostics, `CompleteIsWhole` that a status without entries means that nothing
  was missed, `NothingIsHidden`
  that each reported range is in a file of the report.

What a fold of the community modules returns is defined by a `CHOOSE` of a recursive function; it can
be used because such a function exists (`RecursionExists`) and is the only one (`FoldExists`,
`FoldWalks`); so are the recursions by which `Reached` and `Lineage` are defined.  `SetInduction` of `Counting` states induction with a set instead of an operator, so that
the provers can use it.

The proofs assume only what the `ASSUME`s of the modules say of the constants, and TLC evaluates
these for each instance.  `LinkerConstants` and `ProgramsAssumption` say that modules, names and
requests are numbered and that a program names only these, which the code's vectors and maps
guarantee.  `ConfigsAssumption` says that a project has finitely many configurations and that JSON
arrays are lists.  Those of `CommandLine` say what each choice of the surroundings is: selectors and ids are
texts and catalogs sequences of rules that combine, being compiled in (`CatalogsAssumption`);
another report names each of its files once (`ReportsAssumption`), as the map it is made from
guarantees; a source asks of the fact walk one of the six things there are; a link is any
member of `LinkResults`; the bounds hit are of files and modules there are; and evidence is a finite set
of finitely many occurrences for exactly the rules asked about.

Model-checked only:
- liveness under fairness (`EveryCallReturns`, `EveryLoadReturns`, `EveryLinkEnds`), which is out of reach
  for TLAPS;
- `NamespaceIsExact`, whose overlay is a fold over star exports within a recursion over modules:
  comparing it with `Meaning` is induction over both at once, and no proof was attempted.
  `AcyclicIsExact` could be proved because `Paths` is a least closure and can be used by what it
  is least of (`PathsFacts`);
- `SelectionIsExact`: the graph it rests on is proved (`WalkIsExact`, `LineageIs`), but that merging a
  chain of `extends` level by level, rebasing patterns at each, comes to the nearest field at
  its own place compares two computations on paths and globs; no proof was attempted;
- flow projector, queries and scopes: their references (`Sightings`, `Means`, the runs of a file) and parts of the
  modules themselves are RECURSIVE operators, which the prover cannot load;
- project-wide flow: `CrossReference` compares with `Routes`, which have at most `MaxHops` calls; with
  cycles of calls its statements hold only for bounds like those of the instance.

## Where code and documents disagree

The failing run `ScopeExit`: `restore_checkpoint` (`assignments.rs:74-87`) restores environment and
write set but not `reachable`, so after `if (c) { x = B; return; }` everything that follows counts
as unreachable and its assignments are dropped (`assignments.rs:98`); core `ARCHITECTURE.md:85-90`
promises evidence from the paths that continue.  `DarkIsUnreached` fails; the other scope
properties are stated for files in which this does not happen.

Two more are exempted from the properties of `FlowProjector` by `misplaced`, and are found by TLC when
`Projections` is `BranchedFinalFiles` or `JumpedTryFiles` and the properties are stated without
it.

*A branching finalizer.*  Behind a finalizer `end_try` takes the first `normal_count` paths for those that
entered it normally (`control.rs:236`), but a finalizer that branches has made more of them.  In
`try { s.src = u } finally { if (c) { s[k] = v } } append(s)` the path that cleared the requirement
is dropped and the sink is reported Definite, which core `README.md:108` says of every modeled
path.  `DefiniteOnEveryPath` does not hold.

*A jump past a finalizer.*  A jump out of a try block is recorded for its finalizer and also sent straight to its
loop (`transfer_abrupt`, `control.rs:261`); `end_try` sends it there again.  In
`s.src = u; do { try { break } finally { s[k] = v } } while (c); append(s)` the copy that bypassed
the finalizer reaches the sink with the requirement met, and a possible finding is reported
without an execution behind it, which core `README.md:109` excludes.  `FindingsWitnessed` does not hold.

The following were found while modelling.  The models do what the code does; where a property
would be broken by one, it names the exemption (`misplaced`, `Plain`, `KnownDivergence`, `KnownRefusal`,
`Misattributed`, `Turns`, `Known`, `LookedUpElsewhere`, `Followed`).

*Cache and loader.*
- Core `ARCHITECTURE.md` says "poisoning is a miss"; the code recovers the mutex and hits.
- The project README says resource boundaries yield partial output.  An answer that names a file
  which a limit kept out makes `finish` and the load fail (`loader.rs:164`); files read earlier in a
  wave are dropped by the file-count and per-file limits although the comment in `loader.rs` says
  they are still analyzed; and every limit of discovery is an error.

*Discovery.*
- A configuration that inherits patterns from a directory above selects nothing by them: the
  pattern, also the default, is rebased to `../…`, which no path below the child matches, while
  `selection.rs:285` says each path is interpreted relative to where it was declared.
- Own patterns keep `.` and `..` (`./src/**` matches nothing), inherited ones are normalized;
  rebasing drops a trailing slash, and a pattern of one component then loses its base-name meaning.
- `outDir` and the default excludes match a directory's own path, not the files below it.
- An invalid `exclude` and a missing, packaged or invalid `extends` broaden the selection, with a
  diagnostic; inherited `files` override the child's own `include`; listed files that are missing
  or unsupported are passed over silently.
- The depth of references is checked before cycles, so success may depend on their order.

*Linker.*
- A star target that lacks a name counts as unresolved (`resolver.rs:250`), so a barrel of two
  files answers None for names of either and diagnoses them (`export.rs:146`); the namespace
  overlay of `identities.rs` merges the same stars correctly, as `NamespaceIsExact` shows.
- `identity_map.rs:51` calls its policy the source of truth for both, but the overlay also differs
  from the resolver in what it walks: it passes over stars of packages and of unresolved modules
  (`identities.rs:200`) and modules whose interface is unknown, so that a member may be definite
  where the named import is ambiguous; it carries `default` through stars; and a module one past
  the depth limit is a wildcard where the resolver still reads its table.  `NamespaceIsExact`
  speaks of the modules that are `Closed` and of names other than `default`.
- The lookup cache is never invalidated (`resolver.rs:193`) while the table changes from round to
  round: outside cycles harmless, in a cycle an answer may keep a package's identity that
  `ARCHITECTURE.md:85` would want proven.  `AcyclicIsExact` speaks of exports that are in no cycle
  and `Followed`: a chain of stars longer than `MAX_EXPORT_DEPTH` is cut off silently.
- The fallback for unresolved requests also runs for resolved ones (`resolver.rs:117`).
- A cycle that needs more rounds than its modules plus one is given up as exhausted, its own local
  exports included; that is conservative.

*Flow.*
- Deduplicating the paths a `finally` leaves with shifts the indices by which kinds of exit are
  found (`control.rs:212`, `:236`), so a path that returned may go on after the try, which
  `tests_extended.rs:133` excludes for a single path.  With the branching finalizers and the jumps
  just described these are the runs in which `misplaced` becomes true.
- A break of an inner loop, recorded for a finalizer around that loop, is sent on to an outer loop,
  if there is one, and otherwise makes the run incomplete (`control.rs:242`).
- A loop's replay emits nothing (`driver.rs:175`), so a sink in a loop may be called Definite
  for its first turn only; properties exempt events in loops (`Turns`).
- A state rejected by its limit leaves the old alias (`tables.rs:318`), hence `FindingsWitnessed`
  excludes runs that rejected a state.
- Project-wide: requirement effects are not checked for their source (`propagation.rs:228`), and a
  candidate returned into another module is attributed to that module (`sources.rs:54`).  A call
  whose source is known but which brings no evidence seeds `Possible`; every call into another
  module that passes on its own parameter counts as an unknown alternative; exhausted effects do
  not downgrade certainty.

*Queries.*
- `normalize_any_root` drops a nested `any` that collapses to one branch; if all collapse the
  result is an internal error.  `any` over lifecycles, `all` over member calls with arguments, and
  lifecycles with mixed sources are accepted by the builder and refused by the compiler.
- An overlay bucket displaces the base occurrences; `resolve_package` ignores masks where the
  overlay has no bucket; constructor lookups of globals include the overlay's calls; constrained
  rooted and namespace lookups want the exact chain.
- `QUERY_CAPABILITIES.md:496` calls heuristics always possible; their evidence is Definite.

*Scopes.*  The frozen lookup goes by source order: in another arm (`OffPath`), after an enclosing
function (`Enclosed`), in loops (`Carried`) or with finalizers and dead ends (`Finalized`,
`Buried`) it may find another assignment than the one in force, a right-hand side sees the value
being assigned, and loops and fallthrough are not iterated.

*Command line.*
- `extend` is called additive, but a wider object replaces a restricted one whose member is no
  global of its own; adding an object with members narrows where extending widens.
- An occurrence that is possible merged with one that is definite makes the finding definite.
- `with_prepared_rules` bypasses the check for duplicate ids.
- Any report-level diagnostic fails the command, complete or not and whatever `fail_on` says;
  snippet output prints neither these diagnostics nor completion.
- A broken pipe exits with success even with findings, as `bin.rs` intends.

## Not modelled

Parsing (SWC), module resolution (oxc_resolver), glob matching and JSON are third-party code
and appear by what they answer.  Rule catalogs are data.  Rendering, timings, telemetry, argument
parsing and the profiling harness have no state that outlives a call.

Inside the modelled components: the linker's identities of call results, the propagation of local
statuses and the text and order of diagnostics; of discovery the default extension of `extends`, the order inside
lists, links to files, disk changes while it runs and Windows paths; of scopes destructuring,
members and static objects, budgets, callbacks of `forEach` and `then`, named function expressions;
of the fact stream functions with a return inside a try, and exceptions other than at the start of a try
block; of project-wide flow rest and default parameters, overlay storage limits, trace arenas and
several lifecycles at once; of queries object-key and property matchers, explanations, the parsing of
chains and names, and the parser of network addresses; of interners, arenas and path tries
everything, because they are storage without a protocol.  How a syntax tree becomes facts is not
modelled: the flow, query and scope modules start from facts or hooks.

## Plan

1. `SessionContract`, refined by `ProjectSession` and used by `ProjectLoader`.
2. Destructuring and members in the scope modules.
3. `SelectionIsExact` as a theorem: merging along a chain of `extends` against the nearest field.
