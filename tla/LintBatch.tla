----------------------------- MODULE LintBatch -----------------------------
(***************************************************************************)
(* Bounded, input-ordered linting of independent sources                   *)
(* (glass-lint-core/src/lint/batch.rs and Linter::lint_batch).             *)
(*                                                                         *)
(* One consumer thread owns the driver and calls `next`; a pool of workers *)
(* runs the submitted jobs and sends completions over an mpsc channel.     *)
(* The k-th source of the input is the number k (counted from 0), and the  *)
(* value `k` used as a result stands for whatever `run_single_source`      *)
(* returned for that source, report or project error.                      *)
(*                                                                         *)
(* Faults are the channel misbehaviours the driver defends against and the *)
(* unit tests inject: "foreign" (a completion for an index that was never  *)
(* submitted), "duplicate" (a completion sent twice) and "lost" (a job     *)
(* that ends without sending).  With Faults = {} the module is the code    *)
(* as it is wired in lint_batch.                                           *)
(***************************************************************************)
EXTENDS Integers, Sequences

CONSTANTS Inputs,       \* number of sources the input iterator yields
          MaxInFlight,  \* BatchOptions::max_in_flight
          Workers,      \* the threads of the dedicated pool
          Faults,       \* subset of {"foreign", "duplicate", "lost"}
          MaxFaults,    \* bound on the number of injected faults
          WorkerPanic,  \* LocalExecutionError::WorkerPanic
          Missing,      \* a pending entry without a result (None)
          Idle          \* a worker without a job

ASSUME ConstantsAssumption ==
  /\ Inputs \in Nat
  /\ MaxInFlight \in Nat \ {0}
  /\ MaxFaults \in Nat
  /\ WorkerPanic \notin Nat /\ Missing \notin Nat /\ Idle \notin Nat
  /\ WorkerPanic # Missing

VARIABLES nextIndex,     \* index given to the next submitted source
          nextExpected,  \* index of the next result to yield
          inFlight,      \* submitted and not yet yielded
          entries,       \* pending entries: index -> result or Missing
          exhausted, aborted, finished,
          sender,        \* the driver still holds its channel sender
          cancelled,     \* the shared cancellation flag
          pc,            \* where the consumer thread is
          queued,        \* jobs spawned on the pool, not started
          running,       \* worker -> index of its job, or Idle
          channel,       \* completions sent and not received
          faults,        \* faults injected so far
          panicked,      \* history: sources whose analysis panicked
          yielded        \* history: the results returned by `next`

driverVars == <<nextIndex, nextExpected, inFlight, entries, exhausted,
                aborted, finished, sender, cancelled, pc, yielded>>
poolVars   == <<queued, running, channel, faults, panicked>>
vars       == <<driverVars, poolVars>>

Index   == 0 .. (Inputs - 1)
Results == Nat \cup {WorkerPanic}
(* An index no submission ever returns; the tests use usize::MAX. *)
ForeignIndex == Inputs
Completion(i, r) == [index |-> i, result |-> r]

DriverTypeOK ==
  /\ nextIndex \in 0 .. Inputs
  /\ nextExpected \in Nat
  /\ inFlight \in Int
  /\ entries \in [DOMAIN entries -> Results \cup {Missing}]
  /\ DOMAIN entries \subseteq Index
  /\ exhausted \in BOOLEAN /\ aborted \in BOOLEAN /\ finished \in BOOLEAN
  /\ sender \in BOOLEAN /\ cancelled \in BOOLEAN
  /\ pc \in {"ready", "refill", "poll", "dropped"}
  /\ yielded \in Seq([index : Nat, result : Results])

PoolTypeOK ==
  /\ queued \subseteq Index
  /\ running \in [Workers -> Index \cup {Idle}]
  /\ channel \in Seq([index : 0 .. Inputs, result : Results])
  /\ faults \in Nat
  /\ panicked \subseteq Index

TypeOK == DriverTypeOK /\ PoolTypeOK

Init ==
  /\ nextIndex = 0 /\ nextExpected = 0 /\ inFlight = 0
  /\ entries = [i \in {} |-> Missing]
  /\ exhausted = FALSE /\ aborted = FALSE /\ finished = FALSE
  /\ sender = TRUE /\ cancelled = FALSE
  /\ pc = "ready"
  /\ queued = {}
  /\ running = [w \in Workers |-> Idle]
  /\ channel = <<>>
  /\ faults = 0
  /\ panicked = {}
  /\ yielded = <<>>

----------------------------------------------------------------------------
(* PendingBatch *)

(* Mutant: one submission too many. *)
CanSubmitOffByOne == inFlight <= MaxInFlight

CanSubmit == inFlight < MaxInFlight

Ready == /\ nextExpected \in DOMAIN entries
         /\ entries[nextExpected] # Missing

(* Every pending entry becomes a worker panic, completed ones included. *)
FailProtocol == entries' = [i \in DOMAIN entries |-> WorkerPanic]

SynthesizeMissing ==
  entries' = [i \in DOMAIN entries |->
                IF entries[i] = Missing THEN WorkerPanic ELSE entries[i]]

(* `complete` refuses an unknown index and a second completion. *)
Acceptable(c) == /\ c.index \in DOMAIN entries
                 /\ entries[c.index] = Missing

----------------------------------------------------------------------------
(* The consumer thread: BatchDriver::next_result and Drop *)

CallNext ==
  /\ pc = "ready" /\ ~finished
  /\ pc' = "refill"
  /\ UNCHANGED <<nextIndex, nextExpected, inFlight, entries, exhausted, aborted,
                 finished, sender, cancelled, yielded, poolVars>>

CallNextAfterEnd ==
  /\ pc = "ready" /\ finished
  /\ UNCHANGED vars

MayRefill == CanSubmit /\ ~exhausted /\ ~aborted

(* One turn of the refill loop that gets a source: submit it, spawn a job. *)
Submit ==
  /\ pc = "refill" /\ MayRefill
  /\ nextIndex < Inputs
  /\ nextIndex' = nextIndex + 1
  /\ inFlight' = inFlight + 1
  /\ entries' = [i \in DOMAIN entries \cup {nextIndex} |->
                   IF i = nextIndex THEN Missing ELSE entries[i]]
  /\ queued' = IF sender THEN queued \cup {nextIndex} ELSE queued
  /\ pc' = IF sender THEN "refill" ELSE "poll"
  /\ UNCHANGED <<nextExpected, exhausted, aborted, finished, sender, cancelled,
                 yielded, running, channel, faults, panicked>>

(* Mutant: close_input keeps the sender. *)
ExhaustKeepingSender ==
  /\ pc = "refill" /\ MayRefill
  /\ nextIndex = Inputs
  /\ exhausted' = TRUE
  /\ pc' = "poll"
  /\ UNCHANGED <<nextIndex, nextExpected, inFlight, entries, aborted, finished,
                 sender, cancelled, yielded, poolVars>>

(* input.next() returned None: close_input then drops the sender. *)
ExhaustInput ==
  /\ pc = "refill" /\ MayRefill
  /\ nextIndex = Inputs
  /\ exhausted' = TRUE
  /\ sender' = FALSE
  /\ pc' = "poll"
  /\ UNCHANGED <<nextIndex, nextExpected, inFlight, entries, aborted, finished,
                 cancelled, yielded, poolVars>>

StopRefill ==
  /\ pc = "refill" /\ ~MayRefill
  /\ sender' = (sender /\ ~exhausted)
  /\ pc' = "poll"
  /\ UNCHANGED <<nextIndex, nextExpected, inFlight, entries, exhausted, aborted,
                 finished, cancelled, yielded, poolVars>>

(* take_ready found the next expected result: `next` returns it. *)
Yield ==
  /\ pc = "poll" /\ Ready
  /\ yielded' = Append(yielded, [index |-> nextExpected,
                                 result |-> entries[nextExpected]])
  /\ entries' = [i \in DOMAIN entries \ {nextExpected} |-> entries[i]]
  /\ nextExpected' = nextExpected + 1
  /\ inFlight' = inFlight - 1
  /\ pc' = "ready"
  /\ UNCHANGED <<nextIndex, exhausted, aborted, finished, sender, cancelled,
                 poolVars>>

Finish ==
  /\ pc = "poll" /\ ~Ready /\ inFlight = 0
  /\ finished' = TRUE
  /\ pc' = "ready"
  /\ UNCHANGED <<nextIndex, nextExpected, inFlight, entries, exhausted, aborted,
                 sender, cancelled, yielded, poolVars>>

Waiting == pc = "poll" /\ ~Ready /\ inFlight # 0

ReceiveCompletion ==
  /\ Waiting
  /\ channel # <<>>
  /\ LET c == Head(channel) IN
       IF Acceptable(c)
         THEN /\ entries' = [entries EXCEPT ![c.index] = c.result]
              /\ UNCHANGED <<sender, aborted>>
         ELSE /\ FailProtocol
              /\ sender' = FALSE
              /\ aborted' = TRUE
  /\ channel' = Tail(channel)
  /\ UNCHANGED <<nextIndex, nextExpected, inFlight, exhausted, finished,
                 cancelled, pc, yielded, queued, running, faults, panicked>>

(* recv fails once the channel is empty and every sender is gone: the      *)
(* driver's own and the clone held by each job, queued or running.         *)
Disconnected == /\ channel = <<>>
                /\ ~sender
                /\ queued = {}
                /\ \A w \in Workers : running[w] = Idle

ReceiveDisconnected ==
  /\ Waiting
  /\ Disconnected
  /\ SynthesizeMissing
  /\ UNCHANGED <<nextIndex, nextExpected, inFlight, exhausted, aborted, finished,
                 sender, cancelled, pc, yielded, poolVars>>

(* Dropping the iterator between two calls of `next`. *)
Drop ==
  /\ pc = "ready"
  /\ cancelled' = TRUE
  /\ pc' = "dropped"
  /\ UNCHANGED <<nextIndex, nextExpected, inFlight, entries, exhausted, aborted,
                 finished, sender, yielded, poolVars>>

----------------------------------------------------------------------------
(* The pool: the closure spawned by refill *)

(* Mutant: the job does not look at the cancellation flag. *)
StartJobUnchecked(w) ==
  /\ running[w] = Idle
  /\ \E i \in queued : /\ queued' = queued \ {i}
                       /\ running' = [running EXCEPT ![w] = i]
  /\ UNCHANGED <<driverVars, channel, faults, panicked>>

StartJob(w) ==
  /\ running[w] = Idle
  /\ ~cancelled
  /\ \E i \in queued : /\ queued' = queued \ {i}
                       /\ running' = [running EXCEPT ![w] = i]
  /\ UNCHANGED <<driverVars, channel, faults, panicked>>

SkipJob(w) ==
  /\ running[w] = Idle
  /\ cancelled
  /\ \E i \in queued : queued' = queued \ {i}
  /\ UNCHANGED <<driverVars, running, channel, faults, panicked>>

(* The receiver is gone once the iterator is dropped: the send is ignored. *)
Send(c) == channel' = IF pc = "dropped" THEN channel ELSE Append(channel, c)

(* Mutant: no catch_unwind, a panicking job sends nothing. *)
FinishJobUncaught(w) ==
  /\ running[w] # Idle
  /\ LET i == running[w] IN
       \/ /\ Send(Completion(i, i))
          /\ UNCHANGED panicked
       \/ /\ UNCHANGED channel
          /\ panicked' = panicked \cup {i}
  /\ running' = [running EXCEPT ![w] = Idle]
  /\ UNCHANGED <<driverVars, queued, faults>>

(* catch_unwind turns a panic of the analysis into a result. *)
FinishJob(w) ==
  /\ running[w] # Idle
  /\ LET i == running[w] IN
       \/ /\ Send(Completion(i, i))
          /\ UNCHANGED panicked
       \/ /\ Send(Completion(i, WorkerPanic))
          /\ panicked' = panicked \cup {i}
  /\ running' = [running EXCEPT ![w] = Idle]
  /\ UNCHANGED <<driverVars, queued, faults>>

----------------------------------------------------------------------------
(* Injected faults *)

Fault(kind) == /\ kind \in Faults
               /\ pc # "dropped"
               /\ faults < MaxFaults
               /\ faults' = faults + 1

SendForeign ==
  /\ Fault("foreign")
  /\ Send(Completion(ForeignIndex, WorkerPanic))
  /\ UNCHANGED <<driverVars, queued, running, panicked>>

SendTwice(w) ==
  /\ Fault("duplicate")
  /\ running[w] # Idle
  /\ Send(Completion(running[w], running[w]))
  /\ UNCHANGED <<driverVars, queued, running, panicked>>

(* Only once the driver is done with the input: as long as it keeps a sender  *)
(* of its own, `recv` waits for ever for a completion that no job sends.      *)
LoseCompletion(w) ==
  /\ Fault("lost")
  /\ running[w] # Idle /\ (exhausted \/ aborted)
  /\ running' = [running EXCEPT ![w] = Idle]
  /\ UNCHANGED <<driverVars, queued, channel, panicked>>

----------------------------------------------------------------------------
(* Between calling `next` and its return the driver takes only these steps. *)
Driver == \/ Submit \/ ExhaustInput \/ StopRefill
          \/ Yield \/ Finish
          \/ ReceiveCompletion \/ ReceiveDisconnected

Consumer == CallNext \/ CallNextAfterEnd \/ Drop

(* The iterator is dropped and the pool has nothing left to do. *)
Terminated == /\ pc = "dropped"
              /\ queued = {}
              /\ \A w \in Workers : running[w] = Idle
              /\ UNCHANGED vars

Worker(w) == StartJob(w) \/ SkipJob(w) \/ FinishJob(w)

Environment == \/ SendForeign
               \/ \E w \in Workers : SendTwice(w) \/ LoseCompletion(w)

Next == \/ Consumer \/ Driver
        \/ \E w \in Workers : Worker(w)
        \/ Environment
        \/ Terminated

Spec == Init /\ [][Next]_vars

(* The consumer thread runs while it is inside `next`, the pool threads run  *)
(* while they have work.  Nothing obliges the caller to call `next`, to drop *)
(* the iterator, or a fault to happen.                                       *)
Fairness == /\ WF_vars(Driver)
            /\ \A w \in Workers : WF_vars(Worker(w))

FairSpec == Spec /\ Fairness

----------------------------------------------------------------------------
(* Safety *)

(* The number of sources taken from the input and not yet returned is the    *)
(* driver's own count and never exceeds max_in_flight, so a slow consumer    *)
(* bounds the memory held; the pending map is exactly that window.           *)
WindowBound ==
  /\ inFlight = nextIndex - Len(yielded)
  /\ inFlight <= MaxInFlight
  /\ DOMAIN entries = Len(yielded) .. (nextIndex - 1)

(* Results come out in input order, none skipped or repeated, each one       *)
(* carrying the outcome of its own source whatever order the workers finish. *)
OrderedResults ==
  \A k \in DOMAIN yielded :
    /\ yielded[k].index = k - 1
    /\ yielded[k].result \in {k - 1, WorkerPanic}

(* The completion of i is still to come: from a job or from a message. *)
Carried(i) == \/ i \in queued
              \/ \E w \in Workers : running[w] = i
              \/ \E k \in DOMAIN channel : channel[k].index = i

(* No source has two carriers. *)
CarriedOnce ==
  /\ \A w \in Workers : running[w] \notin queued
  /\ \A v, w \in Workers : running[v] = running[w] /\ running[v] # Idle => v = w
  /\ \A k \in DOMAIN channel :
       /\ channel[k].index \notin queued
       /\ \A w \in Workers : running[w] # channel[k].index
       /\ \A j \in DOMAIN channel : channel[j].index = channel[k].index => j = k

(* Until a fault, while the iterator is alive, a submitted source lacks a    *)
(* result exactly when one job or one message will bring it: `recv` neither  *)
(* blocks for ever nor delivers an unknown or duplicate index.               *)
CompletionAccounted ==
  faults = 0 /\ pc # "dropped" =>
    /\ \A i \in 0 .. Inputs :
         Carried(i) <=> i \in DOMAIN entries /\ entries[i] = Missing
    /\ CarriedOnce

(* The driver's count, its pending map, the pool and the results returned    *)
(* agree: the window is what was submitted and not returned, results come in *)
(* order, and until a fault every missing one has exactly one carrier.       *)
DriverConsistent == WindowBound /\ OrderedResults /\ CompletionAccounted

(* Until a fault a WorkerPanic is never invented: the analysis of that very *)
(* source panicked.                                                          *)
NoInventedPanic ==
  faults = 0 =>
    /\ ~aborted
    /\ \A k \in DOMAIN yielded :
         yielded[k].result = WorkerPanic => yielded[k].index \in panicked

(* The iterator ends only with everything it took from the input returned,   *)
(* and before the end of the input only after a protocol failure.            *)
EndsComplete ==
  finished => /\ Len(yielded) = nextIndex
              /\ nextIndex = Inputs \/ aborted

----------------------------------------------------------------------------
(* Action properties *)

(* Dropping the iterator cancels queued work: no job starts afterwards and   *)
(* no further source is taken from the input.                                *)
DropCancels ==
  [][cancelled => /\ \A w \in Workers : running'[w] \in {running[w], Idle}
                  /\ nextIndex' = nextIndex]_vars

(* A protocol failure is final: no source is taken from the input and every  *)
(* later result is a WorkerPanic.                                            *)
AbortIsFinal ==
  [][aborted => /\ aborted'
                /\ nextIndex' = nextIndex
                /\ \A k \in DOMAIN yielded' \ DOMAIN yielded :
                     yielded'[k].result = WorkerPanic]_vars

----------------------------------------------------------------------------
(* Liveness *)

(* Every call of `next` returns. *)
EveryCallReturns == pc \in {"refill", "poll"} ~> pc = "ready"

----------------------------------------------------------------------------
(* The contract of lint_batch, seen by its caller *)

Contract == INSTANCE BatchContract
              WITH taken <- nextIndex, results <- yielded,
                   open <- pc # "dropped", ended <- finished

ImplementsContract == Contract!Spec
=============================================================================
