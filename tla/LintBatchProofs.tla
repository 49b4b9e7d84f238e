-------------------------- MODULE LintBatchProofs --------------------------
(***************************************************************************)
(* Proofs about LintBatch for every input length, window, pool and fault   *)
(* assumption.                                                             *)
(***************************************************************************)
EXTENDS LintBatch, SequenceTheorems, TLAPS

(* A result that belongs to source i, or a worker panic. *)
OwnResult(i) == {i, WorkerPanic}

(* The window and the entries in it. *)
WindowInv ==
  /\ nextExpected <= nextIndex
  /\ nextExpected = Len(yielded)
  /\ inFlight = nextIndex - nextExpected
  /\ inFlight <= MaxInFlight
  /\ DOMAIN entries = nextExpected .. (nextIndex - 1)
  /\ \A i \in DOMAIN entries : entries[i] \in OwnResult(i) \cup {Missing}

(* What travels on the channel and what was returned. *)
ResultInv ==
  /\ \A k \in 1 .. Len(channel) : channel[k].result \in Nat =>
       channel[k].result = channel[k].index
  /\ \A k \in 1 .. Len(yielded) : /\ yielded[k].index = k - 1
                                  /\ yielded[k].result \in OwnResult(k - 1)

(* How the driver's flags constrain one another. *)
FlagInv ==
  /\ ~sender => exhausted \/ aborted
  /\ exhausted => nextIndex = Inputs
  /\ pc = "poll" => exhausted \/ aborted \/ inFlight = MaxInFlight
  /\ finished => inFlight = 0 /\ (nextIndex = Inputs \/ aborted)
  /\ finished => pc \in {"ready", "dropped"}
  /\ aborted => \A i \in DOMAIN entries : entries[i] = WorkerPanic
  /\ cancelled <=> pc = "dropped"

IInv == TypeOK /\ WindowInv /\ ResultInv /\ FlagInv

USE ConstantsAssumption

(* A driver that has not been called satisfies the invariant. *)
THEOREM InitIInv == Init => IInv
<1> SUFFICES ASSUME Init PROVE IInv
  OBVIOUS
<1>1. DriverTypeOK
  <2>1. /\ entries \in [DOMAIN entries -> Results \cup {Missing}]
        /\ DOMAIN entries \subseteq Index
    BY DEF Init
  <2>2. yielded \in Seq([index : Nat, result : Results])
    BY DEF Init
  <2>3. nextIndex \in 0 .. Inputs /\ nextExpected \in Nat /\ inFlight \in Int
    BY DEF Init
  <2>4. pc \in {"ready", "refill", "poll", "dropped"}
    BY DEF Init
  <2>5. /\ exhausted \in BOOLEAN /\ aborted \in BOOLEAN /\ finished \in BOOLEAN
        /\ sender \in BOOLEAN /\ cancelled \in BOOLEAN
    BY DEF Init
  <2> QED  BY <2>1, <2>2, <2>3, <2>4, <2>5 DEF DriverTypeOK
<1>2. PoolTypeOK
  BY DEF Init, PoolTypeOK, Index
<1>3. WindowInv
  BY DEF Init, WindowInv
<1>4. ResultInv
  BY DEF Init, ResultInv
<1>5. FlagInv
  BY DEF Init, FlagInv
<1> QED  BY <1>1, <1>2, <1>3, <1>4, <1>5 DEF IInv, TypeOK

(* Entering `next` preserves the invariant. *)
LEMMA CallNextStep == ASSUME IInv, CallNext PROVE IInv'
<1> USE DEF IInv, TypeOK
<1>1. DriverTypeOK'
  BY DEF CallNext, DriverTypeOK, WindowInv, OwnResult, Results, Index
<1>2. PoolTypeOK'
  BY DEF CallNext, poolVars, PoolTypeOK
<1>3. WindowInv'
  BY DEF CallNext, DriverTypeOK, WindowInv, OwnResult
<1>4. ResultInv'
  BY DEF CallNext, poolVars, ResultInv
<1>5. FlagInv'
  BY DEF CallNext, DriverTypeOK, WindowInv, FlagInv
<1> QED  BY <1>1, <1>2, <1>3, <1>4, <1>5

(* refill: a submission extends the window by the next index. *)
LEMMA SubmitStep == ASSUME IInv, Submit PROVE IInv'
<1> USE DEF IInv, TypeOK
<1>1. DriverTypeOK'
  BY DEF Submit, MayRefill, CanSubmit, DriverTypeOK, WindowInv, OwnResult, Results, Index
<1>2. PoolTypeOK'
  BY DEF Submit, MayRefill, DriverTypeOK, PoolTypeOK, Index
<1>3. WindowInv'
  BY SMTT(30) DEF Submit, MayRefill, CanSubmit, DriverTypeOK, WindowInv, OwnResult
<1>4. ResultInv'
  BY DEF Submit, ResultInv
<1>5. FlagInv'
  BY DEF Submit, MayRefill, CanSubmit, DriverTypeOK, WindowInv, FlagInv
<1> QED  BY <1>1, <1>2, <1>3, <1>4, <1>5

(* refill: the end of the input closes the sender. *)
LEMMA ExhaustStep == ASSUME IInv, ExhaustInput PROVE IInv'
<1> USE DEF IInv, TypeOK
<1>1. DriverTypeOK'
  BY DEF ExhaustInput, MayRefill, CanSubmit, DriverTypeOK, WindowInv, OwnResult, Results, Index
<1>2. PoolTypeOK'
  BY DEF ExhaustInput, poolVars, PoolTypeOK
<1>3. WindowInv'
  BY DEF ExhaustInput, MayRefill, CanSubmit, DriverTypeOK, WindowInv, OwnResult
<1>4. ResultInv'
  BY DEF ExhaustInput, poolVars, ResultInv
<1>5. FlagInv'
  BY DEF ExhaustInput, MayRefill, CanSubmit, DriverTypeOK, WindowInv, FlagInv
<1> QED  BY <1>1, <1>2, <1>3, <1>4, <1>5

(* refill: a full window, an exhausted or an aborted input stops it. *)
LEMMA StopStep == ASSUME IInv, StopRefill PROVE IInv'
<1> USE DEF IInv, TypeOK
<1>1. DriverTypeOK'
  BY DEF StopRefill, MayRefill, CanSubmit, DriverTypeOK, WindowInv, OwnResult, Results, Index
<1>2. PoolTypeOK'
  BY DEF StopRefill, poolVars, PoolTypeOK
<1>3. WindowInv'
  BY DEF StopRefill, MayRefill, CanSubmit, DriverTypeOK, WindowInv, OwnResult
<1>4. ResultInv'
  BY DEF StopRefill, poolVars, ResultInv
<1>5. FlagInv'
  BY DEF StopRefill, MayRefill, CanSubmit, DriverTypeOK, WindowInv, FlagInv
<1> QED  BY <1>1, <1>2, <1>3, <1>4, <1>5

(* take_ready: the window loses its first index, which is returned. *)
LEMMA YieldStep == ASSUME IInv, Yield PROVE IInv'
<1> USE DEF IInv, TypeOK
<1>1. DriverTypeOK'
  BY SMTT(30) DEF Yield, Ready, DriverTypeOK, WindowInv, OwnResult, Results, Index
<1>2. PoolTypeOK'
  BY DEF Yield, poolVars, PoolTypeOK
<1>3. WindowInv'
  BY SMTT(30) DEF Yield, Ready, DriverTypeOK, WindowInv, OwnResult
<1>4. ResultInv'
  <2>1. entries[nextExpected] \in OwnResult(nextExpected)
    BY DEF Yield, Ready, WindowInv
  <2>2. Len(yielded) = nextExpected /\ nextExpected \in Nat
    BY DEF WindowInv, DriverTypeOK
  <2>3. yielded \in Seq([index : Nat, result : Results])
    BY DEF DriverTypeOK
  <2>4. \A k \in 1 .. Len(yielded') : /\ yielded'[k].index = k - 1
                                     /\ yielded'[k].result \in OwnResult(k - 1)
    BY <2>1, <2>2, <2>3 DEF Yield, ResultInv
  <2> QED  BY <2>4 DEF Yield, poolVars, ResultInv
<1>5. FlagInv'
  BY DEF Yield, Ready, DriverTypeOK, WindowInv, FlagInv
<1> QED  BY <1>1, <1>2, <1>3, <1>4, <1>5

(* next_result: an empty window ends the iterator. *)
LEMMA FinishStep == ASSUME IInv, Finish PROVE IInv'
<1> USE DEF IInv, TypeOK
<1>1. DriverTypeOK'
  BY DEF Finish, Ready, DriverTypeOK, WindowInv, OwnResult, Results, Index
<1>2. PoolTypeOK'
  BY DEF Finish, poolVars, PoolTypeOK
<1>3. WindowInv'
  BY DEF Finish, Ready, DriverTypeOK, WindowInv, OwnResult
<1>4. ResultInv'
  BY DEF Finish, poolVars, ResultInv
<1>5. FlagInv'
  BY DEF Finish, Ready, DriverTypeOK, WindowInv, FlagInv
<1> QED  BY <1>1, <1>2, <1>3, <1>4, <1>5

(* receive_completion: a disconnect fills in the missing results. *)
LEMMA DisconnectedStep == ASSUME IInv, ReceiveDisconnected PROVE IInv'
<1> USE DEF IInv, TypeOK
<1>1. DriverTypeOK'
  BY DEF ReceiveDisconnected, SynthesizeMissing, Waiting, Ready, DriverTypeOK, WindowInv, OwnResult, Results, Index
<1>2. PoolTypeOK'
  BY DEF ReceiveDisconnected, poolVars, PoolTypeOK
<1>3. WindowInv'
  BY DEF ReceiveDisconnected, SynthesizeMissing, Waiting, Ready, DriverTypeOK, WindowInv, OwnResult
<1>4. ResultInv'
  BY DEF ReceiveDisconnected, poolVars, ResultInv
<1>5. FlagInv'
  BY DEF ReceiveDisconnected, SynthesizeMissing, Waiting, Ready, DriverTypeOK, WindowInv, FlagInv
<1> QED  BY <1>1, <1>2, <1>3, <1>4, <1>5

(* Dropping the iterator preserves the invariant. *)
LEMMA DropStep == ASSUME IInv, Drop PROVE IInv'
<1> USE DEF IInv, TypeOK
<1>1. DriverTypeOK'
  BY DEF Drop, DriverTypeOK, WindowInv, OwnResult, Results, Index
<1>2. PoolTypeOK'
  BY DEF Drop, poolVars, PoolTypeOK
<1>3. WindowInv'
  BY DEF Drop, DriverTypeOK, WindowInv, OwnResult
<1>4. ResultInv'
  BY DEF Drop, poolVars, ResultInv
<1>5. FlagInv'
  BY DEF Drop, DriverTypeOK, WindowInv, FlagInv
<1> QED  BY <1>1, <1>2, <1>3, <1>4, <1>5

(* receive_completion: an accepted or a refused message. *)
LEMMA ReceiveStep == ASSUME IInv, ReceiveCompletion PROVE IInv'
<1> USE DEF IInv, TypeOK
<1> DEFINE c == Head(channel)
<1>1. /\ c \in [index : 0 .. Inputs, result : Results]
      /\ c.result \in Nat => c.result = c.index
      /\ channel' = Tail(channel)
  <2>1. channel \in Seq([index : 0 .. Inputs, result : Results]) /\ channel # <<>>
    BY DEF ReceiveCompletion, PoolTypeOK
  <2>2. 1 \in 1 .. Len(channel) /\ c = channel[1]
    BY <2>1
  <2>3. channel[1] \in [index : 0 .. Inputs, result : Results]
    <3> DEFINE M == [index : 0 .. Inputs, result : Results]
    <3>1. channel \in Seq(M)
      BY <2>1
    <3> HIDE DEF M
    <3>2. channel[1] \in M
      BY <2>2, <3>1, ElementOfSeq
    <3> QED  BY <3>2 DEF M
  <2>4. c \in [index : 0 .. Inputs, result : Results]
    BY <2>2, <2>3
  <2> QED  BY <2>2, <2>4 DEF ReceiveCompletion, ResultInv
<1>2. PoolTypeOK' /\ ResultInv'
  <2>1. channel' \in Seq([index : 0 .. Inputs, result : Results])
    BY <1>1 DEF ReceiveCompletion, PoolTypeOK
  <2>2. \A k \in 1 .. Len(channel') : channel'[k] = channel[k + 1] /\ k + 1 \in 1 .. Len(channel)
    BY <1>1 DEF ReceiveCompletion, PoolTypeOK
  <2> QED  BY <2>1, <2>2 DEF ReceiveCompletion, PoolTypeOK, ResultInv
<1> HIDE DEF c
<1>3. CASE Acceptable(c)
  <2>1. /\ entries' = [entries EXCEPT ![c.index] = c.result]
        /\ c.index \in DOMAIN entries /\ entries[c.index] = Missing
        /\ UNCHANGED <<nextIndex, nextExpected, inFlight, exhausted, finished,
                       cancelled, pc, yielded, sender, aborted>>
    BY <1>3 DEF ReceiveCompletion, Acceptable, c
  <2>2. DOMAIN entries' = DOMAIN entries
    BY <2>1 DEF DriverTypeOK
  <2>3. DriverTypeOK'
    BY <1>1, <2>1, <2>2 DEF DriverTypeOK
  <2>4. WindowInv'
    BY <1>1, <2>1, <2>2 DEF WindowInv, OwnResult, Results
  <2>5. FlagInv'
    BY <2>1, <2>2 DEF FlagInv
  <2> QED  BY <1>2, <2>3, <2>4, <2>5
<1>4. CASE ~Acceptable(c)
  <2>1. /\ entries' = [i \in DOMAIN entries |-> WorkerPanic]
        /\ sender' = FALSE /\ aborted' = TRUE
        /\ UNCHANGED <<nextIndex, nextExpected, inFlight, exhausted, finished,
                       cancelled, pc, yielded>>
    BY <1>4 DEF ReceiveCompletion, FailProtocol, c
  <2>2. DriverTypeOK'
    BY <2>1 DEF DriverTypeOK, Results
  <2>3. WindowInv'
    BY <2>1 DEF WindowInv, OwnResult
  <2>4. FlagInv'
    BY <2>1 DEF FlagInv
  <2> QED  BY <1>2, <2>2, <2>3, <2>4
<1> QED  BY <1>3, <1>4

(* Steps of the pool and the injected faults leave the driver alone. *)
LEMMA DriverUnchanged ==
  ASSUME IInv, UNCHANGED driverVars, PoolTypeOK',
         \A k \in 1 .. Len(channel') : channel'[k].result \in Nat =>
           channel'[k].result = channel'[k].index
  PROVE  IInv'
  BY DEF IInv, TypeOK, driverVars, DriverTypeOK, WindowInv, ResultInv, FlagInv

(* A message about i carries the result of i or a panic. *)
LEMMA SendStep ==
  ASSUME IInv, NEW i \in 0 .. Inputs, NEW r \in {i, WorkerPanic}, Send(Completion(i, r))
  PROVE  /\ channel' \in Seq([index : 0 .. Inputs, result : Results])
         /\ \A k \in 1 .. Len(channel') : channel'[k].result \in Nat =>
              channel'[k].result = channel'[k].index
<1>1. Completion(i, r) \in [index : 0 .. Inputs, result : Results]
  BY DEF Completion, Results
<1>2. CASE pc = "dropped"
  BY <1>2 DEF Send, IInv, TypeOK, PoolTypeOK, ResultInv
<1>3. CASE pc # "dropped"
  <2> DEFINE m == Completion(i, r)
  <2>1. channel' = Append(channel, m) /\ m.index = i /\ m.result = r
    BY <1>3 DEF Send, Completion
  <2>2. channel \in Seq([index : 0 .. Inputs, result : Results])
    BY DEF IInv, TypeOK, PoolTypeOK
  <2> HIDE DEF m
  <2> QED  BY <1>1, <2>1, <2>2 DEF IInv, ResultInv, m
<1> QED  BY <1>2, <1>3

(* Steps of the pool threads preserve the invariant. *)
LEMMA WorkerStep == ASSUME IInv, NEW w \in Workers, Worker(w) PROVE IInv'
<1>1. CASE StartJob(w)
  <2>1. PoolTypeOK'
    BY <1>1 DEF StartJob, IInv, TypeOK, PoolTypeOK
  <2> QED  BY <1>1, <2>1, DriverUnchanged DEF StartJob, IInv, ResultInv
<1>2. CASE SkipJob(w)
  <2>1. PoolTypeOK'
    BY <1>2 DEF SkipJob, IInv, TypeOK, PoolTypeOK
  <2> QED  BY <1>2, <2>1, DriverUnchanged DEF SkipJob, IInv, ResultInv
<1>3. CASE FinishJob(w)
  <2> DEFINE i == running[w]
  <2>1. i \in Index
    BY <1>3 DEF FinishJob, IInv, TypeOK, PoolTypeOK
  <2>2. PICK r \in {i, WorkerPanic} : Send(Completion(i, r))
    <3>1. Send(Completion(i, i)) \/ Send(Completion(i, WorkerPanic))
      BY <1>3 DEF FinishJob
    <3> QED  BY <3>1
  <2>3. /\ channel' \in Seq([index : 0 .. Inputs, result : Results])
        /\ \A k \in 1 .. Len(channel') : channel'[k].result \in Nat =>
             channel'[k].result = channel'[k].index
    <3>1. i \in 0 .. Inputs
      BY <2>1 DEF Index
    <3> HIDE DEF i
    <3> QED  BY <2>2, <3>1, SendStep
  <2>4. PoolTypeOK'
    BY <1>3, <2>1, <2>3 DEF FinishJob, IInv, TypeOK, PoolTypeOK
  <2> QED  BY <1>3, <2>3, <2>4, DriverUnchanged DEF FinishJob
<1> QED  BY <1>1, <1>2, <1>3 DEF Worker

(* Injected faults preserve the invariant. *)
LEMMA EnvironmentStep == ASSUME IInv, Environment PROVE IInv'
<1>1. CASE SendForeign
  <2>1. /\ channel' \in Seq([index : 0 .. Inputs, result : Results])
        /\ \A k \in 1 .. Len(channel') : channel'[k].result \in Nat =>
             channel'[k].result = channel'[k].index
    <3>1. Inputs \in 0 .. Inputs /\ WorkerPanic \in {Inputs, WorkerPanic}
      OBVIOUS
    <3>2. Send(Completion(Inputs, WorkerPanic))
      BY <1>1 DEF SendForeign, ForeignIndex
    <3> QED  BY <3>1, <3>2, SendStep
  <2>2. PoolTypeOK'
    BY <1>1, <2>1 DEF SendForeign, Fault, IInv, TypeOK, PoolTypeOK
  <2> QED  BY <1>1, <2>1, <2>2, DriverUnchanged DEF SendForeign
<1>2. ASSUME NEW w \in Workers, SendTwice(w) PROVE IInv'
  <2>1. running[w] \in Index
    BY <1>2 DEF SendTwice, IInv, TypeOK, PoolTypeOK
  <2>2. /\ channel' \in Seq([index : 0 .. Inputs, result : Results])
        /\ \A k \in 1 .. Len(channel') : channel'[k].result \in Nat =>
             channel'[k].result = channel'[k].index
    <3> DEFINE i == running[w]
    <3>1. i \in 0 .. Inputs /\ i \in {i, WorkerPanic}
      BY <2>1 DEF Index
    <3>2. Send(Completion(i, i))
      BY <1>2 DEF SendTwice
    <3> HIDE DEF i
    <3> QED  BY <3>1, <3>2, SendStep
  <2>3. PoolTypeOK'
    BY <1>2, <2>2 DEF SendTwice, Fault, IInv, TypeOK, PoolTypeOK
  <2> QED  BY <1>2, <2>2, <2>3, DriverUnchanged DEF SendTwice
<1>3. ASSUME NEW w \in Workers, LoseCompletion(w) PROVE IInv'
  <2>1. PoolTypeOK'
    BY <1>3 DEF LoseCompletion, Fault, IInv, TypeOK, PoolTypeOK
  <2>2. UNCHANGED driverVars /\ UNCHANGED channel
    BY <1>3 DEF LoseCompletion
  <2> QED  BY <2>1, <2>2, DriverUnchanged DEF IInv, ResultInv
<1> QED  BY <1>1, <1>2, <1>3 DEF Environment

(* Stuttering preserves the invariant. *)
LEMMA StutterStep == ASSUME IInv, UNCHANGED vars PROVE IInv'
<1>1. UNCHANGED driverVars /\ UNCHANGED poolVars
  BY DEF vars
<1>2. PoolTypeOK'
  BY <1>1 DEF poolVars, IInv, TypeOK, PoolTypeOK
<1>3. UNCHANGED channel
  BY <1>1 DEF poolVars
<1> QED  BY <1>1, <1>2, <1>3, DriverUnchanged DEF IInv, ResultInv

(* Every step preserves the invariant. *)
LEMMA NextIInv == IInv /\ [Next]_vars => IInv'
<1> SUFFICES ASSUME IInv, [Next]_vars PROVE IInv'
  OBVIOUS
<1>1. CASE Consumer
  BY <1>1, CallNextStep, DropStep, StutterStep DEF Consumer, CallNextAfterEnd
<1>2. CASE Driver
  BY <1>2, SubmitStep, ExhaustStep, StopStep, YieldStep, FinishStep, ReceiveStep,
     DisconnectedStep DEF Driver
<1>3. ASSUME NEW w \in Workers, Worker(w) PROVE IInv'
  BY <1>3, WorkerStep
<1>4. CASE Environment
  BY <1>4, EnvironmentStep
<1>5. CASE UNCHANGED vars
  BY <1>5, StutterStep
<1> QED  BY <1>1, <1>2, <1>3, <1>4, <1>5 DEF Next, Terminated

(* The inductive invariant holds in every reachable state. *)
THEOREM SpecIInv == Spec => []IInv
<1>1. Init => IInv
  BY InitIInv
<1>2. IInv /\ [Next]_vars => IInv'
  BY NextIInv
<1> QED  BY <1>1, <1>2, PTL DEF Spec

(* Every variable keeps its type. *)
THEOREM TypeCorrect == Spec => []TypeOK
<1>1. IInv => TypeOK
  BY DEF IInv
<1> QED  BY <1>1, SpecIInv, PTL

(* However many inputs, workers and faults there are, the number of sources  *)
(* taken and not yet returned stays within max_in_flight.                    *)
THEOREM WindowIsBounded == Spec => []WindowBound
<1>1. IInv => WindowBound
  BY DEF IInv, TypeOK, DriverTypeOK, WindowInv, WindowBound
<1> QED  BY <1>1, SpecIInv, PTL

(* Results come out in input order, each with its own source's outcome, even *)
(* when the channel misbehaves.                                              *)
THEOREM ResultsAreOrdered == Spec => []OrderedResults
<1>1. IInv => OrderedResults
  <2>1. yielded \in Seq([index : Nat, result : Results]) => DOMAIN yielded = 1 .. Len(yielded)
    OBVIOUS
  <2> QED  BY <2>1 DEF IInv, TypeOK, DriverTypeOK, ResultInv, OrderedResults, OwnResult
<1> QED  BY <1>1, SpecIInv, PTL

(* The iterator never ends with a source taken and not returned. *)
THEOREM EndIsComplete == Spec => []EndsComplete
<1>1. IInv => EndsComplete
  BY DEF IInv, TypeOK, DriverTypeOK, WindowInv, FlagInv, EndsComplete
<1> QED  BY <1>1, SpecIInv, PTL

----------------------------------------------------------------------------
(* Steps after a drop and after a protocol failure *)

(* After a drop no job starts and nothing more is taken from the input.      *)
THEOREM DropCancelsJobs == Spec => DropCancels
<1> DEFINE A == cancelled => /\ \A w \in Workers : running'[w] \in {running[w], Idle}
                             /\ nextIndex' = nextIndex
<1>1. IInv /\ [Next]_vars => [A]_vars
  <2> SUFFICES ASSUME IInv, Next, cancelled
               PROVE  /\ \A w \in Workers : running'[w] \in {running[w], Idle}
                      /\ nextIndex' = nextIndex
    OBVIOUS
  <2>1. pc = "dropped" /\ running \in [Workers -> Index \cup {Idle}]
    BY DEF IInv, TypeOK, PoolTypeOK, FlagInv
  <2>2. CASE Consumer \/ Driver \/ Environment \/ Terminated
    BY <2>1, <2>2 DEF Consumer, CallNext, CallNextAfterEnd, Drop, Driver, Submit, ExhaustInput,
       StopRefill, Yield, Finish, ReceiveCompletion, ReceiveDisconnected, Waiting, Environment,
       SendForeign, SendTwice, LoseCompletion, Fault, Terminated, vars, driverVars, poolVars
  <2>3. ASSUME NEW v \in Workers, Worker(v)
        PROVE  /\ \A w \in Workers : running'[w] \in {running[w], Idle}
               /\ nextIndex' = nextIndex
    BY <2>1, <2>3 DEF Worker, StartJob, SkipJob, FinishJob, driverVars
  <2> QED  BY <2>2, <2>3 DEF Next
<1> QED  BY <1>1, SpecIInv, PTL DEF Spec, DropCancels

(* After a protocol failure nothing more is taken from the input and only    *)
(* worker panics are returned.                                               *)
THEOREM AbortIsForGood == Spec => AbortIsFinal
<1> DEFINE A == aborted => /\ aborted'
                           /\ nextIndex' = nextIndex
                           /\ \A k \in DOMAIN yielded' \ DOMAIN yielded :
                                yielded'[k].result = WorkerPanic
<1>1. IInv /\ [Next]_vars => [A]_vars
  <2> SUFFICES ASSUME IInv, Next, aborted
               PROVE  /\ aborted'
                      /\ nextIndex' = nextIndex
                      /\ \A k \in DOMAIN yielded' \ DOMAIN yielded :
                           yielded'[k].result = WorkerPanic
    OBVIOUS
  <2>1. /\ \A i \in DOMAIN entries : entries[i] = WorkerPanic
        /\ yielded \in Seq([index : Nat, result : Results])
    BY DEF IInv, TypeOK, DriverTypeOK, FlagInv
  <2>2. CASE Yield
    <3> DEFINE m == [index |-> nextExpected, result |-> entries[nextExpected]]
    <3>1. m.result = WorkerPanic /\ yielded' = Append(yielded, m)
      BY <2>1, <2>2 DEF Yield, Ready
    <3>2. aborted' /\ nextIndex' = nextIndex
      BY <2>2 DEF Yield
    <3> HIDE DEF m
    <3> QED  BY <2>1, <3>1, <3>2
  <2>3. CASE Consumer \/ (Driver /\ ~Yield) \/ Environment \/ Terminated
    BY <2>3 DEF Consumer, CallNext, CallNextAfterEnd, Drop, Driver, Submit, MayRefill,
       ExhaustInput, StopRefill, Finish, ReceiveCompletion, ReceiveDisconnected,
       Environment, SendForeign, SendTwice, LoseCompletion, Terminated, vars, driverVars, poolVars
  <2>4. ASSUME NEW v \in Workers, Worker(v)
        PROVE  UNCHANGED driverVars
    BY <2>4 DEF Worker, StartJob, SkipJob, FinishJob
  <2> QED  BY <2>2, <2>3, <2>4 DEF Next, driverVars
<1> QED  BY <1>1, SpecIInv, PTL DEF Spec, AbortIsFinal

----------------------------------------------------------------------------
(* The driver, its pool and its channel implement the contract of lint_batch. *)
THEOREM BatchImplementsContract == Spec => ImplementsContract
<1>1. Init => Contract!Init
  BY DEF Init, Contract!Init
<1>2. IInv /\ [Next]_vars => [Contract!Next]_(Contract!contractVars)
  <2> SUFFICES ASSUME IInv, Next
               PROVE  Contract!Next \/ UNCHANGED Contract!contractVars
    BY DEF vars, driverVars, Contract!contractVars
  <2> DEFINE Stutter == UNCHANGED <<nextIndex, yielded, pc # "dropped", finished>>
  <2>1. /\ yielded \in Seq([index : Nat, result : Results])
        /\ nextExpected = Len(yielded) /\ nextExpected \in Nat /\ nextIndex \in Nat
        /\ inFlight = nextIndex - nextExpected
        /\ DOMAIN entries = nextExpected .. (nextIndex - 1)
        /\ \A i \in DOMAIN entries : entries[i] \in OwnResult(i) \cup {Missing}
        /\ finished => pc \in {"ready", "dropped"}
    BY DEF IInv, TypeOK, DriverTypeOK, WindowInv, FlagInv
  <2>2. CASE Submit
    BY <2>1, <2>2 DEF Submit, MayRefill, CanSubmit, Contract!Next, Contract!Take
  <2>3. CASE Yield
    <3>1. /\ entries[nextExpected] \in {nextExpected, WorkerPanic}
          /\ nextExpected < nextIndex
      BY <2>1, <2>3 DEF Yield, Ready, OwnResult
    <3>2. yielded' = Append(yielded, [index |-> Len(yielded), result |-> entries[nextExpected]])
      BY <2>1, <2>3 DEF Yield
    <3>3. /\ pc # "dropped" /\ ~finished /\ pc' # "dropped"
          /\ UNCHANGED <<nextIndex, finished>>
      BY <2>1, <2>3 DEF Yield
    <3> QED  BY <2>1, <3>1, <3>2, <3>3 DEF Contract!Next, Contract!Return
  <2>4. CASE Finish
    BY <2>1, <2>4 DEF Finish, Contract!Next, Contract!End
  <2>5. CASE Drop
    BY <2>5 DEF Drop, Contract!Next, Contract!Close
  <2>6. CASE CallNext \/ CallNextAfterEnd \/ ExhaustInput \/ StopRefill \/ ReceiveCompletion
             \/ ReceiveDisconnected \/ Environment \/ Terminated
    BY <2>6 DEF CallNext, CallNextAfterEnd, ExhaustInput, StopRefill, ReceiveCompletion,
       ReceiveDisconnected, Waiting, Environment, SendForeign, SendTwice, LoseCompletion, Terminated,
       vars, driverVars, Contract!contractVars
  <2>7. ASSUME NEW w \in Workers, Worker(w) PROVE UNCHANGED Contract!contractVars
    BY <2>7 DEF Worker, StartJob, SkipJob, FinishJob, driverVars, Contract!contractVars
  <2> QED  BY <2>2, <2>3, <2>4, <2>5, <2>6, <2>7 DEF Next, Consumer, Driver
<1> QED  BY <1>1, <1>2, SpecIInv, PTL DEF Spec, ImplementsContract, Contract!Spec

----------------------------------------------------------------------------
(* Until a fault: every missing completion is on its way, exactly once, and *)
(* every worker panic returned is the panic of that source's own analysis.   *)

PanicInv ==
  /\ ~aborted
  /\ \A i \in DOMAIN entries : entries[i] = WorkerPanic => i \in panicked
  /\ \A k \in 1 .. Len(channel) :
       channel[k].result = WorkerPanic => channel[k].index \in panicked
  /\ \A k \in 1 .. Len(yielded) :
       yielded[k].result = WorkerPanic => yielded[k].index \in panicked

Accounted ==
  pc # "dropped" =>
    /\ \A i \in 0 .. Inputs :
         Carried(i) <=> i \in DOMAIN entries /\ entries[i] = Missing
    /\ CarriedOnce

AInv == IInv /\ (faults = 0 => Accounted /\ PanicInv)

(* The facts about types the steps below need. *)
LEMMA TypeFacts ==
  ASSUME IInv
  PROVE  /\ channel \in Seq([index : 0 .. Inputs, result : Results])
         /\ yielded \in Seq([index : Nat, result : Results])
         /\ running \in [Workers -> Index \cup {Idle}]
         /\ queued \subseteq Index
         /\ nextIndex \in 0 .. Inputs
         /\ nextExpected \in Nat
         /\ DOMAIN channel = 1 .. Len(channel)
         /\ DOMAIN entries = nextExpected .. (nextIndex - 1)
         /\ nextExpected = Len(yielded)
  <1>1. /\ channel \in Seq([index : 0 .. Inputs, result : Results])
        /\ running \in [Workers -> Index \cup {Idle}]
        /\ queued \subseteq Index
    BY DEF IInv, TypeOK, PoolTypeOK
  <1>2. /\ yielded \in Seq([index : Nat, result : Results])
        /\ nextIndex \in 0 .. Inputs
        /\ nextExpected \in Nat
    BY DEF IInv, TypeOK, DriverTypeOK
  <1>3. DOMAIN channel = 1 .. Len(channel)
    BY <1>1
  <1> QED  BY <1>1, <1>2, <1>3 DEF IInv, WindowInv

(* Taking the head of a sequence shifts the rest by one. *)
LEMMA TailShifts ==
  ASSUME NEW S, NEW s \in Seq(S), s # <<>>, NEW t, t = Tail(s)
  PROVE  /\ 1 \in DOMAIN s /\ Head(s) = s[1]
         /\ DOMAIN t = 1 .. Len(t)
         /\ \A k \in DOMAIN t : t[k] = s[k + 1] /\ k + 1 \in DOMAIN s /\ k + 1 # 1
         /\ \A k \in DOMAIN s : k = 1 \/ (k - 1 \in DOMAIN t /\ t[k - 1] = s[k])
<1>1. /\ Len(s) \in Nat /\ Len(s) > 0 /\ DOMAIN s = 1 .. Len(s) /\ Head(s) = s[1]
      /\ t \in Seq(S) /\ Len(t) = Len(s) - 1 /\ DOMAIN t = 1 .. Len(t)
  BY HeadTailProperties, EmptySeq, LenProperties
<1>2. \A k \in 1 .. Len(t) : t[k] = s[k + 1]
  BY HeadTailProperties
<1>3. \A k \in DOMAIN t : t[k] = s[k + 1] /\ k + 1 \in DOMAIN s /\ k + 1 # 1
  BY <1>1, <1>2
<1>4. ASSUME NEW k \in DOMAIN s, k # 1 PROVE k - 1 \in DOMAIN t /\ t[k - 1] = s[k]
  <2>1. k - 1 \in DOMAIN t /\ (k - 1) + 1 = k
    BY <1>1, <1>4
  <2> QED  BY <1>3, <2>1
<1>5. 1 \in DOMAIN s
  BY <1>1
<1> QED  BY <1>1, <1>3, <1>4, <1>5

(* A submitted source gets one job. *)
LEMMA SubmitAccounted ==
  ASSUME IInv, Accounted, PanicInv, Submit PROVE Accounted' /\ PanicInv'
<1>1. sender
  BY DEF IInv, FlagInv, Submit, MayRefill
<1>2. /\ queued' = queued \cup {nextIndex}
      /\ entries' = [i \in DOMAIN entries \cup {nextIndex} |->
                       IF i = nextIndex THEN Missing ELSE entries[i]]
      /\ UNCHANGED <<aborted, running, channel, panicked, yielded>>
      /\ pc = "refill" /\ nextIndex \in 0 .. Inputs /\ nextIndex \notin DOMAIN entries
  BY <1>1, TypeFacts DEF Submit
<1>3. ~Carried(nextIndex)
  BY <1>2 DEF Accounted
<1>4. \A i \in 0 .. Inputs : Carried(i)' <=> Carried(i) \/ i = nextIndex
  BY <1>2 DEF Carried
<1>5. CarriedOnce'
  BY <1>2, <1>3 DEF Accounted, CarriedOnce, Carried
<1>6. Accounted'
  BY <1>2, <1>4, <1>5 DEF Accounted
<1>7. PanicInv'
  BY <1>2 DEF PanicInv
<1> QED  BY <1>6, <1>7

(* A returned result has no carrier. *)
LEMMA YieldAccounted ==
  ASSUME IInv, Accounted, PanicInv, Yield PROVE Accounted' /\ PanicInv'
<1> DEFINE m == [index |-> nextExpected, result |-> entries[nextExpected]]
<1>1. /\ nextExpected \in DOMAIN entries /\ entries[nextExpected] # Missing
      /\ yielded' = Append(yielded, m)
      /\ entries' = [i \in DOMAIN entries \ {nextExpected} |-> entries[i]]
      /\ UNCHANGED <<aborted, queued, running, channel, panicked>>
      /\ pc = "poll"
  BY DEF Yield, Ready, poolVars
<1>2. \A i \in 0 .. Inputs : Carried(i)' <=> Carried(i)
  BY <1>1 DEF Carried
<1>3. Accounted'
  BY <1>1, <1>2 DEF Accounted, CarriedOnce
<1>4. m.result = WorkerPanic => m.index \in panicked
  BY <1>1 DEF PanicInv
<1>5. yielded \in Seq([index : Nat, result : Results])
  BY TypeFacts
<1> HIDE DEF m
<1>6. PanicInv'
  BY <1>1, <1>4, <1>5 DEF PanicInv
<1> QED  BY <1>3, <1>6

(* Without faults a received message is never refused. *)
LEMMA ReceiveAccounted ==
  ASSUME IInv, Accounted, PanicInv, ReceiveCompletion PROVE Accounted' /\ PanicInv'
<1> DEFINE c == Head(channel)
<1>1. /\ pc = "poll" /\ channel # <<>> /\ channel' = Tail(channel)
      /\ UNCHANGED <<pc, queued, running, panicked, yielded>>
  BY DEF ReceiveCompletion, Waiting
<1>2. /\ 1 \in DOMAIN channel /\ c = channel[1]
      /\ DOMAIN channel' = 1 .. Len(channel')
      /\ \A k \in DOMAIN channel' : /\ channel'[k] = channel[k + 1]
                                    /\ k + 1 \in DOMAIN channel /\ k + 1 # 1
      /\ \A k \in DOMAIN channel : k = 1 \/ (k - 1 \in DOMAIN channel' /\ channel'[k - 1] = channel[k])
  <2> DEFINE M == [index : 0 .. Inputs, result : Results]
  <2>1. channel \in Seq(M)
    BY TypeFacts
  <2> HIDE DEF M
  <2>2. /\ 1 \in DOMAIN channel /\ Head(channel) = channel[1]
        /\ DOMAIN channel' = 1 .. Len(channel')
        /\ \A k \in DOMAIN channel' : /\ channel'[k] = channel[k + 1]
                                      /\ k + 1 \in DOMAIN channel /\ k + 1 # 1
        /\ \A k \in DOMAIN channel : k = 1 \/ (k - 1 \in DOMAIN channel' /\ channel'[k - 1] = channel[k])
    <3> DEFINE t == channel'
    <3>1. channel # <<>> /\ t = Tail(channel)
      BY <1>1
    <3> HIDE DEF c, t
    <3>2. /\ 1 \in DOMAIN channel /\ Head(channel) = channel[1]
          /\ DOMAIN t = 1 .. Len(t)
          /\ \A k \in DOMAIN t : /\ t[k] = channel[k + 1]
                               /\ k + 1 \in DOMAIN channel /\ k + 1 # 1
          /\ \A k \in DOMAIN channel : k = 1 \/ (k - 1 \in DOMAIN t /\ t[k - 1] = channel[k])
      BY <2>1, <3>1, TailShifts
    <3> QED  BY <3>2 DEF t
  <2> QED  BY <2>2
<1>3. c.index \in 0 .. Inputs
  <2> DEFINE M == [index : 0 .. Inputs, result : Results]
  <2>1. channel \in Seq(M)
    BY TypeFacts
  <2> HIDE DEF M
  <2>2. channel[1] \in M
    BY <1>2, <2>1, ElementOfSeq
  <2> QED  BY <1>2, <2>2 DEF M
<1>4. Carried(c.index)
  BY <1>2 DEF Carried
<1>5. Acceptable(c)
  BY <1>1, <1>3, <1>4 DEF Accounted, Acceptable
<1>6. entries' = [entries EXCEPT ![c.index] = c.result] /\ UNCHANGED aborted
  BY <1>5 DEF ReceiveCompletion
<1>7. c.result # Missing /\ (c.result = WorkerPanic => c.index \in panicked)
  <2>1. channel[1].result \in Results
    <3> DEFINE M == [index : 0 .. Inputs, result : Results]
    <3>1. channel \in Seq(M)
      BY TypeFacts
    <3> HIDE DEF M
    <3>2. channel[1] \in M
      BY <1>2, <3>1, ElementOfSeq
    <3> QED  BY <3>2 DEF M
  <2> QED  BY <1>2, <2>1, TypeFacts DEF PanicInv, Results
<1> HIDE DEF c
<1>8. \A i \in 0 .. Inputs : Carried(i)' <=> Carried(i) /\ i # c.index
  <2>1. c.index \notin queued /\ \A w \in Workers : running[w] # c.index
    BY <1>1, <1>2 DEF Accounted, CarriedOnce
  <2>2. ASSUME NEW k \in DOMAIN channel' PROVE channel'[k].index # c.index
    <3>1. /\ k + 1 \in DOMAIN channel /\ k + 1 # 1
          /\ channel'[k] = channel[k + 1]
      BY <1>2
    <3>2. \A j \in DOMAIN channel : channel[j].index = channel[1].index => j = 1
      BY <1>1, <1>2 DEF Accounted, CarriedOnce
    <3> QED  BY <1>2, <3>1, <3>2
  <2>3. ASSUME NEW i \in 0 .. Inputs, i # c.index, NEW k \in DOMAIN channel, channel[k].index = i
        PROVE  \E j \in DOMAIN channel' : channel'[j].index = i
    BY <1>2, <2>3
  <2>4. ASSUME NEW i \in 0 .. Inputs, NEW k \in DOMAIN channel', channel'[k].index = i
        PROVE  \E j \in DOMAIN channel : channel[j].index = i
    BY <1>2, <2>4
  <2>5. UNCHANGED <<queued, running>>
    BY <1>1
  <2> QED  BY <2>1, <2>2, <2>3, <2>4, <2>5 DEF Carried
<1>9. CarriedOnce'
  <2>1. CarriedOnce
    BY <1>1 DEF Accounted
  <2>2. ASSUME NEW j \in DOMAIN channel', NEW k \in DOMAIN channel',
               channel'[j].index = channel'[k].index
        PROVE  j = k
    <3>1. /\ j + 1 \in DOMAIN channel /\ k + 1 \in DOMAIN channel
          /\ channel[j + 1].index = channel[k + 1].index
      BY <1>2, <2>2
    <3>2. j + 1 = k + 1
      BY <2>1, <3>1 DEF CarriedOnce
    <3>3. j \in Int /\ k \in Int
      BY <1>2
    <3> QED  BY <3>2, <3>3
  <2>3. \A k \in DOMAIN channel' : /\ channel'[k].index \notin queued
                                  /\ \A w \in Workers : running[w] # channel'[k].index
    BY <1>2, <2>1 DEF CarriedOnce
  <2>4. UNCHANGED <<queued, running>>
    BY <1>1
  <2> QED  BY <2>1, <2>2, <2>3, <2>4 DEF CarriedOnce
<1>10. Accounted'
  BY <1>1, <1>5, <1>6, <1>7, <1>8, <1>9, TypeFacts DEF Accounted, Acceptable
<1>11. PanicInv'
  BY <1>1, <1>2, <1>5, <1>6, <1>7, TypeFacts DEF PanicInv, Acceptable
<1> QED  BY <1>10, <1>11

(* Every sender is gone only when nothing is missing any more. *)
LEMMA DisconnectedAccounted ==
  ASSUME IInv, Accounted, PanicInv, ReceiveDisconnected PROVE Accounted' /\ PanicInv'
<1>1. /\ pc = "poll" /\ channel = <<>> /\ queued = {} /\ \A w \in Workers : running[w] = Idle
      /\ UNCHANGED <<pc, aborted, yielded, queued, running, channel, panicked>>
      /\ entries' = [i \in DOMAIN entries |->
                       IF entries[i] = Missing THEN WorkerPanic ELSE entries[i]]
  BY DEF ReceiveDisconnected, Waiting, Disconnected, SynthesizeMissing, poolVars
<1>2. \A i \in 0 .. Inputs : ~Carried(i)
  BY <1>1, TypeFacts DEF Carried
<1>3. \A i \in DOMAIN entries : entries[i] # Missing /\ i \in 0 .. Inputs
  BY <1>1, <1>2, TypeFacts DEF Accounted
<1>4. DOMAIN entries' = DOMAIN entries /\ \A i \in DOMAIN entries : entries'[i] = entries[i]
  BY <1>1, <1>3
<1>5. \A i \in 0 .. Inputs : Carried(i)' <=> Carried(i)
  BY <1>1 DEF Carried
<1>6. Accounted'
  BY <1>1, <1>4, <1>5 DEF Accounted, CarriedOnce
<1>7. PanicInv'
  BY <1>1, <1>4 DEF PanicInv
<1> QED  BY <1>6, <1>7

(* A started job carries its source from the queue to a thread. *)
LEMMA StartAccounted ==
  ASSUME IInv, Accounted, PanicInv, NEW w \in Workers, StartJob(w)
  PROVE  Accounted' /\ PanicInv'
<1>1. PICK i \in queued : queued' = queued \ {i} /\ running' = [running EXCEPT ![w] = i]
  BY DEF StartJob
<1>2. running[w] = Idle /\ UNCHANGED <<pc, entries, aborted, yielded, channel, panicked>>
  BY DEF StartJob, driverVars
<1>3. /\ running'[w] = i /\ \A v \in Workers : v # w => running'[v] = running[v]
      /\ i \in 0 .. Inputs /\ i # Idle
  BY <1>1, TypeFacts DEF Index
<1>4. pc # "dropped" => \A j \in 0 .. Inputs : Carried(j)' <=> Carried(j)
  BY <1>1, <1>2, <1>3 DEF Carried
<1>5. pc # "dropped" => CarriedOnce'
  BY <1>1, <1>2, <1>3 DEF Accounted, CarriedOnce
<1>6. Accounted'
  BY <1>2, <1>4, <1>5 DEF Accounted
<1>7. PanicInv'
  BY <1>2 DEF PanicInv
<1> QED  BY <1>6, <1>7

(* A finished job hands its source over to the channel. *)
LEMMA FinishAccounted ==
  ASSUME IInv, Accounted, PanicInv, NEW w \in Workers, FinishJob(w)
  PROVE  Accounted' /\ PanicInv'
<1> DEFINE i == running[w]
<1>1. /\ i # Idle /\ i \in Index /\ i \in 0 .. Inputs
      /\ running' = [running EXCEPT ![w] = Idle]
      /\ UNCHANGED <<pc, entries, aborted, yielded, queued>>
  BY TypeFacts DEF FinishJob, driverVars, Index
<1>2. PICK r \in {i, WorkerPanic} :
        /\ Send(Completion(i, r))
        /\ panicked \subseteq panicked' /\ (r = WorkerPanic => i \in panicked')
  <2>1. CASE Send(Completion(i, i)) /\ UNCHANGED panicked
    BY <1>1, <2>1 DEF Index
  <2>2. CASE Send(Completion(i, WorkerPanic)) /\ panicked' = panicked \cup {i}
    BY <2>2
  <2> QED  BY <2>1, <2>2 DEF FinishJob
<1>3. /\ running'[w] = Idle /\ \A v \in Workers : v # w => running'[v] = running[v]
      /\ running[w] = i
  BY <1>1, TypeFacts
<1> HIDE DEF i
<1>4. CASE pc = "dropped"
  BY <1>1, <1>2, <1>4 DEF Send, Accounted, PanicInv
<1>5. CASE pc # "dropped"
  <2> DEFINE m == Completion(i, r)
             n == Len(channel) + 1
  <2>1. /\ channel' = Append(channel, m) /\ m.index = i /\ m.result = r
        /\ m \in [index : 0 .. Inputs, result : Results]
    BY <1>1, <1>2, <1>5 DEF Send, Completion, Results, Index
  <2> HIDE DEF m
  <2>2. /\ DOMAIN channel' = 1 .. Len(channel') /\ Len(channel') = n
        /\ DOMAIN channel = 1 .. Len(channel) /\ Len(channel) \in Nat
        /\ channel'[n] = m
        /\ \A k \in DOMAIN channel : channel'[k] = channel[k]
    BY <2>1, TypeFacts
  <2>3. DOMAIN channel' = DOMAIN channel \cup {n} /\ n \notin DOMAIN channel
    BY <2>2
  <2>4. CarriedOnce /\ i \notin queued /\ \A k \in DOMAIN channel : channel[k].index # i
    BY <1>3, <1>5 DEF Accounted, CarriedOnce
  <2>5. \A j \in 0 .. Inputs : Carried(j)' <=> Carried(j)
    <3>1. ASSUME NEW j \in 0 .. Inputs, Carried(j) PROVE Carried(j)'
      BY <1>1, <1>3, <2>1, <2>2, <2>3, <3>1 DEF Carried
    <3>2. ASSUME NEW j \in 0 .. Inputs, Carried(j)' PROVE Carried(j)
      <4>1. j # Idle
        BY <3>2
      <4> QED  BY <1>1, <1>3, <2>1, <2>2, <2>3, <3>2, <4>1 DEF Carried
    <3> QED  BY <3>1, <3>2
  <2>6. CarriedOnce'
    <3>1. /\ \A v \in Workers : running'[v] \notin queued
          /\ \A u, v \in Workers : running'[u] = running'[v] /\ running'[u] # Idle => u = v
      BY <1>3, <2>4, TypeFacts DEF CarriedOnce, Index
    <3>2. \A k \in DOMAIN channel' : (k = n /\ channel'[k].index = i)
          \/ (k \in DOMAIN channel /\ channel'[k] = channel[k])
      <4>1. m.index = i /\ channel'[n] = m
        BY <2>1, <2>2
      <4>2. \A k \in DOMAIN channel : channel'[k] = channel[k]
        BY <2>2
      <4> HIDE DEF n
      <4> QED  BY <2>3, <4>1, <4>2
    <3>3. \A v \in Workers : running'[v] # i
      BY <1>1, <1>3, <2>4 DEF CarriedOnce
    <3>4. \A k \in DOMAIN channel : \A v \in Workers : running'[v] # channel[k].index
      <4>1. \A k \in DOMAIN channel : channel[k].index # Idle
        <5> DEFINE M == [index : 0 .. Inputs, result : Results]
        <5>1. channel \in Seq(M)
          BY TypeFacts
        <5> HIDE DEF M
        <5>2. \A k \in DOMAIN channel : channel[k] \in M
          BY <2>2, <5>1, ElementOfSeq
        <5> QED  BY <5>2 DEF M
      <4> QED  BY <1>3, <2>4, <4>1 DEF CarriedOnce
    <3>5. \A k \in DOMAIN channel' : /\ channel'[k].index \notin queued
                                    /\ \A v \in Workers : running'[v] # channel'[k].index
      BY <2>4, <3>2, <3>3, <3>4 DEF CarriedOnce
    <3>6. \A j, k \in DOMAIN channel' : channel'[j].index = channel'[k].index => j = k
      BY <2>4, <3>2 DEF CarriedOnce
    <3> QED  BY <1>1, <3>1, <3>5, <3>6 DEF CarriedOnce
  <2>7. Accounted'
    BY <1>1, <2>5, <2>6, <1>5 DEF Accounted
  <2>8. PanicInv'
    BY <1>1, <1>2, <2>1, <2>2, <2>3 DEF PanicInv
  <2> QED  BY <2>7, <2>8
<1> QED  BY <1>4, <1>5

(* Steps that move no completion and no result. *)
LEMMA QuietAccounted ==
  ASSUME Accounted, PanicInv,
         UNCHANGED <<entries, aborted, yielded, queued, running, channel, panicked>>,
         pc' # "dropped" => pc # "dropped"
  PROVE  Accounted' /\ PanicInv'
  BY DEF Accounted, PanicInv, Carried, CarriedOnce

(* Faults are only added, and only by the steps that inject them. *)
LEMMA FaultsGrow ==
  ASSUME IInv, [Next]_vars, faults' = 0 PROVE faults = 0 /\ ~Environment
<1>1. faults \in Nat
  BY DEF IInv, TypeOK, PoolTypeOK
<1>2. CASE Environment
  BY <1>1, <1>2 DEF Environment, SendForeign, SendTwice, LoseCompletion, Fault
<1>3. CASE Consumer \/ Driver \/ Terminated \/ UNCHANGED vars
  <2>1. faults' = faults
    BY <1>3 DEF Consumer, Driver, CallNext, CallNextAfterEnd, Drop, Submit, ExhaustInput, StopRefill,
       Yield, Finish, ReceiveCompletion, ReceiveDisconnected, Terminated, vars, poolVars
  <2> QED  BY <1>3, <2>1, <1>2
<1>4. ASSUME NEW w \in Workers, Worker(w) PROVE faults' = faults
  BY <1>4 DEF Worker, StartJob, SkipJob, FinishJob
<1> QED  BY <1>2, <1>3, <1>4 DEF Next

(* Every step without a fault keeps each missing result carried exactly once. *)
LEMMA NextAccounted ==
  ASSUME ~Environment, IInv, Accounted, PanicInv, [Next]_vars
  PROVE  Accounted' /\ PanicInv'
<1>1. CASE Submit
  BY <1>1, SubmitAccounted
<1>2. CASE Yield
  BY <1>2, YieldAccounted
<1>3. CASE ReceiveCompletion
  BY <1>3, ReceiveAccounted
<1>4. CASE ReceiveDisconnected
  BY <1>4, DisconnectedAccounted
<1>5. CASE CallNext \/ CallNextAfterEnd \/ Drop \/ ExhaustInput \/ StopRefill \/ Finish
           \/ Terminated \/ UNCHANGED vars
  <2>1. /\ UNCHANGED <<entries, aborted, yielded, queued, running, channel, panicked>>
        /\ pc' # "dropped" => pc # "dropped"
    BY <1>5 DEF CallNext, CallNextAfterEnd, Drop, ExhaustInput, StopRefill, Finish, Terminated,
       vars, driverVars, poolVars
  <2> QED  BY <2>1, QuietAccounted
<1>6. ASSUME NEW w \in Workers, StartJob(w) PROVE Accounted' /\ PanicInv'
  BY <1>6, StartAccounted
<1>7. ASSUME NEW w \in Workers, SkipJob(w) PROVE Accounted' /\ PanicInv'
  <2>1. /\ pc = "dropped" /\ pc' = "dropped"
        /\ UNCHANGED <<entries, aborted, yielded, channel, panicked>>
    BY <1>7 DEF SkipJob, driverVars, IInv, FlagInv
  <2> QED  BY <2>1 DEF Accounted, PanicInv
<1>8. ASSUME NEW w \in Workers, FinishJob(w) PROVE Accounted' /\ PanicInv'
  BY <1>8, FinishAccounted
<1> QED  BY <1>1, <1>2, <1>3, <1>4, <1>5, <1>6, <1>7, <1>8
         DEF Next, Consumer, Driver, Worker

(* Until a fault the accounting invariants hold in every reachable state. *)
THEOREM SpecAInv == Spec => []AInv
<1>1. Init => AInv
  <2> SUFFICES ASSUME Init PROVE AInv
    OBVIOUS
  <2>1. IInv
    BY InitIInv
  <2>2. Accounted
    BY DEF Init, Accounted, Carried, CarriedOnce
  <2>3. PanicInv
    BY DEF Init, PanicInv
  <2> QED  BY <2>1, <2>2, <2>3 DEF AInv
<1>2. AInv /\ [Next]_vars => AInv'
  BY NextIInv, NextAccounted, FaultsGrow DEF AInv
<1> QED  BY <1>1, <1>2, PTL DEF Spec

(* Without faults a submitted source lacks its result exactly when one job   *)
(* or one message carries it, and nothing carries it twice: `recv` cannot    *)
(* block for ever on a source nobody works on.                               *)
THEOREM CompletionsAreAccounted == Spec => []CompletionAccounted
<1>1. AInv => CompletionAccounted
  BY DEF AInv, Accounted, CompletionAccounted
<1> QED  BY <1>1, SpecAInv, PTL

(* The driver's count, its pending map, the pool and the results returned    *)
(* agree in every reachable state, for any number of workers and inputs.     *)
THEOREM DriverIsConsistent == Spec => []DriverConsistent
<1>1. WindowBound /\ OrderedResults /\ CompletionAccounted => DriverConsistent
  BY DEF DriverConsistent
<1> QED  BY <1>1, WindowIsBounded, ResultsAreOrdered, CompletionsAreAccounted, PTL

(* Without faults the driver never aborts and returns a WorkerPanic for a    *)
(* source only if the analysis of that source panicked.                      *)
THEOREM PanicsAreGenuine == Spec => []NoInventedPanic
<1>1. AInv => NoInventedPanic
  <2>1. IInv => DOMAIN yielded = 1 .. Len(yielded)
    BY DEF IInv, TypeOK, DriverTypeOK
  <2> QED  BY <2>1 DEF AInv, PanicInv, NoInventedPanic
<1> QED  BY <1>1, SpecAInv, PTL
=============================================================================
