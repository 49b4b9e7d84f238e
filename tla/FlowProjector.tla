---------------------------- MODULE FlowProjector ----------------------------
(***************************************************************************)
(* Object-flow projection of one file.  The projector reads the fact       *)
(* stream once and keeps the bounded list of environments that may hold at *)
(* the current fact (the frontier).  A straight-line fact is transferred   *)
(* over every path; control markers save the frontier in a frame, replace  *)
(* it or join it with saved ones; the end of a loop replays the body over  *)
(* its back-edge environments until no new one appears.  A finding is      *)
(* Definite when every path of the frontier was ready at its fact, and     *)
(* every finding of a run that ran out of anything becomes Possible.       *)
(***************************************************************************)
EXTENDS FlowReference, FiniteSets, SequencesExt

(* What may be projected: a file (a block of statements), the completion   *)
(* policy of the lifecycle, and the bounds of the run.                     *)
CONSTANT Projections

VARIABLES
    file,      \* the file, its facts, the policy and the bounds: never change
    pc,        \* position of the next fact
    frontier,  \* the paths that reach it
    stack,     \* frames of the open control constructs, innermost last
    loops,     \* fixed points under way, innermost last
    run,       \* what the run has consumed and which bound it met
    evidence   \* the findings emitted so far

vars == <<file, pc, frontier, stack, loops, run, evidence>>

Limits == file.limits
Fact == file.facts[pc]
Done == run.done

(* LoopEnd takes the loop's fixed point through its replays.               *)
Replaying == loops # <<>>

NewRun == [used |-> 0, complete |-> TRUE, objects |-> 0, changes |-> 0,
           rejected |-> {}, emitted |-> 0, done |-> FALSE]

Init ==
    /\ \E p \in Projections :
         file = [block |-> p.block, facts |-> BlockFacts(p.block, 1),
                 policy |-> p.policy, limits |-> p.limits]
    /\ pc = 1
    /\ frontier = <<EmptyEnvironment>>
    /\ stack = <<>> /\ loops = <<>>
    /\ run = NewRun
    /\ evidence = {}

------------------------------------------------------------------------------
(* Budgets.  An operation is charged for every path that is restored; once *)
(* they are spent the remaining paths are dropped.  A full mutation log    *)
(* can restore no path at all.                                             *)

Incomplete(r) == [r EXCEPT !.complete = FALSE]
Reject(r, what) == [r EXCEPT !.rejected = @ \cup {what}]
HasOperation(r) == r.used < Limits.operations
Charge(r) == IF HasOperation(r) THEN [r EXCEPT !.used = @ + 1] ELSE Incomplete(r)
Restorable(r) == "mutations" \notin r.rejected

Log(r, env, next) ==
    LET changed == ChangedEntries(env, next)
    IN  IF r.changes + changed > Limits.mutations
        THEN Reject([r EXCEPT !.changes = Limits.mutations], "mutations")
        ELSE [r EXCEPT !.changes = @ + changed]

(* Keep the first path of each meaning, in order.                          *)
AdmitAll(paths, seen, r) ==
    FoldLeft(LAMBDA acc, env :
        IF acc.stopped THEN acc
        ELSE IF ~HasOperation(acc.run)
             THEN [acc EXCEPT !.run = Charge(@), !.stopped = TRUE, !.whole = FALSE]
        ELSE IF ~Restorable(acc.run)
             THEN [acc EXCEPT !.run = Incomplete(Charge(@)), !.whole = FALSE]
        ELSE IF SemanticSnapshot(env) \in acc.seen
             THEN [acc EXCEPT !.run = Charge(@)]
        ELSE [acc EXCEPT !.run = Charge(@), !.paths = Append(@, env),
                         !.seen = @ \cup {SemanticSnapshot(env)}],
      [paths |-> <<>>, seen |-> seen, run |-> r, stopped |-> FALSE, whole |-> TRUE],
      paths)

Truncated(acc) ==
    IF Len(acc.paths) > Limits.alternatives
    THEN [acc EXCEPT !.paths = SubSeq(@, 1, Limits.alternatives), !.run = Incomplete(@)]
    ELSE acc

Join(paths, r) == Truncated(AdmitAll(paths, {}, r))

------------------------------------------------------------------------------
(* Straight-line facts.                                                    *)

(* One identity per matching source and path, as long as they last.        *)
Allocate(r) ==
    IF Fact.k # "new" THEN [object |-> NoObject, run |-> r]
    ELSE IF r.objects >= Limits.objects
         THEN [object |-> NoObject, run |-> Reject(r, "objects")]
    ELSE [object |-> r.objects + 1, run |-> [r EXCEPT !.objects = @ + 1]]

NoteStateLimit(r, env, object) ==
    IF object # NoObject /\ ~Admissible(env, Limits.states)
    THEN Reject(r, "states") ELSE r

TransferPath(acc, env, index) ==
    LET alloc == Allocate(Charge(acc.run))
        next  == Transfer(env, Fact, pc, alloc.object, Limits.states)
        ready == IF Replaying THEN <<>>
                 ELSE SetToSeq(Reported(file.policy, next, Fact))
    IN  [acc EXCEPT
            !.paths = Append(@, next),
            !.pending = @ \o [i \in DOMAIN ready |->
                [path |-> index, object |-> ready[i], state |-> next.states[ready[i]]]],
            !.run = Log(NoteStateLimit(alloc.run, env, alloc.object), env, next)]

TransferAll(paths, r) ==
    FoldLeftDomain(LAMBDA acc, index :
        IF acc.stopped THEN acc
        ELSE IF ~HasOperation(acc.run)
             THEN [acc EXCEPT !.run = Charge(@), !.stopped = TRUE]
        ELSE IF ~Restorable(acc.run)
             THEN [acc EXCEPT !.run = Incomplete(Charge(@))]
        ELSE TransferPath(acc, paths[index], index),
      [paths |-> <<>>, pending |-> <<>>, run |-> r, stopped |-> FALSE], paths)

CertaintySome(moved, count) ==
    IF moved.run.complete /\ moved.pending # <<>> THEN "Definite" ELSE "Possible"
(* A fact is Definite when nothing was lost so far and every path queued.  *)
Certainty(moved, count) ==
    LET matching == {moved.pending[i].path : i \in DOMAIN moved.pending}
    IN  IF moved.run.complete /\ Cardinality(matching) = count
        THEN "Definite" ELSE "Possible"

(* Emission reserves room in the evidence table, in the order of paths.    *)
Admitted(moved) == SubSeq(moved.pending, 1, Limits.emissions - moved.run.emitted)
Emit(moved) ==
    LET room == Limits.emissions - moved.run.emitted
        kept == IF Len(moved.pending) <= room THEN moved.run
                ELSE Reject(moved.run, "emissions")
    IN  [kept EXCEPT !.emitted =
            @ + (IF Len(moved.pending) <= room THEN Len(moved.pending) ELSE room)]

Findings(moved, count) ==
    LET kept == IF Len(moved.pending) <= Limits.emissions - moved.run.emitted
                THEN moved.pending ELSE Admitted(moved)
    IN  {[event |-> pc, object |-> kept[i].object, state |-> kept[i].state,
          certainty |-> Certainty(moved, count)] : i \in DOMAIN kept}

Advance == pc' = pc + 1

StraightlineKinds ==
    {"new", "copy", "kill", "invalidate", "write", "configure", "sink", "helper"}
Straightline ==
    /\ Fact.k \in StraightlineKinds
    /\ Advance
    /\ \E moved \in {TransferAll(frontier, run)} :
         /\ evidence' = evidence \cup Findings(moved, Len(frontier))
         /\ \E joined \in {Join(moved.paths, Emit(moved))} :
              /\ frontier' = joined.paths
              /\ run' = joined.run
    /\ UNCHANGED <<file, stack, loops>>

------------------------------------------------------------------------------
(* Control frames.  A frame answers only to markers of its own region.     *)

Top == Last(stack)
Pop == Front(stack)
OnTop(kind) == stack # <<>> /\ Top.k = kind /\ (kind # "Function" => Top.region = Fact.region)
Push(frame) == stack' = Append(stack, frame)
SetTop(frame) == stack' = Append(Pop, frame)

JoinInto(paths) ==
    \E joined \in {Join(paths, run)} : frontier' = joined.paths /\ run' = joined.run
Keep == UNCHANGED <<frontier, run>>
(* A marker that does not match its frame costs the run its completeness.  *)
Misaligned ==
    /\ run' = Incomplete(run)
    /\ frontier' = IF Fact.k = "FinallyStart" THEN <<>> ELSE frontier
    /\ UNCHANGED stack

BranchStart ==
    /\ Push([k |-> "Branch", region |-> Fact.region, base |-> frontier, thenExit |-> <<>>])
    /\ Keep
BranchThen == SetTop([Top EXCEPT !.base = frontier]) /\ Keep
BranchElse ==
    /\ SetTop([Top EXCEPT !.thenExit = <<frontier>>])
    /\ frontier' = Top.base
    /\ UNCHANGED run
BranchEnd ==
    /\ stack' = Pop
    /\ JoinInto((IF Top.thenExit = <<>> THEN Top.base ELSE Top.thenExit[1]) \o frontier)

Branch ==
    /\ Fact.k \in {"BranchStart", "BranchThen", "BranchElse", "BranchEnd"}
    /\ Advance
    /\ IF Fact.k # "BranchStart" /\ ~OnTop("Branch") THEN Misaligned
       ELSE \/ Fact.k = "BranchStart" /\ BranchStart
            \/ Fact.k = "BranchThen" /\ BranchThen
            \/ Fact.k = "BranchElse" /\ BranchElse
            \/ Fact.k = "BranchEnd" /\ BranchEnd
    /\ UNCHANGED <<file, loops, evidence>>

SwitchStart ==
    /\ Push([k |-> "Switch", region |-> Fact.region, base |-> frontier,
             breaks |-> <<>>, hasDefault |-> FALSE])
    /\ Keep
SwitchCase ==
    /\ SetTop([Top EXCEPT !.hasDefault = @ \/ Fact.default])
    /\ JoinInto(Top.base \o frontier)
SwitchEnd ==
    /\ stack' = Pop
    /\ JoinInto(frontier \o Top.breaks \o (IF Top.hasDefault THEN <<>> ELSE Top.base))

Switch ==
    /\ Fact.k \in {"SwitchStart", "SwitchCase", "SwitchEnd"}
    /\ Advance
    /\ IF Fact.k # "SwitchStart" /\ ~OnTop("Switch") THEN Misaligned
       ELSE \/ Fact.k = "SwitchStart" /\ SwitchStart
            \/ Fact.k = "SwitchCase" /\ SwitchCase
            \/ Fact.k = "SwitchEnd" /\ SwitchEnd
    /\ UNCHANGED <<file, loops, evidence>>

------------------------------------------------------------------------------
(* try / catch / finally.  A handler starts from the paths that entered    *)
(* the try block.  The paths that reach a finalizer are the normal ones    *)
(* followed by the abrupt ones; what leaves it is told apart by position.  *)

TryStart ==
    /\ Push([k |-> "Try", region |-> Fact.region, base |-> frontier,
             tryExit |-> <<>>, catchExit |-> <<>>, abrupt |-> <<>>,
             hasFinally |-> FALSE, normalCount |-> 0])
    /\ Keep
CatchStart ==
    /\ SetTop([Top EXCEPT !.tryExit = frontier])
    /\ frontier' = Top.base
    /\ UNCHANGED run
FinallyStart ==
    LET normal == Top.tryExit \o frontier IN
    /\ SetTop([Top EXCEPT !.catchExit = frontier, !.hasFinally = TRUE,
                          !.normalCount = Len(normal)])
    /\ JoinInto(normal \o [i \in DOMAIN Top.abrupt |-> Top.abrupt[i].env])

Nearest(frames, kinds) ==
    LET at == {i \in DOMAIN frames : frames[i].k \in kinds}
    IN  IF at = {} THEN 0 ELSE CHOOSE i \in at : \A j \in at : j <= i
(* A break or continue path waits in the construct it leaves or resumes; a *)
(* returning path is over.                                                 *)
HasTarget(kind, frames) ==
    \/ kind = "return"
    \/ Nearest(frames, IF kind = "break" THEN {"Loop", "Switch"} ELSE {"Loop"}) # 0
Route(kind, env, frames) ==
    IF kind = "return" THEN frames
    ELSE IF kind = "break"
         THEN [frames EXCEPT ![Nearest(frames, {"Loop", "Switch"})].breaks = Append(@, env)]
         ELSE [frames EXCEPT ![Nearest(frames, {"Loop"})].continues = Append(@, env)]

(* A try statement without a finalizer joins its paths.  Behind a          *)
(* finalizer the first paths go on and the others resume their abrupt      *)
(* exits, one by one; a path too many is forgotten.  An exit that finds    *)
(* nothing to leave ends the resumption, and no path goes on at all.       *)
JoinTry == JoinInto(Top.tryExit \o Top.catchExit \o frontier)
NormalLength == Min({Top.normalCount, Len(frontier)})
Resuming == 1..Min({Len(Top.abrupt), Len(frontier) - NormalLength})
Stuck == {i \in Resuming : ~HasTarget(Top.abrupt[i].kind, Pop)}
ResumeExits ==
    stack' = FoldLeftDomain(LAMBDA frames, i :
        IF i \in Resuming /\ \A j \in Stuck : i < j
        THEN Route(Top.abrupt[i].kind, frontier[NormalLength + i], frames) ELSE frames,
      Pop, Top.abrupt)

TryEndKeepsAll == stack' = Pop /\ IF Top.hasFinally THEN Keep ELSE JoinTry
TryEndUnmarked ==
    IF ~Top.hasFinally THEN stack' = Pop /\ JoinTry
    ELSE /\ ResumeExits
         /\ frontier' = IF Stuck = {} THEN SubSeq(frontier, 1, NormalLength) ELSE <<>>
         /\ UNCHANGED run
TryEnd ==
    \/ ~Top.hasFinally /\ stack' = Pop /\ JoinTry
    \/ Top.hasFinally /\ ResumeExits /\
       \/ /\ Stuck = {}
          /\ frontier' = SubSeq(frontier, 1, NormalLength)
          /\ UNCHANGED run
       \/ /\ Stuck # {}
          /\ frontier' = <<>>
          /\ run' = Incomplete(run)

Try ==
    /\ Fact.k \in {"TryStart", "CatchStart", "FinallyStart", "TryEnd"}
    /\ Advance
    /\ IF Fact.k # "TryStart" /\ ~OnTop("Try") THEN Misaligned
       ELSE \/ Fact.k = "TryStart" /\ TryStart
            \/ Fact.k = "CatchStart" /\ CatchStart
            \/ Fact.k = "FinallyStart" /\ FinallyStart
            \/ Fact.k = "TryEnd" /\ TryEnd
    /\ UNCHANGED <<file, loops, evidence>>

(* Every open try block sees the exit, because its finalizer may run for   *)
(* it; the exit also goes straight to the construct it leaves.             *)
RecordExit(kind, paths, frames) ==
    [i \in DOMAIN frames |->
        IF frames[i].k # "Try" THEN frames[i]
        ELSE [frames[i] EXCEPT !.abrupt =
                @ \o [j \in DOMAIN paths |-> [kind |-> kind, env |-> paths[j]]]]]

Abrupt ==
    /\ Fact.k \in {"break", "continue", "return"}
    /\ Advance
    /\ \E recorded \in {RecordExit(Fact.k, frontier, stack)} :
         IF frontier # <<>> /\ ~HasTarget(Fact.k, recorded)
         THEN stack' = recorded /\ run' = Incomplete(run)
         ELSE /\ stack' = FoldLeft(LAMBDA frames, env : Route(Fact.k, env, frames),
                                   recorded, frontier)
              /\ UNCHANGED run
    /\ frontier' = <<>>
    /\ UNCHANGED <<file, loops, evidence>>

------------------------------------------------------------------------------
(* Functions are projected where they are declared, from cleared tables.   *)

ClearAll(paths, r) ==
    FoldLeft(LAMBDA acc, env :
        IF acc.stopped THEN acc
        ELSE IF ~HasOperation(acc.run)
             THEN [acc EXCEPT !.run = Charge(@), !.stopped = TRUE]
        ELSE IF ~Restorable(acc.run)
             THEN [acc EXCEPT !.run = Incomplete(Charge(@))]
        ELSE [acc EXCEPT !.paths = Append(@, EmptyEnvironment),
                         !.run = Log(Charge(@), env, EmptyEnvironment)],
      [paths |-> <<>>, run |-> r, stopped |-> FALSE], paths)

Enter ==
    /\ Push([k |-> "Function", region |-> Fact.region, caller |-> frontier])
    /\ \E cleared \in {ClearAll(frontier, run)} :
         \E joined \in {Join(cleared.paths, cleared.run)} :
            frontier' = joined.paths /\ run' = joined.run
Exit ==
    /\ stack' = Pop
    /\ frontier' = Top.caller
    /\ UNCHANGED run

Function ==
    /\ Fact.k \in {"Enter", "Exit"}
    /\ Advance
    /\ IF Fact.k = "Exit" /\ ~OnTop("Function") THEN Misaligned
       ELSE \/ Fact.k = "Enter" /\ Enter
            \/ Fact.k = "Exit" /\ Exit
    /\ UNCHANGED <<file, loops, evidence>>

------------------------------------------------------------------------------
(* Loops.  The first pass over the body is the ordinary one.  At the end   *)
(* of the body the fixed point replays it from the paths that have a       *)
(* meaning not seen before, until there are none or a bound is met; its    *)
(* frame stays on the stack so that replayed breaks and continues find it. *)

LoopStart ==
    /\ Push([k |-> "Loop", region |-> Fact.region, start |-> pc + 1, base |-> frontier,
             guaranteed |-> Fact.guaranteed, breaks |-> <<>>, continues |-> <<>>])
    /\ Keep
LoopUpdate ==
    /\ SetTop([Top EXCEPT !.continues = <<>>])
    /\ JoinInto(frontier \o Top.continues)

LoopBody ==
    /\ Fact.k \in {"LoopStart", "LoopUpdate"}
    /\ Advance
    /\ IF Fact.k = "LoopUpdate" /\ ~OnTop("Loop") THEN Misaligned
       ELSE \/ Fact.k = "LoopStart" /\ LoopStart
            \/ Fact.k = "LoopUpdate" /\ LoopUpdate
    /\ UNCHANGED <<file, loops, evidence>>

(* Every path that left the loop, one of each meaning.                     *)
LeaveLoop(point, whole, r, outer) ==
    /\ loops' = outer
    /\ stack' = Pop
    /\ Advance
    /\ \E unique \in {AdmitAll(point.exits, {}, r)} :
       \E joined \in {Join(unique.paths, IF whole /\ unique.whole THEN unique.run
                                         ELSE Incomplete(unique.run))} :
          frontier' = joined.paths /\ run' = joined.run

(* Replay the body once more from these paths, unless the loop has         *)
(* converged or its turns or the operations are used up.                   *)
Turn(point, paths, frame, r, outer) ==
    IF paths = <<>> THEN LeaveLoop(point, point.whole, r, outer)
    ELSE IF point.turns >= Limits.alternatives \/ ~HasOperation(r)
         THEN LeaveLoop(point, FALSE, Incomplete(r), outer)
    ELSE /\ loops' = Append(outer, [point EXCEPT !.turns = @ + 1,
                                                 !.breaks = Len(frame.breaks)])
         /\ SetTop(frame)
         /\ pc' = frame.start
         /\ frontier' = paths
         /\ run' = Charge(r)

AtOwnEnd == loops # <<>> /\ Last(loops).at = pc

StartFixedPoint ==
    /\ ~AtOwnEnd
    /\ \E entered \in {Join(frontier \o Top.continues, run)} :
       \E admitted \in {AdmitAll(entered.paths, {}, entered.run)} :
          Turn([at |-> pc, turns |-> 0, breaks |-> 0, seen |-> admitted.seen,
                whole |-> admitted.whole,
                exits |-> (IF Top.guaranteed THEN <<>> ELSE Top.base)
                          \o entered.paths \o Top.breaks],
               entered.paths, [Top EXCEPT !.base = <<>>, !.breaks = <<>>],
               admitted.run, loops)

EndTurn ==
    /\ AtOwnEnd
    /\ \E point \in {Last(loops)} :
       \E joined \in {Join(frontier \o Top.continues, run)} :
       \E admitted \in {AdmitAll(joined.paths, point.seen, joined.run)} :
          Turn([point EXCEPT !.seen = admitted.seen, !.whole = @ /\ admitted.whole,
                    !.exits = @ \o joined.paths
                              \o SubSeq(Top.breaks, point.breaks + 1, Len(Top.breaks))],
               admitted.paths, [Top EXCEPT !.continues = <<>>],
               admitted.run, Front(loops))

LoopEnd ==
    /\ Fact.k = "LoopEnd"
    /\ IF ~OnTop("Loop") THEN Misaligned /\ Advance /\ UNCHANGED loops
       ELSE StartFixedPoint \/ EndTurn
    /\ UNCHANGED <<file, evidence>>

------------------------------------------------------------------------------
(* A run that met any bound cannot claim that every path was seen.         *)
Exhausted == ~run.complete \/ run.rejected # {}

Finish ==
    /\ pc > Len(file.facts)
    /\ ~Done
    /\ run' = [run EXCEPT !.done = TRUE]
    /\ evidence' = IF Exhausted THEN {[e EXCEPT !.certainty = "Possible"] : e \in evidence}
                   ELSE evidence
    /\ UNCHANGED <<file, pc, frontier, stack, loops>>

Project ==
    /\ pc <= Len(file.facts)
    /\ \/ Straightline \/ Branch \/ Switch \/ Try \/ Abrupt \/ Function
       \/ LoopBody \/ LoopEnd

(* A finished projection rests.                                            *)
Rest == Done /\ UNCHANGED vars

Next == Project \/ Finish \/ Rest

Spec == Init /\ [][Next]_vars

------------------------------------------------------------------------------
(* Properties.                                                             *)

FrameKinds == {"Branch", "Switch", "Try", "Loop", "Function"}
(* Every component of the projector keeps its shape: positions inside the  *)
(* fact stream, paths that are environments, frames of the five kinds of   *)
(* control construct, findings at facts of the file.                       *)
TypeOK ==
    /\ pc \in 1..(Len(file.facts) + 1)
    /\ \A env \in ToSet(frontier) :
         /\ \A v \in Vars : env.alias[v] \in 0..MaxObjects
         /\ \A o \in Objects : env.states[o].source \in 0..Len(file.facts)
    /\ \A i \in DOMAIN stack : stack[i].k \in FrameKinds
    /\ \A i \in DOMAIN loops : file.facts[loops[i].at].k = "LoopEnd"
    /\ run.complete \in BOOLEAN /\ run.done \in BOOLEAN
    /\ run.rejected \subseteq {"objects", "states", "mutations", "emissions"}
    /\ \A e \in evidence : /\ e.event \in 1..Len(file.facts)
                           /\ e.object \in Objects
                           /\ e.certainty \in {"Definite", "Possible"}

(* The constructs open at a position, innermost last.                      *)
OpenRegions(facts, count) ==
    FoldLeft(LAMBDA open, f :
        IF f.k \in {"BranchStart", "SwitchStart", "TryStart", "LoopStart", "Enter"}
        THEN Append(open, f.region)
        ELSE IF f.k \in {"BranchEnd", "SwitchEnd", "TryEnd", "LoopEnd", "Exit"}
        THEN Front(open) ELSE open,
      <<>>, SubSeq(facts, 1, count))

(* What the executions of the file saw; "ready" are the states complete at *)
(* the event.                                                              *)
Executions == Sightings(file.policy, file.block)
Ready(seen, event) == UNION {s.ready : s \in {t \in seen : t.event = event}}
Reaches(seen, event) == \E s \in seen : s.event = event

CompleteOnEveryPath(event) ==
    \A seen \in Executions : Reaches(seen, event) => Ready(seen, event) # {}
Turns(event) ==
    \E region \in ToSet(OpenRegions(file.facts, event)) :
        file.facts[region].k = "LoopStart"

(* Every execution that reaches the event of a Definite finding has a      *)
(* complete lifecycle there: outside loop bodies, whose replays emit       *)
(* nothing, incomplete paths included.  The code does not keep this behind *)
(* a finalizer that branches: its end tells normal paths by their number.  *)
DefiniteOnEveryPath ==
    Done => \A e \in evidence :
        e.certainty = "Definite" /\ ~Turns(e.event) => CompleteOnEveryPath(e.event)

(* Nothing is invented: the lifecycle a finding reports, with all of its   *)
(* source, requirement and sink events, is the one of a single execution,  *)
(* also when paths were joined, cut off or dropped for want of budget.     *)
(* The code does not keep this for a jump out of a try block with a        *)
(* finalizer: one path of it goes past the finalizer.                      *)
FindingsWitnessed ==
    Done /\ "states" \notin run.rejected => \A e \in evidence :
        \E seen \in Executions : e.state \in Ready(seen, e.event)

(* Nothing is missed: a run that met no bound reports every lifecycle that *)
(* some execution completes at an event outside loop bodies, and calls     *)
(* Definite those which every execution that reaches the event completes.  *)
CompleteRunIsExact ==
    Done /\ ~Exhausted => \A seen \in Executions : \A s \in seen : ~Turns(s.event) =>
        \A state \in s.ready : \E e \in evidence :
            /\ e.event = s.event /\ e.state = state
            /\ CompleteOnEveryPath(s.event) => e.certainty = "Definite"
==============================================================================
