------------------------------ MODULE CrossFlow ------------------------------
(***************************************************************************)
(* Project-wide flow projection: a lifecycle followed across files.        *)
(*                                                                         *)
(* After linking, the objects produced by the lifecycle's source calls are *)
(* followed through returned values to every value that may hold them;     *)
(* then contexts (a function, the value or parameter that carries the      *)
(* object in it, the evidence so far) are projected over the effects of    *)
(* their functions, which enqueues the contexts of the functions called.   *)
(* A context reports at a sink only after crossing from one function to    *)
(* another module: everything else belongs to local analysis.              *)
(*                                                                         *)
(* One lifecycle is tracked.  Function summaries of the modules are built  *)
(* first; they read the same effects.                                      *)
(***************************************************************************)
EXTENDS FunctionSummaries

CONSTANTS Programs,      \* linked programs (model only)
          Policies,      \* completion policies of the lifecycle
          Limits,        \* budgets: [effects, flow] of the project's limits
          SourceCallee,  \* the call that produces the tracked object
          MaxContexts, MaxPending

LOCAL Lifecycle == INSTANCE FlowLifecycle WITH Vars <- {}, MaxObjects <- 0

VARIABLES program, policy, limit,
          effects,      \* function effects of all modules
          summaries,    \* per module: [table, waiting]
          sources,      \* [f, v, fact]: value v of f holds the object made at fact
          frontier,     \* source propagation: items waiting and number ever seen
          sourceBudget,
          worklist,     \* contexts waiting, ever seen, and whether one was refused
          steps,        \* budget of projections
          evidence,     \* witnesses found and sinks reached without one
          complete,     \* no limit was hit
          phase

vars == <<program, policy, limit, effects, summaries, sources, frontier,
          sourceBudget, worklist, steps, evidence, complete, phase>>

------------------------------------------------------------------------------
(* The qualified call graph: a call of a project function, local or        *)
(* imported, leads to that function.                                       *)

TargetOf(call) == call.callee
IsTargeted(call) == call.callee \in Functions

ValidFunctions == {f \in Functions : Usable(effects[f])}
CallsOf(f) == {effects[f].calls[i] : i \in 1..Len(effects[f].calls)}

------------------------------------------------------------------------------
(* Sources.  A candidate is remembered by the number of its fact alone; it *)
(* is qualified with the module of the value it has reached.               *)

DirectSources ==
    UNION {{[f |-> f, v |-> c.result, fact |-> c.event] :
              c \in {c \in CallsOf(f) : c.callee = SourceCallee}} : f \in ValidFunctions}

(* The result of a call may hold what the target returns, and a root       *)
(* argument that the target returns unchanged.                             *)
ReturnEdges(f, call) ==
    {<<[f |-> TargetOf(call), v |-> RootValue(effects[TargetOf(call)], r.value)],
       [f |-> f, v |-> call.result]>> :
        r \in {r \in effects[TargetOf(call)].returns : r.parameter = NoParameter}}

ArgumentEdges(f, call) ==
    {<<[f |-> f, v |-> RootValue(effects[f], call.arguments[i].base)],
       [f |-> f, v |-> call.result]>> :
        i \in {i \in 1..Len(call.arguments) :
                  /\ IsRoot(call.arguments[i].path)
                  /\ \E r \in effects[TargetOf(call)].returns :
                        r.parameter = [index |-> i, path |-> <<>>]}}

Adjacency == UNION {UNION {ReturnEdges(f, c) \cup ArgumentEdges(f, c) :
                              c \in {c \in CallsOf(f) : IsTargeted(c)}} :
                       f \in ValidFunctions}

Destinations(item) ==
    SetToSeq({e[2] : e \in {e \in Adjacency : /\ e[1] = [f |-> item.f, v |-> item.v]
                                              /\ e[2] # e[1]}})

(* A candidate new to its destination is charged and waits its turn.       *)
Spread(state, to, fact) ==
    LET item == [f |-> to.f, v |-> to.v, fact |-> fact]
        added == [state EXCEPT !.sources = @ \cup {item}]
        budget == Spend(state.budget, 1)
    IN  IF ~state.complete \/ item \in state.sources THEN state
        ELSE IF budget.exhausted
        THEN [added EXCEPT !.budget = budget, !.complete = FALSE]
        ELSE IF state.frontier.seen >= MaxPending
        THEN [added EXCEPT !.budget = budget, !.complete = FALSE]
        ELSE [added EXCEPT !.budget = budget,
                 !.frontier = [queue |-> Append(@.queue, item), seen |-> @.seen + 1]]

------------------------------------------------------------------------------
(* Contexts and the worklist.                                              *)

NoSource == <<>>
Fresh(source) == [Lifecycle!NoState EXCEPT !.source = source]

FromSource(f, v, state, crossed) ==
    [function |-> f, value |-> v, parameter |-> 0, state |-> state, crossed |-> crossed]
FromCall(f, index, state, crossed) ==
    [function |-> f, value |-> Unknown, parameter |-> index, state |-> state,
     crossed |-> crossed]

EmptyWorklist == [queue |-> <<>>, seen |-> {}, exhausted |-> FALSE]

Push(list, context) ==
    IF context \in list.seen THEN list
    ELSE IF Cardinality(list.seen) >= MaxContexts THEN [list EXCEPT !.exhausted = TRUE]
    ELSE [list EXCEPT !.queue = Append(@, context), !.seen = @ \cup {context}]

(* The callee receives the object in its plain parameter at that position; *)
(* a destructured parameter receives a part of it and is not followed.     *)
EnqueueParameters(list, f, index, state, crossed) ==
    IF list.exhausted \/ ~effects[f].known
       \/ [index |-> index, path |-> <<>>] \notin
             {[index |-> q.index, path |-> q.path] : q \in program.parameters[f]}
    THEN list ELSE Push(list, FromCall(f, index, state, crossed))

(* Every value that holds an object starts a context.  It has crossed if   *)
(* it is not the result of the source call with the candidate's number in  *)
(* the same module.                                                        *)
SourceCallResult(module, fact) ==
    LET at == {p \in UNION {{f} \X (1..Len(program.body[f])) : f \in Functions} :
                 /\ program.module[p[1]] = module
                 /\ FactOf(program, p[1], p[2]) = fact
                 /\ program.body[p[1]][p[2]].k = "call"}
    IN  IF at = {} THEN Unknown
        ELSE LET p == CHOOSE p \in at : TRUE IN program.body[p[1]][p[2]].to

SeedFromSources(list) ==
    FoldLeft(LAMBDA l, s :
                IF l.exhausted THEN l
                ELSE Push(l, FromSource(s.f, s.v,
                        Fresh(Qualified(program, s.f, s.fact)),
                        s.v # SourceCallResult(program.module[s.f], s.fact))),
             list, SetToSeq(sources))

(* Every root argument of every call is an alternative: with the objects   *)
(* it may hold, or with an unknown source when it holds none.              *)
ArgumentSources(f, argument) ==
    {s \in sources : s.f = f /\ s.v = RootValue(effects[f], argument.base)}

(* A fault: a call site without a source is not an alternative.            *)
AlternativesKnown(f, argument) ==
    {Fresh(Qualified(program, f, s.fact)) : s \in ArgumentSources(f, argument)}

AlternativesAt(f, argument) ==
    LET held == ArgumentSources(f, argument)
    IN  IF sources = {} THEN {}
        ELSE IF held = {} THEN {Fresh(NoSource)}
        ELSE {Fresh(Qualified(program, f, s.fact)) : s \in held}

SeedCall(list, f, call) ==
    FoldLeft(LAMBDA l, i :
                IF ~IsRoot(call.arguments[i].path) THEN l
                ELSE FoldLeft(LAMBDA l2, state :
                        EnqueueParameters(l2, TargetOf(call), i, state,
                            program.module[TargetOf(call)] # program.module[f]),
                        l, SetToSeq(AlternativesAt(f, call.arguments[i]))),
             list, [i \in 1..Len(call.arguments) |-> i])

SeedFromCalls(list) ==
    FoldLeft(LAMBDA l, f :
                IF ~Usable(effects[f]) THEN l
                ELSE FoldLeft(LAMBDA l2, call :
                        IF l2.exhausted \/ ~IsTargeted(call) THEN l2
                        ELSE SeedCall(l2, f, call),
                        l, effects[f].calls),
             list, FunctionOrder)

------------------------------------------------------------------------------
(* Which uses of a function concern the object of a context.               *)

MatchesParameter(context, parameter, argumentIsRoot) ==
    /\ context.parameter # 0
    /\ parameter = [index |-> context.parameter, path |-> <<>>]
    /\ argumentIsRoot

MatchesSourceRoot(context, root) == context.parameter = 0 /\ context.value = root

MatchesArgument(context, effect, argument) ==
    \/ MatchesParameter(context, argument.parameter, IsRoot(argument.path))
    \/ /\ MatchesSourceRoot(context, RootValue(effect, argument.base))
       /\ IsRoot(argument.path)

MatchesUse(context, effect, use) ==
    CASE use.k = "write" -> \/ MatchesParameter(context, use.parameter, TRUE)
                            \/ MatchesSourceRoot(context, RootValue(effect, use.on))
      [] use.k = "receiver" -> MatchesParameter(context, use.parameter, TRUE)
      [] use.k = "argument" -> MatchesArgument(context, effect,
                                               use.call.arguments[use.index])

------------------------------------------------------------------------------
(* Evidence: witnesses by the sink they end at, and the sinks some         *)
(* alternative reached incomplete, which makes every witness there only    *)
(* possible.                                                               *)

NoEvidence == [witnesses |-> {}, nonmatching |-> {}]

(* The trace of a witness: its source, the requirements met and the sinks  *)
(* passed before this one.                                                 *)
Emit(found, event, state) ==
    [found EXCEPT !.witnesses = @ \cup
        {[at |-> event, source |-> state.source,
          met  |-> UNION {state.met[r] : r \in Requirements},
          sunk |-> (UNION {state.sunk[k] : k \in Sinks}) \ {event}]}]

MarkNonmatching(found, event) == [found EXCEPT !.nonmatching = @ \cup {event}]

(* Certainty of what is found at a sink when projection has ended.         *)
Certainty(event) ==
    IF event \in evidence.nonmatching \/ ~complete THEN "Possible" ELSE "Definite"

------------------------------------------------------------------------------
(* Projecting one context over the uses of its function, in order.  A      *)
(* "walk" is the state reached, the calls already propagated, the worklist *)
(* and the evidence.                                                       *)

(* A fault: the object is handed on as it entered the function.            *)
PropagateCallsUnchanged(walk, context, through) ==
    LET f == context.function
        Hand(w, call) ==
            IF call.event > through \/ call.event \in w.propagated THEN w
            ELSE [w EXCEPT !.propagated = @ \cup {call.event}, !.list =
                    IF ~IsTargeted(call) THEN @
                    ELSE FoldLeft(LAMBDA l, i :
                            IF ~MatchesArgument(context, effects[f], call.arguments[i]) THEN l
                            ELSE EnqueueParameters(l, TargetOf(call), i, context.state,
                                    context.crossed \/
                                    program.module[TargetOf(call)] # program.module[f]),
                            @, [i \in 1..Len(call.arguments) |-> i])]
    IN  FoldLeft(Hand, walk, effects[f].calls)

(* Calls up to an event hand the object on with the state reached before   *)
(* the event.                                                              *)
PropagateCalls(walk, context, through) ==
    LET f == context.function
        effect == effects[f]
        Hand(w, call) ==
            IF call.event > through \/ call.event \in w.propagated THEN w
            ELSE LET noted == [w EXCEPT !.propagated = @ \cup {call.event}]
                     target == TargetOf(call)
                 IN  IF ~IsTargeted(call) THEN noted
                     ELSE [noted EXCEPT !.list =
                        FoldLeft(LAMBDA l, i :
                            IF ~MatchesArgument(context, effect, call.arguments[i]) THEN l
                            ELSE EnqueueParameters(l, target, i, w.state,
                                    context.crossed \/
                                    program.module[target] # program.module[f]),
                            @, [i \in 1..Len(call.arguments) |-> i])]
    IN  FoldLeft(Hand, walk, effect.calls)

(* A requirement is recorded; a lifecycle that reports on configuration    *)
(* reports here, whether or not the context has a source.                  *)
AdvanceRequirements(walk, context, event, met) ==
    LET at == Qualified(program, context.function, event)
        next == [walk.state EXCEPT !.met =
                    [r \in Requirements |-> IF r \in met THEN @[r] \cup {at} ELSE @[r]]]
        ready == Lifecycle!RequirementsReady(policy, next)
    IN  [walk EXCEPT !.state = next,
            !.found = IF policy.sinks = "Configuration" /\ ready /\ context.crossed
                      THEN Emit(@, at, next) ELSE @]

(* A fault: a sink reports without a source being known.                   *)
AdvanceSinkUnsourced(walk, context, event, sink) ==
    LET at == Qualified(program, context.function, event)
        next == [walk.state EXCEPT !.sunk[sink] = @ \cup {at}]
    IN  IF ~context.crossed THEN walk
        ELSE [walk EXCEPT !.state = next,
                 !.found = IF Lifecycle!CompleteState(policy, next)
                           THEN Emit(@, at, next) ELSE MarkNonmatching(@, at)]

(* A sink counts only once the object has crossed.  It reports when the    *)
(* lifecycle is complete and its source known, and is marked otherwise.    *)
AdvanceSink(walk, context, event, sink) ==
    LET at == Qualified(program, context.function, event)
        next == [walk.state EXCEPT !.sunk[sink] = @ \cup {at}]
        ready == next.source # NoSource /\ Lifecycle!CompleteState(policy, next)
    IN  IF ~context.crossed THEN walk
        ELSE [walk EXCEPT !.state = next,
                 !.found = IF ready THEN Emit(@, at, next) ELSE MarkNonmatching(@, at)]

(* Lifecycles that report on configuration have no sinks of their own.     *)
ApplyUse(walk, context, use) ==
    CASE use.k = "write" ->
            AdvanceRequirements(walk, context, use.event,
                {r \in PropertyRequirements : use.property = r /\ use.ok})
      [] use.k = "receiver" ->
            AdvanceRequirements(walk, context, use.event,
                {r \in Requirements \ PropertyRequirements : use.callee = r})
      [] use.k = "argument" ->
            IF use.index = 1 /\ use.call.callee \in Sinks
               /\ policy.sinks # "Configuration"
            THEN AdvanceSink(walk, context, use.event, use.call.callee) ELSE walk

ProjectContext(context, list) ==
    LET effect == effects[context.function]
        start == [state |-> context.state, propagated |-> {}, list |-> list,
                  found |-> evidence]
        Use(w, use) ==
            IF ~MatchesUse(context, effect, use) THEN w
            ELSE ApplyUse(PropagateCalls(w, context, use.event), context, use)
        used == FoldLeft(Use, start, effect.uses)
    IN  IF ~Usable(effect) THEN start
        ELSE PropagateCalls(used, context, FactOf(program, context.function,
                                Len(program.body[context.function]) + 1))

------------------------------------------------------------------------------
Init ==
    /\ program \in Programs
    /\ policy \in Policies
    /\ limit \in Limits
    /\ effects = [f \in Functions |-> NoEffect]
    /\ summaries = [m \in Modules |-> [table |-> EmptyTable(limit.flow), waiting |-> {}]]
    /\ sources = {} /\ frontier = [queue |-> <<>>, seen |-> 0]
    /\ sourceBudget = NewBudget(limit.flow) /\ steps = NewBudget(limit.flow)
    /\ worklist = EmptyWorklist
    /\ evidence = NoEvidence
    /\ complete = TRUE
    /\ phase = "facts"

(* Local analysis of every module: its effects, and the sinks its          *)
(* functions reach directly.                                               *)
CollectEffects ==
    /\ phase = "facts"
    /\ \E built \in {Effects(program, limit.effects)} :
          /\ effects' = built.effects
          /\ summaries' = [m \in Modules |->
                             StartSummaries(program, built.effects, m, limit.flow)]
    /\ phase' = "summaries"
    /\ UNCHANGED <<program, policy, limit, sources, frontier, sourceBudget, worklist,
                   steps, evidence, complete>>

PropagateSummaries(m) ==
    /\ phase = "summaries" /\ summaries[m].waiting # {}
    /\ summaries' = [summaries EXCEPT ![m] =
          SummaryRound(program, effects, SummaryFunctions(program, effects, m), @)]
    /\ UNCHANGED <<program, policy, limit, effects, sources, frontier, sourceBudget,
                   worklist, steps, evidence, complete, phase>>

(* The project-wide pass starts with the source calls of every module.     *)
CollectSources ==
    /\ phase = "summaries" /\ \A m \in Modules : summaries[m].waiting = {}
    /\ sources' = DirectSources
    /\ LET fits == Cardinality(DirectSources) <= MaxPending
       IN  /\ frontier' = [queue |-> IF fits THEN SetToSeq(DirectSources) ELSE <<>>,
                           seen |-> Cardinality(DirectSources)]
           /\ complete' = fits
    /\ phase' = "sources"
    /\ UNCHANGED <<program, policy, limit, effects, summaries, sourceBudget, worklist,
                   steps, evidence>>

PropagateSource ==
    /\ phase = "sources" /\ frontier.queue # <<>>
    /\ \E spread \in
          {FoldLeft(LAMBDA s, to : Spread(s, to, Head(frontier.queue).fact),
                    [sources |-> sources, budget |-> sourceBudget, complete |-> TRUE,
                     frontier |-> [frontier EXCEPT !.queue = Tail(@)]],
                    Destinations(Head(frontier.queue)))} :
          /\ sources' = spread.sources
          /\ sourceBudget' = spread.budget
          /\ complete' = (complete /\ spread.complete)
          /\ frontier' = IF spread.complete THEN spread.frontier
                         ELSE [spread.frontier EXCEPT !.queue = <<>>]
    /\ UNCHANGED <<program, policy, limit, effects, summaries, worklist, steps,
                   evidence, phase>>

Seed ==
    /\ phase = "sources" /\ frontier.queue = <<>>
    /\ worklist' = SeedFromCalls(SeedFromSources(EmptyWorklist))
    /\ phase' = "projecting"
    /\ UNCHANGED <<program, policy, limit, effects, summaries, sources, frontier,
                   sourceBudget, steps, evidence, complete>>

Project ==
    /\ phase = "projecting" /\ worklist.queue # <<>>
    /\ ~worklist.exhausted /\ ~steps.exhausted
    /\ steps' = Spend(steps, 1)
    /\ \E rest \in {[worklist EXCEPT !.queue = Tail(@)]} :
          IF steps'.exhausted
          THEN worklist' = rest /\ UNCHANGED evidence
          ELSE \E walk \in {ProjectContext(Head(worklist.queue), rest)} :
                  worklist' = walk.list /\ evidence' = walk.found
    /\ UNCHANGED <<program, policy, limit, effects, summaries, sources, frontier,
                   sourceBudget, complete, phase>>

(* Projection ends when nothing waits, a context was refused or the budget *)
(* ran out; any of the limits makes every finding only possible.           *)
Finish ==
    /\ phase = "projecting"
    /\ worklist.queue = <<>> \/ worklist.exhausted \/ steps.exhausted
    /\ complete' = (complete /\ ~worklist.exhausted /\ ~steps.exhausted)
    /\ phase' = "done"
    /\ UNCHANGED <<program, policy, limit, effects, summaries, sources, frontier,
                   sourceBudget, worklist, steps, evidence>>

Next == \/ CollectEffects
        \/ \E m \in Modules : PropagateSummaries(m)
        \/ CollectSources \/ PropagateSource \/ Seed \/ Project \/ Finish

Spec == Init /\ [][Next]_vars /\ WF_vars(Next)
==============================================================================
