-------------------------- MODULE FunctionSummaries --------------------------
(***************************************************************************)
(* Sink summaries: which parameters of a function reach a lifecycle sink,  *)
(* directly or through helpers of the same module.  Local flow analysis    *)
(* reads them at a helper call instead of entering the helper.             *)
(*                                                                         *)
(* A summary sink is [index, path]: the value at that path of that         *)
(* argument reaches the sink.  Rounds propagate the sinks of a callee to   *)
(* its callers until nothing changes; one budget is charged for every      *)
(* function, sink and round, and running out anywhere ends the analysis.   *)
(***************************************************************************)
EXTENDS FunctionEffects

CONSTANTS MaxSummarySinks   \* sinks retained over all functions

SummaryFunctions(program, effects, m) ==
    SelectSeq(FunctionOrder, LAMBDA f : program.module[f] = m /\ Usable(effects[f]))

------------------------------------------------------------------------------
(* Whether a call binds the parameters of its target as a summary assumes. *)

ParameterCount(program, f) ==
    LET indices == {q.index : q \in program.parameters[f]}
    IN  IF indices = {} THEN 0 ELSE CHOOSE n \in indices : \A i \in indices : i <= n

AcceptsCallShape(program, f, args) ==
    /\ \A i \in 1..Len(args) : ~args[i].spread
    /\ Len(args) <= ParameterCount(program, f)
    /\ \A i \in 1..Len(args) : args[i].value # Unknown

(* The value of an argument at a path: itself, or what an object literal   *)
(* holds there.                                                            *)
ProjectArgument(args, index, path) ==
    IF index > Len(args) THEN Unknown
    ELSE IF IsRoot(path) THEN args[index].value ELSE args[index].inner

AcceptsProjection(program, q, args) ==
    q.index <= Len(args)
      /\ (IsRoot(q.path) \/ ProjectArgument(args, q.index, q.path) # Unknown)

InvocationCompatible(program, f, args) ==
    /\ AcceptsCallShape(program, f, args)
    /\ \A q \in program.parameters[f] : AcceptsProjection(program, q, args)

ParametersOfValue(program, f, v) ==
    {q \in program.parameters[f] : v # Unknown /\ q.value = v}

(* Sinks watch their first argument.                                       *)
DirectSinks(program, f, call) ==
    IF call.callee \notin Sinks \/ call.shape = <<>> THEN {}
    ELSE {[index |-> q.index, path |-> q.path \o call.shape[1].path] :
            q \in ParametersOfValue(program, f, call.shape[1].base)}

(* A sink of the target, seen from the caller: the parameter it watches is *)
(* bound to an argument that is itself a parameter of the caller.          *)
ProjectedSinks(program, caller, target, sinks, args) ==
    UNION {{[index |-> q.index, path |-> q.path] :
              q \in ParametersOfValue(program, caller,
                                      ProjectArgument(args, s.index, s.path))} :
           s \in {s \in sinks : \E q \in program.parameters[target] :
                                   q.index = s.index /\ q.path = s.path}}

------------------------------------------------------------------------------
(* Budgeted collection.  A table is [sinks: Functions -> sets, retained,   *)
(* budget, complete]; once incomplete it no longer changes.                *)

AdmitSinks(table, f, candidates) ==
    LET new == candidates \ table.sinks[f]
        budget == Spend(table.budget, Cardinality(new))
    IN  IF table.retained + Cardinality(new) > MaxSummarySinks
        THEN [table EXCEPT !.complete = FALSE]
        ELSE IF budget.exhausted
        THEN [table EXCEPT !.budget = budget, !.complete = FALSE]
        ELSE [table EXCEPT !.sinks[f] = @ \cup new, !.budget = budget,
                           !.retained = @ + Cardinality(new)]

EmptyTable(limit) == [sinks |-> [f \in Functions |-> {}], retained |-> 0,
                      budget |-> NewBudget(limit), complete |-> TRUE]

(* Every usable function is charged before the first sink is looked for.   *)
CollectFacts(table, functions) ==
    LET budget == Spend(table.budget, Len(functions))
    IN  [table EXCEPT !.budget = budget, !.complete = ~budget.exhausted]

CollectDirectSinks(program, effects, table, functions) ==
    FoldLeft(LAMBDA t, f :
        FoldLeft(LAMBDA u, call :
                    IF ~u.complete THEN u
                    ELSE AdmitSinks(u, f, DirectSinks(program, f, call)),
                 t, effects[f].calls),
        table, functions)

PropagateCallSinks(program, table, caller, call) ==
    LET target == call.callee
    IN  IF \/ ~table.complete
           \/ target \notin Functions \/ target = caller
           \/ program.module[target] # program.module[caller]
           \/ ~InvocationCompatible(program, target, call.shape)
        THEN table
        ELSE AdmitSinks(table, caller,
                ProjectedSinks(program, caller, target, table.sinks[target], call.shape))

(* A fault: a grown summary is not carried on to the callers.              *)
CallersForgotten(effects, functions, target) == {}

(* One round over the functions waiting, in identifier order; those whose  *)
(* sinks grew put their callers into the next round.                       *)
Callers(effects, functions, target) ==
    {functions[i] : i \in {i \in 1..Len(functions) :
        /\ functions[i] # target
        /\ \E c \in 1..Len(effects[functions[i]].calls) :
              effects[functions[i]].calls[c].callee = target}}

SummaryRound(program, effects, functions, work) ==
    LET started == Spend(work.table.budget, 1)
        table == [work.table EXCEPT !.budget = started, !.complete = ~started.exhausted]
        after == FoldLeft(LAMBDA t, f :
                            IF f \notin work.waiting THEN t
                            ELSE FoldLeft(LAMBDA u, call :
                                            PropagateCallSinks(program, u, f, call),
                                          t, effects[f].calls),
                          table, functions)
        changed == {f \in work.waiting : after.sinks[f] # table.sinks[f]}
    IN  [table |-> after,
         waiting |-> IF ~after.complete THEN {}
                     ELSE UNION {Callers(effects, functions, f) : f \in changed}]

(* The work of one module before its first round.                          *)
StartSummaries(program, effects, m, limit) ==
    LET functions == SummaryFunctions(program, effects, m)
        facts == CollectFacts(EmptyTable(limit), functions)
        direct == IF facts.complete
                  THEN CollectDirectSinks(program, effects, facts, functions) ELSE facts
    IN  [table |-> direct,
         waiting |-> IF direct.complete
                     THEN {functions[i] : i \in 1..Len(functions)} ELSE {}]
==============================================================================
