--------------------------- MODULE FunctionEffects ---------------------------
(***************************************************************************)
(* Function effects: what one function does with its parameters and local  *)
(* values, read once from the facts of its body and used by both the local *)
(* sink summaries (FunctionSummaries) and the project-wide flow projection *)
(* (CrossFlow).                                                            *)
(*                                                                         *)
(* A program names, for each function, its module, its parameters and the  *)
(* facts of its body in source order.  The resolver numbers the values of  *)
(* reassigned variables apart, so a value has one definition.  A parameter *)
(* is [index, path, value]: path <<>> for a plain parameter, <<"d">> for   *)
(* the destructured {d}.  A call argument is [base, path, value, inner,    *)
(* spread]: the member chain it is read through, the value it resolves to, *)
(* and the value behind "d" when it is an object literal.                  *)
(***************************************************************************)
EXTENDS Integers, Sequences, FiniteSets, SequencesExt

CONSTANTS FunctionOrder,   \* the functions, in the order of their identifiers
          Modules,
          Requirements, PropertyRequirements, Sinks

Functions == {FunctionOrder[i] : i \in 1..Len(FunctionOrder)}
Unknown == "?"
NoParameter == [index |-> 0, path |-> <<>>]
IsRoot(path) == path = <<>>

------------------------------------------------------------------------------
(* Fact identifiers are per module: the facts of the functions before f in *)
(* the same module come first, and entering a function is a fact itself.   *)

Position(f) == CHOOSE i \in 1..Len(FunctionOrder) : FunctionOrder[i] = f

Offset(program, f) ==
    FoldLeft(LAMBDA sum, g : IF program.module[g] = program.module[f]
                             THEN sum + Len(program.body[g]) + 1 ELSE sum,
             0, SubSeq(FunctionOrder, 1, Position(f) - 1))

FactOf(program, f, i) == Offset(program, f) + i
Qualified(program, f, fact) == <<program.module[f], fact>>

------------------------------------------------------------------------------
(* A budget of unit charges: the first refused charge is final.            *)

NewBudget(limit) == [left |-> limit, exhausted |-> FALSE]
Spend(budget, n) ==
    IF budget.exhausted \/ n > budget.left
    THEN [budget EXCEPT !.exhausted = TRUE]
    ELSE [budget EXCEPT !.left = @ - n]

------------------------------------------------------------------------------
(* Building one effect.                                                    *)

NoEffect == [known |-> FALSE, invalid |-> FALSE, calls |-> <<>>, uses |-> <<>>,
             returns |-> {}, roots |-> << >>]

(* Entering a function starts its effect with every parameter as a root.   *)
Entered(program, f) ==
    [NoEffect EXCEPT !.known = TRUE,
        !.roots = [v \in {q.value : q \in program.parameters[f]} |-> v]]

RootValue(effect, v) == IF v \in DOMAIN effect.roots THEN effect.roots[v] ELSE v

ParameterFor(program, f, effect, v) ==
    LET bound == {q \in program.parameters[f] : q.value = RootValue(effect, v)}
    IN  IF bound = {} \/ RootValue(effect, v) = Unknown THEN NoParameter
        ELSE LET q == CHOOSE q \in bound : TRUE
             IN  [index |-> q.index, path |-> q.path]

WithRoot(effect, v, root) ==
    [effect EXCEPT !.roots = [w \in DOMAIN effect.roots \cup {v} |->
                                IF w = v THEN root ELSE effect.roots[w]]]

Invalid(effect) == [effect EXCEPT !.invalid = TRUE]

(* A copy shares the root of its source; a copy of an unknown value drops  *)
(* the root, except that a parameter stays one.                            *)
CopyRoot(program, f, effect, to, from) ==
    IF to = Unknown THEN effect
    ELSE IF from # Unknown THEN WithRoot(effect, to, RootValue(effect, from))
    ELSE IF \E q \in program.parameters[f] : q.value = to THEN effect
    ELSE [effect EXCEPT !.roots = [w \in DOMAIN @ \ {to} |-> @[w]]]

(* Reading a value makes it a root, unless it has one already.              *)
RecordReference(effect, v) ==
    IF v = Unknown \/ v \in DOMAIN effect.roots THEN effect ELSE WithRoot(effect, v, v)

PropertyWrite(program, f, effect, event, fact) ==
    [effect EXCEPT !.uses = Append(@,
        [k |-> "write", event |-> event, on |-> fact.on, property |-> fact.property,
         ok |-> fact.ok, parameter |-> ParameterFor(program, f, effect, fact.on)])]

(* A call is a use of each of its arguments, and of its receiver when that *)
(* is a parameter.  All of them are charged; running out invalidates the   *)
(* effect.                                                                 *)
Arguments(program, f, effect, args) ==
    [i \in 1..Len(args) |->
        [base |-> args[i].base, path |-> args[i].path, value |-> args[i].value,
         parameter |-> ParameterFor(program, f, effect, args[i].base)]]

RecordCall(program, f, effect, event, fact) ==
    LET call == [event |-> event, callee |-> fact.callee, result |-> fact.to,
                 arguments |-> Arguments(program, f, effect, fact.args),
                 shape |-> fact.args]
        receiver == ParameterFor(program, f, effect, fact.on)
        called == [effect EXCEPT
            !.calls = Append(@, call),
            !.uses = @ \o [i \in 1..Len(fact.args) |->
                              [k |-> "argument", event |-> event, index |-> i,
                               call |-> call]]
                       \o (IF receiver = NoParameter THEN <<>>
                           ELSE <<[k |-> "receiver", event |-> event,
                                   parameter |-> receiver, callee |-> fact.callee]>>)]
    IN  IF fact.to \in DOMAIN effect.roots THEN called
        ELSE WithRoot(called, fact.to, fact.to)

CallCharge(program, f, effect, fact) ==
    Len(fact.args) + 1
  + (IF ParameterFor(program, f, effect, fact.on) = NoParameter THEN 0 ELSE 1)

(* Returning a value the effect has not seen makes it unusable; returning  *)
(* an unknown one does not.                                                *)
Returnable(program, f, effect, v) ==
    \/ ParameterFor(program, f, effect, v) # NoParameter
    \/ v # Unknown /\ v \in DOMAIN effect.roots

RecordReturn(program, f, effect, v) ==
    [effect EXCEPT !.returns = @ \cup
        {[value |-> v, parameter |-> ParameterFor(program, f, effect, v)]}]

(* One fact.  Branches, loops, switches, try and writes through a receiver *)
(* are not summarised: they invalidate the effect of their function.       *)
Consume(program, f, built, i) ==
    LET fact   == program.body[f][i]
        event  == FactOf(program, f, i)
        effect == built.effect
        Paid(n, next) == LET budget == Spend(built.budget, n)
                         IN  [budget |-> budget,
                              effect |-> IF budget.exhausted THEN Invalid(effect) ELSE next]
        Free(next) == [built EXCEPT !.effect = next]
    IN  IF ~effect.known THEN built
        ELSE CASE fact.k = "copy" -> Free(CopyRoot(program, f, effect, fact.to, fact.from))
               [] fact.k = "reference" -> Free(RecordReference(effect, fact.value))
               [] fact.k = "write" -> Paid(1, PropertyWrite(program, f, effect, event, fact))
               [] fact.k = "call" -> Paid(CallCharge(program, f, effect, fact),
                                          RecordCall(program, f, effect, event, fact))
               [] fact.k = "return" ->
                    IF Returnable(program, f, effect, fact.value)
                    THEN Paid(1, RecordReturn(program, f, effect, fact.value))
                    ELSE Free(IF fact.value = Unknown THEN effect ELSE Invalid(effect))
               [] fact.k \in {"branch", "assign member"} -> Free(Invalid(effect))

(* The effects of one module share one budget, charged in source order.    *)
(* A function whose entry cannot be charged has no effect at all.          *)
EffectOf(program, f, budget) ==
    LET entry == Spend(budget, 1)
    IN  FoldLeft(LAMBDA built, i : Consume(program, f, built, i),
                 [budget |-> entry,
                  effect |-> IF entry.exhausted THEN NoEffect ELSE Entered(program, f)],
                 [i \in 1..Len(program.body[f]) |-> i])

ModuleEffects(program, m, limit) ==
    FoldLeft(LAMBDA all, f :
                IF program.module[f] # m THEN all
                ELSE LET built == EffectOf(program, f, all.budget)
                     IN  [budget |-> built.budget,
                          effects |-> [all.effects EXCEPT ![f] = built.effect]],
             [budget |-> NewBudget(limit), effects |-> [f \in Functions |-> NoEffect]],
             FunctionOrder)

(* Every module is analysed on its own.                                    *)
Effects(program, limit) ==
    LET modules == [m \in Modules |-> ModuleEffects(program, m, limit)]
    IN  [effects  |-> [f \in Functions |-> modules[program.module[f]].effects[f]],
         complete |-> \A m \in Modules : ~modules[m].budget.exhausted]

Usable(effect) == effect.known /\ ~effect.invalid
==============================================================================
