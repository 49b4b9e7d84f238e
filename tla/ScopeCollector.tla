--------------------------- MODULE ScopeCollector ---------------------------
(***************************************************************************)
(* The two passes of scope analysis over one file and what they leave.     *)
(* The planner (scope/build/plan.rs) lays out the lexical scopes and       *)
(* declares every name; the collector (scope/build/visitor.rs) walks the   *)
(* file a second time in source order, re-enters the planned scopes, and   *)
(* follows what the names stand for along the paths of the program: it     *)
(* saves the path where control splits, goes back to it for every arm, and *)
(* joins the arms where they meet.  Frozen, the scopes and the assignments *)
(* answer what a name stands for at a position (frozen_assignments.rs,     *)
(* query/bindings.rs).                                                     *)
(*                                                                         *)
(* The undo log behind checkpoints (build/history.rs) is that of           *)
(* FlowHistory; a checkpoint is the path itself here.  Budgets, patterns,  *)
(* members and static objects are left out.                                *)
(***************************************************************************)
EXTENDS ScopeSyntax, SequencesExt, Functions

CONSTANTS
  Programs,      \* the files to analyse: sequences of statements
  AlternativeLimit \* DEFAULT_ALTERNATIVE_LIMIT

ASSUME AlternativeLimitAssumption == AlternativeLimit \in Nat \ {0}

VARIABLES
  tokens,        \* the file, flattened
  at,            \* the token the collector is at
  scopes,        \* the scopes, from 1, the program's own first
  taken,         \* scopes the collector has entered (ScopeShapeTable::take_child)
  stack,         \* the scopes it is in, outermost first
  path,          \* assignment environment, write set and reachability
  frames,        \* ControlFlowFrames, innermost last
  saved,         \* FunctionCheckpoints, innermost last
  versions,      \* version counters
  assignments,   \* AliasAssignments, in the order they were recorded
  functions,     \* function_scopes: scoped name to scope and parameters
  calls,         \* calls of identifiers, with the provenance of their arguments
  evals,         \* dynamic evaluations: the scope and where they end
  trail,         \* the path before every token (for the properties only)
  phase          \* "start", "collecting", "frozen"

vars == <<tokens, at, scopes, taken, stack, path, frames, saved, versions, assignments,
          functions, calls, evals, trail, phase>>
lexical == <<scopes, taken, stack>>
facts == <<functions, calls, evals>>

ProgramScope == 1
Empty == [x \in {} |-> x]

Set(f, key, value) == [k \in DOMAIN f \union {key} |-> IF k = key THEN value ELSE f[k]]
Lookup(f, key, otherwise) == IF key \in DOMAIN f THEN f[key] ELSE otherwise

-----------------------------------------------------------------------------
(* The provenances one assignment may carry (model/scope/provenance.rs): a *)
(* write has one, a join the bounded union of those of the paths it joins. *)

\* A binding whose value has no provenance to report.
Local == "local"

Alternatives(provenances, unknown, joined) ==
  [provenances |-> provenances, unknown |-> unknown, joined |-> joined, exhausted |-> FALSE]

Single(provenance) == Alternatives(<<provenance>>, FALSE, FALSE)
UnknownAlternatives == Alternatives(<<>>, TRUE, FALSE)
NewJoin == Alternatives(<<>>, FALSE, TRUE)

\* insert_bounded: what does not fit makes the rest incomplete.
InsertBounded(alternatives, provenance) ==
  IF provenance \in ToSet(alternatives.provenances) THEN alternatives
  ELSE IF Len(alternatives.provenances) >= AlternativeLimit
       THEN [alternatives EXCEPT !.exhausted = TRUE, !.unknown = TRUE]
       ELSE [alternatives EXCEPT !.provenances = Append(@, provenance)]

\* add_bounded stops at the first that does not fit; the others would not fit either
\* or are there already.
AddBounded(alternatives, other) ==
  FoldLeft(InsertBounded,
           [alternatives EXCEPT !.unknown = @ \/ other.unknown, !.joined = @ \/ other.joined,
                                !.exhausted = @ \/ other.exhausted],
           other.provenances)

HasCompleteWitness(alternatives) == alternatives.provenances # <<>>
IsIncomplete(alternatives) == alternatives.unknown \/ alternatives.exhausted

\* preferred_witness, Local where there is none: UNKNOWN_PROVENANCE.
PreferredWitness(alternatives) ==
  LET candidates == IF alternatives.joined
                    THEN SelectSeq(alternatives.provenances, LAMBDA p : p # Local)
                    ELSE alternatives.provenances
  IN  IF candidates = <<>> THEN Local ELSE Head(candidates)

-----------------------------------------------------------------------------
(* The planner.                                                            *)

NewScope(kind, lo, hi, parent, depth) ==
  [kind |-> kind, lo |-> lo, hi |-> hi, parent |-> parent, depth |-> depth, bindings |-> Empty]

\* var_binding_scope: var declarations belong to the nearest function.
VarScope(in, of) == Last(SelectSeq(in, LAMBDA s : of[s].kind \in {"Program", "Function"}))
BindingScope(in, of, kind) == IF kind = "var" THEN VarScope(in, of) ELSE Last(in)

\* insert_binding and update_binding.
Insert(of, scope, name, provenance) == [of EXCEPT ![scope].bindings = Set(@, name, provenance)]
InsertAll(of, scope, names) ==
  FoldLeft(LAMBDA done, name : Insert(done, scope, name, Local), of, names)

PlanPush(plan, token) ==
  [scopes |-> Append(plan.scopes,
                     NewScope(token.kind, token.lo, token.hi, Last(plan.stack), Len(plan.stack))),
   stack |-> Append(plan.stack, Len(plan.scopes) + 1)]

PlanToken(plan, token) ==
  LET here == Last(plan.stack)
      entered == PlanPush(plan, token)
      declared(p, scope, name, provenance) == [p EXCEPT !.scopes = Insert(@, scope, name, provenance)]
  IN  CASE token.op = "open" -> entered
        [] token.op = "function" ->
             LET outer == IF token.flag THEN plan ELSE declared(plan, here, token.name, Local)
                 inner == PlanPush(outer, token)
             IN  [inner EXCEPT !.scopes = InsertAll(@, Last(inner.stack), token.params)]
        [] token.op \in {"close", "endfunction"} -> [plan EXCEPT !.stack = Front(@)]
        [] token.op = "declare" ->
             declared(plan, BindingScope(plan.stack, plan.scopes, token.kind), token.name, Local)
        [] token.op = "import" -> declared(plan, here, token.name, token.rhs)
        [] OTHER -> plan

Plan(file) ==
  FoldLeft(PlanToken,
           [scopes |-> <<NewScope("Program", 1, Len(file), 0, 0)>>, stack |-> <<ProgramScope>>], file).scopes

-----------------------------------------------------------------------------
(* What the collector sees.                                                *)

EmptyPath == [env |-> Empty, writes |-> {}, reachable |-> TRUE]

Binds(scope, name) == name \in DOMAIN scopes[scope].bindings

\* visible_binding: the innermost scope that assigned or declares the name.
Visible(name) ==
  LET knows(s) == <<s, name>> \in DOMAIN path.env \/ Binds(s, name)
      found == SelectSeq(stack, knows)
      s == Last(found)
  IN  IF found = <<>> THEN <<>>
      ELSE IF <<s, name>> \in DOMAIN path.env THEN <<PreferredWitness(path.env[<<s, name>>])>>
      ELSE <<scopes[s].bindings[name]>>

\* argument_provenance; a name nobody declares is the global of that name.
ArgumentProvenance(rhs) ==
  IF rhs = Opaque THEN <<>>
  ELSE IF Visible(rhs) = <<>> THEN <<rhs>>
  ELSE IF Visible(rhs)[1] = Local THEN <<>> ELSE Visible(rhs)

\* assignment_provenance.
AssignmentProvenance(rhs) ==
  LET found == ArgumentProvenance(rhs) IN IF found = <<>> THEN Local ELSE found[1]

-----------------------------------------------------------------------------
(* Recording assignments.  A recording is the path, the counters and the   *)
(* assignments together.                                                   *)

Recording == [path |-> path, versions |-> versions, assignments |-> assignments]

\* push_assignment.
PushAssignment(recording, position, key, alternatives) ==
  LET version == Lookup(recording.versions, key, 0) + 1
      stored == IF HasCompleteWitness(alternatives) THEN alternatives ELSE UnknownAlternatives
  IN  [path |-> [recording.path EXCEPT !.env = Set(@, key, stored), !.writes = @ \union {key}],
       versions |-> Set(recording.versions, key, version),
       assignments |-> Append(recording.assignments,
         [lo |-> position, key |-> key, version |-> version, alternatives |-> alternatives])]

\* record_assignment; a path that has ended records nothing.
RecordAssignment(recording, position, key, provenance) ==
  IF recording.path.reachable THEN PushAssignment(recording, position, key, Single(provenance))
  ELSE recording

Keep(recording) ==
  /\ path' = recording.path
  /\ versions' = recording.versions
  /\ assignments' = recording.assignments

\* restore_checkpoint leaves the reachability as it was, restore sets it too.
RestoreCheckpoint(checkpoint, reachable) == [checkpoint EXCEPT !.reachable = reachable]

\* The value of a key where paths meet.
JoinedValue(incoming, arrived, key) ==
  LET fallback == IF Binds(key[1], key[2]) THEN Single(scopes[key[1]].bindings[key[2]])
                  ELSE UnknownAlternatives
      before == Lookup(incoming.env, key, fallback)
  IN  FoldLeft(LAMBDA join, p : AddBounded(join, Lookup(p.env, key, before)), NewJoin, arrived)

\* The path with the reachability left over from the one visited last.
Continuing(incoming) == RestoreCheckpoint(incoming, path.reachable)

\* join_paths: where no path arrives the join is the incoming path, ended.
JoinPaths(position, incoming, paths) ==
  LET arrived == SelectSeq(paths, LAMBDA p : p.reachable)
      touched == SetToSeq(UNION {p.writes : p \in ToSet(paths)})
      start == [Recording EXCEPT !.path = Continuing(incoming)]
  IN  IF arrived = <<>> THEN [Recording EXCEPT !.path = RestoreCheckpoint(incoming, FALSE)]
      ELSE FoldLeft(LAMBDA recording, key :
                      PushAssignment(recording, position, key, JoinedValue(incoming, arrived, key)),
                    start, touched)

\* clear, after a checkpoint was taken or restored.
Cleared(p) == [p EXCEPT !.writes = {}]

-----------------------------------------------------------------------------
(* One hook at a time.                                                     *)

token == tokens[at]

Hook(op) == phase = "collecting" /\ token.op = op

Advance == at' = at + 1 /\ trail' = Append(trail, path) /\ UNCHANGED <<tokens, phase>>

SamePaths == UNCHANGED <<path, versions, assignments>>

\* scope_shapes.take_child: the next planned scope of this shape.
TakeChild ==
  LET fits == {s \in DOMAIN scopes \ taken :
                 scopes[s].parent = Last(stack) /\ scopes[s].lo = token.lo /\ scopes[s].kind = token.kind}
  IN  CHOOSE s \in fits : \A other \in fits : s <= other

\* visit_block_stmt, visit_with_stmt and the scopes of loops, switches and catch clauses.
EnterScope ==
  /\ Hook("open")
  /\ stack' = Append(stack, TakeChild) /\ taken' = taken \union {TakeChild}
  /\ Advance /\ SamePaths /\ UNCHANGED <<scopes, frames, saved, facts>>

ExitScope ==
  /\ Hook("close")
  /\ stack' = Front(stack)
  /\ Advance /\ SamePaths /\ UNCHANGED <<scopes, taken, frames, saved, facts>>

\* visit_var_decl: the declaration itself becomes what the initializer is.
VisitVarDecl ==
  /\ Hook("declare")
  /\ LET scope == BindingScope(stack, scopes, token.kind)
         provenance == IF token.rhs = NoInit THEN Local ELSE AssignmentProvenance(token.rhs)
     IN  scopes' = Insert(scopes, scope, token.name, provenance)
  /\ Advance /\ SamePaths /\ UNCHANGED <<taken, stack, frames, saved, facts>>

\* visit_import_decl has no work left to the collector.
VisitImportDecl ==
  /\ Hook("import")
  /\ Advance /\ SamePaths /\ UNCHANGED <<lexical, frames, saved, facts>>

\* visit_assign_expr with an identifier on the left.
VisitAssign ==
  /\ Hook("assign")
  /\ LET owners == SelectSeq(stack, LAMBDA s : Binds(s, token.name))
     IN  IF owners = <<>> THEN SamePaths
         ELSE Keep(RecordAssignment(Recording, at, <<Last(owners), token.name>>,
                                    AssignmentProvenance(token.rhs)))
  /\ Advance /\ UNCHANGED <<lexical, frames, saved, facts>>

Given(arguments) == [i \in DOMAIN arguments |-> ArgumentProvenance(arguments[i])]

\* visit_call_expr with an identifier as callee.
VisitCall ==
  /\ Hook("call")
  /\ calls' = Append(calls, [caller |-> Last(stack), callee |-> token.name, arguments |-> Given(token.given)])
  /\ evals' = IF token.name = "eval"
              THEN Append(evals, [scope |-> VarScope(stack, scopes), hi |-> at]) ELSE evals
  /\ Advance /\ SamePaths /\ UNCHANGED <<lexical, frames, saved, functions>>

\* An identifier that is only read.
VisitUse ==
  /\ Hook("use")
  /\ Advance /\ SamePaths /\ UNCHANGED <<lexical, frames, saved, facts>>

\* visit_catch_param: the planner does not know the parameter yet.
VisitCatchParam ==
  /\ Hook("catchparam")
  /\ scopes' = Insert(scopes, Last(stack), token.name, Local)
  /\ Advance /\ SamePaths /\ UNCHANGED <<taken, stack, frames, saved, facts>>

\* visit_function_body: after_fn_decl makes a declared function known in the scope
\* around it, after_arrow gives an inline one the arguments it is called with.
EnterFunction ==
  /\ Hook("function")
  /\ LET scope == TakeChild
         given == Given(token.given)
         proven == {i \in DOMAIN token.params \intersect DOMAIN given : given[i] # <<>>}
         entered == [Recording EXCEPT !.path = [Cleared(path) EXCEPT !.reachable = TRUE]]
         install(recording, i) ==
           IF i \notin proven THEN recording
           ELSE RecordAssignment(recording, at, <<scope, token.params[i]>>, given[i][1])
     IN  /\ stack' = Append(stack, scope) /\ taken' = taken \union {scope}
         /\ saved' = Append(saved, [checkpoint |-> path, depth |-> Len(frames)])
         /\ functions' = IF token.flag THEN functions
                         ELSE Set(functions, <<Last(stack), token.name>>,
                                  [scope |-> scope, parameters |-> token.params])
         /\ Keep(FoldLeft(install, entered, [i \in DOMAIN token.params |-> i]))
  /\ Advance /\ UNCHANGED <<scopes, frames, calls, evals>>

\* exit_function: what the body assigned is forgotten.
ExitFunction ==
  /\ Hook("endfunction")
  /\ stack' = Front(stack)
  /\ frames' = SubSeq(frames, 1, Last(saved).depth)
  /\ path' = Last(saved).checkpoint
  /\ saved' = Front(saved)
  /\ Advance /\ UNCHANGED <<scopes, taken, versions, assignments, facts>>

-----------------------------------------------------------------------------
(* Control flow.                                                           *)

Frame(kind) ==
  [kind |-> kind, incoming |-> path, arm |-> <<>>, cases |-> <<>>, breaks |-> <<>>, continues |-> <<>>,
   guaranteed |-> token.flag]

Push(kind) == frames' = Append(frames, Frame(kind))
Top == Last(frames)
Straight == UNCHANGED <<lexical, saved, facts>>
SameRecord == UNCHANGED <<versions, assignments>>

\* enter_if, enter_loop and enter_try.
EnterArm(op, kind) ==
  /\ Hook(op)
  /\ Push(kind)
  /\ path' = Cleared(path)
  /\ Advance /\ Straight /\ SameRecord
EnterIf == EnterArm("if", "If")
EnterLoop == EnterArm("loop", "Loop")
EnterTry == EnterArm("try", "Try")

\* enter_else and enter_catch: keep the arm that ends here, go back to where it started.
SwitchArm(op) ==
  /\ Hook(op)
  /\ frames' = [frames EXCEPT ![Len(frames)].arm = <<path>>]
  /\ path' = Cleared(Top.incoming)
  /\ Advance /\ Straight /\ SameRecord
EnterElse == SwitchArm("else")
EnterCatch == SwitchArm("catch")

(* A fault: the join is recorded where the statement starts.               *)
LeaveAtStart(op, paths) ==
  /\ Hook(op)
  /\ Keep(JoinPaths(token.begin, Top.incoming, paths))
  /\ frames' = Front(frames)
  /\ Advance /\ Straight

Leave(op, paths) ==
  /\ Hook(op)
  /\ Keep(JoinPaths(token.hi, Top.incoming, paths))
  /\ frames' = Front(frames)
  /\ Advance /\ Straight

(* A fault: the path that skips the branch is forgotten.                   *)
IfPathsTaken == IF token.flag THEN Top.arm \o <<path>> ELSE <<path>>

\* exit_if: without an else, the incoming path is one of those that meet.
IfPaths == IF token.flag THEN Top.arm \o <<path>> ELSE <<Top.incoming, path>>
ExitIf == Leave("endif", IfPaths)

\* exit_loop.
LoopPaths ==
  (IF Top.guaranteed THEN <<>> ELSE <<Top.incoming>>) \o <<path>> \o Top.breaks \o Top.continues
ExitLoop == Leave("endloop", LoopPaths)

\* exit_try.
TryPaths ==
  IF token.flag THEN Top.arm \o <<path>>
  ELSE IF token.finalizer THEN <<Top.incoming, path>> ELSE <<path>>
ExitTry == Leave("endtry", TryPaths)

EnterSwitch == Hook("switch") /\ Push("Switch") /\ SamePaths /\ Advance /\ Straight

EnterSwitchCase ==
  /\ Hook("case")
  /\ path' = Cleared(Top.incoming)
  /\ Advance /\ Straight /\ SameRecord /\ UNCHANGED frames

ExitSwitchCase ==
  /\ Hook("endcase")
  /\ frames' = [frames EXCEPT ![Len(frames)].cases = Append(@, path)]
  /\ Advance /\ Straight /\ SamePaths

\* exit_switch: with or without a default.
SwitchPaths == <<Top.incoming>> \o Top.cases \o Top.breaks
ExitSwitch == Leave("endswitch", SwitchPaths)

\* The innermost frame of these kinds, 0 if there is none.
Nearest(kinds) ==
  LET fits == {i \in DOMAIN frames : frames[i].kind \in kinds}
  IN  IF fits = {} THEN 0 ELSE CHOOSE i \in fits : \A j \in fits : j <= i

Ended == path' = [path EXCEPT !.reachable = FALSE]

\* break_exit and continue_exit save the path they take, if it is one.
BreakExit ==
  /\ Hook("break")
  /\ LET target == Nearest({"Loop", "Switch"})
     IN  frames' = IF path.reachable /\ target # 0
                   THEN [frames EXCEPT ![target].breaks = Append(@, path)] ELSE frames
  /\ Ended
  /\ Advance /\ Straight /\ SameRecord

ContinueExit ==
  /\ Hook("continue")
  /\ LET target == Nearest({"Loop"})
     IN  frames' = IF path.reachable /\ target # 0
                   THEN [frames EXCEPT ![target].continues = Append(@, path)] ELSE frames
  /\ Ended
  /\ Advance /\ Straight /\ SameRecord

\* visit_return_stmt and visit_throw_stmt.
MarkUnreachable ==
  /\ \/ Hook("return") \/ Hook("throw")
  /\ Ended
  /\ Advance /\ Straight /\ SameRecord /\ UNCHANGED frames

-----------------------------------------------------------------------------
(* The analysis of one file.                                               *)

Init ==
  /\ tokens = <<>> /\ at = 0 /\ phase = "start"
  /\ scopes = <<>> /\ taken = {} /\ stack = <<>>
  /\ path = EmptyPath /\ frames = <<>> /\ saved = <<>>
  /\ versions = Empty /\ assignments = <<>>
  /\ functions = Empty /\ calls = <<>> /\ evals = <<>>
  /\ trail = <<>>

\* Scopes are planned, then collection starts over.
Start ==
  /\ phase = "start"
  /\ \E program \in Programs : tokens' = Flat(program)
  /\ scopes' = Plan(tokens') /\ taken' = {ProgramScope} /\ stack' = <<ProgramScope>>
  /\ at' = 1 /\ phase' = "collecting"
  /\ SamePaths /\ UNCHANGED <<frames, saved, facts, trail>>

Freeze ==
  /\ Hook("end")
  /\ phase' = "frozen" /\ trail' = Append(trail, path)
  /\ SamePaths /\ UNCHANGED <<tokens, at, lexical, frames, saved, facts>>

Next ==
  \/ Start \/ Freeze
  \/ EnterScope \/ ExitScope \/ EnterFunction \/ ExitFunction
  \/ VisitVarDecl \/ VisitImportDecl \/ VisitAssign \/ VisitCall \/ VisitUse \/ VisitCatchParam
  \/ EnterIf \/ EnterElse \/ ExitIf \/ EnterLoop \/ ExitLoop
  \/ EnterSwitch \/ EnterSwitchCase \/ ExitSwitchCase \/ ExitSwitch
  \/ EnterTry \/ EnterCatch \/ ExitTry
  \/ BreakExit \/ ContinueExit \/ MarkUnreachable

Spec == Init /\ [][Next]_vars

-----------------------------------------------------------------------------
(* What is asked once everything is frozen.                                *)

\* find_scope_at: from the last scope that starts before, out to one that contains it.
StartOrder ==
  SortSeq([s \in DOMAIN scopes |-> s],
          LAMBDA a, b : \/ scopes[a].lo < scopes[b].lo
                        \/ scopes[a].lo = scopes[b].lo /\ scopes[a].depth < scopes[b].depth)
RECURSIVE ContainingScope(_, _)
ContainingScope(scope, position) ==
  IF scopes[scope].parent = 0 \/ (scopes[scope].lo <= position /\ position <= scopes[scope].hi) THEN scope
  ELSE ContainingScope(scopes[scope].parent, position)
ScopeAt(position) ==
  LET before == SelectSeq(StartOrder, LAMBDA s : scopes[s].lo <= position)
  IN  IF before = <<>> THEN ProgramScope ELSE ContainingScope(Last(before), position)

RECURSIVE Ancestors(_)
Ancestors(scope) ==
  IF scope = 0 THEN <<>> ELSE <<scope>> \o Ancestors(scopes[scope].parent)

\* nearest_binding_at, 0 if nothing declares the name.
NearestBinding(name, position) ==
  LET found == SelectSeq(Ancestors(ScopeAt(position)), LAMBDA s : Binds(s, name))
  IN  IF found = <<>> THEN 0 ELSE Head(found)

\* FrozenAssignmentIndex: the assignments of a key in source order; the sort is stable.
History(key) ==
  LET own == {i \in DOMAIN assignments : assignments[i].key = key}
      order == SortSeq(SetToSeq(own), LAMBDA i, j :
                 \/ assignments[i].lo < assignments[j].lo
                 \/ assignments[i].lo = assignments[j].lo /\ i < j)
  IN  [i \in DOMAIN order |-> assignments[order[i]]]

\* latest_at: the last that starts no later than the position.
LatestAt(key, position) == SelectSeq(History(key), LAMBDA a : a.lo <= position)

\* function_for_call: the nearest function of that name, variables do not hide it.
FunctionForCall(call) ==
  SelectSeq(Ancestors(call.caller), LAMBDA s : <<s, call.callee>> \in DOMAIN functions)

\* What a call says about a parameter: its provenance, or that it has none.
Projected(call, function, index) ==
  IF call.caller # function.scope /\ index <= Len(call.arguments) THEN call.arguments[index] ELSE <<>>

\* parameter_aliases: what all calls agree on.
CallsOf(function) ==
  {calls[c] : c \in {d \in DOMAIN calls :
     LET found == FunctionForCall(calls[d])
     IN  found # <<>> /\ functions[<<Head(found), calls[d].callee>>].scope = function.scope}}
(* A fault: calls that leave a parameter out do not count.                 *)
ParameterAliasGiven(function, index) ==
  LET said == {Projected(call, function, index) : call \in CallsOf(function)} \ {<<>>}
  IN  IF Cardinality(said) = 1 THEN CHOOSE a \in said : TRUE ELSE <<>>
ParameterAlias(function, index) ==
  LET said == {Projected(call, function, index) : call \in CallsOf(function)}
      fitting == \A call \in CallsOf(function) : Len(call.arguments) = Len(function.parameters)
  IN  IF Cardinality(said) = 1 /\ fitting THEN CHOOSE a \in said : TRUE ELSE <<>>

ParameterAliasFor(scope, name) ==
  LET owners == {f \in Range(functions) : f.scope = scope /\ name \in ToSet(f.parameters)}
  IN  IF owners = {} THEN <<>>
      ELSE LET f == CHOOSE g \in owners : TRUE
           IN  ParameterAlias(f, CHOOSE i \in DOMAIN f.parameters : f.parameters[i] = name)

\* binding_resolution_at: status and witnesses.
Resolution(status, witnesses) == [status |-> status, witnesses |-> witnesses]
Resolve(name, position) ==
  LET scope == NearestBinding(name, position)
      history == LatestAt(<<scope, name>>, position)
      alternatives == Last(history).alternatives
      parameter == ParameterAliasFor(scope, name)
  IN  CASE scope = 0 -> Resolution("Absent", {})
        [] scope # 0 /\ history # <<>> ->
             Resolution(CASE IsIncomplete(alternatives) -> "Incomplete"
                          [] alternatives.joined /\ ~IsIncomplete(alternatives) -> "Joined"
                          [] OTHER -> "Complete",
                        ToSet(alternatives.provenances))
        [] scope # 0 /\ history = <<>> /\ parameter # <<>> -> Resolution("Complete", {parameter[1]})
        [] OTHER -> Resolution("Complete", {scopes[scope].bindings[name]})

\* has_dynamic_lookup_at: inside a with, or after an eval nothing shadows.
HasDynamicLookup(position) ==
  LET around == ToSet(Ancestors(ScopeAt(position)))
  IN  \/ \E s \in around : scopes[s].kind = "Dynamic"
      \/ \E i \in DOMAIN evals :
           /\ evals[i].scope \in around /\ evals[i].hi < position
           /\ NearestBinding("eval", evals[i].hi) = 0

=============================================================================
