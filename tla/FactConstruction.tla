-------------------------- MODULE FactConstruction -------------------------
(***************************************************************************)
(* How one source file becomes facts under its limits, and what the local   *)
(* analysis says when a limit was hit: the fact builder (facts/mod.rs), its  *)
(* stream (facts/stream.rs), the semantic budget (semantic/budget.rs), and   *)
(* the assessment and sealing of the artifact (semantic/mod.rs).             *)
(*                                                                         *)
(* A file is the sequence of what its walk asks for: "Fact" a fact with an   *)
(* authored span, "Outside" one whose span the source does not contain,      *)
(* "Generated" one without a place in it, "Path" a property path, "Name" a    *)
(* new name, "Value" a new value.  `lost` is no state of the program: it holds *)
(* the positions of what was asked for, has a place in the source and did not *)
(* get into the facts, for the properties.                                   *)
(***************************************************************************)
EXTENDS Naturals, SequencesExt

\* A builder under limits: a record of `steps`, `facts`, `paths`, `names`, `values`.
\* Scopes of the wrong shape give no fact a scope.
NewBuilder(limits, misshapen) ==
  [limits |-> limits, scoped |-> ~misshapen, used |-> 0, exhausted |-> FALSE, facts |-> 0,
   paths |-> 0, names |-> 0, values |-> 0, issues |-> {}, namesFull |-> FALSE, valuesFull |-> FALSE, lost |-> {}]

Lose(b, k) == [b EXCEPT !.lost = @ \cup {k}]
Issue(b, issue, k) == Lose([b EXCEPT !.issues = @ \cup {issue}], k)

\* SemanticBudget::try_charge: the first charge over the limit latches.
TryCharge(b) ==
  IF b.exhausted THEN b
  ELSE IF b.used + 1 > b.limits.steps THEN [b EXCEPT !.exhausted = TRUE]
  ELSE [b EXCEPT !.used = @ + 1]

\* FactStream::append
AppendFact(b, k) ==
  IF b.facts >= b.limits.facts THEN Issue(b, "BudgetExhausted", k) ELSE [b EXCEPT !.facts = @ + 1]

\* FactBuilder::emit: budget and scope are asked before the span, and the budget
\* is charged behind it, so that the fact which exhausts it is still appended.
\* What TypeScript lowering generated has no span, and is left out without a mark;
\* a generated call has the span of its callee, and is a "Fact".
Emit(b, ask, k) ==
  IF ask = "Generated" THEN b
  ELSE IF b.exhausted \/ ~b.scoped THEN Lose(b, k)
  ELSE IF ask = "Outside" THEN Issue(b, "InvalidParserSpan", k)
  ELSE AppendFact(TryCharge(b), k)

\* Resolver::intern_name charges for every name.
InternName(b, k) ==
  LET charged == TryCharge(b)
  IN  IF charged.exhausted THEN Lose(charged, k)
      ELSE IF charged.names >= charged.limits.names THEN Lose([charged EXCEPT !.namesFull = TRUE], k)
      ELSE [charged EXCEPT !.names = @ + 1]

InternValue(b, k) ==
  IF b.values >= b.limits.values THEN Lose([b EXCEPT !.valuesFull = TRUE], k)
  ELSE [b EXCEPT !.values = @ + 1]

\* append_path charges, and again for the name; without it the path is empty.
AppendPath(b, k) ==
  LET charged == TryCharge(b)
      named == InternName(charged, k)
  IN  IF charged.exhausted THEN Lose(charged, k)
      ELSE IF named.exhausted \/ named.namesFull THEN named
      ELSE IF named.paths >= b.limits.paths THEN Issue(named, "PathExhausted", k)
      ELSE [named EXCEPT !.paths = @ + 1]

Walk(b, ask, k) ==
  CASE ask \in {"Fact", "Outside", "Generated"} -> Emit(b, ask, k)
    [] ask = "Path" -> AppendPath(b, k)
    [] ask = "Name" -> InternName(b, k)
    [] ask = "Value" -> InternValue(b, k)

BuildFacts(file, limits, misshapen) ==
  FoldLeft(LAMBDA b, k : Walk(b, file[k], k), NewBuilder(limits, misshapen), [k \in DOMAIN file |-> k])

-----------------------------------------------------------------------------
\* Of the reasons construction stopped for, only the first is reported.
ConstructionFailure(b) ==
  IF b.exhausted THEN {"SemanticBudgetExhausted"}
  ELSE IF "BudgetExhausted" \in b.issues THEN {"FactCapacityExhausted"}
  ELSE IF "PathExhausted" \in b.issues THEN {"PathCapacityExhausted"}
  ELSE IF b.valuesFull /\ ~b.namesFull THEN {"ValueArenaExhausted"}
  ELSE {}

\* AnalysisCompletion::assess
Assess(b, misshapen) ==
  (IF misshapen THEN {"ScopeShapeMismatch"} ELSE {})
    \cup ConstructionFailure(b)
    \cup (IF "InvalidParserSpan" \in b.issues THEN {"InvalidParserSpan"} ELSE {})
    \cup (IF b.namesFull THEN {"NameExhausted"} ELSE {})

\* The artifact: its status, whether the phases derived from the facts (indexes,
\* effects, export origins) ran, and whether the facts may be projected.
Artifact(file, limits, misshapen) ==
  LET b == BuildFacts(file, limits, misshapen)
      status == Assess(b, misshapen)
  IN  [status |-> status, derived |-> status = {}, projectable |-> b.issues = {} /\ ~b.namesFull,
       lost |-> b.lost # {} \/ misshapen]
=============================================================================
