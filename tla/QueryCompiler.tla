--------------------------- MODULE QueryCompiler ---------------------------
(***************************************************************************)
(* The query compiler (src/glass-lint-core/src/api/compiler): what it does *)
(* to the declarations of one rule between the author and the matcher.     *)
(* Each pass is a pure function of a declaration: structure, scope and     *)
(* types, correlation, normalization with the contradiction check, and     *)
(* planning into physical roots; a pass that fails returns Refused(error). *)
(*                                                                         *)
(* Where the code sorts and deduplicates a list, the model has a set.      *)
(* Object slots are left out: an authored declaration names at most the    *)
(* variables 0 and 1, which alpha renumbering maps to themselves.          *)
(***************************************************************************)
EXTENDS QueryAlgebra

CONSTANT MaxRoots  \* compiler_limits: MAX_PHYSICAL_ROOTS_PER_RULE

ASSUME RootsAssumption == MaxRoots \in Nat \ {0}

-----------------------------------------------------------------------------
(* Which identities can select which events.                               *)

DirectDimensionValid(identity, event) ==
  \/ /\ identity.by \in {"Global", "Heuristic", "ModuleExport", "PackageModuleExport"}
     /\ event.kind \in {"Call", "Construct"}
  \/ /\ identity.by \in {"Rooted", "Heuristic", "ModuleNamespace", "PackageModuleNamespace"}
     /\ event.kind \in {"MemberCall", "MemberRead", "PropertyWrite", "Construct"}
  \/ /\ identity.by \in {"ModuleExport", "PackageModuleExport", "Heuristic"}
     /\ event.kind = "ClassReference"
  \/ /\ identity.by \in {"LiteralString", "PackageSpecifier"}
     /\ event.kind \in {"Import", "StringReference"}
  \/ identity.by = "PrivateNetworkAddress" /\ event.kind = "StringReference"

SubjectIdentityConsistent(identity, event) ==
  \/ identity.by \notin {"Heuristic", "Rooted"}
  \/ event.kind \notin {"MemberCall", "MemberRead", "PropertyWrite"}
  \/ event.member = identity.path

ValidPair(identity, event) ==
  SubjectIdentityConsistent(identity, event) /\ DirectDimensionValid(identity, event)

IdentityEmpty(identity) ==
  CASE identity.by = "PrivateNetworkAddress" -> FALSE
    [] identity.by \in {"ModuleExport", "PackageModuleExport"} ->
         identity.module = <<>> \/ identity.path = <<>>
    [] identity.by \in {"ModuleNamespace", "PackageModuleNamespace", "PackageSpecifier"} ->
         identity.module = <<>>
    [] OTHER -> identity.path = <<>>

LifecycleSourceValid(identity, event) ==
  \/ identity.by = "Global" /\ event.kind = "Call" /\ identity.path # <<>>
  \/ /\ identity.by = "Rooted" /\ event.kind = "MemberCall"
     /\ identity.path # <<>> /\ event.member # <<>>

(* A subject is how the identity and the event are related: directly, or   *)
(* through the object that the identity returned or constructed.           *)
SubjectRelationValid(event, subject) ==
  CASE subject.relation = "Direct" -> ValidPair(subject.identity, event)
    [] subject.relation = "Returned" ->
         /\ ~IdentityEmpty(subject.identity) /\ subject.identity.by = "Rooted"
         /\ event.kind \in {"MemberCall", "MemberRead"} /\ event.member # <<>>
    [] OTHER ->
         /\ ~IdentityEmpty(subject.identity)
         /\ subject.identity.by \in {"ModuleExport", "PackageModuleExport"}
         /\ event.kind = "MemberCall" /\ event.member # <<>>

-----------------------------------------------------------------------------
(* Pass 1: structure.                                                      *)

EventQueryStructure(query) ==
  IF ~ValidPair(query.identity, query.event) \/ IdentityEmpty(query.identity)
       \/ (query.constraints # {} /\ ~SupportsArguments(query.event))
  THEN "InvalidEventPredicate" ELSE "valid"

LifecycleStructure(lifecycle) ==
  IF \E s \in lifecycle.sources : EventQueryStructure(s) # "valid"
  THEN "InvalidEventPredicate"
  ELSE IF \E s \in lifecycle.sources : ~LifecycleSourceValid(s.identity, s.event)
  THEN "InvalidLifecycle" ELSE "valid"

RequireStructure(predicate) ==
  IF \/ predicate.is = "ReturnedObject" /\ predicate.identity.by # "Rooted"
     \/ /\ predicate.is = "ConstructedObject"
        /\ predicate.identity.by \notin {"ModuleExport", "PackageModuleExport"}
  THEN "UnsupportedRelation" ELSE "valid"

\* The first verdict of a sequence that is not "valid".
FirstError(verdicts) ==
  LET failed == {i \in DOMAIN verdicts : verdicts[i] # "valid"}
  IN  IF failed = {} THEN "valid" ELSE verdicts[Min(failed)]

RECURSIVE CheckStructure(_)
CheckStructure(expr) ==
  CASE expr.form = "Event" ->
         IF EventQueryStructure(expr.query) # "valid" THEN EventQueryStructure(expr.query)
         ELSE IF Cardinality(expr.query.constraints) > MaxPredicates * MaxGroups
         THEN "UnboundedQuery" ELSE "valid"
    [] expr.form = "SelectEvent" -> "valid"
    [] expr.form = "Require" -> RequireStructure(expr.predicate)
    [] expr.form = "Lifecycle" -> LifecycleStructure(expr.lifecycle)
    [] OTHER ->
         IF expr.branches = <<>> THEN "InternalInvariant"
         ELSE IF Len(expr.branches) > MaxChildren THEN "UnboundedQuery"
         ELSE FirstError([i \in DOMAIN expr.branches |-> CheckStructure(expr.branches[i])])

-----------------------------------------------------------------------------
(* Pass 2: scope and types.  A context is the variables bound so far, the  *)
(* type each is known to have, and the first error.                        *)

TypesCompatible(actual, expected) ==
  \/ actual = expected
  \/ actual = "Event" /\ expected \in {"CallEvent", "MemberEvent"}
  \/ actual \in {"CallEvent", "MemberEvent"} /\ expected = "Event"

MoreSpecific(candidate, existing) ==
  candidate \in {"CallEvent", "MemberEvent"} /\ existing = "Event"

EmptyScope == [bindings |-> {}, types |-> <<>>, error |-> "valid"]

Retyped(types, var, type) == [v \in DOMAIN types \union {var} |-> IF v = var THEN type ELSE types[v]]

\* set_type and check_type: a variable keeps one type, refined at most once.
SetType(scope, var, type) ==
  IF var \notin DOMAIN scope.types THEN [scope EXCEPT !.types = Retyped(@, var, type)]
  ELSE IF ~TypesCompatible(scope.types[var], type) THEN [scope EXCEPT !.error = "TypeMismatch"]
  ELSE IF MoreSpecific(type, scope.types[var])
  THEN [scope EXCEPT !.types = Retyped(@, var, type)]
  ELSE scope

Bind(scope, var, type) ==
  IF var \in scope.bindings THEN [scope EXCEPT !.error = "DuplicateBinding"]
  ELSE SetType([scope EXCEPT !.bindings = @ \union {var}], var, type)

RequireBinding(scope, var) ==
  IF var \in scope.bindings THEN scope ELSE [scope EXCEPT !.error = "MissingBinding"]

CollectRequire(scope, predicate) ==
  LET bound(s, var, type) ==
        LET known == RequireBinding(s, var)
        IN  IF known.error # "valid" THEN known ELSE SetType(known, var, type)
  IN  CASE predicate.is \in {"ReturnedObject", "ConstructedObject"} ->
             Bind(scope, predicate.bind, "Object")
        [] predicate.is = "EventKind" -> bound(scope, predicate.event, VariableType(predicate.expected))
        [] predicate.is = "EventIdentity" -> bound(scope, predicate.event, "Event")
        [] predicate.is = "Argument" -> bound(scope, predicate.event, "CallEvent")
        [] OTHER ->
             LET member == bound(scope, predicate.event, "MemberEvent")
             IN  IF member.error # "valid" THEN member ELSE bound(member, predicate.object, "Object")

\* merge_branch: alternatives must agree about every variable they share.
MergeBranch(merged, branch) ==
  LET merge(s, var) ==
        IF s.error # "valid" THEN s
        ELSE LET type == branch.types[var]
             IN  IF var \notin DOMAIN s.types THEN [s EXCEPT !.types = Retyped(@, var, type)]
                 ELSE IF ~TypesCompatible(type, s.types[var]) /\ ~TypesCompatible(s.types[var], type)
                 THEN [s EXCEPT !.error = "IncompatibleBranchOutput"]
                 ELSE IF MoreSpecific(type, s.types[var])
                 THEN [s EXCEPT !.types = Retyped(@, var, type)] ELSE s
  IN  FoldLeft(merge, merged, SetToSeq(DOMAIN branch.types))

RECURSIVE Collect(_, _)
Collect(scope, expr) ==
  IF scope.error # "valid" THEN scope
  ELSE CASE expr.form = "Event" -> Bind(scope, EventVar, VariableType(expr.query.event))
         [] expr.form = "SelectEvent" -> Bind(scope, expr.bind, "Event")
         [] expr.form = "Require" -> CollectRequire(scope, expr.predicate)
         [] expr.form = "All" -> FoldLeft(Collect, scope, expr.branches)
         [] expr.form = "Lifecycle" ->
              LET typed(s, source) ==
                    IF s.error # "valid" THEN s
                    ELSE SetType(s, EventVar, VariableType(source.event))
              IN  FoldLeft(typed, scope, SetToSeq(expr.lifecycle.sources))
         [] OTHER ->
              LET alternative(s, branch) ==
                    LET own == Collect(EmptyScope, branch)
                    IN  IF s.error # "valid" THEN s
                        ELSE IF own.error # "valid" THEN [s EXCEPT !.error = own.error]
                        ELSE MergeBranch(s, own)
                  merged == FoldLeft(alternative, EmptyScope, expr.branches)
              IN  [scope EXCEPT !.error = merged.error, !.types = merged.types @@ @]

ScopeTypes(decl) ==
  LET scope == Collect(EmptyScope, decl.expression)
      primary == decl.emission.primary
  IN  IF scope.error # "valid" THEN scope.error
      ELSE IF primary \notin DOMAIN scope.types THEN "MissingBinding"
      ELSE IF scope.types[primary] = "Object" THEN "UnavailablePrimaryLocation"
      ELSE "valid"

-----------------------------------------------------------------------------
(* Pass 3: correlation.  The branches of a conjunction speak of one event, *)
(* and every alternative binds the variable that evidence is reported for. *)

Correlated(branches) ==
  \/ Len(branches) <= 1
  \/ \E i \in 2..Len(branches) : Variables(branches[i]) \cap Variables(branches[1]) # {}

RECURSIVE CorrelationEvidence(_, _, _)
CorrelationEvidence(expr, primary, top) ==
  CASE expr.form = "All" ->
         IF ~Correlated(expr.branches) THEN "UncorrelatedConjunction"
         ELSE LET nested == FirstError([i \in DOMAIN expr.branches |->
                                CorrelationEvidence(expr.branches[i], primary, top)])
              IN  IF nested # "valid" THEN nested
                  ELSE IF top /\ primary \notin Variables(expr) THEN "MissingBinding" ELSE "valid"
    [] expr.form = "Any" ->
         LET nested == FirstError([i \in DOMAIN expr.branches |->
                           CorrelationEvidence(expr.branches[i], primary, FALSE)])
         IN  IF nested # "valid" THEN nested
             ELSE IF top /\ \E b \in Range(expr.branches) : primary \notin Variables(b)
             THEN "MissingBinding" ELSE "valid"
    [] expr.form = "Event" -> IF top /\ primary # EventVar THEN "MissingBinding" ELSE "valid"
    [] expr.form = "SelectEvent" -> IF top /\ primary # expr.bind THEN "MissingBinding" ELSE "valid"
    [] OTHER -> "valid"

ValidateQueryDecl(decl) ==
  FirstError(<<CheckStructure(decl.expression), ScopeTypes(decl),
               CorrelationEvidence(decl.expression, decl.emission.primary, TRUE)>>)

-----------------------------------------------------------------------------
(* Contradictions: what no event can satisfy.                              *)

ContainsText(text, part) == \E i \in 0..(Len(text) - Len(part)) : SubSeq(text, i + 1, i + Len(part)) = part

\* contradiction.rs: accepts, whether a literal text passes a static test.
Accepts(matcher, text) ==
  CASE matcher.test = "Exact" -> text \in matcher.values
    [] matcher.test = "Prefix" -> \E v \in matcher.values : IsPrefix(v, text)
    [] matcher.test = "ContainsAny" -> \E v \in matcher.values : ContainsText(text, v)
    [] matcher.test = "ContainsAll" -> \A v \in matcher.values : ContainsText(text, v)
    [] OTHER -> TRUE

IsStatic(matcher) == matcher.test \in {"Static", "Exact", "Prefix", "ContainsAny", "ContainsAll"}

EmptyAcceptedSet(matcher) == IsStatic(matcher) /\ matcher.test # "Static" /\ matcher.values = {}

StaticIntersectionShortened(matchers) ==
  LET prefixes == {m \in matchers : m.test = "Prefix"}
      kept(ps, m) == {p \in ps : \E v \in m.values : IsPrefix(v, p)}
  IN  prefixes # {} /\ FoldSet(LAMBDA m, ps : kept(ps, m), {<<>>}, prefixes) = {}

(* Exact candidates must survive every test of the argument; without any,  *)
(* some text must extend one prefix of every prefix test.                  *)
StaticIntersectionEmpty(matchers) ==
  LET static == {m \in matchers : IsStatic(m)}
      exact == {m \in static : m.test = "Exact"}
      candidates == {v \in UNION {m.values : m \in exact} : \A m \in exact : v \in m.values}
      narrowed(prefixes, m) ==
        {p \in prefixes : \E v \in m.values : IsPrefix(v, p)}
          \union {v \in m.values : \E p \in prefixes : IsPrefix(p, v)}
  IN  IF exact # {}
      THEN ~ \E v \in candidates : \A m \in static : Accepts(m, v)
      ELSE FoldSet(LAMBDA m, prefixes : narrowed(prefixes, m), {<<>>},
                   {m \in static : m.test = "Prefix"}) = {}

ArgumentsContradict(constraints) ==
  \E i \in {c.index : c \in constraints} :
    LET matchers == {c.matcher : c \in {d \in constraints : d.index = i}}
    IN  (\E m \in matchers : EmptyAcceptedSet(m)) \/ StaticIntersectionEmpty(matchers)

EventContradicts(event, identity, subject, constraints) ==
  \/ subject.relation = "Direct" /\ ~ValidPair(identity, event)
  \/ ArgumentsContradict(constraints)

-----------------------------------------------------------------------------
(* Normalization: an authored expression becomes an event, a set of        *)
(* alternative events, or a lifecycle.                                     *)

Direct(identity) == [relation |-> "Direct", identity |-> identity]

\* NormalizedEvent::new, after the contradiction check of its caller.
NormalizedEvent(event, identity, subject, constraints) ==
  IF EventContradicts(event, identity, subject, constraints) THEN Refused("ContradictoryPredicate")
  ELSE IF ~SubjectRelationValid(event, subject) THEN Refused("InternalInvariant")
  ELSE [form |-> "Event", event |-> event, subject |-> subject, arguments |-> constraints]

NormalizeEventFromQuery(query) ==
  NormalizedEvent(query.event, query.identity, Direct(query.identity), query.constraints)

Predicates(branches) == {b.predicate : b \in {c \in Range(branches) : c.form = "Require"}}
Those(predicates, is) == {p \in predicates : p.is = is}

(* find_common_event_var: the event a conjunction is about is bound by its *)
(* first branch and named by every other, but for the object bindings.     *)
CommonEventVars(branches) ==
  {v \in Bindings(branches[1]) :
     \A i \in 2..Len(branches) :
       \/ v \in Variables(branches[i])
       \/ /\ branches[i].form = "Require"
          /\ branches[i].predicate.is \in {"ReturnedObject", "ConstructedObject"}}

(* SameEventMerge: the kind, the identity and the subject of the event may *)
(* be stated more than once but only in one way; the subject defaults to   *)
(* the identity itself, and a member subject must be the bound object.     *)
MergeSameEvent(branches) ==
  LET all == Predicates(branches)
      kinds == {p.expected : p \in Those(all, "EventKind")}
      identities == {p.identity : p \in Those(all, "EventIdentity")}
      subjects ==
        {[relation |-> "Returned", identity |-> p.identity] : p \in Those(all, "ReturnedObject")}
          \union {[relation |-> "Instance", identity |-> p.identity] :
                    p \in Those(all, "ConstructedObject")}
      slots == {p.bind : p \in Those(all, "ReturnedObject") \union Those(all, "ConstructedObject")}
      constraints == {p.constraint : p \in Those(all, "Argument")}
  IN  IF kinds = {} \/ identities = {} THEN Refused("IncompleteSameEvent")
      ELSE IF Cardinality(kinds) > 1 \/ Cardinality(identities) > 1 \/ Cardinality(subjects) > 1
      THEN Refused("ContradictoryPredicate")
      ELSE IF \E p \in Those(all, "MemberSubject") : p.object \notin slots
      THEN Refused("UncorrelatedConjunction")
      ELSE LET event == CHOOSE e \in kinds : TRUE
               identity == CHOOSE i \in identities : TRUE
               subject == IF subjects = {} THEN Direct(identity) ELSE CHOOSE s \in subjects : TRUE
           IN  NormalizedEvent(event, identity, subject, constraints)

\* check_branch_evidence_compatibility: what kind of variable a root reports.
BranchVarType(root) == IF root.form = "Lifecycle" THEN "lifecycle" ELSE VariableType(root.event)

\* normalize_lifecycle_root: its sources, each normalized as an event.
NormalizeLifecycle(lifecycle) ==
  LET sources == {NormalizeEventFromQuery(s) : s \in lifecycle.sources}
      refused == {s \in sources : IsRefused(s)}
  IN  IF refused # {} THEN CHOOSE s \in refused : TRUE
      ELSE [form |-> "Lifecycle", sources |-> sources,
            condition |-> lifecycle.condition, completion |-> lifecycle.completion]

(* normalize_root and normalize_any_root.  The branches of a nested Any    *)
(* join those of the Any around it; a nested Any that normalized to one    *)
(* branch is no longer an Any, and the code takes nothing from it.         *)
RECURSIVE NormalizeRoot(_)
NormalizeRoot(expr) ==
  CASE expr.form = "Event" -> NormalizeEventFromQuery(expr.query)
    [] expr.form = "Lifecycle" -> NormalizeLifecycle(expr.lifecycle)
    [] expr.form = "All" ->
         IF Len(expr.branches) = 1 THEN NormalizeRoot(expr.branches[1])
         ELSE IF CommonEventVars(expr.branches) = {} THEN Refused("UnsupportedRelation")
         ELSE MergeSameEvent(expr.branches)
    [] expr.form = "Any" ->
         LET normal == [i \in DOMAIN expr.branches |-> NormalizeRoot(expr.branches[i])]
             refused == {i \in DOMAIN normal : IsRefused(normal[i])}
             joined(i) == IF expr.branches[i].form # "Any" THEN {normal[i]}
                          ELSE IF normal[i].form = "Any" THEN normal[i].branches ELSE {}
             branches == UNION {joined(i) : i \in DOMAIN normal}
         IN  IF refused # {} THEN normal[Min(refused)]
             ELSE IF Cardinality({BranchVarType(b) : b \in branches}) > 1
             THEN Refused("IncompatibleBranchOutput")
             ELSE IF Cardinality(branches) = 1 THEN CHOOSE b \in branches : TRUE
             ELSE [form |-> "Any", branches |-> branches]
    [] OTHER -> Refused("InternalInvariant")

\* validate_normalized_root, the checks that can still fail.
NormalizedValid(root) ==
  /\ root.form = "Any" => /\ root.branches # {}
                          /\ \A b \in root.branches : b.form = "Event"
  /\ root.form = "Lifecycle" =>
       /\ root.sources # {}
       /\ \A s \in root.sources : LifecycleSourceValid(s.subject.identity, s.event)

NormalizeQueryDecl(decl) ==
  LET root == NormalizeRoot(decl.expression)
  IN  IF IsRefused(root) THEN root
      ELSE IF ~NormalizedValid(root) \/ decl.emission.symbol = <<>>
      THEN Refused("InternalInvariant") ELSE root

-----------------------------------------------------------------------------
(* Planning: every alternative becomes one physical root.                  *)

PhysicalRoot(operator, event, identity, arguments, emission) ==
  [operator |-> operator, event |-> event, identity |-> identity,
   arguments |-> arguments, kind |-> emission.kind, symbol |-> emission.symbol]

PlanEvent(root, emission) ==
  LET operator ==
        CASE root.subject.relation = "Returned" -> "ReturnedSubject"
          [] root.subject.relation = "Instance" -> "InstanceSubject"
          [] root.arguments = {} -> "IndexedScan"
          [] OTHER -> "ConstrainedScan"
      kept == IF operator = "ConstrainedScan" THEN root.arguments ELSE {}
  IN  PhysicalRoot(operator, root.event, root.subject.identity, kept, emission)

\* CompiledObjectFlow: one root carries the whole lifecycle.
PlanLifecycle(root, emission) ==
  [operator |-> "Lifecycle",
   sources |-> {[event |-> s.event, identity |-> s.subject.identity, arguments |-> s.arguments] :
                  s \in root.sources},
   condition |-> root.condition, completion |-> root.completion, symbol |-> emission.symbol]

PlanRoot(root, emission) ==
  CASE root.form = "Event" -> {PlanEvent(root, emission)}
    [] root.form = "Any" -> {PlanEvent(b, emission) : b \in root.branches}
    [] OTHER -> {PlanLifecycle(root, emission)}

\* RootBudget::reserve is charged for every alternative, before roots of
\* different queries are deduplicated.
Reserved(root) == IF root.form = "Any" THEN Cardinality(root.branches) ELSE 1

CanonicalConstraints(constraints) ==
  /\ constraints # {}
  /\ Cardinality({c.index : c \in constraints}) <= MaxGroups
  /\ \A c \in constraints :
       Cardinality({d \in constraints : d.index = c.index}) <= MaxPredicates

RootValid(root) ==
  CASE root.operator = "Lifecycle" -> root.sources # {}
    [] root.operator = "IndexedScan" -> ~IdentityEmpty(root.identity) /\ root.symbol # <<>>
    [] root.operator = "ConstrainedScan" ->
         /\ ~IdentityEmpty(root.identity) /\ SupportsArguments(root.event)
         /\ CanonicalConstraints(root.arguments) /\ root.symbol # <<>>
    [] OTHER -> /\ ~IdentityEmpty(root.identity) /\ root.event.member # <<>>
                /\ root.symbol # <<>>

(* validate_root_set: a sealed plan has a root, and no root of it is one   *)
(* the matcher could not run.                                              *)
RootSetVerdict(roots) ==
  IF roots = {} \/ Cardinality(roots) > MaxRoots \/ \E r \in roots : ~RootValid(r)
  THEN "InvalidPhysicalPlan" ELSE "valid"

\* PlanRequirements: which project facts the matcher has to prepare.
RequireIdentity(identity) ==
  CASE identity.by = "ModuleExport" -> {"ExactModuleExports", "CallResultIdentities"}
    [] identity.by = "PackageModuleExport" -> {"PackageModuleExports", "CallResultIdentities"}
    [] identity.by = "ModuleNamespace" -> {"ExactModuleNamespaces"}
    [] identity.by = "PackageModuleNamespace" -> {"PackageModuleNamespaces"}
    [] OTHER -> {}

Requirements(root) ==
  CASE root.operator = "Lifecycle" -> {"LocalFlow", "CrossCallFlow"}
    [] root.operator = "ReturnedSubject" -> {}
    [] OTHER -> RequireIdentity(root.identity)

\* map_query_compile_error: bugs of the compiler are told apart from what
\* the author did wrong.
MapError(error) ==
  IF error \in {"IncompleteSameEvent", "InternalInvariant"} THEN "CompilerInvariant" ELSE error

=============================================================================
