--------------------------- MODULE QueryAlgebra ---------------------------
(***************************************************************************)
(* The query language a rule author writes in                              *)
(* (src/glass-lint-core/src/api/rule/query): identities, event selections, *)
(* argument matchers, and the constructors that combine them into a query  *)
(* declaration.  A constructor is a pure function of its arguments; where  *)
(* the code returns a QueryBuildError the operator returns Refused(error). *)
(*                                                                         *)
(* Names, module specifiers and static strings are sequences: a path is a  *)
(* sequence of segments, a string a sequence of letters, because prefix    *)
(* and containment are what the matchers and the contradiction check see.  *)
(***************************************************************************)
EXTENDS Naturals, Sequences, FiniteSets, SequencesExt, FiniteSetsExt

CONSTANTS
  MaxChildren,       \* limits.rs: MAX_EXPR_CHILDREN
  MaxDepth,          \* limits.rs: MAX_EXPR_DEPTH
  MaxArgumentIndex,  \* limits.rs: MAX_ARGUMENT_INDEX
  MaxGroups,         \* limits.rs: MAX_ARGUMENT_GROUPS
  MaxPredicates,     \* limits.rs: MAX_PREDICATES_PER_ARGUMENT
  MaxSources         \* limits.rs: MAX_LIFECYCLE_SOURCES

ASSUME LimitsAssumption ==
  {MaxChildren, MaxDepth, MaxArgumentIndex, MaxGroups, MaxPredicates, MaxSources}
    \subseteq Nat \ {0}

Refused(error) == [refused |-> error]
IsRefused(result) == "refused" \in DOMAIN result

-----------------------------------------------------------------------------
(* Identities and events.  Every identity has the same three fields: which *)
(* kind it is, the module it names (<<>> when it names none), and the      *)
(* export, name, path or literal it names inside it.                       *)

Identity(by, module, path) == [by |-> by, module |-> module, path |-> path]

Global(name)                == Identity("Global", <<>>, name)
Heuristic(path)             == Identity("Heuristic", <<>>, path)
Rooted(path)                == Identity("Rooted", <<>>, path)
ModuleExport(module, name)  == Identity("ModuleExport", module, name)
PackageExport(module, name) == Identity("PackageModuleExport", module, name)
Namespace(module)           == Identity("ModuleNamespace", module, <<>>)
PackageNamespace(module)    == Identity("PackageModuleNamespace", module, <<>>)
Literal(text)               == Identity("LiteralString", <<>>, text)
PackageSpecifier(module)    == Identity("PackageSpecifier", module, <<>>)
PrivateNetwork              == Identity("PrivateNetworkAddress", <<>>, <<>>)

\* IdentitySpec::display_name: what a finding of the query is called.
DisplayName(identity) ==
  IF identity.by = "PrivateNetworkAddress"
  THEN <<"private network address">> ELSE identity.module \o identity.path

\* An event specification: its kind and, for member events, the member path.
Event(kind, member) == [kind |-> kind, member |-> member]

SupportsArguments(event) == event.kind \in {"Call", "MemberCall"}

VariableType(event) ==
  CASE event.kind \in {"Call", "Construct"} -> "CallEvent"
    [] event.kind \in {"MemberCall", "MemberRead", "PropertyWrite"} -> "MemberEvent"
    [] OTHER -> "Event"

EvidenceKindForEvent(event) ==
  CASE event.kind = "Construct" -> "Constructor"
    [] event.kind = "ClassReference" -> "Class"
    [] event.kind = "StringReference" -> "StringContains"
    [] OTHER -> event.kind

-----------------------------------------------------------------------------
(* Event selections: EventQuery and its public constructors.               *)

FromParts(event, identity) ==
  [event |-> event, identity |-> identity, constraints |-> {}]

CallGlobal(name)             == FromParts(Event("Call", <<>>), Global(name))
CallHeuristic(name)          == FromParts(Event("Call", <<>>), Heuristic(name))
CallModule(module, export)   == FromParts(Event("Call", <<>>), ModuleExport(module, export))
CallPackage(module, export)  == FromParts(Event("Call", <<>>), PackageExport(module, export))
MemberCallRooted(chain)      == FromParts(Event("MemberCall", chain), Rooted(chain))
MemberCallHeuristic(chain)   == FromParts(Event("MemberCall", chain), Heuristic(chain))
MemberCallModule(module, m)  == FromParts(Event("MemberCall", m), Namespace(module))
MemberCallPackage(module, m) == FromParts(Event("MemberCall", m), PackageNamespace(module))
MemberReadRooted(chain)      == FromParts(Event("MemberRead", chain), Rooted(chain))
PropertyWriteRooted(chain)   == FromParts(Event("PropertyWrite", chain), Rooted(chain))
MemberReadModule(module, m)  == FromParts(Event("MemberRead", m), Namespace(module))
ImportExact(specifier)       == FromParts(Event("Import", <<>>), Literal(specifier))
ImportPackage(specifier)     == FromParts(Event("Import", <<>>), PackageSpecifier(specifier))
StringContains(text)         == FromParts(Event("StringReference", <<>>), Literal(text))
StringPrivateNetworkAddress  == FromParts(Event("StringReference", <<>>), PrivateNetwork)
ClassHeuristic(name)         == FromParts(Event("ClassReference", <<>>), Heuristic(name))
ClassModule(module, export)  == FromParts(Event("ClassReference", <<>>), ModuleExport(module, export))
ConstructorGlobal(name)      == FromParts(Event("Construct", <<>>), Global(name))
ConstructorRooted(chain)     == FromParts(Event("Construct", <<>>), Rooted(chain))
ConstructorHeuristic(name)   == FromParts(Event("Construct", <<>>), Heuristic(name))
ConstructorModule(module, e) == FromParts(Event("Construct", <<>>), ModuleExport(module, e))

(* Argument matchers: ValueMatcher and ArgumentMatcher.  A static-string   *)
(* test refines a matcher that is already a static-string matcher.         *)

AnyValue == [test |-> "AnyValue", values |-> {}]
StaticString == [test |-> "Static", values |-> {}]
WithStaticPredicate(matcher, test, values) ==
  IF matcher.test = "AnyValue" THEN Refused("StaticStringMatcherRequired")
  ELSE IF values = {} THEN Refused("EmptyCollection")
  ELSE [test |-> test, values |-> values]
RootedExpressions(paths) == [test |-> "Rooted", values |-> paths]

Constraint(index, matcher) == [index |-> index, matcher |-> matcher]

ArgumentIndex(index) ==
  IF index > MaxArgumentIndex THEN Refused("InvalidArgumentIndex") ELSE [index |-> index]

(* ArgumentConstraints::push keeps the constraints sorted and counts every *)
(* one pushed, repeated ones too; a set keeps what the compiler sees.      *)
Push(constraints, constraint) ==
  LET same == {c \in constraints : c.index = constraint.index}
      groups == {c.index : c \in constraints}
  IN  IF Cardinality(same) >= MaxPredicates THEN Refused("ExcessivePredicates")
      ELSE IF same = {} /\ Cardinality(groups) >= MaxGroups
      THEN Refused("ExcessiveArgumentGroups")
      ELSE [pushed |-> constraints \union {constraint}]

WithArg(query, index, matcher) ==
  IF IsRefused(ArgumentIndex(index)) THEN ArgumentIndex(index)
  ELSE IF ~SupportsArguments(query.event) THEN Refused("ArgumentsRequireCallEvent")
  ELSE LET pushed == Push(query.constraints, Constraint(index, matcher))
       IN  IF IsRefused(pushed) THEN pushed
           ELSE [query EXCEPT !.constraints = pushed.pushed]

-----------------------------------------------------------------------------
(* Expressions.  A variable is the author's VarId: every event selection   *)
(* binds 0, and a member-subject query binds its object to 1.              *)

EventVar == 0
ObjectVar == 1

EventExpr(query)        == [form |-> "Event", query |-> query]
SelectEvent(bind)       == [form |-> "SelectEvent", bind |-> bind]
Require(predicate)      == [form |-> "Require", predicate |-> predicate]
AnyExpr(branches)       == [form |-> "Any", branches |-> branches]
AllExpr(branches)       == [form |-> "All", branches |-> branches]
LifecycleExpr(lifecycle) == [form |-> "Lifecycle", lifecycle |-> lifecycle]

EventKindIs(event)       == [is |-> "EventKind", event |-> EventVar, expected |-> event]
EventIdentityIs(identity) == [is |-> "EventIdentity", event |-> EventVar, identity |-> identity]
ArgumentIs(constraint)   == [is |-> "Argument", event |-> EventVar, constraint |-> constraint]
ObjectIs(origin, identity) == [is |-> origin, bind |-> ObjectVar, identity |-> identity]
MemberSubject            == [is |-> "MemberSubject", event |-> EventVar, object |-> ObjectVar]

\* The variables an expression binds, and those it names.
RECURSIVE Bindings(_)
Bindings(expr) ==
  CASE expr.form = "Event" -> {EventVar}
    [] expr.form = "SelectEvent" -> {expr.bind}
    [] expr.form = "Require" ->
         IF expr.predicate.is \in {"ReturnedObject", "ConstructedObject"}
         THEN {expr.predicate.bind} ELSE {}
    [] expr.form = "Lifecycle" -> {EventVar}
    [] OTHER -> UNION {Bindings(b) : b \in Range(expr.branches)}

RECURSIVE Variables(_)
Variables(expr) ==
  CASE expr.form = "Require" ->
         CASE expr.predicate.is = "MemberSubject" -> {expr.predicate.event, expr.predicate.object}
           [] expr.predicate.is \in {"ReturnedObject", "ConstructedObject"} -> {expr.predicate.bind}
           [] OTHER -> {expr.predicate.event}
    [] expr.form \in {"Any", "All"} -> UNION {Variables(b) : b \in Range(expr.branches)}
    [] OTHER -> Bindings(expr)

RECURSIVE Depth(_)
Depth(expr) ==
  IF expr.form \in {"Any", "All"}
  THEN 1 + Max({0} \union {Depth(b) : b \in Range(expr.branches)})
  ELSE 1

\* validate_children: an operator has a branch, not too many, and stays
\* within the depth limit.
ValidChildren(branches, empty) ==
  IF branches = <<>> THEN empty
  ELSE IF Len(branches) > MaxChildren THEN "CollectionTooLarge"
  ELSE IF 1 + Max({Depth(b) : b \in Range(branches)}) > MaxDepth
  THEN "ExpressionDepthExceeded" ELSE "valid"

-----------------------------------------------------------------------------
(* Query declarations: an expression and how its matches are reported.     *)

Emission(kind, symbol) == [primary |-> EventVar, kind |-> kind, symbol |-> symbol]
Decl(expr, emission) == [expression |-> expr, emission |-> emission]

SelectionEmission(query) ==
  Emission(EvidenceKindForEvent(query.event), DisplayName(query.identity))

\* EventSelectionAssembly::branches: a selection taken apart into atoms.
SelectionBranches(query) ==
  <<SelectEvent(EventVar), Require(EventKindIs(query.event)),
    Require(EventIdentityIs(query.identity))>>
    \o SetToSeq({Require(ArgumentIs(c)) : c \in query.constraints})

IntoQuery(query) == Decl(EventExpr(query), SelectionEmission(query))

SameEvidence(first, other, aggregate) ==
  /\ first.primary = other.primary
  /\ first.kind = other.kind
  /\ aggregate \/ first.symbol = other.symbol

(* QueryDecl::any and any_with_evidence: symbol is <<>> for the first.     *)
AnyOf(decls, symbol) ==
  LET emissions == [i \in DOMAIN decls |-> decls[i].emission]
      exprs == [i \in DOMAIN decls |-> decls[i].expression]
  IN  IF Len(decls) > MaxChildren THEN Refused("CollectionTooLarge")
      ELSE IF decls = <<>> THEN Refused("EmptyAlternatives")
      ELSE IF \E i \in DOMAIN decls : ~SameEvidence(emissions[1], emissions[i], symbol # <<>>)
      THEN Refused("EvidenceProjection")
      ELSE IF ValidChildren(exprs, "EmptyAlternatives") # "valid"
      THEN Refused(ValidChildren(exprs, "EmptyAlternatives"))
      ELSE IF \E e \in Range(exprs) : emissions[1].primary \notin Variables(e)
      THEN Refused("EvidenceProjection")
      ELSE Decl(AnyExpr(exprs),
                IF symbol = <<>> THEN emissions[1]
                ELSE [emissions[1] EXCEPT !.symbol = symbol])

(* QueryDecl::all: one selected event and further requirements on it.      *)
AllOf(query, requirements) ==
  LET atoms == [i \in DOMAIN requirements |-> Require(ArgumentIs(requirements[i]))]
      branches == SelectionBranches(query) \o atoms
  IN  IF requirements # <<>> /\ Len(branches) > MaxChildren
      THEN Refused("CollectionTooLarge")
      ELSE IF requirements # <<>> /\ ~SupportsArguments(query.event)
      THEN Refused("ArgumentsRequireCallEvent")
      ELSE IF ValidChildren(branches, "EmptyConjunction") # "valid"
      THEN Refused(ValidChildren(branches, "EmptyConjunction"))
      ELSE Decl(AllExpr(branches), SelectionEmission(query))

(* member_subject_query: a member event on an object that an identity      *)
(* constructed or returned; the finding is named for that identity.        *)
MemberSubjectQuery(event, identity, origin) ==
  LET query == FromParts(event, identity)
      branches == SelectionBranches(query)
                    \o <<Require(ObjectIs(origin, identity)), Require(MemberSubject)>>
  IN  IF ValidChildren(branches, "EmptyConjunction") # "valid"
      THEN Refused(ValidChildren(branches, "EmptyConjunction"))
      ELSE Decl(AllExpr(branches),
                Emission(EvidenceKindForEvent(event), DisplayName(identity)))

MemberCallInstance(module, export, member) ==
  MemberSubjectQuery(Event("MemberCall", member), ModuleExport(module, export), "ConstructedObject")
MemberCallReturned(source, member) ==
  MemberSubjectQuery(Event("MemberCall", member), Rooted(source), "ReturnedObject")
MemberReadReturned(source, member) ==
  MemberSubjectQuery(Event("MemberRead", member), Rooted(source), "ReturnedObject")

(* LifecycleStages::build and QueryDecl::lifecycle.  condition is <<>> or  *)
(* <<readiness, events>>, completion is <<>> or <<readiness, sinks>>.      *)
LifecycleOf(symbol, sources, condition, completion) ==
  IF symbol = <<>> THEN Refused("EmptyEvidenceSymbol")
  ELSE IF sources = <<>> THEN Refused("MissingLifecycleSources")
  ELSE IF Len(sources) > MaxSources THEN Refused("CollectionTooLarge")
  ELSE IF completion = <<>> THEN Refused("MissingLifecycleCompletion")
  ELSE IF completion[1] = "Configuration" /\ condition = <<>>
  THEN Refused("MissingLifecycleCondition")
  ELSE Decl(LifecycleExpr([symbol |-> symbol, sources |-> Range(sources),
                           condition |-> condition, completion |-> completion]),
            Emission("CallArgument", symbol))

=============================================================================
