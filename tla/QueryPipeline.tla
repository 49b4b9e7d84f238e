--------------------------- MODULE QueryPipeline ---------------------------
(***************************************************************************)
(* A rule from its author to its findings: the author calls the builders   *)
(* of QueryAlgebra, the catalog compiles the declarations one by one with  *)
(* the passes of QueryCompiler (api/compiler/mod.rs: compile_queries), and *)
(* the matcher of QueryMatching runs the sealed plan over one file, first  *)
(* the indexed roots, then the constrained ones, and normalizes what they  *)
(* found.  Lifecycle roots are planned here and run by the flow projector. *)
(*                                                                         *)
(* The properties compare what comes out with the meaning of what the      *)
(* author wrote, which is defined over facts and knows of no index, no     *)
(* plan and no overlay.                                                    *)
(***************************************************************************)
EXTENDS QueryMatching

CONSTANTS
  Programs,      \* what a rule may be run over: pairs of a file, which is a sequence
                 \* of facts, and the module identities the linker found for it
  Selections,    \* the event selections the author tries
  Openers,       \* further ones, tried as the first call of a rule (bound)
  Arguments,     \* the argument constraints the author tries
  Subjects,      \* the member-subject declarations the author tries
  Lifecycles,    \* the lifecycle declarations the author tries
  AggregateSymbol,  \* the symbol given to any_with_evidence
  Texts,         \* the texts an argument may have, for ContradictionIsExact
  MaxCalls       \* bound: how many builder calls the author makes

VARIABLES
  phase,         \* "authoring", "compiling", "sealed", "indexed", "matched", "reported",
                 \* or one of the ends "refused" (by a builder), "rejected" (by the compiler)
  calls,         \* builder calls made
  event,         \* <<>> or <<the EventQuery being built>>
  decls,         \* the declarations built so far, in order
  error,         \* why the builders refused or the compiler rejected
  next,          \* compile_queries: the declaration to compile next
  used,          \* RootBudget
  roots,         \* the planned roots
  file, linking, \* what the rule runs over, once it is sealed
  items,         \* raw evidence
  report         \* normalized evidence

vars == <<phase, calls, event, decls, error, next, used, roots, file, linking, items, report>>
authored == <<event, decls>>
compiled == <<next, used, roots>>
found == <<items, report>>

Init ==
  /\ phase = "authoring" /\ calls = 0
  /\ event = <<>> /\ decls = <<>> /\ error = "none"
  /\ next = 1 /\ used = 0 /\ roots = {}
  /\ file = <<>> /\ linking = <<>>
  /\ items = {} /\ report = {}

-----------------------------------------------------------------------------
(* The author.  Every builder returns a Result; an error ends the rule.    *)

Build(result, keep) ==
  /\ phase = "authoring" /\ calls < MaxCalls
  /\ calls' = calls + 1
  /\ IF IsRefused(result)
     THEN /\ phase' = "refused" /\ error' = result.refused
          /\ UNCHANGED authored
     ELSE /\ UNCHANGED <<phase, error>>
          /\ keep
  /\ UNCHANGED <<compiled, file, linking, found>>

\* EventQuery::call_global and the other constructors.
Select ==
  /\ event = <<>>
  /\ \E q \in Selections \union (IF calls = 0 THEN Openers ELSE {}) :
       Build(q, event' = <<q>> /\ UNCHANGED decls)

\* EventQuery::with_arg.
Narrow ==
  /\ event # <<>>
  /\ \E c \in Arguments :
       LET narrowed == WithArg(event[1], c.index, c.matcher)
       IN  Build(narrowed, event' = <<narrowed>> /\ UNCHANGED decls)

\* Adds a declaration to the rule's queries.
Declare(decl) == Build(decl, decls' = Append(decls, decl) /\ event' = <<>>)

\* EventQuery::into_query.
DeclareEvent == event # <<>> /\ Declare(IntoQuery(event[1]))

\* QueryDecl::all; one further requirement is enough beside those of the event.
DeclareAll ==
  /\ event # <<>>
  /\ \E reqs \in SeqOf(Arguments, 1) : Declare(AllOf(event[1], reqs))

\* QueryDecl::member_call_instance, member_call_returned, member_read_returned.
DeclareSubject == event = <<>> /\ \E d \in Subjects : Declare(d)

\* QueryDecl::lifecycle.
DeclareLifecycle == event = <<>> /\ \E d \in Lifecycles : Declare(d)

\* QueryDecl::any and any_with_evidence over the last declarations.
DeclareAny ==
  /\ event = <<>>
  /\ \E n \in {0, 1, 2}, symbol \in {<<>>, AggregateSymbol} :
       LET cut == Len(decls) - n
           alternatives == AnyOf(SubSeq(decls, cut + 1, Len(decls)), symbol)
       IN  /\ cut >= 0
           /\ Build(alternatives,
                    decls' = Append(SubSeq(decls, 1, cut), alternatives) /\ UNCHANGED event)

\* The rule is complete and goes to the compiler.
Submit ==
  /\ phase = "authoring" /\ event = <<>> /\ decls # <<>>
  /\ phase' = "compiling"
  /\ UNCHANGED <<calls, authored, error, compiled, file, linking, found>>

-----------------------------------------------------------------------------
(* The compiler.                                                           *)

Reject(why) ==
  /\ phase' = "rejected" /\ error' = MapError(why)
  /\ UNCHANGED compiled

\* One turn of compile_queries: validate, normalize, reserve, plan.
CompileQuery ==
  /\ phase = "compiling" /\ next <= Len(decls)
  /\ LET decl == decls[next]
         valid == ValidateQueryDecl(decl)
     IN  IF valid # "valid" THEN Reject(valid)
         ELSE \E root \in {NormalizeQueryDecl(decl)} :
                IF IsRefused(root) THEN Reject(root.refused)
                ELSE IF used + Reserved(root) > MaxRoots THEN Reject("InvalidPhysicalPlan")
                ELSE /\ roots' = roots \union PlanRoot(root, decl.emission)
                     /\ used' = used + Reserved(root)
                     /\ next' = next + 1
                     /\ UNCHANGED <<phase, error>>
  /\ UNCHANGED <<calls, authored, file, linking, found>>

\* seal_planned_roots.
Seal ==
  /\ phase = "compiling" /\ next > Len(decls)
  /\ IF RootSetVerdict(roots) = "valid"
     THEN phase' = "sealed" /\ UNCHANGED <<error, compiled>>
     ELSE Reject(RootSetVerdict(roots))
  /\ UNCHANGED <<calls, authored, file, linking, found>>

-----------------------------------------------------------------------------
(* The matcher.                                                            *)

IndexedOperators == {"IndexedScan", "ReturnedSubject", "InstanceSubject"}
RootsOf(operators) == {r \in roots : r.operator \in operators}

\* evidence_for_indexed_with_overlay, over any file, however it was linked.
MatchIndexed ==
  /\ phase = "sealed"
  /\ \E p \in Programs : file' = p[1] /\ linking' = p[2]
  /\ \E indexes \in {BuildFromStream(file')} :
       \E overlay \in {BuildOverlay(indexes, linking')} :
         items' = UNION {Item(r, EvaluateIndexed(indexes, overlay, r)) : r \in RootsOf(IndexedOperators)}
  /\ phase' = "indexed"
  /\ UNCHANGED <<calls, authored, error, compiled, report>>

\* compute_constrained_evidence.
MatchConstrained ==
  /\ phase = "indexed"
  /\ \E indexes \in {BuildFromStream(file)} :
       \E overlay \in {BuildOverlay(indexes, linking)} :
         items' = items \union
           UNION {Item(r, EvaluateConstrained(file, indexes, overlay, linking, r)) :
                    r \in RootsOf({"ConstrainedScan"})}
  /\ phase' = "matched"
  /\ UNCHANGED <<calls, authored, error, compiled, file, linking, report>>

\* normalize_evidence.
Report ==
  /\ phase = "matched"
  /\ report' = NormalizeEvidence(items)
  /\ phase' = "reported"
  /\ UNCHANGED <<calls, authored, error, compiled, file, linking, items>>

Next ==
  \/ Select \/ Narrow \/ DeclareEvent \/ DeclareAll \/ DeclareSubject \/ DeclareLifecycle
  \/ DeclareAny \/ Submit
  \/ CompileQuery \/ Seal
  \/ MatchIndexed \/ MatchConstrained \/ Report

Spec == Init /\ [][Next]_vars

-----------------------------------------------------------------------------
(* What a declaration means: which facts of the file it is about, read off *)
(* the facts.  A module member is what the linker resolved it to.          *)

FactKind(event1) ==
  CASE event1.kind \in {"Call", "MemberCall"} -> "Call"
    [] event1.kind = "Construct" -> "Construction"
    [] event1.kind = "ClassReference" -> "Class"
    [] event1.kind = "StringReference" -> "Reference"
    [] OTHER -> event1.kind

ModuleKeys(fact) ==
  {k \in {fact.export, fact.member} : k # <<>>} \ (IF fact.declaration THEN {fact.export} ELSE {})

\* The export a module member stands for: its own, the one it was linked
\* to, or none that a query could name.
LinkedTo(key) ==
  LET identity == IdentityFor(linking, key)
  IN  CASE identity = NoResolution -> {key}
        [] identity.is = "External" -> {<<identity.module, identity.export>>}
        [] OTHER -> {}

Exports(fact) == UNION {LinkedTo(k) : k \in ModuleKeys(fact)}

\* Only calls are taken for calls of a global they were linked to.
GlobalsOf(fact) ==
  {fact.global} \union {IdentityFor(linking, k).export :
     k \in {m \in ModuleKeys(fact) : fact.kind = "Call" /\ IdentityFor(linking, m).is = "Global"}}

RootedAt(fact) == {p \in {fact.rooted, fact.unwrapped} : p # <<>>}

Spelled(event1, fact) ==
  CASE event1.kind \in {"MemberCall", "MemberRead"} -> {fact.path, fact.unwrapped}
    [] event1.kind = "PropertyWrite" -> {fact.rooted}
    [] OTHER -> {fact.name}

Denotes(identity, event1, fact) ==
  CASE identity.by = "Heuristic" -> identity.path \in Spelled(event1, fact)
    [] identity.by = "Global" -> identity.path \in GlobalsOf(fact)
    [] identity.by = "ModuleExport" -> <<identity.module, identity.path>> \in Exports(fact)
    [] identity.by = "ModuleNamespace" -> <<identity.module, event1.member>> \in Exports(fact)
    [] identity.by = "PackageModuleExport" ->
         \E e \in Exports(fact) : PackageMatches(identity.module, e[1]) /\ e[2] = identity.path
    [] identity.by = "PackageModuleNamespace" ->
         \E e \in Exports(fact) : PackageMatches(identity.module, e[1]) /\ e[2] = event1.member
    [] identity.by = "Rooted" -> \E p \in RootedAt(fact) : PathsMatch(p, identity.path)
    [] identity.by = "LiteralString" ->
         IF event1.kind = "Import" THEN fact.text = identity.path ELSE ContainsText(fact.text, identity.path)
    [] identity.by = "PackageSpecifier" -> PackageMatches(identity.module, fact.text)
    [] OTHER -> \E p \in PrivateTexts : ContainsText(fact.text, p)

MeansSelection(q, fact) ==
  /\ fact.kind = FactKind(q.event)
  /\ Denotes(q.identity, q.event, fact)
  /\ ConstraintsMatch(q.constraints, fact.args)

MeansSubject(origin, identity, event1, fact) ==
  /\ fact.kind = FactKind(event1)
  /\ IF origin = "ReturnedObject"
     THEN /\ fact.returned # <<>> /\ fact.returned[2] = event1.member
          /\ PathsMatch(identity.path, fact.returned[1]) \/ IsPrefix(identity.path, fact.returned[1])
     ELSE /\ fact.instance = <<identity.module, identity.path>>
          /\ fact.path # <<>> /\ <<Last(fact.path)>> = event1.member

\* The selection that the atoms of a conjunction describe.
Conjoined(branches) ==
  LET all == Predicates(branches)
  IN  [event |-> (CHOOSE p \in all : p.is = "EventKind").expected,
       identity |-> (CHOOSE p \in all : p.is = "EventIdentity").identity,
       constraints |-> {p.constraint : p \in Those(all, "Argument")}]

ObjectAtoms(branches) ==
  {p \in Predicates(branches) : p.is \in {"ReturnedObject", "ConstructedObject"}}

RECURSIVE Means(_, _)
Means(expr, fact) ==
  CASE expr.form = "Event" -> MeansSelection(expr.query, fact)
    [] expr.form = "Any" -> \E b \in Range(expr.branches) : Means(b, fact)
    [] expr.form = "All" ->
         IF ObjectAtoms(expr.branches) = {} THEN MeansSelection(Conjoined(expr.branches), fact)
         ELSE \E p \in ObjectAtoms(expr.branches) :
                MeansSubject(p.is, p.identity, Conjoined(expr.branches).event, fact)
    [] OTHER -> FALSE

RECURSIVE Leaves(_)
Leaves(expr) ==
  IF expr.form = "Any" THEN UNION {Leaves(b) : b \in Range(expr.branches)} ELSE {expr}

AllLeaves == UNION {Leaves(decls[i].expression) : i \in DOMAIN decls}
LeafSelections ==
  {e.query : e \in {l \in AllLeaves : l.form = "Event"}}
    \union {Conjoined(e.branches) : e \in {l \in AllLeaves : l.form = "All"}}

-----------------------------------------------------------------------------
(* Where the matcher is known to disagree with that meaning; the README    *)
(* says why for each.                                                      *)

\* A nested Any whose branches normalize to one is dropped.
RECURSIVE DropsBranch(_)
DropsBranch(expr) ==
  /\ expr.form = "Any"
  /\ \E b \in Range(expr.branches) :
       b.form = "Any" /\ (NormalizeRoot(b).form # "Any" \/ DropsBranch(b))

LinkedAway(fact) == \E k \in ModuleKeys(fact) : IdentityFor(linking, k) # NoResolution
FactsOf(q) == {i \in DOMAIN file : file[i].kind = FactKind(q.event)}

\* A package lookup forgets the mask when nothing was linked to an export.
ForgetsMask(q) ==
  /\ q.identity.by \in {"PackageModuleExport", "PackageModuleNamespace"}
  /\ \E i \in FactsOf(q) : LinkedAway(file[i])

\* Occurrences linked to a key take the place of those that had it already.
Displaces(q) ==
  /\ q.identity.by \in {"ModuleExport", "ModuleNamespace"}
  /\ \E i, j \in FactsOf(q) :
       /\ LinkedAway(file[i])
       /\ Exports(file[i]) \cap Exports(file[j]) # {} /\ ~LinkedAway(file[j])

\* The evaluator of constraints compares exact chains and members, where
\* the indexes know the aliases of the global object, the linked names, and
\* named imports as members of their module.
EvaluatesRaw(q) ==
  /\ q.constraints # {}
  /\ \/ q.identity.by = "Rooted" /\ \E i \in FactsOf(q) : \E p \in RootedAt(file[i]) :
          PathsMatch(p, q.identity.path) /\ p # q.identity.path
     \/ q.identity.by \in {"ModuleNamespace", "ModuleExport", "Global"}
          /\ \E i \in FactsOf(q) : LinkedAway(file[i])
     \/ q.identity.by \in {"ModuleNamespace", "PackageModuleNamespace"}
          /\ \E i \in FactsOf(q) : file[i].member = <<>> /\ file[i].export # <<>>

\* A call linked to a global name also answers for the constructor of it.
TakesCalls(q) ==
  /\ q.event.kind = "Construct" /\ q.identity.by = "Global"
  /\ \E i \in DOMAIN file : file[i].kind = "Call" /\ LinkedAway(file[i])

KnownDivergence ==
  \/ \E i \in DOMAIN decls : DropsBranch(decls[i].expression)
  \/ \E q \in LeafSelections : ForgetsMask(q) \/ Displaces(q) \/ EvaluatesRaw(q) \/ TakesCalls(q)

-----------------------------------------------------------------------------
(* The properties.                                                         *)

Meant ==
  UNION {{<<d.emission.kind, d.emission.symbol, id>> : id \in {f \in DOMAIN file : Means(d.expression, file[f])}} :
           d \in Range(decls)}
Found == UNION {{<<i.kind, i.symbol, id>> : id \in i.occurrences} : i \in items}

(* Through builders, normalization, planning, the indexes, the overlay and *)
(* the evaluator, a rule finds exactly the facts it means, under the kind  *)
(* and symbol its author gave, except where KnownDivergence says why not.  *)
PlanIsExact == phase = "matched" /\ ~KnownDivergence => Found = Meant

Passes(text, constraints, index) ==
  \A c \in constraints :
    c.index = index => ArgumentMatches(c.matcher, [is |-> "static", text |-> text])
OnlyExactOrPrefix(constraints) == \A c \in constraints : c.matcher.test \in {"Exact", "Prefix"}

(* A query is refused as contradictory only when no argument could satisfy *)
(* it (contradiction.rs), and one of exact and prefix tests is refused     *)
(* whenever no argument could.                                             *)
ContradictionIsExact ==
  phase = "authoring" =>
    \A q \in LeafSelections :
      LET impossible == \E i \in {c.index : c \in q.constraints} :
                          ~ \E text \in Texts : Passes(text, q.constraints, i)
      IN  /\ ArgumentsContradict(q.constraints) => impossible
          /\ impossible /\ OnlyExactOrPrefix(q.constraints) => ArgumentsContradict(q.constraints)

\* What the builders accept and only the compiler refuses, beyond what it
\* alone can tell; the README says where each comes from.
LifecycleInAny(expr) == expr.form = "Any" /\ \E l \in Leaves(expr) : l.form = "Lifecycle"
ConjoinedMemberArguments(expr) ==
  /\ expr.form = "All"
  /\ Conjoined(expr.branches).constraints # {}
  /\ VariableType(Conjoined(expr.branches).event) # "CallEvent"
MixedSources(expr) ==
  /\ expr.form = "Lifecycle"
  /\ Cardinality({VariableType(s.event) : s \in expr.lifecycle.sources}) > 1
KnownRefusal(expr) ==
  \/ DropsBranch(expr) \/ LifecycleInAny(expr)
  \/ \E l \in Leaves(expr) : ConjoinedMemberArguments(l) \/ MixedSources(l)

(* A rule the builders accepted is turned down by the compiler only for    *)
(* what no builder can see: a contradiction, a lifecycle source it cannot  *)
(* track, or too many roots.  Every type, scope and correlation check of   *)
(* the compiler is thus already ensured by the builders.                   *)
AcceptedCompiles ==
  phase = "rejected" =>
    \/ error \in {"ContradictoryPredicate", "InvalidLifecycle", "InvalidPhysicalPlan"}
    \/ \E d \in Range(decls) : KnownRefusal(d.expression)

(* The report keeps the earliest occurrences of every group, its count is  *)
(* no smaller than what was found, and whatever it leaves out, in a group  *)
(* or as a whole group, every group concerned says so (evidence.rs).       *)
TruncationAnnounced ==
  phase = "reported" =>
    LET raw(g) == {f[3] : f \in {e \in Found : e[1] = g.kind /\ e[2] = g.symbol}}
        shown == {<<g.kind, g.symbol>> : g \in report}
        missing == {<<f[1], f[2]>> : f \in Found} \ shown
    IN  /\ \A g \in report :
             /\ g.occurrences # {} /\ g.occurrences \subseteq raw(g)
             /\ g.count >= Cardinality(raw(g))
             /\ \A o \in g.occurrences, left \in raw(g) \ g.occurrences : o < left
             /\ g.occurrences # raw(g) \/ missing # {} => g.truncated
        /\ missing # {} => Cardinality(report) = EvidenceLimit
        /\ \A g \in report, m \in missing :
             Min(g.occurrences) <= Min({f[3] : f \in {e \in Found : <<e[1], e[2]>> = m}})

(* What the compiled plan reports is what the query asked for, and what its  *)
(* limits leave out is announced.                                          *)
ReportIsExact == PlanIsExact /\ TruncationAnnounced

(* A query is refused only for cause: by the builders what could not be typed, *)
(* by the compiler what no argument could satisfy or no builder could see.   *)
RefusalsAreJust == ContradictionIsExact /\ AcceptedCompiles

=============================================================================
