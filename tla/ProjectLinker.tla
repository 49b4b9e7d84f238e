--------------------------- MODULE ProjectLinker ---------------------------
(***************************************************************************)
(* The project linker of glass-lint-core: it builds the graph of internal  *)
(* module requests, resolves the exports of every module to an identity,   *)
(* dependencies first and a cycle by rounds, and then diagnoses imports of *)
(* names their target does not export.  Lookups go through star exports    *)
(* and are memoized in a cache that is never invalidated.                  *)
(*                                                                         *)
(* The recursion of `lookup_export_inner` is the explicit stack `stack`:   *)
(* one frame for each module export whose star exports are being walked.   *)
(***************************************************************************)
EXTENDS Integers, FiniteSets, Sequences, SequencesExt

CONSTANTS
  Modules,            \* module ids, numbers in the order the linker visits them
  Names,              \* export names, numbers in the order of the export maps
  Default, Star,      \* the name `default`, and the namespace export `*`
  Packages,           \* external packages and the specifiers that name them
  InternalSpecifiers, \* specifiers that can only mean a file: `.`, `/` or `#`
  Programs,           \* the linker inputs considered
  MaxRequests,        \* requests of a module, a bound of the model
  CacheCapacity, MaxExportDepth, MaxSccSize,
  Absent, Miss,       \* no value; not in the lookup cache
  Unknown, Ambiguous, Unresolvable

Ids == Modules \X Names
(* Definite identities: qualified to a project module, or to an external module. *)
Identities == [module : Modules \cup Packages \cup InternalSpecifiers, export : Names \cup {Star}]
Resolutions == Identities \cup {Unknown, Ambiguous}

ASSUME LinkerConstants ==
  /\ IsFiniteSet(Modules) /\ Modules \subseteq Nat
  /\ IsFiniteSet(Names) /\ Names \subseteq Nat
  /\ MaxRequests \in Nat
  /\ CacheCapacity \in Nat /\ MaxExportDepth \in Nat /\ MaxSccSize \in Nat \ {0}
  /\ {Absent, Miss} \cap Resolutions = {} /\ Absent # Miss
  /\ {Unknown, Ambiguous} \cap Identities = {} /\ Unknown # Ambiguous
  /\ {Absent, Unresolvable} \cap (Modules \cup Packages) = {} /\ Absent # Unresolvable
  /\ Modules \cap Packages = {} /\ Star \notin Names

(* What the export map of an interface may hold for a name.                *)
ExportForms ==
  [kind : {"Direct"}, value : Identities \cup {Unknown}]
    \cup [kind : {"Namespace"}, request : 1..MaxRequests]
    \cup [kind : {"ReExport"}, request : 1..MaxRequests, imported : Names]
    \cup [kind : {"Imported"}, spec : Packages \cup InternalSpecifiers, imported : Names]

(* The inputs are numbered as the constants say, and name only each other. *)
ASSUME ProgramsAssumption ==
  \A p \in Programs :
    /\ p.linkLimit \in Nat
    /\ \A q \in DOMAIN p.target : p.target[q] \in Modules \cup Packages \cup {Unresolvable}
    /\ \A m \in Modules :
         /\ DOMAIN p.interface[m].requests \subseteq 1..MaxRequests
         /\ DOMAIN p.interface[m].exports \subseteq Names
         /\ \A n \in DOMAIN p.interface[m].exports : p.interface[m].exports[n] \in ExportForms
         /\ p.interface[m].unknown => DOMAIN p.interface[m].exports = {}

VARIABLES
  program,     \* modules, resolutions and the link limit
  pc,
  edges,       \* the normalized graph
  components,  \* its strongly connected components
  settled,     \* modules whose component has been resolved
  component, rounds, changed, \* the component under resolution and its rounds
  work,        \* exports left in this pass
  goal,        \* the resolution of one of them
  query,       \* the export being looked up
  stack,       \* lookups suspended in a star export
  table,       \* the export table
  cache,       \* the lookup cache
  exhausted,   \* the link budget
  checks, check, missing, ambiguous \* imports to validate, the present one, those found wrong

graphVars == <<edges, components>>
passVars == <<settled, component, rounds, changed, work>>
validation == <<checks, check, missing, ambiguous>>
vars == <<program, pc, graphVars, passVars, goal, query, stack, table, cache, exhausted,
          validation>>

(***************************************************************************)
(* The input.  An interface has authored requests, explicit exports, and   *)
(* star exports; when its shape is unknown it has no exports at all.  A    *)
(* target is a module, a package, or one of the unresolvable outcomes.     *)
(***************************************************************************)
Interface(m) == program.interface[m]
Requests(m) == Interface(m).requests
Exports(m) == Interface(m).exports
Explicit == {id \in Ids : id[2] \in DOMAIN Exports(id[1])}

RequestsIn(m, roles) == {i \in DOMAIN Requests(m) : Requests(m)[i].role \in roles}

StarExports(m) == IF Interface(m).unknown THEN {} ELSE RequestsIn(m, {"StarExport"})

(* Requests and exports are taken in the order of the code; the order of the *)
(* names one request imports is open.                                        *)
Precedes(q, r) == q[1] < r[1] \/ (q[1] = r[1] /\ q[2] < r[2])

Target(m, i) ==
  IF <<m, i>> \in DOMAIN program.target THEN program.target[<<m, i>>] ELSE Absent

(* A target other than an internal export lookup, as an identity. *)
TargetIdentity(t, name) ==
  IF t = Unresolvable THEN Unknown ELSE [module |-> t, export |-> name]

(* What an answer of None means for a name authored with a specifier. *)
SpecifierIdentity(spec, name) ==
  IF spec \in InternalSpecifiers THEN Unknown ELSE [module |-> spec, export |-> name]

----------------------------------------------------------------------------
(* The graph: internal targets in module and request order, within the budget. *)
InternalRequests ==
  {q \in Modules \X (1..MaxRequests) : Target(q[1], q[2]) \in Modules}

RetainedEdges ==
  {<<q[1], Target(q[1], q[2])>> : q \in
     {r \in InternalRequests :
        Cardinality({s \in InternalRequests : Precedes(s, r)}) < program.linkLimit}}

(* The modules in every set that holds m and what its members import. *)
Reachable(g, m) ==
  {n \in Modules : \A S \in SUBSET Modules :
     m \in S /\ (\A e \in g : e[1] \in S => e[2] \in S) => n \in S}

StronglyConnected(g) ==
  {{n \in Modules : n \in Reachable(g, m) /\ m \in Reachable(g, n)} : m \in Modules}

CollectEdges ==
  /\ pc = "graph"
  /\ \E g \in {RetainedEdges} : edges' = g /\ components' = StronglyConnected(g)
  /\ LET oversized == \E c \in components' : Cardinality(c) > MaxSccSize
     IN  /\ exhausted' = (oversized \/ Cardinality(InternalRequests) > program.linkLimit)
         /\ pc' = IF oversized THEN "done" ELSE "component"
  /\ UNCHANGED <<program, passVars, goal, query, stack, table, cache, validation>>

----------------------------------------------------------------------------
(* One pass resolves the exports of a component, by module and name. *)
ExportsOf(c) == {id \in Explicit : id[1] \in c}

(* Mutant: the topological order is not reversed. *)
DependentsSettled(c) == \A e \in edges : e[2] \in c => e[1] \in c \cup settled

(* A component is resolved after all the components it depends on. *)
DependenciesSettled(c) == \A e \in edges : e[1] \in c => e[2] \in c \cup settled

StartComponent(c) ==
  /\ pc = "component"
  /\ c \cap settled = {}
  /\ DependenciesSettled(c)
  /\ component' = c
  /\ work' = ExportsOf(c)
  /\ rounds' = 1
  /\ changed' = FALSE
  /\ pc' = "export"
  /\ UNCHANGED <<program, graphVars, settled, goal, query, stack, table, cache, exhausted,
                 validation>>

(* A resolution asks the pending requests in order; all of them must agree. *)
Asking(id, pending, name, fallback) ==
  [id |-> id, pending |-> pending, name |-> name, fallback |-> fallback, value |-> Absent]
Resolved(id, v) ==
  [id |-> id, pending |-> {}, name |-> Star, fallback |-> Unknown, value |-> v]

RequestsFor(m, spec) ==
  {i \in RequestsIn(m, {"Import", "Require"}) : Requests(m)[i].spec = spec}

GoalOf(id) ==
  LET m == id[1]
      e == Exports(m)[id[2]]
  IN  CASE e.kind = "Direct" -> Resolved(id, e.value)
        [] e.kind = "Namespace" ->
             Resolved(id, IF Target(m, e.request) = Absent THEN Unknown
                          ELSE TargetIdentity(Target(m, e.request), Star))
        [] e.kind = "ReExport" -> Asking(id, {e.request}, e.imported, Unknown)
        [] e.kind = "Imported" /\ RequestsFor(m, e.spec) = {} ->
             Resolved(id, [module |-> e.spec, export |-> e.imported])
        [] e.kind = "Imported" /\ RequestsFor(m, e.spec) # {} ->
             Asking(id, RequestsFor(m, e.spec), e.imported,
                    SpecifierIdentity(e.spec, e.imported))

OpenExport(id) ==
  /\ pc = "export"
  /\ id \in work
  /\ \A other \in work : ~Precedes(other, id)
  /\ goal' = GoalOf(id)
  /\ pc' = "request"
  /\ UNCHANGED <<program, graphVars, passVars, query, stack, table, cache, exhausted, validation>>

(* The next request of a set, and what is left after it. *)
IsNext(i, requests) == i \in requests /\ \A j \in requests : i <= j
After(requests) == {i \in requests : ~IsNext(i, requests)}

(* The answer of one request joins those before it. *)
WithAnswer(g, a) ==
  LET v == IF a = Absent THEN g.fallback ELSE a
  IN  IF g.value \in {Absent, v}
      THEN [g EXCEPT !.pending = After(@), !.value = v]
      ELSE [g EXCEPT !.pending = {}, !.value = Unknown]

AskRequest(i) ==
  /\ pc = "request"
  /\ IsNext(i, goal.pending)
  /\ LET t == Target(goal.id[1], i)
     IN  IF t \in Modules
         THEN /\ query' = <<t, goal.name>>
              /\ pc' = "lookup"
              /\ UNCHANGED goal
         ELSE /\ goal' = WithAnswer(goal, IF t = Absent THEN Absent
                                          ELSE TargetIdentity(t, goal.name))
              /\ UNCHANGED <<query, pc>>
  /\ UNCHANGED <<program, graphVars, passVars, stack, table, cache, exhausted, validation>>

Entered == {id \in Ids : table[id] # Absent}

(* A new entry needs room in the table; an old one is replaced. *)
HasRoom(id) == table[id] # Absent \/ Cardinality(Entered) < program.linkLimit

SetExport ==
  /\ pc = "request"
  /\ goal.pending = {}
  /\ IF HasRoom(goal.id)
     THEN /\ table' = [table EXCEPT ![goal.id] = goal.value]
          /\ changed' = (changed \/ table[goal.id] # goal.value)
          /\ UNCHANGED exhausted
     ELSE /\ exhausted' = TRUE
          /\ UNCHANGED <<table, changed>>
  /\ work' = work \ {goal.id}
  /\ pc' = "export"
  /\ UNCHANGED <<program, graphVars, settled, component, rounds, goal, query, stack, cache,
                 validation>>

IsCycle == Cardinality(component) > 1
RoundBound == Cardinality(component) + 1

PassEnded == pc = "export" /\ work = {}

(* Mutant: `changed` and `rounds` are set before the loop instead of in it. *)
NextRoundUncounted ==
  /\ PassEnded
  /\ IsCycle /\ changed /\ rounds < RoundBound
  /\ work' = ExportsOf(component)
  /\ UNCHANGED <<program, pc, graphVars, settled, component, rounds, changed, goal, query,
                 stack, table, cache, exhausted, validation>>

NextRound ==
  /\ PassEnded
  /\ IsCycle /\ changed /\ rounds < RoundBound
  /\ work' = ExportsOf(component)
  /\ rounds' = rounds + 1
  /\ changed' = FALSE
  /\ UNCHANGED <<program, pc, graphVars, settled, component, goal, query, stack, table, cache,
                 exhausted, validation>>

SettleComponent ==
  /\ settled' = settled \cup component
  /\ pc' = "component"
  /\ UNCHANGED <<program, graphVars, component, rounds, changed, work, goal, query, stack,
                 cache, validation>>

(* The exports a cycle loses when its rounds run out. *)
GivenUp == {id \in Explicit : id[1] \in component /\ table[id] # Absent}

GiveUp ==
  /\ PassEnded
  /\ IsCycle /\ changed /\ rounds >= RoundBound
  /\ table' = [id \in Ids |-> IF id \in GivenUp THEN Unknown ELSE table[id]]
  /\ exhausted' = TRUE
  /\ SettleComponent

Settle ==
  /\ PassEnded
  /\ ~IsCycle \/ ~changed
  /\ UNCHANGED <<table, exhausted>>
  /\ SettleComponent

----------------------------------------------------------------------------
(***************************************************************************)
(* Lookup of one export.  Deliver hands an answer to the frame that asked  *)
(* for it, or to the resolution or validation that started the lookup.     *)
(***************************************************************************)
(* A star export agrees with the ones before it, or the name is ambiguous. *)
WithContribution(f, a) ==
  IF a = Absent THEN [f EXCEPT !.stars = After(@), !.unresolved = TRUE]
  ELSE IF f.value \in {Absent, a} THEN [f EXCEPT !.stars = After(@), !.value = a]
  ELSE [f EXCEPT !.stars = {}, !.value = Ambiguous, !.unresolved = FALSE]

Deliver(a, callers) ==
  \/ /\ callers # <<>>
     /\ stack' = [callers EXCEPT ![Len(callers)] = WithContribution(@, a)]
     /\ pc' = "star"
     /\ UNCHANGED <<goal, validation>>
  \/ /\ callers = <<>> /\ work # {}
     /\ stack' = <<>>
     /\ goal' = WithAnswer(goal, a)
     /\ pc' = "request"
     /\ UNCHANGED validation
  \/ /\ callers = <<>> /\ work = {}
     /\ stack' = <<>>
     /\ missing' = IF a = Absent THEN missing \cup {check} ELSE missing
     /\ ambiguous' = IF a = Ambiguous THEN ambiguous \cup {check} ELSE ambiguous
     /\ checks' = checks \ {check}
     /\ pc' = "check"
     /\ UNCHANGED <<goal, check>>

unchangedByLookup == <<program, graphVars, passVars, query, table, exhausted>>

Visiting == {stack[i].id : i \in DOMAIN stack}
MayEnter(id) == Len(stack) < MaxExportDepth /\ id \notin Visiting

(* The table, then the cache, then the bounds on the recursion. *)
AnswerAtOnce ==
  /\ pc = "lookup"
  /\ \/ table[query] # Absent /\ Deliver(table[query], stack)
     \/ table[query] = Absent /\ cache[query] # Miss /\ Deliver(cache[query], stack)
     \/ table[query] = Absent /\ cache[query] = Miss
        /\ ~MayEnter(query) /\ Deliver(Absent, stack)
  /\ UNCHANGED <<unchangedByLookup, cache>>

HasStarWalk(id) == id[2] # Default /\ ~Interface(id[1]).unknown

(* `default` is never taken from a star export; an unknown interface stays unknown. *)
AnswerWithoutWalk ==
  /\ pc = "lookup"
  /\ table[query] = Absent /\ cache[query] = Miss /\ MayEnter(query)
  /\ ~HasStarWalk(query)
  /\ Deliver(IF query[2] = Default THEN Absent ELSE Unknown, stack)
  /\ UNCHANGED <<unchangedByLookup, cache>>

Enter ==
  /\ pc = "lookup"
  /\ table[query] = Absent /\ cache[query] = Miss /\ MayEnter(query)
  /\ HasStarWalk(query)
  /\ stack' = Append(stack, [id |-> query, stars |-> StarExports(query[1]),
                             value |-> Absent, unresolved |-> FALSE])
  /\ pc' = "star"
  /\ UNCHANGED <<unchangedByLookup, cache, goal, validation>>

AskStar(i) ==
  /\ pc = "star"
  /\ LET f == Last(stack)
         t == Target(f.id[1], i)
     IN  /\ IsNext(i, f.stars)
         /\ IF t \in Modules
            THEN query' = <<t, f.id[2]>> /\ pc' = "lookup" /\ UNCHANGED stack
            ELSE /\ stack' = [stack EXCEPT ![Len(stack)] =
                       WithContribution(f, IF t = Absent THEN Absent
                                           ELSE TargetIdentity(t, f.id[2]))]
                 /\ UNCHANGED <<query, pc>>
  /\ UNCHANGED <<program, graphVars, passVars, goal, table, cache, exhausted, validation>>

Cached == {id \in Ids : cache[id] # Miss}

WalkAnswer(f) == IF f.unresolved THEN Absent ELSE f.value

Leave ==
  /\ pc = "star"
  /\ LET f == Last(stack)
     IN  /\ f.stars = {}
         /\ cache' = IF Cardinality(Cached) >= CacheCapacity THEN cache
                     ELSE [cache EXCEPT ![f.id] = WalkAnswer(f)]
         /\ Deliver(WalkAnswer(f), Front(stack))
  /\ UNCHANGED unchangedByLookup

----------------------------------------------------------------------------
(* After linking, every named import from a project module is looked up. *)
ImportChecks ==
  {c \in Modules \X (1..MaxRequests) \X Names :
     /\ c[2] \in RequestsIn(c[1], {"Import"})
     /\ Target(c[1], c[2]) \in Modules
     /\ c[3] \in Requests(c[1])[c[2]].names}

StartValidation ==
  /\ pc = "component"
  /\ settled = Modules
  /\ checks' = ImportChecks
  /\ pc' = "check"
  /\ UNCHANGED <<program, graphVars, passVars, goal, query, stack, table, cache, exhausted,
                 check, missing, ambiguous>>

CheckImport(c) ==
  /\ pc = "check"
  /\ c \in checks
  /\ \A other \in checks : ~Precedes(other, c)
  /\ check' = c
  /\ query' = <<Target(c[1], c[2]), c[3]>>
  /\ pc' = "lookup"
  /\ UNCHANGED <<program, graphVars, passVars, goal, stack, table, cache, exhausted,
                 checks, missing, ambiguous>>

FinishLink ==
  /\ pc = "check"
  /\ checks = {}
  /\ pc' = "done"
  /\ UNCHANGED <<program, graphVars, passVars, goal, query, stack, table, cache, exhausted,
                 validation>>

----------------------------------------------------------------------------
(***************************************************************************)
(* The namespace overlay: what the matcher takes the members of a namespace *)
(* import for, by export name; under Star what it takes all others for.    *)
(***************************************************************************)
(* A fault: the first star export to name a member keeps it. *)
MergeStarFirstWins(merged, entries) ==
  [k \in DOMAIN merged \cup DOMAIN entries |->
     IF k \in DOMAIN merged THEN merged[k] ELSE entries[k]]

(* merge_star_from: star exports that disagree make a member ambiguous. *)
MergeStar(merged, entries) ==
  [k \in DOMAIN merged \cup DOMAIN entries |->
     IF k \notin DOMAIN entries THEN merged[k]
     ELSE IF k \notin DOMAIN merged THEN entries[k]
     ELSE IF merged[k] \in {entries[k], Ambiguous} THEN merged[k] ELSE Ambiguous]

DirectEntries(m) == [n \in {k \in Names : table[<<m, k>>] # Absent} |-> table[<<m, n>>]]

(* Only star exports of project modules are followed; what the module exports *)
(* itself comes before what they bring.                                     *)
ExportedIdentities(m) ==
  LET From[k \in Modules, visiting \in SUBSET Modules] ==
        IF Cardinality(visiting) >= MaxExportDepth \/ k \in visiting
        THEN [n \in {Star} |-> Unknown]
        ELSE LET direct == DirectEntries(k)
                 stars == FoldLeft(LAMBDA merged, i :
                            IF i \in StarExports(k) /\ Target(k, i) \in Modules
                            THEN MergeStar(merged, From[Target(k, i), visiting \cup {k}])
                            ELSE merged,
                            <<>>, [i \in DOMAIN Requests(k) |-> i])
             IN  [n \in DOMAIN direct \cup DOMAIN stars |->
                    IF n \in DOMAIN direct THEN direct[n] ELSE stars[n]]
  IN  From[m, {}]

(* A namespace that is no project module is taken as a whole. *)
NamespaceIdentities(t) ==
  IF t \in Modules THEN ExportedIdentities(t)
  ELSE [k \in {Star} |-> TargetIdentity(t, Star)]

Terminated == pc = "done" /\ UNCHANGED vars

Init ==
  /\ program \in Programs
  /\ pc = "graph"
  /\ edges = {} /\ components = {}
  /\ settled = {} /\ component = {} /\ rounds = 0 /\ changed = FALSE /\ work = {}
  /\ goal = Resolved(Absent, Absent)
  /\ query = Absent
  /\ stack = <<>>
  /\ table = [id \in Ids |-> Absent]
  /\ cache = [id \in Ids |-> Miss]
  /\ exhausted = FALSE
  /\ checks = {} /\ check = Absent /\ missing = {} /\ ambiguous = {}

Next ==
  \/ CollectEdges
  \/ \E c \in components : StartComponent(c)
  \/ \E id \in work : OpenExport(id)
  \/ \E i \in 1..MaxRequests : AskRequest(i) \/ AskStar(i)
  \/ SetExport
  \/ NextRound \/ GiveUp \/ Settle
  \/ AnswerAtOnce \/ AnswerWithoutWalk \/ Enter \/ Leave
  \/ StartValidation
  \/ \E c \in checks : CheckImport(c)
  \/ FinishLink
  \/ Terminated

Spec == Init /\ [][Next]_vars

(* The linker runs on its caller's thread and never waits. *)
FairSpec == Spec /\ WF_vars(Next)
----------------------------------------------------------------------------
(***************************************************************************)
(* What a name means: the values at the ends of all the paths its export   *)
(* is reached by, whatever the order they are walked in.                   *)
(***************************************************************************)
(* The requests the meaning of an export comes from, with the name asked for. *)
Sources(id) ==
  LET m == id[1]
      e == Exports(m)[id[2]]
  IN  IF id \in Explicit
      THEN IF e.kind = "ReExport" THEN {<<e.request, e.imported>>}
           ELSE IF e.kind = "Imported" THEN RequestsFor(m, e.spec) \X {e.imported} ELSE {}
      ELSE IF id[2] = Default THEN {} ELSE StarExports(m) \X {id[2]}

(* The exports of project modules among them. *)
NextIds(id) ==
  {<<Target(id[1], s[1]), s[2]>> : s \in {r \in Sources(id) : Target(id[1], r[1]) \in Modules}}

(* The values that come from anywhere else. *)
Ends(id) ==
  LET m == id[1]
      e == Exports(m)[id[2]]
      absent == IF id \in Explicit /\ e.kind = "Imported"
                THEN SpecifierIdentity(e.spec, e.imported) ELSE Unknown
      outside == {s \in Sources(id) : Target(m, s[1]) \notin Modules}
  IN  {IF Target(m, s[1]) = Absent THEN absent ELSE TargetIdentity(Target(m, s[1]), s[2])
         : s \in outside}
      \cup (IF id \in Explicit /\ GoalOf(id).pending = {} THEN {GoalOf(id).value} ELSE {})
      \cup (IF Interface(m).unknown /\ id[2] # Default THEN {Unknown} ELSE {})

Paths(id) ==
  LET Within[n \in Nat] ==
        IF n = 0 THEN {id}
        ELSE LET near == Within[n - 1] IN near \cup UNION {NextIds(j) : j \in near}
  IN  Within[Cardinality(Ids)]

Meaning(id) == UNION {Ends(j) : j \in Paths(id)}

(* Every path leads on or to a value, and all of them to the same one.     *)
Leads(id) == \A j \in Paths(id) : Ends(j) # {} \/ NextIds(j) # {}
Determined(id) == Leads(id) /\ \E v \in Meaning(id) : Meaning(id) = {v}

----------------------------------------------------------------------------
Goals ==
  [id : Ids \cup {Absent}, pending : SUBSET (1..MaxRequests), name : Names \cup {Star},
   fallback : Resolutions, value : Resolutions \cup {Absent}]

Frames ==
  [id : Ids, stars : SUBSET (1..MaxRequests), value : Resolutions \cup {Absent},
   unresolved : BOOLEAN]

(* Every variable holds what the linker's types allow. *)
TypeOK ==
  /\ pc \in {"graph", "component", "export", "request", "lookup", "star", "check", "done"}
  /\ edges \subseteq Modules \X Modules
  /\ components \subseteq SUBSET Modules
  /\ settled \subseteq Modules /\ component \subseteq Modules
  /\ rounds \in Nat /\ changed \in BOOLEAN /\ work \subseteq Ids
  /\ goal \in Goals
  /\ query \in Ids \cup {Absent}
  /\ stack \in Seq(Frames)
  /\ table \in [Ids -> Resolutions \cup {Absent}]
  /\ cache \in [Ids -> Resolutions \cup {Absent, Miss}]
  /\ exhausted \in BOOLEAN
  /\ checks \subseteq Modules \X (1..MaxRequests) \X Names
  /\ check \in (Modules \X (1..MaxRequests) \X Names) \cup {Absent}
  /\ missing \cup ambiguous \subseteq Modules \X (1..MaxRequests) \X Names

(* An export that the linker follows to the end of every path: through no cycle, *)
(* and through no alias of a module: those fall back to the specifier.           *)
InNoCycle(m) == {m} \in components /\ <<m, m>> \notin edges

AliasOfModule(j) ==
  /\ j \in Explicit /\ Exports(j[1])[j[2]].kind = "Imported"
  /\ LET spec == Exports(j[1])[j[2]].spec
     IN  spec \notin InternalSpecifiers
         /\ \E i \in RequestsFor(j[1], spec) : Target(j[1], i) \in Modules

Followed(id) ==
  LET modules == {j[1] : j \in Paths(id)}
  IN  /\ \A m \in modules : InNoCycle(m)
      /\ ~\E j \in Paths(id) : AliasOfModule(j)

Proven(id) ==
  /\ table[id] \in Identities => Meaning(id) = {table[id]}
  /\ cache[id] \in Identities /\ table[id] = Absent => Meaning(id) = {cache[id]}

(* No chain of star exports in the project is longer than a lookup may be deep.  *)
(* A lookup cut short there is remembered, and answers later ones that were not. *)
DepthSuffices == Cardinality({m \in Modules : StarExports(m) # {}}) <= MaxExportDepth

(* Modules in no cycle are resolved in their one pass, in whatever order the    *)
(* linker takes the components, whatever it remembers in between and however    *)
(* soon the cache is full.  A definite identity in the table or the cache is    *)
(* the only thing the name can mean: no star export, no other request and no    *)
(* unresolved module could give it another value.  And an export all of whose   *)
(* paths lead to one value has that value, when no lookup can get too deep.     *)
AcyclicIsExact ==
  pc = "done" /\ ~exhausted =>
    \A id \in {i \in Ids : Followed(i)} :
      /\ Proven(id)
      /\ DepthSuffices /\ id \in Explicit /\ Determined(id) => Meaning(id) = {table[id]}

(* The modules a namespace gathers members from, and its longest chain of stars. *)
StarTargets(m) == {Target(m, i) : i \in StarExports(m)}
StarChains(m) ==
  LET OfLength[n \in Nat] ==
        IF n <= 1 THEN {<<m>>}
        ELSE UNION {{Append(c, t) : t \in (StarTargets(Last(c)) \cap Modules) \ ToSet(c)}
                    : c \in OfLength[n - 1]}
  IN  UNION {OfLength[n] : n \in 1..Cardinality(Modules)}
Gathered(m) == UNION {ToSet(c) : c \in StarChains(m)}

(* The overlay leaves star exports of packages out, and an unknown interface has *)
(* none; a chain may be as long as a lookup may be deep.                         *)
Closed(m) ==
  /\ \A n \in Gathered(m) : ~Interface(n).unknown /\ StarTargets(n) \subseteq Modules
  /\ \A c \in StarChains(m) : Len(c) <= MaxExportDepth

(* The members of a namespace are what star exports in any arrangement make them, *)
(* cycles of them included, as far as the export table is right about what the    *)
(* modules export themselves.  A definite member is the only thing its name can   *)
(* mean, a name that means one thing has it, and no member that there is is       *)
(* missing: it is named or, with all that were not looked for, unknown.           *)
NamespaceIsExact ==
  pc = "done" /\ ~exhausted =>
    \A m \in {k \in Modules : Closed(k)} : \A members \in {NamespaceIdentities(m)} :
      \A n \in Names \ {Default} :
        LET id == <<m, n>>
            roots == {j \in Paths(id) \cap Explicit :
                        j[2] = n /\ (j = id \/ (id \notin Explicit /\ j[1] \in Gathered(m)))}
            known == \A r \in roots : table[r] \in Identities => Meaning(r) = {table[r]}
        IN  /\ known /\ n \in DOMAIN members /\ members[n] \in Identities =>
                 Meaning(id) = {members[n]}
            /\ Meaning(id) # {} => n \in DOMAIN members \/ Star \in DOMAIN members
            /\ (\A r \in roots : Determined(r) /\ Meaning(r) = {table[r]})
                 /\ Cardinality(Meaning(id)) = 1 =>
                 n \in DOMAIN members /\ Meaning(id) = {members[n]}

(* Linking ends, cyclic re-exports included. *)
EveryLinkEnds == <>(pc = "done")

=============================================================================
