--------------------------- MODULE QueryMatching ---------------------------
(***************************************************************************)
(* Matching a compiled plan against one file                               *)
(* (src/glass-lint-core/src/analysis/matching): the occurrence indexes     *)
(* built from the file's facts, the overlay that the linker's identities   *)
(* lay over the module indexes, the lookup of every kind of root, the      *)
(* evaluator of argument constraints, and the normalization of evidence.   *)
(*                                                                         *)
(* A file is a sequence of facts; a fact's position is its FactId and      *)
(* stands for its span.  An index is the set of its entries, records that  *)
(* say in which index, under which key, which fact is found; this is what  *)
(* sorting and deduplicating the buckets leaves.  Module keys are pairs of *)
(* a module and an export.                                                 *)
(***************************************************************************)
EXTENDS QueryCompiler

CONSTANTS
  GlobalObjects,  \* Environment: the names of the global object (window, ...)
  GlobalMembers,  \* Environment: the members promoted to global names
  EvidenceLimit   \* how many occurrences, and groups, a report shows

ASSUME EvidenceAssumption == EvidenceLimit \in Nat \ {0}

NoResolution == [is |-> "none", module |-> <<>>, export |-> <<>>]
Wildcard == <<"*">>

\* A fact with nothing recorded; facts of a file change the fields they have.
NoFact(kind) ==
  [kind |-> kind, name |-> <<>>, path |-> <<>>, rooted |-> <<>>, unwrapped |-> <<>>,
   global |-> <<>>, export |-> <<>>, member |-> <<>>, returned |-> <<>>, instance |-> <<>>,
   args |-> <<>>, text |-> <<>>, declaration |-> FALSE]

-----------------------------------------------------------------------------
(* Building the indexes: build.rs, one operator per kind of fact.          *)

At(index, key, id) == {[index |-> index, key |-> key, id |-> id]}
AtIf(index, key, id) == IF key = <<>> THEN {} ELSE At(index, key, id)

\* record_module_call: both call indexes learn of the module member.
ModuleCall(key, id) == AtIf("moduleCalls", key, id) \union AtIf("memberModuleCalls", key, id)

RecordCallPaths(fact, id) ==
  UNION {AtIf("calls by path", fact.path, id), AtIf("rootedCalls", fact.rooted, id),
         ModuleCall(fact.member, id), AtIf("returnedCalls", fact.returned, id),
         IF fact.instance # <<>> /\ fact.path # <<>>
         THEN At("instanceCalls", Append(fact.instance, Last(fact.path)), id) ELSE {}}

RecordCallSpecialCases(fact, id) ==
  AtIf("calls by path", fact.unwrapped, id) \union AtIf("rootedCalls", fact.unwrapped, id)

RecordCall(fact, id) ==
  UNION {AtIf("calls by name", fact.name, id), AtIf("globalCalls", fact.global, id),
         ModuleCall(fact.export, id), RecordCallPaths(fact, id), RecordCallSpecialCases(fact, id)}

RecordMemberRead(fact, id) ==
  UNION {AtIf("reads by path", fact.path, id), AtIf("rootedReads", fact.rooted, id),
         AtIf("moduleReads", fact.member, id), AtIf("returnedReads", fact.returned, id)}

RecordConstruction(fact, id) ==
  UNION {AtIf("constructors by name", fact.name, id), AtIf("rootedConstructors", fact.rooted, id),
         AtIf("globalConstructors", fact.global, id), AtIf("moduleConstructors", fact.export, id)}

RecordFact(fact, id) ==
  CASE fact.kind = "Call" -> RecordCall(fact, id)
    [] fact.kind = "MemberRead" -> RecordMemberRead(fact, id)
    [] fact.kind = "PropertyWrite" -> AtIf("rootedWrites", fact.rooted, id)
    [] fact.kind = "Construction" -> RecordConstruction(fact, id)
    [] fact.kind = "Import" -> AtIf("imports", fact.text, id)
    [] fact.kind = "Reference" -> AtIf("strings", fact.text, id)
    [] fact.kind = "Class" ->
         AtIf("classes", fact.name, id)
           \union (IF fact.declaration THEN {} ELSE AtIf("moduleClasses", fact.export, id))
    [] OTHER -> {}

BuildFromStream(file) == UNION {RecordFact(file[id], id) : id \in DOMAIN file}

Bucket(indexes, index, key) == {e.id : e \in {f \in indexes : f.index = index /\ f.key = key}}

-----------------------------------------------------------------------------
(* The overlay: what the linker found out about the names a file imports.  *)
(* identities maps a module key to what it resolves to; a wildcard entry   *)
(* speaks for every export of its module that has no entry of its own.     *)

ModuleIndexes ==
  {"moduleCalls", "memberModuleCalls", "moduleReads", "moduleClasses", "moduleConstructors"}

IdentityFor(identities, key) ==
  LET any == <<key[1], Wildcard>>
  IN  IF key \in DOMAIN identities THEN identities[key]
      ELSE IF any \notin DOMAIN identities THEN NoResolution
      ELSE IF identities[any].is = "External"
      THEN [identities[any] EXCEPT !.export = key[2]]
      ELSE identities[any]

\* ModuleOccurrenceOverlay::remap over the five module indexes.
BuildOverlay(indexes, identities) ==
  LET entries == {e \in indexes : e.index \in ModuleIndexes
                                  /\ IdentityFor(identities, e.key) # NoResolution}
      target(e) == IdentityFor(identities, e.key)
  IN  [masked |-> {e.key : e \in entries},
       buckets |-> {[index |-> e.index, key |-> <<target(e).module, target(e).export>>, id |-> e.id] :
                      e \in {f \in entries : target(f).is = "External"}},
       globals |-> {[key |-> target(e).export, id |-> e.id] :
                      e \in {f \in entries : f.index = "moduleCalls" /\ target(f).is = "Global"}}]

ResolveModuleUnmasked(indexes, overlay, index, key) ==
  LET moved == Bucket(overlay.buckets, index, key)
  IN  IF moved # {} THEN moved ELSE Bucket(indexes, index, key)

ResolveModule(indexes, overlay, index, key) ==
  LET moved == Bucket(overlay.buckets, index, key)
  IN  IF moved # {} THEN moved
      ELSE IF key \in overlay.masked THEN {} ELSE Bucket(indexes, index, key)

\* A package pattern matches every specifier below it.
PackageMatches(pattern, module) == IsPrefix(pattern, module)

(* resolve_package: with no bucket of this kind the overlay is left aside, *)
(* and its mask with it.                                                   *)
ResolvePackage(indexes, overlay, index, pattern, export) ==
  LET wanted(e) == e.index = index /\ PackageMatches(pattern, e.key[1]) /\ e.key[2] = export
      base == {e \in indexes : wanted(e)}
  IN  IF \E b \in overlay.buckets : b.index = index
      THEN {e.id : e \in {f \in base : f.key \notin overlay.masked}}
             \union {b.id : b \in {c \in overlay.buckets : wanted(c)}}
      ELSE {e.id : e \in base}

ResolveGlobal(indexes, overlay, index, name) ==
  Bucket(indexes, index, name) \union {g.id : g \in {h \in overlay.globals : h.key = name}}

-----------------------------------------------------------------------------
(* Looking up a root: EventIndexView.                                      *)

\* global_object_name_paths_match: document.write and window.document.write.
Promoted(path) == Len(path) > 1 /\ path[1] \in GlobalObjects /\ path[2] \in GlobalMembers
PathsMatch(left, right) ==
  \/ left = right
  \/ IF left[1] \in GlobalObjects /\ right[1] \in GlobalObjects
     THEN Tail(left) = Tail(right)
     ELSE \/ Promoted(left) /\ Tail(left) = right
          \/ Promoted(right) /\ Tail(right) = left

\* The indexes that each kind of event reads.
View(event) ==
  CASE event.kind = "Call" ->
         [names |-> "calls by name", module |-> "moduleCalls", global |-> "globalCalls", rooted |-> "none"]
    [] event.kind = "MemberCall" ->
         [names |-> "calls by path", module |-> "memberModuleCalls", global |-> "none", rooted |-> "rootedCalls"]
    [] event.kind = "MemberRead" ->
         [names |-> "reads by path", module |-> "moduleReads", global |-> "none", rooted |-> "rootedReads"]
    [] event.kind = "PropertyWrite" ->
         [names |-> "rootedWrites", module |-> "none", global |-> "none", rooted |-> "rootedWrites"]
    [] event.kind = "ClassReference" ->
         [names |-> "classes", module |-> "moduleClasses", global |-> "none", rooted |-> "none"]
    [] event.kind = "Construct" ->
         [names |-> "constructors by name", module |-> "moduleConstructors",
          global |-> "globalConstructors", rooted |-> "rootedConstructors"]
    [] event.kind = "Import" -> [names |-> "imports", module |-> "none", global |-> "none", rooted |-> "none"]
    [] OTHER -> [names |-> "strings", module |-> "none", global |-> "none", rooted |-> "none"]

ResolveAny(indexes, event, name) ==
  LET found == Bucket(indexes, View(event).names, name)
  IN  IF event.kind = "Construct" /\ found = {}
      THEN Bucket(indexes, "globalConstructors", name) ELSE found

ResolveRooted(indexes, event, path) ==
  {e.id : e \in {f \in indexes : f.index = View(event).rooted /\ PathsMatch(f.key, path)}}

ResolveLiteral(indexes, event, text) ==
  IF event.kind = "Import" THEN Bucket(indexes, "imports", text)
  ELSE {e.id : e \in {f \in indexes : f.index = "strings" /\ ContainsText(f.key, text)}}

ResolvePackageSpecifier(indexes, event, pattern) ==
  {e.id : e \in {f \in indexes : f.index = View(event).names /\ PackageMatches(pattern, f.key)}}

\* private_network_match, external to the plan: which texts name one.
PrivateTexts == {<<"1", "0", ".">>}
ResolvePrivateNetwork(indexes) ==
  {e.id : e \in {f \in indexes : f.index = "strings"
                                 /\ \E p \in PrivateTexts : ContainsText(f.key, p)}}

OccurrencesForIndexed(indexes, overlay, identity, event) ==
  LET index == View(event).module
  IN  CASE identity.by = "Heuristic" -> ResolveAny(indexes, event, identity.path)
        [] identity.by = "Global" ->
             ResolveGlobal(indexes, overlay, View(event).global, identity.path)
        [] identity.by = "ModuleExport" ->
             ResolveModule(indexes, overlay, index, <<identity.module, identity.path>>)
        [] identity.by = "ModuleNamespace" ->
             ResolveModule(indexes, overlay, index, <<identity.module, event.member>>)
        [] identity.by = "PackageModuleExport" ->
             ResolvePackage(indexes, overlay, index, identity.module, identity.path)
        [] identity.by = "PackageModuleNamespace" ->
             ResolvePackage(indexes, overlay, index, identity.module, event.member)
        [] identity.by = "Rooted" -> ResolveRooted(indexes, event, identity.path)
        [] identity.by = "LiteralString" -> ResolveLiteral(indexes, event, identity.path)
        [] identity.by = "PackageSpecifier" ->
             ResolvePackageSpecifier(indexes, event, identity.module)
        [] OTHER -> ResolvePrivateNetwork(indexes)

OccurrencesForReturned(indexes, producer, event) ==
  LET index == IF event.kind = "MemberCall" THEN "returnedCalls" ELSE "returnedReads"
  IN  {e.id : e \in {f \in indexes :
         /\ f.index = index /\ f.key[2] = event.member
         /\ PathsMatch(producer.path, f.key[1]) \/ IsPrefix(producer.path, f.key[1])}}

OccurrencesForInstance(indexes, constructor, member) ==
  {e.id : e \in {f \in indexes :
     /\ f.index = "instanceCalls"
     /\ IF constructor.by = "ModuleExport" THEN f.key[1] = constructor.module
        ELSE PackageMatches(constructor.module, f.key[1])
     /\ f.key[2] = constructor.path /\ <<f.key[3]>> = member}}

-----------------------------------------------------------------------------
(* Constrained roots: the candidates of the index, or every call of the    *)
(* file when the index has none, that pass the evaluator.                  *)

\* A package lookup answers even when it finds nothing.
FallsBack(identity, selected) ==
  selected = {} /\ identity.by \notin {"PackageModuleExport", "PackageModuleNamespace"}

\* MatcherIdentity::call_provenance: the exact identity of what is called,
\* where it is an export or a global; the wildcard is not looked at.
CallProvenance(identities, fact) ==
  LET raw == IF fact.global # <<>> THEN [is |-> "Global", module |-> <<>>, export |-> fact.global]
             ELSE IF fact.export # <<>>
             THEN [is |-> "External", module |-> fact.export[1], export |-> fact.export[2]]
             ELSE NoResolution
  IN  IF /\ fact.export # <<>> /\ fact.export \in DOMAIN identities
         /\ identities[fact.export].is \in {"Global", "External"}
      THEN identities[fact.export] ELSE raw

CallIdentityMatches(identity, provenance, fact) ==
  CASE identity.by = "Heuristic" -> fact.name = identity.path \/ fact.path = identity.path
    [] identity.by = "Global" -> provenance.is = "Global" /\ provenance.export = identity.path
    [] identity.by = "ModuleExport" ->
         /\ provenance.is = "External"
         /\ provenance.module = identity.module /\ provenance.export = identity.path
    [] identity.by = "PackageModuleExport" ->
         /\ provenance.is = "External"
         /\ PackageMatches(identity.module, provenance.module) /\ provenance.export = identity.path
    [] OTHER -> FALSE

MemberIdentityMatches(identity, member, fact) ==
  CASE identity.by = "Heuristic" -> fact.path = member \/ fact.rooted = member
    [] identity.by = "Rooted" -> fact.rooted = identity.path /\ fact.rooted = member
    [] identity.by = "ModuleNamespace" ->
         /\ fact.member # <<>>
         /\ fact.member[1] = identity.module /\ <<member[1]>> = fact.member[2]
    [] identity.by = "PackageModuleNamespace" ->
         /\ fact.member # <<>>
         /\ PackageMatches(identity.module, fact.member[1]) /\ <<member[1]>> = fact.member[2]
    [] OTHER -> FALSE

(* ArgumentMatcher::matches.  An argument is [is, text]: a static string,  *)
(* an expression rooted at a path, or something unknown.                   *)
ArgumentMatches(matcher, argument) ==
  CASE matcher.test = "AnyValue" -> TRUE
    [] matcher.test = "Rooted" -> argument.is = "rooted" /\ argument.text \in matcher.values
    [] OTHER -> argument.is = "static" /\ Accepts(matcher, argument.text)

ConstraintsMatch(constraints, args) ==
  \A c \in constraints : c.index + 1 \in DOMAIN args /\ ArgumentMatches(c.matcher, args[c.index + 1])

FactMatchesClause(file, identities, id, root) ==
  LET fact == file[id]
  IN  /\ fact.kind = "Call"
      /\ IF root.event.kind = "Call"
         THEN CallIdentityMatches(root.identity, CallProvenance(identities, fact), fact)
         ELSE MemberIdentityMatches(root.identity, root.event.member, fact)
      /\ ConstraintsMatch(root.arguments, fact.args)

EvaluateConstrained(file, indexes, overlay, identities, root) ==
  LET selected == OccurrencesForIndexed(indexes, overlay, root.identity, root.event)
      candidates == IF FallsBack(root.identity, selected) THEN DOMAIN file ELSE selected
  IN  {id \in candidates : FactMatchesClause(file, identities, id, root)}

EvaluateIndexed(indexes, overlay, root) ==
  CASE root.operator = "IndexedScan" ->
         OccurrencesForIndexed(indexes, overlay, root.identity, root.event)
    [] root.operator = "ReturnedSubject" -> OccurrencesForReturned(indexes, root.identity, root.event)
    [] OTHER -> OccurrencesForInstance(indexes, root.identity, root.event.member)

-----------------------------------------------------------------------------
(* Evidence: one item per root that found something, then one group per    *)
(* kind and symbol.  The count of a group is the sum of its items' counts. *)

Item(root, found) ==
  IF found = {} THEN {}
  ELSE {[root |-> root, kind |-> root.kind, symbol |-> root.symbol, occurrences |-> found]}

Group(items, kind, symbol) ==
  LET mine == {i \in items : i.kind = kind /\ i.symbol = symbol}
  IN  [kind |-> kind, symbol |-> symbol,
       count |-> FoldSet(LAMBDA i, n : n + Cardinality(i.occurrences), 0, mine),
       occurrences |-> UNION {i.occurrences : i \in mine}, truncated |-> FALSE]

\* EvidencePresenter: the first occurrences of a group, in source order.
Presented(group) ==
  IF Cardinality(group.occurrences) <= EvidenceLimit THEN group
  ELSE [group EXCEPT !.truncated = TRUE,
          !.occurrences = {o \in @ : Cardinality({p \in @ : p <= o}) <= EvidenceLimit}]

(* The groups shown are those that start first; when some are left out,    *)
(* every group that is kept says so.  Ties are broken by kind and symbol,  *)
(* which the model leaves to CHOOSE.                                       *)
NormalizeEvidence(items) ==
  LET groups == {Presented(Group(items, i.kind, i.symbol)) : i \in items}
      start(g) == Min(g.occurrences)
      earliest(kept) == \A g \in kept, h \in groups \ kept : start(g) <= start(h)
      first == CHOOSE kept \in kSubset(Min({EvidenceLimit, Cardinality(groups)}), groups) : earliest(kept)
  IN  IF Cardinality(groups) <= EvidenceLimit THEN groups
      ELSE {[g EXCEPT !.truncated = TRUE] : g \in first}

=============================================================================
