--------------------------- MODULE RuleSelection ---------------------------
(***************************************************************************)
(* Which rules a linter runs: the ids of rules (rule_id.rs), the catalogs   *)
(* of the providers (lint/catalog.rs), the selectors and the selection made *)
(* of a baseline and of overrides (lint/selection.rs), and the linter       *)
(* configuration that binds a selection to catalogs (lint/linter.rs).       *)
(*                                                                         *)
(* Ids and selectors are sequences of characters, because what a selector   *)
(* selects is the question; a rule is its id, its confidence and what the   *)
(* report needs of it.  A catalog is a sequence of rules.                   *)
(*                                                                         *)
(* The other half of what a linter is configured with is the environment of *)
(* the host: which names are global (environment.rs).                       *)
(***************************************************************************)
EXTENDS Integers, SequencesExt

CONSTANTS
  Letters,       \* the lower-case letters and digits that occur
  Digits

Ok(v) == <<"Ok", v>>
Err(why, v) == <<why, v>>
IsOk(result) == result[1] = "Ok"

-----------------------------------------------------------------------------
(* Rule ids: provider ":" name.                                            *)

Boundary == {"-", "_", "."}

\* A part of an id, or of a pattern when more characters are allowed.
ValidPart(part, more) ==
  /\ part # <<>>
  /\ part[1] \notin Boundary /\ part[Len(part)] \notin Boundary
  /\ \A i \in 1..(Len(part) - 1) : ~(part[i] = "." /\ part[i + 1] = ".")
  /\ \A i \in DOMAIN part :
       \/ part[i] \in Letters \cup {"-", "_"} \cup more
       \/ i > 1 /\ part[i] \in Digits

Colons(text) == {i \in DOMAIN text : text[i] = ":"}

\* Both parts, split at the first colon, are valid.
ValidParts(text, more) ==
  /\ Colons(text) # {}
  /\ LET colon == CHOOSE i \in Colons(text) : \A j \in Colons(text) : i <= j
     IN  /\ ValidPart(SubSeq(text, 1, colon - 1), more)
         /\ ValidPart(SubSeq(text, colon + 1, Len(text)), more \cup {"."})

ValidRuleId(text) == ValidParts(text, {})

RuleIdOf(provider, name) == provider \o <<":">> \o name

\* A provider's catalog from its locally named rules.
NewCatalog(provider, rules) ==
  IF ~ValidPart(provider, {}) THEN Err("InvalidRuleId", provider)
  ELSE Ok([i \in DOMAIN rules |-> [rules[i] EXCEPT !.id = RuleIdOf(provider, rules[i].id)]])

\* All rules of the catalogs in order, unless an id occurs twice.
Combine(catalogs) ==
  LET records == FlattenSeq(catalogs)
      again == {i \in DOMAIN records : \E j \in 1..(i - 1) : records[j].id = records[i].id}
  IN  IF again = {} THEN Ok(records)
      ELSE Err("DuplicateRule", records[CHOOSE i \in again : \A j \in again : i <= j].id)

-----------------------------------------------------------------------------
(* Selectors.  A pattern is cut into literals and wildcards.               *)

Wildcard == <<>>

AddCharacter(segments, c) ==
  IF c = "*" THEN Append(segments, Wildcard)
  ELSE IF segments # <<>> /\ Last(segments) # Wildcard
       THEN [segments EXCEPT ![Len(segments)] = Append(@, c)]
       ELSE Append(segments, <<c>>)

Segments(selector) == FoldLeft(AddCharacter, <<>>, selector)

HasWildcard(selector) == "*" \in ToSet(selector)

ParsePattern(selector) ==
  IF Cardinality(Colons(selector)) = 1 /\ ValidParts(selector, {"*"})
  THEN Ok(selector) ELSE Err("InvalidSelector", selector)

ParseSelector(selector) ==
  CASE selector = <<>> \/ ToSet(selector) \cap {"?", "[", "]", "{", "}"} # {} ->
         Err("InvalidSelector", selector)
    [] HasWildcard(selector) -> ParsePattern(selector)
    [] OTHER -> IF ValidRuleId(selector) THEN Ok(selector) ELSE Err("InvalidSelector", selector)

Failed == -1

\* Where the literal occurs first in the id behind pos, as the position behind it.
FindFrom(id, pos, literal) ==
  LET found == {k \in pos..(Len(id) - Len(literal)) :
                  SubSeq(id, k + 1, k + Len(literal)) = literal}
  IN  IF found = {} THEN Failed ELSE (CHOOSE k \in found : \A l \in found : k <= l) + Len(literal)

(* A fault: the last literal is searched for as the others are.             *)
ConsumeSearching(segments, id, pos, index) ==
  CASE pos = Failed \/ segments[index] = Wildcard -> pos
    [] pos # Failed /\ segments[index] # Wildcard /\ index = 1 ->
         IF IsPrefix(segments[index], id) THEN Len(segments[index]) ELSE Failed
    [] OTHER -> LET to == FindFrom(id, pos, segments[index])
                IN  IF index = Len(segments) /\ to # Len(id) THEN Failed ELSE to

\* How many characters of the id are consumed once the segment is, or Failed.
Consume(segments, id, pos, index) ==
  LET literal == segments[index]
      rest == SubSeq(id, pos + 1, Len(id))
  IN  CASE pos = Failed \/ literal = Wildcard -> pos
        [] pos # Failed /\ literal # Wildcard /\ index = 1 ->
             IF IsPrefix(literal, id) THEN Len(literal) ELSE Failed
        [] pos # Failed /\ literal # Wildcard /\ index > 1 /\ index = Len(segments) ->
             IF IsSuffix(literal, rest) THEN pos ELSE Failed
        [] OTHER -> FindFrom(id, pos, literal)

PatternMatches(selector, id) ==
  LET segments == Segments(selector)
  IN  FoldLeft(LAMBDA pos, index : Consume(segments, id, pos, index), 0,
               [i \in DOMAIN segments |-> i]) # Failed

SelectorMatches(selector, id) ==
  IF HasWildcard(selector) THEN PatternMatches(selector, id) ELSE id = selector

-----------------------------------------------------------------------------
(* A selection over a catalog.                                             *)

NewSelection(baseline) == [baseline |-> baseline, overrides |-> <<>>]
WithOverride(selection, override) ==
  [selection EXCEPT !.overrides = Append(@, override)]

\* A baseline is "All", "None" or "High", the minimum confidence of the
\* recommended profile.
InBaseline(baseline, rule) ==
  \/ baseline = "All"
  \/ baseline = "High" /\ rule.confidence = "High"

\* Every override is asked about every rule; the last that matches decides.
IsEnabled(selection, rule) ==
  FoldLeft(LAMBDA state, o : IF SelectorMatches(o.selector, rule.id) THEN o.enabled ELSE state,
           InBaseline(selection.baseline, rule), selection.overrides)

\* The indexes of the enabled rules, in the order of the catalog.
Evaluate(selection, catalog) ==
  FoldLeft(LAMBDA enabled, i : IF IsEnabled(selection, catalog[i]) THEN Append(enabled, i)
                               ELSE enabled,
           <<>>, [i \in DOMAIN catalog |-> i])

\* The overrides no rule of the catalog is selected by.
Idle(selection, catalog) ==
  {k \in DOMAIN selection.overrides :
     \A i \in DOMAIN catalog : ~SelectorMatches(selection.overrides[k].selector, catalog[i].id)}

\* RuleSelection::resolve: the enabled indexes, unless an override is idle.
Resolve(selection, catalog) ==
  LET idle == Idle(selection, catalog)
      first == selection.overrides[CHOOSE k \in idle : \A l \in idle : k <= l].selector
  IN  IF idle = {} THEN Ok(Evaluate(selection, catalog))
      ELSE IF HasWildcard(first) THEN Err("InvalidSelector", first) ELSE Err("UnknownRule", first)

\* RuleSelection::prepare keeps the catalog it was resolved against.
Prepare(selection, catalog) ==
  LET enabled == Resolve(selection, catalog)
  IN  IF IsOk(enabled) THEN Ok([catalog |-> catalog, enabled |-> enabled[2]]) ELSE enabled

-----------------------------------------------------------------------------
(* The linter configuration: catalogs with a selection, or a prepared one.  *)

NewConfig(catalogs) ==
  [prepared |-> FALSE, catalogs |-> catalogs, selection |-> NewSelection("All"), enabled |-> <<>>]

WithRules(config, selection) ==
  [config EXCEPT !.prepared = FALSE, !.selection = selection, !.enabled = <<>>]

WithPreparedRules(config, prepared) ==
  [prepared |-> TRUE, catalogs |-> <<prepared.catalog>>, selection |-> NewSelection("None"),
   enabled |-> prepared.enabled]

\* Linter::new, and RuleSelection::resolve through it.
NewLinter(config) ==
  IF config.prepared THEN Ok([catalog |-> config.catalogs[1], enabled |-> config.enabled])
  ELSE LET catalog == Combine(config.catalogs)
       IN  IF ~IsOk(catalog) THEN catalog ELSE Prepare(config.selection, catalog[2])

\* CompiledRuleSelection::new refuses anything but increasing indexes of the catalog.
SelectionIsValid(catalog, enabled) ==
  /\ ToSet(enabled) \subseteq DOMAIN catalog
  /\ \A i \in 1..(Len(enabled) - 1) : enabled[i] < enabled[i + 1]

-----------------------------------------------------------------------------
(* What the above is for, said without segments, positions or folds.        *)

\* The text is the pattern with every * replaced by some text: where in the text
\* each suffix of the pattern fits the rest of it.
Glob(pattern, text) ==
  LET fits[i \in 1..(Len(pattern) + 1)] ==
        IF i > Len(pattern) THEN {Len(text) + 1}
        ELSE IF pattern[i] = "*" THEN {j \in 1..(Len(text) + 1) : \E k \in fits[i + 1] : j <= k}
        ELSE {j \in 1..Len(text) : text[j] = pattern[i] /\ j + 1 \in fits[i + 1]}
  IN  1 \in fits[1]

\* The rules asked for: what the last override about a rule says, else the baseline.
AskedFor(selection, catalog) ==
  {catalog[i].id : i \in {i \in DOMAIN catalog :
     LET about == {k \in DOMAIN selection.overrides :
                     Glob(selection.overrides[k].selector, catalog[i].id)}
     IN  IF about = {} THEN InBaseline(selection.baseline, catalog[i])
         ELSE selection.overrides[CHOOSE k \in about : \A l \in about : l <= k].enabled}}

-----------------------------------------------------------------------------
(***************************************************************************)
(* The host environment of a linter (environment.rs): which names are      *)
(* global bindings, which of them are the realm's global object or an      *)
(* object like it, and when two name paths denote the same thing.          *)
(*                                                                         *)
(* A global object either promotes every configured global                 *)
(* (ConfiguredGlobals below) or a restricted set of members.  A name path  *)
(* is a sequence of names.                                                 *)
(***************************************************************************)
CONSTANTS
  EcmaGlobals,   \* the names every environment starts with
  Invalid        \* names that are no JavaScript identifiers

ConfiguredGlobals == [all |-> TRUE, members |-> {}]
Restricted(members) == [all |-> FALSE, members |-> members]

Ecmascript ==
  [globals |-> EcmaGlobals, objects |-> [o \in {"globalThis"} |-> ConfiguredGlobals]]

WithObject(objects, name, members) ==
  [o \in DOMAIN objects \cup {name} |-> IF o = name THEN members ELSE objects[o]]

\* One invalid name refuses the call, which then changes nothing.
AddGlobals(env, names) ==
  IF names \cap Invalid # {} THEN env ELSE [env EXCEPT !.globals = @ \cup names]

\* add_global_object and add_global_object_with_members: the entry replaces
\* what the name promoted before.
AddGlobalObject(env, name, members) ==
  IF ({name} \cup members.members) \cap Invalid # {} THEN env
  ELSE [globals |-> env.globals \cup {name}, objects |-> WithObject(env.objects, name, members)]

\* Of one object in two environments the wider reading wins.
Wider(a, b) ==
  IF a.all \/ b.all THEN ConfiguredGlobals ELSE Restricted(a.members \cup b.members)

Extend(env, other) ==
  [globals |-> env.globals \cup other.globals,
   objects |-> [o \in DOMAIN env.objects \cup DOMAIN other.objects |->
                  IF o \notin DOMAIN env.objects THEN other.objects[o]
                  ELSE IF o \notin DOMAIN other.objects THEN env.objects[o]
                  ELSE Wider(env.objects[o], other.objects[o])]]

IsGlobalMember(env, object, member) ==
  /\ object \in DOMAIN env.objects
  /\ member \in IF env.objects[object].all THEN env.globals ELSE env.objects[object].members

IsRealm(env, name) == name \in DOMAIN env.objects /\ env.objects[name].all

(* A fault: an object with restricted members counts as the realm's.        *)
AliasesMatchRestricted(env, left, right) == {left, right} \subseteq DOMAIN env.objects \/ left = right

AliasesMatch(env, left, right) ==
  left = right \/ (IsRealm(env, left) /\ IsRealm(env, right))

IsPromotedPath(env, path) == Len(path) >= 2 /\ IsGlobalMember(env, path[1], path[2])

\* global_object_name_paths_match: roots that are aliases settle the question.
PathsMatch(env, left, right) ==
  IF left = right THEN TRUE
  ELSE IF left # <<>> /\ right # <<>> /\ AliasesMatch(env, Head(left), Head(right))
  THEN Tail(left) = Tail(right)
  ELSE \/ IsPromotedPath(env, left) /\ Tail(left) = right
       \/ IsPromotedPath(env, right) /\ Tail(right) = left

-----------------------------------------------------------------------------
(* What a path denotes: a global object in front of what it promotes says   *)
(* nothing, and every name of the realm's global object is the same name.   *)

Realm == "the realm's global object"

Denotes(env, path) ==
  LET d[i \in 1..(Len(path) + 1)] ==
        LET rest == SubSeq(path, i, Len(path))
        IN  IF IsPromotedPath(env, rest) THEN d[i + 1]
            ELSE IF rest # <<>> /\ IsRealm(env, rest[1]) THEN <<Realm>> \o Tail(rest) ELSE rest
  IN  d[1]
=============================================================================
