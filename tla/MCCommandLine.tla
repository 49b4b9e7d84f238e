---------------------------- MODULE MCCommandLine ---------------------------
(* Commands over two providers with three rules, one or two small files and *)
(* evidence on four positions.                                             *)
EXTENDS CommandLine

A == <<"a">>
B == <<"b">>

Rule(name, confidence, severity, flow) ==
  [id |-> name, confidence |-> confidence, severity |-> severity, flow |-> flow]

Js == NewCatalog(A, <<Rule(B, "High", 2, FALSE), Rule(<<"a", "b">>, "Low", 3, TRUE)>>)[2]
Obsidian == NewCatalog(B, <<Rule(B, "High", 3, TRUE)>>)[2]

MCCatalogsOf == [p \in {"js", "obsidian"} |-> IF p = "js" THEN <<Js>> ELSE <<Obsidian, Js>>]

Words(letters, n) == UNION {[1..k -> letters] : k \in 1..n}

MCRuleIds == {RuleIdOf(p, n) : p \in Words({"a", "b"}, 2), n \in Words({"a", "b"}, 3)}

MCSelectors ==
  {RuleIdOf(p, n) : p \in Words({"a", "b", "*"}, 2), n \in Words({"a", "b", "*"}, 3)}
    \cup {RuleIdOf(<<"*">>, <<"*", "b", "*", "a">>), RuleIdOf(<<"*">>, <<"b", "*", "a", "b">>),
          RuleIdOf(A, <<"1">>), RuleIdOf(A, <<"*", "a", "1">>), RuleIdOf(<<"*">>, <<"a", ".", ".">>),
          RuleIdOf(<<"*", ".">>, A), RuleIdOf(A, <<"a", ".", "*", "b">>), <<"*", ":", "a", ":", "b">>,
          <<"a", "?">>, <<"*">>, <<>>}

MCFurtherSelectors ==
  {RuleIdOf(A, B), RuleIdOf(<<"*">>, B), RuleIdOf(A, <<"*", "b">>), RuleIdOf(<<"*">>, <<"*">>)}

MCNames == {"window", "popup", "fetch", "1x"}
MCPathNames == {"globalThis", "window", "popup", "fetch"}
MCOtherEnvironments ==
  {AddGlobalObject(Ecmascript, "window", ConfiguredGlobals),
   AddGlobalObject(AddGlobals(Ecmascript, {"fetch"}), "popup", Restricted({"fetch", "popup"})),
   [Ecmascript EXCEPT !.objects = WithObject(@, "globalThis", Restricted({"window"}))]}

Limits(steps, facts, paths, names, values) ==
  [steps |-> steps, facts |-> facts, paths |-> paths, names |-> names, values |-> values]
Ample == Limits(9, 9, 9, 9, 9)
Text(asks, limits) == [parses |-> TRUE, asks |-> asks, limits |-> limits, misshapen |-> FALSE]

Garbage == [parses |-> FALSE, asks |-> <<>>, limits |-> Ample, misshapen |-> FALSE]
Whole == <<"Name", "Path", "Value", "Fact", "Fact">>

MCSources(n) ==
  {Garbage, Text(Whole, Ample), Text(Whole, Limits(2, 9, 9, 9, 9)),
   Text(<<"Outside", "Fact">>, Ample), Text(<<"Fact", "Generated">>, Ample)}
    \cup IF n > 1 THEN {}
         ELSE {[Text(Whole, Ample) EXCEPT !.misshapen = TRUE],
               Text(Whole, Limits(3, 2, 1, 1, 1)), Text(Whole, Limits(3, 1, 1, 2, 1)),
               Text(Whole, Limits(1, 1, 1, 9, 9)), Text(Whole, Limits(9, 9, 0, 9, 9)),
               Text(Whole, Limits(9, 9, 9, 1, 9)), Text(Whole, Limits(9, 9, 9, 9, 0)),
               Text(Whole, Limits(9, 9, 9, 0, 0)), Text(<<"Path", "Outside", "Value">>, Limits(9, 9, 0, 9, 0))}

Request(internal, answer, imported) ==
  [from |-> 1, internal |-> internal, answer |-> answer, imported |-> imported, located |-> TRUE]
Asking(requests) == [NoLinks EXCEPT !.requests = requests]

(* One file asks for anything, two link to each other.                      *)
MCLinks(n) ==
  {NoLinks}
    \cup IF n > 1
         THEN {Asking({Request(TRUE, "Internal", {"Found", "Absent"}),
                       [Request(FALSE, "None", {"Found"}) EXCEPT !.from = 2]}),
               Asking({Request(TRUE, "Internal", {"Ambiguous"})})}
         ELSE {[NoLinks EXCEPT !.unknown = {1}], [NoLinks EXCEPT !.exhausted = TRUE],
               Asking({Request(FALSE, "External", {"Found"}), Request(FALSE, "None", {"Absent"})}),
               [Asking({Request(TRUE, "Internal", {"Absent"})}) EXCEPT !.oversized = TRUE],
               Asking({[Request(TRUE, "Internal", {"Absent", "Unknown"}) EXCEPT !.located = FALSE]})}
              \cup {Asking({Request(TRUE, answer, {})}) : answer \in {"Missing", "None", "Outside", "Unsupported"}}

MCHitSets(n) == {{}} \cup {{b} : b \in (-n)..n}

At(start, end, trace) == [start |-> start, end |-> end, trace |-> trace]
Item(by, certainty, truncated, occurrences) ==
  [by |-> by, certainty |-> certainty, truncated |-> truncated, occurrences |-> occurrences]

Places == {At(1, 2, "t"), At(3, 4, "t"), At(1, 4, "none"), At(2, 3, "u"), At(1, 3, "lost")}
Empty == At(2, 2, "none")

Rich ==
  {{}} \cup {{Item("Flow", "Possible", TRUE, {a})} : a \in Places \cup {Empty}}
    \cup {{Item("Indexed", "Definite", FALSE, {a}), Item("Flow", "Possible", TRUE, {b, c})}
            : a \in {At(1, 2, "t"), At(1, 4, "none"), At(1, 3, "lost")}, b \in Places,
              c \in {At(3, 4, "t"), At(2, 3, "u")}}

Poor(rule) ==
  {{}, {Item(IF rule.flow THEN "Cross" ELSE "Constrained", "Possible", FALSE, {At(1, 2, "t")})}}

EvidenceOf(n, p, rule) ==
  IF rule.id = Obsidian[1].id THEN IF n = 1 THEN Rich ELSE Poor(rule)
  ELSE IF rule.id = Js[1].id /\ n > 1 THEN Poor(rule) ELSE {{}}

MCEvidences(n, p, rules) ==
  LET With(rule, found) == {f @@ (rule :> e) : f \in found, e \in EvidenceOf(n, p, rule)}
  IN  FoldSet(With, {<<>>}, rules)

NoFindings(path) == FileReport(path, {}, {})
Other(version, tool, paths, completion, messages) ==
  [version |-> version, tool |-> tool, files |-> [i \in DOMAIN paths |-> NoFindings(paths[i])],
   diagnostics |-> SetToBag(messages), completion |-> completion]

MCOtherReports ==
  {Other(1, 1, <<3>>, "Complete", {}), Other(1, 1, <<-1, 4>>, "Partial", {"tsconfig"}),
   Other(2, 2, <<3>>, "Complete", {}), Other(1, 2, <<3>>, "Complete", {}),
   Other(1, 1, <<1>>, "Complete", {})}
=============================================================================
