---------------------------- MODULE CommandLine ----------------------------
(***************************************************************************)
(* The command from its configuration to its exit status (glass-lint-cli):   *)
(* a host environment is put together, the configuration is loaded and its   *)
(* rule selection prepared, may still be edited by whoever holds it, and the  *)
(* linter is built (config.rs); the sources are analysed, linked, matched     *)
(* and reported (lint.rs, with ReportAssembly); the report decides the exit.  *)
(*                                                                         *)
(* Choices of the surroundings are made where they are first looked at: the   *)
(* evidence when a module is matched, the failure threshold at the end.       *)
(***************************************************************************)
EXTENDS RuleSelection, ReportAssembly

CONSTANTS
  Names,          \* the names host environments are made of
  PathNames,      \* those that occur in name paths
  MaxPathLength,  \* bound: lengths at which name paths are compared
  OtherEnvironments, \* the environments another one may be extended with
  MaxEnvironmentCalls, \* bound: calls that change the environment
  CatalogsOf,     \* the rule catalogs of each provider
  Selectors,      \* the selectors tried as an override
  FurtherSelectors, \* those behind which another override may follow
  MaxOverrides,   \* bound
  MaxEdits,       \* bound: changes of a loaded configuration
  RuleIds,        \* the ids selectors are compared on
  Sources(_),     \* what a file may be, by number of files: its text as asks of the
                  \* walk, its limits, its shape
  MaxFiles,       \* bound
  Links(_),       \* what may come of linking, by number of files
  HitSets(_),     \* the bounds the flow analysis may run into, by number of files
  Evidences(_, _, _), \* the evidence rules may have, by number of files, path and rules
  OtherReports    \* reports another analysis may have made

\* Severities are 1 (info) to 3 (error).
Rules == [id : Seq(STRING), confidence : STRING, severity : 1..3, flow : BOOLEAN]

ASSUME PathLengthAssumption == MaxPathLength \in Nat
ASSUME SelectorsAssumption ==
  \A text \in Selectors \cup FurtherSelectors \cup RuleIds : text \in Seq(STRING)
\* The catalogs are compiled in: what base_linter makes of them always succeeds.
ASSUME CatalogsAssumption ==
  /\ "obsidian" \in DOMAIN CatalogsOf
  /\ \A provider \in DOMAIN CatalogsOf :
       /\ FlattenSeq(CatalogsOf[provider]) \in Seq(Rules)
       /\ IsOk(Combine(CatalogsOf[provider]))
ASSUME ReportsAssumption == \A r \in OtherReports : IsReport(r)

\* What the surroundings may choose: texts that ask for what a walk asks for, requests
\* and bounds of the files there are, evidence of the rules asked about, at positions.
ASSUME FilesAssumption == MaxFiles \in Nat
ASSUME SourcesAssumption ==
  \A n \in 1..MaxFiles : \A source \in Sources(n) :
    source.asks \in Seq({"Fact", "Outside", "Generated", "Path", "Name", "Value"})
ASSUME LinksAssumption == \A n \in 1..MaxFiles : Links(n) \subseteq LinkResults(1..n)
ASSUME HitsAssumption == \A n \in 1..MaxFiles : HitSets(n) \subseteq SUBSET ((-n)..n)

IsEvidence(found, rules) ==
  /\ DOMAIN found = rules
  /\ \A rule \in rules :
       /\ IsFiniteSet(found[rule])
       /\ \A i \in found[rule] : IsFiniteSet(i.occurrences)
                                 /\ \A o \in i.occurrences : o.start \in Int /\ o.end \in Int

ASSUME EvidencesAssumption ==
  \A n \in 1..MaxFiles : \A p \in 1..n : \A provider \in DOMAIN CatalogsOf :
    \A rules \in SUBSET ToSet(FlattenSeq(CatalogsOf[provider])) :
      \A found \in Evidences(n, p, rules) : IsEvidence(found, rules)

VARIABLES
  phase,          \* "environment", "configuring", "loaded", "built", "analysing", "matching",
                  \* "reported", "done"
  env, envCalls,  \* the Environment and how often it was changed
  config,         \* provider, profile and overrides of the CLI configuration
  prepared,       \* <<>> or <<the PreparedConfig>>
  edits,
  linter,         \* <<>> or <<the built linter>>
  size,           \* how many files the command covers
  files,          \* the analysed files, by path
  links,          \* what came of linking
  hits, cut,      \* the bounds the flow analysis and the load ran into
  status,         \* AnalysisStatus
  evidence,       \* for each matched path, the evidence of every enabled rule
  findings,       \* for each matched path, its findings
  report,         \* <<>> or <<the report>>
  exit            \* the exit status, or Running

vars == <<phase, env, envCalls, config, prepared, edits, linter, size, files, links, hits, cut,
          status, evidence, findings, report, exit>>
setup == <<env, envCalls>>
configured == <<config, prepared, edits, linter>>
analysed == <<size, files, links, hits, cut, status, evidence, findings, report>>

Running == -1
Profiles == {"Recommended", "Heuristic"}
DefaultConfig == [provider |-> "obsidian", profile |-> "Heuristic", overrides |-> <<>>]

Init ==
  /\ phase = "environment" /\ env = Ecmascript /\ envCalls = 0
  /\ config = DefaultConfig /\ prepared = <<>> /\ edits = 0 /\ linter = <<>>
  /\ size = 0 /\ files = <<>> /\ links = NoLinks /\ hits = {} /\ cut = FALSE /\ status = {}
  /\ evidence = <<>> /\ findings = <<>> /\ report = <<>> /\ exit = Running

Refuse == phase' = "done" /\ exit' = 2

-----------------------------------------------------------------------------
(* The host environment.                                                   *)

ChangeEnvironment(to) ==
  /\ phase = "environment" /\ envCalls < MaxEnvironmentCalls
  /\ envCalls' = envCalls + 1 /\ env' = to
  /\ UNCHANGED <<phase, configured, analysed, exit>>

AddGlobal == \E names \in {{n} : n \in Names} \cup {Names} : ChangeEnvironment(AddGlobals(env, names))

AddObject ==
  \E name \in Names, members \in {ConfiguredGlobals} \cup {Restricted({n}) : n \in Names} :
    ChangeEnvironment(AddGlobalObject(env, name, members))

ExtendEnvironment == \E other \in OtherEnvironments : ChangeEnvironment(Extend(env, other))

\* The environment is handed to the linter and looked at here no more.
Configure ==
  /\ phase = "environment"
  /\ phase' = "configuring" /\ env' = Ecmascript /\ envCalls' = 0
  /\ UNCHANGED <<configured, analysed, exit>>

-----------------------------------------------------------------------------
(* The configuration and the linter.                                       *)

\* An override of the configuration file; a selector that does not parse refuses it.
Override(selector, enabled) ==
  /\ phase = "configuring" /\ Len(config.overrides) < MaxOverrides
  /\ config.overrides # <<>> => Last(config.overrides).selector \in FurtherSelectors
  /\ IF IsOk(ParseSelector(selector))
     THEN /\ config' = [config EXCEPT !.overrides =
                          Append(@, [selector |-> selector, enabled |-> enabled])]
          /\ UNCHANGED <<phase, exit>>
     ELSE Refuse /\ config' = DefaultConfig
  /\ UNCHANGED <<setup, prepared, edits, linter, analysed>>

ProfileBaseline(profile) == IF profile = "Recommended" THEN "High" ELSE "All"
SelectionOf(c) == FoldLeft(WithOverride, NewSelection(ProfileBaseline(c.profile)), c.overrides)

\* base_linter, which only the built-in catalogs pass through.
BaseCatalog(provider, profile) ==
  NewLinter(WithRules(NewConfig(CatalogsOf[provider]), NewSelection(ProfileBaseline(profile))))[2].catalog

\* config::load without a configuration file.
LoadDefault ==
  /\ phase = "configuring" /\ config = DefaultConfig
  /\ phase' = "loaded"
  /\ UNCHANGED <<setup, configured, analysed, exit>>

\* config::load and Config::validate: the selection is resolved against the
\* provider's catalog once and kept with what it was resolved for.
Load(provider, profile) ==
  LET c == [config EXCEPT !.provider = provider, !.profile = profile]
      selection == Prepare(SelectionOf(c), BaseCatalog(provider, profile))
  IN  /\ phase = "configuring"
      /\ IF IsOk(selection)
         THEN /\ phase' = "loaded" /\ config' = c
              /\ prepared' = <<[of |-> c, selection |-> selection[2]]>>
              /\ exit' = exit
         ELSE Refuse /\ config' = DefaultConfig /\ prepared' = <<>>
      /\ UNCHANGED <<setup, edits, linter, analysed>>

\* The fields of a loaded configuration are public.
Edit ==
  /\ phase = "loaded" /\ edits < MaxEdits
  /\ edits' = edits + 1
  /\ \/ \E provider \in DOMAIN CatalogsOf : config' = [config EXCEPT !.provider = provider]
     \/ \E profile \in Profiles : config' = [config EXCEPT !.profile = profile]
     \/ config' = [config EXCEPT !.overrides = <<>>]
  /\ config' # config
  /\ UNCHANGED <<phase, setup, prepared, linter, analysed, exit>>

(* A fault: a prepared selection is used whatever became of the configuration. *)
StillPreparedAlways(c) == prepared # <<>>

StillPrepared(c) == prepared # <<>> /\ prepared[1].of = c

\* selected_linter
LinterConfigOf(c) ==
  IF StillPrepared(c) THEN WithPreparedRules(NewConfig(CatalogsOf[c.provider]), prepared[1].selection)
  ELSE WithRules(NewConfig(CatalogsOf[c.provider]), SelectionOf(c))

Build ==
  LET built == NewLinter(LinterConfigOf(config))
  IN  /\ phase = "loaded"
      /\ IF IsOk(built)
         THEN phase' = "built" /\ linter' = <<built[2]>> /\ exit' = exit
         ELSE Refuse /\ linter' = <<>>
      /\ prepared' = <<>>
      /\ UNCHANGED <<setup, config, edits, analysed>>

-----------------------------------------------------------------------------
(* The analysis of n files: `check` of a project, or `snippet` of one file.  *)

EnabledRules(l) == {l.catalog[i] : i \in ToSet(l.enabled)}
NeedsFlow(l) == \E rule \in EnabledRules(l) : rule.flow

Open(n) ==
  /\ phase = "built"
  /\ phase' = "analysing" /\ size' = n
  /\ config' = DefaultConfig /\ edits' = 0
  /\ UNCHANGED <<setup, prepared, linter, files, links, hits, cut, status, evidence, findings, report,
                 exit>>

Analyse(source) ==
  /\ phase = "analysing" /\ Len(files) < size
  /\ files' = Append(files, IF source.parses THEN Artifact(source.asks, source.limits, source.misshapen)
                            ELSE Unparsed)
  /\ UNCHANGED <<phase, setup, configured, size, links, hits, cut, status, evidence, findings, report,
                 exit>>

\* Linking, and the projection of every module onto the selected rules.
Match(linked, bounds) ==
  /\ phase = "analysing" /\ Len(files) = size
  /\ linked \in LinkResults(Parsed(files))
  /\ Parsed(files) = {} => linked = NoLinks
  /\ phase' = "matching" /\ links' = linked /\ hits' = bounds
  /\ status' = InitialStatus(files, LinkStatus(linked))
                 \cup ProjectionStatus(ProjectModules(files, NeedsFlow(linter[1]), bounds))
  /\ UNCHANGED <<setup, configured, size, files, cut, evidence, findings, report, exit>>

FindingsOf(artifact, found) ==
  MergeFindings(UNION {Findings(rule.id, rule.severity, {i \in found[rule] : Reaches(artifact, i)})
                         : rule \in DOMAIN found})

\* The findings of the next file, in the order of the paths.
Render(found) ==
  LET p == Len(findings) + 1
  IN  /\ phase = "matching" /\ p <= size
      /\ evidence' = Append(evidence, found)
      /\ findings' = Append(findings, FindingsOf(files[p], found))
      /\ UNCHANGED <<phase, setup, configured, size, files, links, hits, cut, status, report, exit>>

\* The evidence of every enabled rule: a file that was not parsed has none.
Found(p) ==
  LET rules == EnabledRules(linter[1])
  IN  IF p \in Parsed(files) THEN Evidences(size, p, rules) ELSE {[rule \in rules |-> {}]}

Report ==
  /\ phase = "matching" /\ Len(findings) = size
  /\ phase' = "reported"
  /\ report' = <<NewReport(files, findings, status, LinkDiagnostics(links))>>
  /\ UNCHANGED <<setup, configured, size, files, links, hits, cut, status, evidence, findings, exit>>

-----------------------------------------------------------------------------
(* The exit.                                                               *)

(* A fault: a report fails only by its findings.                            *)
ReportFailsByFindings(r, failOn) ==
  \E i \in DOMAIN r.files : \E f \in r.files[i].findings : f.severity >= failOn

\* FailOn::fails, with the severities 1 (info) to 3 (error) and 4 for never.
ReportFails(r, failOn) ==
  \/ r.completion = "Partial"
  \/ BagToSet(r.diagnostics) # {}
  \/ \E i \in DOMAIN r.files :
       \/ "Parse" \in r.files[i].diagnostics
       \/ \E f \in r.files[i].findings : f.severity >= failOn

Leave(r, partial, failOn) ==
  /\ phase' = "done" /\ report' = <<r>>
  /\ exit' = IF partial \/ ReportFails(r, failOn) THEN 1 ELSE 0

\* lint_project: the loader adds its diagnostics, and says when it was cut short.
ExitProject(partial, messages, failOn) ==
  /\ phase = "reported"
  /\ LET loaded == WithProjectDiagnostics(report[1], messages)
     IN  Leave(IF partial THEN IntoPartial(loaded) ELSE loaded, partial, failOn)
  /\ cut' = partial
  /\ UNCHANGED <<setup, configured, size, files, links, hits, status, evidence, findings>>

\* lint_files: one file, whose requests nobody answers, is one report, and the
\* reports are combined to be written.
ExitSnippet(failOn) ==
  /\ phase = "reported" /\ size = 1
  /\ \A r \in links.requests : r.answer = "None"
  /\ Leave(CombineReports(<<report[1]>>)[2], FALSE, failOn)
  /\ UNCHANGED <<setup, configured, size, files, links, hits, cut, status, evidence, findings>>

\* Whoever reads the output may stop reading: the write fails, and the command
\* succeeds without having delivered its report (bin.rs).
BrokenPipe ==
  /\ phase = "reported"
  /\ phase' = "done" /\ exit' = 0
  /\ size' = 0 /\ files' = <<>> /\ links' = NoLinks /\ hits' = {} /\ cut' = FALSE /\ status' = {}
  /\ evidence' = <<>> /\ findings' = <<>> /\ report' = <<>>
  /\ UNCHANGED <<setup, configured>>

\* An operational error, such as a path that cannot be read, ends the command.
OperationalError ==
  /\ phase = "built"
  /\ Refuse
  /\ config' = DefaultConfig /\ edits' = 0 /\ linter' = <<>>
  /\ UNCHANGED <<setup, prepared, analysed>>

FailOn == 1..4

Next ==
  \/ AddGlobal \/ AddObject \/ ExtendEnvironment \/ Configure
  \/ \E selector \in IF config.overrides = <<>> THEN Selectors ELSE FurtherSelectors :
       \E enabled \in BOOLEAN : Override(selector, enabled)
  \/ LoadDefault
  \/ \E provider \in DOMAIN CatalogsOf, profile \in Profiles : Load(provider, profile)
  \/ Edit \/ Build \/ OperationalError
  \/ \E n \in 1..MaxFiles : Open(n)
  \/ \E source \in Sources(size) : Analyse(source)
  \/ \E linked \in Links(size), bounds \in HitSets(size) : Match(linked, bounds)
  \/ phase = "matching" /\ Len(findings) < size
       /\ \E found \in Found(Len(findings) + 1) : Render(found)
  \/ Report
  \/ \E partial \in BOOLEAN, messages \in SUBSET {"tsconfig"}, failOn \in FailOn :
       ExitProject(partial, messages, failOn)
  \/ \E failOn \in FailOn : ExitSnippet(failOn)
  \/ BrokenPipe

Spec == Init /\ [][Next]_vars

-----------------------------------------------------------------------------
\* Whatever was registered in whatever order, two paths that are said to match
\* denote the same thing: the names of the realm's global object are
\* interchangeable, what an object promotes is the global of that name, and the
\* other members of a foreign object stay its own (environment.rs).
PathMatchIsSound ==
  phase = "environment" =>
    \A n, m \in 1..MaxPathLength : \A left \in [1..n -> PathNames], right \in [1..m -> PathNames] :
      PathsMatch(env, left, right) =>
        /\ PathsMatch(env, right, left)
        /\ Denotes(env, left) = Denotes(env, right)

\* An accepted selector selects exactly the rules its text describes when every
\* * is replaced by some text, although the search for its literals is greedy
\* and looks at each of them once (selection.rs).
SelectorIsGlob ==
  phase = "configuring" /\ config.overrides # <<>> =>
    \A id \in RuleIds :
      SelectorMatches(Last(config.overrides).selector, id) <=> Glob(Last(config.overrides).selector, id)

\* The linter that runs enables exactly what the configuration asks for as it is
\* when the linter is built, also when a selection was prepared for an earlier
\* state of it, and its indexes are in order, so that matching cannot refuse
\* them (config.rs: selected_linter, linter.rs, rule.rs).
LinterIsAskedFor ==
  phase = "built" =>
    LET catalog == FlattenSeq(CatalogsOf[config.provider])
    IN  /\ linter[1].catalog = catalog
        /\ {linter[1].catalog[i].id : i \in ToSet(linter[1].enabled)} =
             AskedFor(SelectionOf(config), catalog)
        /\ SelectionIsValid(linter[1].catalog, linter[1].enabled)

Reached(p, rule) == {i \in evidence[p][rule] : Reaches(files[p], i)}
FoundBy(p, rule) == {f \in findings[p] : f.rule = rule.id}

\* Every occurrence of a rule that can be shown lies in exactly the widest ranges
\* around it, none of a rule's findings lies in another one, and a finding says
\* definite, or truncated, exactly when evidence inside it does
\* (lint/report/evidence.rs).
FindingsCoverEvidence ==
  phase = "matching" /\ findings # <<>> =>
    LET p == Len(findings)
    IN  \A rule \in DOMAIN evidence[p] :
          LET shown == Shown(Reached(p, rule))
              ranges == {RangeOf(s.at) : s \in shown}
              widest == {r \in ranges : \A q \in ranges : Inside(q, r) => q = r}
          IN  /\ {f.range : f \in FoundBy(p, rule)} = widest
              /\ \A f \in FoundBy(p, rule) :
                   LET inside == {s \in shown : Inside(f.range, RangeOf(s.at))}
                   IN  /\ f.certainty = "Definite" <=> \E s \in inside : s.item.certainty = "Definite"
                       /\ f.truncated <=> \E s \in inside : s.item.truncated
                       /\ f.traces # {}

\* A request that leads to its module, or to a package the project does not hold, and
\* takes no name from it that means several things.
Linked(r) ==
  \/ r.answer = "Internal" /\ "Ambiguous" \notin r.imported
  \/ r.answer = "External"
  \/ r.answer \in {"Missing", "None"} /\ ~r.internal

\* What the analysis did not see: text that did not become facts, exports without a
\* known form, requests that lead nowhere, links a budget left out, and bounds the
\* flow analysis of the enabled rules ran into.
Missed ==
  \/ \E p \in DOMAIN files : files[p].lost
  \/ links.unknown # {} \/ links.exhausted \/ links.oversized
  \/ \E r \in links.requests : ~Linked(r)
  \/ NeedsFlow(linter[1]) /\ hits # {}

Hidden(p, rule) ==
  {s \in Shown(evidence[p][rule]) : ~ \E f \in FoundBy(p, rule) : Inside(f.range, RangeOf(s.at))}

\* An import of a name that its module does not export is diagnosed, at the file that
\* imports it if its place is known.
AbsentIsTold(r) ==
  LET told == UNION {report[1].files[i].diagnostics
                       : i \in {i \in DOMAIN report[1].files : report[1].files[i].path = r.from}}
  IN  "MissingImportedExport" \in IF r.located THEN told ELSE BagToSet(report[1].diagnostics)

\* A report says truly whether it is complete: if it is, no file lost facts, every
\* request was linked, no budget cut the linking or the flow analysis its rules need,
\* names that a module does not export are told although they leave it complete, and
\* all evidence there is lies in a finding of its rule; if it is partial, a diagnostic
\* of it says why (semantic/mod.rs, status.rs, project/linker, projection/outcome.rs,
\* lint/report, loader.rs).
CompletionIsHonest ==
  report # <<>> =>
    IF report[1].completion = "Complete"
    THEN /\ ~Missed
         /\ \A r \in links.requests : r.answer = "Internal" /\ "Absent" \in r.imported => AbsentIsTold(r)
         /\ \A p \in DOMAIN files : \A rule \in DOMAIN evidence[p] : Hidden(p, rule) = {}
    ELSE \/ BagToSet(report[1].diagnostics) # {}
         \/ \E i \in DOMAIN report[1].files : report[1].files[i].diagnostics # {}

\* Reports combined in another order make the same report, or the same kind of
\* error, and nothing of a report is lost (project/report/mod.rs).
CombineIsOrderFree ==
  phase = "reported" =>
    \A other \in OtherReports :
      LET one == CombineReports(<<report[1], other>>)
          two == CombineReports(<<other, report[1]>>)
      IN  /\ one[1] = two[1]
          /\ one[1] = "Ok" =>
               /\ one = two
               /\ \A r \in {report[1], other} :
                    /\ ToSet(r.files) \subseteq ToSet(one[2].files)
                    /\ r.diagnostics \sqsubseteq one[2].diagnostics
                    /\ (r.completion = "Partial" => one[2].completion = "Partial")

\* Having delivered its report, the command succeeds only if nothing was missed,
\* the load was not cut short, and no evidence of an enabled rule reaches the
\* threshold (glass-lint-cli README.md:77-82, lint.rs, config.rs: report_fails).
SuccessIsEarned ==
  phase = "done" /\ exit = 0 /\ report # <<>> =>
    \E failOn \in FailOn :
      /\ ~cut /\ ~Missed
      /\ ~ReportFails(report[1], failOn)
      /\ \A p \in DOMAIN files : \A rule \in DOMAIN evidence[p] :
           rule.severity >= failOn => Shown(evidence[p][rule]) = {}
=============================================================================
