--------------------------- MODULE ReportAssembly --------------------------
(***************************************************************************)
(* From analysed modules to a report: which evidence of a module reaches    *)
(* the matcher (analysis/project/projection.rs), what linking and projection *)
(* add to the status (project/linker, projection/outcome.rs,                 *)
(* semantic/status.rs), how the evidence of one rule becomes findings     *)
(* (lint/report/evidence.rs), how files, diagnostics and completion are put   *)
(* together (lint/report), and how reports are combined (project/report, project/types/report).              *)
(*                                                                         *)
(* Paths are numbers, for their order; a range is a pair of positions; an    *)
(* item of evidence is what QueryMatching and the flow analysis leave of a    *)
(* rule in a module after normalization: how it was found, its certainty,    *)
(* whether it was truncated and where it occurs, with or without a trace.    *)
(***************************************************************************)
EXTENDS FactConstruction, Integers

\* A status entry is a scope, which is a path or Project, and a reason.
Project == 0
Entry(scope, reason) == [scope |-> scope, reason |-> reason]

\* What was parsed is its artifact; what was not keeps only its path.
Unparsed == [status |-> {"ParseFailure"}, derived |-> FALSE, projectable |-> FALSE, lost |-> TRUE]
Parsed(files) == {p \in DOMAIN files : files[p] # Unparsed}

-----------------------------------------------------------------------------
(* Linking, by what came of it: the modules whose exports have no known form, *)
(* the requests, and whether edges, exports or rounds ran into the budget or   *)
(* a cycle was too large to be resolved at all.  A request is `internal` if it *)
(* can only mean a file, has an answer or None, and imports names; each of     *)
(* them was found, has no known identity (a lookup that was cut at its depth   *)
(* behind a re-export ends there too), is ambiguous or is absent.              *)

Answers == {"Internal", "External", "Missing", "Outside", "Unsupported", "None"}
Requests(paths) ==
  [from : paths, internal : BOOLEAN, answer : Answers, located : BOOLEAN,
   imported : SUBSET {"Found", "Unknown", "Ambiguous", "Absent"}]
LinkResults(paths) ==
  [unknown : SUBSET paths, requests : SUBSET Requests(paths), exhausted : BOOLEAN, oversized : BOOLEAN]
NoLinks == [unknown |-> {}, requests |-> {}, exhausted |-> FALSE, oversized |-> FALSE]

(* A fault: a request that nobody answered is passed over.                  *)
RequestStatusAnswered(r) ==
  CASE r.internal /\ r.answer = "Missing" -> {Entry(r.from, "UnresolvedInternalRequest")}
    [] r.answer = "Outside" -> {Entry(r.from, "OutsideProjectTarget")}
    [] r.answer = "Unsupported" -> {Entry(r.from, "UnsupportedProjectTarget")}
    [] OTHER -> {}

\* GraphBuild::build
RequestStatus(r) ==
  CASE r.internal /\ r.answer \in {"Missing", "None"} -> {Entry(r.from, "UnresolvedInternalRequest")}
    [] r.answer = "Outside" -> {Entry(r.from, "OutsideProjectTarget")}
    [] r.answer = "Unsupported" -> {Entry(r.from, "UnsupportedProjectTarget")}
    [] OTHER -> {}

\* validate_imported_exports, which a cycle that is too large leaves out.
Importing(links, found) ==
  {r \in links.requests : ~links.oversized /\ r.answer = "Internal" /\ found \in r.imported}

LinkStatus(links) ==
  {Entry(p, "UnsupportedCommonjsExports") : p \in links.unknown}
    \cup (UNION {RequestStatus(r) : r \in links.requests})
    \cup {Entry(r.from, "AmbiguousStarExport") : r \in Importing(links, "Ambiguous")}
    \cup (IF links.exhausted \/ links.oversized THEN {Entry(Project, "LinkingBudgetExhausted")} ELSE {})

\* The linker's own diagnostics: they are in no status.
LinkDiagnostics(links) ==
  {Entry(IF r.located THEN r.from ELSE Project, "MissingImportedExport")
     : r \in Importing(links, "Absent")}

\* The status of the linked project and of the parse failures.
InitialStatus(files, linkStatus) ==
  linkStatus \cup UNION {{Entry(p, reason) : reason \in files[p].status} : p \in DOMAIN files}

-----------------------------------------------------------------------------
(* Projection.  `hits` are the bounds the flow analysis would run into: a   *)
(* path for its effects, minus a path for its local flow, Project for the    *)
(* cross-module flow.                                                       *)

\* project_facts and project_with_arena: what is found only where the phase it
\* needs ran.
Reaches(artifact, item) ==
  /\ artifact.derived
  /\ item.by \in {"Constrained", "Flow"} => artifact.projectable

\* The outcome of projecting all modules; nothing of the flow is asked for by
\* rules that have no lifecycle.
ProjectModules(files, needsFlow, hits) ==
  LET flowing == {p \in Parsed(files) : needsFlow /\ files[p].derived}
  IN  [effects |-> flowing \cap hits,
       flow |-> \/ \E p \in flowing : files[p].projectable /\ -p \in hits
                \/ needsFlow /\ Project \in hits]

\* ProjectionStatus::record_analysis_status
ProjectionStatus(outcome) ==
  {Entry(p, "EffectsBudgetExhausted") : p \in outcome.effects}
    \cup (IF outcome.flow THEN {Entry(Project, "FlowBudgetExhausted")} ELSE {})

-----------------------------------------------------------------------------
(* Findings.  Each occurrence is a range, and only ranges that lie in no     *)
(* other one are shown, each with all the evidence inside it.                *)

RangeOf(o) == [start |-> o.start, end |-> o.end]
Inside(outer, inner) == outer.start <= inner.start /\ inner.end <= outer.end

\* Occurrences with an empty display span are not shown.
Shown(items) ==
  UNION {{[item |-> i, at |-> o] : o \in {o \in i.occurrences : o.start < o.end}} : i \in items}

Ranges(items) == {RangeOf(s.at) : s \in Shown(items)}

\* The members of a set in the order that before gives them.
Sorted(S, before(_, _)) ==
  [n \in 1..Cardinality(S) |-> CHOOSE x \in S : Cardinality({y \in S : before(y, x)}) = n - 1]

\* by_range, in the order of its keys.
Entries(items) ==
  Sorted(Ranges(items),
    LAMBDA a, b : a.start < b.start \/ (a.start = b.start /\ a.end < b.end))

(* A fault: a shorter range is kept before the longer one with its start.    *)
RetainedShortFirst(items) ==
  FoldLeft(LAMBDA kept, r : IF kept # <<>> /\ r.end <= Last(kept).end THEN kept
                            ELSE Append(kept, r),
           <<>>, Entries(items))

\* retained_indices: by start, the longer first; what ends no later than the
\* last one kept lies in it.
Retained(items) ==
  FoldLeft(LAMBDA kept, r : IF kept # <<>> /\ r.end <= Last(kept).end THEN kept
                            ELSE Append(kept, r),
           <<>>,
           Sorted(Ranges(items),
             LAMBDA a, b : a.start < b.start \/ (a.start = b.start /\ a.end > b.end)))

\* One step of into_entries: the cursor passes what ends before the kept range,
\* and the group is what starts within it from there on and lies inside.
Group(entries, done, r) ==
  LET behind == {i \in DOMAIN entries : i >= done.cursor /\ entries[i].end >= r.start}
      cursor == IF behind = {} THEN Len(entries) + 1 ELSE CHOOSE i \in behind : \A j \in behind : i <= j
  IN  [cursor |-> cursor,
       groups |-> Append(done.groups,
         [range |-> r,
          members |-> {entries[i] : i \in {i \in cursor..Len(entries) :
                         entries[i].start <= r.end /\ Inside(r, entries[i])}}])]

Groups(items) ==
  LET entries == Entries(items)
  IN  FoldLeft(LAMBDA done, r : Group(entries, done, r),
               [cursor |-> 1, groups |-> <<>>], Retained(items)).groups

\* EvidenceRangeEntry::into_evidence: an occurrence without a trace is its own,
\* one whose trace cannot be resolved has none; some trace is always shown.
Traces(shown) ==
  LET traces == UNION {IF s.at.trace = "none" THEN {"occurrence"}
                       ELSE IF s.at.trace = "lost" THEN {} ELSE {s.at.trace} : s \in shown}
  IN  IF traces = {} THEN {"occurrence"} ELSE traces

\* The findings of one capability.
Findings(rule, severity, items) ==
  {LET shown == {s \in Shown(items) : RangeOf(s.at) \in g.members}
   IN  [rule |-> rule, severity |-> severity, range |-> g.range, traces |-> Traces(shown),
        truncated |-> \E s \in shown : s.item.truncated,
        certainty |-> IF \E s \in shown : s.item.certainty = "Definite" THEN "Definite" ELSE "Possible"]
     : g \in ToSet(Groups(items))}

\* merge_duplicate_findings: what rules of the same id found in the same place;
\* of the severities the first in the order of the findings is kept.
MergeFindings(findings) ==
  {LET same == {g \in findings : g.rule = f.rule /\ g.range = f.range}
   IN  [rule |-> f.rule, range |-> f.range, severity |-> Min({g.severity : g \in same}),
        traces |-> UNION {g.traces : g \in same},
        truncated |-> \E g \in same : g.truncated,
        certainty |-> IF \E g \in same : g.certainty = "Definite" THEN "Definite" ELSE "Possible"]
     : f \in findings}

-----------------------------------------------------------------------------
(* The report.                                                             *)

FileReport(path, findings, diagnostics) ==
  [path |-> path, findings |-> findings, diagnostics |-> diagnostics]

\* AnalysisStatus::diagnostics: a parse failure has its own diagnostic already.
Diagnosed(status) == {e \in status : e.reason # "ParseFailure"}

ParseDiagnostics(files, p) == IF p \in Parsed(files) THEN {} ELSE {"Parse"}

\* ReportFiles: the findings of a module replace those of its file, and a
\* diagnostic for a file that is not reported is dropped.
ReportFiles(files, findings, told) ==
  [p \in DOMAIN files |->
     FileReport(p, IF p \in Parsed(files) THEN findings[p] ELSE {},
                ParseDiagnostics(files, p)
                  \cup {e.reason : e \in {e \in told : e.scope = p}})]

(* A fault: combined files stay in the order they came in.                  *)
SortedByPathGiven(fileReports) == fileReports

\* No two of the reports are about the same file.
SortedByPath(fileReports) ==
  Sorted(ToSet(fileReports), LAMBDA a, b : a.path < b.path)

\* attach_project_diagnostics and assemble_project_report; schema and tool are this
\* program's.
NewReport(files, findings, status, linked) ==
  LET told == Diagnosed(status) \cup linked
  IN  [version |-> 1, tool |-> 1,
       files |-> SortedByPath(ReportFiles(files, findings, told)),
       diagnostics |-> SetToBag({e.reason : e \in {e \in told : e.scope = Project}}),
       completion |-> IF status = {} THEN "Complete" ELSE "Partial"]

\* A report is about each of its files once.
IsReport(r) ==
  /\ DOMAIN r = {"version", "tool", "files", "diagnostics", "completion"}
  /\ r.files \in Seq(ToSet(r.files))
  /\ \A i, j \in DOMAIN r.files :
       r.files[i].path \in Int /\ (r.files[i].path = r.files[j].path => i = j)
  /\ IsABag(r.diagnostics) /\ r.completion \in {"Complete", "Partial"}

Join(a, b) == IF "Partial" \in {a, b} THEN "Partial" ELSE "Complete"

\* What the loader adds: tsconfig diagnostics, and that the load was cut short.
WithProjectDiagnostics(report, messages) ==
  [report EXCEPT !.diagnostics = @ (+) SetToBag(messages)]
IntoPartial(report) ==
  [report EXCEPT !.diagnostics = @ (+) SetToBag({"IncompleteProject"}),
                 !.completion = Join(@, "Partial")]

ReportPaths(report) == {report.files[i].path : i \in DOMAIN report.files}

Merge(report, other) ==
  [report EXCEPT !.files = @ \o other.files, !.diagnostics = @ (+) other.diagnostics,
                 !.completion = Join(@, other.completion)]

\* One report after the other is checked against the first and merged.
CombineStep(done, report) ==
  IF done[1] # "Ok" THEN done
  ELSE IF report.version # done[2].version THEN <<"SchemaMismatch", report.version>>
  ELSE IF report.tool # done[2].tool THEN <<"ToolVersionMismatch", report.tool>>
  ELSE IF ReportPaths(report) \cap ReportPaths(done[2]) # {}
  THEN <<"DuplicateFilePath", ReportPaths(report) \cap ReportPaths(done[2])>>
  ELSE <<"Ok", Merge(done[2], report)>>

CombineReports(reports) ==
  IF reports = <<>> THEN <<"Empty", 0>>
  ELSE LET all == FoldLeft(CombineStep, <<"Ok", Head(reports)>>, Tail(reports))
       IN  IF all[1] = "Ok" THEN <<"Ok", [all[2] EXCEPT !.files = SortedByPath(@)]>> ELSE all
=============================================================================
