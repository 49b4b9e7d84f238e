------------------------------ MODULE Discovery ------------------------------
(***************************************************************************)
(* Which files a selection starts a project with (glass-lint-project/src:  *)
(* loader/selection.rs, discovery.rs, walk.rs, boundary.rs and the         *)
(* traversal of tsconfig/mod.rs).  An entry, a directory or a tsconfig is  *)
(* selected; a tsconfig is followed through "extends" and, depth first     *)
(* over an explicit stack, through its project references; then every      *)
(* configuration that was met selects files into one bounded set.          *)
(*                                                                         *)
(* The disk does not change during discovery, but the deadline may pass.   *)
(* An error ends discovery and with it the load.                           *)
(***************************************************************************)
EXTENDS TsconfigSelection

CONSTANTS Nodes,         \* canonical paths of the files and directories
          SourceNodes,   \* the files with a supported extension
          Links,         \* symbolic links to directories: path -> canonical target
          ExcludedNames, \* excluded_directories
          PathsInOrder,  \* every path there is, those through links too, in order
          ConfigSize(_), \* bytes of a configuration
          Selections,    \* the projects and selections to discover
          MaxFiles, MaxEntries, MaxConfigs, MaxDepth, MaxConfigBytes

(* A project has finitely many configurations, and JSON arrays are lists.    *)
ASSUME ConfigsAssumption ==
  /\ MaxDepth \in Nat
  /\ \A s \in Selections :
       /\ IsFiniteSet(DOMAIN s.configs)
       /\ \A config \in DOMAIN s.configs :
            LET text == s.configs[config]
            IN text # [json |-> "garbage"] /\ text.references.json = "array" =>
                 text.references.items \in Seq(ToSet(text.references.items))

VARIABLES expired,        \* the deadline has passed
          selected,       \* the member of Selections being discovered
          stage,          \* what discovery does next
          refStack, active, visited,  \* TsconfigGraphWalker
          chain, opening, parent,     \* TsconfigTraversal
          spent,          \* configurations, bytes of them and entries so far
          expansions,     \* compiled selections with their base
          chosen,         \* AcceptedPaths
          diagnostics, failure

walker    == <<refStack, active, visited>>
traversal == <<chain, opening, parent>>
discovery == <<selected, stage, walker, traversal, spent, expansions, chosen, diagnostics, failure>>

----------------------------------------------------------------------------
(* The filesystem below the program: what fs and walkdir answer. *)

LinkOn(path) == {l \in DOMAIN Links : IsPrefix(l, path)}
Real(path) ==
  IF LinkOn(path) = {} THEN path
  ELSE LET l == CHOOSE l \in LinkOn(path) : TRUE
       IN Links[l] \o SubSeq(path, Len(l) + 1, Len(path))
Located(base, path) == Real(NormalizeSafe(JoinPath(base, path)))
IsDirectory(path) == path \in Nodes /\ \E n \in Nodes : IsStrictPrefix(path, n)
IsFile(path) == path \in Nodes /\ ~IsDirectory(path)

----------------------------------------------------------------------------
(* SourceBoundary *)

(* project_root, canonicalized. *)
Root(s) == Real(IF SomeOf(s.root) THEN s.root[1]
                ELSE IF s.kind = "directory" THEN s.path
                ELSE DirectoryOf(s.path))

IsInsideRoot(s, path) == IsPrefix(Root(s), path)
IsExcluded(s, path) ==
  /\ IsInsideRoot(s, path)
  /\ \E i \in Len(Root(s)) + 1 .. Len(path) : path[i] \in ExcludedNames

Classify(s, path) ==
  LET canonical == Real(path)
  IN CASE ~IsInsideRoot(s, canonical) -> "outside"
       [] IsInsideRoot(s, canonical) /\ IsExcluded(s, canonical) -> "excluded"
       [] IsInsideRoot(s, canonical) /\ ~IsExcluded(s, canonical) ->
            IF canonical \in SourceNodes THEN "accepted" ELSE "unsupported"

(* The entries a walk yields, in order: a link is one, and is passed only    *)
(* when links are followed; an excluded directory is not entered.            *)
Entries(s, base) ==
  SelectSeq(PathsInOrder, LAMBDA p :
    /\ IsPrefix(base, p)
    /\ \A l \in LinkOn(p) : l = p \/ s.follow
    /\ \A n \in Len(base) .. Len(p) :
         LET q == SubSeq(p, 1, n)
         IN IsDirectory(Real(q)) /\ (q \notin DOMAIN Links \/ s.follow) => ~IsExcluded(s, q))
IsFileEntry(s, p) == IsFile(Real(p))

----------------------------------------------------------------------------
(* AcceptedPaths::accept and record_visited: a duplicate costs nothing, an   *)
(* entry counts before it is looked at.  Whichever limit is met first ends   *)
(* the collection.                                                           *)
Accepting(paths, entries, complete) ==
  [chosen  |-> chosen \cup paths,
   entries |-> entries,
   failure |-> IF Cardinality(chosen \cup paths) > MaxFiles THEN <<"too many files">>
               ELSE IF complete THEN <<>> ELSE <<"too many entries">>]

AcceptedOf(s, paths) == {Real(p) : p \in {q \in paths : Classify(s, q) = "accepted"}}

(* A walk with an optional selection, which judges paths below its base.     *)
CollectFiles(s, base, filter) ==
  LET entries == Entries(s, base)
      count   == Min({Len(entries), MaxEntries - spent.entries})
      included(p) == \A selection \in Range(filter) :
                       Includes(selection, SubSeq(p, Len(base) + 1, Len(p)))
  IN Accepting(AcceptedOf(s, {p \in Range(SubSeq(entries, 1, count)) :
                                IsFileEntry(s, p) /\ included(p)}),
               spent.entries + count, count = Len(entries))

(* Explicit files that do not exist or are not accepted are passed over.     *)
SelectExplicit(s, base, files) ==
  Accepting(AcceptedOf(s, {Located(base, f) : f \in files} \cap Nodes),
            spent.entries, TRUE)

----------------------------------------------------------------------------
NoSelection == [kind |-> "none"]

DiscoveryInit ==
  /\ selected \in Selections
  /\ stage = "select"
  /\ refStack = <<>> /\ active = <<>> /\ visited = {}
  /\ chain = <<>> /\ opening = <<>> /\ parent = <<>>
  /\ spent = [configs |-> 0, bytes |-> 0, entries |-> 0]
  /\ expansions = <<>> /\ chosen = {} /\ diagnostics = {} /\ failure = <<>>

(* The discovery is over and dropped. *)
Forget ==
  /\ selected' = NoSelection /\ stage' = "dropped"
  /\ refStack' = <<>> /\ active' = <<>> /\ visited' = {}
  /\ chain' = <<>> /\ opening' = <<>> /\ parent' = <<>>
  /\ spent' = [configs |-> 0, bytes |-> 0, entries |-> 0]
  /\ expansions' = <<>> /\ chosen' = {} /\ diagnostics' = {} /\ failure' = <<>>

Refuse(why) == stage' = "refused" /\ failure' = <<why>>

Selection == Real(selected.path)

(* from_selection and initial_paths up to the kind of selection. *)
RefuseSelection ==
  /\ stage = "select"
  /\ \/ Selection \notin Nodes /\ Refuse("not found")
     \/ /\ Selection \in Nodes
        /\ \/ ~IsInsideRoot(selected, Selection) /\ Refuse("outside root")
           \/ /\ IsInsideRoot(selected, Selection)
              /\ selected.kind \in {"entry", "tsconfig"} /\ ~IsFile(Selection)
              /\ Refuse("not a file")
           \/ /\ IsInsideRoot(selected, Selection)
              /\ selected.kind = "entry" /\ IsFile(Selection)
              /\ Classify(selected, Selection) # "accepted"
              /\ Refuse("unsupported")
  /\ UNCHANGED <<selected, walker, traversal, spent, expansions, chosen, diagnostics>>

Selectable == stage = "select" /\ Selection \in Nodes /\ IsInsideRoot(selected, Selection)

(* The outcome of accepting files, which may exceed a limit. *)
Accepted(collected, next) ==
  \E c \in {collected} :
    /\ chosen' = c.chosen
    /\ spent' = [spent EXCEPT !.entries = c.entries]
    /\ IF SomeOf(c.failure) THEN Refuse(c.failure[1])
       ELSE stage' = next /\ UNCHANGED failure

(* The deadline is looked at before every entry. *)
Overdue(base) == expired /\ Entries(selected, base) # <<>>

SelectEntry ==
  /\ Selectable
  /\ selected.kind = "entry" /\ IsFile(Selection)
  /\ Classify(selected, Selection) = "accepted"
  /\ Accepted(Accepting({Selection}, spent.entries, TRUE), "found")
  /\ UNCHANGED <<selected, walker, traversal, expansions, diagnostics>>

SelectDirectory ==
  /\ Selectable
  /\ selected.kind = "directory"
  /\ IF Overdue(Selection)
       THEN Refuse("timeout") /\ UNCHANGED <<chosen, spent>>
       ELSE Accepted(CollectFiles(selected, Selection, <<>>), "found")
  /\ UNCHANGED <<selected, walker, traversal, expansions, diagnostics>>

Enter(config, depth) == [op |-> "enter", config |-> config, depth |-> depth]
ExitReference == [op |-> "exit"]

SelectTsconfig ==
  /\ Selectable
  /\ selected.kind = "tsconfig" /\ IsFile(Selection)
  /\ refStack' = <<Enter(Selection, 0)>>
  /\ stage' = "references"
  /\ UNCHANGED <<selected, active, visited, traversal, spent, expansions, chosen, diagnostics,
                 failure>>

----------------------------------------------------------------------------
(* TsconfigGraphWalker: the top of the stack is its first element. *)

Diagnostic(kind, config, about) == [kind |-> kind, config |-> config, about |-> about]

Item(op) == stage = "references" /\ refStack # <<>> /\ Head(refStack).op = op
            /\ refStack' = Tail(refStack)

LeaveConfig ==
  /\ Item("exit")
  /\ active' = Front(active)
  /\ UNCHANGED <<selected, stage, visited, traversal, spent, expansions, chosen, diagnostics,
                 failure>>

ReferenceTooDeep ==
  /\ Item("enter")
  /\ Head(refStack).depth >= MaxDepth
  /\ Refuse("reference depth")
  /\ UNCHANGED <<selected, active, visited, traversal, spent, expansions, chosen, diagnostics>>

(* Mutant: a configuration that was visited is skipped before cycles are sought. *)
CycleSkipped ==
  /\ Item("enter")
  /\ Head(refStack).depth < MaxDepth
  /\ Head(refStack).config \in Range(active)
  /\ UNCHANGED <<selected, stage, active, visited, traversal, spent, expansions, chosen,
                 diagnostics, failure>>

ReferenceCycle ==
  /\ Item("enter")
  /\ Head(refStack).depth < MaxDepth
  /\ Head(refStack).config \in Range(active)
  /\ diagnostics' = diagnostics \cup
       {Diagnostic("reference cycle", Head(refStack).config, Head(refStack).config)}
  /\ UNCHANGED <<selected, stage, active, visited, traversal, spent, expansions, chosen, failure>>

ReferenceVisited ==
  /\ Item("enter")
  /\ Head(refStack).depth < MaxDepth
  /\ Head(refStack).config \in visited \ Range(active)
  /\ UNCHANGED <<selected, stage, active, visited, traversal, spent, expansions, chosen,
                 diagnostics, failure>>

EnterConfig ==
  /\ stage = "references" /\ refStack # <<>> /\ Head(refStack).op = "enter"
  /\ Head(refStack).depth < MaxDepth
  /\ Head(refStack).config \notin visited \cup Range(active)
  /\ visited' = visited \cup {Head(refStack).config}
  /\ active' = Append(active, Head(refStack).config)
  /\ stage' = "open" /\ opening' = Head(refStack).config
  /\ UNCHANGED <<selected, refStack, chain, parent, spent, expansions, chosen, diagnostics,
                 failure>>

----------------------------------------------------------------------------
(* TsconfigTraversal::build_inner, down the chain of "extends" ... *)

(* A file that is no configuration cannot be parsed. *)
Garbage == [json |-> "garbage"]
TextOf(s, config) == IF config \in DOMAIN s.configs THEN s.configs[config] ELSE Garbage
Parsed(s, config) == ParseTsconfig(TextOf(s, config))

IsPackage(extends) == ~IsAbsolute(extends) /\ Head(extends) \notin {".", ".."}

(* resolve_extends *)
ExtendsTarget(s, config) ==
  LET extends == Parsed(s, config).extends
      target  == Located(DirectoryOf(config), extends.value)
  IN IF IsPresent(extends) /\ ~IsPackage(extends.value) /\ target \in Nodes
       THEN <<target>> ELSE <<>>

ExtendsDiagnostics(s, config) ==
  LET extends == Parsed(s, config).extends
  IN IF ~IsPresent(extends) \/ SomeOf(ExtendsTarget(s, config)) THEN {}
     ELSE {Diagnostic(IF IsPackage(extends.value) THEN "package" ELSE "extends missing",
                      config, extends.value)}

FieldDiagnostics(s, config) ==
  {Diagnostic("field", config, <<name>>) : name \in Parsed(s, config).complaints}

(* The checks in their order; the chain already holds the file when its      *)
(* bytes are counted.                                                        *)
OpenFailure ==
  CASE expired -> <<"timeout">>
    [] ~expired /\ Len(chain) >= MaxDepth -> <<"extends depth">>
    [] ~expired /\ Len(chain) < MaxDepth ->
         IF spent.configs + 1 > MaxConfigs THEN <<"config count">>
         ELSE IF spent.bytes + ConfigSize(opening) > MaxConfigBytes THEN <<"config bytes">>
         ELSE IF TextOf(selected, opening) = Garbage THEN <<"parse">> ELSE <<>>

OpenFails ==
  /\ stage = "open"
  /\ SomeOf(OpenFailure)
  /\ Refuse(OpenFailure[1])
  /\ UNCHANGED <<selected, walker, traversal, spent, expansions, chosen, diagnostics>>

OpenConfig ==
  /\ stage = "open"
  /\ ~SomeOf(OpenFailure)
  /\ chain' = Append(chain, opening)
  /\ spent' = [spent EXCEPT !.configs = @ + 1, !.bytes = @ + ConfigSize(opening)]
  /\ LET target == ExtendsTarget(selected, opening)
         cyclic == SomeOf(target) /\ target[1] \in Range(chain')
     IN /\ diagnostics' = diagnostics \cup FieldDiagnostics(selected, opening)
                            \cup ExtendsDiagnostics(selected, opening)
                            \cup (IF cyclic THEN {Diagnostic("extends cycle", opening, target[1])}
                                  ELSE {})
        /\ IF SomeOf(target) /\ ~cyclic
             THEN opening' = target[1] /\ UNCHANGED <<stage, parent>>
             ELSE stage' = "merge" /\ parent' = <<>> /\ opening' = <<>>
  /\ UNCHANGED <<selected, walker, expansions, chosen, failure>>

(* ... and back up, each child merged into its parent. *)
Merging(config, child) == MergeSelection(child, parent, DirectoryOf(config))

MergeConfig ==
  /\ stage = "merge" /\ Len(chain) > 1
  /\ \E child \in {Parsed(selected, Last(chain))} :
       parent' = <<[merged |-> Merging(Last(chain), child), directory |-> DirectoryOf(Last(chain))]>>
  /\ chain' = Front(chain)
  /\ UNCHANGED <<selected, stage, walker, opening, spent, expansions, chosen, diagnostics,
                 failure>>

----------------------------------------------------------------------------
(* The references of a configuration that are there, in their order. *)
ReferenceTarget(s, config, path) ==
  LET target == Located(DirectoryOf(config), path)
  IN IF IsDirectory(target) THEN Append(target, "tsconfig") ELSE target

ReferenceTargets(s, config) ==
  FoldLeft(LAMBDA targets, path :
             IF ReferenceTarget(s, config, path) \in Nodes
               THEN Append(targets, ReferenceTarget(s, config, path)) ELSE targets,
           <<>>, Parsed(s, config).references)

ReferenceDiagnostics(s, config) ==
  {Diagnostic("reference missing", config, path) :
     path \in {p \in Range(Parsed(s, config).references) :
                 ReferenceTarget(s, config, p) \notin Nodes}}

PatternDiagnostics(config, selection) ==
  {Diagnostic("pattern", config, p) : p \in InvalidPatterns(selection)}

(* The outermost configuration is compiled; its references are entered in    *)
(* order, before its exit.                                                   *)
BuiltConfig ==
  /\ stage = "merge" /\ Len(chain) = 1
  /\ \E config \in {chain[1]} :
     \E merged \in {Merging(config, Parsed(selected, config))} :
     \E selection \in {CompileSelection(merged)}, targets \in {ReferenceTargets(selected, config)} :
        /\ expansions' = Append(expansions, [selection |-> selection,
                                             base |-> DirectoryOf(config)])
        /\ diagnostics' = diagnostics \cup PatternDiagnostics(config, selection)
                            \cup ReferenceDiagnostics(selected, config)
        /\ refStack' = [i \in DOMAIN targets |-> Enter(targets[i], Head(refStack).depth + 1)]
                         \o <<ExitReference>> \o Tail(refStack)
  /\ chain' = <<>> /\ parent' = <<>> /\ stage' = "references"
  /\ UNCHANGED <<selected, active, visited, opening, spent, chosen, failure>>

GraphWalked ==
  /\ stage = "references" /\ refStack = <<>>
  /\ stage' = "sources"
  /\ UNCHANGED <<selected, walker, traversal, spent, expansions, chosen, diagnostics, failure>>

(* select_sources, for one configuration after the other. *)
SelectFiles ==
  /\ stage = "sources" /\ expansions # <<>>
  /\ SomeOf(Head(expansions).selection.files)
  /\ Accepted(SelectExplicit(selected, Head(expansions).base,
                             Head(expansions).selection.files[1]), "sources")
  /\ expansions' = Tail(expansions)
  /\ UNCHANGED <<selected, walker, traversal, diagnostics>>

SelectPatterns ==
  /\ stage = "sources" /\ expansions # <<>>
  /\ ~SomeOf(Head(expansions).selection.files)
  /\ IF Overdue(Head(expansions).base)
       THEN Refuse("timeout") /\ UNCHANGED <<chosen, spent>>
       ELSE Accepted(CollectFiles(selected, Head(expansions).base,
                                  <<Head(expansions).selection>>), "sources")
  /\ expansions' = Tail(expansions)
  /\ UNCHANGED <<selected, walker, traversal, diagnostics>>

SourcesSelected ==
  /\ stage = "sources" /\ expansions = <<>>
  /\ stage' = "found"
  /\ UNCHANGED <<selected, walker, traversal, spent, expansions, chosen, diagnostics, failure>>

Discover ==
  \/ RefuseSelection \/ SelectEntry \/ SelectDirectory \/ SelectTsconfig
  \/ LeaveConfig \/ ReferenceTooDeep \/ ReferenceCycle \/ ReferenceVisited \/ EnterConfig
  \/ OpenFails \/ OpenConfig \/ MergeConfig \/ BuiltConfig
  \/ GraphWalked \/ SelectFiles \/ SelectPatterns \/ SourcesSelected

----------------------------------------------------------------------------
(* What a selection means, without a traversal. *)

ReachedFrom(s, configs) ==
  LET Within[n \in Nat] ==
        IF n = 0 THEN configs
        ELSE LET near == Within[n - 1]
             IN near \cup UNION {Range(ReferenceTargets(s, c)) : c \in near}
  IN Within[Cardinality(DOMAIN s.configs)]
Reached(s) == ReachedFrom(s, {Real(s.path)})
OnReferenceCycle(s, config) == config \in ReachedFrom(s, Range(ReferenceTargets(s, config)))

(* A configuration and what it extends, nearest first, up to a repetition.   *)
Lineage(s, config) ==
  LET Line[n \in Nat] ==
        IF n = 0 THEN <<config>>
        ELSE LET line == Line[n - 1]
                 target == ExtendsTarget(s, Last(line))
             IN IF ~SomeOf(target) \/ target[1] \in Range(line) THEN line
                ELSE Append(line, target[1])
  IN Line[Cardinality(DOMAIN s.configs)]

(* The nearest of a lineage with some field, or its last.                    *)
Nearest(line, Has(_)) == Min({i \in DOMAIN line : Has(line[i])} \cup {Len(line)})

(* A pattern, meant from the directory of the file that declares it.         *)
MatchesFrom(directory, pattern, path) == Globs(NormalizeSafe(directory \o pattern), path)

MeantByPatterns(s, config, line) ==
  LET own(i)     == Parsed(s, line[i])
      directory(i) == DirectoryOf(line[i])
      including  == Nearest(line, LAMBDA c : IsPresent(Parsed(s, c).include))
      includes   == IF IsPresent(own(including).include) THEN own(including).include.value
                    ELSE {<<"**", "*">>}
      excluding  == Nearest(line, LAMBDA c : IsPresent(Parsed(s, c).exclude))
      excludes(i) == {<<"**", "node_modules">>, <<"**", "bower_components">>}
                       \cup {field.value : field \in
                              {f \in {own(i).outDir, own(i).declarationDir} : IsPresent(f)}}
                       \cup (IF i = excluding /\ IsPresent(own(i).exclude)
                               THEN own(i).exclude.value ELSE {})
      patterns   == includes \cup UNION {excludes(i) : i \in 1 .. excluding}
  IN IF \/ \E i \in DOMAIN line : Faulty(own(i).files) \/ Faulty(own(i).include)
        \/ \E p \in patterns : IsInvalid(p)
       THEN {}
       ELSE {p \in Range(Entries(s, DirectoryOf(config))) :
               /\ IsFileEntry(s, p)
               /\ \E q \in includes : MatchesFrom(directory(including), q, p)
               /\ \A i \in 1 .. excluding : \A q \in excludes(i) :
                    ~MatchesFrom(directory(i), q, p)}

(* Files that are listed, by the nearest that lists any, or else by pattern. *)
MeantBy(s, config) ==
  LET line    == Lineage(s, config)
      listing == {i \in DOMAIN line : Parsed(s, line[i]).files.kind # "Absent"}
      files   == Parsed(s, line[Min(listing)]).files
  IN IF listing = {} THEN MeantByPatterns(s, config, line)
     ELSE {Located(DirectoryOf(line[Min(listing)]), f) : f \in files.value}

Meant(s) ==
  {Real(p) : p \in
     {q \in CASE s.kind = "entry" -> {s.path}
              [] s.kind = "directory" -> {p \in Range(Entries(s, Real(s.path))) : IsFileEntry(s, p)}
              [] s.kind = "tsconfig" -> UNION {MeantBy(s, c) : c \in Reached(s)} :
        Real(q) \in Nodes /\ Classify(s, q) = "accepted"}}

(* Selections without the patterns whose meaning the code changes: "." and   *)
(* ".." are kept in a pattern that is not inherited and dropped, like a      *)
(* trailing slash, in one that is; a pattern of one component stops matching *)
(* base names when it is rebased; and what is inherited from a directory     *)
(* above is rebased to "../..", which no path below matches.                 *)
PatternsOf(parsed) ==
  (UNION {f.value : f \in {g \in {parsed.include, parsed.exclude} : IsPresent(g)}})
    \cup {f.value : f \in {g \in {parsed.outDir, parsed.declarationDir} : IsPresent(g)}}
Plain(s) ==
  s.kind = "tsconfig" =>
    \A c \in Reached(s) : \A d \in Range(Lineage(s, c)) :
      /\ ~IsStrictPrefix(DirectoryOf(d), DirectoryOf(c))
      /\ \A p \in PatternsOf(Parsed(s, d)) :
           Len(p) > 1 /\ ~IsAbsolute(p) /\ Range(p) \cap {".", "..", ""} = {}

(* A discovery that succeeds has found exactly the files its selection       *)
(* means: those of every configuration that references reach, whatever their *)
(* order and cycles, each read from the nearest file that declares it and at *)
(* the place where it is declared; a field or pattern that is invalid        *)
(* selects nothing.  It is refused for too many files only if there are too  *)
(* many, however often the configurations overlap.                           *)
SelectionIsExact ==
  /\ stage = "found" => Cardinality(chosen) <= MaxFiles /\ spent.entries <= MaxEntries
                           /\ spent.configs <= MaxConfigs /\ spent.bytes <= MaxConfigBytes
  /\ stage = "found" => \A p \in chosen : Classify(selected, p) = "accepted"
  /\ (stage = "found" /\ Plain(selected)) => chosen = Meant(selected)
  /\ (stage = "refused" /\ failure = <<"too many files">> /\ Plain(selected)) =>
       Cardinality(Meant(selected)) > MaxFiles

(* What discovery left out it has reported, and nothing else: the references *)
(* form a cycle exactly if one is reported, and every edge of "extends" that *)
(* is cut, every reference without a target, every field of a wrong type in  *)
(* a file that was read has its diagnostic.                                  *)
DiagnosticsAreEarned ==
  (stage = "found" /\ selected.kind = "tsconfig") =>
    LET s     == selected
        read  == UNION {Range(Lineage(s, c)) : c \in Reached(s)}
        ends  == {Last(Lineage(s, c)) : c \in Reached(s)}
        cuts  == {Diagnostic("extends cycle", c, ExtendsTarget(s, c)[1]) :
                    c \in {e \in ends : SomeOf(ExtendsTarget(s, e))}}
    IN /\ (\E d \in diagnostics : d.kind = "reference cycle")
            <=> (\E c \in Reached(s) : OnReferenceCycle(s, c))
       /\ {d \in diagnostics : d.kind \notin {"reference cycle", "pattern"}}
            = cuts \cup (UNION {FieldDiagnostics(s, c) \cup ExtendsDiagnostics(s, c) : c \in read})
                  \cup (UNION {ReferenceDiagnostics(s, c) : c \in Reached(s)})

=============================================================================
