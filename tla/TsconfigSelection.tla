-------------------------- MODULE TsconfigSelection --------------------------
(***************************************************************************)
(* What one tsconfig file selects (glass-lint-project/src/tsconfig):       *)
(* fields.rs parses a field into absent, null, of the wrong type or        *)
(* present; selection.rs merges a child into its parent, rebases what is   *)
(* inherited and compiles the patterns.                                    *)
(*                                                                         *)
(* A path, and a pattern, is the sequence of its components: a name, "."   *)
(* or "..", in a pattern also "*", "**" and Bad, a component that is no    *)
(* valid glob.  An absolute one starts with "/", a pattern that ends with  *)
(* a slash has an empty last component.  Names have no inner structure.    *)
(***************************************************************************)
EXTENDS Integers, Sequences, FiniteSets, FiniteSetsExt, SequencesExt

Bad == "["

IsAbsolute(path) == path # <<>> /\ Head(path) = "/"
JoinPath(base, path) == IF IsAbsolute(path) THEN Tail(path) ELSE base \o path
DirectoryOf(path) == Front(path)

SomeOf(opt) == opt # <<>>

----------------------------------------------------------------------------
(* Values of serde_json, as far as the fields tell them apart. *)
Absent      == [json |-> "absent"]
Null        == [json |-> "null"]
Number      == [json |-> "number"]
Text(path)  == [json |-> "string", text |-> path]
List(items) == [json |-> "array", items |-> items]
Object(path) == [json |-> "object", path |-> path]

Field(kind, value) == [kind |-> kind, value |-> value]
Unset(v, nothing) == Field(CASE v.json = "absent" -> "Absent"
                             [] v.json = "null" -> "Null"
                             [] OTHER -> "WrongType", nothing)

StringField(v) == IF v.json = "string" THEN Field("Present", v.text) ELSE Unset(v, <<>>)

StringArrayField(v) ==
  IF v.json = "array" /\ \A i \in DOMAIN v.items : v.items[i].json = "string"
    THEN Field("Present", {v.items[i].text : i \in DOMAIN v.items})
    ELSE Unset(v, {})

IsPresent(field) == field.kind = "Present"
Faulty(field)    == field.kind \in {"Null", "WrongType"}

(* parse_references: malformed entries leave a complaint and disappear. *)
WellFormedReference(entry) == entry.json = "object" /\ entry.path.json = "string"
ParseReferences(v) ==
  IF v.json = "array"
    THEN [paths |->
            LET kept[n \in 0 .. Len(v.items)] ==
                  IF n = 0 THEN <<>>
                  ELSE IF WellFormedReference(v.items[n])
                         THEN Append(kept[n - 1], v.items[n].path.text)
                  ELSE kept[n - 1]
            IN kept[Len(v.items)],
          complaints |-> {"references" : i \in {j \in DOMAIN v.items :
                                                  ~WellFormedReference(v.items[j])}}]
    ELSE [paths |-> <<>>,
          complaints |-> IF v.json \in {"absent", "null"} THEN {} ELSE {"references"}]

(* ParsedTsconfig::from_value, for the text of one file as a record. *)
ParseTsconfig(text) ==
  LET extends == StringField(text.extends)
      files   == StringArrayField(text.files)
      include == StringArrayField(text.include)
      exclude == StringArrayField(text.exclude)
      references == ParseReferences(text.references)
  IN [extends |-> extends, files |-> files, include |-> include, exclude |-> exclude,
      outDir  |-> StringField(text.outDir),
      declarationDir |-> StringField(text.declarationDir),
      references |-> references.paths,
      complaints |-> {f[1] : f \in {g \in {<<"extends", extends>>, <<"files", files>>,
                                          <<"include", include>>, <<"exclude", exclude>>} :
                                     Faulty(g[2])}} \cup references.complaints]

----------------------------------------------------------------------------
(* Rebasing *)

(* normalize_safe: no step leads above the root of the filesystem. *)
NormalizeSafe(path) ==
  FoldLeft(LAMBDA done, name : CASE name \in {".", ""} -> done
                                 [] name = ".." -> IF done = <<>> THEN done ELSE Front(done)
                                 [] OTHER -> Append(done, name),
           <<>>, path)

MakeRelative(absolute, base) ==
  LET common == Max({n \in 0 .. Len(base) : /\ n <= Len(absolute)
                                            /\ SubSeq(absolute, 1, n) = SubSeq(base, 1, n)})
  IN [i \in 1 .. Len(base) - common |-> ".."] \o SubSeq(absolute, common + 1, Len(absolute))

RebasePattern(pattern, from, to) ==
  IF IsAbsolute(pattern) THEN pattern
  ELSE MakeRelative(NormalizeSafe(from \o pattern), NormalizeSafe(to))

Rebase(patterns, from, to) == {RebasePattern(p, from, to) : p \in patterns}

----------------------------------------------------------------------------
(* MergedSelection: "files" is an option, a sequence of at most one list;    *)
(* the order within a list selects nothing else and is left out.             *)

EmptySelection == [files |-> <<>>, include |-> {}, exclude |-> {},
                   invalid |-> FALSE, hasParent |-> FALSE]

RebaseParent(merged, from, to) ==
  [merged EXCEPT !.files = [i \in DOMAIN @ |-> Rebase(@[i], from, to)],
                 !.include = Rebase(@, from, to),
                 !.exclude = Rebase(@, from, to),
                 !.hasParent = TRUE]

AppendExclusions(exclude, outDir, declarationDir) ==
  exclude \cup {<<"**", "node_modules">>, <<"**", "bower_components">>}
          \cup {field.value : field \in {f \in {outDir, declarationDir} : IsPresent(f)}}

DefaultInclude == {<<"**", "*">>}

(* Mutant: the flag of an invalid field is not inherited. *)
MergeChildForgetful(merged, child) ==
  LET files == IF Faulty(child.files) THEN <<{}>>
               ELSE IF IsPresent(child.files) THEN <<child.files.value>>
               ELSE merged.files
      invalid == Faulty(child.files) \/ Faulty(child.include)
      inherited(own, default) == IF merged.hasParent THEN own ELSE default
  IN IF SomeOf(files) /\ ~Faulty(child.files)
       THEN [merged EXCEPT !.files = files, !.invalid = invalid,
                           !.include = {}, !.exclude = {}]
       ELSE [merged EXCEPT
               !.files = files,
               !.invalid = invalid,
               !.include = IF Faulty(child.include) THEN {}
                           ELSE IF IsPresent(child.include) THEN child.include.value
                           ELSE inherited(@, DefaultInclude),
               !.exclude = AppendExclusions(
                             IF IsPresent(child.exclude) THEN child.exclude.value
                             ELSE inherited(@, {}), child.outDir, child.declarationDir)]

(* The child's fields replace the parent's.  A list of files switches the    *)
(* patterns off; a field that controls membership and is invalid marks the   *)
(* selection for good.                                                       *)
MergeChild(merged, child) ==
  LET files == IF Faulty(child.files) THEN <<{}>>
               ELSE IF IsPresent(child.files) THEN <<child.files.value>>
               ELSE merged.files
      invalid == merged.invalid \/ Faulty(child.files) \/ Faulty(child.include)
      inherited(own, default) == IF merged.hasParent THEN own ELSE default
  IN IF SomeOf(files) /\ ~Faulty(child.files)
       THEN [merged EXCEPT !.files = files, !.invalid = invalid,
                           !.include = {}, !.exclude = {}]
       ELSE [merged EXCEPT
               !.files = files,
               !.invalid = invalid,
               !.include = IF Faulty(child.include) THEN {}
                           ELSE IF IsPresent(child.include) THEN child.include.value
                           ELSE inherited(@, DefaultInclude),
               !.exclude = AppendExclusions(
                             IF IsPresent(child.exclude) THEN child.exclude.value
                             ELSE inherited(@, {}), child.outDir, child.declarationDir)]

(* merge_selection: the parent comes with the directory of its file. *)
MergeSelection(child, parent, directory) ==
  MergeChild(IF SomeOf(parent)
               THEN RebaseParent(parent[1].merged, parent[1].directory, directory)
               ELSE EmptySelection, child)

----------------------------------------------------------------------------
(* Compilation and matching *)

(* The glob crate lets "*" run across separators; "**" takes any number of   *)
(* whole components, and at least one where it ends the pattern.             *)
Globs(pattern, path) ==
  LET done == Len(pattern) + 1
      end  == Len(path) + 1
      From[i \in 1 .. done, j \in 1 .. end] ==
        IF i = done THEN j = end
        ELSE CASE pattern[i] = "**" ->
                    \E k \in (IF i = Len(pattern) THEN j + 1 ELSE j) .. end : From[i + 1, k]
               [] pattern[i] = "*" -> \E k \in j + 1 .. end : From[i + 1, k]
               [] OTHER -> j # end /\ path[j] = pattern[i] /\ From[i + 1, j + 1]
  IN From[1, 1]

(* A trailing slash means everything below. *)
NormalizedPattern(pattern) ==
  IF Len(pattern) > 1 /\ Last(pattern) = "" THEN Front(pattern) \o <<"**", "*">> ELSE pattern

(* A pattern of one component also matches a base name. *)
MatchesRelative(pattern, relative) ==
  \/ Globs(pattern, relative)
  \/ Len(pattern) = 1 /\ Globs(pattern, <<Last(relative)>>)

IsInvalid(pattern) == Bad \in Range(pattern)

CompileSelection(merged) ==
  [files      |-> merged.files,
   includes   |-> {NormalizedPattern(p) : p \in merged.include},
   excludes   |-> {NormalizedPattern(p) : p \in merged.exclude},
   failClosed |-> merged.invalid]

InvalidPatterns(selection) ==
  {p \in selection.includes \cup selection.excludes : IsInvalid(p)}

Includes(selection, relative) ==
  /\ ~selection.failClosed /\ InvalidPatterns(selection) = {}
  /\ \E p \in selection.includes : MatchesRelative(p, relative)
  /\ \A p \in selection.excludes : ~MatchesRelative(p, relative)

=============================================================================
