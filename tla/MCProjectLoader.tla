--------------------------- MODULE MCProjectLoader ---------------------------
(***************************************************************************)
(* Five files in waves of two.  1 imports 2 twice and 3, 2 imports 1, 3    *)
(* imports 5 and 4, 4 imports 5, and 5 a package.  Each limit can be       *)
(* reached: four files (three in the session), five requests, six bytes in *)
(* all and three bytes per file, while a file may grow by one byte and one *)
(* file may be removed.                                                    *)
(*                                                                         *)
(* They lie in a tree with four configurations, an excluded directory, an  *)
(* unsupported file, one file outside the project and links into lib and   *)
(* out.  Three families of selections are discovered: graphs of extends    *)
(* and references, fields and what they inherit, and lists of any subset   *)
(* of the files with entries and directories.                              *)
(***************************************************************************)
EXTENDS ProjectLoader

MCFiles    == 1 .. 5
MCBytes    == <<1, 1, 2, 3, 1>>
MCImports  == << <<2, 2, 3>>, <<1>>, <<5, 4>>, <<5>>, <<External>> >>

In(directory, name) == Append(directory, name)
Prj  == <<"prj">>
Lib  == In(Prj, "lib")
Src  == In(Prj, "src")
Gen  == In(Src, "gen")
Dist == In(Prj, "dist")
Out  == <<"out">>
Main == In(Prj, "tsconfig")
LibConfig == In(Lib, "tsconfig")
Base == In(Src, "base")
Deep == In(Src, "deep")

MCPathOf == << In(Prj, "a"), In(Lib, "a"), In(Lib, "b"), In(Src, "a"), In(Gen, "a") >>
MCSourceNodes == Range(MCPathOf) \cup {In(Dist, "a"), In(Out, "a")}
MCNodes == MCSourceNodes \cup {Prj, Lib, Src, Gen, Dist, Out, In(Lib, "notes"),
                               Main, LibConfig, Base, Deep}
MCExcludedNames == {"dist"}

Link == In(Prj, "link")
Way  == In(Prj, "way")
MCPathsInOrder ==
  << Out, In(Out, "a"), Prj, In(Prj, "a"), Dist, In(Dist, "a"),
     Lib, In(Lib, "a"), In(Lib, "b"), In(Lib, "notes"), LibConfig,
     Link, In(Link, "a"), In(Link, "b"), In(Link, "notes"), In(Link, "tsconfig"),
     Src, In(Src, "a"), Base, Deep, Gen, In(Gen, "a"), Main, Way, In(Way, "a") >>

MCLinks == Link :> Lib @@ Way :> Out

MCConfigSize(path) == IF path = Base THEN 2 ELSE 1

----------------------------------------------------------------------------
Plainly == [extends |-> Absent, files |-> Absent, include |-> Absent, exclude |-> Absent,
            outDir |-> Absent, declarationDir |-> Absent, references |-> Absent]

Texts(paths) == List([i \in DOMAIN paths |-> Text(paths[i])])
References(paths) == List([i \in DOMAIN paths |-> Object(Text(paths[i]))])

Tsconfig(path, follow, configs) ==
  [kind |-> "tsconfig", path |-> path, root |-> <<>>, follow |-> follow, configs |-> configs]
Others == Deep :> Plainly

Graphs ==
  {Tsconfig(Main, FALSE,
     Others @@
     Main :> [Plainly EXCEPT !.extends = em, !.references = rm, !.exclude = Texts(<< <<"lib", "b">> >>)] @@
     LibConfig :> [Plainly EXCEPT !.extends = el, !.references = rl,
                                  !.include = Texts(<< <<"**", "a">> >>)] @@
     Base :> [Plainly EXCEPT !.extends = eb, !.references = rb,
                             !.outDir = Text(<<"gen", "**">>)]) :
     em \in {Absent, Text(<<".", "lib", "tsconfig">>), Text(<<".", "src", "base">>)},
     rm \in {Absent, References(<< <<"lib">> >>),
             References(<< <<"lib">>, <<"src", "base">> >>),
             References(<< <<"src", "base">>, <<"lib">> >>)},
     el \in {Absent, Text(<<".", "tsconfig">>), Text(<<"..", "tsconfig">>),
             Text(<<"..", "src", "base">>)},
     rl \in {Absent, References(<< <<"..">> >>), References(<< <<"..", "src", "base">> >>)},
     eb \in {Absent, Text(<<"..", "lib", "tsconfig">>)},
     rb \in {Absent, References(<< <<"..", "tsconfig">>, <<"gone">> >>)}}

Odd ==
  {Tsconfig(Main, FALSE, Others @@ Main :> c @@ LibConfig :> Garbage @@ Base :> Plainly) :
     c \in {[Plainly EXCEPT !.exclude = Texts(<< <<"lib", "b">> >>), !.extends = e, !.references = r] :
              e \in {Text(<<".", "gone">>), Text(<<"pkg">>), Null, Number},
              r \in {Null, Number, List(<<Number, Object(Number), Object(Text(<<".">>))>>)}}
           \cup {[Plainly EXCEPT !.references = References(<< <<"lib">> >>)]}}
  \cup {Tsconfig(Main, FALSE,
          Main :> [Plainly EXCEPT !.extends = Text(<<".", "src", "deep">>)] @@
          Deep :> [Plainly EXCEPT !.extends = Text(<<".", "base">>)] @@
          Base :> [Plainly EXCEPT !.extends = Text(<<"..", "lib", "tsconfig">>)] @@
          LibConfig :> Plainly),
        Tsconfig(Main, FALSE,
          Main :> [Plainly EXCEPT !.references = References(<< <<"lib">>, <<"src", "base">>,
                                                               <<"src", "deep">> >>),
                                  !.include = Texts(<< <<"lib", "*">> >>)] @@
          Deep :> Plainly @@ Base :> Plainly @@ LibConfig :> Plainly)}

Inherited ==
  {Plainly,
   [Plainly EXCEPT !.files = Texts(<< <<"gen", "a">>, <<"..", "lib", "a">> >>)],
   [Plainly EXCEPT !.files = Null],
   [Plainly EXCEPT !.include = Number],
   [Plainly EXCEPT !.include = Texts(<< <<"gen", "**">>, <<"..", "lib", "">> >>)],
   [Plainly EXCEPT !.include = Texts(<< <<"gen", "*">> >>), !.outDir = Text(<<"gen", "b">>)],
   [Plainly EXCEPT !.exclude = Texts(<< <<"gen", "a">> >>), !.declarationDir = Text(<<"out", "**">>)]}

Fields ==
  {Tsconfig(Main, follow,
     Others @@ LibConfig :> Plainly @@ Base :> b @@
     Main :> [Plainly EXCEPT !.extends = Text(<<".", "src", "base">>), !.files = f, !.include = i,
                             !.exclude = e, !.outDir = o]) :
     follow \in BOOLEAN, b \in Inherited,
     f \in {Absent, Number, Texts(<< <<"a">>, <<"gone">>, <<"..", "out", "a">>, <<"dist", "a">>,
                                     <<"link", "a">>, <<"way", "a">> >>)},
     i \in {Absent, List(<<Number>>), Texts(<< <<"lib", "**">>, <<"src", "*">> >>),
            Texts(<< <<"**", "*">>, <<Bad>> >>), Texts(<< <<".", "lib", "**">>, <<"link", "">> >>)},
     e \in {Absent, Texts(<< <<"src", "**">> >>)},
     o \in {Absent, Text(<<"lib">>)}}

Lists ==
  {Tsconfig(Main, FALSE, Others @@ LibConfig :> Plainly @@ Base :> Plainly @@
     Main :> [Plainly EXCEPT !.files = Texts(SetToSeq({Tail(MCPathOf[f]) : f \in S}))]) :
     S \in SUBSET MCFiles}

Single ==
  {[kind |-> kind, path |-> path, root |-> root, follow |-> follow, configs |-> Others] :
     kind \in {"entry", "directory", "tsconfig"}, follow \in BOOLEAN,
     root \in {<<>>, <<Prj>>},
     path \in {Prj, Lib, In(Prj, "a"), In(Lib, "notes"), In(Dist, "a"), In(Out, "a"), Dist,
               In(Prj, "gone"), Link, In(Link, "b"), Way, Deep}}

MCSelections == Graphs \cup Odd \cup Fields \cup Lists \cup Single
=============================================================================
