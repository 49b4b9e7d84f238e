------------------------------ MODULE MCQuery ------------------------------
(* A small catalog author and seven small files for QueryPipeline.  Names   *)
(* are paths of one or two segments, static strings are made of the        *)
(* letters a and b.                                                        *)
EXTENDS QueryPipeline

Fetch == <<"fetch">>
Write == <<"document", "write">>
Pkg == <<"pkg">>
Sub == <<"pkg", "sub">>
Run == <<"run">>
Go == <<"go">>

MCGlobalObjects == {"window"}
MCGlobalMembers == {"document", "fetch"}

A == <<"a">>
AB == <<"a", "b">>

MCSelections ==
  {CallGlobal(Fetch), CallModule(Pkg, Run), CallPackage(Pkg, Run), MemberCallRooted(Write),
   MemberCallModule(Pkg, Run), ConstructorGlobal(Fetch), StringContains(AB)}

MCOpeners ==
  {CallHeuristic(Run), MemberCallHeuristic(Write), ClassModule(Pkg, Run), ImportPackage(Pkg),
   MemberCallPackage(Pkg, Run), MemberReadRooted(Write), MemberReadModule(Pkg, Run),
   PropertyWriteRooted(Write), ImportExact(Sub), StringPrivateNetworkAddress, ClassHeuristic(Run),
   ConstructorRooted(Write), ConstructorHeuristic(Fetch), ConstructorModule(Pkg, Run)}

MCArguments ==
  {Constraint(0, WithStaticPredicate(StaticString, "Exact", {A, <<"b">>})),
   Constraint(0, WithStaticPredicate(StaticString, "Prefix", {AB})),
   Constraint(0, WithStaticPredicate(StaticString, "ContainsAll", {A, <<"b">>})),
   Constraint(0, RootedExpressions({<<"x">>}))}

MCSubjects ==
  {MemberCallInstance(Pkg, Go, Run), MemberCallReturned(Fetch, Run), MemberReadReturned(Fetch, Run)}

MCLifecycles ==
  LET done == <<"Sink", {"sink"}>>
  IN  {LifecycleOf(Go, <<CallGlobal(Fetch)>>, <<>>, done),
       LifecycleOf(Go, <<CallGlobal(Fetch), MemberCallRooted(Write)>>, <<>>, done),
       LifecycleOf(Go, <<CallModule(Pkg, Run)>>, <<>>, done)}

Text(letters) == [is |-> "static", text |-> letters]

\* fetch("ab"), window.fetch("a"), and a local function of that name.
GlobalCalls ==
  <<[NoFact("Call") EXCEPT !.name = Fetch, !.global = Fetch, !.args = <<Text(AB)>>],
    [NoFact("Call") EXCEPT !.name = Fetch, !.path = <<"window", "fetch">>,
       !.rooted = <<"window", "fetch">>, !.global = Fetch, !.args = <<Text(A)>>],
    [NoFact("Call") EXCEPT !.name = Fetch, !.args = <<Text(A)>>],
    [NoFact("Construction") EXCEPT !.name = Fetch, !.global = Fetch]>>

\* run() and run("a") imported from pkg, and the same export of pkg/sub.
ModuleCalls ==
  <<[NoFact("Call") EXCEPT !.name = Run, !.export = <<Pkg, Run>>, !.args = <<>>],
    [NoFact("Call") EXCEPT !.name = Go, !.export = <<Pkg, Run>>, !.args = <<Text(A)>>],
    [NoFact("Call") EXCEPT !.name = Run, !.export = <<Sub, Run>>, !.args = <<Text(AB)>>]>>

\* ns.run("a") for a namespace import of pkg, beside run() from pkg/sub.
NamespaceCalls ==
  <<[NoFact("Call") EXCEPT !.name = Run, !.path = <<"ns", "run">>, !.rooted = <<"ns", "run">>,
       !.export = <<Pkg, Run>>, !.member = <<Pkg, Run>>, !.args = <<Text(A)>>],
    [NoFact("Call") EXCEPT !.name = Go, !.export = <<Sub, Go>>]>>

\* document.write(x), window.document.write("ab"), document.write.call(..).
RootedCalls ==
  <<[NoFact("Call") EXCEPT !.name = <<"write">>, !.path = Write, !.rooted = Write,
       !.args = <<[is |-> "rooted", text |-> <<"x">>]>>],
    [NoFact("Call") EXCEPT !.name = <<"write">>, !.path = <<"window">> \o Write,
       !.rooted = <<"window">> \o Write, !.args = <<Text(AB)>>],
    [NoFact("Call") EXCEPT !.name = <<"call">>, !.path = Append(Write, "call"),
       !.rooted = Append(Write, "call"), !.unwrapped = Write]>>

\* new go().run(), fetch().run() and the read fetch().run.
SubjectUses ==
  <<[NoFact("Call") EXCEPT !.name = Run, !.path = <<"g", "run">>, !.instance = <<Pkg, Go>>],
    [NoFact("Call") EXCEPT !.name = Run, !.path = <<"r", "run">>, !.returned = <<Fetch, Run>>],
    [NoFact("MemberRead") EXCEPT !.path = <<"r", "run">>, !.returned = <<Fetch, Run>>]>>

\* import 'pkg/sub', class extends run, class run {..}, "bab", and a write.
Declarations ==
  <<[NoFact("Import") EXCEPT !.text = Sub],
    [NoFact("Class") EXCEPT !.name = Run, !.export = <<Pkg, Run>>],
    [NoFact("Class") EXCEPT !.name = Run, !.export = <<Pkg, Run>>, !.declaration = TRUE],
    [NoFact("Reference") EXCEPT !.text = <<"b", "a", "b">>],
    [NoFact("PropertyWrite") EXCEPT !.rooted = Write]>>

\* window.document.write and ns.run read, new write(), new run() imported from
\* pkg, new fetch(), and "10.".
Reads ==
  <<[NoFact("MemberRead") EXCEPT !.path = <<"window">> \o Write, !.rooted = <<"window">> \o Write],
    [NoFact("MemberRead") EXCEPT !.path = <<"ns", "run">>, !.member = <<Pkg, Run>>],
    [NoFact("Construction") EXCEPT !.name = <<"write">>, !.rooted = Write],
    [NoFact("Construction") EXCEPT !.name = Run, !.export = <<Pkg, Run>>],
    [NoFact("Construction") EXCEPT !.name = Fetch, !.global = Fetch],
    [NoFact("Reference") EXCEPT !.text = <<"1", "0", ".">>]>>

External(module, export) == [is |-> "External", module |-> module, export |-> export]
Linkings ==
  {<<>>,
   <<Pkg, Run>> :> External(Sub, Go),
   <<Sub, Go>> :> External(Pkg, Run),
   <<Pkg, Run>> :> [is |-> "Unknown", module |-> <<>>, export |-> <<>>],
   <<Pkg, Wildcard>> :> External(Sub, Wildcard),
   <<Pkg, Run>> :> [is |-> "Global", module |-> <<>>, export |-> Fetch]}

\* Linking matters to the files that import.
MCPrograms ==
  ({GlobalCalls, ModuleCalls, NamespaceCalls, RootedCalls, SubjectUses, Declarations, Reads} \X {<<>>})
    \union ({ModuleCalls, NamespaceCalls, Declarations, Reads} \X Linkings)

MCTexts == SeqOf({"a", "b"}, 3)

=============================================================================
