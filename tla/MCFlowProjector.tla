--------------------------- MODULE MCFlowProjector ---------------------------
(***************************************************************************)
(* Small files for TLC.  An object is made by a source call, set up by     *)
(* writing its "src" property or calling its "cfg" member, and reported    *)
(* when it is appended or inserted.  Every file makes it, takes it through *)
(* one control construct, and uses it.                                     *)
(***************************************************************************)
EXTENDS FlowProjector

New(v) == [k |-> "new", to |-> v]
Copy(v, w) == [k |-> "copy", to |-> v, from |-> w]
Kill(v) == [k |-> "kill", to |-> v]
Spoil(v) == [k |-> "invalidate", to |-> v]
Write(v, property, ok) == [k |-> "write", to |-> v, property |-> property, ok |-> ok]
Call(v) == [k |-> "configure", to |-> v, requirement |-> "cfg"]
Sink(v, s) == [k |-> "sink", to |-> v, sink |-> s]
Helper(v) == [k |-> "helper", to |-> v]

If(then, else) == [k |-> "if", then |-> then, else |-> else]
Loop(guaranteed, body, update) ==
    [k |-> "loop", guaranteed |-> guaranteed, body |-> body, update |-> update]
Case(default, body) == [default |-> default, body |-> body]
Cases(cases) == [k |-> "switch", cases |-> cases]
Guarded(body, handler, final) ==
    [k |-> "try", body |-> body, handler |-> handler, final |-> final]
Body(block) == [k |-> "function", body |-> block]
Jump(kind) == [k |-> kind]

Set == Write("s", "src", TRUE)
Clear == Write("s", "*", FALSE)

(* Straight-line pieces, and pieces that leave the construct they are in.  *)
Changes == {<<Set>>, <<Kill("s")>>, <<New("s")>>, <<Copy("s", "t")>>, <<Clear>>}
Pieces == Changes \cup {<<>>}
Leaving(kinds) == {p \o <<Jump(kind)>> : p \in {<<>>, <<Set>>, <<Kill("s")>>}, kind \in kinds}

Branches ==
    {If(p, <<>>) : p \in Changes \cup Leaving({"return"})}
    \cup {If(p, <<q>>) : p \in Changes, q \in Pieces \cup {<<Spoil("s")>>}}
LoopPieces == {p \o <<If(l, <<>>)>> \o q :
    p \in {<<>>, <<Set>>}, l \in Leaving({"break", "continue", "return"}),
    q \in {<<>>, <<Set>>, <<Kill("s")>>, <<New("s")>>}}
Loops ==
    {Loop(g, b, <<>>) : g \in BOOLEAN, b \in Changes \cup LoopPieces}
    \cup {Loop(FALSE, <<If(l, <<>>)>> \o q, <<u>>) :
            l \in Leaving({"break", "continue"}), q \in {<<>>, <<Kill("s")>>},
            u \in {<<Set>>, <<New("s")>>, <<Copy("t", "s")>>}}
    \cup {Loop(g, p \o <<Loop(FALSE, b, <<>>)>> \o q, <<>>) :
            g \in BOOLEAN, p \in {<<>>, <<New("s")>>},
            b \in {<<Set>>, <<If(<<Kill("s"), Jump("break")>>, <<>>), Set>>},
            q \in {<<>>, <<Copy("t", "s")>>, <<If(<<Jump("continue")>>, <<>>), Kill("s")>>}}
Switches ==
    {Cases(<<Case(FALSE, p), Case(d, q)>>) :
        d \in BOOLEAN, p \in {<<>>, <<Set>>} \cup Leaving({"break", "return"}),
        q \in {<<Kill("s")>>, <<Set>>, <<Jump("break")>>}}
    \cup {Cases(<<Case(TRUE, p), Case(FALSE, q)>>) :
            p \in Leaving({"break"}), q \in {<<Kill("s")>>, <<Set>>}}
Tries ==
    {Guarded(p, <<q>>, <<>>) :
        p \in Pieces \cup {<<If(l, <<>>), Set>> : l \in Leaving({"return"})}, q \in Pieces}
    \cup {Guarded(p, c, <<f>>) : p \in Pieces, c \in {<<>>, <<<<>>>>, <<<<Kill("s")>>>>},
                                 f \in {<<>>, <<Set>>, <<Clear>>}}
    \cup {Guarded(<<If(l, <<>>)>> \o p, <<>>, <<f>>) :
            l \in Leaving({"return"}), p \in {<<>>, <<Set>>}, f \in {<<>>, <<Set>>, <<Clear>>}}
(* Finalizers.  Exits of a try statement with one, by return, by a jump    *)
(* out of it, of a loop inside it or of both, told apart by pieces before, *)
(* in and behind the finalizer; and finalizers that jump or branch.        *)
Jumps == {<<Jump("break")>>}
    \cup {<<If(p \o <<Jump(kind)>>, <<>>)>> : p \in {<<>>, <<Set>>},
                                             kind \in {"break", "continue"}}
Handlers == {<<>>, <<<<>>>>, <<<<Kill("s")>>>>}
Finals == {<<<<>>>>, <<<<Set>>>>, <<<<Clear>>>>}
ReturnedTries ==
    {Guarded(<<If(l, <<>>)>> \o p, c, <<f>>) :
        l \in Leaving({"return"}), p \in {<<>>, <<Set>>, <<If(<<Set>>, <<>>)>>},
        c \in Handlers, f \in {<<>>, <<Set>>, <<Clear>>, <<Sink("s", "append")>>}}
JumpedTries ==
    {Loop(g, <<Guarded(j \o p, c, f)>> \o q, <<>>) :
        g \in BOOLEAN, j \in Jumps, p \in {<<>>, <<Set>>}, c \in Handlers,
        f \in Finals \cup {<<>>}, q \in {<<>>, <<Set>>}}
    \cup {Guarded(<<Loop(g, j, <<>>)>> \o p, c, f) :
            g \in BOOLEAN, j \in Jumps, p \in {<<>>, <<Set>>, <<Clear>>},
            c \in Handlers, f \in Finals \cup {<<>>}}
    \cup {Loop(g, <<Guarded(<<Loop(FALSE, j, <<>>)>> \o p, <<>>, f)>>, <<>>) :
            g \in BOOLEAN, j \in Jumps, p \in {<<>>, <<Set>>}, f \in Finals \cup {<<>>}}
JumpingFinals ==
    {Loop(g, <<If(<<Guarded(p, <<>>, <<f \o <<Jump(kind)>>>>)>>, <<>>), q>>, <<>>) :
        g \in BOOLEAN, p \in {<<Set>>, <<If(<<Jump("return")>>, <<>>)>>},
        f \in {<<>>, <<Set>>}, kind \in {"break", "continue"}, q \in {Set, Kill("s")}}
BranchedFinals ==
    {Guarded(p, c, <<<<If(q, <<>>)>>>>) : p \in Pieces, c \in Handlers, q \in {<<Set>>, <<Clear>>}}

Functions ==
    {Body(<<New("s"), Set>> \o j \o <<Sink("s", "append")>>) :
        j \in {<<>>, <<If(<<Jump("return")>>, <<>>)>>, <<Kill("s")>>}}

Prologues == {<<New("s")>>, <<New("s"), Set>>, <<New("s"), Copy("t", "s")>>}
Uses == {<<Sink("s", "append")>>, <<Set, Call("s"), Helper("t")>>}
SinksInLoops == {Loop(g, <<Sink("s", "append")>> \o p, <<>>) : g \in BOOLEAN, p \in Pieces}

Generous == [alternatives |-> 4, operations |-> 200, objects |-> 4, states |-> 4,
             mutations |-> 100, emissions |-> 4]
Tight == {[Generous EXCEPT !.alternatives = 1], [Generous EXCEPT !.alternatives = 2],
          [Generous EXCEPT !.operations = 9], [Generous EXCEPT !.operations = 17],
          [Generous EXCEPT !.objects = 1], [Generous EXCEPT !.states = 1],
          [Generous EXCEPT !.mutations = 4], [Generous EXCEPT !.emissions = 1]}

TightPaths == {l \in Tight : l.alternatives < 4 \/ l.operations = 17 \/ l.mutations = 4}

Policy(requirements, sinks) == [requirements |-> requirements, sinks |-> sinks]
AnySink == Policy("Any", "Any")

Constructs == Branches \cup Loops \cup Switches \cup Tries \cup Functions
Finalized == ReturnedTries \cup JumpedTries \cup JumpingFinals \cup BranchedFinals

FilesAround(constructs) ==
    {[block |-> p \o <<c, Sink("s", "append")>>, policy |-> AnySink, limits |-> Generous] :
        p \in Prologues, c \in constructs}

(* Alone they are the shortest way to what the properties below exempt: in *)
(* the first DefiniteOnEveryPath does not hold, in the second              *)
(* FindingsWitnessed.                                                      *)
BranchedFinalFiles == FilesAround(BranchedFinals)
JumpedTryFiles == FilesAround(JumpedTries)

MCProjections ==
    FilesAround(Finalized)
    \cup {[block |-> p \o <<c>> \o u, policy |-> q, limits |-> Generous] :
        p \in Prologues, c \in Constructs, u \in Uses,
        q \in {AnySink, Policy("Any", "Configuration")}}
    \cup {[block |-> p \o <<c>> \o <<Set, Call("s"), Sink("s", "append"), Sink("s", "insert")>>,
           policy |-> q, limits |-> Generous] :
        p \in Prologues, c \in Branches \cup SinksInLoops,
        q \in {Policy("All", "All"), Policy("All", "Any"), Policy("Any", "All")}}
    \cup {[block |-> p \o <<c, Sink("s", "append")>>, policy |-> AnySink, limits |-> l] :
        p \in Prologues, c \in Constructs, l \in Tight}
    \cup {[block |-> <<New("s"), c, Sink("s", "append")>>, policy |-> AnySink, limits |-> l] :
        c \in Finalized, l \in TightPaths}

------------------------------------------------------------------------------
(* What a finalizer misplaces.  The paths that entered it normally are     *)
(* told at its end by their number, and a jump out of a try block goes to  *)
(* its target at once and once more from behind the finalizer.  Whether a  *)
(* file is one of those this misleads is known when it happens: "misplaced" *)
(* is a history variable.                                                  *)
VARIABLE misplaced

InFinalizer == stack # <<>> /\ Top.k = "Try" /\ Top.hasFinally
(* Two of the paths that entered normally have got the same meaning, and   *)
(* an exit moves up to their place.                                        *)
MergesNormal(paths, count) ==
    LET normal == SubSeq(paths, 1, Min({count, Len(paths)}))
    IN  Cardinality({SemanticSnapshot(normal[i]) : i \in DOMAIN normal}) < Len(normal)

SplitsFinalizer == InFinalizer /\ Fact.k \in {"BranchStart", "SwitchStart", "TryStart", "LoopStart"}
MergesInFinalizer ==
    /\ InFinalizer /\ Top.abrupt # <<>> /\ Fact.k \in StraightlineKinds
    /\ MergesNormal(TransferAll(frontier, run).paths, Top.normalCount)
MergesBeforeFinalizer ==
    /\ Fact.k = "FinallyStart" /\ OnTop("Try") /\ Top.abrupt # <<>>
    /\ MergesNormal(Top.tryExit \o frontier, Len(Top.tryExit \o frontier))
(* A jump has somewhere to go, and the finalizer does something, or the    *)
(* jump may be one that was over inside the try block, or is mistaken for  *)
(* one of another kind.                                                    *)
JumpsAround ==
    /\ Fact.k = "TryEnd" /\ OnTop("Try") /\ Top.hasFinally
    /\ \E exit \in ToSet(Top.abrupt) : exit.kind # "return" /\ HasTarget(exit.kind, Pop)
    /\ \/ file.facts[pc - 1].k # "FinallyStart"
       \/ \E i \in Top.region..pc : file.facts[i].k \in {"LoopStart", "SwitchStart"}
       \/ \E exit, other \in ToSet(Top.abrupt) : exit.kind # other.kind

Misplaces ==
    /\ pc <= Len(file.facts)
    /\ SplitsFinalizer \/ MergesInFinalizer \/ MergesBeforeFinalizer \/ JumpsAround

MCInit == Init /\ misplaced = FALSE
MCNext == Next /\ misplaced' = (misplaced \/ Misplaces)
MCSpec == MCInit /\ [][MCNext]_<<vars, misplaced>>

(* Unless a finalizer misplaced paths, what is Definite holds in every     *)
(* execution that reaches the event: exits through finalizers included.    *)
DefiniteWhenPlaced == misplaced \/ DefiniteOnEveryPath

(* Unless a finalizer misplaced paths, each finding is the lifecycle of    *)
(* one execution, whatever exits were replayed to get there.               *)
WitnessedWhenPlaced == misplaced \/ FindingsWitnessed

(* Unless a finalizer misplaced paths, a run that met no bound and lost no *)
(* exit misses nothing: an exit that finds no target costs the run its     *)
(* completeness.                                                           *)
ExactWhenPlaced == misplaced \/ CompleteRunIsExact
==============================================================================
