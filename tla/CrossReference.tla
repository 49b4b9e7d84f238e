--------------------------- MODULE CrossReference ----------------------------
(***************************************************************************)
(* What project-wide flow projection ought to find, read off the bodies of *)
(* the functions: the routes an object can take from call to call, with    *)
(* the evidence gathered along each.  Nothing here uses effects, contexts  *)
(* or a worklist.                                                          *)
(***************************************************************************)
EXTENDS CrossFlow

CONSTANT MaxHops   \* calls of a route (model only)

(* The value a local value is a copy of.                                   *)
Origin(f, v) ==
    FoldRight(LAMBDA fact, w : IF fact.k = "copy" /\ fact.to = w /\ fact.from # Unknown
                               THEN fact.from ELSE w,
              program.body[f], v)

Facts(f) == 1..Len(program.body[f])
IsCall(f, i) == program.body[f][i].k = "call"
IsBound(f, v) ==
    \/ \E q \in program.parameters[f] : q.value = v
    \/ \E i \in Facts(f) : program.body[f][i].k \in {"call", "copy"}
                           /\ program.body[f][i].to = v
    \/ \E i \in Facts(f) : program.body[f][i].k = "reference" /\ program.body[f][i].value = v

(* A function with control flow, or whose result is not understood, is not *)
(* looked into.                                                            *)
Opaque(f) == \E i \in Facts(f) :
    \/ program.body[f][i].k \in {"branch", "assign member"}
    \/ /\ program.body[f][i].k = "return"
       /\ program.body[f][i].value # Unknown
       /\ ~IsBound(f, program.body[f][i].value)

PlainParameters(f) == {q \in program.parameters[f] : q.path = <<>>}

------------------------------------------------------------------------------
(* Which values hold which objects: a returned value is held by the result *)
(* of the call, and so is an argument the target gives back.               *)

CallSites == {p \in UNION {{f} \X Facts(f) : f \in {f \in Functions : ~Opaque(f)}} :
                IsCall(p[1], p[2])}
Callee(p) == program.body[p[1]][p[2]].callee
Result(p) == <<p[1], program.body[p[1]][p[2]].to>>
Args(p) == program.body[p[1]][p[2]].args

Returned(f) == {Origin(f, program.body[f][i].value) :
                  i \in {i \in Facts(f) : program.body[f][i].k = "return"}}

Yields == UNION {
    LET g == Callee(p) IN
    {<<<<g, v>>, Result(p)>> :
        v \in {v \in Returned(g) : v # Unknown /\ \A q \in program.parameters[g] : q.value # v}}
    \cup
    {<<<<p[1], Origin(p[1], Args(p)[i].base)>>, Result(p)>> :
        i \in {i \in 1..Len(Args(p)) : Args(p)[i].path = <<>> /\
                 \E q \in PlainParameters(g) : q.index = i /\ q.value \in Returned(g)}}
    : p \in {p \in CallSites : Callee(p) \in Functions /\ ~Opaque(Callee(p))}}

SourceCalls == {p \in CallSites : Callee(p) = SourceCallee}

(* What can be reached from a node along a set of edges.                   *)
Reachable(edges, node) ==
    FoldLeft(LAMBDA reached, i : reached \cup {e[2] : e \in {e \in edges : e[1] \in reached}},
             {node}, [i \in 1..Cardinality(edges) |-> i])

(* The values that hold the object made by source call s.                  *)
Holders(s) == Reachable(Yields, Result(s))

------------------------------------------------------------------------------
(* Routes.  A hop is a call that hands an object to a plain parameter of   *)
(* its target.                                                             *)

Hops == UNION {
    {[from |-> p[1], at |-> p[2], value |-> Origin(p[1], Args(p)[q.index].base),
      to |-> Callee(p), parameter |-> q.value] :
        q \in {q \in PlainParameters(Callee(p)) :
                 q.index <= Len(Args(p)) /\ Args(p)[q.index].path = <<>>}} :
    p \in {p \in CallSites : Callee(p) \in Functions}}

Chains(first, second) ==
    /\ second.from = first.to /\ second.value = first.parameter
    /\ ~Opaque(first.to)

Routes ==
    LET hops == Hops
        ofLength[n \in 1..MaxHops] ==
          IF n = 1 THEN {<<h>> : h \in hops}
          ELSE {Append(rh[1], rh[2]) :
                  rh \in {rh \in ofLength[n - 1] \X hops :
                            Chains(rh[1][n - 1], rh[2])}}
    IN  UNION {ofLength[n] : n \in 1..MaxHops}

(* A trip is an object on a route: from a value that holds the object of a *)
(* source call, or, with no source, from an argument that holds none.      *)
NoCall == <<>>
LastOf(trip) == IF trip.route = <<>> THEN trip.start[1]
                ELSE trip.route[Len(trip.route)].to

Trips ==
    LET routes == Routes
        held == [s \in SourceCalls |-> Holders(s)]
        known == UNION {UNION {
                    {[start |-> h, source |-> s, route |-> r] :
                        r \in {<<>>} \cup {r \in routes : <<r[1].from, r[1].value>> = h}} :
                    h \in held[s]} : s \in SourceCalls}
        unknown == IF SourceCalls = {} THEN {}
                   ELSE {[start |-> <<r[1].from, r[1].value>>, source |-> NoCall, route |-> r] :
                           r \in {r \in routes : \A s \in SourceCalls :
                                      <<r[1].from, r[1].value>> \notin held[s]}}
    IN  {t \in known \cup unknown : ~Opaque(t.start[1]) /\ ~Opaque(LastOf(t))}

------------------------------------------------------------------------------
(* What happens to the object in the k-th function of a trip, up to fact e *)
(* of the last one.                                                        *)

FunctionAt(trip, k) == IF k = 1 THEN trip.start[1] ELSE trip.route[k - 1].to
ValueAt(trip, k) == IF k = 1 THEN trip.start[2] ELSE trip.route[k - 1].parameter
LeavesBefore(trip, k, e) == IF k <= Len(trip.route) THEN trip.route[k].at ELSE e + 1

(* Without a source, what was done before the first hop is not known to    *)
(* concern the lifecycle.                                                  *)
Visited(trip) == (IF trip.source = NoCall THEN 2 ELSE 1) .. (Len(trip.route) + 1)

Crossed(trip, k) ==
    \/ trip.source # NoCall /\ trip.start # Result(trip.source)
    \/ \E j \in 1..(k - 1) :
          program.module[trip.route[j].from] # program.module[trip.route[j].to]

(* A member call configures the object only where it came as a parameter.  *)
Touches(f, i, v) ==
    LET fact == program.body[f][i]
    IN  \/ fact.k = "write" /\ Origin(f, fact.on) = v
        \/ /\ fact.k = "call" /\ Origin(f, fact.on) = v
           /\ \E q \in PlainParameters(f) : q.value = v

Configures(f, i, v, r) ==
    LET fact == program.body[f][i]
    IN  /\ Touches(f, i, v)
        /\ IF r \in PropertyRequirements
           THEN fact.k = "write" /\ fact.property = r /\ fact.ok
           ELSE fact.k = "call" /\ fact.callee = r

IsSinkOf(f, i, v, k) ==
    /\ policy.sinks # "Configuration"
    /\ IsCall(f, i) /\ program.body[f][i].callee = k
    /\ program.body[f][i].args # <<>>
    /\ program.body[f][i].args[1].path = <<>>
    /\ Origin(f, program.body[f][i].args[1].base) = v

EventOf(f, i) == Qualified(program, f, FactOf(program, f, i))

FactsVisited(trip, e) ==
    UNION {{<<k, i>> : i \in 1..(LeavesBefore(trip, k, e) - 1)} : k \in Visited(trip)}
MetAlong(trip, e, r) ==
    {EventOf(FunctionAt(trip, p[1]), p[2]) :
        p \in {p \in FactsVisited(trip, e) :
                  Configures(FunctionAt(trip, p[1]), p[2], ValueAt(trip, p[1]), r)}}
SunkAlong(trip, e, k) ==
    {EventOf(FunctionAt(trip, p[1]), p[2]) :
        p \in {p \in FactsVisited(trip, e) :
                  /\ Crossed(trip, p[1])
                  /\ IsSinkOf(FunctionAt(trip, p[1]), p[2], ValueAt(trip, p[1]), k)}}

(* The trip arrives at fact e, after crossing, where the lifecycle may end.*)
Arrives(trip, e) ==
    LET last == Len(trip.route) + 1
    IN  /\ last \in Visited(trip)
        /\ Crossed(trip, last)
        /\ IF policy.sinks = "Configuration"
           THEN Touches(LastOf(trip), e, ValueAt(trip, last))
           ELSE \E k \in Sinks : IsSinkOf(LastOf(trip), e, ValueAt(trip, last), k)

Completes(trip, e) ==
    /\ trip.source # NoCall
    /\ IF policy.requirements = "Any"
       THEN \E r \in Requirements : MetAlong(trip, e, r) # {}
       ELSE \A r \in Requirements : MetAlong(trip, e, r) # {}
    /\ policy.sinks = "All" => \A k \in Sinks : SunkAlong(trip, e, k) # {}

(* The witness such a trip should leave.                                   *)
Trace(trip, e) ==
    [at     |-> EventOf(LastOf(trip), e),
     source |-> EventOf(trip.source[1], trip.source[2]),
     met    |-> UNION {MetAlong(trip, e, r) : r \in Requirements},
     sunk   |-> (UNION {SunkAlong(trip, e, k) : k \in Sinks}) \ {EventOf(LastOf(trip), e)}]

Arrivals == UNION {{<<t, e>> : e \in {e \in Facts(LastOf(t)) : Arrives(t, e)}} : t \in Trips}

------------------------------------------------------------------------------
(* Where the code is known to differ.  A candidate returned into another   *)
(* module is qualified with that module, so its trace names a fact of the  *)
(* wrong file and whether it has crossed is decided by coincidence.        *)
Misattributed(trip) ==
    trip.source # NoCall
      /\ program.module[trip.source[1]] # program.module[trip.start[1]]

Done == phase = "done"
EffectsComplete == Effects(program, limit.effects).complete

(* Every witness describes a real route: an object made by a source call,  *)
(* carried to that sink through the calls of the program, across modules,  *)
(* with the requirements it lists met on the way.  Contexts of different   *)
(* call sites are never combined into one witness.                         *)
WitnessHasRoute ==
    Done => \E arrivals \in {Arrivals} : \A w \in evidence.witnesses :
        IF w.source = NoSource THEN policy.sinks = "Configuration"
        ELSE \E a \in arrivals :
                /\ Completes(a[1], a[2])
                /\ LET trace == Trace(a[1], a[2])
                   IN  /\ trace.at = w.at
                       /\ trace.source[2] = w.source[2]
                       /\ Misattributed(a[1]) \/ trace.source = w.source
                       /\ w.met \subseteq trace.met /\ w.sunk \subseteq trace.sunk

(* A run that hit no limit leaves the witness of every complete route,     *)
(* with its whole trace: deduplicating contexts and projecting each once,  *)
(* in worklist order, loses none.                                          *)
CompleteRunFindsRoutes ==
    Done /\ complete /\ EffectsComplete =>
        \A a \in Arrivals :
            Completes(a[1], a[2]) /\ ~Misattributed(a[1]) =>
                Trace(a[1], a[2]) \in evidence.witnesses

(* A definite finding holds for every modelled way to its sink: no route   *)
(* from another call site, with another object or with none, arrives there *)
(* with the lifecycle incomplete.                                          *)
DefiniteOnEveryRoute ==
    Done /\ EffectsComplete /\ policy.sinks # "Configuration" =>
        \E definite \in {{w.at : w \in {w \in evidence.witnesses :
                                          Certainty(w.at) = "Definite"}}} :
            definite # {} =>
            \A a \in Arrivals :
                EventOf(LastOf(a[1]), a[2]) \in definite /\ ~Misattributed(a[1]) =>
                    Completes(a[1], a[2])

------------------------------------------------------------------------------
(* Which parameters reach a sink, by following calls inside one module.    *)

(* An argument that is a parameter of the caller, at the path the target   *)
(* binds it.                                                               *)
PassesOn(f, i, parameter, target) ==
    /\ IsCall(f, i) /\ program.body[f][i].callee \in Functions \ {f}
    /\ program.module[program.body[f][i].callee] = program.module[f]
    /\ target \in program.parameters[program.body[f][i].callee]
    /\ LET args == program.body[f][i].args IN
       /\ Len(args) <= Cardinality({q.index : q \in program.parameters[program.body[f][i].callee]})
       /\ \A j \in 1..Len(args) : args[j].value # Unknown /\ ~args[j].spread
       /\ \A q \in program.parameters[program.body[f][i].callee] :
             q.index <= Len(args) /\ (q.path = <<>> \/ args[q.index].inner # Unknown)
       /\ parameter.value = IF target.path = <<>> THEN args[target.index].value
                            ELSE args[target.index].inner

Sunk(f, i, parameter, path) ==
    /\ IsCall(f, i) /\ program.body[f][i].callee \in Sinks
    /\ program.body[f][i].args # <<>>
    /\ program.body[f][i].args[1].base = parameter.value
    /\ program.body[f][i].args[1].path = path

SummaryOf(f) ==
    LET nodes == UNION {{g} \X program.parameters[g] : g \in {g \in Functions : ~Opaque(g)}}
        edges == {e \in nodes \X nodes :
                    \E i \in Facts(e[1][1]) :
                       /\ IsCall(e[1][1], i) /\ program.body[e[1][1]][i].callee = e[2][1]
                       /\ PassesOn(e[1][1], i, e[1][2], e[2][2])}
    IN  IF Opaque(f) THEN {}
        ELSE UNION {
          {[index |-> q.index, path |-> q.path \o path] :
             path \in {path \in {<<>>, <<"d">>} :
                \E i \in Facts(f) : Sunk(f, i, q, path)}}
          \cup
          {[index |-> q.index, path |-> q.path] :
             x \in {x \in Reachable(edges, <<f, q>>) \ {<<f, q>>} :
                       \E i \in Facts(x[1]) : Sunk(x[1], i, x[2], <<>>)}}
          : q \in program.parameters[f]}

(* A summary lists exactly the parameters that reach a sink through calls  *)
(* that bind them as assumed: rounds reach every caller, in any order, and *)
(* stop only when nothing changes.  Cut short, it lists fewer and says so. *)
SummariesExact ==
    phase \notin {"facts", "summaries"} =>
        \A m \in Modules : \A f \in {f \in Functions : program.module[f] = m} :
            LET table == summaries[m].table
            IN  /\ table.sinks[f] \subseteq SummaryOf(f)
                /\ table.complete /\ EffectsComplete => table.sinks[f] = SummaryOf(f)
==============================================================================
