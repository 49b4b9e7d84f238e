----------------------------- MODULE MCCrossFlow -----------------------------
(***************************************************************************)
(* Programs of three functions: main calls mid, mid calls leaf.  Each body *)
(* comes from a small catalogue, each function from one of three modules.  *)
(***************************************************************************)
EXTENDS CrossReference

(* Facts of a body.                                                        *)
Plain(v) == [base |-> v, path |-> <<>>, value |-> v, inner |-> "?", spread |-> FALSE]
MemberOf(v) == [base |-> v, path |-> <<"d">>, value |-> "member", inner |-> "?", spread |-> FALSE]
ObjectWith(v) == [base |-> "object", path |-> <<>>, value |-> "object", inner |-> v, spread |-> FALSE]
SpreadOf(v) == [Plain(v) EXCEPT !.spread = TRUE]

Calls(callee, args, to) == [k |-> "call", callee |-> callee, args |-> args, to |-> to, on |-> "?"]
Source(to) == Calls("source", <<>>, to)
SinkOn(k, v) == Calls(k, <<Plain(v)>>, "done")
Method(on) == [k |-> "call", callee |-> "go", args |-> <<>>, to |-> "gone", on |-> on]
Write(on) == [k |-> "write", on |-> on, property |-> "src", ok |-> TRUE]
Copy(to, from) == [k |-> "copy", to |-> to, from |-> from]
Return(v) == [k |-> "return", value |-> v]
Reference(v) == [k |-> "reference", value |-> v]
Branch == [k |-> "branch"]

P == {[index |-> 1, path |-> <<>>, value |-> "p"]}
Destructured == {[index |-> 1, path |-> <<"d">>, value |-> "p"]}

LeafBodies == {
    [parameters |-> P, body |-> <<SinkOn("k1", "p")>>],
    [parameters |-> P, body |-> <<Write("p"), SinkOn("k1", "p")>>],
    [parameters |-> P, body |-> <<SinkOn("k1", "p"), Method("p"), SinkOn("k2", "p")>>],
    [parameters |-> P, body |-> <<Branch, SinkOn("k1", "p")>>],
    [parameters |-> P, body |-> <<Calls("k1", <<MemberOf("p")>>, "done"), Return("p")>>],
    [parameters |-> Destructured, body |-> <<SinkOn("k1", "p")>>],
    [parameters |-> P, body |-> <<Copy("x", "p"), Write("x"), SinkOn("k1", "x"), Return("x")>>],
    [parameters |-> P, body |-> <<Method("p"), Calls("leaf", <<Plain("p")>>, "r"),
                                  SinkOn("k1", "p")>>]}

MidBodies == {
    [parameters |-> P, body |-> <<Calls("leaf", <<Plain("p")>>, "r")>>],
    [parameters |-> P, body |-> <<Write("p"), Calls("leaf", <<Plain("p")>>, "r"), Method("p")>>],
    [parameters |-> P, body |-> <<Calls("leaf", <<Plain("p")>>, "r"), Return("r")>>],
    [parameters |-> P, body |-> <<Source("x"), Return("x")>>],
    [parameters |-> P, body |-> <<Calls("leaf", <<Plain("p")>>, "r"), Reference("w"), Return("w")>>],
    [parameters |-> P, body |-> <<Source("x"), Write("x"), Calls("leaf", <<Plain("x")>>, "r"),
                                  SinkOn("k2", "p")>>],
    [parameters |-> P, body |-> <<Calls("leaf", <<ObjectWith("p")>>, "r"), Return("?")>>],
    [parameters |-> P, body |-> <<Calls("leaf", <<SpreadOf("p")>>, "r"), Return("member")>>],
    [parameters |-> P, body |-> <<Calls("leaf", <<Plain("w")>>, "r"), SinkOn("k1", "r")>>]}

MainBodies == {
    [parameters |-> {}, body |-> <<Source("x"), Calls("mid", <<Plain("x")>>, "r")>>],
    [parameters |-> {}, body |-> <<Source("x"), Write("x"), Calls("mid", <<Plain("x")>>, "r"),
                                   SinkOn("k1", "r")>>],
    [parameters |-> {}, body |-> <<Calls("mid", <<Plain("w")>>, "r"),
                                   Calls("leaf", <<Plain("r")>>, "s")>>],
    [parameters |-> {}, body |-> <<Source("x"), Calls("mid", <<Plain("x")>>, "r"),
                                   Calls("leaf", <<Plain("w")>>, "s")>>],
    [parameters |-> {}, body |-> <<Source("x"), Calls("leaf", <<Plain("x")>>, "s"), Write("x"),
                                   Calls("mid", <<Plain("x")>>, "r")>>],
    [parameters |-> {}, body |-> <<Source("x"), Source("y"), Method("y"),
                                   Calls("leaf", <<Plain("x")>>, "s"),
                                   Calls("leaf", <<Plain("y")>>, "t")>>],
    [parameters |-> P, body |-> <<Calls("mid", <<Plain("p")>>, "r")>>]}

Layouts == {<<"A", "A", "A">>, <<"A", "B", "B">>, <<"A", "B", "C">>, <<"A", "B", "A">>}

MCFunctionOrder == <<"main", "mid", "leaf">>
ByFunction(main, mid, leaf) ==
    [f \in {"main", "mid", "leaf"} |->
        IF f = "main" THEN main ELSE IF f = "mid" THEN mid ELSE leaf]
MCPrograms ==
    {[module     |-> ByFunction(l[1], l[2], l[3]),
      parameters |-> ByFunction(a.parameters, b.parameters, c.parameters),
      body       |-> ByFunction(a.body, b.body, c.body)] :
        l \in Layouts, a \in MainBodies, b \in MidBodies, c \in LeafBodies}

MCPolicies == {[requirements |-> "Any", sinks |-> "Any"],
               [requirements |-> "All", sinks |-> "Any"],
               [requirements |-> "Any", sinks |-> "All"],
               [requirements |-> "Any", sinks |-> "Configuration"]}

Ample == [effects |-> 100, flow |-> 100]
MCLimits == {Ample, [effects |-> 9, flow |-> 4]}
==============================================================================
