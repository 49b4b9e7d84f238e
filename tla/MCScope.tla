------------------------------ MODULE MCScope ------------------------------
(* Small files for ScopeReference: two statements of every kind around x   *)
(* and y, and functions with their calls.  A, B and C are globals.         *)
EXTENDS ScopeReference

ToB == Assign("x", "B")
ToC == Assign("x", "C")
External == Call("outside", <<>>)

Bodies ==
  {<<ToB, Use("x")>>, <<Use("x"), Assign("y", "x")>>, <<ToB, Jump("return")>>, <<ToC, External>>}
LoopBodies ==
  {<<Use("x"), ToB>>, <<ToB, Jump("break")>>,
   <<If(<<Jump("continue")>>), ToC, Use("x")>>, <<If(<<ToB, Jump("break")>>), ToC>>,
   <<Declare("let", "x", "B"), Use("x")>>, <<Declare("var", "v", "B"), Use("v")>>}
Cases ==
  {<<<<ToB, Jump("break")>>, <<Use("x")>>>>, <<<<ToB>>, <<Use("x"), ToC, Jump("break")>>>>,
   <<<<ToB, Jump("break")>>, <<ToC, Jump("return")>>>>, <<<<Jump("break")>>, <<ToC>>>>}

Handle(param, body) == <<[param |-> param, body |-> body]>>
Compounds ==
  {If(b) : b \in Bodies}
  \union {IfElse(b, c) : b, c \in Bodies}
  \union {While(b) : b \in LoopBodies} \union {DoWhile(b) : b \in LoopBodies}
  \union {For(<<Declare(k, "x", "C")>>, b) : k \in {"let", "var"}, b \in {<<ToB>>, <<Use("x")>>}}
  \union {Switch(c, d) : c \in Cases, d \in BOOLEAN}
  \union {Try(b, Handle(p, <<Use("x"), ToC>>), f) :
            b \in {<<ToB>>, <<External, ToB>>, <<ToB, Jump("throw")>>}, p \in {"e", "x"},
            f \in {<<>>, <<<<Use("x")>>>>}}
  \union {Try(<<ToB>>, <<>>, <<<<Use("x"), Assign("y", "x")>>>>),
          Try(<<External, ToB>>, <<>>, <<<<ToC>>>>),
          With(<<Declare("var", "w", "B"), Use("w"), Use("x")>>),
          Call("eval", <<>>),
          If(<<IfElse(<<ToB, Jump("return")>>, <<Jump("return")>>)>>),
          Inline(<<"p", "x">>, <<"x", "C">>, <<Use("p"), Use("x"), Assign("p", "B"), Use("p")>>),
          Inline(<<>>, <<>>, <<Declare("var", "v", "x"), ToB, Use("v"), Call("eval", <<>>), Use("x")>>)}

Scripts ==
  {<<Declare("let", "x", "A"), Declare("let", "y", NoInit), c, Use("x"), d, Use("x"), Use("y")>> :
     c, d \in Compounds}

Helper(body) == Function("g", <<"p", "q">>, body)
HelperBodies ==
  {<<Use("p"), Use("q")>>, <<Use("p"), Assign("p", "B"), Use("p")>>, <<If(<<Jump("return")>>), Use("q")>>,
   <<If(<<Call("g", <<"p", "q">>)>>), Use("p")>>}
CallSets ==
  LET given == {<<"A", "A">>, <<"A", "B">>, <<"x", "B">>, <<"A">>, <<Opaque, "B">>}
      one(a) == Call("g", a)
  IN  {<<one(a)>> : a \in given} \union {<<one(a), one(b)>> : a, b \in given}
        \union {<<If(<<one(a)>>), ToB, one(b)>> : a, b \in {<<"A", "B">>, <<"x", "B">>}}
        \union {<<Declare("let", "h", "g"), one(<<"A", "B">>), Call("h", <<"B", "B">>)>>,
                <<Declare("var", "A", "B"), one(<<"A", "C">>)>>,
                <<Inline(<<"A">>, <<"C">>, <<one(<<"A", "B">>)>>), one(<<"C", "B">>)>>,
                <<Import("m", "M"), one(<<"m", "m">>), Function("k", <<>>, <<one(<<"m", "m">>)>>)>>}
Helpers ==
  {<<Declare("let", "x", "A"), Helper(b)>> \o c : b \in HelperBodies, c \in CallSets}

MCPrograms == Scripts \union Helpers

=============================================================================
