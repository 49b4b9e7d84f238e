---------------------------- MODULE ScopeSyntax ----------------------------
(***************************************************************************)
(* The statements that scope analysis looks at, and the order in which     *)
(* ScopeTraversal (scope/build/traversal.rs) walks them: a program is      *)
(* flattened into the sequence of hooks the traversal calls, each carrying *)
(* the span it is called with.  Positions are indices into that sequence.  *)
(* Expressions are reduced to a name or to "opaque"; patterns, members and *)
(* constants are left out.                                                 *)
(***************************************************************************)
EXTENDS Naturals, Sequences, FiniteSets

Opaque == "opaque"     \* an expression without a provenance: a fresh object, a sum, ...
NoInit == "none"       \* a declaration without an initializer

-----------------------------------------------------------------------------
(* Statements.                                                             *)

Declare(kind, name, rhs) == [is |-> "declare", kind |-> kind, name |-> name, rhs |-> rhs]
Import(name, export) == [is |-> "import", name |-> name, rhs |-> export]
Assign(name, rhs) == [is |-> "assign", name |-> name, rhs |-> rhs]
Use(name) == [is |-> "use", name |-> name]
Call(name, given) == [is |-> "call", name |-> name, given |-> given]
If(then) == [is |-> "if", then |-> then, else |-> <<>>, alternative |-> FALSE]
IfElse(then, else) == [is |-> "if", then |-> then, else |-> else, alternative |-> TRUE]
While(body) == [is |-> "loop", guaranteed |-> FALSE, body |-> body]
DoWhile(body) == [is |-> "loop", guaranteed |-> TRUE, body |-> body]
For(header, body) == [is |-> "for", header |-> header, body |-> body]
Switch(cases, default) == [is |-> "switch", cases |-> cases, default |-> default]
Try(body, handlers, finalizers) ==
  [is |-> "try", body |-> body, handlers |-> handlers, finalizers |-> finalizers]
With(body) == [is |-> "with", body |-> body]
Function(name, params, body) ==
  [is |-> "function", inline |-> FALSE, name |-> name, params |-> params, given |-> <<>>, body |-> body]
\* A function called where it is written.
Inline(params, given, body) ==
  [is |-> "function", inline |-> TRUE, name |-> Opaque, params |-> params, given |-> given, body |-> body]
Jump(how) == [is |-> how]     \* "break", "continue", "return" or "throw"

-----------------------------------------------------------------------------
(* Tokens, one for each hook.  begin and end link the tokens of one        *)
(* construct, alt is its else or catch; lo and hi are the span of a scope, *)
(* hi also the end of the statement whose paths are joined.                *)

Token(op) ==
  [op |-> op, kind |-> "", name |-> Opaque, rhs |-> NoInit, given |-> <<>>, params |-> <<>>,
   lo |-> 0, hi |-> 0, begin |-> 0, end |-> 0, alt |-> 0, flag |-> FALSE, finalizer |-> FALSE]

Open(kind, lo, hi) == [Token("open") EXCEPT !.kind = kind, !.lo = lo, !.hi = hi, !.end = hi]
Close(lo) == [Token("close") EXCEPT !.begin = lo]

RECURSIVE Tokens(_, _), Flatten(_, _), CaseTokens(_, _, _)

Flatten(statements, at) ==
  IF statements = <<>> THEN <<>>
  ELSE LET first == Tokens(Head(statements), at)
       IN  first \o Flatten(Tail(statements), at + Len(first))

\* A block statement.
Scoped(body, at) ==
  LET inner == Flatten(body, at + 1)
      hi == at + Len(inner) + 1
  IN  <<Open("Block", at, hi)>> \o inner \o <<Close(at)>>

IfTokens(s, at) ==
  LET then == Scoped(s.then, at + 1)
      middle == at + 1 + Len(then)
      else == IF s.alternative THEN <<Token("else")>> \o Scoped(s.else, middle + 1) ELSE <<>>
      hi == middle + Len(else)
      link(t) == [t EXCEPT !.begin = at, !.end = hi, !.alt = IF s.alternative THEN middle ELSE 0,
                           !.hi = hi, !.flag = s.alternative]
  IN  <<link(Token("if"))>> \o then
        \o (IF s.alternative THEN <<link(Head(else))>> \o Tail(else) ELSE <<>>) \o <<link(Token("endif"))>>

\* span is the end of the whole statement, 0 if that is the loop itself.
LoopTokens(guaranteed, body, at, behind) ==
  LET inner == Scoped(body, at + 1)
      end == at + 1 + Len(inner)
      link(t) == [t EXCEPT !.begin = at, !.end = end, !.hi = end + behind, !.flag = guaranteed]
  IN  <<link(Token("loop"))>> \o inner \o <<link(Token("endloop"))>>

\* visit_scoped_loop: one block for the header and the loop.
ForTokens(s, at) ==
  LET header == Flatten(s.header, at + 1)
      loop == LoopTokens(FALSE, s.body, at + 1 + Len(header), 1)
      hi == at + 1 + Len(header) + Len(loop)
  IN  <<Open("Block", at, hi)>> \o header \o loop \o <<Close(at)>>

CaseTokens(cases, at, switch) ==
  IF cases = <<>> THEN <<>>
  ELSE LET body == Flatten(Head(cases), at + 1)
           end == at + 1 + Len(body)
           link(t) == [t EXCEPT !.begin = switch, !.lo = at, !.end = end]
       IN  <<link(Token("case"))>> \o body \o <<link(Token("endcase"))>>
             \o CaseTokens(Tail(cases), end + 1, switch)

SwitchTokens(s, at) ==
  LET cases == CaseTokens(s.cases, at + 2, at + 1)
      end == at + 2 + Len(cases)
      link(t) == [t EXCEPT !.begin = at + 1, !.end = end, !.hi = end + 1, !.flag = s.default]
  IN  <<Open("Block", at, end + 1), link(Token("switch"))>> \o cases
        \o <<link(Token("endswitch")), Close(at)>>

\* The paths are joined before the finalizer is visited, at a span that ends after it.
TryTokens(s, at) ==
  LET body == Scoped(s.body, at + 1)
      handled == s.handlers # <<>>
      alt == at + 1 + Len(body)
      caught == IF handled THEN Flatten(s.handlers[1].body, alt + 3) ELSE <<>>
      clause == IF handled
                THEN <<Open("Block", alt + 1, alt + 3 + Len(caught)),
                       [Token("catchparam") EXCEPT !.name = s.handlers[1].param]>>
                     \o caught \o <<Close(alt + 1)>>
                ELSE <<>>
      end == alt + Len(clause) + (IF handled THEN 1 ELSE 0)
      final == IF s.finalizers # <<>> THEN Scoped(s.finalizers[1], end + 1) ELSE <<>>
      link(t) == [t EXCEPT !.begin = at, !.end = end, !.alt = IF handled THEN alt ELSE 0,
                           !.hi = end + Len(final), !.flag = handled, !.finalizer = s.finalizers # <<>>]
  IN  <<link(Token("try"))>> \o body
        \o (IF handled THEN <<link(Token("catch"))>> \o clause ELSE <<>>)
        \o <<link(Token("endtry"))>> \o final

\* A dynamic scope with the span of the body, which has a block of its own.
WithTokens(s, at) ==
  LET body == Scoped(s.body, at + 1)
      hi == at + Len(body)
  IN  <<[Open("Dynamic", at + 1, hi) EXCEPT !.end = hi + 1]>> \o body \o <<Close(at)>>

FunctionTokens(s, at) ==
  LET body == Scoped(s.body, at + 1)
      hi == at + 1 + Len(body)
  IN  <<[Token("function") EXCEPT !.kind = "Function", !.flag = s.inline, !.name = s.name, !.params = s.params,
           !.given = s.given, !.lo = at, !.hi = hi, !.end = hi]>>
        \o body \o <<[Token("endfunction") EXCEPT !.begin = at]>>

Tokens(s, at) ==
  CASE s.is = "declare" -> <<[Token("declare") EXCEPT !.kind = s.kind, !.name = s.name, !.rhs = s.rhs]>>
    [] s.is \in {"import", "assign"} -> <<[Token(s.is) EXCEPT !.name = s.name, !.rhs = s.rhs]>>
    [] s.is = "use" -> <<[Token("use") EXCEPT !.name = s.name]>>
    [] s.is = "call" -> <<[Token("call") EXCEPT !.name = s.name, !.given = s.given]>>
    [] s.is = "if" -> IfTokens(s, at)
    [] s.is = "loop" -> LoopTokens(s.guaranteed, s.body, at, 0)
    [] s.is = "for" -> ForTokens(s, at)
    [] s.is = "switch" -> SwitchTokens(s, at)
    [] s.is = "try" -> TryTokens(s, at)
    [] s.is = "with" -> WithTokens(s, at)
    [] s.is = "function" -> FunctionTokens(s, at)
    [] OTHER -> <<Token(s.is)>>

\* The program, and where it ends.
Flat(program) == Append(Flatten(program, 1), Token("end"))

=============================================================================
