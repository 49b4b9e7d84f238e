--------------------------- MODULE ScopeReference ---------------------------
(***************************************************************************)
(* What the files of ScopeCollector do when they run, worked out on the    *)
(* tokens without scopes, paths or joins: a run is at a token, with a      *)
(* value for every declared name and the calls it is in; Reached is every  *)
(* run there is.  Conditions go either way, calls and throws end in the    *)
(* nearest handler.  The properties compare what the frozen analysis       *)
(* answers at a token with the runs that get there.                        *)
(***************************************************************************)
EXTENDS ScopeCollector

CONSTANT MaxCallDepth    \* bound: calls a run may be in

VARIABLE runs            \* the runs of the file, once it is frozen

-----------------------------------------------------------------------------
(* Names, by the rules of the language.                                    *)

Positions == DOMAIN tokens
Openers(i) == {o \in Positions : tokens[o].op \in {"open", "function"} /\ o < i /\ i <= tokens[o].end}
Greatest(S) == CHOOSE x \in S : \A y \in S : y <= x
Least(S) == CHOOSE x \in S : \A y \in S : x <= y
\* The innermost construct around a token that has names of its own, 0 for the file.
Around(i) == Greatest({0} \union Openers(i))
FunctionAround(i) == Greatest({0} \union {o \in Openers(i) : tokens[o].op = "function"})
Home(j) == IF tokens[j].kind = "var" THEN FunctionAround(j) ELSE Around(j)

Declares(j) ==
  \/ tokens[j].op \in {"declare", "import", "catchparam"}
  \/ tokens[j].op = "function" /\ ~tokens[j].flag
Names == {<<Home(j), tokens[j].name>> : j \in {k \in Positions : Declares(k)}}
           \union UNION {{<<o, p>> : p \in ToSet(tokens[o].params)} : o \in Positions}
\* The declaration a name at a token refers to, <<>> for a global.
Binder(name, i) ==
  LET homes == {o \in {0} \union Openers(i) : <<o, name>> \in Names}
  IN  IF homes = {} THEN <<>> ELSE <<Greatest(homes), name>>

-----------------------------------------------------------------------------
(* Runs.  ending holds the finalizers a thrown exception is passing.       *)

Value(rhs, i, env) ==
  IF rhs \in {Opaque, NoInit} THEN Local
  ELSE LET b == Binder(rhs, i) IN IF b = <<>> THEN rhs ELSE env[b]

\* A function is worth its name, which no other function of the file has.
Functions == {o \in Positions : tokens[o].op = "function" /\ ~tokens[o].flag}
Named(value) == {o \in Functions : tokens[o].name = value}
FirstEnv ==
  [b \in Names |->
     LET imported == {j \in Positions : tokens[j].op = "import" /\ <<Around(j), tokens[j].name>> = b}
     IN  IF \E o \in Named(b[2]) : Around(o) = b[1] THEN b[2]
         ELSE IF imported # {} THEN tokens[Least(imported)].rhs ELSE Local]

\* evaled remembers in which functions eval has run.
FirstRun == [pc |-> 1, env |-> FirstEnv, callers |-> <<>>, ending |-> <<>>, evaled |-> {}]
Go(run, pc) == [run EXCEPT !.pc = pc]
Stopped == {}

\* The nearest construct that takes an exception thrown at i, in the same function.
Takers(i) ==
  {t \in Positions :
     /\ tokens[t].op = "try" /\ t < i /\ i < tokens[t].end /\ FunctionAround(t) = FunctionAround(i)
     /\ tokens[t].finalizer \/ (tokens[t].flag /\ i < tokens[t].alt)}
RECURSIVE Throw(_, _)
Throw(run, i) ==
  IF Takers(i) # {}
  THEN LET t == Greatest(Takers(i))
       IN  IF tokens[t].flag /\ i < tokens[t].alt THEN {Go(run, tokens[t].alt + 1)}
           ELSE {[Go(run, tokens[t].end + 1) EXCEPT !.ending = Append(@, tokens[t].hi)]}
  ELSE IF run.callers = <<>> THEN Stopped
  ELSE LET f == FunctionAround(i)
           outside(e) == e < f \/ tokens[f].end < e
       IN  Throw([run EXCEPT !.callers = Front(@), !.ending = SelectSeq(@, outside)], Last(run.callers))

\* Calls the function at o from the call or inline function at i.
EnterCall(run, i, o) ==
  IF Len(run.callers) >= MaxCallDepth \/ i \in ToSet(run.callers) THEN Stopped
  ELSE LET given == tokens[i].given
           params == tokens[o].params
           parameter(b) == \E k \in DOMAIN params : b = <<o, params[k]>>
           value(b) == LET k == CHOOSE k \in DOMAIN params : b = <<o, params[k]>>
                       IN  IF k \in DOMAIN given THEN Value(given[k], i, run.env) ELSE Local
       IN  {[Go(run, o + 1) EXCEPT !.callers = Append(@, i),
               !.env = [b \in Names |-> IF parameter(b) THEN value(b)
                                        ELSE IF b[1] # 0 /\ o <= b[1] /\ b[1] <= tokens[o].end
                                        THEN FirstEnv[b] ELSE run.env[b]]]}

After(i) == IF tokens[i].op = "function" THEN tokens[i].end + 1 ELSE i + 1
Return(run) ==
  IF run.callers = <<>> THEN Stopped
  ELSE {[Go(run, After(Last(run.callers))) EXCEPT !.callers = Front(@)]}

Broken(i, ops) ==
  LET out == {j \in Positions : tokens[j].op \in ops /\ j < i /\ i < tokens[j].end
                                /\ FunctionAround(j) = FunctionAround(i)}
  IN  tokens[Greatest(out)].end

Callee(run, i) == LET b == Binder(tokens[i].name, i) IN IF b = <<>> THEN Local ELSE run.env[b]

CallSteps(run, i) ==
  IF Named(Callee(run, i)) # {} THEN EnterCall(run, i, Least(Named(Callee(run, i))))
  ELSE {[Go(run, i + 1) EXCEPT !.evaled = IF tokens[i].name = "eval" THEN @ \union {FunctionAround(i)} ELSE @]}
         \union Throw(run, i)

\* One step of a run; a run that went through a finalizer goes on with what it was doing.
StepsOf(run) ==
  LET i == run.pc
      t == tokens[i]
      on == {Go(run, i + 1)}
      bind(b, value) == {[Go(run, i + 1) EXCEPT !.env[b] = value]}
  IN  IF run.ending # <<>> /\ Last(run.ending) = i THEN Throw([run EXCEPT !.ending = Front(@)], i)
      ELSE CASE t.op = "if" -> {Go(run, i + 1), Go(run, IF t.alt # 0 THEN t.alt + 1 ELSE t.end)}
             [] t.op \in {"else", "catch"} -> {Go(run, t.end)}
             [] t.op = "loop" -> on \union (IF t.flag THEN {} ELSE {Go(run, t.end + 1)})
             [] t.op = "endloop" -> {Go(run, t.begin + 1), Go(run, i + 1)}
             [] t.op = "switch" ->
                  {Go(run, c + 1) : c \in {d \in Positions : tokens[d].op = "case" /\ tokens[d].begin = i}}
                    \union (IF t.flag THEN {} ELSE {Go(run, t.end)})
             [] t.op = "break" -> {Go(run, Broken(i, {"loop", "switch"}) + 1)}
             [] t.op = "continue" -> {Go(run, Broken(i, {"loop"}))}
             [] t.op \in {"return", "endfunction"} -> Return(run)
             [] t.op = "throw" -> Throw(run, i)
             [] t.op = "function" -> IF t.flag THEN EnterCall(run, i, i) ELSE {Go(run, t.end + 1)}
             [] t.op = "call" -> CallSteps(run, i)
             [] t.op = "declare" -> IF t.rhs = NoInit /\ t.kind = "var" THEN on
                                    ELSE bind(<<Home(i), t.name>>, Value(t.rhs, i, run.env))
             [] t.op = "catchparam" -> bind(<<Around(i), t.name>>, Local)
             [] t.op = "assign" -> IF Binder(t.name, i) = <<>> THEN on
                                   ELSE bind(Binder(t.name, i), Value(t.rhs, i, run.env))
             [] t.op = "end" -> Stopped
             [] OTHER -> on

RECURSIVE Closure(_, _)
Closure(frontier, seen) ==
  IF frontier = {} THEN seen
  ELSE LET found == (UNION {StepsOf(r) : r \in frontier}) \ seen
       IN  Closure(found, seen \union found)
Reached == Closure({FirstRun}, {FirstRun})

ReferenceInit == Init /\ runs = {}
ReferenceNext == Next /\ runs' = IF phase' = "frozen" THEN Reached ELSE {}
ReferenceSpec == ReferenceInit /\ [][ReferenceNext]_<<vars, runs>>

-----------------------------------------------------------------------------
(* Where the analysis is known not to follow the runs; the README says why *)
(* for each.  b is a declared name, i a token.                             *)

Inside(i, first, last) == first < i /\ i < last
Visits(i) == {r \in runs : r.pc = i}
StatementOps == {"declare", "assign", "use", "call", "break", "continue", "return", "throw"}
Misjudged == {i \in Positions : tokens[i].op \in StatementOps /\ ~trail[i].reachable /\ Visits(i) # {}}

Those(op) == {i \in Positions : tokens[i].op = op}
Declarations(b) == {d \in Those("declare") : <<Home(d), tokens[d].name>> = b}
Writes(b) == {w \in Those("assign") : Binder(tokens[w].name, w) = b}
LoopsAround(i) == {l \in Those("loop") : Inside(i, l, tokens[l].end)}

\* Declared once, before anything is assigned, and still in scope.
DeclaredFirst(b, i) ==
  /\ Cardinality(Declarations(b)) <= 1
  /\ \A d \in Declarations(b) :
       /\ d < i /\ \A w \in Writes(b) : d < w
       /\ i \in {j \in Positions : Around(d) = 0 \/ j < tokens[Around(d)].end}
       /\ tokens[d].kind = "let" \/ LoopsAround(d) = {}

\* Read and written by one function only.
Own(b, i) == \A j \in Writes(b) \union Declarations(b) : FunctionAround(j) = FunctionAround(i)

\* Assigned in a loop around i: the next turn starts with what this one assigned.
Carried(b, i) ==
  \E l \in LoopsAround(i) :
    (\E w \in Writes(b) : Inside(w, l, tokens[l].end)) /\ \A d \in Declarations(b) : d < l

\* Assigned in an earlier case that runs into the one i is in.
FallenInto(b, i) ==
  \E c \in Those("case") :
    /\ tokens[c].end < i /\ i < tokens[tokens[c].begin].end /\ Visits(tokens[c].end) # {}
    /\ \E w \in Writes(b) : Inside(w, c, tokens[c].end)

\* Assigned in a region that may be left by an exception afterwards.
Thrown(b) ==
  \E t \in Those("try"), w \in Writes(b), m \in Those("call") \union Those("throw") :
    LET end == IF tokens[t].finalizer THEN tokens[t].end ELSE tokens[t].alt
    IN  /\ Inside(w, t, end) /\ Inside(m, t, end)
        /\ w < m \/ \E l \in Those("loop") : Inside(l, t, end)

Stored(alternatives) == IF HasCompleteWitness(alternatives) THEN alternatives ELSE UnknownAlternatives
KeyOf(b) ==
  LET home == {s \in DOMAIN scopes : b[2] \in DOMAIN scopes[s].bindings
                 /\ IF b[1] = 0 THEN s = ProgramScope ELSE s # ProgramScope /\ scopes[s].lo = b[1]}
  IN  <<Least(home), b[2]>>
Mixed(b, i) ==
  LET found == Lookup(trail[i].env, KeyOf(b), Single(Local)) IN found.joined \/ found.unknown

\* Where b gets its value from: names, at the tokens that read them.
Sources(b) ==
  {<<tokens[w].rhs, w>> : w \in Writes(b) \union Declarations(b)}
    \union {<<tokens[b[1]].given[k], b[1]>> :
              k \in IF b[1] = 0 THEN {}
                    ELSE {i \in DOMAIN tokens[b[1]].given \intersect DOMAIN tokens[b[1]].params :
                            tokens[b[1]].params[i] = b[2]}}

RECURSIVE Followed(_, _, _)
\* The collector knows what b may be at i; depth bounds the chain of copies.
Followed(b, i, depth) ==
  /\ DeclaredFirst(b, i) /\ Own(b, i)
  /\ ~Carried(b, i) /\ ~FallenInto(b, i) /\ ~Thrown(b)
  /\ \A s \in Sources(b) :
       LET from == IF s[1] \in {Opaque, NoInit} THEN <<>> ELSE Binder(s[1], s[2])
       IN  from = <<>> \/ (depth > 0 /\ ~Mixed(from, s[2]) /\ Followed(from, s[2], depth - 1))
Known(b, i) == Followed(b, i, 2)

\* A function that is not only called by its name, or whose arguments the
\* collector does not follow.
Escapes(o) ==
  \E i \in Positions : tokens[i].rhs = tokens[o].name \/ tokens[o].name \in ToSet(tokens[i].given)
Unclear(o) ==
  \E c \in Those("call") : tokens[c].name = tokens[o].name /\
    \E given \in ToSet(tokens[c].given) :
      LET b == IF given = Opaque THEN <<>> ELSE Binder(given, c)
      IN  b # <<>> /\ (Mixed(b, c) \/ ~Known(b, c))
ArgumentsFollowed(b) ==
  \A o \in Functions : o = b[1] /\ b[2] \in ToSet(tokens[o].params) => ~Escapes(o) /\ ~Unclear(o)

Recorded(b) == {assignments[k].lo : k \in {j \in DOMAIN assignments : assignments[j].key = KeyOf(b)}}

\* The latest assignment in source order is in an arm that i is not in, ...
OffPath(b, i) ==
  \E a \in Recorded(b), c \in Those("if") \union Those("try") \union Those("case") :
    LET arm == IF tokens[c].op = "case" \/ tokens[c].alt = 0 THEN tokens[c].end ELSE tokens[c].alt
        joined == IF tokens[c].op = "case" THEN tokens[tokens[c].begin].end ELSE tokens[c].hi
    IN  Inside(a, c, arm) /\ arm < i /\ i < joined
\* ... in a finalizer, which comes before the end of the statement whose paths were joined, ...
Finalized(b, i) ==
  \E t \in Those("try"), w \in Writes(b) : Inside(w, tokens[t].end, tokens[t].hi) /\ tokens[t].hi < i
\* ... in a statement no path comes out of, ...
Buried(b, i) ==
  \E e \in Those("endif") \union Those("endloop") \union Those("endswitch") \union Those("endtry"),
     a \in Recorded(b) :
    e < i /\ ~trail[e + 1].reachable /\ tokens[e].begin < a /\ a <= e
\* ... or in a function that ended before.
Enclosed(b, i) ==
  \E w \in Writes(b) : FunctionAround(w) # 0 /\ tokens[FunctionAround(w)].end < i
LookedUpElsewhere(b, i) == OffPath(b, i) \/ Finalized(b, i) \/ Buried(b, i) \/ Enclosed(b, i)

-----------------------------------------------------------------------------
(* The properties.                                                         *)

Frozen == phase = "frozen"
Uses == {u \in Those("use") : Binder(tokens[u].name, u) # <<>>}
\* Functions have no provenance.
Provenance(value) == IF Named(value) # {} THEN Local ELSE value

(* Where the collector follows a name, what the frozen analysis answers    *)
(* for it covers every run that gets there: a complete answer is the only  *)
(* value, a joined one lists them all, and only Local and an incomplete    *)
(* answer say nothing.                                                     *)
ResolutionCoversRuns ==
  Frozen /\ Misjudged = {} =>
    \A u \in Uses :
      LET b == Binder(tokens[u].name, u)
          answer == Resolve(tokens[u].name, u)
      IN  Known(b, u) /\ ArgumentsFollowed(b) /\ ~LookedUpElsewhere(b, u) =>
            /\ answer.status # "Absent"
            /\ \/ answer.status = "Incomplete" \/ Local \in answer.witnesses
               \/ \A r \in Visits(u) : Provenance(r.env[b]) \in answer.witnesses

(* The frozen lookup by position finds the very assignment that was in the *)
(* collector's environment when it passed there, through all the           *)
(* restoring and joining in between.                                       *)
LookupMatchesCollection ==
  Frozen =>
    \A u \in Uses :
      LET b == Binder(tokens[u].name, u)
          found == LatestAt(KeyOf(b), u)
      IN  trail[u].reachable /\ ~LookedUpElsewhere(b, u) =>
            IF found = <<>> THEN KeyOf(b) \notin DOMAIN trail[u].env
            ELSE /\ KeyOf(b) \in DOMAIN trail[u].env
                 /\ trail[u].env[KeyOf(b)] = Stored(Last(found).alternatives)

\* eval is called later in a function around i, which may come back to i.
EvaluatesLater(i) ==
  \E e \in Those("call") : e > i /\ tokens[e].name = "eval" /\ FunctionAround(e) \in {0} \union Openers(i)

\* The token that opens a scope, 0 for the file.
Opener(s) == IF s = ProgramScope THEN 0 ELSE scopes[s].lo

(* Positions find the scope a name is declared in by the rules of the      *)
(* language, hoisting, parameters and catch parameters included; and no    *)
(* run reads a name where a with or an eval that has run may have changed  *)
(* what it refers to, unless the lookup there is known to be dynamic.      *)
LookupIsLexical ==
  Frozen =>
    \A u \in Those("use") \union Those("call") :
      LET b == Binder(tokens[u].name, u)
          found == NearestBinding(tokens[u].name, u)
      IN  /\ IF b = <<>> THEN found = 0 ELSE found # 0 /\ b[1] = Opener(found)
          /\ \/ HasDynamicLookup(u)
             \/ /\ \A o \in Openers(u) : tokens[o].kind # "Dynamic"
                /\ EvaluatesLater(u) \/ \A r \in Visits(u) : r.evaled \intersect ({0} \union Openers(u)) = {}

(* A name used anywhere after freezing is looked up as the language and the *)
(* collection that passed there have it: in the scope that declares it, and *)
(* there with the value that was in force, whatever joins lie between.      *)
LookupIsFaithful == LookupMatchesCollection /\ LookupIsLexical

(* A provenance that a parameter takes over from the calls of its function *)
(* is what every run that enters the function brings.                      *)
ParameterAliasesAgree ==
  Frozen /\ Misjudged = {} =>
    \A o \in {f \in Functions : ~Escapes(f) /\ ~Unclear(f)} :
      \A p \in ToSet(tokens[o].params) :
        LET alias == ParameterAliasFor(KeyOf(<<o, p>>)[1], p)
        IN  alias # <<>> => \A r \in Visits(o + 1) : r.env[<<o, p>>] = alias[1]

(* No run gets to a statement that the collector took for unreachable and  *)
(* whose assignments it therefore dropped.                                 *)
DarkIsUnreached == Frozen => Misjudged = {}

=============================================================================
