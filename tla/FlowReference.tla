---------------------------- MODULE FlowReference ----------------------------
(***************************************************************************)
(* The executions the projection stands for: what a run of the file does,  *)
(* one path at a time, with no joins, no bounds and no fact stream.  An    *)
(* outcome of a block is the environment it ends in, how it ended, and     *)
(* what the path saw: for each reporting fact it reached, the lifecycle    *)
(* states that were complete there.                                        *)
(*                                                                         *)
(* The modelled paths are those the fact stream has markers for: an        *)
(* exception strikes as a try block begins, and a loop runs at most        *)
(* MaxTurns times.                                                         *)
(***************************************************************************)
EXTENDS FlowLifecycle, Sequences

CONSTANT MaxTurns

-----------------------------------------------------------------------------
(***************************************************************************)
(* The fact stream the projector reads: a file's statements in visitor     *)
(* order, each control construct bracketed by markers that carry its       *)
(* region.  A statement is a record: straight-line ones are facts as they  *)
(* are, the others hold the blocks (sequences of statements) they are made *)
(* of.  Tests of branches and loops are left out: what they evaluate is    *)
(* straight-line code before the marker that follows them.                 *)
(***************************************************************************)
Marker(kind, region) == [k |-> kind, region |-> region]

(* A region is named by the position of its first marker.                  *)
RECURSIVE Facts(_, _), BlockFacts(_, _), CaseFacts(_, _, _)

BlockFacts(block, at) ==
    IF block = <<>> THEN <<>>
    ELSE LET first == Facts(Head(block), at)
         IN  first \o BlockFacts(Tail(block), at + Len(first))

BranchFacts(s, at) ==
    LET then == BlockFacts(s.then, at + 2)
        else == IF s.else = <<>> THEN <<>>
                ELSE <<Marker("BranchElse", at)>>
                     \o BlockFacts(s.else[1], at + 3 + Len(then))
    IN  <<Marker("BranchStart", at), Marker("BranchThen", at)>>
        \o then \o else \o <<Marker("BranchEnd", at)>>

LoopFacts(s, at) ==
    LET body   == BlockFacts(s.body, at + 1)
        update == IF s.update = <<>> THEN <<>>
                  ELSE <<Marker("LoopUpdate", at)>>
                       \o BlockFacts(s.update[1], at + 2 + Len(body))
    IN  <<[k |-> "LoopStart", region |-> at, guaranteed |-> s.guaranteed]>>
        \o body \o update \o <<Marker("LoopEnd", at)>>

CaseFacts(cases, region, at) ==
    IF cases = <<>> THEN <<>>
    ELSE LET body == BlockFacts(cases[1].body, at + 1)
         IN  <<[k |-> "SwitchCase", region |-> region,
                default |-> cases[1].default]>>
             \o body \o CaseFacts(Tail(cases), region, at + 1 + Len(body))

SwitchFacts(s, at) ==
    <<Marker("SwitchStart", at)>> \o CaseFacts(s.cases, at, at + 1)
    \o <<Marker("SwitchEnd", at)>>

TryFacts(s, at) ==
    LET body    == BlockFacts(s.body, at + 1)
        handler == IF s.handler = <<>> THEN <<>>
                   ELSE <<Marker("CatchStart", at)>>
                        \o BlockFacts(s.handler[1], at + 2 + Len(body))
        here    == at + 1 + Len(body) + Len(handler)
        final   == IF s.final = <<>> THEN <<>>
                   ELSE <<Marker("FinallyStart", at)>>
                        \o BlockFacts(s.final[1], here + 1)
    IN  <<Marker("TryStart", at)>> \o body \o handler \o final
        \o <<Marker("TryEnd", at)>>

FunctionFacts(s, at) ==
    <<Marker("Enter", at)>> \o BlockFacts(s.body, at + 1) \o <<Marker("Exit", at)>>

Facts(s, at) ==
    CASE s.k = "if"       -> BranchFacts(s, at)
      [] s.k = "loop"     -> LoopFacts(s, at)
      [] s.k = "switch"   -> SwitchFacts(s, at)
      [] s.k = "try"      -> TryFacts(s, at)
      [] s.k = "function" -> FunctionFacts(s, at)
      [] OTHER            -> <<s>>

-----------------------------------------------------------------------------
(* The executions.                                                         *)
FreshObject(env) == CHOOSE o \in Objects : o \notin Aliased(env)

Outcome(env, end, seen) == [env |-> env, end |-> end, seen |-> seen]
Seeing(outcomes, seen) ==
    {[o EXCEPT !.seen = @ \cup seen] : o \in outcomes}
(* How a construct that catches these completions ends.                    *)
Catching(ends, outcomes) ==
    {[o EXCEPT !.end = IF @ \in ends THEN "normal" ELSE @] : o \in outcomes}
EndedBy(ends, outcomes) == {o \in outcomes : o.end \in ends}

Straight(policy, s, at, env) ==
    LET next  == Transfer(env, s, at, FreshObject(env), MaxObjects)
        ready == {next.states[o] : o \in Reported(policy, next, s)}
    IN  {Outcome(next, "normal",
                 IF s.k \in {"new", "copy", "kill", "invalidate"} THEN {}
                 ELSE {[event |-> at, ready |-> ready]})}

RECURSIVE Runs(_, _, _, _), BlockRuns(_, _, _, _),
          LoopRuns(_, _, _, _, _), CaseRuns(_, _, _, _, _)

BlockRuns(policy, block, at, env) ==
    IF block = <<>> THEN {Outcome(env, "normal", {})}
    ELSE LET first == Runs(policy, Head(block), at, env)
             there == at + Len(Facts(Head(block), at))
         IN  (first \ EndedBy({"normal"}, first))
             \cup UNION {Seeing(BlockRuns(policy, Tail(block), there, o.env), o.seen) :
                         o \in EndedBy({"normal"}, first)}

BranchRuns(policy, s, at, env) ==
    BlockRuns(policy, s.then, at + 2, env)
    \cup (IF s.else = <<>> THEN {Outcome(env, "normal", {})}
          ELSE BlockRuns(policy, s.else[1],
                         at + 3 + Len(BlockFacts(s.then, at + 2)), env))

(* Every turn ends the loop or is followed by another one.                 *)
LoopRuns(policy, s, at, env, turns) ==
    LET body    == BlockRuns(policy, s.body, at + 1, env)
        here    == at + 2 + Len(BlockFacts(s.body, at + 1))
        resumed == EndedBy({"normal"}, Catching({"continue"}, body))
        turned  == IF s.update = <<>> THEN resumed
                   ELSE UNION {Seeing(BlockRuns(policy, s.update[1], here, o.env), o.seen) :
                               o \in resumed}
        left    == Catching({"break"}, EndedBy({"break", "return"}, body))
    IN  left \cup turned
        \cup (IF turns = 1 THEN {}
              ELSE UNION {Seeing(LoopRuns(policy, s, at, o.env, turns - 1), o.seen) :
                          o \in turned})

(* Control enters at one case, or at none without a default, and falls     *)
(* through to the cases after it.                                          *)
CaseRuns(policy, cases, entered, at, env) ==
    IF cases = <<>> THEN {Outcome(env, "normal", {})}
    ELSE LET body  == BlockRuns(policy, cases[1].body, at + 1, env)
             there == at + 1 + Len(BlockFacts(cases[1].body, at + 1))
             on    == UNION {Seeing(CaseRuns(policy, Tail(cases), TRUE, there, o.env), o.seen) :
                             o \in EndedBy({"normal"}, body)}
             taken == on \cup (body \ EndedBy({"normal"}, body))
         IN  IF entered THEN taken
             ELSE taken \cup (IF Len(cases) = 1 THEN {}
                              ELSE CaseRuns(policy, Tail(cases), FALSE, there, env))

SwitchRuns(policy, s, at, env) ==
    Catching({"break"}, CaseRuns(policy, s.cases, FALSE, at + 1, env))
    \cup (IF \E i \in DOMAIN s.cases : s.cases[i].default THEN {}
          ELSE {Outcome(env, "normal", {})})

(* A finalizer runs however the block ended; it keeps that completion      *)
(* unless it completes abruptly itself.                                    *)
TryRuns(policy, s, at, env) ==
    LET body    == BlockRuns(policy, s.body, at + 1, env)
        afterBody == at + 1 + Len(BlockFacts(s.body, at + 1))
        caught  == IF s.handler = <<>> THEN {}
                   ELSE BlockRuns(policy, s.handler[1], afterBody + 1, env)
        here    == IF s.handler = <<>> THEN afterBody
                   ELSE afterBody + 1 + Len(BlockFacts(s.handler[1], afterBody + 1))
        Finalized(o) ==
            {[f EXCEPT !.end = IF @ = "normal" THEN o.end ELSE @] :
             f \in Seeing(BlockRuns(policy, s.final[1], here + 1, o.env), o.seen)}
    IN  IF s.final = <<>> THEN body \cup caught
        ELSE UNION {Finalized(o) : o \in body \cup caught}

(* A function body is a path of its own, from an environment of its own.   *)
FunctionRuns(policy, s, at, env) ==
    {Outcome(env, "normal", o.seen) :
        o \in BlockRuns(policy, s.body, at + 1, EmptyEnvironment)}

Runs(policy, s, at, env) ==
    CASE s.k = "if"       -> BranchRuns(policy, s, at, env)
      [] s.k = "loop"     -> LoopRuns(policy, s, at, env, MaxTurns)
                             \cup (IF s.guaranteed THEN {}
                                   ELSE {Outcome(env, "normal", {})})
      [] s.k = "switch"   -> SwitchRuns(policy, s, at, env)
      [] s.k = "try"      -> TryRuns(policy, s, at, env)
      [] s.k = "function" -> FunctionRuns(policy, s, at, env)
      [] s.k \in {"break", "continue", "return"} -> {Outcome(env, s.k, {})}
      [] OTHER            -> Straight(policy, s, at, env)

(* What each complete execution of the file saw.                           *)
Sightings(policy, file) ==
    {o.seen : o \in BlockRuns(policy, file, 1, EmptyEnvironment)}
==============================================================================
