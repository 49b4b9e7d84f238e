---------------------------- MODULE FlowLifecycle ----------------------------
(***************************************************************************)
(* The state object-flow analysis keeps on one path through a file: which  *)
(* variables alias which tracked object, and how far the lifecycle of each *)
(* object has come (source, requirements met, sinks reached).              *)
(*                                                                         *)
(* The code keeps this state in two live tables behind an undo log, and a  *)
(* path is a cursor into that log.  Here a path is the value of the tables *)
(* (an "environment"); FlowHistory checks that moving the cursor gives     *)
(* exactly that value back.                                                *)
(*                                                                         *)
(* One lifecycle is tracked.  A requirement is met by a property write     *)
(* (those in PropertyRequirements) or by a member call.  Values are        *)
(* abstracted to variables, events to positions of the fact stream.        *)
(***************************************************************************)
EXTENDS Integers, FiniteSets

CONSTANTS Vars,                  \* local variables of the analysed program
          Requirements,          \* requirement indices of the lifecycle
          PropertyRequirements,  \* those met by a property write
          Sinks,                 \* sink indices of the lifecycle
          MaxObjects             \* bound on object identities (model only)

ASSUME LifecycleAssumption == PropertyRequirements \subseteq Requirements

Objects == 1..MaxObjects
NoObject == 0

(* An object without a live lifecycle state: its source event is 0.        *)
NoState == [source |-> 0,
            met  |-> [r \in Requirements |-> {}],
            sunk |-> [k \in Sinks |-> {}]]

EmptyEnvironment == [alias  |-> [v \in Vars |-> NoObject],
                     states |-> [o \in Objects |-> NoState]]

IsLive(env, o) == o # NoObject /\ env.states[o].source # 0
LiveObjects(env) == {o \in Objects : IsLive(env, o)}
Aliased(env) == {env.alias[v] : v \in Vars} \ {NoObject}

------------------------------------------------------------------------------
(* Readiness of a lifecycle state under a completion policy.               *)

RequirementsReady(policy, state) ==
    IF policy.requirements = "Any"
    THEN \E r \in Requirements : state.met[r] # {}
    ELSE \A r \in Requirements : state.met[r] # {}

SinksReady(policy, state) ==
    policy.sinks = "All" => \A k \in Sinks : state.sunk[k] # {}

CompleteState(policy, state) ==
    RequirementsReady(policy, state) /\ SinksReady(policy, state)

------------------------------------------------------------------------------
(* Updates of one environment.                                             *)

(* Overwriting an alias leaves the state of the object it pointed at.      *)
Bind(env, v, o) == [env EXCEPT !.alias[v] = o]

RemoveStates(env, o) == [env EXCEPT !.states[o] = NoState]

Unbind(env, v) ==
    LET object == env.alias[v]
        cut    == Bind(env, v, NoObject)
    IN  IF object \in {NoObject} \cup Aliased(cut)
        THEN cut ELSE RemoveStates(cut, object)

Invalidate(env, v) ==
    IF env.alias[v] = NoObject THEN env ELSE RemoveStates(env, env.alias[v])

(* Admitting an object is one capacity decision: a rejected object changes *)
(* nothing, so the variable keeps the alias it had.                        *)
Admissible(env, stateLimit) == Cardinality(LiveObjects(env)) + 1 <= stateLimit
Admit(env, v, o, event) ==
    [Bind(env, v, o) EXCEPT !.states[o] = [NoState EXCEPT !.source = event]]

(* A property write clears what it may overwrite and records what it       *)
(* provably sets; a computed property ("*") may overwrite any of them.     *)
WriteProperty(env, v, property, matches, event) ==
    LET o == env.alias[v] IN
    IF ~IsLive(env, o) THEN env
    ELSE [env EXCEPT !.states[o].met = [r \in Requirements |->
            IF r \in PropertyRequirements /\ property \in {r, "*"}
            THEN IF property = r /\ matches THEN {event} ELSE {}
            ELSE @[r]]]

(* A member call can only add evidence; an unknown receiver ("*") may be   *)
(* any aliased object.                                                     *)
Receivers(env, v) == IF v = "*" THEN Aliased(env) ELSE {env.alias[v]} \ {NoObject}
RecordRequirement(env, v, r, event) ==
    [env EXCEPT !.states = [o \in Objects |->
        IF o \in Receivers(env, v) /\ IsLive(env, o)
        THEN [@[o] EXCEPT !.met[r] = @ \cup {event}] ELSE @[o]]]

RecordSink(env, v, k, event) ==
    IF ~IsLive(env, env.alias[v]) THEN env
    ELSE [env EXCEPT !.states[env.alias[v]].sunk[k] = @ \cup {event}]

------------------------------------------------------------------------------
(* What one environment means, without the numbers of its objects: which   *)
(* variables share an object, the order the live states are listed in, and *)
(* the live state behind each variable.  States that no variable reaches   *)
(* do not count.                                                           *)
SemanticSnapshot(env) ==
    [shared |-> {p \in Vars \X Vars : /\ env.alias[p[1]] # NoObject
                                     /\ env.alias[p[1]] = env.alias[p[2]]},
     order  |-> {p \in Vars \X Vars : /\ IsLive(env, env.alias[p[1]])
                                     /\ IsLive(env, env.alias[p[2]])
                                     /\ env.alias[p[1]] < env.alias[p[2]]},
     states |-> [v \in Vars |-> IF env.alias[v] = NoObject THEN NoState
                                ELSE env.states[env.alias[v]]]]

(* Table entries two environments differ in: what the undo log is charged. *)
ChangedEntries(env, next) ==
    Cardinality({v \in Vars : env.alias[v] # next.alias[v]})
  + Cardinality({o \in Objects : env.states[o] # next.states[o]})

------------------------------------------------------------------------------
(* The transfer of one straight-line fact over one environment: the next   *)
(* environment and the objects whose completed lifecycle it reports.       *)
(* "object" is the identity a source call may allocate, NoObject when the  *)
(* run has none left; the target is then unbound like any unknown value.   *)

Assign(env, fact, event, object, stateLimit) ==
    CASE fact.k = "new" /\ object # NoObject ->
            IF Admissible(env, stateLimit) THEN Admit(env, fact.to, object, event)
            ELSE env
      [] fact.k = "copy" /\ env.alias[fact.from] # NoObject ->
            Bind(env, fact.to, env.alias[fact.from])
      [] OTHER -> Unbind(env, fact.to)

Transfer(env, fact, event, object, stateLimit) ==
    CASE fact.k \in {"new", "copy", "kill"} -> Assign(env, fact, event, object, stateLimit)
      [] fact.k = "invalidate" -> Invalidate(env, fact.to)
      [] fact.k = "write" -> WriteProperty(env, fact.to, fact.property, fact.ok, event)
      [] fact.k = "configure" -> RecordRequirement(env, fact.to, fact.requirement, event)
      [] fact.k = "sink" -> RecordSink(env, fact.to, fact.sink, event)
      [] fact.k = "helper" -> env

(* Which objects the fact may complete, and whether a sink is needed.      *)
Reported(policy, env, fact) ==
    LET reach == CASE fact.k = "configure" -> Receivers(env, fact.to)
                   [] fact.k \in {"write", "sink", "helper"} -> {env.alias[fact.to]}
                   [] OTHER -> {}
        relevant == \/ fact.k \in {"sink", "helper"}
                    \/ /\ policy.sinks = "Configuration"
                       /\ fact.k = "write" =>
                            fact.property \in PropertyRequirements \cup {"*"}
    IN  {o \in reach : /\ IsLive(env, o)
                       /\ relevant
                       /\ IF fact.k \in {"sink", "helper"}
                          THEN CompleteState(policy, env.states[o])
                          ELSE RequirementsReady(policy, env.states[o])}
==============================================================================
