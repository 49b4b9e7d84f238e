----------------------------- MODULE FlowHistory -----------------------------
(***************************************************************************)
(* The undo log behind the projector's paths.  The two live tables hold    *)
(* one environment at a time; a path is a position in a tree of recorded   *)
(* changes (a cursor), and resuming a path moves the tables from the       *)
(* current position to that one: back to the nearest common ancestor,      *)
(* undoing, then forward to the target, redoing.  The projector copies     *)
(* cursors freely, so any position may be a target at any time.            *)
(*                                                                         *)
(* A transition takes one step per loop iteration here, so that a wrong    *)
(* ancestor, a step too many or a delta that does not invert shows up      *)
(* where it happens.  "saved" is a history variable: the tables as they    *)
(* were when each position was recorded.                                   *)
(***************************************************************************)
EXTENDS FlowLifecycle, Sequences

CONSTANTS Events,         \* positions of facts that change the tables
          MutationLimit   \* most entries the log takes

ASSUME HistoryAssumption ==
    /\ Events \subseteq Nat \ {0} /\ MaxObjects \in Nat /\ MutationLimit \in Nat
    /\ IsFiniteSet(Vars)

VARIABLES
    tables,    \* the live alias and state tables
    refs,      \* how many variables alias each object
    entries,   \* recorded changes: parent position, depth, delta
    cursor,    \* current position, 0 is the root
    exhausted, \* a change was not recorded for want of room
    move,      \* the transition under way
    saved      \* tables at each position (history variable)

vars == <<tables, refs, entries, cursor, exhausted, move, saved>>

Idle == [phase |-> "idle", target |-> 0, source |-> 0, destination |-> 0, at |-> 0,
         forward |-> <<>>, left |-> 0]
AtRest == move.phase = "idle"
Positions == 0..Len(entries)

Init ==
    /\ tables = EmptyEnvironment
    /\ refs = [o \in Objects |-> 0]
    /\ entries = <<>> /\ cursor = 0 /\ exhausted = FALSE
    /\ move = Idle
    /\ saved = [n \in {0} |-> EmptyEnvironment]

DepthOf(n) == IF n = 0 THEN 0 ELSE entries[n].depth
ParentOf(n) == IF n = 0 THEN 0 ELSE entries[n].parent

------------------------------------------------------------------------------
(* Deltas.  Each names the entry it changed and carries what it takes to   *)
(* undo and to redo the change.                                            *)

SetAlias(t, v, o) == [alias |-> [t.alias EXCEPT ![v] = o], states |-> t.states]
SetState(t, o, state) == [alias |-> t.alias, states |-> [t.states EXCEPT ![o] = state]]

SetMet(state, r, events) ==
    [source |-> state.source, met |-> [state.met EXCEPT ![r] = events], sunk |-> state.sunk]
SetSunk(state, k, events) ==
    [source |-> state.source, met |-> state.met, sunk |-> [state.sunk EXCEPT ![k] = events]]

(* Evidence of an object whose state is gone is left alone.                *)
Met(t, o, r, events) ==
    IF t.states[o].source = 0 THEN t ELSE SetState(t, o, SetMet(t.states[o], r, events))
Sunk(t, o, k, events) ==
    IF t.states[o].source = 0 THEN t ELSE SetState(t, o, SetSunk(t.states[o], k, events))

Redo(t, d) ==
    CASE d.k \in {"AliasInsert", "AliasUpdate"} -> SetAlias(t, d.at, d.new)
      [] d.k = "AliasRemove" -> SetAlias(t, d.at, NoObject)
      [] d.k \in {"StateInsert", "StateUpdate"} -> SetState(t, d.at, d.new)
      [] d.k = "StateRemove" -> SetState(t, d.at, NoState)
      [] d.k = "RequirementInsert" ->
            Met(t, d.at, d.index, t.states[d.at].met[d.index] \cup {d.event})
      [] d.k = "RequirementRemove" -> Met(t, d.at, d.index, {})
      [] d.k = "SinkInsert" ->
            Sunk(t, d.at, d.index, t.states[d.at].sunk[d.index] \cup {d.event})

UndoForgetsOldAlias(t, d) ==
    CASE d.k \in {"AliasInsert", "AliasUpdate"} -> SetAlias(t, d.at, NoObject)
      [] d.k = "AliasRemove" -> SetAlias(t, d.at, d.old)
      [] d.k = "StateInsert" -> SetState(t, d.at, NoState)
      [] d.k \in {"StateUpdate", "StateRemove"} -> SetState(t, d.at, d.old)
      [] OTHER -> t
Undo(t, d) ==
    CASE d.k = "AliasInsert" -> SetAlias(t, d.at, NoObject)
      [] d.k \in {"AliasUpdate", "AliasRemove"} -> SetAlias(t, d.at, d.old)
      [] d.k = "StateInsert" -> SetState(t, d.at, NoState)
      [] d.k \in {"StateUpdate", "StateRemove"} -> SetState(t, d.at, d.old)
      [] d.k = "RequirementInsert" ->
            Met(t, d.at, d.index, t.states[d.at].met[d.index] \ {d.event})
      [] d.k = "RequirementRemove" ->
            Met(t, d.at, d.index, t.states[d.at].met[d.index] \cup d.events)
      [] d.k = "SinkInsert" ->
            Sunk(t, d.at, d.index, t.states[d.at].sunk[d.index] \ {d.event})

(* Reference counts follow the alias table: one down for the object a      *)
(* variable leaves, one up for the object it gets.                         *)
RecountedOnGain(counts, before, after) ==
    [o \in Objects |-> counts[o] + Cardinality(
        {v \in Vars : before.alias[v] # after.alias[v] /\ after.alias[v] = o})]
Recounted(counts, before, after) ==
    LET left   == {v \in Vars : before.alias[v] # after.alias[v]}
        Lost(o) == Cardinality({v \in left : before.alias[v] = o})
        Won(o)  == Cardinality({v \in left : after.alias[v] = o})
    IN  [o \in Objects |-> counts[o] - Lost(o) + Won(o)]

Become(next) == tables' = next /\ refs' = Recounted(refs, tables, next)

------------------------------------------------------------------------------
(* Changes of the live tables.  A full log takes no more deltas, but the   *)
(* tables have changed: no path can be resumed from then on.               *)

NextEntry(d) ==
    [parent |-> cursor, depth |-> DepthOf(cursor) + 1, delta |-> d]

Record(d) ==
    /\ AtRest
    /\ Become(Redo(tables, d))
    /\ IF Len(entries) >= MutationLimit
       THEN exhausted' = TRUE /\ UNCHANGED <<entries, cursor, saved>>
       ELSE /\ entries' = Append(entries, NextEntry(d))
            /\ cursor' = Len(entries) + 1
            /\ saved' = [n \in 0..(Len(entries) + 1) |->
                            IF n \in DOMAIN saved THEN saved[n] ELSE Redo(tables, d)]
            /\ UNCHANGED exhausted
    /\ UNCHANGED move

BindAlias(v, o) ==
    Record(IF tables.alias[v] = NoObject
           THEN [k |-> "AliasInsert", at |-> v, new |-> o]
           ELSE [k |-> "AliasUpdate", at |-> v, old |-> tables.alias[v], new |-> o])

UnbindAlias(v) ==
    /\ tables.alias[v] # NoObject
    /\ Record([k |-> "AliasRemove", at |-> v, old |-> tables.alias[v]])

InsertState(o, event) ==
    LET state == [source |-> event, met |-> NoState.met, sunk |-> NoState.sunk] IN
    Record(IF tables.states[o].source = 0
           THEN [k |-> "StateInsert", at |-> o, new |-> state]
           ELSE [k |-> "StateUpdate", at |-> o, old |-> tables.states[o], new |-> state])

RemoveState(o) ==
    /\ IsLive(tables, o)
    /\ Record([k |-> "StateRemove", at |-> o, old |-> tables.states[o]])

(* Evidence that is there already changes nothing and is not recorded.     *)
MeetRequirement(o, r, event) ==
    /\ IsLive(tables, o) /\ event \notin tables.states[o].met[r]
    /\ Record([k |-> "RequirementInsert", at |-> o, index |-> r, event |-> event])

ClearRequirement(o, r) ==
    /\ IsLive(tables, o) /\ tables.states[o].met[r] # {}
    /\ Record([k |-> "RequirementRemove", at |-> o, index |-> r,
               events |-> tables.states[o].met[r]])

ReachSink(o, k, event) ==
    /\ IsLive(tables, o) /\ event \notin tables.states[o].sunk[k]
    /\ Record([k |-> "SinkInsert", at |-> o, index |-> k, event |-> event])

------------------------------------------------------------------------------
(* Transitions.                                                            *)

StartTransition(target) ==
    /\ AtRest /\ ~exhausted
    /\ move' = [phase |-> "level", target |-> target, source |-> cursor,
                destination |-> target, at |-> cursor, forward |-> <<>>, left |-> 0]
    /\ UNCHANGED <<tables, refs, entries, cursor, exhausted, saved>>

Stay == UNCHANGED <<tables, refs, entries, cursor, exhausted, saved>>

(* Find the nearest common ancestor: the deeper side climbs, then both.    *)
ClimbSource ==
    /\ move.phase = "level"
    /\ \/ DepthOf(move.source) > DepthOf(move.destination)
       \/ /\ DepthOf(move.source) = DepthOf(move.destination)
          /\ move.source # move.destination
    /\ move' = [move EXCEPT !.source = ParentOf(@),
                            !.destination = IF DepthOf(move.source) > DepthOf(@)
                                            THEN @ ELSE ParentOf(@)]
    /\ Stay
ClimbDestination ==
    /\ move.phase = "level" /\ DepthOf(move.destination) > DepthOf(move.source)
    /\ move' = [move EXCEPT !.destination = ParentOf(@)]
    /\ Stay
Meet ==
    /\ move.phase = "level" /\ move.source = move.destination
    /\ move' = [move EXCEPT !.phase = "undo"]
    /\ Stay

(* Back to the ancestor.  Undoing past the root would index before the     *)
(* first entry.                                                            *)
UndoStep ==
    /\ move.phase = "undo" /\ move.at # move.source /\ move.at # 0
    /\ Become(Undo(tables, entries[move.at].delta))
    /\ move' = [move EXCEPT !.at = ParentOf(@)]
    /\ UNCHANGED <<entries, cursor, exhausted, saved>>
TurnForward ==
    /\ move.phase = "undo" /\ move.at = move.source
    /\ move' = [move EXCEPT !.phase = "collect", !.destination = move.target]
    /\ Stay

(* The way forward is collected from the target and taken in reverse.      *)
Collect ==
    /\ move.phase = "collect" /\ move.destination # move.source
    /\ move.destination # 0
    /\ move' = [move EXCEPT !.forward = Append(@, move.destination),
                            !.destination = ParentOf(@)]
    /\ Stay
Collected ==
    /\ move.phase = "collect" /\ move.destination = move.source
    /\ move' = [move EXCEPT !.phase = "redo", !.left = Len(move.forward)]
    /\ Stay
RedoStep ==
    /\ move.phase = "redo" /\ move.left > 0
    /\ Become(Redo(tables, entries[move.forward[move.left]].delta))
    /\ move' = [move EXCEPT !.at = move.forward[move.left], !.left = @ - 1]
    /\ UNCHANGED <<entries, cursor, exhausted, saved>>

Arrive ==
    /\ move.phase = "redo" /\ move.left = 0
    /\ cursor' = move.target
    /\ move' = Idle
    /\ UNCHANGED <<tables, refs, entries, exhausted, saved>>

Transition ==
    \/ ClimbSource \/ ClimbDestination \/ Meet
    \/ UndoStep \/ TurnForward \/ Collect \/ Collected \/ RedoStep
    \/ Arrive

Next ==
    \/ \E v \in Vars : UnbindAlias(v) \/ \E o \in Objects : BindAlias(v, o)
    \/ \E o \in Objects :
         \/ RemoveState(o)
         \/ \E e \in Events : InsertState(o, e)
         \/ \E r \in Requirements :
              ClearRequirement(o, r) \/ \E e \in Events : MeetRequirement(o, r, e)
         \/ \E k \in Sinks, e \in Events : ReachSink(o, k, e)
    \/ \E target \in Positions : StartTransition(target)
    \/ Transition

Spec == Init /\ [][Next]_vars

------------------------------------------------------------------------------
(* Properties.                                                             *)

States == [source : Events \cup {0}, met : [Requirements -> SUBSET Events],
           sunk : [Sinks -> SUBSET Events]]
Tables == [alias : [Vars -> Objects \cup {NoObject}], states : [Objects -> States]]
Deltas ==
    [k : {"AliasInsert"}, at : Vars, new : Objects]
    \cup [k : {"AliasUpdate"}, at : Vars, old : Objects, new : Objects]
    \cup [k : {"AliasRemove"}, at : Vars, old : Objects]
    \cup [k : {"StateInsert"}, at : Objects, new : States]
    \cup [k : {"StateUpdate"}, at : Objects, old : States, new : States]
    \cup [k : {"StateRemove"}, at : Objects, old : States]
    \cup [k : {"RequirementInsert"}, at : Objects, index : Requirements, event : Events]
    \cup [k : {"RequirementRemove"}, at : Objects, index : Requirements,
          events : SUBSET Events]
    \cup [k : {"SinkInsert"}, at : Objects, index : Sinks, event : Events]
Moves == [phase : {"idle", "level", "undo", "collect", "redo"}, target : Nat,
          source : Nat, destination : Nat, at : Nat, forward : Seq(Nat), left : Nat]

(* The tables hold aliases and lifecycle states, every entry hangs below   *)
(* an earlier one, one level deeper, and a transition stays on positions.  *)
TypeOK ==
    /\ tables \in Tables
    /\ entries \in Seq([parent : Nat, depth : Nat, delta : Deltas])
    /\ \A n \in DOMAIN entries : /\ entries[n].parent \in 0..(n - 1)
                                /\ entries[n].depth = DepthOf(entries[n].parent) + 1
    /\ cursor \in Positions
    /\ exhausted \in BOOLEAN
    /\ DOMAIN saved = Positions
    /\ move \in Moves
    /\ {move.target, move.source, move.destination, move.at} \subseteq Positions
    /\ \A i \in DOMAIN move.forward : move.forward[i] \in DOMAIN entries

(* Resuming a path gives back exactly the tables it was left with: at rest *)
(* the live tables are the ones saved at the current position, whatever    *)
(* branches were recorded in between.                                      *)
RestoreIsExact == AtRest /\ ~exhausted => tables = saved[cursor]

(* The reference counts that decide whether an object is still aliased are *)
(* those of the alias table, in the middle of a transition too.            *)
RefsExact == \A o \in Objects : refs[o] = Cardinality({v \in Vars : tables.alias[v] = o})

------------------------------------------------------------------------------
(* The inductive invariant.  Where the tables are; that every position is  *)
(* one redo and one undo away from its parent; and that the way forward    *)
(* leads from where the tables are to the target.                          *)

WellFormed(t) == \A o \in Objects : t.states[o].source = 0 => t.states[o] = NoState
Here == IF AtRest THEN cursor ELSE move.at

Live ==
    /\ WellFormed(tables)
    /\ ~exhausted => tables = saved[Here]
    /\ ~AtRest => ~exhausted
    /\ exhausted => Len(entries) >= MutationLimit
Linked ==
    /\ \A n \in Positions : saved[n] \in Tables /\ WellFormed(saved[n])
    /\ \A n \in DOMAIN entries :
         /\ saved[n] = Redo(saved[entries[n].parent], entries[n].delta)
         /\ saved[entries[n].parent] = Undo(saved[n], entries[n].delta)
OnTheWay ==
    LET f == move.forward IN
    /\ move.phase \in {"level", "undo"} => f = <<>>
    /\ move.phase = "collect" => move.at = move.source
    /\ move.phase \in {"collect", "redo"} =>
         /\ f # <<>> => f[1] = move.target
         /\ \A i \in 1..(Len(f) - 1) : ParentOf(f[i]) = f[i + 1]
    /\ move.phase = "collect" =>
         move.destination = IF f = <<>> THEN move.target ELSE ParentOf(f[Len(f)])
    /\ move.phase = "redo" =>
         /\ move.left \in 0..Len(f)
         /\ move.at = IF move.left = 0 THEN move.target ELSE ParentOf(f[move.left])

IInv == TypeOK /\ Live /\ Linked /\ OnTheWay
==============================================================================
