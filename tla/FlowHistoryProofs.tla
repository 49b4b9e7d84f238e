-------------------------- MODULE FlowHistoryProofs --------------------------
(***************************************************************************)
(* That resuming a path is exact, for every table, every tree of changes   *)
(* and every target.  The argument has three parts: each delta inverts the *)
(* change it records (DeltaInverts), so the saved tables of a position and *)
(* of its parent are one undo and one redo apart (Linked), and each step   *)
(* of a transition follows one such link (IInv).  That the reference       *)
(* counts are exact needs none of this: recounting is right for any two    *)
(* tables (RecountIsExact).                                                *)
(***************************************************************************)
EXTENDS FlowHistory, SequenceTheorems, Counting

LEMMA NoStateIsAState == NoState \in States /\ NoState.source = 0
BY DEF NoState, States

LEMMA SetAliasFacts ==
    ASSUME NEW t \in Tables, WellFormed(t), NEW v \in Vars,
           NEW o \in Objects \cup {NoObject}
    PROVE  /\ SetAlias(t, v, o) \in Tables
           /\ WellFormed(SetAlias(t, v, o))
           /\ \A p : SetAlias(SetAlias(t, v, o), v, p) = SetAlias(t, v, p)
           /\ SetAlias(t, v, t.alias[v]) = t
<1>1. SetAlias(t, v, o) \in Tables
  BY DEF SetAlias, Tables
<1>2. SetAlias(t, v, o).states = t.states
  BY DEF SetAlias
<1>3. WellFormed(SetAlias(t, v, o))
  BY <1>2 DEF WellFormed
<1>4. \A p : SetAlias(SetAlias(t, v, o), v, p) = SetAlias(t, v, p)
  BY DEF SetAlias, Tables
<1>5. SetAlias(t, v, t.alias[v]) = t
  BY DEF SetAlias, Tables
<1> QED BY <1>1, <1>3, <1>4, <1>5

LEMMA SetStateFacts ==
    ASSUME NEW t \in Tables, WellFormed(t), NEW o \in Objects, NEW s \in States,
           s.source = 0 => s = NoState
    PROVE  /\ SetState(t, o, s) \in Tables
           /\ WellFormed(SetState(t, o, s))
           /\ SetState(t, o, s).states[o] = s
           /\ \A p : SetState(SetState(t, o, s), o, p) = SetState(t, o, p)
           /\ SetState(t, o, t.states[o]) = t
<1>1. SetState(t, o, s) \in Tables
  BY DEF SetState, Tables
<1>2. /\ SetState(t, o, s).states = [t.states EXCEPT ![o] = s]
      /\ t.states \in [Objects -> States]
  BY DEF SetState, Tables
<1>3. WellFormed(SetState(t, o, s))
  BY <1>2 DEF WellFormed
<1>4. SetState(t, o, s).states[o] = s
  BY <1>2
<1>5. \A p : SetState(SetState(t, o, s), o, p) = SetState(t, o, p)
  BY DEF SetState, Tables
<1>6. SetState(t, o, t.states[o]) = t
  BY DEF SetState, Tables
<1> QED BY <1>1, <1>3, <1>4, <1>5, <1>6

LEMMA SetMetFacts ==
    ASSUME NEW s \in States, NEW r \in Requirements, NEW E \in SUBSET Events
    PROVE  /\ SetMet(s, r, E) \in States
           /\ SetMet(s, r, E).source = s.source
           /\ SetMet(s, r, E).met[r] = E
           /\ \A F : SetMet(SetMet(s, r, E), r, F) = SetMet(s, r, F)
           /\ SetMet(s, r, s.met[r]) = s
<1>1. SetMet(s, r, E) \in States
  BY DEF SetMet, States
<1>2. SetMet(s, r, E).source = s.source /\ SetMet(s, r, E).met[r] = E
  BY DEF SetMet, States
<1>3. \A F : SetMet(SetMet(s, r, E), r, F) = SetMet(s, r, F)
  BY DEF SetMet, States
<1>4. SetMet(s, r, s.met[r]) = s
  BY DEF SetMet, States
<1> QED BY <1>1, <1>2, <1>3, <1>4

LEMMA SetSunkFacts ==
    ASSUME NEW s \in States, NEW k \in Sinks, NEW E \in SUBSET Events
    PROVE  /\ SetSunk(s, k, E) \in States
           /\ SetSunk(s, k, E).source = s.source
           /\ SetSunk(s, k, E).sunk[k] = E
           /\ \A F : SetSunk(SetSunk(s, k, E), k, F) = SetSunk(s, k, F)
           /\ SetSunk(s, k, s.sunk[k]) = s
<1>1. SetSunk(s, k, E) \in States
  BY DEF SetSunk, States
<1>2. SetSunk(s, k, E).source = s.source /\ SetSunk(s, k, E).sunk[k] = E
  BY DEF SetSunk, States
<1>3. \A F : SetSunk(SetSunk(s, k, E), k, F) = SetSunk(s, k, F)
  BY DEF SetSunk, States
<1>4. SetSunk(s, k, s.sunk[k]) = s
  BY DEF SetSunk, States
<1> QED BY <1>1, <1>2, <1>3, <1>4

------------------------------------------------------------------------------
(* The tables a delta is recorded for.                                     *)
Applies(t, d) ==
    \/ d.k = "AliasInsert" /\ t.alias[d.at] = NoObject
    \/ d.k \in {"AliasUpdate", "AliasRemove"} /\ t.alias[d.at] = d.old
    \/ d.k = "StateInsert" /\ t.states[d.at].source = 0 /\ d.new.source # 0
    \/ d.k = "StateUpdate" /\ t.states[d.at] = d.old /\ d.new.source # 0
    \/ d.k = "StateRemove" /\ t.states[d.at] = d.old
    \/ /\ d.k = "RequirementInsert"
       /\ t.states[d.at].source # 0 /\ d.event \notin t.states[d.at].met[d.index]
    \/ /\ d.k = "RequirementRemove"
       /\ t.states[d.at].source # 0 /\ d.events = t.states[d.at].met[d.index]
    \/ /\ d.k = "SinkInsert"
       /\ t.states[d.at].source # 0 /\ d.event \notin t.states[d.at].sunk[d.index]

Inverts(t, d) ==
    Redo(t, d) \in Tables /\ WellFormed(Redo(t, d)) /\ Undo(Redo(t, d), d) = t

(* Undoing a recorded change gives back the tables it was recorded for.    *)
LEMMA DeltaInverts ==
    ASSUME NEW t \in Tables, WellFormed(t), NEW d \in Deltas, Applies(t, d)
    PROVE  Inverts(t, d)
<1>1. CASE d.k = "AliasInsert"
  <2>1. d.at \in Vars /\ d.new \in Objects /\ t.alias[d.at] = NoObject
    BY <1>1 DEF Deltas, Applies
  <2>2. /\ Redo(t, d) = SetAlias(t, d.at, d.new)
        /\ Undo(Redo(t, d), d) = SetAlias(Redo(t, d), d.at, NoObject)
    BY <1>1 DEF Redo, Undo
  <2> QED BY <2>1, <2>2, SetAliasFacts DEF Inverts
<1>2. CASE d.k = "AliasUpdate"
  <2>1. d.at \in Vars /\ d.new \in Objects /\ t.alias[d.at] = d.old
    BY <1>2 DEF Deltas, Applies
  <2>2. /\ Redo(t, d) = SetAlias(t, d.at, d.new)
        /\ Undo(Redo(t, d), d) = SetAlias(Redo(t, d), d.at, d.old)
    BY <1>2 DEF Redo, Undo
  <2> QED BY <2>1, <2>2, SetAliasFacts DEF Inverts
<1>3. CASE d.k = "AliasRemove"
  <2>1. d.at \in Vars /\ t.alias[d.at] = d.old
    BY <1>3 DEF Deltas, Applies
  <2>2. /\ Redo(t, d) = SetAlias(t, d.at, NoObject)
        /\ Undo(Redo(t, d), d) = SetAlias(Redo(t, d), d.at, d.old)
    BY <1>3 DEF Redo, Undo
  <2> QED BY <2>1, <2>2, SetAliasFacts DEF Inverts
<1>4. CASE d.k = "StateInsert"
  <2>1. /\ d.at \in Objects /\ d.new \in States /\ d.new.source # 0
        /\ t.states[d.at].source = 0
    BY <1>4 DEF Deltas, Applies
  <2>2. t.states[d.at] = NoState
    BY <2>1 DEF WellFormed
  <2>3. /\ Redo(t, d) = SetState(t, d.at, d.new)
        /\ Undo(Redo(t, d), d) = SetState(Redo(t, d), d.at, NoState)
    BY <1>4 DEF Redo, Undo
  <2> QED BY <2>1, <2>2, <2>3, SetStateFacts DEF Inverts
<1>5. CASE d.k = "StateUpdate"
  <2>1. /\ d.at \in Objects /\ d.new \in States /\ d.new.source # 0
        /\ t.states[d.at] = d.old
    BY <1>5 DEF Deltas, Applies
  <2>2. /\ Redo(t, d) = SetState(t, d.at, d.new)
        /\ Undo(Redo(t, d), d) = SetState(Redo(t, d), d.at, d.old)
    BY <1>5 DEF Redo, Undo
  <2> QED BY <2>1, <2>2, SetStateFacts DEF Inverts
<1>6. CASE d.k = "StateRemove"
  <2>1. d.at \in Objects /\ t.states[d.at] = d.old
    BY <1>6 DEF Deltas, Applies
  <2>2. /\ Redo(t, d) = SetState(t, d.at, NoState)
        /\ Undo(Redo(t, d), d) = SetState(Redo(t, d), d.at, d.old)
    BY <1>6 DEF Redo, Undo
  <2> QED BY <2>1, <2>2, NoStateIsAState, SetStateFacts DEF Inverts
<1>7. CASE d.k = "RequirementInsert"
  <2> DEFINE s == t.states[d.at]
             E == s.met[d.index] \cup {d.event}
             u == SetMet(s, d.index, E)
  <2>1. /\ d.at \in Objects /\ d.index \in Requirements /\ d.event \in Events
        /\ s.source # 0 /\ d.event \notin s.met[d.index]
    BY <1>7 DEF Deltas, Applies
  <2>2. s \in States
    BY <2>1 DEF Tables
  <2>3. s.met[d.index] \in SUBSET Events /\ E \in SUBSET Events
    BY <2>1, <2>2 DEF States
  <2> HIDE DEF s, E, u
  <2>4. u \in States /\ u.source = s.source /\ u.met[d.index] = E
    BY <2>1, <2>2, <2>3, SetMetFacts DEF u
  <2>5. Redo(t, d) = SetState(t, d.at, u)
    BY <1>7, <2>1 DEF Redo, Met, s, E, u
  <2>6. Redo(t, d) \in Tables /\ WellFormed(Redo(t, d)) /\ Redo(t, d).states[d.at] = u
    BY <2>1, <2>4, <2>5, SetStateFacts
  <2>7. E \ {d.event} = s.met[d.index]
    BY <2>1 DEF E
  <2>8. Undo(Redo(t, d), d) = SetState(Redo(t, d), d.at, SetMet(u, d.index, s.met[d.index]))
    BY <1>7, <2>1, <2>4, <2>6, <2>7 DEF Undo, Met
  <2>9. SetMet(u, d.index, s.met[d.index]) = s
    BY <2>1, <2>2, <2>3, SetMetFacts DEF u
  <2>10. Undo(Redo(t, d), d) = SetState(t, d.at, s)
    BY <2>1, <2>4, <2>5, <2>8, <2>9, SetStateFacts
  <2> QED BY <2>1, <2>2, <2>6, <2>10, SetStateFacts DEF Inverts, s
<1>8. CASE d.k = "RequirementRemove"
  <2> DEFINE s == t.states[d.at]
             u == SetMet(s, d.index, {})
  <2>1. /\ d.at \in Objects /\ d.index \in Requirements
        /\ s.source # 0 /\ d.events = s.met[d.index]
    BY <1>8 DEF Deltas, Applies
  <2>2. s \in States
    BY <2>1 DEF Tables
  <2>3. s.met[d.index] \in SUBSET Events
    BY <2>1, <2>2 DEF States
  <2> HIDE DEF s, u
  <2>4. u \in States /\ u.source = s.source /\ u.met[d.index] = {}
    BY <2>1, <2>2, SetMetFacts DEF u
  <2>5. Redo(t, d) = SetState(t, d.at, u)
    BY <1>8, <2>1 DEF Redo, Met, s, u
  <2>6. Redo(t, d) \in Tables /\ WellFormed(Redo(t, d)) /\ Redo(t, d).states[d.at] = u
    BY <2>1, <2>4, <2>5, SetStateFacts
  <2>7. {} \cup d.events = s.met[d.index]
    BY <2>1
  <2>8. Undo(Redo(t, d), d) = SetState(Redo(t, d), d.at, SetMet(u, d.index, s.met[d.index]))
    BY <1>8, <2>1, <2>4, <2>6, <2>7 DEF Undo, Met
  <2>9. SetMet(u, d.index, s.met[d.index]) = s
    BY <2>1, <2>2, <2>3, SetMetFacts DEF u
  <2>10. Undo(Redo(t, d), d) = SetState(t, d.at, s)
    BY <2>1, <2>4, <2>5, <2>8, <2>9, SetStateFacts
  <2> QED BY <2>1, <2>2, <2>6, <2>10, SetStateFacts DEF Inverts, s
<1>9. CASE d.k = "SinkInsert"
  <2> DEFINE s == t.states[d.at]
             E == s.sunk[d.index] \cup {d.event}
             u == SetSunk(s, d.index, E)
  <2>1. /\ d.at \in Objects /\ d.index \in Sinks /\ d.event \in Events
        /\ s.source # 0 /\ d.event \notin s.sunk[d.index]
    BY <1>9 DEF Deltas, Applies
  <2>2. s \in States
    BY <2>1 DEF Tables
  <2>3. s.sunk[d.index] \in SUBSET Events /\ E \in SUBSET Events
    BY <2>1, <2>2 DEF States
  <2> HIDE DEF s, E, u
  <2>4. u \in States /\ u.source = s.source /\ u.sunk[d.index] = E
    BY <2>1, <2>2, <2>3, SetSunkFacts DEF u
  <2>5. Redo(t, d) = SetState(t, d.at, u)
    BY <1>9, <2>1 DEF Redo, Sunk, s, E, u
  <2>6. Redo(t, d) \in Tables /\ WellFormed(Redo(t, d)) /\ Redo(t, d).states[d.at] = u
    BY <2>1, <2>4, <2>5, SetStateFacts
  <2>7. E \ {d.event} = s.sunk[d.index]
    BY <2>1 DEF E
  <2>8. Undo(Redo(t, d), d) = SetState(Redo(t, d), d.at, SetSunk(u, d.index, s.sunk[d.index]))
    BY <1>9, <2>1, <2>4, <2>6, <2>7 DEF Undo, Sunk
  <2>9. SetSunk(u, d.index, s.sunk[d.index]) = s
    BY <2>1, <2>2, <2>3, SetSunkFacts DEF u
  <2>10. Undo(Redo(t, d), d) = SetState(t, d.at, s)
    BY <2>1, <2>4, <2>5, <2>8, <2>9, SetStateFacts
  <2> QED BY <2>1, <2>2, <2>6, <2>10, SetStateFacts DEF Inverts, s
<1> QED BY <1>1, <1>2, <1>3, <1>4, <1>5, <1>6, <1>7, <1>8, <1>9 DEF Applies

------------------------------------------------------------------------------
Entry == [parent : Nat, depth : Nat, delta : Deltas]

LEMMA PositionFacts ==
    ASSUME TypeOK, NEW n \in DOMAIN entries
    PROVE  /\ n \in Positions /\ n # 0
           /\ entries[n] \in Entry
           /\ ParentOf(n) = entries[n].parent
           /\ ParentOf(n) \in Positions
           /\ entries[n].delta \in Deltas
<1>1. entries \in Seq(Entry)
  BY DEF TypeOK, Entry
<1>2. n \in 1..Len(entries) /\ Len(entries) \in Nat /\ entries[n] \in Entry
  BY <1>1
<1>3. ParentOf(n) = entries[n].parent /\ entries[n].parent \in 0..(n - 1)
  BY <1>2 DEF ParentOf, TypeOK
<1>4. entries[n].delta \in Deltas
  BY <1>2 DEF Entry
<1> QED BY <1>2, <1>3, <1>4 DEF Positions

LEMMA ParentStays ==
    ASSUME TypeOK, NEW n \in Positions PROVE ParentOf(n) \in Positions
BY PositionFacts, SMTT(30) DEF TypeOK, Positions, ParentOf

(* Recording a change.                                                     *)
LEMMA FullLogPreserves ==
    ASSUME IInv, NEW d \in Deltas, Applies(tables, d), Record(d),
           Len(entries) >= MutationLimit
    PROVE  IInv'
<1>1. /\ AtRest /\ tables' = Redo(tables, d) /\ exhausted' = TRUE
      /\ UNCHANGED <<entries, cursor, saved, move>>
  BY DEF Record, Become
<1>2. tables' \in Tables /\ WellFormed(tables')
  BY <1>1, DeltaInverts DEF IInv, TypeOK, Live, Inverts
<1>3. TypeOK'
  BY <1>1, <1>2 DEF IInv, TypeOK, Positions, DepthOf
<1>4. Live'
  BY <1>1, <1>2 DEF Live, AtRest
<1>5. Linked' /\ OnTheWay'
  BY <1>1 DEF IInv, Linked, OnTheWay, Positions, ParentOf
<1> QED BY <1>3, <1>4, <1>5 DEF IInv

LEMMA RoomyLogPreserves ==
    ASSUME IInv, NEW d \in Deltas, Applies(tables, d), Record(d),
           ~(Len(entries) >= MutationLimit)
    PROVE  IInv'
<1> DEFINE N == Len(entries) + 1
           e == NextEntry(d)
<1>1. /\ AtRest /\ tables' = Redo(tables, d) /\ entries' = Append(entries, e)
      /\ cursor' = N /\ UNCHANGED <<exhausted, move>>
      /\ saved' = [n \in 0..N |-> IF n \in DOMAIN saved THEN saved[n] ELSE Redo(tables, d)]
  BY DEF Record, Become
<1>2. tables' \in Tables /\ WellFormed(tables') /\ Undo(tables', d) = tables
  BY <1>1, DeltaInverts DEF IInv, TypeOK, Live, Inverts
<1>3. /\ entries \in Seq(Entry) /\ Len(entries) \in Nat /\ N \in Nat
      /\ cursor \in 0..Len(entries)
  BY DEF IInv, TypeOK, Entry, Positions
<1>4. DepthOf(cursor) \in Nat
  <2>1. CASE cursor = 0
    BY <2>1 DEF DepthOf
  <2>2. CASE cursor # 0
    <3>1. entries[cursor] \in Entry
      BY <1>3, <2>2
    <3> QED BY <2>2, <3>1 DEF DepthOf, Entry
  <2> QED BY <2>1, <2>2
<1>5. e \in Entry
  BY <1>3, <1>4 DEF Entry, NextEntry
<1>6. /\ entries' \in Seq(Entry) /\ Len(entries') = N
      /\ DOMAIN entries' = DOMAIN entries \cup {N} /\ entries'[N] = e
      /\ \A n \in DOMAIN entries : n \in 1..(N - 1) /\ entries'[n] = entries[n]
  BY <1>1, <1>3, <1>5
<1>7. /\ Positions' = Positions \cup {N} /\ N \notin Positions
      /\ Positions = 0..(N - 1)
  BY <1>3, <1>6 DEF Positions
<1>8. /\ DOMAIN saved' = Positions' /\ saved'[N] = tables'
      /\ \A n \in Positions : saved'[n] = saved[n]
  BY <1>1, <1>3, <1>7, SMTT(60) DEF IInv, TypeOK
<1>9. \A n \in Positions : DepthOf(n)' = DepthOf(n) /\ ParentOf(n)' = ParentOf(n)
  BY <1>3, <1>6, <1>7 DEF DepthOf, ParentOf
<1> HIDE DEF e, N
<1>10. TypeOK'
  <2>1. (\A n \in DOMAIN entries :
           /\ entries[n].parent \in 0..(n - 1)
           /\ entries[n].depth = DepthOf(entries[n].parent) + 1)'
    <3> SUFFICES ASSUME NEW n \in DOMAIN entries'
                 PROVE  (/\ entries[n].parent \in 0..(n - 1)
                         /\ entries[n].depth = DepthOf(entries[n].parent) + 1)'
      OBVIOUS
    <3>1. CASE n = N
      <4>1. e.parent = cursor /\ e.depth = DepthOf(cursor) + 1
        BY DEF e, NextEntry
      <4>2. entries'[n].parent = cursor /\ entries'[n].depth = DepthOf(cursor) + 1
        BY <1>6, <3>1, <4>1
      <4>3. cursor \in Positions /\ cursor \in 0..(n - 1)
        BY <1>3, <3>1 DEF N, Positions
      <4> QED BY <1>9, <4>2, <4>3
    <3>2. CASE n # N
      <4>1. n \in DOMAIN entries /\ entries'[n] = entries[n]
        BY <1>6, <3>2
      <4>2. /\ entries[n].parent \in 0..(n - 1) /\ n \in 1..Len(entries)
            /\ entries[n].depth = DepthOf(entries[n].parent) + 1
        BY <1>3, <4>1 DEF IInv, TypeOK
      <4>3. entries[n].parent \in Positions
        BY <1>3, <4>2 DEF Positions
      <4> QED BY <1>9, <4>1, <4>2, <4>3
    <3> QED BY <3>1, <3>2
  <2>2. move' \in Moves /\ {move.target, move.source, move.destination, move.at}' \subseteq Positions'
        /\ \A i \in DOMAIN move'.forward : move'.forward[i] \in DOMAIN entries'
    BY <1>1, <1>6, <1>7 DEF IInv, TypeOK
  <2>3. entries' \in Seq([parent : Nat, depth : Nat, delta : Deltas])
    BY <1>6 DEF Entry
  <2>4. tables' \in Tables /\ cursor' \in Positions' /\ exhausted' \in BOOLEAN
        /\ DOMAIN saved' = Positions'
    BY <1>1, <1>2, <1>7, <1>8 DEF IInv, TypeOK
  <2> QED BY <2>1, <2>2, <2>3, <2>4 DEF TypeOK
<1>11. Live'
  BY <1>1, <1>2, <1>6, <1>7, <1>8 DEF IInv, Live, Here, AtRest
<1>12. Linked'
  <2>1. \A n \in Positions' : saved'[n] \in Tables /\ WellFormed(saved'[n])
    BY <1>2, <1>7, <1>8 DEF IInv, Linked
  <2>2. ASSUME NEW n \in DOMAIN entries'
        PROVE  /\ saved'[n] = Redo(saved'[entries'[n].parent], entries'[n].delta)
               /\ saved'[entries'[n].parent] = Undo(saved'[n], entries'[n].delta)
    <3>1. CASE n = N
      <4>1. e.parent = cursor /\ e.delta = d
        BY DEF e, NextEntry
      <4>2. ~exhausted => saved'[cursor] = tables
        BY <1>1, <1>7, <1>8, <1>3 DEF IInv, Live, Here, Positions
      <4>3. ~exhausted
        BY DEF IInv, Live
      <4> QED BY <1>1, <1>2, <1>6, <1>8, <3>1, <4>1, <4>2, <4>3
    <3>2. CASE n # N
      <4>1. n \in DOMAIN entries /\ entries'[n] = entries[n]
        BY <1>6, <3>2
      <4>2. n \in Positions /\ entries[n].parent \in Positions
        BY <4>1, PositionFacts DEF IInv
      <4> QED BY <1>8, <4>1, <4>2 DEF IInv, Linked
    <3> QED BY <3>1, <3>2
  <2> QED BY <2>1, <2>2 DEF Linked
<1>13. OnTheWay'
  BY <1>1 DEF IInv, OnTheWay, AtRest
<1> QED BY <1>10, <1>11, <1>12, <1>13 DEF IInv

------------------------------------------------------------------------------
(* The steps of a transition.  None of them touches the log, so positions  *)
(* and links stay; what moves is where the tables are.                     *)
LogStays == UNCHANGED <<entries, cursor, exhausted, saved>>

LEMMA LogStaysFacts ==
    ASSUME IInv, LogStays
    PROVE  /\ Positions' = Positions /\ Linked'
           /\ \A n : DepthOf(n)' = DepthOf(n) /\ ParentOf(n)' = ParentOf(n)
BY DEF IInv, LogStays, Positions, Linked, DepthOf, ParentOf

LEMMA MoveFacts ==
    ASSUME IInv
    PROVE  /\ move \in Moves /\ Positions \subseteq Nat
           /\ move.target \in Positions /\ move.source \in Positions
           /\ move.destination \in Positions /\ move.at \in Positions
           /\ move.forward \in Seq(Nat) /\ Len(move.forward) \in Nat
           /\ \A i \in 1..Len(move.forward) : move.forward[i] \in DOMAIN entries
           /\ DOMAIN entries = Positions \ {0}
<1>1. entries \in Seq(Entry)
  BY DEF IInv, TypeOK, Entry
<1>2. DOMAIN entries = Positions \ {0}
  <2>1. Len(entries) \in Nat /\ DOMAIN entries = 1..Len(entries)
    BY <1>1
  <2>2. \A m \in Nat : 1..m = (0..m) \ {0}
    OBVIOUS
  <2> QED BY <2>1, <2>2 DEF Positions
<1>3. move.forward \in Seq(Nat)
  BY DEF IInv, TypeOK, Moves
<1> QED BY <1>2, <1>3 DEF IInv, TypeOK, Positions

(* What has to be shown of a step that leaves the log alone.               *)
LEMMA MovePreserves ==
    ASSUME IInv, LogStays, move' \in Moves,
           tables' \in Tables, WellFormed(tables'),
           {move.target, move.source, move.destination, move.at}' \subseteq Positions,
           \A i \in 1..Len(move'.forward) : move'.forward[i] \in DOMAIN entries,
           ~exhausted, ~AtRest', tables' = saved[move'.at], OnTheWay'
    PROVE  IInv'
<1>1. move'.forward \in Seq(Nat)
  BY DEF Moves
<1>2. DOMAIN move'.forward = 1..Len(move'.forward)
  BY <1>1
<1>3. Positions' = Positions /\ \A n : DepthOf(n)' = DepthOf(n)
  BY LogStaysFacts
<1>4. TypeOK'
  <2>1. (\A n \in DOMAIN entries : /\ entries[n].parent \in 0..(n - 1)
                                  /\ entries[n].depth = DepthOf(entries[n].parent) + 1)'
    BY <1>3 DEF IInv, TypeOK, LogStays
  <2>2. /\ cursor' \in Positions' /\ exhausted' \in BOOLEAN /\ DOMAIN saved' = Positions'
        /\ entries' \in Seq([parent : Nat, depth : Nat, delta : Deltas])
        /\ entries' = entries
    BY <1>3 DEF IInv, TypeOK, LogStays
  <2>3. move' \in Moves /\ tables' \in Tables
    OBVIOUS
  <2>4. {move.target, move.source, move.destination, move.at}' \subseteq Positions'
    BY <1>3
  <2>5. \A i \in DOMAIN move'.forward : move'.forward[i] \in DOMAIN entries'
    BY <1>2, <2>2
  <2> QED BY <2>1, <2>2, <2>3, <2>4, <2>5 DEF TypeOK
<1>5. Live'
  BY DEF IInv, Live, LogStays, Here
<1> QED BY <1>4, <1>5, LogStaysFacts DEF IInv

(* A step that only moves pointers.                                        *)
LEMMA PointersPreserve ==
    ASSUME IInv, Stay, ~AtRest, ~AtRest', move' \in Moves, move'.at = move.at,
           {move.target, move.source, move.destination}' \subseteq Positions,
           \A i \in 1..Len(move'.forward) : move'.forward[i] \in DOMAIN entries,
           OnTheWay'
    PROVE  IInv'
<1>1. LogStays /\ tables' = tables
  BY DEF Stay, LogStays
<1>2. ~exhausted /\ tables = saved[move.at] /\ WellFormed(tables)
  BY DEF IInv, Live, Here
<1>3. tables \in Tables /\ move.at \in Positions
  BY MoveFacts DEF IInv, TypeOK
<1> QED BY <1>1, <1>2, <1>3, MovePreserves

LEMMA StartTransitionPreserves ==
    ASSUME IInv, NEW target \in Positions, StartTransition(target) PROVE IInv'
<1>1. LogStays /\ tables' = tables /\ AtRest /\ ~exhausted
  BY DEF StartTransition, LogStays
<1>2. /\ move'.phase = "level" /\ move'.target = target /\ move'.source = cursor
      /\ move'.destination = target /\ move'.at = cursor /\ move'.forward = <<>>
      /\ move' = [phase |-> "level", target |-> target, source |-> cursor,
                  destination |-> target, at |-> cursor, forward |-> <<>>, left |-> 0]
  BY DEF StartTransition
<1>3. cursor \in Positions /\ Positions \subseteq Nat
  BY MoveFacts DEF IInv, TypeOK
<1>4. move' \in Moves
  BY <1>2, <1>3 DEF Moves
<1>5. tables \in Tables /\ WellFormed(tables) /\ tables = saved[cursor]
  BY <1>1 DEF IInv, TypeOK, Live, Here
<1>6. OnTheWay' /\ ~AtRest'
  BY <1>2 DEF OnTheWay, AtRest
<1>7. 1..Len(move'.forward) = {}
  BY <1>2
<1> QED BY <1>1, <1>2, <1>3, <1>4, <1>5, <1>6, <1>7, MovePreserves

LEMMA ClimbSourcePreserves == ASSUME IInv, ClimbSource PROVE IInv'
<1>1. Stay /\ move.phase = "level"
  BY DEF ClimbSource
<1>2. /\ move'.phase = "level" /\ move'.at = move.at /\ move'.target = move.target
      /\ move'.forward = move.forward
      /\ move'.source = ParentOf(move.source)
      /\ move'.destination \in {move.destination, ParentOf(move.destination)}
      /\ move' = [move EXCEPT !.source = ParentOf(move.source),
                              !.destination = move'.destination]
  BY <1>1, MoveFacts DEF ClimbSource, Moves
<1>3. {move.target, move.source, move.destination}' \subseteq Positions
  BY <1>2, MoveFacts, ParentStays DEF IInv
<1>4. move' \in Moves
  BY <1>2, <1>3, MoveFacts DEF Moves
<1>5. OnTheWay' /\ ~AtRest /\ ~AtRest'
  BY <1>1, <1>2 DEF IInv, OnTheWay, AtRest
<1> QED BY <1>1, <1>2, <1>3, <1>4, <1>5, MoveFacts, PointersPreserve

LEMMA ClimbDestinationPreserves == ASSUME IInv, ClimbDestination PROVE IInv'
<1>1. Stay /\ move.phase = "level"
  BY DEF ClimbDestination
<1>2. /\ move'.phase = "level" /\ move'.at = move.at /\ move'.target = move.target
      /\ move'.forward = move.forward /\ move'.source = move.source
      /\ move'.destination = ParentOf(move.destination)
      /\ move' = [move EXCEPT !.destination = ParentOf(move.destination)]
  BY <1>1, MoveFacts DEF ClimbDestination, Moves
<1>3. {move.target, move.source, move.destination}' \subseteq Positions
  BY <1>2, MoveFacts, ParentStays DEF IInv
<1>4. move' \in Moves
  BY <1>2, <1>3, MoveFacts DEF Moves
<1>5. OnTheWay' /\ ~AtRest /\ ~AtRest'
  BY <1>1, <1>2 DEF IInv, OnTheWay, AtRest
<1> QED BY <1>1, <1>2, <1>3, <1>4, <1>5, MoveFacts, PointersPreserve

LEMMA MeetPreserves == ASSUME IInv, Meet PROVE IInv'
<1>1. Stay /\ move.phase = "level"
  BY DEF Meet
<1>2. /\ move'.phase = "undo" /\ move'.at = move.at /\ move'.target = move.target
      /\ move'.forward = move.forward /\ move'.source = move.source
      /\ move'.destination = move.destination
      /\ move' = [move EXCEPT !.phase = "undo"]
  BY <1>1, MoveFacts DEF Meet, Moves
<1>3. move' \in Moves
  BY <1>2, MoveFacts DEF Moves
<1>4. OnTheWay' /\ ~AtRest /\ ~AtRest'
  BY <1>1, <1>2 DEF IInv, OnTheWay, AtRest
<1> QED BY <1>1, <1>2, <1>3, <1>4, MoveFacts, PointersPreserve

(* Undoing the entry the tables are at takes them to its parent.           *)
LEMMA UndoStepPreserves == ASSUME IInv, UndoStep PROVE IInv'
<1>1. LogStays /\ move.phase = "undo" /\ move.at # 0
  BY DEF UndoStep, LogStays
<1>2. tables' = Undo(tables, entries[move.at].delta)
  BY DEF UndoStep, Become
<1>3. /\ move'.phase = "undo" /\ move'.at = ParentOf(move.at)
      /\ move'.target = move.target /\ move'.forward = move.forward
      /\ move'.source = move.source /\ move'.destination = move.destination
      /\ move' = [move EXCEPT !.at = ParentOf(move.at)]
  BY <1>1, MoveFacts DEF UndoStep, Moves
<1>4. move.at \in DOMAIN entries
  BY <1>1, MoveFacts
<1>5. ~exhausted /\ tables = saved[move.at]
  BY <1>1 DEF IInv, Live, Here, AtRest
<1>6. ParentOf(move.at) = entries[move.at].parent /\ ParentOf(move.at) \in Positions
  BY <1>4, PositionFacts DEF IInv
<1>7. tables' = saved[ParentOf(move.at)]
  BY <1>2, <1>4, <1>5, <1>6 DEF IInv, Linked
<1>8. tables' \in Tables /\ WellFormed(tables')
  BY <1>6, <1>7 DEF IInv, Linked
<1>9. move' \in Moves
  BY <1>3, <1>6, MoveFacts DEF Moves
<1>10. OnTheWay' /\ ~AtRest'
  BY <1>1, <1>3 DEF IInv, OnTheWay, AtRest
<1> QED BY <1>1, <1>3, <1>5, <1>6, <1>7, <1>8, <1>9, <1>10, MoveFacts, MovePreserves

LEMMA TurnForwardPreserves == ASSUME IInv, TurnForward PROVE IInv'
<1>1. Stay /\ move.phase = "undo" /\ move.at = move.source
  BY DEF TurnForward
<1>2. /\ move'.phase = "collect" /\ move'.at = move.at /\ move'.target = move.target
      /\ move'.forward = move.forward /\ move'.source = move.source
      /\ move'.destination = move.target
      /\ move' = [move EXCEPT !.phase = "collect", !.destination = move.target]
  BY <1>1, MoveFacts DEF TurnForward, Moves
<1>3. move' \in Moves
  BY <1>2, MoveFacts DEF Moves
<1>4. move.forward = <<>>
  BY <1>1 DEF IInv, OnTheWay
<1>5. OnTheWay' /\ ~AtRest /\ ~AtRest'
  BY <1>1, <1>2, <1>4 DEF OnTheWay, AtRest
<1> QED BY <1>1, <1>2, <1>3, <1>5, MoveFacts, PointersPreserve

LEMMA CollectPreserves == ASSUME IInv, Collect PROVE IInv'
<1> DEFINE f == move.forward
           d == move.destination
           g == Append(f, d)
<1>1. Stay /\ move.phase = "collect" /\ d # 0
  BY DEF Collect
<1>2. /\ move'.phase = "collect" /\ move'.at = move.at /\ move'.target = move.target
      /\ move'.forward = g /\ move'.source = move.source
      /\ move'.destination = ParentOf(d)
      /\ move' = [move EXCEPT !.forward = g, !.destination = ParentOf(d)]
  BY <1>1, MoveFacts DEF Collect, Moves
<1>3. f \in Seq(Nat) /\ Len(f) \in Nat /\ d \in Nat /\ d \in DOMAIN entries
  BY <1>1, MoveFacts
<1>4. /\ g \in Seq(Nat) /\ Len(g) = Len(f) + 1 /\ g[Len(g)] = d
      /\ \A i \in 1..Len(f) : g[i] = f[i]
  BY <1>3
<1>5. /\ move.at = move.source
      /\ f # <<>> => f[1] = move.target
      /\ \A i \in 1..(Len(f) - 1) : ParentOf(f[i]) = f[i + 1]
      /\ d = IF f = <<>> THEN move.target ELSE ParentOf(f[Len(f)])
  BY <1>1 DEF IInv, OnTheWay
<1>6. \A i \in 1..Len(f) : f[i] \in DOMAIN entries
  BY MoveFacts
<1>7. ParentOf(d) \in Positions
  BY ParentStays, MoveFacts DEF IInv
<1>8. \A n : ParentOf(n)' = ParentOf(n)
  BY <1>1, LogStaysFacts DEF Stay, LogStays
<1>9. f = <<>> <=> Len(f) = 0
  BY <1>3
<1> HIDE DEF f, d, g
<1>10. \A i \in 1..Len(g) : g[i] \in DOMAIN entries
  BY <1>3, <1>4, <1>6, SMTT(30)
<1>11. g # <<>> /\ g[1] = move.target
  BY <1>3, <1>4, <1>5, <1>9
<1>12. \A i \in 1..(Len(g) - 1) : ParentOf(g[i]) = g[i + 1]
  <2> SUFFICES ASSUME NEW i \in 1..(Len(g) - 1) PROVE ParentOf(g[i]) = g[i + 1]
    OBVIOUS
  <2>1. CASE i = Len(f)
    BY <1>3, <1>4, <1>5, <1>9, <2>1
  <2>2. CASE i # Len(f)
    <3>1. i \in 1..(Len(f) - 1) /\ i \in 1..Len(f) /\ i + 1 \in 1..Len(f)
      BY <1>3, <1>4, <2>2
    <3> QED BY <1>4, <1>5, <3>1
  <2> QED BY <2>1, <2>2
<1>13. OnTheWay'
  BY <1>2, <1>4, <1>5, <1>8, <1>11, <1>12 DEF OnTheWay
<1>14. move' \in Moves
  BY <1>2, <1>4, <1>7, MoveFacts DEF Moves
<1>15. ~AtRest /\ ~AtRest'
  BY <1>1, <1>2 DEF AtRest
<1> QED BY <1>1, <1>2, <1>7, <1>10, <1>13, <1>14, <1>15, MoveFacts, PointersPreserve

LEMMA CollectedPreserves == ASSUME IInv, Collected PROVE IInv'
<1> DEFINE f == move.forward
<1>1. Stay /\ move.phase = "collect" /\ move.destination = move.source
  BY DEF Collected
<1>2. /\ move'.phase = "redo" /\ move'.at = move.at /\ move'.target = move.target
      /\ move'.forward = f /\ move'.source = move.source
      /\ move'.destination = move.destination /\ move'.left = Len(f)
      /\ move' = [move EXCEPT !.phase = "redo", !.left = Len(f)]
  BY <1>1, MoveFacts DEF Collected, Moves
<1>3. f \in Seq(Nat) /\ Len(f) \in Nat
  BY MoveFacts
<1>4. /\ move.at = move.source
      /\ f # <<>> => f[1] = move.target
      /\ \A i \in 1..(Len(f) - 1) : ParentOf(f[i]) = f[i + 1]
      /\ move.destination = IF f = <<>> THEN move.target ELSE ParentOf(f[Len(f)])
  BY <1>1 DEF IInv, OnTheWay
<1>5. \A n : ParentOf(n)' = ParentOf(n)
  BY <1>1, LogStaysFacts DEF Stay, LogStays
<1>6. f = <<>> <=> Len(f) = 0
  BY <1>3
<1>7. move' \in Moves
  BY <1>2, <1>3, MoveFacts DEF Moves
<1>8. ~AtRest /\ ~AtRest'
  BY <1>1, <1>2 DEF AtRest
<1>9. Len(f) \in 0..Len(f)
  BY <1>3
<1> HIDE DEF f
<1>10. OnTheWay'
  BY <1>1, <1>2, <1>4, <1>5, <1>6, <1>9 DEF OnTheWay
<1> QED BY <1>1, <1>2, <1>7, <1>8, <1>10, MoveFacts, PointersPreserve DEF f

(* Redoing the next entry of the way takes the tables from its parent to   *)
(* it.                                                                     *)
LEMMA RedoStepPreserves == ASSUME IInv, RedoStep PROVE IInv'
<1> DEFINE f == move.forward
           n == f[move.left]
<1>1. LogStays /\ move.phase = "redo" /\ move.left > 0 /\ move.left \in Nat
  BY MoveFacts DEF RedoStep, LogStays, Moves
<1>2. tables' = Redo(tables, entries[n].delta)
  BY DEF RedoStep, Become
<1>3. /\ move'.phase = "redo" /\ move'.at = n
      /\ move'.target = move.target /\ move'.forward = f
      /\ move'.source = move.source /\ move'.destination = move.destination
      /\ move'.left = move.left - 1
      /\ move' = [move EXCEPT !.at = n, !.left = move.left - 1]
  BY <1>1, MoveFacts DEF RedoStep, Moves
<1>4. /\ f # <<>> => f[1] = move.target
      /\ \A i \in 1..(Len(f) - 1) : ParentOf(f[i]) = f[i + 1]
      /\ move.left \in 0..Len(f)
      /\ move.at = IF move.left = 0 THEN move.target ELSE ParentOf(n)
  BY <1>1 DEF IInv, OnTheWay
<1>5. f \in Seq(Nat) /\ Len(f) \in Nat /\ (f = <<>> <=> Len(f) = 0)
  BY MoveFacts
<1>6. n \in DOMAIN entries
  BY <1>1, <1>4, <1>5, MoveFacts
<1>7. ~exhausted /\ tables = saved[move.at]
  BY <1>1 DEF IInv, Live, Here, AtRest
<1>8. ParentOf(n) = entries[n].parent /\ n \in Positions
  BY <1>6, PositionFacts DEF IInv
<1>9. tables' = saved[n]
  BY <1>1, <1>2, <1>4, <1>6, <1>7, <1>8 DEF IInv, Linked
<1>10. tables' \in Tables /\ WellFormed(tables')
  BY <1>8, <1>9 DEF IInv, Linked
<1>11. move.left - 1 \in 0..Len(f) /\ move.left - 1 \in Nat
  BY <1>1, <1>4, <1>5
<1>12. move' \in Moves
  BY <1>3, <1>8, <1>11, MoveFacts DEF Moves
<1>13. \A m : ParentOf(m)' = ParentOf(m)
  BY <1>1, LogStaysFacts
<1>14. n = IF move.left - 1 = 0 THEN move.target ELSE ParentOf(f[move.left - 1])
  <2>1. CASE move.left - 1 = 0
    <3>1. move.left = 1
      BY <1>1, <2>1
    <3> QED BY <1>4, <1>5, <2>1, <3>1
  <2>2. CASE move.left - 1 # 0
    <3>1. move.left - 1 \in 1..(Len(f) - 1) /\ (move.left - 1) + 1 = move.left
      BY <1>1, <1>4, <1>5, <2>2
    <3> QED BY <1>4, <2>2, <3>1
  <2> QED BY <2>1, <2>2
<1> HIDE DEF f, n
<1>15. OnTheWay' /\ ~AtRest'
  BY <1>3, <1>4, <1>11, <1>13, <1>14 DEF OnTheWay, AtRest
<1>16. \A i \in 1..Len(move'.forward) : move'.forward[i] \in DOMAIN entries
  BY <1>3, MoveFacts DEF f
<1> QED BY <1>1, <1>3, <1>7, <1>8, <1>9, <1>10, <1>12, <1>15, <1>16,
           MoveFacts, MovePreserves

LEMMA ArrivePreserves == ASSUME IInv, Arrive PROVE IInv'
<1>1. /\ move.phase = "redo" /\ move.left = 0 /\ cursor' = move.target
      /\ move' = Idle /\ UNCHANGED <<tables, entries, exhausted, saved>>
  BY DEF Arrive
<1>2. /\ move'.phase = "idle" /\ move'.forward = <<>> /\ move' \in Moves
      /\ {move.target, move.source, move.destination, move.at}' = {0}
  BY <1>1 DEF Idle, Moves
<1>3. /\ move.target \in Positions /\ 0 \in Positions
  BY MoveFacts DEF Positions
<1>4. Positions' = Positions /\ \A n : DepthOf(n)' = DepthOf(n)
  BY <1>1 DEF Positions, DepthOf
<1>5. DOMAIN move'.forward = {}
  BY <1>2
<1>6. tables' \in Tables /\ cursor' \in Positions' /\ exhausted' \in BOOLEAN
      /\ DOMAIN saved' = Positions'
      /\ entries' \in Seq([parent : Nat, depth : Nat, delta : Deltas])
  BY <1>1, <1>3, <1>4 DEF IInv, TypeOK
<1>7. (\A n \in DOMAIN entries : /\ entries[n].parent \in 0..(n - 1)
                                /\ entries[n].depth = DepthOf(entries[n].parent) + 1)'
  BY <1>1, <1>4 DEF IInv, TypeOK
<1>8. TypeOK'
  BY <1>2, <1>3, <1>4, <1>5, <1>6, <1>7 DEF TypeOK
<1>9. ~exhausted /\ tables = saved[move.target] /\ WellFormed(tables)
  BY <1>1 DEF IInv, Live, OnTheWay, Here, AtRest
<1>10. Live'
  BY <1>1, <1>2, <1>9 DEF Live, Here, AtRest
<1>11. Linked'
  BY <1>1, <1>4 DEF IInv, Linked
<1>12. OnTheWay'
  BY <1>2 DEF OnTheWay
<1> QED BY <1>8, <1>10, <1>11, <1>12 DEF IInv

------------------------------------------------------------------------------
(* Every change of the tables is recorded as a delta that applies to them. *)
LEMMA RecordPreserves ==
    ASSUME IInv, NEW d \in Deltas, Applies(tables, d), Record(d)
    PROVE  IInv'
BY FullLogPreserves, RoomyLogPreserves

LEMMA AliasChangePreserves ==
    ASSUME IInv, NEW v \in Vars,
           UnbindAlias(v) \/ \E o \in Objects : BindAlias(v, o)
    PROVE  IInv'
<1>1. tables.alias[v] \in Objects \cup {NoObject}
  BY DEF IInv, TypeOK, Tables
<1>2. CASE UnbindAlias(v)
  <2> DEFINE d == [k |-> "AliasRemove", at |-> v, old |-> tables.alias[v]]
  <2>1. Record(d) /\ tables.alias[v] # NoObject
    BY <1>2 DEF UnbindAlias
  <2>2. d \in Deltas /\ Applies(tables, d)
    BY <1>1, <2>1 DEF Deltas, Applies
  <2> QED BY <2>1, <2>2, RecordPreserves
<1>3. ASSUME NEW o \in Objects, BindAlias(v, o) PROVE IInv'
  <2>1. CASE tables.alias[v] = NoObject
    <3> DEFINE d == [k |-> "AliasInsert", at |-> v, new |-> o]
    <3>1. Record(d)
      BY <1>3, <2>1 DEF BindAlias
    <3>2. d \in Deltas /\ Applies(tables, d)
      BY <2>1 DEF Deltas, Applies
    <3> QED BY <3>1, <3>2, RecordPreserves
  <2>2. CASE tables.alias[v] # NoObject
    <3> DEFINE d == [k |-> "AliasUpdate", at |-> v, old |-> tables.alias[v], new |-> o]
    <3>1. Record(d)
      BY <1>3, <2>2 DEF BindAlias
    <3>2. d \in Deltas /\ Applies(tables, d)
      BY <1>1, <2>2 DEF Deltas, Applies
    <3> QED BY <3>1, <3>2, RecordPreserves
  <2> QED BY <2>1, <2>2
<1> QED BY <1>2, <1>3

LEMMA StateChangePreserves ==
    ASSUME IInv, NEW o \in Objects,
           RemoveState(o) \/ \E e \in Events : InsertState(o, e)
    PROVE  IInv'
<1>1. tables.states[o] \in States
  BY DEF IInv, TypeOK, Tables
<1>2. CASE RemoveState(o)
  <2> DEFINE d == [k |-> "StateRemove", at |-> o, old |-> tables.states[o]]
  <2>1. Record(d)
    BY <1>2 DEF RemoveState
  <2>2. d \in Deltas /\ Applies(tables, d)
    BY <1>1 DEF Deltas, Applies
  <2> QED BY <2>1, <2>2, RecordPreserves
<1>3. ASSUME NEW e \in Events, InsertState(o, e) PROVE IInv'
  <2> DEFINE new == [source |-> e, met |-> NoState.met, sunk |-> NoState.sunk]
  <2>1. new \in States /\ new.source # 0
    BY HistoryAssumption DEF States, NoState
  <2> HIDE DEF new
  <2>2. CASE tables.states[o].source = 0
    <3> DEFINE d == [k |-> "StateInsert", at |-> o, new |-> new]
    <3>1. Record(d)
      BY <1>3, <2>2 DEF InsertState, new
    <3>2. d \in Deltas /\ Applies(tables, d)
      BY <2>1, <2>2 DEF Deltas, Applies
    <3> QED BY <3>1, <3>2, RecordPreserves
  <2>3. CASE tables.states[o].source # 0
    <3> DEFINE d == [k |-> "StateUpdate", at |-> o, old |-> tables.states[o], new |-> new]
    <3>1. Record(d)
      BY <1>3, <2>3 DEF InsertState, new
    <3>2. d \in Deltas /\ Applies(tables, d)
      BY <1>1, <2>1 DEF Deltas, Applies
    <3> QED BY <3>1, <3>2, RecordPreserves
  <2> QED BY <2>2, <2>3
<1> QED BY <1>2, <1>3

LEMMA EvidenceChangePreserves ==
    ASSUME IInv, NEW o \in Objects,
           \/ \E r \in Requirements :
                ClearRequirement(o, r) \/ \E e \in Events : MeetRequirement(o, r, e)
           \/ \E k \in Sinks, e \in Events : ReachSink(o, k, e)
    PROVE  IInv'
<1>1. tables.states[o] \in States
  BY DEF IInv, TypeOK, Tables
<1>2. ASSUME NEW r \in Requirements, ClearRequirement(o, r) PROVE IInv'
  <2> DEFINE d == [k |-> "RequirementRemove", at |-> o, index |-> r,
                   events |-> tables.states[o].met[r]]
  <2>1. Record(d) /\ tables.states[o].source # 0
    BY <1>2 DEF ClearRequirement, IsLive
  <2>2. tables.states[o].met[r] \in SUBSET Events
    BY <1>1 DEF States
  <2>3. d \in Deltas /\ Applies(tables, d)
    BY <2>1, <2>2 DEF Deltas, Applies
  <2> QED BY <2>1, <2>3, RecordPreserves
<1>3. ASSUME NEW r \in Requirements, NEW e \in Events, MeetRequirement(o, r, e)
      PROVE  IInv'
  <2> DEFINE d == [k |-> "RequirementInsert", at |-> o, index |-> r, event |-> e]
  <2>1. /\ Record(d) /\ tables.states[o].source # 0
        /\ e \notin tables.states[o].met[r]
    BY <1>3 DEF MeetRequirement, IsLive
  <2>2. d \in Deltas /\ Applies(tables, d)
    BY <2>1 DEF Deltas, Applies
  <2> QED BY <2>1, <2>2, RecordPreserves
<1>4. ASSUME NEW k \in Sinks, NEW e \in Events, ReachSink(o, k, e) PROVE IInv'
  <2> DEFINE d == [k |-> "SinkInsert", at |-> o, index |-> k, event |-> e]
  <2>1. /\ Record(d) /\ tables.states[o].source # 0
        /\ e \notin tables.states[o].sunk[k]
    BY <1>4 DEF ReachSink, IsLive
  <2>2. d \in Deltas /\ Applies(tables, d)
    BY <2>1 DEF Deltas, Applies
  <2> QED BY <2>1, <2>2, RecordPreserves
<1> QED BY <1>2, <1>3, <1>4

LEMMA InitEstablishes == Init => IInv
<1> SUFFICES ASSUME Init PROVE IInv
  OBVIOUS
<1>1. /\ entries = <<>> /\ cursor = 0 /\ exhausted = FALSE /\ move = Idle
      /\ tables = EmptyEnvironment /\ saved = [n \in {0} |-> EmptyEnvironment]
  BY DEF Init
<1>2. EmptyEnvironment \in Tables /\ WellFormed(EmptyEnvironment)
  BY NoStateIsAState DEF EmptyEnvironment, Tables, WellFormed
<1>3. Positions = {0} /\ DOMAIN entries = {} /\ Len(entries) = 0
  BY <1>1 DEF Positions
<1>4. entries \in Seq([parent : Nat, depth : Nat, delta : Deltas])
  BY <1>1
<1>5. move \in Moves /\ {move.target, move.source, move.destination, move.at} = {0}
      /\ move.forward = <<>> /\ move.phase = "idle" /\ DOMAIN move.forward = {}
  BY <1>1 DEF Idle, Moves
<1>6. TypeOK
  BY <1>1, <1>2, <1>3, <1>4, <1>5 DEF TypeOK
<1>7. Live /\ Linked /\ OnTheWay
  BY <1>1, <1>2, <1>3, <1>5 DEF Live, Linked, OnTheWay, Here, AtRest
<1> QED BY <1>6, <1>7 DEF IInv

LEMMA NextPreserves == IInv /\ [Next]_vars => IInv'
<1> SUFFICES ASSUME IInv, [Next]_vars PROVE IInv'
  OBVIOUS
<1>1. CASE Transition
  BY <1>1, ClimbSourcePreserves, ClimbDestinationPreserves, MeetPreserves,
     UndoStepPreserves, TurnForwardPreserves, CollectPreserves,
     CollectedPreserves, RedoStepPreserves, ArrivePreserves DEF Transition
<1>2. CASE \E target \in Positions : StartTransition(target)
  BY <1>2, StartTransitionPreserves
<1>3. CASE \E v \in Vars : UnbindAlias(v) \/ \E o \in Objects : BindAlias(v, o)
  BY <1>3, AliasChangePreserves
<1>4. CASE \E o \in Objects :
             \/ RemoveState(o)
             \/ \E e \in Events : InsertState(o, e)
             \/ \E r \in Requirements :
                  ClearRequirement(o, r) \/ \E e \in Events : MeetRequirement(o, r, e)
             \/ \E k \in Sinks, e \in Events : ReachSink(o, k, e)
  <2>1. PICK o \in Objects :
             \/ RemoveState(o)
             \/ \E e \in Events : InsertState(o, e)
             \/ \E r \in Requirements :
                  ClearRequirement(o, r) \/ \E e \in Events : MeetRequirement(o, r, e)
             \/ \E k \in Sinks, e \in Events : ReachSink(o, k, e)
    BY <1>4
  <2> QED BY <2>1, StateChangePreserves, EvidenceChangePreserves
<1>5. CASE UNCHANGED vars
  BY <1>5 DEF vars, IInv, TypeOK, Live, Linked, OnTheWay, Positions, DepthOf,
              ParentOf, Here, AtRest
<1> QED BY <1>1, <1>2, <1>3, <1>4, <1>5 DEF Next

(* The undo log keeps its inductive invariant, for every set of variables, *)
(* lifecycle, event set and log limit.                                     *)
THEOREM HistoryInvariant == Spec => []IInv
<1>1. Init => IInv
  BY InitEstablishes
<1>2. IInv /\ [Next]_vars => IInv'
  BY NextPreserves
<1> QED BY <1>1, <1>2, PTL DEF Spec

(* Entries hang below earlier entries, one level deeper, and a transition  *)
(* stays on recorded positions.                                            *)
THEOREM HistoryTypeCorrect == Spec => []TypeOK
<1>1. IInv => TypeOK
  BY DEF IInv
<1> QED BY <1>1, HistoryInvariant, PTL

(* Resuming a path puts back exactly the tables it was left with.          *)
THEOREM RestoreExactEverywhere == Spec => []RestoreIsExact
<1>1. IInv => RestoreIsExact
  BY DEF IInv, Live, Here, RestoreIsExact
<1> QED BY <1>1, HistoryInvariant, PTL
------------------------------------------------------------------------------
(* Reference counts.  Recounting is right whatever the two tables are: the *)
(* variables that alias an object afterwards are those that did, without   *)
(* the ones that left it and with the ones that came.                      *)

Counted(counts, t) ==
    counts = [o \in Objects |-> Cardinality({v \in Vars : t.alias[v] = o})]

LEMMA AliasCount ==
    ASSUME NEW t, NEW o
    PROVE  /\ IsFiniteSet({v \in Vars : t.alias[v] = o})
           /\ Cardinality({v \in Vars : t.alias[v] = o}) \in Nat
<1>1. {v \in Vars : t.alias[v] = o} \subseteq Vars
  OBVIOUS
<1> QED BY <1>1, HistoryAssumption, FS_Subset, FS_CardinalityType

LEMMA RecountIsExact ==
    ASSUME NEW counts, NEW before, NEW after, Counted(counts, before)
    PROVE  Counted(Recounted(counts, before, after), after)
<1> DEFINE B(o) == {v \in Vars : before.alias[v] = o}
           A(o) == {v \in Vars : after.alias[v] = o}
           left == {v \in Vars : before.alias[v] # after.alias[v]}
           L(o) == {v \in left : before.alias[v] = o}
           W(o) == {v \in left : after.alias[v] = o}
<1>1. Recounted(counts, before, after)
        = [o \in Objects |-> counts[o] - Cardinality(L(o)) + Cardinality(W(o))]
  BY DEF Recounted
<1>2. ASSUME NEW o \in Objects
      PROVE  counts[o] - Cardinality(L(o)) + Cardinality(W(o)) = Cardinality(A(o))
  <2>1. counts[o] = Cardinality(B(o))
    BY DEF Counted
  <2>2. L(o) = B(o) \ A(o) /\ W(o) = A(o) \ B(o)
    OBVIOUS
  <2>3. IsFiniteSet(A(o)) /\ IsFiniteSet(B(o))
    BY AliasCount
  <2> HIDE DEF A, B, L, W
  <2>4. Cardinality(A(o)) = Cardinality(B(o)) - Cardinality(B(o) \ A(o))
                            + Cardinality(A(o) \ B(o))
    BY <2>3, Moved
  <2> QED BY <2>1, <2>2, <2>4
<1> HIDE DEF L, W
<1>3. Recounted(counts, before, after) = [o \in Objects |-> Cardinality(A(o))]
  BY <1>1, <1>2
<1> QED BY <1>3 DEF Counted

(* Whatever changes the tables recounts.                                   *)
LEMMA TablesAreRecounted ==
    ASSUME [Next]_vars
    PROVE  UNCHANGED <<tables, refs>> \/ refs' = Recounted(refs, tables, tables')
<1>1. ASSUME NEW d, Record(d) PROVE refs' = Recounted(refs, tables, tables')
  BY <1>1 DEF Record, Become
<1>2. ASSUME UndoStep \/ RedoStep PROVE refs' = Recounted(refs, tables, tables')
  BY <1>2 DEF UndoStep, RedoStep, Become
<1>3. ASSUME Transition, ~UndoStep, ~RedoStep PROVE UNCHANGED <<tables, refs>>
  BY <1>3 DEF Transition, ClimbSource, ClimbDestination, Meet, TurnForward, Collect,
              Collected, Arrive, Stay
<1>4. ASSUME NEW target, StartTransition(target) PROVE UNCHANGED <<tables, refs>>
  BY <1>4 DEF StartTransition
<1>5. ASSUME NEW v, UnbindAlias(v) \/ \E o \in Objects : BindAlias(v, o)
      PROVE  refs' = Recounted(refs, tables, tables')
  BY <1>1, <1>5 DEF UnbindAlias, BindAlias
<1>6. ASSUME NEW o, RemoveState(o) \/ \E e \in Events : InsertState(o, e)
      PROVE  refs' = Recounted(refs, tables, tables')
  BY <1>1, <1>6 DEF RemoveState, InsertState
<1>7. ASSUME NEW o,
             \/ \E r \in Requirements :
                  ClearRequirement(o, r) \/ \E e \in Events : MeetRequirement(o, r, e)
             \/ \E k \in Sinks, e \in Events : ReachSink(o, k, e)
      PROVE  refs' = Recounted(refs, tables, tables')
  BY <1>1, <1>7 DEF ClearRequirement, MeetRequirement, ReachSink
<1>8. UNCHANGED vars => UNCHANGED <<tables, refs>>
  BY DEF vars
<1> QED BY <1>2, <1>3, <1>4, <1>5, <1>6, <1>7, <1>8 DEF Next

(* The reference counts that decide whether an object is still aliased are *)
(* those of the alias table, at every step of a transition.                *)
THEOREM CountsExactEverywhere == Spec => []RefsExact
<1>1. Init => Counted(refs, tables)
  <2> SUFFICES ASSUME Init PROVE Counted(refs, tables)
    OBVIOUS
  <2>1. refs = [o \in Objects |-> 0] /\ tables = EmptyEnvironment
    BY DEF Init
  <2>2. ASSUME NEW o \in Objects PROVE {v \in Vars : tables.alias[v] = o} = {}
    BY <2>1, HistoryAssumption DEF EmptyEnvironment, Objects, NoObject
  <2>3. \A o \in Objects : Cardinality({v \in Vars : tables.alias[v] = o}) = 0
    BY <2>2, FS_EmptySet
  <2> QED BY <2>1, <2>3 DEF Counted
<1>2. Counted(refs, tables) /\ [Next]_vars => Counted(refs, tables)'
  <2> SUFFICES ASSUME Counted(refs, tables), [Next]_vars PROVE Counted(refs', tables')
    OBVIOUS
  <2> QED BY RecountIsExact, TablesAreRecounted
<1>3. Counted(refs, tables) => RefsExact
  BY DEF Counted, RefsExact
<1> QED BY <1>1, <1>2, <1>3, PTL DEF Spec
==============================================================================
