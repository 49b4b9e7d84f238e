------------------------ MODULE ProjectLinkerProofs ------------------------
(***************************************************************************)
(* That the exports of modules in no cycle get what their names mean, for  *)
(* every project, every order of the components and every cache.           *)
(*                                                                         *)
(* The argument: the components partition the modules and a settled one    *)
(* has only settled ones below it (GraphWhole, OrderInv), so the pass over *)
(* an acyclic module asks for nothing that could still change.  Every      *)
(* answer that is remembered, and every half-made one on the stack, is     *)
(* then Right: a definite identity is the only thing the name can mean,    *)
(* and if all its paths lead to one value it is that value, unless a       *)
(* lookup was cut.  None is cut while the callers on the stack are         *)
(* distinct modules with star exports and these are no more than the depth *)
(* limit (DepthSuffices).                                                  *)
(***************************************************************************)
EXTENDS ProjectLinker, Counting, SequenceTheorems

----------------------------------------------------------------------------
(* What the program says of an export.                                     *)
LEMMA InputShape ==
  program \in Programs =>
    /\ program.linkLimit \in Nat
    /\ \A m \in Modules : StarExports(m) \in SUBSET (1..MaxRequests)
    /\ \A m \in Modules, i \in 1..MaxRequests :
         Target(m, i) \in Modules \cup Packages \cup {Unresolvable, Absent}
    /\ \A m \in Modules : \A roles : RequestsIn(m, roles) \in SUBSET (1..MaxRequests)
    /\ \A m \in Modules : \A spec : RequestsFor(m, spec) \in SUBSET (1..MaxRequests)
    /\ \A id \in Ids : id \in Explicit => Exports(id[1])[id[2]] \in ExportForms
    /\ \A id \in Ids : id \in Explicit => ~Interface(id[1]).unknown
<1> SUFFICES ASSUME program \in Programs
             PROVE  /\ program.linkLimit \in Nat
                    /\ \A m \in Modules : StarExports(m) \in SUBSET (1..MaxRequests)
                    /\ \A m \in Modules, i \in 1..MaxRequests :
                         Target(m, i) \in Modules \cup Packages \cup {Unresolvable, Absent}
                    /\ \A m \in Modules : \A roles : RequestsIn(m, roles) \in SUBSET (1..MaxRequests)
                    /\ \A m \in Modules : \A spec : RequestsFor(m, spec) \in SUBSET (1..MaxRequests)
                    /\ \A id \in Ids : id \in Explicit => Exports(id[1])[id[2]] \in ExportForms
                    /\ \A id \in Ids : id \in Explicit => ~Interface(id[1]).unknown
  OBVIOUS
<1>1. /\ program.linkLimit \in Nat
      /\ \A q \in DOMAIN program.target :
           program.target[q] \in Modules \cup Packages \cup {Unresolvable}
      /\ \A m \in Modules :
           /\ DOMAIN Requests(m) \subseteq 1..MaxRequests
           /\ \A n \in DOMAIN Exports(m) : Exports(m)[n] \in ExportForms
           /\ Interface(m).unknown => DOMAIN Exports(m) = {}
  BY ProgramsAssumption DEF Requests, Exports, Interface
<1>2. \A m \in Modules : \A roles : RequestsIn(m, roles) \in SUBSET (1..MaxRequests)
  BY <1>1 DEF RequestsIn
<1>3. \A m \in Modules : StarExports(m) \in SUBSET (1..MaxRequests)
  BY <1>2 DEF StarExports
<1>4. \A m \in Modules : \A spec : RequestsFor(m, spec) \in SUBSET (1..MaxRequests)
  BY <1>2 DEF RequestsFor
<1>5. \A m \in Modules, i \in 1..MaxRequests :
        Target(m, i) \in Modules \cup Packages \cup {Unresolvable, Absent}
  BY <1>1 DEF Target
<1>6. \A id \in Ids : id \in Explicit =>
        Exports(id[1])[id[2]] \in ExportForms /\ ~Interface(id[1]).unknown
  BY <1>1 DEF Explicit, Ids
<1> QED  BY <1>1, <1>2, <1>3, <1>4, <1>5, <1>6

LEMMA SourcesShape ==
  program \in Programs =>
    \A id \in Ids : Sources(id) \subseteq (1..MaxRequests) \X Names /\ NextIds(id) \subseteq Ids
<1> SUFFICES ASSUME program \in Programs, NEW id \in Ids
             PROVE  Sources(id) \subseteq (1..MaxRequests) \X Names /\ NextIds(id) \subseteq Ids
  OBVIOUS
<1>1. id[1] \in Modules /\ id[2] \in Names
  BY DEF Ids
<1>2. CASE id \in Explicit
  <2> DEFINE e == Exports(id[1])[id[2]]
  <2>1. e \in ExportForms /\ RequestsFor(id[1], e.spec) \in SUBSET (1..MaxRequests)
    BY <1>1, <1>2, InputShape
  <2>2. e.kind = "ReExport" => e.request \in 1..MaxRequests /\ e.imported \in Names
    BY <2>1 DEF ExportForms
  <2>3. e.kind = "Imported" => e.imported \in Names
    BY <2>1 DEF ExportForms
  <2>4. Sources(id) = IF e.kind = "ReExport" THEN {<<e.request, e.imported>>}
                      ELSE IF e.kind = "Imported"
                           THEN RequestsFor(id[1], e.spec) \X {e.imported} ELSE {}
    BY <1>2 DEF Sources
  <2> HIDE DEF e
  <2>5. Sources(id) \subseteq (1..MaxRequests) \X Names
    BY <2>1, <2>2, <2>3, <2>4
  <2> QED  BY <1>1, <2>5 DEF NextIds, Ids
<1>3. CASE id \notin Explicit
  <2>1. Sources(id) = IF id[2] = Default THEN {} ELSE StarExports(id[1]) \X {id[2]}
    BY <1>3 DEF Sources
  <2>2. StarExports(id[1]) \in SUBSET (1..MaxRequests)
    BY <1>1, InputShape
  <2>3. Sources(id) \subseteq (1..MaxRequests) \X Names
    BY <1>1, <2>1, <2>2
  <2> QED  BY <1>1, <2>3 DEF NextIds, Ids
<1> QED  BY <1>2, <1>3

(* Paths is the least set that holds an export and all it comes from.      *)
LEMMA PathsFacts ==
  program \in Programs =>
    \A id \in Ids :
      /\ Paths(id) \subseteq Ids /\ id \in Paths(id)
      /\ \A j \in Paths(id) : NextIds(j) \subseteq Paths(id)
      /\ \A T : id \in T /\ (\A j \in T \cap Ids : NextIds(j) \subseteq T) => Paths(id) \subseteq T
<1> SUFFICES ASSUME program \in Programs, NEW id \in Ids
             PROVE  /\ Paths(id) \subseteq Ids /\ id \in Paths(id)
                    /\ \A j \in Paths(id) : NextIds(j) \subseteq Paths(id)
                    /\ \A T : id \in T /\ (\A j \in T \cap Ids : NextIds(j) \subseteq T)
                         => Paths(id) \subseteq T
  OBVIOUS
<1> DEFINE next == [j \in Ids |-> NextIds(j)]
           F(W) == [n \in Nat |-> IF n = 0 THEN {id}
                                  ELSE LET near == W[n - 1] IN near \cup UNION {NextIds(j) : j \in near}]
           Within == CHOOSE W : W = F(W)
<1>1. next \in [Ids -> SUBSET Ids]
  BY SourcesShape
<1>2. IsFiniteSet(Ids)
  BY LinkerConstants, FS_Product DEF Ids
<1>3. PICK V \in [Nat -> SUBSET Ids] : Spreads(V, next, id)
  <2> HIDE DEF next
  <2> QED  BY <1>1, SpreadExists
<1>4. V = F(V)
  <2>1. ASSUME NEW n \in Nat
        PROVE  V[n] = IF n = 0 THEN {id} ELSE V[n - 1] \cup UNION {NextIds(j) : j \in V[n - 1]}
    <3>1. CASE n = 0
      BY <1>3, <3>1 DEF Spreads
    <3>2. CASE n # 0
      <4>1. n - 1 \in Nat /\ (n - 1) + 1 = n
        BY <3>2
      <4>2. V[n] = V[n - 1] \cup UNION {next[j] : j \in V[n - 1]}
        <5> HIDE DEF next
        <5>1. V[(n - 1) + 1] = V[n - 1] \cup UNION {next[j] : j \in V[n - 1]}
          BY <1>3, <4>1 DEF Spreads
        <5> QED  BY <4>1, <5>1
      <4>3. \A j \in V[n - 1] : j \in Ids
        BY <4>1
      <4>4. UNION {next[j] : j \in V[n - 1]} = UNION {NextIds(j) : j \in V[n - 1]}
        BY <4>3
      <4> QED  BY <3>2, <4>2, <4>4
    <3> QED  BY <3>1, <3>2
  <2> QED  BY <2>1
<1>5. Within = F(Within)
  <2> HIDE DEF F
  <2> QED  BY <1>4
<1>6. Paths(id) = Within[Cardinality(Ids)]
  BY DEF Paths
<1>7. \A n \in Nat : Within[n] = IF n = 0 THEN {id}
                                 ELSE Within[n - 1] \cup UNION {NextIds(j) : j \in Within[n - 1]}
  <2> HIDE DEF Within
  <2> QED  BY <1>5
<1>8. \A n \in Nat : Within[n] = V[n]
  <2> DEFINE T == {n \in Nat : Within[n] = V[n]}
  <2>1. 0 \in T
    <3> HIDE DEF Within
    <3> QED  BY <1>3, <1>7 DEF Spreads
  <2>2. ASSUME NEW n \in Nat, n \in T PROVE n + 1 \in T
    <3>1. n + 1 \in Nat /\ n + 1 # 0 /\ (n + 1) - 1 = n
      OBVIOUS
    <3>2. Within[n + 1] = Within[n] \cup UNION {NextIds(j) : j \in Within[n]}
      <4> HIDE DEF Within
      <4> QED  BY <1>7, <3>1
    <3>3. V[n + 1] = V[n] \cup UNION {NextIds(j) : j \in V[n]}
      <4>1. F(V)[n + 1] = V[(n + 1) - 1] \cup UNION {NextIds(j) : j \in V[(n + 1) - 1]}
        BY <3>1
      <4> HIDE DEF F
      <4> QED  BY <1>4, <3>1, <4>1
    <3>4. Within[n] = V[n]
      <4> HIDE DEF Within
      <4> QED  BY <2>2
    <3>5. Within[n + 1] = V[n + 1]
      <4> HIDE DEF Within, F, T
      <4> QED  BY <3>2, <3>3, <3>4
    <3> HIDE DEF Within
    <3> QED  BY <3>1, <3>5
  <2>3. \A n \in Nat : n \in T
    <3> HIDE DEF T
    <3> QED  BY <2>1, <2>2, SetInduction
  <2> QED  BY <2>3
<1>9. Paths(id) = V[Cardinality(Ids)]
  <2> HIDE DEF Within, F
  <2> QED  BY <1>2, <1>6, <1>8, FS_CardinalityType
<1>10. /\ Paths(id) \subseteq Ids /\ id \in Paths(id)
       /\ \A j \in Paths(id) : next[j] \subseteq Paths(id)
       /\ \A T : id \in T /\ (\A j \in T \cap Ids : next[j] \subseteq T) => Paths(id) \subseteq T
  <2> HIDE DEF Within, F, next
  <2> QED  BY <1>1, <1>2, <1>3, <1>9, SpreadCloses
<1>11. \A j \in Ids : next[j] = NextIds(j)
  OBVIOUS
<1> HIDE DEF Within, F, next
<1> QED  BY <1>10, <1>11

(* What lies beyond an export, on the paths that start from it.            *)
Beyond(id) == UNION {Paths(j) : j \in NextIds(id)}

LEMMA PathsUnfold ==
  program \in Programs =>
    \A id \in Ids :
      /\ Paths(id) = {id} \cup Beyond(id)
      /\ \A j \in Paths(id) : j \in Ids /\ Paths(j) \subseteq Paths(id)
      /\ \A j \in Beyond(id) : j \in Ids /\ Paths(j) \subseteq Beyond(id)
<1> SUFFICES ASSUME program \in Programs, NEW id \in Ids
             PROVE  /\ Paths(id) = {id} \cup Beyond(id)
                    /\ \A j \in Paths(id) : j \in Ids /\ Paths(j) \subseteq Paths(id)
                    /\ \A j \in Beyond(id) : j \in Ids /\ Paths(j) \subseteq Beyond(id)
  OBVIOUS
<1>1. \A k \in Ids : NextIds(k) \subseteq Ids
  BY SourcesShape
<1>2. \A k \in Ids : \A j \in Paths(k) : j \in Ids /\ Paths(j) \subseteq Paths(k)
  <2> SUFFICES ASSUME NEW k \in Ids, NEW j \in Paths(k)
               PROVE  j \in Ids /\ Paths(j) \subseteq Paths(k)
    OBVIOUS
  <2>1. j \in Ids /\ \A i \in Paths(k) \cap Ids : NextIds(i) \subseteq Paths(k)
    BY PathsFacts
  <2> QED  BY <2>1, PathsFacts
<1>3. Beyond(id) \subseteq Paths(id)
  <2>1. \A j \in NextIds(id) : j \in Paths(id)
    BY PathsFacts
  <2> QED  BY <1>2, <2>1 DEF Beyond
<1>4. \A j \in Beyond(id) : j \in Ids /\ Paths(j) \subseteq Beyond(id)
  BY <1>1, <1>2 DEF Beyond
<1>5. Paths(id) \subseteq {id} \cup Beyond(id)
  <2> DEFINE T == {id} \cup Beyond(id)
  <2>1. NextIds(id) \subseteq T
    BY <1>1, PathsFacts DEF Beyond
  <2>2. \A j \in Beyond(id) : NextIds(j) \subseteq T
    <3> SUFFICES ASSUME NEW j \in Beyond(id) PROVE NextIds(j) \subseteq T
      OBVIOUS
    <3>1. j \in Ids /\ Paths(j) \subseteq Beyond(id)
      BY <1>4
    <3>2. NextIds(j) \subseteq Paths(j)
      BY <3>1, PathsFacts
    <3> QED  BY <3>1, <3>2
  <2>3. id \in T /\ \A j \in T \cap Ids : NextIds(j) \subseteq T
    BY <2>1, <2>2
  <2> HIDE DEF T
  <2>4. Paths(id) \subseteq T
    BY <2>3, PathsFacts
  <2> QED  BY <2>4 DEF T
<1>6. id \in Paths(id)
  BY PathsFacts
<1> QED  BY <1>2, <1>3, <1>4, <1>5, <1>6

----------------------------------------------------------------------------
(* The meaning of an export is what it gives itself and what each of its   *)
(* sources brings.                                                         *)
Itself(id) ==
  (IF id \in Explicit /\ GoalOf(id).pending = {} THEN {GoalOf(id).value} ELSE {})
    \cup (IF Interface(id[1]).unknown /\ id[2] # Default THEN {Unknown} ELSE {})

IfAbsent(id) ==
  IF id \in Explicit /\ Exports(id[1])[id[2]].kind = "Imported"
  THEN SpecifierIdentity(Exports(id[1])[id[2]].spec, Exports(id[1])[id[2]].imported)
  ELSE Unknown

(* The value of a target that is no project module.                        *)
Outside(id, s) ==
  IF Target(id[1], s[1]) = Absent THEN IfAbsent(id) ELSE TargetIdentity(Target(id[1], s[1]), s[2])

Brings(id, s) ==
  IF Target(id[1], s[1]) \in Modules THEN Meaning(<<Target(id[1], s[1]), s[2]>>)
  ELSE {Outside(id, s)}

LEMMA MeaningSplits ==
  program \in Programs =>
    \A id \in Ids :
      /\ Meaning(id) = Itself(id) \cup UNION {Brings(id, s) : s \in Sources(id)}
      /\ \A j \in NextIds(id) : Meaning(j) \subseteq Meaning(id)
      /\ Ends(id) \subseteq Meaning(id)
<1> SUFFICES ASSUME program \in Programs, NEW id \in Ids
             PROVE  /\ Meaning(id) = Itself(id) \cup UNION {Brings(id, s) : s \in Sources(id)}
                    /\ \A j \in NextIds(id) : Meaning(j) \subseteq Meaning(id)
                    /\ Ends(id) \subseteq Meaning(id)
  OBVIOUS
<1>1. Meaning(id) = Ends(id) \cup UNION {Meaning(j) : j \in NextIds(id)}
  <2>1. Paths(id) = {id} \cup UNION {Paths(j) : j \in NextIds(id)}
    BY PathsUnfold DEF Beyond
  <2> QED  BY <2>1 DEF Meaning
<1>2. Ends(id) = Itself(id) \cup {Outside(id, s) : s \in {r \in Sources(id) : Target(id[1], r[1]) \notin Modules}}
  BY DEF Ends, Itself, Outside, IfAbsent
<1>3. UNION {Meaning(j) : j \in NextIds(id)}
        = UNION {Meaning(<<Target(id[1], s[1]), s[2]>>) :
                   s \in {r \in Sources(id) : Target(id[1], r[1]) \in Modules}}
  BY DEF NextIds
<1>4. UNION {Brings(id, s) : s \in Sources(id)}
        = {Outside(id, s) : s \in {r \in Sources(id) : Target(id[1], r[1]) \notin Modules}}
          \cup UNION {Meaning(<<Target(id[1], s[1]), s[2]>>) :
                        s \in {r \in Sources(id) : Target(id[1], r[1]) \in Modules}}
  BY DEF Brings
<1> QED  BY <1>1, <1>2, <1>3, <1>4

(* What can be followed can be followed from everywhere on the way.        *)
LEMMA FollowedOn ==
  program \in Programs =>
    \A id \in Ids :
      /\ Followed(id) => InNoCycle(id[1]) /\ ~AliasOfModule(id)
      /\ Followed(id) => \A j \in Beyond(id) : Followed(j)
      /\ Leads(id) => (Ends(id) # {} \/ NextIds(id) # {})
      /\ Leads(id) => \A j \in Beyond(id) : Leads(j)
      /\ \A j \in NextIds(id) : j \in Beyond(id)
<1> SUFFICES ASSUME program \in Programs, NEW id \in Ids
             PROVE  /\ Followed(id) => InNoCycle(id[1]) /\ ~AliasOfModule(id)
                    /\ Followed(id) => \A j \in Beyond(id) : Followed(j)
                    /\ Leads(id) => (Ends(id) # {} \/ NextIds(id) # {})
                    /\ Leads(id) => \A j \in Beyond(id) : Leads(j)
                    /\ \A j \in NextIds(id) : j \in Beyond(id)
  OBVIOUS
<1>1. id \in Paths(id) /\ Beyond(id) \subseteq Paths(id)
  BY PathsUnfold
<1>2. \A j \in Beyond(id) : Paths(j) \subseteq Paths(id)
  BY PathsUnfold
<1>3. \A j \in NextIds(id) : j \in Beyond(id)
  BY PathsFacts, SourcesShape DEF Beyond
<1>4. Followed(id) => \A j \in Beyond(id) : Followed(j)
  BY <1>2 DEF Followed
<1>5. Leads(id) => \A j \in Beyond(id) : Leads(j)
  BY <1>2 DEF Leads
<1>6. Followed(id) => InNoCycle(id[1]) /\ ~AliasOfModule(id)
  BY <1>1 DEF Followed
<1>7. Leads(id) => (Ends(id) # {} \/ NextIds(id) # {})
  BY <1>1 DEF Leads
<1> QED  BY <1>3, <1>4, <1>5, <1>6, <1>7
----------------------------------------------------------------------------
(* The graph.                                                              *)
LEMMA ReachableFacts ==
  ASSUME NEW g \in SUBSET (Modules \X Modules), NEW m \in Modules
  PROVE  /\ Reachable(g, m) \subseteq Modules /\ m \in Reachable(g, m)
         /\ \A e \in g : e[1] \in Reachable(g, m) => e[2] \in Reachable(g, m)
BY DEF Reachable

LEMMA ComponentFacts ==
  ASSUME NEW g \in SUBSET (Modules \X Modules), NEW m \in Modules, {m} \in StronglyConnected(g)
  PROVE  /\ \A n \in Modules : n \in Reachable(g, m) /\ m \in Reachable(g, n) => n = m
         /\ \A c \in StronglyConnected(g) : m \in c => c = {m}
<1>1. PICK k \in Modules : {m} = {n \in Modules : n \in Reachable(g, k) /\ k \in Reachable(g, n)}
  BY DEF StronglyConnected
<1>2. k = m
  BY <1>1, ReachableFacts
<1>3. \A n \in Modules : n \in Reachable(g, m) /\ m \in Reachable(g, n) => n = m
  BY <1>1, <1>2
<1>4. ASSUME NEW c \in StronglyConnected(g), m \in c PROVE c = {m}
  <2>1. PICK l \in Modules : c = {n \in Modules : n \in Reachable(g, l) /\ l \in Reachable(g, n)}
    BY DEF StronglyConnected
  <2>2. l = m
    BY <1>3, <1>4, <2>1
  <2> QED  BY <1>1, <1>2, <2>1, <2>2
<1> QED  BY <1>3, <1>4

LEMMA ComponentsOfModules ==
  ASSUME NEW g PROVE StronglyConnected(g) \subseteq SUBSET Modules
BY DEF StronglyConnected

(* The graph is all there is of the internal requests.                     *)
GraphWhole ==
  /\ edges \subseteq Modules \X Modules
  /\ components = StronglyConnected(edges)
  /\ \A m \in Modules, i \in 1..MaxRequests : Target(m, i) \in Modules => <<m, Target(m, i)>> \in edges

(* What can be followed never comes back.                                  *)
LEMMA NoReturn ==
  program \in Programs /\ GraphWhole =>
    \A id \in Ids : Followed(id) => id \notin Beyond(id)
<1> SUFFICES ASSUME program \in Programs, GraphWhole, NEW id \in Ids, Followed(id), id \in Beyond(id)
             PROVE  FALSE
  OBVIOUS
<1>1. PICK j \in NextIds(id) : id \in Paths(j)
  BY DEF Beyond
<1>2. \A k \in Ids : \A l \in NextIds(k) : l \in Ids /\ <<k[1], l[1]>> \in edges
  <2> SUFFICES ASSUME NEW k \in Ids, NEW l \in NextIds(k)
               PROVE  l \in Ids /\ <<k[1], l[1]>> \in edges
    OBVIOUS
  <2>1. l \in Ids /\ Sources(k) \subseteq (1..MaxRequests) \X Names /\ k[1] \in Modules
    BY SourcesShape DEF Ids
  <2>2. PICK s \in Sources(k) : Target(k[1], s[1]) \in Modules /\ l = <<Target(k[1], s[1]), s[2]>>
    BY DEF NextIds
  <2>3. s[1] \in 1..MaxRequests /\ l[1] = Target(k[1], s[1])
    BY <2>1, <2>2
  <2> QED  BY <2>1, <2>2, <2>3 DEF GraphWhole
<1>3. j \in Ids /\ <<id[1], j[1]>> \in edges
  BY <1>2
<1>4. id[1] \in Modules /\ j[1] \in Modules
  BY <1>3 DEF Ids
<1>5. id[1] \in Reachable(edges, j[1])
  <2> DEFINE T == {k \in Ids : k[1] \in Reachable(edges, j[1])}
  <2>1. j \in T
    BY <1>3, <1>4, ReachableFacts DEF GraphWhole
  <2>2. \A k \in T \cap Ids : NextIds(k) \subseteq T
    <3> SUFFICES ASSUME NEW k \in T, NEW l \in NextIds(k) PROVE l \in T
      OBVIOUS
    <3>1. k \in Ids /\ k[1] \in Reachable(edges, j[1])
      OBVIOUS
    <3>2. l \in Ids /\ <<k[1], l[1]>> \in edges
      BY <1>2, <3>1
    <3>3. l[1] \in Reachable(edges, j[1])
      BY <1>4, <3>1, <3>2, ReachableFacts DEF GraphWhole
    <3> QED  BY <3>2, <3>3
  <2>3. Paths(j) \subseteq T
    <3> HIDE DEF T
    <3> QED  BY <1>3, <2>1, <2>2, PathsFacts
  <2> QED  BY <1>1, <2>3
<1>6. j[1] \in Reachable(edges, id[1])
  BY <1>3, <1>4, ReachableFacts DEF GraphWhole
<1>7. {id[1]} \in components /\ <<id[1], id[1]>> \notin edges
  BY FollowedOn DEF InNoCycle
<1>8. j[1] = id[1]
  BY <1>4, <1>5, <1>6, <1>7, ComponentFacts DEF GraphWhole
<1> QED  BY <1>3, <1>7, <1>8
----------------------------------------------------------------------------
(* What only depends on the program and the graph stays as it is.          *)
LEMMA StaticInput ==
  UNCHANGED program =>
    /\ Explicit' = Explicit /\ DepthSuffices' = DepthSuffices
    /\ \A m : StarExports(m)' = StarExports(m) /\ Interface(m)' = Interface(m)
    /\ \A m, i : Target(m, i)' = Target(m, i)
    /\ \A m, spec : RequestsFor(m, spec)' = RequestsFor(m, spec)
    /\ \A id : /\ GoalOf(id)' = GoalOf(id) /\ HasStarWalk(id)' = HasStarWalk(id)
               /\ Sources(id)' = Sources(id) /\ NextIds(id)' = NextIds(id)
               /\ Ends(id)' = Ends(id) /\ Itself(id)' = Itself(id)
               /\ IfAbsent(id)' = IfAbsent(id)
               /\ AliasOfModule(id)' = AliasOfModule(id)
    /\ \A id, s : Outside(id, s)' = Outside(id, s)
    /\ ImportChecks' = ImportChecks
<1> SUFFICES ASSUME UNCHANGED program
             PROVE  /\ Explicit' = Explicit /\ DepthSuffices' = DepthSuffices
                    /\ \A m : StarExports(m)' = StarExports(m) /\ Interface(m)' = Interface(m)
                    /\ \A m, i : Target(m, i)' = Target(m, i)
                    /\ \A m, spec : RequestsFor(m, spec)' = RequestsFor(m, spec)
                    /\ \A id : /\ GoalOf(id)' = GoalOf(id) /\ HasStarWalk(id)' = HasStarWalk(id)
                               /\ Sources(id)' = Sources(id) /\ NextIds(id)' = NextIds(id)
                               /\ Ends(id)' = Ends(id) /\ Itself(id)' = Itself(id)
                               /\ IfAbsent(id)' = IfAbsent(id)
                               /\ AliasOfModule(id)' = AliasOfModule(id)
                    /\ \A id, s : Outside(id, s)' = Outside(id, s)
                    /\ ImportChecks' = ImportChecks
  OBVIOUS
<1>1. \A m : Interface(m)' = Interface(m) /\ Requests(m)' = Requests(m) /\ Exports(m)' = Exports(m)
  BY DEF Interface, Requests, Exports
<1>2. \A m, i : Target(m, i)' = Target(m, i)
  BY DEF Target
<1>3. Explicit' = Explicit
  BY <1>1 DEF Explicit
<1>4. \A m, roles : RequestsIn(m, roles)' = RequestsIn(m, roles)
  BY <1>1 DEF RequestsIn
<1>5. \A m : StarExports(m)' = StarExports(m)
  BY <1>1, <1>4 DEF StarExports
<1>6. \A m, spec : RequestsFor(m, spec)' = RequestsFor(m, spec)
  BY <1>1, <1>4 DEF RequestsFor
<1>7. \A id : GoalOf(id)' = GoalOf(id)
  BY <1>1, <1>2, <1>6 DEF GoalOf
<1>8. \A id : Sources(id)' = Sources(id)
  BY <1>1, <1>3, <1>5, <1>6 DEF Sources
<1>9. \A id : NextIds(id)' = NextIds(id)
  BY <1>2, <1>8 DEF NextIds
<1>10. \A id : IfAbsent(id)' = IfAbsent(id)
  BY <1>1, <1>3 DEF IfAbsent
<1>11. \A id, s : Outside(id, s)' = Outside(id, s)
  BY <1>2, <1>10 DEF Outside
<1>12. \A id : Itself(id)' = Itself(id)
  BY <1>1, <1>3, <1>7 DEF Itself
<1>13. \A id : Ends(id)' = Ends(id)
  BY <1>1, <1>2, <1>3, <1>7, <1>8 DEF Ends
<1>14. \A id : AliasOfModule(id)' = AliasOfModule(id)
  BY <1>1, <1>2, <1>3, <1>6 DEF AliasOfModule
<1>15. DepthSuffices' = DepthSuffices
  BY <1>5 DEF DepthSuffices
<1>16. \A id : HasStarWalk(id)' = HasStarWalk(id)
  BY <1>1 DEF HasStarWalk
<1>17. ImportChecks' = ImportChecks
  BY <1>1, <1>2, <1>4 DEF ImportChecks
<1> QED  BY <1>1, <1>2, <1>3, <1>5, <1>6, <1>7, <1>8, <1>9, <1>10, <1>11, <1>12, <1>13, <1>14,
            <1>15, <1>16, <1>17

LEMMA StaticPaths ==
  program \in Programs /\ UNCHANGED <<program, edges, components>> =>
    \A id \in Ids :
      /\ Paths(id)' = Paths(id) /\ Beyond(id)' = Beyond(id)
      /\ Meaning(id)' = Meaning(id) /\ Leads(id)' = Leads(id) /\ Followed(id)' = Followed(id)
      /\ \A i : \A n \in Names : Brings(id, <<i, n>>)' = Brings(id, <<i, n>>)
<1> SUFFICES ASSUME program \in Programs, UNCHANGED <<program, edges, components>>
             PROVE  \A id \in Ids :
                      /\ Paths(id)' = Paths(id) /\ Beyond(id)' = Beyond(id)
                      /\ Meaning(id)' = Meaning(id) /\ Leads(id)' = Leads(id)
                      /\ Followed(id)' = Followed(id)
                      /\ \A i : \A n \in Names : Brings(id, <<i, n>>)' = Brings(id, <<i, n>>)
  OBVIOUS
<1>1. (program \in Programs =>
         \A id \in Ids :
           /\ Paths(id) \subseteq Ids /\ id \in Paths(id)
           /\ \A j \in Paths(id) : NextIds(j) \subseteq Paths(id)
           /\ \A T : id \in T /\ (\A j \in T \cap Ids : NextIds(j) \subseteq T) => Paths(id) \subseteq T)'
  BY PathsFacts, PTL
<1>2. \A id \in Ids : Paths(id)' = Paths(id)
  <2> SUFFICES ASSUME NEW id \in Ids PROVE Paths(id)' = Paths(id)
    OBVIOUS
  <2>1. /\ id \in Paths(id)' /\ \A j \in Paths(id)' : NextIds(j)' \subseteq Paths(id)'
        /\ \A T : id \in T /\ (\A j \in T \cap Ids : NextIds(j)' \subseteq T) => Paths(id)' \subseteq T
    BY <1>1 DEF Ids
  <2>2. /\ id \in Paths(id) /\ \A j \in Paths(id) : NextIds(j) \subseteq Paths(id)
        /\ \A T : id \in T /\ (\A j \in T \cap Ids : NextIds(j) \subseteq T) => Paths(id) \subseteq T
    BY PathsFacts
  <2>3. \A j : NextIds(j)' = NextIds(j)
    BY StaticInput
  <2>4. Paths(id)' \subseteq Paths(id)
    BY <2>1, <2>2, <2>3
  <2>5. Paths(id) \subseteq Paths(id)'
    BY <2>1, <2>2, <2>3
  <2> QED  BY <2>4, <2>5
<1>3. \A id \in Ids : NextIds(id) \subseteq Ids /\ Paths(id) \subseteq Ids
  BY SourcesShape, PathsFacts
<1>4. \A id \in Ids : Beyond(id)' = Beyond(id)
  BY <1>2, <1>3, StaticInput DEF Beyond
<1>5. \A id \in Ids : Meaning(id)' = Meaning(id)
  BY <1>2, StaticInput DEF Meaning
<1>6. \A id \in Ids : Leads(id)' = Leads(id)
  BY <1>2, StaticInput DEF Leads
<1>7. \A m : InNoCycle(m)' = InNoCycle(m)
  BY DEF InNoCycle
<1>8. \A id \in Ids : Followed(id)' = Followed(id)
  BY <1>2, <1>7, StaticInput DEF Followed
<1>9. \A id \in Ids : \A i : \A n \in Names : Brings(id, <<i, n>>)' = Brings(id, <<i, n>>)
  <2> SUFFICES ASSUME NEW id \in Ids, NEW i, NEW n \in Names
               PROVE  Brings(id, <<i, n>>)' = Brings(id, <<i, n>>)
    OBVIOUS
  <2>1. Target(id[1], i)' = Target(id[1], i) /\ Outside(id, <<i, n>>)' = Outside(id, <<i, n>>)
    BY StaticInput
  <2>2. Target(id[1], i) \in Modules => <<Target(id[1], i), n>> \in Ids
    BY DEF Ids
  <2>3. <<i, n>>[1] = i /\ <<i, n>>[2] = n
    OBVIOUS
  <2> QED  BY <1>5, <2>1, <2>2, <2>3 DEF Brings
<1> QED  BY <1>2, <1>4, <1>5, <1>6, <1>8, <1>9
----------------------------------------------------------------------------
(***************************************************************************)
(* The invariant.  As long as the budget lasts, the graph is whole; what   *)
(* is settled depends on nothing that is not; what is settled is in the    *)
(* table; and every answer, remembered or on its way, is right for the     *)
(* exports that can be followed.                                           *)
(***************************************************************************)
(* An answer is right if a definite identity is what the name means, and   *)
(* if a name that means one thing has it, or the unknown left open.        *)
Right(id, a) ==
  /\ a \in Identities => Meaning(id) = {a}
  /\ DepthSuffices /\ Leads(id) =>
       \A v \in Meaning(id) : Meaning(id) = {v} => a = v \/ (a = Absent /\ v = Unknown)

(* A walk of star exports has weighed those that it is done with.          *)
FrameRight(f) ==
  Followed(f.id) =>
    /\ f.value = Absent /\ ~f.unresolved => f.stars = StarExports(f.id[1])
    /\ f.value # Absent \/ f.unresolved => StarExports(f.id[1]) # {}
    /\ f.value \in Identities /\ ~f.unresolved =>
         \A i \in StarExports(f.id[1]) \ f.stars : Brings(f.id, <<i, f.id[2]>>) = {f.value}
    /\ DepthSuffices /\ Leads(f.id) =>
         \A v \in Meaning(f.id) :
           Meaning(f.id) = {v} => f.value \in {Absent, v} /\ (f.unresolved => v = Unknown)

(* A lookup never gets ahead of what is settled, but in a cycle.           *)
Reached(id) ==
  /\ id \in Ids /\ id[1] \in settled \cup component
  /\ InNoCycle(id[1]) => id[1] \in settled

FrameOK(f) ==
  /\ Reached(f.id)
  /\ table[f.id] = Absent /\ HasStarWalk(f.id)
  /\ f.stars \subseteq StarExports(f.id[1])
  /\ FrameRight(f)

(* The exports on the way: those suspended, and the one they wait for.     *)
Line(callers, id) ==
  [k \in 1..(Len(callers) + 1) |-> IF k > Len(callers) THEN id ELSE callers[k].id]

(* Everything on the way was asked for by what is before it.               *)
Calls(id, callers) ==
  LET line == Line(callers, id)
  IN  /\ Reached(id)
      /\ \A k \in 1..Len(callers) : FrameOK(callers[k]) /\ callers[k].id[2] = id[2]
      /\ \A k, l \in 1..Len(callers) : k < l => callers[k].id # callers[l].id
      /\ \A k, l \in 1..(Len(callers) + 1) : k < l /\ Followed(line[k]) => line[l] \in Beyond(line[k])
      /\ \A k \in 1..Len(callers) : \E i \in 1..MaxRequests :
           /\ IsNext(i, callers[k].stars)
           /\ Target(callers[k].id[1], i) \in Modules
           /\ line[k + 1] = <<Target(callers[k].id[1], i), callers[k].id[2]>>
      /\ work # {} => \E i \in 1..MaxRequests :
           /\ IsNext(i, goal.pending)
           /\ Target(goal.id[1], i) \in Modules
           /\ line[1] = <<Target(goal.id[1], i), goal.name>>

Looking == pc \in {"lookup", "star"}
InPass == pc \in {"export", "request"} \/ (Looking /\ work # {})

CallInv ==
  /\ pc = "lookup" => Calls(query, stack)
  /\ pc = "star" => /\ stack # <<>>
                    /\ Calls(Last(stack).id, Front(stack))
                    /\ FrameOK(Last(stack))
                    /\ \A k \in 1..(Len(stack) - 1) : stack[k].id # Last(stack).id
  /\ ~Looking => stack = <<>>

(* The resolution under way has weighed the requests that it is done with. *)
GoalRight(g) ==
  LET first == GoalOf(g.id)
  IN  /\ g.name = first.name /\ g.fallback = first.fallback /\ g.pending \subseteq first.pending
      /\ g.value = Absent => g.pending = first.pending /\ first.pending # {}
      /\ first.pending = {} => g.value = first.value
      /\ Followed(g.id) =>
           /\ g.value \in Identities =>
                \A i \in first.pending \ g.pending : Brings(g.id, <<i, first.name>>) = {g.value}
           /\ DepthSuffices /\ Leads(g.id) =>
                \A v \in Meaning(g.id) : Meaning(g.id) = {v} => g.value \in {Absent, v}

GoalInv == pc = "request" \/ (Looking /\ work # {}) => goal.id \in work /\ GoalRight(goal)

(* What is settled depends on nothing else, and the component on that.     *)
OrderInv ==
  /\ component \in components \cup {{}}
  /\ DependenciesSettled(component)
  /\ DependenciesSettled(settled)
  /\ work \subseteq ExportsOf(component)
  /\ InPass => component \cap settled = {}
  /\ ~InPass => component \subseteq settled /\ work = {}
  /\ ~InPass /\ pc # "component" => settled = Modules

PresentInv ==
  \A id \in Explicit : id[1] \in settled \cup component /\ id \notin work => table[id] # Absent

AnswersRight ==
  \A id \in Ids :
    Followed(id) => /\ table[id] # Absent => Right(id, table[id])
                    /\ cache[id] # Miss => Right(id, cache[id])

(* What leads on somewhere comes to a value: only a cycle does not.        *)
SettledMeans ==
  \A id \in Ids : id[1] \in settled /\ Followed(id) /\ Leads(id) => Meaning(id) # {}

LinkInv ==
  /\ GraphWhole /\ OrderInv /\ PresentInv /\ CallInv /\ GoalInv /\ AnswersRight /\ SettledMeans

(* Nothing is resolved before the graph is there.                          *)
StartInv ==
  pc = "graph" =>
    /\ settled = {} /\ component = {} /\ work = {} /\ stack = <<>>
    /\ table = [id \in Ids |-> Absent] /\ cache = [id \in Ids |-> Miss]

----------------------------------------------------------------------------
(* Types.                                                                  *)
Answers == Resolutions \cup {Absent}

LEMMA TargetShape ==
  /\ \A t \in Modules \cup Packages \cup {Unresolvable}, name \in Names \cup {Star} :
       TargetIdentity(t, name) \in Identities \cup {Unknown}
  /\ \A spec \in Packages \cup InternalSpecifiers, name \in Names :
       SpecifierIdentity(spec, name) \in Identities \cup {Unknown}
  /\ Identities \cup {Unknown} \subseteq Resolutions
BY DEF TargetIdentity, SpecifierIdentity, Identities, Resolutions

LEMMA GoalShape ==
  program \in Programs =>
    \A id \in Ids : id \in Explicit =>
      /\ GoalOf(id) \in Goals /\ GoalOf(id).id = id
      /\ Sources(id) = GoalOf(id).pending \X {GoalOf(id).name}
      /\ GoalOf(id).pending # {} =>
           /\ GoalOf(id).value = Absent /\ GoalOf(id).name \in Names
           /\ GoalOf(id).fallback = IfAbsent(id)
      /\ GoalOf(id).pending = {} => GoalOf(id).value \in Identities \cup {Unknown}
      /\ ~AliasOfModule(id) =>
           \A i \in GoalOf(id).pending : Target(id[1], i) \in Modules => GoalOf(id).fallback = Unknown
<1> SUFFICES ASSUME program \in Programs, NEW id \in Ids, id \in Explicit
             PROVE  /\ GoalOf(id) \in Goals /\ GoalOf(id).id = id
                    /\ Sources(id) = GoalOf(id).pending \X {GoalOf(id).name}
                    /\ GoalOf(id).pending # {} =>
                         /\ GoalOf(id).value = Absent /\ GoalOf(id).name \in Names
                         /\ GoalOf(id).fallback = IfAbsent(id)
                    /\ GoalOf(id).pending = {} => GoalOf(id).value \in Identities \cup {Unknown}
                    /\ ~AliasOfModule(id) =>
                         \A i \in GoalOf(id).pending :
                           Target(id[1], i) \in Modules => GoalOf(id).fallback = Unknown
  OBVIOUS
<1> DEFINE m == id[1]
           e == Exports(m)[id[2]]
<1>1. m \in Modules /\ e \in ExportForms
  BY InputShape DEF Ids
<1>2. /\ Sources(id) = IF e.kind = "ReExport" THEN {<<e.request, e.imported>>}
                       ELSE IF e.kind = "Imported" THEN RequestsFor(m, e.spec) \X {e.imported} ELSE {}
      /\ IfAbsent(id) = IF e.kind = "Imported" THEN SpecifierIdentity(e.spec, e.imported) ELSE Unknown
  BY DEF Sources, IfAbsent
<1>3. Unknown \in Resolutions
  BY DEF Resolutions
<1>4. ASSUME NEW v \in Identities \cup {Unknown}, GoalOf(id) = Resolved(id, v), Sources(id) = {}
      PROVE  /\ GoalOf(id) \in Goals /\ GoalOf(id).id = id
             /\ Sources(id) = GoalOf(id).pending \X {GoalOf(id).name}
             /\ GoalOf(id).pending = {} /\ GoalOf(id).value \in Identities \cup {Unknown}
  BY <1>3, <1>4, TargetShape DEF Resolved, Goals
<1>5. ASSUME NEW p \in SUBSET (1..MaxRequests), p # {}, NEW n \in Names,
             NEW v \in Identities \cup {Unknown},
             GoalOf(id) = Asking(id, p, n, v), Sources(id) = p \X {n}, v = IfAbsent(id)
      PROVE  /\ GoalOf(id) \in Goals /\ GoalOf(id).id = id
             /\ Sources(id) = GoalOf(id).pending \X {GoalOf(id).name}
             /\ GoalOf(id).pending = p /\ p # {} /\ GoalOf(id).value = Absent
             /\ GoalOf(id).name \in Names /\ GoalOf(id).fallback = IfAbsent(id)
  BY <1>3, <1>5, TargetShape DEF Asking, Goals
<1>6. CASE e.kind = "Direct"
  <2>1. e.value \in Identities \cup {Unknown}
    BY <1>1, <1>6 DEF ExportForms
  <2>2. GoalOf(id) = Resolved(id, e.value) /\ Sources(id) = {}
    BY <1>2, <1>6 DEF GoalOf
  <2> HIDE DEF e
  <2> QED  BY <1>4, <2>1, <2>2
<1>7. CASE e.kind = "Namespace"
  <2> DEFINE v == IF Target(m, e.request) = Absent THEN Unknown
                  ELSE TargetIdentity(Target(m, e.request), Star)
  <2>1. e.request \in 1..MaxRequests
    BY <1>1, <1>7 DEF ExportForms
  <2>2. Target(m, e.request) \in Modules \cup Packages \cup {Unresolvable, Absent}
    BY <1>1, <2>1, InputShape
  <2>3. v \in Identities \cup {Unknown}
    BY <2>2, TargetShape
  <2>4. GoalOf(id) = Resolved(id, v) /\ Sources(id) = {}
    BY <1>2, <1>7 DEF GoalOf
  <2> HIDE DEF e, v
  <2> QED  BY <1>4, <2>3, <2>4
<1>8. CASE e.kind = "ReExport"
  <2>1. e.request \in 1..MaxRequests /\ e.imported \in Names
    BY <1>1, <1>8 DEF ExportForms
  <2>2. GoalOf(id) = Asking(id, {e.request}, e.imported, Unknown) /\ Unknown = IfAbsent(id)
    BY <1>2, <1>8 DEF GoalOf
  <2>3. Sources(id) = {e.request} \X {e.imported}
    BY <1>2, <1>8
  <2> HIDE DEF e
  <2>4. {e.request} \in SUBSET (1..MaxRequests) /\ {e.request} # {}
    BY <2>1
  <2> QED  BY <1>5, <2>1, <2>2, <2>3, <2>4
<1>9. CASE e.kind = "Imported"
  <2>1. e.spec \in Packages \cup InternalSpecifiers /\ e.imported \in Names
    BY <1>1, <1>9 DEF ExportForms
  <2>2. RequestsFor(m, e.spec) \in SUBSET (1..MaxRequests)
    BY <1>1, InputShape
  <2>3. IfAbsent(id) = SpecifierIdentity(e.spec, e.imported)
        /\ IfAbsent(id) \in Identities \cup {Unknown}
        /\ Sources(id) = RequestsFor(m, e.spec) \X {e.imported}
    BY <1>2, <1>9, <2>1, TargetShape
  <2>4. CASE RequestsFor(m, e.spec) = {}
    <3>1. [module |-> e.spec, export |-> e.imported] \in Identities \cup {Unknown}
      BY <2>1 DEF Identities
    <3>2. GoalOf(id) = Resolved(id, [module |-> e.spec, export |-> e.imported]) /\ Sources(id) = {}
      BY <1>9, <2>3, <2>4 DEF GoalOf
    <3> HIDE DEF e
    <3> QED  BY <1>4, <3>1, <3>2
  <2>5. CASE RequestsFor(m, e.spec) # {}
    <3>1. GoalOf(id) = Asking(id, RequestsFor(m, e.spec), e.imported, IfAbsent(id))
      BY <1>9, <2>3, <2>5 DEF GoalOf
    <3>2. ASSUME ~AliasOfModule(id), NEW i \in RequestsFor(m, e.spec), Target(m, i) \in Modules
          PROVE  IfAbsent(id) = Unknown
      <4>1. e.spec \in InternalSpecifiers
        BY <1>9, <3>2 DEF AliasOfModule
      <4> QED  BY <2>3, <4>1 DEF SpecifierIdentity
    <3> HIDE DEF e
    <3> QED  BY <1>5, <2>1, <2>2, <2>3, <2>5, <3>1, <3>2
  <2> QED  BY <2>4, <2>5
<1> QED  BY <1>1, <1>6, <1>7, <1>8, <1>9 DEF ExportForms

LEMMA AnswerTypes ==
  /\ \A g \in Goals, a \in Answers : WithAnswer(g, a) \in Goals /\ WithAnswer(g, a).id = g.id
  /\ \A f \in Frames, a \in Answers : WithContribution(f, a) \in Frames /\ WithContribution(f, a).id = f.id
<1>1. ASSUME NEW g \in Goals, NEW a \in Answers
      PROVE  WithAnswer(g, a) \in Goals /\ WithAnswer(g, a).id = g.id
  BY DEF WithAnswer, Goals, Answers, After, Resolutions
<1>2. ASSUME NEW f \in Frames, NEW a \in Answers
      PROVE  WithContribution(f, a) \in Frames /\ WithContribution(f, a).id = f.id
  BY DEF WithContribution, Frames, Answers, After, Resolutions
<1> QED  BY <1>1, <1>2
(* A name means definite identities, or something unknown.                 *)
LEMMA MeaningValues ==
  program \in Programs =>
    \A id \in Ids :
      /\ Meaning(id) \subseteq Identities \cup {Unknown}
      /\ Absent \notin Meaning(id) /\ Ambiguous \notin Meaning(id)
      /\ \A s \in Sources(id) :
           Target(id[1], s[1]) \notin Modules => Outside(id, s) \in Identities \cup {Unknown}
<1> SUFFICES ASSUME program \in Programs
             PROVE  \A id \in Ids :
                      /\ Meaning(id) \subseteq Identities \cup {Unknown}
                      /\ Absent \notin Meaning(id) /\ Ambiguous \notin Meaning(id)
                      /\ \A s \in Sources(id) :
                           Target(id[1], s[1]) \notin Modules =>
                             Outside(id, s) \in Identities \cup {Unknown}
  OBVIOUS
<1>1. ASSUME NEW id \in Ids PROVE IfAbsent(id) \in Identities \cup {Unknown}
  <2>1. CASE id \in Explicit /\ Exports(id[1])[id[2]].kind = "Imported"
    <3>1. Exports(id[1])[id[2]].spec \in Packages \cup InternalSpecifiers
          /\ Exports(id[1])[id[2]].imported \in Names
      BY <2>1, InputShape DEF ExportForms
    <3> QED  BY <2>1, <3>1, TargetShape DEF IfAbsent
  <2>2. CASE ~(id \in Explicit /\ Exports(id[1])[id[2]].kind = "Imported")
    BY <2>2 DEF IfAbsent
  <2> QED  BY <2>1, <2>2
<1>2. ASSUME NEW id \in Ids, NEW s \in Sources(id), Target(id[1], s[1]) \notin Modules
      PROVE  Outside(id, s) \in Identities \cup {Unknown}
  <2>1. s[1] \in 1..MaxRequests /\ s[2] \in Names /\ id[1] \in Modules
    BY SourcesShape DEF Ids
  <2>2. Target(id[1], s[1]) \in Modules \cup Packages \cup {Unresolvable, Absent}
    BY <2>1, InputShape
  <2> QED  BY <1>1, <2>1, <2>2, TargetShape DEF Outside
<1>3. ASSUME NEW id \in Ids PROVE Itself(id) \subseteq Identities \cup {Unknown}
  BY GoalShape DEF Itself
<1>4. ASSUME NEW id \in Ids PROVE Ends(id) \subseteq Identities \cup {Unknown}
  <2>1. Ends(id) = Itself(id)
          \cup {Outside(id, s) : s \in {r \in Sources(id) : Target(id[1], r[1]) \notin Modules}}
    BY DEF Ends, Itself, Outside, IfAbsent
  <2> QED  BY <1>2, <1>3, <2>1
<1>5. ASSUME NEW id \in Ids PROVE Meaning(id) \subseteq Identities \cup {Unknown}
  BY <1>4, PathsFacts DEF Meaning
<1>6. {Absent, Ambiguous} \cap (Identities \cup {Unknown}) = {}
  BY LinkerConstants DEF Resolutions
<1> QED  BY <1>2, <1>5, <1>6

(* Who waits for the answer of a lookup.                                   *)
WaitInv ==
  /\ pc = "request" \/ (Looking /\ work # {}) =>
       goal.id \in work /\ (goal.pending # {} => goal.name \in Names)
  /\ Looking /\ work = {} => check \in checks
  /\ pc = "star" => stack # <<>>
  /\ pc = "lookup" => query \in Ids
  /\ pc \in {"graph", "component", "check", "done"} => work = {}

TypeInv ==
  /\ program \in Programs /\ TypeOK /\ WaitInv
  /\ work \subseteq Explicit /\ checks \subseteq ImportChecks

LEMMA StackParts ==
  ASSUME NEW s \in Seq(Frames), s # <<>>
  PROVE  /\ Len(s) \in Nat \ {0} /\ Last(s) = s[Len(s)] /\ Last(s) \in Frames
         /\ Front(s) \in Seq(Frames) /\ Len(Front(s)) = Len(s) - 1
         /\ \A k \in 1..(Len(s) - 1) : Front(s)[k] = s[k]
         /\ \A k \in 1..Len(s) : s[k] \in Frames
<1>1. Len(s) \in Nat \ {0} /\ \A k \in 1..Len(s) : s[k] \in Frames
  OBVIOUS
<1>2. Last(s) = s[Len(s)] /\ Last(s) \in Frames
  BY <1>1 DEF Last
<1>3. /\ Len(s) - 1 \in Nat /\ 1 \in 1..(Len(s) + 1) /\ Len(s) - 1 \in 0..Len(s)
      /\ Front(s) = SubSeq(s, 1, Len(s) - 1)
  BY <1>1 DEF Front
<1>4. /\ SubSeq(s, 1, Len(s) - 1) \in Seq(Frames) /\ Len(SubSeq(s, 1, Len(s) - 1)) = Len(s) - 1
      /\ \A k \in 1..(Len(s) - 1) : SubSeq(s, 1, Len(s) - 1)[k] = s[k]
  <2> DEFINE n == Len(s) - 1
  <2>1. n \in Int /\ 1 \in Int /\ n \in Nat /\ \A k \in 1..n : s[k] \in Frames
    BY <1>1
  <2> HIDE DEF n
  <2>2. /\ \A k \in 1..n : 1 + k - 1 = k /\ n - 1 + 1 = n
        /\ (IF 1 <= n THEN n - 1 + 1 ELSE 0) = n
    BY <2>1
  <2>3. /\ SubSeq(s, 1, n) \in Seq(Frames)
        /\ Len(SubSeq(s, 1, n)) = IF 1 <= n THEN n - 1 + 1 ELSE 0
        /\ \A k \in 1..(n - 1 + 1) : SubSeq(s, 1, n)[k] = s[1 + k - 1]
    BY <2>1, SubSeqProperties
  <2>4. n - 1 + 1 = n
    BY <2>1
  <2>5. SubSeq(s, 1, n) \in Seq(Frames) /\ Len(SubSeq(s, 1, n)) = n
        /\ \A k \in 1..n : SubSeq(s, 1, n)[k] = s[k]
    BY <2>2, <2>3, <2>4
  <2> QED  BY <2>5 DEF n
<1> QED  BY <1>1, <1>2, <1>3, <1>4

LEMMA StackChanges ==
  ASSUME NEW s \in Seq(Frames), NEW f \in Frames
  PROVE  /\ s # <<>> => /\ [s EXCEPT ![Len(s)] = f] \in Seq(Frames)
                        /\ [s EXCEPT ![Len(s)] = f] # <<>>
                        /\ Last([s EXCEPT ![Len(s)] = f]) = f
                        /\ Front([s EXCEPT ![Len(s)] = f]) = Front(s)
                        /\ Len([s EXCEPT ![Len(s)] = f]) = Len(s)
         /\ Append(s, f) \in Seq(Frames) /\ Append(s, f) # <<>>
         /\ Last(Append(s, f)) = f /\ Front(Append(s, f)) = s /\ Len(Append(s, f)) = Len(s) + 1
<1>1. ASSUME s # <<>>
      PROVE  /\ [s EXCEPT ![Len(s)] = f] \in Seq(Frames)
             /\ [s EXCEPT ![Len(s)] = f] # <<>>
             /\ Last([s EXCEPT ![Len(s)] = f]) = f
             /\ Front([s EXCEPT ![Len(s)] = f]) = Front(s)
             /\ Len([s EXCEPT ![Len(s)] = f]) = Len(s)
  <2> DEFINE t == [s EXCEPT ![Len(s)] = f]
  <2>1. t \in Seq(Frames) /\ Len(t) = Len(s) /\ Len(s) \in Nat \ {0} /\ t[Len(s)] = f
        /\ \A k \in 1..(Len(s) - 1) : t[k] = s[k]
    BY <1>1
  <2>2. t # <<>>
    BY <2>1
  <2>3. Front(t) = Front(s)
    <3> HIDE DEF t
    <3> QED  BY <2>1 DEF Front
  <2> HIDE DEF t
  <2>4. Last(t) = f
    BY <2>1 DEF Last
  <2> QED  BY <2>1, <2>2, <2>3, <2>4 DEF t
<1>2. /\ Append(s, f) \in Seq(Frames) /\ Append(s, f) # <<>>
      /\ Last(Append(s, f)) = f /\ Front(Append(s, f)) = s /\ Len(Append(s, f)) = Len(s) + 1
  <2> DEFINE t == Append(s, f)
  <2>1. t \in Seq(Frames) /\ Len(t) = Len(s) + 1 /\ Len(s) \in Nat /\ t[Len(t)] = f
        /\ \A k \in 1..Len(s) : t[k] = s[k]
    OBVIOUS
  <2>2. t # <<>>
    BY <2>1
  <2> HIDE DEF t
  <2>3. Last(t) = f
    BY <2>1 DEF Last
  <2>4. Front(t) = s
    <3>1. Front(t) = [k \in 1..Len(s) |-> t[k]]
      BY <2>1 DEF Front
    <3>2. Front(t) = [k \in 1..Len(s) |-> s[k]]
      BY <2>1, <3>1
    <3>3. s = [k \in 1..Len(s) |-> s[k]]
      OBVIOUS
    <3> QED  BY <3>2, <3>3
  <2> QED  BY <2>1, <2>2, <2>3, <2>4 DEF t
<1> QED  BY <1>1, <1>2
LEMMA DeliverTypes ==
  ASSUME TypeInv, NEW a \in Answers, NEW callers \in Seq(Frames), Deliver(a, callers),
         pc \in {"lookup", "star"}, UNCHANGED unchangedByLookup, cache' \in [Ids -> Answers \cup {Miss}]
  PROVE  TypeInv'
<1>1. /\ goal \in Goals /\ stack \in Seq(Frames) /\ table \in [Ids -> Answers]
      /\ checks \subseteq Modules \X (1..MaxRequests) \X Names
      /\ check \in (Modules \X (1..MaxRequests) \X Names) \cup {Absent}
      /\ missing \cup ambiguous \subseteq Modules \X (1..MaxRequests) \X Names
      /\ work \subseteq Ids
  BY DEF TypeInv, TypeOK, Answers
<1>2. /\ program' = program /\ edges' = edges /\ components' = components /\ settled' = settled
      /\ component' = component /\ rounds' = rounds /\ changed' = changed /\ work' = work
      /\ query' = query /\ table' = table /\ exhausted' = exhausted
  BY DEF unchangedByLookup, graphVars, passVars
<1>3. /\ edges' \subseteq Modules \X Modules /\ components' \subseteq SUBSET Modules
      /\ settled' \subseteq Modules /\ component' \subseteq Modules
      /\ rounds' \in Nat /\ changed' \in BOOLEAN /\ work' \subseteq Ids
      /\ query' \in Ids \cup {Absent} /\ exhausted' \in BOOLEAN
      /\ table' \in [Ids -> Resolutions \cup {Absent}]
      /\ cache' \in [Ids -> Resolutions \cup {Absent, Miss}]
      /\ program' \in Programs /\ work' \subseteq Explicit'
      /\ checks \subseteq ImportChecks'
  <2>1. /\ edges \subseteq Modules \X Modules /\ components \subseteq SUBSET Modules
        /\ settled \subseteq Modules /\ component \subseteq Modules
        /\ rounds \in Nat /\ changed \in BOOLEAN /\ work \subseteq Ids
        /\ query \in Ids \cup {Absent} /\ exhausted \in BOOLEAN
        /\ table \in [Ids -> Resolutions \cup {Absent}]
        /\ program \in Programs /\ work \subseteq Explicit
        /\ checks \subseteq ImportChecks
    BY DEF TypeInv, TypeOK
  <2>3. Explicit' = Explicit /\ ImportChecks' = ImportChecks
    BY <1>2, StaticInput
  <2>2. Answers \cup {Miss} = Resolutions \cup {Absent, Miss}
    BY DEF Answers
  <2> QED  BY <1>2, <2>1, <2>2, <2>3
<1>4. CASE callers # <<>> /\ stack' = [callers EXCEPT ![Len(callers)] = WithContribution(@, a)]
           /\ pc' = "star" /\ UNCHANGED <<goal, validation>>
  <2>1. callers[Len(callers)] \in Frames
    BY <1>4, StackParts
  <2>2. WithContribution(callers[Len(callers)], a) \in Frames
    BY <2>1, AnswerTypes
  <2>3. stack' \in Seq(Frames) /\ stack' # <<>>
    BY <1>4, <2>2, StackChanges
  <2> QED  BY <1>1, <1>2, <1>3, <1>4, <2>3 DEF TypeInv, TypeOK, WaitInv, Looking, validation
<1>5. CASE callers = <<>> /\ work # {} /\ stack' = <<>> /\ goal' = WithAnswer(goal, a)
           /\ pc' = "request" /\ UNCHANGED validation
  <2>1. goal' \in Goals /\ goal'.id = goal.id
    BY <1>1, <1>5, AnswerTypes
  <2>2. goal'.name = goal.name /\ (goal'.pending # {} => goal.pending # {})
    BY <1>1, <1>5 DEF WithAnswer, Goals, After
  <2>3. stack' \in Seq(Frames)
    BY <1>5
  <2> QED  BY <1>1, <1>2, <1>3, <1>5, <2>1, <2>2, <2>3 DEF TypeInv, TypeOK, WaitInv, Looking, validation
<1>6. CASE /\ callers = <<>> /\ work = {} /\ stack' = <<>> /\ pc' = "check"
           /\ missing' = IF a = Absent THEN missing \cup {check} ELSE missing
           /\ ambiguous' = IF a = Ambiguous THEN ambiguous \cup {check} ELSE ambiguous
           /\ checks' = checks \ {check} /\ UNCHANGED <<goal, check>>
  <2>1. check \in checks
    BY <1>6 DEF TypeInv, WaitInv, Looking
  <2>2. missing' \cup ambiguous' \subseteq Modules \X (1..MaxRequests) \X Names
        /\ checks' \subseteq Modules \X (1..MaxRequests) \X Names
    <3>1. check \in Modules \X (1..MaxRequests) \X Names
      BY <1>1, <2>1
    <3>2. missing' \subseteq missing \cup {check} /\ ambiguous' \subseteq ambiguous \cup {check}
      BY <1>6
    <3>3. missing \subseteq Modules \X (1..MaxRequests) \X Names
          /\ ambiguous \subseteq Modules \X (1..MaxRequests) \X Names
      BY <1>1
    <3>4. missing' \subseteq Modules \X (1..MaxRequests) \X Names
          /\ ambiguous' \subseteq Modules \X (1..MaxRequests) \X Names
      BY <3>1, <3>2, <3>3, Zenon
    <3>5. checks' \subseteq Modules \X (1..MaxRequests) \X Names
      BY <1>1, <1>6
    <3> QED  BY <3>4, <3>5
  <2>3. stack' \in Seq(Frames)
    BY <1>6
  <2> QED  BY <1>1, <1>2, <1>3, <1>6, <2>2, <2>3 DEF TypeInv, TypeOK, WaitInv, Looking
<1> QED  BY <1>4, <1>5, <1>6 DEF Deliver
LEMMA TypeInit == Init => TypeInv
<1> SUFFICES ASSUME Init PROVE TypeInv
  OBVIOUS
<1>1. goal \in Goals
  BY DEF Init, Resolved, Goals, Resolutions
<1>2. stack \in Seq(Frames) /\ stack = <<>>
  BY DEF Init
<1>3. table \in [Ids -> Resolutions \cup {Absent}] /\ cache \in [Ids -> Resolutions \cup {Absent, Miss}]
  BY DEF Init
<1>4. /\ program \in Programs /\ pc = "graph" /\ edges = {} /\ components = {} /\ settled = {}
      /\ component = {} /\ rounds \in Nat /\ changed = FALSE /\ work = {} /\ query = Absent
      /\ exhausted = FALSE /\ checks = {} /\ check = Absent /\ missing = {} /\ ambiguous = {}
  BY DEF Init
<1>5. TypeOK
  BY <1>1, <1>2, <1>3, <1>4 DEF TypeOK
<1> QED  BY <1>4, <1>5 DEF TypeInv, WaitInv, Looking

(* The edges kept are requests for modules.                                *)
LEMMA EdgeTypes == RetainedEdges \subseteq Modules \X Modules
<1> SUFFICES ASSUME NEW e \in RetainedEdges PROVE e \in Modules \X Modules
  OBVIOUS
<1>1. PICK q \in InternalRequests : e = <<q[1], Target(q[1], q[2])>>
  BY DEF RetainedEdges
<1> QED  BY <1>1 DEF InternalRequests

LEMMA TypeStep == TypeInv /\ [Next]_vars => TypeInv'
<1> SUFFICES ASSUME TypeInv, [Next]_vars PROVE TypeInv'
  OBVIOUS
<1>a. program' = program /\ Explicit' = Explicit /\ ImportChecks' = ImportChecks
  <2>1. program' = program
    BY DEF Next, vars, CollectEdges, StartComponent, OpenExport, AskRequest, SetExport, NextRound,
           GiveUp, Settle, SettleComponent, AnswerAtOnce, AnswerWithoutWalk, Enter, AskStar, Leave,
           unchangedByLookup, StartValidation, CheckImport, FinishLink, Terminated
  <2> QED  BY <2>1, StaticInput
<1> USE <1>a DEF TypeInv, TypeOK, WaitInv, Looking, graphVars, passVars, validation
<1>1. CASE CollectEdges
  <2>1. edges' \subseteq Modules \X Modules /\ components' \subseteq SUBSET Modules
    BY <1>1, EdgeTypes, ComponentsOfModules DEF CollectEdges
  <2>2. pc = "graph" /\ pc' \in {"done", "component"} /\ exhausted' \in BOOLEAN
    BY <1>1 DEF CollectEdges
  <2>3. UNCHANGED <<program, passVars, goal, query, stack, table, cache, validation>>
    BY <1>1 DEF CollectEdges
  <2> QED  BY <2>1, <2>2, <2>3
<1>2. ASSUME NEW c \in components, StartComponent(c) PROVE TypeInv'
  <2>1. ExportsOf(c) \subseteq Ids /\ ExportsOf(c) \subseteq Explicit
    BY DEF ExportsOf, Explicit
  <2> QED  BY <1>2, <2>1 DEF StartComponent
<1>3. ASSUME NEW id \in work, OpenExport(id) PROVE TypeInv'
  <2>1. GoalOf(id) \in Goals /\ GoalOf(id).id = id
        /\ (GoalOf(id).pending # {} => GoalOf(id).name \in Names)
    BY GoalShape
  <2> QED  BY <1>3, <2>1 DEF OpenExport
<1>4. ASSUME NEW i \in 1..MaxRequests, AskRequest(i) PROVE TypeInv'
  <2> DEFINE t == Target(goal.id[1], i)
  <2>1. goal \in Goals /\ goal.id \in work /\ goal.id \in Ids /\ goal.id[1] \in Modules
        /\ i \in goal.pending /\ goal.name \in Names /\ pc = "request"
    BY <1>4 DEF AskRequest, IsNext, Ids
  <2>2. t \in Modules \cup Packages \cup {Unresolvable, Absent}
    BY <2>1, InputShape
  <2>3. CASE t \in Modules
    <3>1. <<t, goal.name>> \in Ids
      BY <2>1, <2>3 DEF Ids
    <3>2. query' = <<t, goal.name>> /\ pc' = "lookup" /\ goal' = goal
      BY <1>4, <2>3 DEF AskRequest
    <3> QED  BY <1>4, <2>1, <3>1, <3>2 DEF AskRequest
  <2>4. CASE t \notin Modules
    <3> DEFINE a == IF t = Absent THEN Absent ELSE TargetIdentity(t, goal.name)
    <3>1. a \in Answers
      BY <2>1, <2>2, TargetShape DEF Answers
    <3>2. goal' = WithAnswer(goal, a) /\ query' = query /\ pc' = pc
      BY <1>4, <2>4 DEF AskRequest
    <3> HIDE DEF a
    <3>3. goal' \in Goals /\ goal'.id = goal.id
      BY <2>1, <3>1, <3>2, AnswerTypes
    <3>4. goal'.name = goal.name
      BY <2>1, <3>2 DEF WithAnswer, Goals
    <3> QED  BY <1>4, <2>1, <3>2, <3>3, <3>4 DEF AskRequest
  <2> QED  BY <2>3, <2>4
<1>5. CASE SetExport
  <2>1. goal.id \in Ids /\ goal.value \in Resolutions \cup {Absent}
    BY <1>5 DEF SetExport, Goals
  <2>2. table' \in [Ids -> Resolutions \cup {Absent}] /\ changed' \in BOOLEAN /\ exhausted' \in BOOLEAN
    BY <1>5, <2>1 DEF SetExport
  <2>3. work' \subseteq work /\ pc' = "export"
    BY <1>5 DEF SetExport
  <2>4. UNCHANGED <<graphVars, settled, component, rounds, goal, query, stack, cache, validation>>
    BY <1>5 DEF SetExport
  <2> QED  BY <2>2, <2>3, <2>4
<1>6. CASE NextRound
  <2>1. ExportsOf(component) \subseteq Ids /\ ExportsOf(component) \subseteq Explicit
    BY DEF ExportsOf, Explicit
  <2>2. pc' = "export" /\ work' = ExportsOf(component) /\ rounds' \in Nat /\ changed' = FALSE
    BY <1>6 DEF NextRound, PassEnded
  <2>3. UNCHANGED <<graphVars, settled, component, goal, query, stack, table, cache, exhausted,
                    validation>>
    BY <1>6 DEF NextRound
  <2> QED  BY <2>1, <2>2, <2>3
<1>7. CASE SettleComponent /\ PassEnded /\ table' \in [Ids -> Resolutions \cup {Absent}] /\ exhausted' \in BOOLEAN
  BY <1>7 DEF SettleComponent, PassEnded
<1>8. CASE GiveUp
  <2>1. table' \in [Ids -> Resolutions \cup {Absent}]
    BY <1>8 DEF GiveUp, Resolutions
  <2> QED  BY <1>7, <1>8, <2>1 DEF GiveUp
<1>9. CASE Settle
  BY <1>7, <1>9 DEF Settle
<1>10. CASE AnswerAtOnce
  <2>1. query \in Ids /\ stack \in Seq(Frames) /\ pc = "lookup" /\ Absent \in Answers
    BY <1>10 DEF AnswerAtOnce, Answers
  <2>2. table[query] \in Answers /\ cache[query] \in Answers \cup {Miss}
    BY <2>1 DEF Answers
  <2>3. \E a \in Answers : Deliver(a, stack)
    BY <1>10, <2>1, <2>2 DEF AnswerAtOnce
  <2>4. cache' \in [Ids -> Answers \cup {Miss}] /\ UNCHANGED unchangedByLookup
    BY <1>10 DEF AnswerAtOnce, Answers
  <2> QED  BY <2>1, <2>3, <2>4, DeliverTypes
<1>11. CASE AnswerWithoutWalk
  <2>1. stack \in Seq(Frames) /\ pc = "lookup"
    BY <1>11 DEF AnswerWithoutWalk
  <2>2. \E a \in Answers : Deliver(a, stack)
    BY <1>11 DEF AnswerWithoutWalk, Answers, Resolutions
  <2>3. cache' \in [Ids -> Answers \cup {Miss}] /\ UNCHANGED unchangedByLookup
    BY <1>11 DEF AnswerWithoutWalk, Answers
  <2> QED  BY <2>1, <2>2, <2>3, DeliverTypes
<1>12. CASE Enter
  <2> DEFINE f == [id |-> query, stars |-> StarExports(query[1]), value |-> Absent, unresolved |-> FALSE]
  <2>1. query \in Ids /\ query[1] \in Modules /\ stack \in Seq(Frames) /\ pc = "lookup"
    BY <1>12 DEF Enter, Ids
  <2>2. f \in Frames
    BY <2>1, InputShape DEF Frames
  <2>3. stack' = Append(stack, f) /\ pc' = "star"
        /\ UNCHANGED <<unchangedByLookup, cache, goal, validation>>
    BY <1>12 DEF Enter
  <2> HIDE DEF f
  <2>4. stack' \in Seq(Frames) /\ stack' # <<>>
    BY <2>1, <2>2, <2>3, StackChanges
  <2> QED  BY <2>1, <2>3, <2>4 DEF unchangedByLookup
<1>13. ASSUME NEW i \in 1..MaxRequests, AskStar(i) PROVE TypeInv'
  <2> DEFINE f == Last(stack)
             t == Target(f.id[1], i)
  <2>1. stack \in Seq(Frames) /\ stack # <<>> /\ pc = "star"
    BY <1>13 DEF AskStar
  <2>2. f \in Frames
    BY <2>1, StackParts
  <2>3. f.id[1] \in Modules /\ f.id[2] \in Names
    BY <2>2 DEF Frames, Ids
  <2>4. t \in Modules \cup Packages \cup {Unresolvable, Absent}
    BY <2>3, InputShape
  <2>5. CASE t \in Modules
    <3>1. <<t, f.id[2]>> \in Ids
      BY <2>3, <2>5 DEF Ids
    <3>2. query' = <<t, f.id[2]>> /\ pc' = "lookup" /\ stack' = stack
          /\ UNCHANGED <<program, graphVars, passVars, goal, table, cache, exhausted, validation>>
      BY <1>13, <2>5 DEF AskStar
    <3> HIDE DEF f, t
    <3> QED  BY <2>1, <3>1, <3>2
  <2>6. CASE t \notin Modules
    <3> DEFINE a == IF t = Absent THEN Absent ELSE TargetIdentity(t, f.id[2])
    <3>1. a \in Answers
      BY <2>3, <2>4, <2>6, TargetShape DEF Answers
    <3>2. stack' = [stack EXCEPT ![Len(stack)] = WithContribution(f, a)] /\ query' = query /\ pc' = pc
          /\ UNCHANGED <<program, graphVars, passVars, goal, table, cache, exhausted, validation>>
      BY <1>13, <2>6 DEF AskStar
    <3> HIDE DEF a, t
    <3>3. WithContribution(f, a) \in Frames
      BY <2>2, <3>1, AnswerTypes
    <3> HIDE DEF f
    <3>4. stack' \in Seq(Frames) /\ stack' # <<>>
      BY <2>1, <3>2, <3>3, StackChanges
    <3> QED  BY <2>1, <3>2, <3>4
  <2> QED  BY <2>5, <2>6
<1>14. CASE Leave
  <2> DEFINE f == Last(stack)
  <2>1. stack \in Seq(Frames) /\ stack # <<>> /\ pc = "star"
    BY <1>14 DEF Leave
  <2>2. f \in Frames /\ Front(stack) \in Seq(Frames)
    BY <2>1, StackParts
  <2>3. WalkAnswer(f) \in Answers
    BY <2>2 DEF WalkAnswer, Frames, Answers
  <2>4. cache' \in [Ids -> Answers \cup {Miss}]
    <3>1. cache' = cache \/ cache' = [cache EXCEPT ![f.id] = WalkAnswer(f)]
      BY <1>14 DEF Leave
    <3>2. cache \in [Ids -> Answers \cup {Miss}]
      BY DEF Answers
    <3> HIDE DEF f
    <3> QED  BY <2>3, <3>1, <3>2
  <2>5. Deliver(WalkAnswer(f), Front(stack)) /\ UNCHANGED unchangedByLookup
    BY <1>14 DEF Leave
  <2> HIDE DEF f
  <2> QED  BY <2>1, <2>2, <2>3, <2>4, <2>5, DeliverTypes
<1>15. CASE StartValidation
  <2>1. ImportChecks \subseteq Modules \X (1..MaxRequests) \X Names
    BY DEF ImportChecks
  <2> QED  BY <1>15, <2>1 DEF StartValidation
<1>16. ASSUME NEW c \in checks, CheckImport(c) PROVE TypeInv'
  <2>1. c \in Modules \X (1..MaxRequests) \X Names /\ Target(c[1], c[2]) \in Modules
    BY DEF ImportChecks
  <2>2. <<Target(c[1], c[2]), c[3]>> \in Ids
    BY <2>1 DEF Ids
  <2>3. check' = c /\ query' = <<Target(c[1], c[2]), c[3]>> /\ pc' = "lookup" /\ pc = "check"
        /\ UNCHANGED <<program, graphVars, passVars, goal, stack, table, cache, exhausted,
                       checks, missing, ambiguous>>
    BY <1>16 DEF CheckImport
  <2> QED  BY <2>1, <2>2, <2>3
<1>17. CASE FinishLink
  BY <1>17 DEF FinishLink
<1>18. CASE UNCHANGED vars
  BY <1>18 DEF vars
<1> QED  BY <1>1, <1>2, <1>3, <1>4, <1>5, <1>6, <1>8, <1>9, <1>10, <1>11, <1>12, <1>13, <1>14, <1>15,
            <1>16, <1>17, <1>18 DEF Next, Terminated

----------------------------------------------------------------------------
(* Where lookups go.                                                       *)
LEMMA ReachedOn ==
  TypeInv /\ GraphWhole /\ OrderInv =>
    /\ \A m \in settled \cup component, n \in Modules :
         <<m, n>> \in edges => n \in settled \cup component /\ (InNoCycle(n) => n \in settled)
    /\ \A id \in Ids : id[1] \in settled \cup component =>
         \A s \in Sources(id) : Target(id[1], s[1]) \in Modules =>
           /\ <<Target(id[1], s[1]), s[2]>> \in NextIds(id)
           /\ Reached(<<Target(id[1], s[1]), s[2]>>)
<1> SUFFICES ASSUME TypeInv, GraphWhole, OrderInv
             PROVE  /\ \A m \in settled \cup component, n \in Modules :
                         <<m, n>> \in edges =>
                           n \in settled \cup component /\ (InNoCycle(n) => n \in settled)
                    /\ \A id \in Ids : id[1] \in settled \cup component =>
                         \A s \in Sources(id) : Target(id[1], s[1]) \in Modules =>
                           /\ <<Target(id[1], s[1]), s[2]>> \in NextIds(id)
                           /\ Reached(<<Target(id[1], s[1]), s[2]>>)
  OBVIOUS
<1>1. ASSUME NEW m \in settled \cup component, NEW n \in Modules, <<m, n>> \in edges
      PROVE  n \in settled \cup component /\ (InNoCycle(n) => n \in settled)
  <2>1. n \in settled \cup component /\ (m \in settled => n \in settled)
    BY <1>1 DEF OrderInv, DependenciesSettled
  <2>2. ASSUME InNoCycle(n), n \notin settled PROVE FALSE
    <3>1. n \in component /\ m \in component /\ component \in components
      BY <2>1, <2>2 DEF OrderInv
    <3>2. component = {n}
      BY <2>2, <3>1, ComponentFacts DEF InNoCycle, GraphWhole
    <3> QED  BY <1>1, <2>2, <3>1, <3>2 DEF InNoCycle
  <2> QED  BY <2>1, <2>2
<1>2. ASSUME NEW id \in Ids, id[1] \in settled \cup component,
             NEW s \in Sources(id), Target(id[1], s[1]) \in Modules
      PROVE  /\ <<Target(id[1], s[1]), s[2]>> \in NextIds(id)
             /\ Reached(<<Target(id[1], s[1]), s[2]>>)
  <2>1. s[1] \in 1..MaxRequests /\ s[2] \in Names /\ id[1] \in Modules
    BY SourcesShape DEF Ids, TypeInv
  <2>2. <<id[1], Target(id[1], s[1])>> \in edges
    BY <1>2, <2>1 DEF GraphWhole
  <2>3. <<Target(id[1], s[1]), s[2]>> \in NextIds(id)
    BY <1>2 DEF NextIds
  <2> DEFINE t == Target(id[1], s[1])
  <2>4. t \in settled \cup component /\ (InNoCycle(t) => t \in settled)
    BY <1>1, <1>2, <2>2
  <2>5. <<t, s[2]>> \in Ids
    BY <1>2, <2>1 DEF Ids
  <2> HIDE DEF t
  <2>6. Reached(<<t, s[2]>>)
    BY <2>4, <2>5 DEF Reached
  <2> QED  BY <2>3, <2>6 DEF t
<1> QED  BY <1>1, <1>2

(* What is reached along a way that can be followed is resolved already.   *)
LEMMA NotExplicit ==
  TypeInv /\ GraphWhole /\ OrderInv /\ PresentInv =>
    \A id \in Ids :
      Reached(id) /\ table[id] = Absent /\ Followed(id) /\ pc \in {"lookup", "star"} =>
        id \notin Explicit /\ id[1] \in settled
<1> SUFFICES ASSUME TypeInv, GraphWhole, OrderInv, PresentInv, NEW id \in Ids,
                    Reached(id), table[id] = Absent, Followed(id), pc \in {"lookup", "star"}
             PROVE  id \notin Explicit /\ id[1] \in settled
  OBVIOUS
<1>1. id[1] \in settled
  BY FollowedOn DEF Reached, TypeInv
<1>2. id \in Explicit => id \in work
  BY <1>1 DEF PresentInv
<1>3. id \in work => id[1] \in component /\ component \cap settled = {}
  BY DEF OrderInv, InPass, Looking, ExportsOf
<1> QED  BY <1>1, <1>2, <1>3

(* The sources of an export that is looked for in star exports.            *)
LEMMA WalkFacts ==
  program \in Programs =>
    \A id \in Ids : id \notin Explicit /\ HasStarWalk(id) =>
      /\ Sources(id) = StarExports(id[1]) \X {id[2]}
      /\ Itself(id) = {} /\ IfAbsent(id) = Unknown
      /\ Meaning(id) = UNION {Brings(id, <<i, id[2]>>) : i \in StarExports(id[1])}
      /\ Leads(id) => StarExports(id[1]) # {}
<1> SUFFICES ASSUME program \in Programs, NEW id \in Ids, id \notin Explicit, HasStarWalk(id)
             PROVE  /\ Sources(id) = StarExports(id[1]) \X {id[2]}
                    /\ Itself(id) = {} /\ IfAbsent(id) = Unknown
                    /\ Meaning(id) = UNION {Brings(id, <<i, id[2]>>) : i \in StarExports(id[1])}
                    /\ Leads(id) => StarExports(id[1]) # {}
  OBVIOUS
<1>1. Sources(id) = StarExports(id[1]) \X {id[2]} /\ Itself(id) = {} /\ IfAbsent(id) = Unknown
  BY DEF Sources, HasStarWalk, Itself, IfAbsent
<1>2. UNION {Brings(id, s) : s \in Sources(id)}
        = UNION {Brings(id, <<i, id[2]>>) : i \in StarExports(id[1])}
  <2>1. \A i \in StarExports(id[1]) : <<i, id[2]>> \in Sources(id)
    BY <1>1
  <2>2. \A s \in Sources(id) : \E i \in StarExports(id[1]) : s = <<i, id[2]>>
    BY <1>1
  <2> QED  BY <2>1, <2>2, Zenon
<1>3. Meaning(id) = UNION {Brings(id, s) : s \in Sources(id)}
  BY <1>1, MeaningSplits
<1>4. ASSUME Leads(id), StarExports(id[1]) = {} PROVE FALSE
  <2>1. Ends(id) # {} \/ NextIds(id) # {}
    BY <1>4, FollowedOn
  <2>2. NextIds(id) = {}
    BY <1>1, <1>4 DEF NextIds
  <2>3. Meaning(id) = {} /\ Ends(id) \subseteq Meaning(id)
    BY <1>1, <1>3, <1>4, MeaningSplits
  <2> QED  BY <2>1, <2>2, <2>3
<1> QED  BY <1>1, <1>2, <1>3, <1>4

----------------------------------------------------------------------------
(***************************************************************************)
(* Weighing answers.  An answer fits a source if, when it is definite, it  *)
(* is what the source brings, and if it is what the export means when that *)
(* is one thing.                                                           *)
(***************************************************************************)
Fits(id, s, a) ==
  /\ a \in Identities => Brings(id, s) = {a}
  /\ DepthSuffices /\ Leads(id) =>
       \A v \in Meaning(id) : Meaning(id) = {v} => a = v \/ (a = Absent /\ v = Unknown)

LEMMA LookupFits ==
  program \in Programs /\ SettledMeans =>
    \A id \in Ids : \A s \in Sources(id), a \in Answers :
      /\ Target(id[1], s[1]) \in Modules /\ Followed(id)
      /\ Target(id[1], s[1]) \in settled
      /\ Right(<<Target(id[1], s[1]), s[2]>>, a)
      => Fits(id, s, a)
<1> SUFFICES ASSUME program \in Programs, SettledMeans, NEW id \in Ids, NEW s \in Sources(id),
                    NEW a \in Answers, Target(id[1], s[1]) \in Modules, Followed(id),
                    Target(id[1], s[1]) \in settled, Right(<<Target(id[1], s[1]), s[2]>>, a)
             PROVE  Fits(id, s, a)
  OBVIOUS
<1> DEFINE j == <<Target(id[1], s[1]), s[2]>>
<1>1. j \in NextIds(id) /\ Brings(id, s) = Meaning(j) /\ j[1] \in settled /\ Right(j, a)
  BY DEF NextIds, Brings
<1> HIDE DEF j
<1>2. j \in Ids /\ j \in Beyond(id) /\ Meaning(j) \subseteq Meaning(id)
  BY <1>1, SourcesShape, FollowedOn, MeaningSplits
<1>3. Followed(j) /\ (Leads(id) => Leads(j))
  BY <1>2, FollowedOn
<1>4. ASSUME DepthSuffices, Leads(id), NEW v \in Meaning(id), Meaning(id) = {v}
      PROVE  a = v \/ (a = Absent /\ v = Unknown)
  <2>1. Meaning(j) # {}
    BY <1>1, <1>2, <1>3, <1>4 DEF SettledMeans
  <2>2. Meaning(j) = {v} /\ v \in Meaning(j)
    BY <1>2, <1>4, <2>1
  <2> QED  BY <1>1, <1>3, <1>4, <2>2 DEF Right
<1> QED  BY <1>1, <1>4 DEF Fits, Right

(* A target that is no project module is its own answer.                   *)
LEMMA OutsideFits ==
  program \in Programs =>
    \A id \in Ids : \A s \in Sources(id) :
      Target(id[1], s[1]) \notin Modules =>
        /\ Outside(id, s) \in Meaning(id) /\ Brings(id, s) = {Outside(id, s)}
        /\ Target(id[1], s[1]) # Absent => Fits(id, s, Outside(id, s))
        /\ Target(id[1], s[1]) = Absent /\ IfAbsent(id) = Unknown => Fits(id, s, Absent)
<1> SUFFICES ASSUME program \in Programs, NEW id \in Ids, NEW s \in Sources(id),
                    Target(id[1], s[1]) \notin Modules
             PROVE  /\ Outside(id, s) \in Meaning(id) /\ Brings(id, s) = {Outside(id, s)}
                    /\ Target(id[1], s[1]) # Absent => Fits(id, s, Outside(id, s))
                    /\ Target(id[1], s[1]) = Absent /\ IfAbsent(id) = Unknown => Fits(id, s, Absent)
  OBVIOUS
<1>1. Brings(id, s) = {Outside(id, s)}
  BY DEF Brings
<1>2. Outside(id, s) \in Meaning(id)
  BY <1>1, MeaningSplits
<1>3. Target(id[1], s[1]) # Absent => Fits(id, s, Outside(id, s))
  BY <1>1, <1>2 DEF Fits
<1>4. ASSUME Target(id[1], s[1]) = Absent, IfAbsent(id) = Unknown PROVE Fits(id, s, Absent)
  <2>1. Outside(id, s) = Unknown
    BY <1>4 DEF Outside
  <2>2. Absent \notin Identities
    BY LinkerConstants DEF Resolutions
  <2> QED  BY <1>2, <2>1, <2>2 DEF Fits
<1> QED  BY <1>1, <1>2, <1>3, <1>4

(* A frame that takes in a fitting answer has weighed one more.            *)
LEMMA ContributionRight ==
  program \in Programs =>
    \A f \in Frames, i \in 1..MaxRequests, a \in Answers :
      /\ FrameRight(f) /\ f.stars \subseteq StarExports(f.id[1]) /\ IsNext(i, f.stars)
      /\ Followed(f.id) => Fits(f.id, <<i, f.id[2]>>, a)
      => /\ FrameRight(WithContribution(f, a))
         /\ WithContribution(f, a).stars \subseteq StarExports(f.id[1])
<1> SUFFICES ASSUME program \in Programs, NEW f \in Frames, NEW i \in 1..MaxRequests, NEW a \in Answers,
                    FrameRight(f), f.stars \subseteq StarExports(f.id[1]), IsNext(i, f.stars),
                    Followed(f.id) => Fits(f.id, <<i, f.id[2]>>, a)
             PROVE  /\ FrameRight(WithContribution(f, a))
                    /\ WithContribution(f, a).stars \subseteq StarExports(f.id[1])
  OBVIOUS
<1> DEFINE g == WithContribution(f, a)
<1>1. i \in f.stars /\ After(f.stars) = f.stars \ {i}
  <2>1. f.stars \in SUBSET (1..MaxRequests)
    BY DEF Frames
  <2>2. 1..MaxRequests \subseteq Int
    OBVIOUS
  <2>3. \A j \in f.stars : IsNext(j, f.stars) <=> j = i
    BY <2>1, <2>2 DEF IsNext
  <2> QED  BY <2>3 DEF After, IsNext
<1>2. g.id = f.id /\ g \in Frames
  BY AnswerTypes
<1>3. /\ a = Absent => g.stars = f.stars \ {i} /\ g.unresolved = TRUE /\ g.value = f.value
      /\ a # Absent /\ f.value \in {Absent, a} =>
           g.stars = f.stars \ {i} /\ g.value = a /\ g.unresolved = f.unresolved
      /\ a # Absent /\ f.value \notin {Absent, a} =>
           g.stars = {} /\ g.value = Ambiguous /\ g.unresolved = FALSE
  BY <1>1 DEF WithContribution, Frames
<1>4. Ambiguous \notin Identities /\ Ambiguous # Absent /\ Absent \notin Identities
  BY LinkerConstants DEF Resolutions
<1>5. g.stars \subseteq StarExports(f.id[1])
  BY <1>3
<1> HIDE DEF g
<1>6. ASSUME Followed(f.id)
      PROVE  /\ g.value = Absent /\ ~g.unresolved => g.stars = StarExports(f.id[1])
             /\ g.value # Absent \/ g.unresolved => StarExports(f.id[1]) # {}
             /\ g.value \in Identities /\ ~g.unresolved =>
                  \A k \in StarExports(f.id[1]) \ g.stars : Brings(f.id, <<k, f.id[2]>>) = {g.value}
             /\ DepthSuffices /\ Leads(f.id) =>
                  \A v \in Meaning(f.id) :
                    Meaning(f.id) = {v} => g.value \in {Absent, v} /\ (g.unresolved => v = Unknown)
  <2>1. /\ f.value = Absent /\ ~f.unresolved => f.stars = StarExports(f.id[1])
        /\ f.value \in Identities /\ ~f.unresolved =>
             \A k \in StarExports(f.id[1]) \ f.stars : Brings(f.id, <<k, f.id[2]>>) = {f.value}
        /\ DepthSuffices /\ Leads(f.id) =>
             \A v \in Meaning(f.id) :
               Meaning(f.id) = {v} => f.value \in {Absent, v} /\ (f.unresolved => v = Unknown)
    BY <1>6 DEF FrameRight
  <2>2. Fits(f.id, <<i, f.id[2]>>, a)
    BY <1>6
  <2>3. g.value = Absent /\ ~g.unresolved => g.stars = StarExports(f.id[1])
    BY <1>3, <1>4
  <2>4. StarExports(f.id[1]) # {}
    BY <1>1
  <2>5. ASSUME g.value \in Identities, ~g.unresolved, NEW k \in StarExports(f.id[1]) \ g.stars
        PROVE  Brings(f.id, <<k, f.id[2]>>) = {g.value}
    <3>1. a # Absent /\ f.value \in {Absent, a} /\ g.stars = f.stars \ {i} /\ g.value = a /\ ~f.unresolved
      BY <1>3, <1>4, <2>5
    <3>2. CASE k = i
      BY <2>2, <2>5, <3>1, <3>2 DEF Fits
    <3>3. CASE k # i
      <4>1. k \in StarExports(f.id[1]) \ f.stars
        BY <2>5, <3>1, <3>3
      <4>2. f.value = a
        BY <2>1, <3>1, <4>1
      <4> QED  BY <2>1, <2>5, <3>1, <4>1, <4>2
    <3> QED  BY <3>2, <3>3
  <2>6. ASSUME DepthSuffices, Leads(f.id), NEW v \in Meaning(f.id), Meaning(f.id) = {v}
        PROVE  g.value \in {Absent, v} /\ (g.unresolved => v = Unknown)
    <3>1. a = v \/ (a = Absent /\ v = Unknown)
      BY <2>2, <2>6 DEF Fits
    <3>2. f.value \in {Absent, v} /\ (f.unresolved => v = Unknown)
      BY <2>1, <2>6
    <3>3. v # Absent
      BY <2>6, MeaningValues DEF Frames
    <3> QED  BY <1>3, <3>1, <3>2, <3>3
  <2> QED  BY <2>3, <2>4, <2>5, <2>6
<1> QED  BY <1>2, <1>5, <1>6 DEF FrameRight, g

(* When all is weighed, the answer of the walk is right.                   *)
LEMMA WalkRight ==
  program \in Programs =>
    \A f \in Frames :
      /\ FrameRight(f) /\ f.stars = {} /\ Followed(f.id)
      /\ f.id \notin Explicit /\ HasStarWalk(f.id)
      => Right(f.id, WalkAnswer(f))
<1> SUFFICES ASSUME program \in Programs, NEW f \in Frames, FrameRight(f), f.stars = {},
                    Followed(f.id), f.id \notin Explicit, HasStarWalk(f.id)
             PROVE  Right(f.id, WalkAnswer(f))
  OBVIOUS
<1>1. f.id \in Ids /\ Absent \notin Identities
  BY LinkerConstants DEF Frames, Resolutions
<1>2. /\ Meaning(f.id) = UNION {Brings(f.id, <<i, f.id[2]>>) : i \in StarExports(f.id[1])}
      /\ Leads(f.id) => StarExports(f.id[1]) # {}
  BY <1>1, WalkFacts
<1>3. ASSUME WalkAnswer(f) \in Identities PROVE Meaning(f.id) = {WalkAnswer(f)}
  <2>1. ~f.unresolved /\ WalkAnswer(f) = f.value /\ f.value \in Identities /\ f.value # Absent
    BY <1>1, <1>3 DEF WalkAnswer
  <2>2. StarExports(f.id[1]) # {}
        /\ \A i \in StarExports(f.id[1]) : Brings(f.id, <<i, f.id[2]>>) = {f.value}
    BY <2>1 DEF FrameRight
  <2> QED  BY <1>2, <2>1, <2>2
<1>4. ASSUME DepthSuffices, Leads(f.id), NEW v \in Meaning(f.id), Meaning(f.id) = {v}
      PROVE  WalkAnswer(f) = v \/ (WalkAnswer(f) = Absent /\ v = Unknown)
  <2>1. f.value \in {Absent, v} /\ (f.unresolved => v = Unknown)
    BY <1>4 DEF FrameRight
  <2>2. f.value # Absent \/ f.unresolved
    BY <1>2, <1>4 DEF FrameRight
  <2> QED  BY <2>1, <2>2 DEF WalkAnswer
<1> QED  BY <1>3, <1>4 DEF Right

(* A resolution that takes in a fitting answer has weighed one more.       *)
LEMMA AnswerRight ==
  program \in Programs =>
    \A g \in Goals, i \in 1..MaxRequests, a \in Answers :
      /\ g.id \in Ids /\ g.id \in Explicit /\ GoalRight(g) /\ IsNext(i, g.pending)
      /\ Followed(g.id) =>
           \/ Fits(g.id, <<i, g.name>>, a) /\ (a = Absent => g.fallback = Unknown)
           \/ a = Absent /\ Brings(g.id, <<i, g.name>>) = {g.fallback} /\ g.fallback \in Meaning(g.id)
      => GoalRight(WithAnswer(g, a))
<1> SUFFICES ASSUME program \in Programs, NEW g \in Goals, NEW i \in 1..MaxRequests, NEW a \in Answers,
                    g.id \in Ids, g.id \in Explicit, GoalRight(g), IsNext(i, g.pending),
                    Followed(g.id) =>
                      \/ Fits(g.id, <<i, g.name>>, a) /\ (a = Absent => g.fallback = Unknown)
                      \/ a = Absent /\ Brings(g.id, <<i, g.name>>) = {g.fallback}
                           /\ g.fallback \in Meaning(g.id)
             PROVE  GoalRight(WithAnswer(g, a))
  OBVIOUS
<1> DEFINE h == WithAnswer(g, a)
           v == IF a = Absent THEN g.fallback ELSE a
           first == GoalOf(g.id)
<1>1. i \in g.pending /\ After(g.pending) = g.pending \ {i}
  <2>1. g.pending \in SUBSET (1..MaxRequests)
    BY DEF Goals
  <2>2. 1..MaxRequests \subseteq Int
    OBVIOUS
  <2>3. \A j \in g.pending : IsNext(j, g.pending) <=> j = i
    BY <2>1, <2>2 DEF IsNext
  <2> QED  BY <2>3 DEF After, IsNext
<1>2. h.id = g.id /\ h.name = g.name /\ h.fallback = g.fallback
  BY DEF WithAnswer, Goals
<1>3. /\ g.value \in {Absent, v} => h.pending = g.pending \ {i} /\ h.value = v
      /\ g.value \notin {Absent, v} => h.pending = {} /\ h.value = Unknown
  BY <1>1 DEF WithAnswer, Goals
<1>4. /\ Unknown \notin Identities /\ Unknown # Absent /\ Absent \notin Identities /\ v # Absent
  BY LinkerConstants DEF Resolutions, Goals, Answers
<1>5. /\ g.name = first.name /\ g.fallback = first.fallback /\ g.pending \subseteq first.pending
      /\ g.value = Absent => g.pending = first.pending /\ first.pending # {}
      /\ first.pending # {}
  BY <1>1 DEF GoalRight
<1>6. h.value # Absent /\ h.pending \subseteq g.pending
  BY <1>3, <1>4
<1>7. ASSUME Followed(g.id) 
      PROVE  /\ v \in Identities => Brings(g.id, <<i, g.name>>) = {v}
             /\ DepthSuffices /\ Leads(g.id) =>
                  \A w \in Meaning(g.id) : Meaning(g.id) = {w} => v = w
  <2>1. CASE Fits(g.id, <<i, g.name>>, a) /\ (a = Absent => g.fallback = Unknown)
    <3>1. \A w \in Meaning(g.id) : w # Absent
      BY MeaningValues
    <3> QED  BY <1>4, <2>1, <3>1 DEF Fits
  <2>2. CASE a = Absent /\ Brings(g.id, <<i, g.name>>) = {g.fallback} /\ g.fallback \in Meaning(g.id)
    BY <2>2
  <2> QED  BY <1>7, <2>1, <2>2
<1> HIDE DEF h, v
<1>8. ASSUME Followed(g.id)
      PROVE  /\ h.value \in Identities =>
                  \A k \in first.pending \ h.pending : Brings(g.id, <<k, first.name>>) = {h.value}
             /\ DepthSuffices /\ Leads(g.id) =>
                  \A w \in Meaning(g.id) : Meaning(g.id) = {w} => h.value \in {Absent, w}
  <2>1. /\ g.value \in Identities =>
             \A k \in first.pending \ g.pending : Brings(g.id, <<k, first.name>>) = {g.value}
        /\ DepthSuffices /\ Leads(g.id) =>
             \A w \in Meaning(g.id) : Meaning(g.id) = {w} => g.value \in {Absent, w}
    BY <1>8 DEF GoalRight
  <2>2. ASSUME h.value \in Identities, NEW k \in first.pending \ h.pending
        PROVE  Brings(g.id, <<k, first.name>>) = {h.value}
    <3>1. g.value \in {Absent, v} /\ h.pending = g.pending \ {i} /\ h.value = v
      BY <1>3, <1>4, <2>2
    <3>2. CASE k = i
      BY <1>5, <1>7, <1>8, <2>2, <3>1, <3>2
    <3>3. CASE k # i
      <4>1. k \in first.pending \ g.pending
        BY <2>2, <3>1, <3>3
      <4>2. g.value = v
        BY <1>5, <3>1, <4>1
      <4> QED  BY <2>1, <2>2, <3>1, <4>1, <4>2
    <3> QED  BY <3>2, <3>3
  <2>3. ASSUME DepthSuffices, Leads(g.id), NEW w \in Meaning(g.id), Meaning(g.id) = {w}
        PROVE  h.value \in {Absent, w}
    <3>1. v = w /\ g.value \in {Absent, w}
      BY <1>7, <1>8, <2>1, <2>3
    <3> QED  BY <1>3, <3>1
  <2> QED  BY <2>2, <2>3
<1> HIDE DEF first
<1>9. /\ h.name = first.name /\ h.fallback = first.fallback /\ h.pending \subseteq first.pending
      /\ h.value = Absent => h.pending = first.pending /\ first.pending # {}
      /\ first.pending = {} => h.value = first.value
  BY <1>2, <1>5, <1>6
<1> QED  BY <1>2, <1>8, <1>9 DEF GoalRight, h, first

(* When all requests are weighed, the value of the export is right.        *)
LEMMA GoalEndsRight ==
  program \in Programs =>
    \A g \in Goals :
      g.id \in Ids /\ g.id \in Explicit /\ GoalRight(g) /\ g.pending = {} =>
        g.value # Absent /\ (Followed(g.id) => Right(g.id, g.value))
<1> SUFFICES ASSUME program \in Programs, NEW g \in Goals, g.id \in Ids, g.id \in Explicit,
                    GoalRight(g), g.pending = {}
             PROVE  g.value # Absent /\ (Followed(g.id) => Right(g.id, g.value))
  OBVIOUS
<1> DEFINE first == GoalOf(g.id)
<1>1. g.value # Absent
  BY DEF GoalRight
<1>2. /\ Sources(g.id) = first.pending \X {first.name}
      /\ ~Interface(g.id[1]).unknown
      /\ Meaning(g.id) = Itself(g.id) \cup UNION {Brings(g.id, s) : s \in Sources(g.id)}
  BY GoalShape, InputShape, MeaningSplits
<1>3. Itself(g.id) = IF first.pending = {} THEN {first.value} ELSE {}
  BY <1>2 DEF Itself
<1>4. /\ first.pending = {} => g.value = first.value
      /\ Followed(g.id) =>
           /\ g.value \in Identities =>
                \A i \in first.pending : Brings(g.id, <<i, first.name>>) = {g.value}
           /\ DepthSuffices /\ Leads(g.id) =>
                \A v \in Meaning(g.id) : Meaning(g.id) = {v} => g.value \in {Absent, v}
  BY DEF GoalRight
<1>5. ASSUME Followed(g.id), g.value \in Identities PROVE Meaning(g.id) = {g.value}
  <2>1. CASE first.pending = {}
    <3>1. Sources(g.id) = {} /\ Itself(g.id) = {g.value}
      BY <1>2, <1>3, <1>4, <2>1
    <3> QED  BY <1>2, <3>1
  <2>2. CASE first.pending # {}
    <3>1. \A s \in Sources(g.id) : \E i \in first.pending : s = <<i, first.name>>
      BY <1>2
    <3>2. \A s \in Sources(g.id) : Brings(g.id, s) = {g.value}
      BY <1>4, <1>5, <3>1
    <3>3. Sources(g.id) # {}
      <4>1. PICK i \in first.pending : TRUE
        BY <2>2
      <4>2. <<i, first.name>> \in first.pending \X {first.name}
        OBVIOUS
      <4> QED  BY <1>2, <4>2
    <3>4. Itself(g.id) = {}
      BY <1>3, <2>2
    <3> QED  BY <1>2, <3>2, <3>3, <3>4
  <2> QED  BY <2>1, <2>2
<1> QED  BY <1>1, <1>4, <1>5 DEF Right

----------------------------------------------------------------------------
(* The way of a lookup, when its end or its start changes.                 *)
LEMMA LineOf ==
  ASSUME NEW s \in Seq(Frames), NEW id
  PROVE  /\ Len(s) \in Nat
         /\ \A k \in 1..Len(s) : Line(s, id)[k] = s[k].id
         /\ Line(s, id)[Len(s) + 1] = id
BY DEF Line

LEMMA CallReturns ==
  ASSUME NEW s \in Seq(Frames), s # <<>>, NEW id, Calls(id, s)
  PROVE  /\ Calls(Last(s).id, Front(s)) /\ FrameOK(Last(s))
         /\ \A k \in 1..(Len(s) - 1) : s[k].id # Last(s).id
         /\ \E i \in 1..MaxRequests :
              /\ IsNext(i, Last(s).stars)
              /\ Target(Last(s).id[1], i) \in Modules
              /\ id = <<Target(Last(s).id[1], i), Last(s).id[2]>>
<1> DEFINE n == Len(s)
           r == Front(s)
           f == Last(s)
           line == Line(s, id)
           short == Line(r, f.id)
<1>1. /\ n \in Nat \ {0} /\ f = s[n] /\ r \in Seq(Frames) /\ Len(r) = n - 1
      /\ \A k \in 1..(n - 1) : r[k] = s[k]
  BY StackParts
<1>2. /\ \A k \in 1..n : line[k] = s[k].id
      /\ line[n + 1] = id
  BY LineOf
<1>3. \A k \in 1..n : short[k] = line[k]
  <2>1. /\ \A k \in 1..Len(r) : short[k] = r[k].id
        /\ short[Len(r) + 1] = f.id
    BY <1>1, LineOf
  <2> HIDE DEF short, line, r, f, n
  <2>2. \A k \in 1..n : k \in 1..(n - 1) \/ k = n
    BY <1>1
  <2>3. \A k \in 1..(n - 1) : k \in 1..n
    BY <1>1
  <2>4. Len(r) + 1 = n /\ n \in 1..n
    BY <1>1
  <2> QED  BY <1>1, <1>2, <2>1, <2>2, <2>3, <2>4
<1>4. /\ \A k \in 1..n : FrameOK(s[k]) /\ s[k].id[2] = id[2]
      /\ \A k, l \in 1..n : k < l => s[k].id # s[l].id
      /\ \A k, l \in 1..(n + 1) : k < l /\ Followed(line[k]) => line[l] \in Beyond(line[k])
      /\ \A k \in 1..n : \E i \in 1..MaxRequests :
           /\ IsNext(i, s[k].stars) /\ Target(s[k].id[1], i) \in Modules
           /\ line[k + 1] = <<Target(s[k].id[1], i), s[k].id[2]>>
      /\ work # {} => \E i \in 1..MaxRequests :
           /\ IsNext(i, goal.pending) /\ Target(goal.id[1], i) \in Modules
           /\ line[1] = <<Target(goal.id[1], i), goal.name>>
  BY DEF Calls
<1> HIDE DEF short, line, r, f, n
<1>5. /\ n \in 1..n /\ 1 \in 1..n /\ \A k \in 1..(n - 1) : k \in 1..n /\ k + 1 \in 1..n /\ k < n
      /\ \A k \in 1..n : k \in 1..(n + 1)
      /\ (n - 1) + 1 = n
  BY <1>1
<1>6. FrameOK(f) /\ f.id[2] = id[2] /\ Reached(f.id)
  BY <1>1, <1>4, <1>5 DEF FrameOK
<1>7. \A k \in 1..(n - 1) : s[k].id # f.id
  BY <1>1, <1>4, <1>5
<1>8. /\ \A k \in 1..(n - 1) : FrameOK(r[k]) /\ r[k].id[2] = f.id[2]
      /\ \A k, l \in 1..(n - 1) : k < l => r[k].id # r[l].id
  <2>1. \A k \in 1..(n - 1) : r[k] = s[k] /\ k \in 1..n
    BY <1>1, <1>5
  <2>2. \A k \in 1..n : FrameOK(s[k]) /\ s[k].id[2] = f.id[2]
    BY <1>4, <1>6
  <2>3. \A k, l \in 1..n : k < l => s[k].id # s[l].id
    BY <1>4
  <2>4. \A k \in 1..(n - 1) : FrameOK(r[k]) /\ r[k].id[2] = f.id[2]
    BY <2>1, <2>2
  <2>5. \A k, l \in 1..(n - 1) : k < l => r[k].id # r[l].id
    BY <2>1, <2>3
  <2> QED  BY <2>4, <2>5
<1>9. \A k, l \in 1..n : k < l /\ Followed(short[k]) => short[l] \in Beyond(short[k])
  BY <1>3, <1>4, <1>5
<1>10. \A k \in 1..(n - 1) : \E i \in 1..MaxRequests :
          /\ IsNext(i, r[k].stars) /\ Target(r[k].id[1], i) \in Modules
          /\ short[k + 1] = <<Target(r[k].id[1], i), r[k].id[2]>>
  BY <1>1, <1>3, <1>4, <1>5, ZenonT(60)
<1>11. work # {} => \E i \in 1..MaxRequests :
          /\ IsNext(i, goal.pending) /\ Target(goal.id[1], i) \in Modules
          /\ short[1] = <<Target(goal.id[1], i), goal.name>>
  BY <1>3, <1>4, <1>5
<1>12. Calls(f.id, r)
  <2>1. Len(r) = n - 1 /\ Len(r) + 1 = n
    BY <1>1, <1>5
  <2> QED  BY <1>6, <1>8, <1>9, <1>10, <1>11, <2>1 DEF Calls, short
<1>13. \E i \in 1..MaxRequests :
         IsNext(i, f.stars) /\ Target(f.id[1], i) \in Modules /\ id = <<Target(f.id[1], i), f.id[2]>>
  BY <1>1, <1>2, <1>4, <1>5
<1> QED  BY <1>6, <1>7, <1>12, <1>13 DEF f, r, n

LEMMA CallGoesOn ==
  ASSUME NEW s \in Seq(Frames), s # <<>>, TypeInv, GraphWhole, OrderInv, PresentInv,
         pc \in {"lookup", "star"},
         Calls(Last(s).id, Front(s)), FrameOK(Last(s)),
         \A k \in 1..(Len(s) - 1) : s[k].id # Last(s).id,
         NEW i \in 1..MaxRequests, IsNext(i, Last(s).stars), Target(Last(s).id[1], i) \in Modules
  PROVE  Calls(<<Target(Last(s).id[1], i), Last(s).id[2]>>, s)
<1> DEFINE n == Len(s)
           r == Front(s)
           f == Last(s)
           id == <<Target(f.id[1], i), f.id[2]>>
           line == Line(s, id)
           short == Line(r, f.id)
<1>1. /\ n \in Nat \ {0} /\ f = s[n] /\ r \in Seq(Frames) /\ Len(r) = n - 1
      /\ \A k \in 1..(n - 1) : r[k] = s[k]
      /\ f \in Frames
  BY StackParts
<1>2. /\ \A k \in 1..n : line[k] = s[k].id
      /\ line[n + 1] = id
  BY LineOf
<1>3. \A k \in 1..n : short[k] = line[k]
  <2>1. /\ \A k \in 1..Len(r) : short[k] = r[k].id
        /\ short[Len(r) + 1] = f.id
    BY <1>1, LineOf
  <2> HIDE DEF short, line, r, f, n, id
  <2>2. \A k \in 1..n : k \in 1..(n - 1) \/ k = n
    BY <1>1
  <2>3. \A k \in 1..(n - 1) : k \in 1..n
    BY <1>1
  <2>4. Len(r) + 1 = n /\ n \in 1..n
    BY <1>1
  <2> QED  BY <1>1, <1>2, <2>1, <2>2, <2>3, <2>4
<1>4. /\ \A k \in 1..(n - 1) : FrameOK(r[k]) /\ r[k].id[2] = f.id[2]
      /\ \A k, l \in 1..(n - 1) : k < l => r[k].id # r[l].id
      /\ \A k, l \in 1..n : k < l /\ Followed(short[k]) => short[l] \in Beyond(short[k])
      /\ \A k \in 1..(n - 1) : \E j \in 1..MaxRequests :
           /\ IsNext(j, r[k].stars) /\ Target(r[k].id[1], j) \in Modules
           /\ short[k + 1] = <<Target(r[k].id[1], j), r[k].id[2]>>
      /\ work # {} => \E j \in 1..MaxRequests :
           /\ IsNext(j, goal.pending) /\ Target(goal.id[1], j) \in Modules
           /\ short[1] = <<Target(goal.id[1], j), goal.name>>
  <2>1. Len(r) = n - 1 /\ Len(r) + 1 = n
    BY <1>1
  <2> QED  BY <2>1 DEF Calls
<1>5. id[1] = Target(f.id[1], i) /\ id[2] = f.id[2]
  OBVIOUS
<1>6. Reached(id) /\ (Followed(f.id) => id \in NextIds(f.id))
  <2>1. Reached(f.id) /\ f.id \in Ids /\ f.id[1] \in settled \cup component /\ table[f.id] = Absent
        /\ HasStarWalk(f.id) /\ i \in StarExports(f.id[1])
    BY DEF FrameOK, Reached, IsNext
  <2>2. Reached(id)
    <3>1. f.id[1] \in Modules /\ f.id[2] \in Names
      BY <2>1 DEF Ids
    <3>2. <<f.id[1], id[1]>> \in edges
      BY <3>1 DEF GraphWhole
    <3>3. id \in Ids
      BY <3>1 DEF Ids
    <3> HIDE DEF id, f
    <3>4. id[1] \in Modules
      BY <3>3 DEF Ids
    <3> QED  BY <2>1, <3>2, <3>3, <3>4, ReachedOn DEF Reached
  <2>3. ASSUME Followed(f.id) PROVE id \in NextIds(f.id)
    <3>1. f.id \notin Explicit
      BY <2>1, <2>3, NotExplicit
    <3>2. <<i, f.id[2]>> \in Sources(f.id)
      BY <2>1, <3>1, WalkFacts DEF TypeInv
    <3> QED  BY <3>2 DEF NextIds
  <2> QED  BY <2>2, <2>3
<1>7. IsNext(i, f.stars) /\ id[1] \in Modules /\ FrameOK(f)
  OBVIOUS
<1> HIDE DEF short, line, r, f, n
<1>8. /\ n \in 1..n /\ 1 \in 1..n /\ \A k \in 1..(n - 1) : k \in 1..n /\ k + 1 \in 1..n /\ k < n
      /\ \A k \in 1..n : k \in 1..(n - 1) \/ k = n
      /\ \A k \in 1..(n + 1) : k \in 1..n \/ k = n + 1
      /\ \A k, l \in 1..n : k < l => k \in 1..(n - 1)
      /\ \A k \in 1..n : ~(n + 1 < k) /\ ~(n < k)
      /\ ~(n + 1 < n + 1)
  BY <1>1
<1>9. \A k \in 1..n : FrameOK(s[k]) /\ s[k].id[2] = id[2]
  BY <1>1, <1>4, <1>5, <1>7, <1>8
<1>10. \A k, l \in 1..n : k < l => s[k].id # s[l].id
  <2> SUFFICES ASSUME NEW k \in 1..n, NEW l \in 1..n, k < l PROVE s[k].id # s[l].id
    OBVIOUS
  <2>1. k \in 1..(n - 1)
    BY <1>8
  <2>2. CASE l = n
    BY <1>1, <2>1, <2>2 DEF f, n
  <2>3. CASE l # n
    <3>1. l \in 1..(n - 1)
      BY <1>8, <2>3
    <3> QED  BY <1>1, <1>4, <2>1, <3>1, ZenonT(60)
  <2> QED  BY <2>2, <2>3
<1>11. \A k, l \in 1..(n + 1) : k < l /\ Followed(line[k]) => line[l] \in Beyond(line[k])
  <2> SUFFICES ASSUME NEW k \in 1..(n + 1), NEW l \in 1..(n + 1), k < l, Followed(line[k])
               PROVE  line[l] \in Beyond(line[k])
    OBVIOUS
  <2>1. k \in 1..n
    BY <1>8
  <2>2. CASE l \in 1..n
    BY <1>3, <1>4, <2>1, <2>2
  <2>3. CASE l = n + 1
    <3>1. line[n] = f.id /\ f.id \in Ids /\ line[l] = id
      BY <1>1, <1>2, <1>7, <1>8, <2>3 DEF FrameOK, Reached
    <3>2. CASE k = n
      <4>1. Followed(f.id)
        BY <3>1, <3>2
      <4>2. id \in NextIds(f.id)
        BY <1>6, <4>1
      <4>3. id \in Beyond(f.id)
        BY <3>1, <4>2, FollowedOn DEF TypeInv
      <4> QED  BY <3>1, <3>2, <4>3
    <3>3. CASE k # n
      <4>1. k < n /\ k \in 1..(n - 1)
        BY <1>1, <1>8, <2>1, <3>3
      <4>2. f.id \in Beyond(line[k])
        BY <1>3, <1>4, <1>8, <2>1, <3>1, <4>1
      <4>3. line[k] \in Ids
        BY <1>2, <1>9, <2>1 DEF FrameOK, Reached
      <4>4. Followed(f.id) /\ Paths(f.id) \subseteq Beyond(line[k])
        BY <4>2, <4>3, FollowedOn, PathsUnfold DEF TypeInv
      <4>5. id \in NextIds(f.id)
        BY <1>6, <4>4
      <4>6. id \in Beyond(f.id) /\ Beyond(f.id) \subseteq Paths(f.id)
        BY <3>1, <4>5, FollowedOn, PathsUnfold DEF TypeInv
      <4> QED  BY <3>1, <4>4, <4>6
    <3> QED  BY <3>2, <3>3
  <2> QED  BY <1>8, <2>2, <2>3
<1>12. \A k \in 1..n : \E j \in 1..MaxRequests :
          /\ IsNext(j, s[k].stars) /\ Target(s[k].id[1], j) \in Modules
          /\ line[k + 1] = <<Target(s[k].id[1], j), s[k].id[2]>>
  <2> SUFFICES ASSUME NEW k \in 1..n
               PROVE  \E j \in 1..MaxRequests :
                        /\ IsNext(j, s[k].stars) /\ Target(s[k].id[1], j) \in Modules
                        /\ line[k + 1] = <<Target(s[k].id[1], j), s[k].id[2]>>
    OBVIOUS
  <2>1. CASE k = n
    BY <1>1, <1>2, <1>5, <1>7, <2>1
  <2>2. CASE k # n
    <3>1. k \in 1..(n - 1)
      BY <1>8, <2>2
    <3>2. PICK j \in 1..MaxRequests :
            /\ IsNext(j, r[k].stars) /\ Target(r[k].id[1], j) \in Modules
            /\ short[k + 1] = <<Target(r[k].id[1], j), r[k].id[2]>>
      BY <1>4, <3>1
    <3>3. r[k] = s[k] /\ short[k + 1] = line[k + 1]
      BY <1>1, <1>3, <1>8, <3>1
    <3> QED  BY <3>2, <3>3
  <2> QED  BY <2>1, <2>2
<1>13. work # {} => \E j \in 1..MaxRequests :
          /\ IsNext(j, goal.pending) /\ Target(goal.id[1], j) \in Modules
          /\ line[1] = <<Target(goal.id[1], j), goal.name>>
  BY <1>3, <1>4, <1>8
<1>14. Calls(id, s)
  BY <1>6, <1>9, <1>10, <1>11, <1>12, <1>13 DEF Calls, line, n
<1> QED  BY <1>14 DEF f

(* What is answered without a walk.                                        *)
LEMMA NoWalkRight ==
  program \in Programs =>
    \A id \in Ids :
      id \notin Explicit /\ ~HasStarWalk(id) =>
        /\ id[2] = Default => ~Leads(id) /\ Right(id, Absent)
        /\ id[2] # Default => Meaning(id) = {Unknown} /\ Right(id, Unknown)
<1> SUFFICES ASSUME program \in Programs, NEW id \in Ids, id \notin Explicit, ~HasStarWalk(id)
             PROVE  /\ id[2] = Default => ~Leads(id) /\ Right(id, Absent)
                    /\ id[2] # Default => Meaning(id) = {Unknown} /\ Right(id, Unknown)
  OBVIOUS
<1>1. Unknown \notin Identities /\ Absent \notin Identities
  BY LinkerConstants DEF Resolutions
<1>2. Sources(id) = {}
  BY DEF Sources, HasStarWalk, StarExports
<1>3. Meaning(id) = Itself(id) /\ NextIds(id) = {} /\ Ends(id) \subseteq Meaning(id)
  BY <1>2, MeaningSplits DEF NextIds
<1>4. ASSUME id[2] = Default PROVE ~Leads(id) /\ Right(id, Absent)
  <2>1. Itself(id) = {}
    BY <1>4 DEF Itself
  <2>2. ~Leads(id)
    BY <1>3, <2>1, FollowedOn
  <2> QED  BY <1>1, <2>2 DEF Right
<1>5. ASSUME id[2] # Default PROVE Meaning(id) = {Unknown} /\ Right(id, Unknown)
  <2>1. Itself(id) = {Unknown}
    BY <1>5 DEF Itself, HasStarWalk
  <2> QED  BY <1>1, <1>3, <2>1 DEF Right
<1> QED  BY <1>4, <1>5

(* No lookup that can be followed to a value is cut short.                 *)
LEMMA CutRight ==
  ASSUME TypeInv, GraphWhole, OrderInv, PresentInv, pc = "lookup", Calls(query, stack),
         Followed(query), table[query] = Absent, ~MayEnter(query)
  PROVE  Right(query, Absent)
<1>1. query \in Ids /\ stack \in Seq(Frames) /\ program \in Programs /\ Reached(query)
  BY DEF TypeInv, TypeOK, WaitInv, Calls
<1>2. query \notin Explicit
  BY <1>1, NotExplicit
<1>3. Absent \notin Identities
  BY LinkerConstants DEF Resolutions
<1>4. CASE ~HasStarWalk(query)
  BY <1>1, <1>2, <1>3, <1>4, NoWalkRight DEF Right
<1>5. CASE HasStarWalk(query) /\ ~(DepthSuffices /\ Leads(query))
  BY <1>3, <1>5 DEF Right
<1>6. CASE HasStarWalk(query) /\ DepthSuffices /\ Leads(query)
  <2> DEFINE n == Len(stack)
             line == Line(stack, query)
             B == {m \in Modules : StarExports(m) # {}}
             f == [k \in 1..(n + 1) |-> line[k][1]]
  <2>1. /\ n \in Nat /\ line[n + 1] = query
        /\ \A k \in 1..n : line[k] = stack[k].id
    BY <1>1, LineOf
  <2>2. /\ \A k \in 1..n : FrameOK(stack[k]) /\ stack[k].id[2] = query[2]
        /\ \A k, l \in 1..n : k < l => stack[k].id # stack[l].id
        /\ \A k, l \in 1..(n + 1) : k < l /\ Followed(line[k]) => line[l] \in Beyond(line[k])
        /\ \A k \in 1..n : \E i \in 1..MaxRequests : IsNext(i, stack[k].stars)
    BY DEF Calls
  <2> HIDE DEF n, line, B
  <2>3. /\ \A k \in 1..n : k \in 1..(n + 1) /\ k < n + 1
        /\ \A k \in 1..(n + 1) : k \in 1..n \/ k = n + 1
        /\ n + 1 \in 1..(n + 1)
    BY <2>1
  <2>4. \A k \in 1..n : line[k] # query
    <3> SUFFICES ASSUME NEW k \in 1..n, line[k] = query PROVE FALSE
      OBVIOUS
    <3>1. query \in Beyond(query)
      BY <2>1, <2>2, <2>3
    <3> QED  BY <1>1, <3>1, NoReturn
  <2>5. \A k \in 1..(n + 1) : line[k] \in Ids /\ line[k][2] = query[2] /\ line[k][1] \in B
    <3>1. query[1] \in B
      <4>1. query[1] \in Modules
        BY <1>1 DEF Ids
      <4>2. StarExports(query[1]) # {}
        BY <1>1, <1>2, <1>6, WalkFacts
      <4> QED  BY <4>1, <4>2 DEF B
    <3>2. ASSUME NEW k \in 1..n
          PROVE  line[k] \in Ids /\ line[k][2] = query[2] /\ line[k][1] \in B
      <4>1. FrameOK(stack[k]) /\ line[k] = stack[k].id
        BY <2>1, <2>2
      <4>2. stack[k].id \in Ids /\ stack[k].id[1] \in Modules
        BY <4>1 DEF FrameOK, Reached, Ids
      <4>3. StarExports(stack[k].id[1]) # {}
        BY <2>2, <4>1 DEF FrameOK, IsNext
      <4> QED  BY <2>2, <4>1, <4>2, <4>3 DEF B
    <3> QED  BY <1>1, <2>1, <2>3, <3>1, <3>2
  <2>6. \A k, l \in 1..(n + 1) : k < l => line[k] # line[l]
    <3> SUFFICES ASSUME NEW k \in 1..(n + 1), NEW l \in 1..(n + 1), k < l PROVE line[k] # line[l]
      OBVIOUS
    <3>1. k \in 1..n
      BY <2>1
    <3>2. CASE l \in 1..n
      BY <2>1, <2>2, <3>1, <3>2
    <3>3. CASE l = n + 1
      BY <2>1, <2>4, <3>1, <3>3
    <3> QED  BY <2>3, <3>2, <3>3
  <2>7. \A k, l \in 1..(n + 1) : f[k] = f[l] => k = l
    <3> SUFFICES ASSUME NEW k \in 1..(n + 1), NEW l \in 1..(n + 1), f[k] = f[l], k # l PROVE FALSE
      OBVIOUS
    <3>1. line[k] \in Modules \X Names /\ line[l] \in Modules \X Names
          /\ line[k][1] = line[l][1] /\ line[k][2] = line[l][2]
      BY <2>5 DEF Ids
    <3>2. line[k] = line[l]
      BY <3>1
    <3>3. k < l \/ l < k
      BY <2>1
    <3> QED  BY <2>6, <3>2, <3>3
  <2>8. f \in Injection(1..(n + 1), B)
    <3>1. f \in [1..(n + 1) -> B]
      BY <2>5
    <3> HIDE DEF f
    <3> QED  BY <2>7, <3>1 DEF Injection, IsInjective
  <2>9. IsFiniteSet(B) /\ Cardinality(B) \in Nat
    <3>1. B \subseteq Modules
      BY DEF B
    <3> QED  BY <3>1, LinkerConstants, FS_Subset, FS_CardinalityType
  <2>10. Cardinality(1..(n + 1)) = n + 1
    <3>1. \A k \in Nat : Cardinality(1..k) = k
      BY FS_Interval
    <3> QED  BY <2>1, <3>1
  <2>11. Cardinality(1..(n + 1)) <= Cardinality(B)
    <3> HIDE DEF f
    <3> QED  BY <2>8, <2>9, FS_Injection
  <2>12. Cardinality(B) <= MaxExportDepth
    BY <1>6 DEF DepthSuffices, B
  <2>13. n < MaxExportDepth
    BY <2>1, <2>9, <2>10, <2>11, <2>12, LinkerConstants
  <2>14. query \notin Visiting
    <3>1. DOMAIN stack = 1..n
      BY <1>1 DEF n
    <3> QED  BY <2>1, <2>4, <3>1 DEF Visiting
  <2> QED  BY <2>13, <2>14 DEF MayEnter, n
<1> QED  BY <1>4, <1>5, <1>6

----------------------------------------------------------------------------
(* What is right stays right, as long as the program and its graph do.     *)
LEMMA StaticRight ==
  program \in Programs /\ UNCHANGED <<program, edges, components>> =>
    /\ \A m : InNoCycle(m)' = InNoCycle(m)
    /\ \A id \in Ids : \A a : Right(id, a)' = Right(id, a)
    /\ \A f \in Frames : FrameRight(f)' = FrameRight(f)
    /\ \A g \in Goals : g.id \in Ids /\ g.id \in Explicit => GoalRight(g)' = GoalRight(g)
<1> SUFFICES ASSUME program \in Programs, UNCHANGED <<program, edges, components>>
             PROVE  /\ \A m : InNoCycle(m)' = InNoCycle(m)
                    /\ \A id \in Ids : \A a : Right(id, a)' = Right(id, a)
                    /\ \A f \in Frames : FrameRight(f)' = FrameRight(f)
                    /\ \A g \in Goals :
                         g.id \in Ids /\ g.id \in Explicit => GoalRight(g)' = GoalRight(g)
  OBVIOUS
<1>1. \A id \in Ids :
        /\ Meaning(id)' = Meaning(id) /\ Leads(id)' = Leads(id) /\ Followed(id)' = Followed(id)
        /\ \A i : \A n \in Names : Brings(id, <<i, n>>)' = Brings(id, <<i, n>>)
  BY StaticPaths
<1>2. /\ DepthSuffices' = DepthSuffices
      /\ \A m : StarExports(m)' = StarExports(m)
      /\ \A id : GoalOf(id)' = GoalOf(id)
  BY StaticInput
<1>3. \A m : InNoCycle(m)' = InNoCycle(m)
  BY DEF InNoCycle
<1>4. \A id \in Ids : \A a : Right(id, a)' = Right(id, a)
  BY <1>1, <1>2 DEF Right
<1>5. ASSUME NEW f \in Frames PROVE FrameRight(f)' = FrameRight(f)
  <2>1. f.id \in Ids /\ f.id[2] \in Names
    BY DEF Frames, Ids
  <2>2. /\ Meaning(f.id)' = Meaning(f.id) /\ Leads(f.id)' = Leads(f.id)
        /\ Followed(f.id)' = Followed(f.id) /\ StarExports(f.id[1])' = StarExports(f.id[1])
        /\ \A i : Brings(f.id, <<i, f.id[2]>>)' = Brings(f.id, <<i, f.id[2]>>)
    BY <1>1, <1>2, <2>1
  <2> QED  BY <1>2, <2>2 DEF FrameRight
<1>6. ASSUME NEW g \in Goals, g.id \in Ids, g.id \in Explicit PROVE GoalRight(g)' = GoalRight(g)
  <2>1. GoalOf(g.id).pending # {} => GoalOf(g.id).name \in Names
    BY <1>6, GoalShape
  <2>2. /\ Meaning(g.id)' = Meaning(g.id) /\ Leads(g.id)' = Leads(g.id)
        /\ Followed(g.id)' = Followed(g.id) /\ GoalOf(g.id)' = GoalOf(g.id)
        /\ \A i \in GoalOf(g.id).pending :
             Brings(g.id, <<i, GoalOf(g.id).name>>)' = Brings(g.id, <<i, GoalOf(g.id).name>>)
    BY <1>1, <1>2, <1>6, <2>1
  <2> QED  BY <1>2, <2>2 DEF GoalRight
<1> QED  BY <1>3, <1>4, <1>5, <1>6

LEMMA StaticCalls ==
  ASSUME program \in Programs,
         UNCHANGED <<program, edges, components, settled, component, table>>
  PROVE  /\ \A f \in Frames : FrameOK(f)' = FrameOK(f)
         /\ \A id : Reached(id)' = Reached(id)
         /\ UNCHANGED goal /\ (work' = {} <=> work = {}) =>
              \A id \in Ids, s \in Seq(Frames) : Calls(id, s)' = Calls(id, s)
<1>1. \A id : Reached(id)' = Reached(id)
  BY StaticRight DEF Reached
<1>2. ASSUME NEW f \in Frames PROVE FrameOK(f)' = FrameOK(f)
  <2>1. /\ Reached(f.id)' = Reached(f.id) /\ HasStarWalk(f.id)' = HasStarWalk(f.id)
        /\ StarExports(f.id[1])' = StarExports(f.id[1])
        /\ FrameRight(f)' = FrameRight(f)
    BY <1>1, StaticInput, StaticRight
  <2> QED  BY <2>1 DEF FrameOK
<1>3. ASSUME UNCHANGED goal, work' = {} <=> work = {}, NEW id \in Ids, NEW s \in Seq(Frames)
      PROVE  Calls(id, s)' = Calls(id, s)
  <2> DEFINE line == Line(s, id)
  <2>1. /\ \A k \in 1..Len(s) : s[k] \in Frames /\ line[k] = s[k].id
        /\ line[Len(s) + 1] = id
    BY LineOf
  <2>2. \A k \in 1..(Len(s) + 1) : line[k] \in Ids
    <3> HIDE DEF line
    <3>1. \A k \in 1..Len(s) : s[k].id \in Ids
      BY <2>1 DEF Frames
    <3>2. \A k \in 1..(Len(s) + 1) : k \in 1..Len(s) \/ k = Len(s) + 1
      OBVIOUS
    <3> QED  BY <2>1, <3>1, <3>2
  <2>3. \A k \in 1..Len(s) : FrameOK(s[k])' = FrameOK(s[k])
    BY <1>2, <2>1
  <2>4. \A k \in 1..(Len(s) + 1) : Followed(line[k])' = Followed(line[k]) /\ Beyond(line[k])' = Beyond(line[k])
    <3> HIDE DEF line
    <3> QED  BY <2>2, StaticPaths
  <2>5. \A m, i : Target(m, i)' = Target(m, i)
    BY StaticInput
  <2> HIDE DEF line
  <2>6. Calls(id, s)
          = (/\ Reached(id)
             /\ \A k \in 1..Len(s) : FrameOK(s[k]) /\ s[k].id[2] = id[2]
             /\ \A k, l \in 1..Len(s) : k < l => s[k].id # s[l].id
             /\ \A k, l \in 1..(Len(s) + 1) : k < l /\ Followed(line[k]) => line[l] \in Beyond(line[k])
             /\ \A k \in 1..Len(s) : \E i \in 1..MaxRequests :
                  /\ IsNext(i, s[k].stars)
                  /\ Target(s[k].id[1], i) \in Modules
                  /\ line[k + 1] = <<Target(s[k].id[1], i), s[k].id[2]>>
             /\ work # {} => \E i \in 1..MaxRequests :
                  /\ IsNext(i, goal.pending)
                  /\ Target(goal.id[1], i) \in Modules
                  /\ line[1] = <<Target(goal.id[1], i), goal.name>>)
    BY DEF Calls, line
  <2>7. Calls(id, s)'
          = (/\ Reached(id)'
             /\ \A k \in 1..Len(s) : FrameOK(s[k])' /\ s[k].id[2] = id[2]
             /\ \A k, l \in 1..Len(s) : k < l => s[k].id # s[l].id
             /\ \A k, l \in 1..(Len(s) + 1) : k < l /\ Followed(line[k])' => line[l] \in Beyond(line[k])'
             /\ \A k \in 1..Len(s) : \E i \in 1..MaxRequests :
                  /\ IsNext(i, s[k].stars)
                  /\ Target(s[k].id[1], i)' \in Modules
                  /\ line[k + 1] = <<Target(s[k].id[1], i)', s[k].id[2]>>
             /\ work' # {} => \E i \in 1..MaxRequests :
                  /\ IsNext(i, goal'.pending)
                  /\ Target(goal.id[1], i)' \in Modules
                  /\ line[1] = <<Target(goal.id[1], i)', goal'.name>>)
    BY DEF Calls, line
  <2> QED  BY <1>1, <1>3, <2>3, <2>4, <2>5, <2>6, <2>7
<1> QED  BY <1>1, <1>2, <1>3

----------------------------------------------------------------------------
(* What a step leaves as it is, when it leaves the graph alone.            *)
LEMMA Unmoved ==
  ASSUME TypeInv, LinkInv, UNCHANGED <<program, edges, components>>
  PROVE  /\ GraphWhole' /\ Explicit' = Explicit
         /\ \A c : ExportsOf(c)' = ExportsOf(c)
         /\ \A id \in Ids : \A a : Right(id, a)' = Right(id, a)
         /\ \A id \in Ids : Followed(id)' = Followed(id)
         /\ UNCHANGED settled =>
              SettledMeans' /\ \A c : DependenciesSettled(c)' = DependenciesSettled(c)
<1>1. program \in Programs /\ edges \in SUBSET (Modules \X Modules)
  BY DEF TypeInv, TypeOK
<1>2. /\ Explicit' = Explicit /\ \A m, i : Target(m, i)' = Target(m, i)
  BY StaticInput
<1>3. /\ \A id \in Ids : /\ Followed(id)' = Followed(id) /\ Leads(id)' = Leads(id)
                         /\ Meaning(id)' = Meaning(id)
      /\ \A id \in Ids : \A a : Right(id, a)' = Right(id, a)
  BY <1>1, StaticPaths, StaticRight
<1>4. StronglyConnected(edges)' = StronglyConnected(edges)
  BY DEF StronglyConnected, Reachable
<1>5. GraphWhole'
  BY <1>2, <1>4 DEF GraphWhole, LinkInv
<1>6. UNCHANGED settled => SettledMeans'
  BY <1>3 DEF SettledMeans, LinkInv
<1>7. UNCHANGED settled => \A c : DependenciesSettled(c)' = DependenciesSettled(c)
  BY DEF DependenciesSettled
<1>8. \A c : ExportsOf(c)' = ExportsOf(c)
  BY <1>2 DEF ExportsOf
<1> QED  BY <1>2, <1>3, <1>5, <1>6, <1>7, <1>8

(* The resolution under way stays right while it waits.                    *)
LEMMA GoalKept ==
  ASSUME TypeInv, LinkInv, UNCHANGED <<program, edges, components, goal, work>>,
         pc \in {"request", "lookup", "star"}, pc' \in {"request", "lookup", "star"},
         pc' = "request" => pc = "request" \/ work # {}
  PROVE  GoalInv'
<1>1. program \in Programs /\ goal \in Goals /\ work \subseteq Explicit /\ work \subseteq Ids
  BY DEF TypeInv, TypeOK
<1>2. pc = "request" \/ work # {} => goal.id \in work /\ GoalRight(goal)
  BY DEF GoalInv, LinkInv, Looking
<1>3. goal.id \in work /\ GoalRight(goal) => GoalRight(goal)'
  BY <1>1, StaticRight
<1> QED  BY <1>2, <1>3 DEF GoalInv, Looking

(* The innermost walk goes on.                                             *)
LEMMA WalkKept ==
  ASSUME TypeInv, UNCHANGED <<program, edges, components, settled, component, table, goal, work>>,
         NEW s \in Seq(Frames), s # <<>>, NEW g \in Frames, g.id = Last(s).id, FrameOK(g),
         Calls(g.id, Front(s)), \A k \in 1..(Len(s) - 1) : s[k].id # g.id,
         stack' = [s EXCEPT ![Len(s)] = g], pc' = "star"
  PROVE  CallInv'
<1> DEFINE t == [s EXCEPT ![Len(s)] = g]
<1>1. t # <<>> /\ Last(t) = g /\ Front(t) = Front(s) /\ Len(t) = Len(s) /\ t \in Seq(Frames)
  BY StackChanges
<1>2. \A k \in 1..(Len(t) - 1) : t[k].id # g.id
  <2>1. \A k \in 1..(Len(s) - 1) : t[k] = s[k]
    OBVIOUS
  <2> QED  BY <1>1, <2>1
<1> HIDE DEF t
<1>3. FrameOK(g)' /\ Calls(g.id, Front(t))'
  <2>1. Front(t) \in Seq(Frames) /\ g.id \in Ids /\ program \in Programs
    BY <1>1, StackParts DEF Frames, TypeInv
  <2>2. UNCHANGED goal /\ (work' = {} <=> work = {})
    OBVIOUS
  <2> QED  BY <1>1, <2>1, <2>2, StaticCalls
<1>4. stack' = t
  BY DEF t
<1> QED  BY <1>1, <1>2, <1>3, <1>4 DEF CallInv, Looking

(* Handing on an answer that is right keeps everything right.              *)
LEMMA DeliverKeeps ==
  ASSUME TypeInv, LinkInv, pc \in {"lookup", "star"},
         NEW a \in Answers, NEW callers \in Seq(Frames), NEW id \in Ids, Calls(id, callers),
         Followed(id) => Right(id, a),
         Deliver(a, callers), UNCHANGED unchangedByLookup,
         \A j \in Ids : Followed(j) /\ cache'[j] # Miss => Right(j, cache'[j])
  PROVE  LinkInv'
<1>1. /\ program' = program /\ edges' = edges /\ components' = components /\ settled' = settled
      /\ component' = component /\ work' = work /\ table' = table
  BY DEF unchangedByLookup, graphVars, passVars
<1>2. /\ program \in Programs /\ goal \in Goals /\ work \subseteq Explicit /\ work \subseteq Ids
      /\ Looking /\ pc # "component"
  BY DEF TypeInv, TypeOK, Looking
<1>3. /\ GraphWhole' /\ SettledMeans' /\ Explicit' = Explicit
      /\ \A c : DependenciesSettled(c)' = DependenciesSettled(c)
      /\ \A c : ExportsOf(c)' = ExportsOf(c)
      /\ \A j \in Ids : \A b : Right(j, b)' = Right(j, b)
      /\ \A j \in Ids : Followed(j)' = Followed(j)
  BY <1>1, Unmoved
<1>4. GraphWhole /\ OrderInv /\ PresentInv /\ CallInv /\ GoalInv /\ AnswersRight /\ SettledMeans
  BY DEF LinkInv
<1>5. PresentInv'
  BY <1>1, <1>3, <1>4 DEF PresentInv
<1>6. AnswersRight'
  BY <1>1, <1>3, <1>4 DEF AnswersRight
<1>7. pc' \in {"star", "request", "check"} /\ (pc' = "request" => work # {}) /\ (pc' = "check" => work = {})
  BY DEF Deliver
<1>8. OrderInv'
  <2>1. InPass' <=> InPass
    BY <1>1, <1>2, <1>7 DEF InPass, Looking
  <2>2. /\ component' \in components' \cup {{}} /\ DependenciesSettled(component)'
        /\ DependenciesSettled(settled)' /\ work' \subseteq ExportsOf(component)'
    BY <1>1, <1>3, <1>4 DEF OrderInv
  <2> QED  BY <1>1, <1>2, <1>4, <1>7, <2>1, <2>2 DEF OrderInv
<1>9. CASE callers # <<>> /\ stack' = [callers EXCEPT ![Len(callers)] = WithContribution(@, a)]
           /\ pc' = "star" /\ UNCHANGED <<goal, validation>>
  <2> DEFINE f == Last(callers)
             g == WithContribution(f, a)
             t == [callers EXCEPT ![Len(callers)] = g]
  <2>1. Calls(f.id, Front(callers)) /\ FrameOK(f)
        /\ \A k \in 1..(Len(callers) - 1) : callers[k].id # f.id
    BY <1>9, CallReturns
  <2>2. PICK i \in 1..MaxRequests :
          IsNext(i, f.stars) /\ Target(f.id[1], i) \in Modules /\ id = <<Target(f.id[1], i), f.id[2]>>
    BY <1>9, CallReturns
  <2>3. f \in Frames /\ f = callers[Len(callers)] /\ Front(callers) \in Seq(Frames)
    BY <1>9, StackParts
  <2>4. stack' = t /\ g \in Frames /\ g.id = f.id
    BY <1>9, <2>3, AnswerTypes
  <2>5. f.id \in Ids /\ Reached(f.id) /\ table[f.id] = Absent /\ HasStarWalk(f.id)
        /\ f.stars \subseteq StarExports(f.id[1]) /\ FrameRight(f)
    BY <2>1 DEF FrameOK, Reached
  <2>6. ASSUME Followed(f.id) PROVE Fits(f.id, <<i, f.id[2]>>, a)
    <3>1. f.id \notin Explicit /\ f.id[1] \in settled
      BY <1>4, <2>5, <2>6, NotExplicit
    <3>2. Sources(f.id) = StarExports(f.id[1]) \X {f.id[2]} /\ i \in StarExports(f.id[1])
      BY <1>2, <2>2, <2>5, <3>1, WalkFacts DEF IsNext
    <3>3. <<i, f.id[2]>> \in Sources(f.id)
      BY <3>2
    <3>4. id \in NextIds(f.id)
      BY <2>2, <3>3 DEF NextIds
    <3>5. Followed(id)
      BY <1>2, <2>5, <2>6, <3>4, FollowedOn
    <3>6. id[1] \in settled
      <4>1. id[1] \in Modules
        BY DEF Ids
      <4> QED  BY <1>4, <2>2, <2>5, <3>1, <3>3, <3>5, ReachedOn, FollowedOn DEF Reached, TypeInv
    <3> HIDE DEF f
    <3>7. Right(id, a) /\ id[1] = Target(f.id[1], i)
      BY <2>2, <3>5
    <3> DEFINE s == <<i, f.id[2]>>
    <3>8. s \in Sources(f.id) /\ s[1] = i /\ s[2] = f.id[2]
      BY <3>3
    <3> HIDE DEF s
    <3>9. Target(f.id[1], s[1]) \in Modules /\ Target(f.id[1], s[1]) \in settled
          /\ id = <<Target(f.id[1], s[1]), s[2]>>
      BY <2>2, <3>6, <3>7, <3>8
    <3> QED  BY <1>2, <1>4, <2>5, <2>6, <3>7, <3>8, <3>9, LookupFits DEF s
  <2> HIDE DEF f
  <2>7. FrameRight(g) /\ g.stars \subseteq StarExports(f.id[1])
    BY <1>2, <2>2, <2>3, <2>5, <2>6, ContributionRight
  <2> HIDE DEF g
  <2>8. FrameOK(g) /\ Calls(g.id, Front(callers)) /\ g.id = f.id
    BY <2>1, <2>4, <2>5, <2>7 DEF FrameOK
  <2>9. g.id = Last(callers).id /\ \A k \in 1..(Len(callers) - 1) : callers[k].id # g.id
    BY <2>1, <2>4 DEF f
  <2>10. CallInv'
    BY <1>1, <1>9, <2>4, <2>8, <2>9, WalkKept
  <2>11. GoalInv'
    BY <1>1, <1>2, <1>9, GoalKept
  <2> QED  BY <1>3, <1>5, <1>6, <1>8, <2>10, <2>11 DEF LinkInv
<1>10. CASE callers = <<>> /\ work # {} /\ stack' = <<>> /\ goal' = WithAnswer(goal, a)
            /\ pc' = "request" /\ UNCHANGED validation
  <2> DEFINE s == <<>>
             h == WithAnswer(goal, a)
  <2>1. goal.id \in work /\ GoalRight(goal) /\ goal.id \in Ids /\ goal.id \in Explicit
    BY <1>2, <1>4, <1>10 DEF GoalInv
  <2>2. PICK i \in 1..MaxRequests :
          IsNext(i, goal.pending) /\ Target(goal.id[1], i) \in Modules
          /\ id = <<Target(goal.id[1], i), goal.name>>
    BY <1>10 DEF Calls, Line
  <2>3. h \in Goals /\ h.id = goal.id
    BY <1>2, AnswerTypes
  <2>4. /\ Sources(goal.id) = GoalOf(goal.id).pending \X {GoalOf(goal.id).name}
        /\ ~AliasOfModule(goal.id) =>
             \A k \in GoalOf(goal.id).pending :
               Target(goal.id[1], k) \in Modules => GoalOf(goal.id).fallback = Unknown
    BY <1>2, <2>1, GoalShape
  <2>5. /\ goal.name = GoalOf(goal.id).name /\ goal.fallback = GoalOf(goal.id).fallback
        /\ i \in GoalOf(goal.id).pending
    BY <2>1, <2>2 DEF GoalRight, IsNext
  <2>6. ASSUME Followed(goal.id)
        PROVE  Fits(goal.id, <<i, goal.name>>, a) /\ goal.fallback = Unknown
    <3>1. goal.fallback = Unknown
      BY <1>2, <2>1, <2>2, <2>4, <2>5, <2>6, FollowedOn
    <3>2. <<i, goal.name>> \in Sources(goal.id)
      BY <2>4, <2>5
    <3>3. id \in NextIds(goal.id)
      BY <2>2, <3>2 DEF NextIds
    <3>4. Followed(id)
      BY <1>2, <2>1, <2>6, <3>3, FollowedOn
    <3>5. id[1] \in settled
      BY <1>2, <3>4, FollowedOn DEF Calls, Reached
    <3> DEFINE r == <<i, goal.name>>
    <3>6. r \in Sources(goal.id) /\ r[1] = i /\ r[2] = goal.name
      BY <3>2
    <3> HIDE DEF r
    <3>7. Target(goal.id[1], r[1]) \in Modules /\ Target(goal.id[1], r[1]) \in settled
          /\ id = <<Target(goal.id[1], r[1]), r[2]>> /\ Right(id, a)
      BY <2>2, <3>4, <3>5, <3>6
    <3>8. Fits(goal.id, r, a)
      BY <1>2, <1>4, <2>1, <2>6, <3>6, <3>7, LookupFits
    <3> QED  BY <3>1, <3>8 DEF r
  <2>7. GoalRight(h)
    BY <1>2, <2>1, <2>2, <2>6, AnswerRight
  <2> HIDE DEF h
  <2>8. goal' = h
    BY <1>10 DEF h
  <2>9. GoalRight(goal)'
    <3>1. \A k \in Goals : k.id = goal.id /\ GoalRight(k) => GoalRight(k)'
      BY <1>1, <1>2, <2>1, StaticRight
    <3> QED  BY <2>3, <2>7, <2>8, <3>1
  <2>10. GoalInv'
    BY <1>1, <1>10, <2>1, <2>3, <2>8, <2>9 DEF GoalInv, Looking
  <2>11. CallInv'
    BY <1>10 DEF CallInv, Looking
  <2> QED  BY <1>3, <1>5, <1>6, <1>8, <2>10, <2>11 DEF LinkInv
<1>11. CASE callers = <<>> /\ work = {} /\ stack' = <<>> /\ pc' = "check"
  <2>1. CallInv' /\ GoalInv'
    BY <1>1, <1>11 DEF CallInv, GoalInv, Looking
  <2> QED  BY <1>3, <1>5, <1>6, <1>8, <2>1 DEF LinkInv
<1> QED  BY <1>9, <1>10, <1>11 DEF Deliver

----------------------------------------------------------------------------
(* The steps of the linker.                                                *)
LEMMA GraphStep ==
  ASSUME TypeInv, StartInv, CollectEdges, ~exhausted' PROVE LinkInv'
<1>1. /\ pc = "graph" /\ pc' = "component" /\ edges' = RetainedEdges
      /\ components' = StronglyConnected(edges')
      /\ Cardinality(InternalRequests) <= program.linkLimit
      /\ UNCHANGED <<program, passVars, goal, query, stack, table, cache, validation>>
  <2>1. /\ pc = "graph" /\ edges' = RetainedEdges /\ components' = StronglyConnected(edges')
        /\ ~(Cardinality(InternalRequests) > program.linkLimit) /\ pc' = "component"
        /\ UNCHANGED <<program, passVars, goal, query, stack, table, cache, validation>>
    BY DEF CollectEdges
  <2>2. Cardinality(InternalRequests) \in Nat /\ program.linkLimit \in Nat
    <3>1. IsFiniteSet(Modules \X (1..MaxRequests))
      <4>1. IsFiniteSet(1..MaxRequests)
        BY LinkerConstants, FS_Interval
      <4> QED  BY <4>1, LinkerConstants, FS_Product
    <3> QED  BY <3>1, FS_Subset, FS_CardinalityType, InputShape DEF InternalRequests, TypeInv
  <2> QED  BY <2>1, <2>2
<1>2. /\ settled' = {} /\ component' = {} /\ work' = {} /\ stack' = <<>>
      /\ table' = [id \in Ids |-> Absent] /\ cache' = [id \in Ids |-> Miss]
  BY <1>1 DEF StartInv, passVars
<1>3. ASSUME NEW m \in Modules, NEW i \in 1..MaxRequests, Target(m, i) \in Modules
      PROVE  <<m, Target(m, i)>> \in RetainedEdges
  <2> DEFINE r == <<m, i>>
             B == {q \in InternalRequests : Precedes(q, r)}
  <2>1. r \in InternalRequests /\ r[1] = m /\ r[2] = i
    BY <1>3 DEF InternalRequests
  <2>2. r \notin B
    BY <2>1, LinkerConstants DEF Precedes
  <2>3. IsFiniteSet(InternalRequests)
    <3>1. IsFiniteSet(Modules \X (1..MaxRequests))
      <4>1. IsFiniteSet(1..MaxRequests)
        BY LinkerConstants, FS_Interval
      <4> QED  BY <4>1, LinkerConstants, FS_Product
    <3> QED  BY <3>1, FS_Subset DEF InternalRequests
  <2>4. B \subseteq InternalRequests /\ B # InternalRequests
    BY <2>1, <2>2
  <2>5. Cardinality(B) < Cardinality(InternalRequests)
        /\ Cardinality(B) \in Nat /\ Cardinality(InternalRequests) \in Nat
    <3> HIDE DEF B
    <3> QED  BY <2>3, <2>4, FS_Subset, FS_CardinalityType
  <2>6. Cardinality(B) < program.linkLimit
    <3>1. program.linkLimit \in Nat
      BY InputShape DEF TypeInv
    <3> HIDE DEF B
    <3> QED  BY <1>1, <2>5, <3>1
  <2>7. r \in {q \in InternalRequests : Cardinality({s \in InternalRequests : Precedes(s, q)}) < program.linkLimit}
    BY <2>1, <2>6
  <2> QED  BY <2>1, <2>7 DEF RetainedEdges
<1>4. GraphWhole'
  <2>1. \A m, i : Target(m, i)' = Target(m, i)
    BY <1>1, StaticInput
  <2>2. edges' \subseteq Modules \X Modules
    BY <1>1, EdgeTypes
  <2>3. components' = StronglyConnected(edges)'
    BY <1>1 DEF StronglyConnected, Reachable
  <2> QED  BY <1>1, <1>3, <2>1, <2>2, <2>3 DEF GraphWhole
<1>5. OrderInv'
  BY <1>1, <1>2 DEF OrderInv, DependenciesSettled, InPass, Looking
<1>6. PresentInv' /\ SettledMeans'
  BY <1>2 DEF PresentInv, SettledMeans
<1>7. CallInv' /\ GoalInv'
  BY <1>1, <1>2 DEF CallInv, GoalInv, Looking
<1>8. AnswersRight'
  BY <1>2 DEF AnswersRight
<1> QED  BY <1>4, <1>5, <1>6, <1>7, <1>8 DEF LinkInv

(* A step that changes neither the answers nor the graph.                  *)
LEMMA AnswersKept ==
  ASSUME TypeInv, LinkInv, UNCHANGED <<program, edges, components, table, cache>>
  PROVE  AnswersRight'
BY Unmoved DEF AnswersRight, LinkInv

LEMMA StartStep ==
  ASSUME TypeInv, LinkInv, NEW c \in components, StartComponent(c) PROVE LinkInv'
<1>1. /\ pc = "component" /\ pc' = "export" /\ c \cap settled = {} /\ DependenciesSettled(c)
      /\ component' = c /\ work' = ExportsOf(c)
      /\ UNCHANGED <<program, edges, components, settled, goal, query, stack, table, cache>>
  BY DEF StartComponent, graphVars
<1>2. /\ GraphWhole' /\ SettledMeans' /\ Explicit' = Explicit
      /\ \A d : DependenciesSettled(d)' = DependenciesSettled(d)
      /\ \A d : ExportsOf(d)' = ExportsOf(d)
  BY <1>1, Unmoved
<1>3. OrderInv /\ PresentInv /\ CallInv /\ work = {} /\ stack = <<>>
  BY <1>1 DEF LinkInv, CallInv, Looking, TypeInv, WaitInv
<1>4. OrderInv'
  BY <1>1, <1>2, <1>3 DEF OrderInv, InPass, Looking
<1>5. PresentInv'
  BY <1>1, <1>2, <1>3 DEF PresentInv, ExportsOf
<1>6. CallInv' /\ GoalInv'
  BY <1>1, <1>3 DEF CallInv, GoalInv, Looking
<1> QED  BY <1>1, <1>2, <1>4, <1>5, <1>6, AnswersKept DEF LinkInv

(* Steps within a pass that leave what is in the table alone.              *)
LEMMA PassKept ==
  ASSUME TypeInv, LinkInv,
         UNCHANGED <<program, edges, components, settled, component, work, table, cache>>,
         InPass' <=> InPass, pc # "component", pc' # "component"
  PROVE  GraphWhole' /\ OrderInv' /\ PresentInv' /\ AnswersRight' /\ SettledMeans'
<1>1. /\ GraphWhole' /\ SettledMeans' /\ Explicit' = Explicit
      /\ \A d : DependenciesSettled(d)' = DependenciesSettled(d)
      /\ \A d : ExportsOf(d)' = ExportsOf(d)
  BY Unmoved
<1>2. OrderInv /\ PresentInv
  BY DEF LinkInv
<1>3. OrderInv'
  BY <1>1, <1>2 DEF OrderInv
<1>4. PresentInv'
  BY <1>1, <1>2 DEF PresentInv
<1> QED  BY <1>1, <1>3, <1>4, AnswersKept

(* A resolution begins with nothing weighed.                               *)
LEMMA GoalOpens ==
  program \in Programs => \A id \in Ids : id \in Explicit => GoalRight(GoalOf(id))
<1> SUFFICES ASSUME program \in Programs, NEW id \in Ids, id \in Explicit PROVE GoalRight(GoalOf(id))
  OBVIOUS
<1> DEFINE g == GoalOf(id)
<1>1. g.id = id /\ GoalOf(g.id) = g
  BY GoalShape
<1>2. /\ g.pending # {} => g.value = Absent
      /\ g.pending = {} => g.value \in Identities \cup {Unknown} /\ g.value # Absent
  BY GoalShape, LinkerConstants DEF Resolutions
<1>3. Absent \notin Identities
  BY LinkerConstants DEF Resolutions
<1>4. g.pending = {} => g.value \in Meaning(id)
  BY MeaningSplits DEF Itself
<1> HIDE DEF g
<1>5. /\ g.pending \subseteq g.pending
      /\ g.value = Absent => g.pending # {}
      /\ g.value \in Identities => \A i \in g.pending \ g.pending : Brings(g.id, <<i, g.name>>) = {g.value}
      /\ \A v \in Meaning(g.id) : Meaning(g.id) = {v} => g.value \in {Absent, v}
  BY <1>1, <1>2, <1>4
<1>6. GoalRight(g)
  BY <1>1, <1>5 DEF GoalRight
<1> QED  BY <1>6 DEF g

LEMMA OpenStep ==
  ASSUME TypeInv, LinkInv, NEW id \in work, OpenExport(id) PROVE LinkInv'
<1>1. /\ pc = "export" /\ pc' = "request" /\ goal' = GoalOf(id)
      /\ UNCHANGED <<program, edges, components, settled, component, work, stack, table, cache>>
  BY DEF OpenExport, graphVars, passVars
<1>2. program \in Programs /\ id \in Ids /\ id \in Explicit /\ stack = <<>>
  BY <1>1 DEF TypeInv, TypeOK, LinkInv, CallInv, Looking
<1>3. GoalOf(id) \in Goals /\ GoalOf(id).id = id /\ GoalRight(GoalOf(id))
  BY <1>2, GoalShape, GoalOpens
<1>4. GoalRight(goal)'
  <2>1. \A k \in Goals : k.id = id /\ GoalRight(k) => GoalRight(k)'
    BY <1>1, <1>2, StaticRight
  <2> QED  BY <1>1, <1>3, <2>1
<1>5. CallInv' /\ GoalInv'
  BY <1>1, <1>2, <1>3, <1>4 DEF CallInv, GoalInv, Looking
<1>6. InPass' <=> InPass
  BY <1>1 DEF InPass, Looking
<1> QED  BY <1>1, <1>5, <1>6, PassKept DEF LinkInv

LEMMA AskStep ==
  ASSUME TypeInv, LinkInv, NEW i \in 1..MaxRequests, AskRequest(i) PROVE LinkInv'
<1> DEFINE t == Target(goal.id[1], i)
           s == <<i, goal.name>>
<1>1. /\ pc = "request" /\ IsNext(i, goal.pending)
      /\ UNCHANGED <<program, edges, components, settled, component, work, stack, table, cache>>
  BY DEF AskRequest, graphVars, passVars
<1>2. /\ program \in Programs /\ goal \in Goals /\ work \subseteq Explicit /\ work \subseteq Ids
      /\ goal.id \in work /\ GoalRight(goal) /\ stack = <<>> /\ work # {}
  BY <1>1 DEF TypeInv, TypeOK, LinkInv, CallInv, GoalInv, Looking
<1>3. /\ goal.id \in Ids /\ goal.id \in Explicit /\ goal.id[1] \in component
      /\ goal.id[1] \in Modules
  BY <1>2 DEF LinkInv, OrderInv, ExportsOf, Ids
<1>4. /\ Sources(goal.id) = GoalOf(goal.id).pending \X {GoalOf(goal.id).name}
      /\ GoalOf(goal.id).pending # {} =>
           GoalOf(goal.id).name \in Names /\ GoalOf(goal.id).fallback = IfAbsent(goal.id)
  BY <1>2, <1>3, GoalShape
<1>5. /\ goal.name = GoalOf(goal.id).name /\ goal.fallback = GoalOf(goal.id).fallback
      /\ i \in GoalOf(goal.id).pending
  BY <1>1, <1>2 DEF GoalRight, IsNext
<1>6. s \in Sources(goal.id) /\ s[1] = i /\ s[2] = goal.name
  BY <1>4, <1>5
<1>7. pc' \in {"request", "lookup"}
  BY <1>1 DEF AskRequest
<1>8. InPass' <=> InPass
  BY <1>1, <1>2, <1>7 DEF InPass, Looking
<1>9. CASE t \in Modules
  <2> DEFINE id == <<t, goal.name>>
  <2>1. query' = id /\ pc' = "lookup" /\ goal' = goal
    BY <1>9 DEF AskRequest
  <2>2. Reached(id)
    <3> HIDE DEF s
    <3> QED  BY <1>3, <1>6, <1>9, ReachedOn DEF LinkInv
  <2>3. id \in Ids
    BY <2>2 DEF Reached
  <2>4. Calls(id, <<>>)
    <3>1. \E k \in 1..MaxRequests :
            /\ IsNext(k, goal.pending) /\ Target(goal.id[1], k) \in Modules
            /\ id = <<Target(goal.id[1], k), goal.name>>
      BY <1>1, <1>9
    <3> HIDE DEF id
    <3>2. Line(<<>>, id)[1] = id /\ Len(<<>>) = 0
      BY DEF Line
    <3>3. 1..0 = {} /\ 1..(0 + 1) = {1} /\ ~(1 < 1)
      OBVIOUS
    <3> QED  BY <2>2, <3>1, <3>2, <3>3 DEF Calls
  <2>5. \A k \in Ids : Calls(k, <<>>) => Calls(k, <<>>)'
    <3>1. <<>> \in Seq(Frames) /\ UNCHANGED goal /\ (work' = {} <=> work = {})
      BY <1>1, <2>1
    <3> QED  BY <1>1, <1>2, <3>1, StaticCalls
  <2> HIDE DEF id
  <2>6. CallInv'
    BY <1>1, <1>2, <2>1, <2>3, <2>4, <2>5 DEF CallInv, Looking
  <2>7. GoalInv'
    BY <1>1, <2>1, GoalKept
  <2> QED  BY <1>1, <1>8, <2>1, <2>6, <2>7, PassKept DEF LinkInv
<1>10. CASE t \notin Modules
  <2> DEFINE a == IF t = Absent THEN Absent ELSE TargetIdentity(t, goal.name)
             h == WithAnswer(goal, a)
  <2>1. goal' = h /\ pc' = "request"
    BY <1>1, <1>10 DEF AskRequest
  <2>2. t \in Packages \cup {Unresolvable, Absent}
    BY <1>2, <1>3, <1>10, InputShape
  <2>3. a \in Answers /\ (t # Absent => a # Absent)
    BY <1>4, <1>5, <2>2, TargetShape, LinkerConstants DEF Answers, Resolutions
  <2>4. ASSUME Followed(goal.id)
        PROVE  \/ Fits(goal.id, <<i, goal.name>>, a) /\ (a = Absent => goal.fallback = Unknown)
               \/ a = Absent /\ Brings(goal.id, <<i, goal.name>>) = {goal.fallback}
                    /\ goal.fallback \in Meaning(goal.id)
    <3>1. CASE t = Absent
      <4>1. Outside(goal.id, s) = goal.fallback
        BY <1>4, <1>5, <1>6, <3>1 DEF Outside
      <4>2. Brings(goal.id, s) = {Outside(goal.id, s)} /\ Outside(goal.id, s) \in Meaning(goal.id)
        BY <1>2, <1>3, <1>6, <1>10, OutsideFits
      <4> QED  BY <3>1, <4>1, <4>2
    <3>2. CASE t # Absent
      <4>1. Outside(goal.id, s) = a
        BY <1>6, <3>2 DEF Outside
      <4>2. Fits(goal.id, s, Outside(goal.id, s))
        BY <1>2, <1>3, <1>6, <1>10, <3>2, OutsideFits
      <4> QED  BY <2>3, <3>2, <4>1, <4>2
    <3> QED  BY <3>1, <3>2
  <2> HIDE DEF a
  <2>5. GoalRight(h) /\ h \in Goals /\ h.id = goal.id
    BY <1>1, <1>2, <1>3, <2>3, <2>4, AnswerRight, AnswerTypes
  <2> HIDE DEF h
  <2>6. GoalRight(goal)'
    <3>1. \A k \in Goals : k.id = goal.id /\ GoalRight(k) => GoalRight(k)'
      BY <1>1, <1>2, <1>3, StaticRight
    <3> QED  BY <2>1, <2>5, <3>1
  <2>7. CallInv' /\ GoalInv'
    BY <1>1, <1>2, <2>1, <2>5, <2>6 DEF CallInv, GoalInv, Looking
  <2> QED  BY <1>1, <1>8, <2>1, <2>7, PassKept DEF LinkInv
<1> QED  BY <1>9, <1>10

LEMMA SetStep ==
  ASSUME TypeInv, LinkInv, SetExport, ~exhausted' PROVE LinkInv'
<1>1. /\ pc = "request" /\ pc' = "export" /\ goal.pending = {} /\ work' = work \ {goal.id}
      /\ table' = [table EXCEPT ![goal.id] = goal.value]
      /\ UNCHANGED <<program, edges, components, settled, component, stack, cache>>
  BY DEF SetExport, graphVars
<1>2. /\ program \in Programs /\ goal \in Goals /\ work \subseteq Explicit /\ work \subseteq Ids
      /\ goal.id \in work /\ GoalRight(goal) /\ stack = <<>> /\ table \in [Ids -> Answers]
  BY <1>1 DEF TypeInv, TypeOK, LinkInv, CallInv, GoalInv, Looking, Answers
<1>3. goal.value # Absent /\ (Followed(goal.id) => Right(goal.id, goal.value))
  BY <1>1, <1>2, GoalEndsRight
<1>4. /\ GraphWhole' /\ SettledMeans' /\ Explicit' = Explicit
      /\ \A d : DependenciesSettled(d)' = DependenciesSettled(d)
      /\ \A d : ExportsOf(d)' = ExportsOf(d)
      /\ \A id \in Ids : \A a : Right(id, a)' = Right(id, a)
      /\ \A id \in Ids : Followed(id)' = Followed(id)
  BY <1>1, Unmoved
<1>5. OrderInv /\ PresentInv /\ AnswersRight
  BY DEF LinkInv
<1>6. OrderInv'
  BY <1>1, <1>4, <1>5 DEF OrderInv, InPass, Looking
<1>7. \A id \in Ids : table'[id] = IF id = goal.id THEN goal.value ELSE table[id]
  BY <1>1, <1>2
<1>8. PresentInv'
  <2>1. Explicit \subseteq Ids
    BY DEF Explicit
  <2> QED  BY <1>1, <1>3, <1>4, <1>5, <1>7, <2>1 DEF PresentInv
<1>9. AnswersRight'
  <2> SUFFICES ASSUME NEW id \in Ids, Followed(id)
               PROVE  /\ table'[id] # Absent => Right(id, table'[id])
                      /\ cache[id] # Miss => Right(id, cache[id])
    BY <1>1, <1>4 DEF AnswersRight
  <2> QED  BY <1>3, <1>5, <1>7 DEF AnswersRight
<1>10. CallInv' /\ GoalInv'
  BY <1>1, <1>2 DEF CallInv, GoalInv, Looking
<1> QED  BY <1>4, <1>6, <1>8, <1>9, <1>10 DEF LinkInv

LEMMA NextStep ==
  ASSUME TypeInv, LinkInv, NextRound PROVE LinkInv'
<1>1. /\ pc = "export" /\ pc' = "export" /\ work = {} /\ work' = ExportsOf(component)
      /\ UNCHANGED <<program, edges, components, settled, component, goal, stack, table, cache>>
  BY DEF NextRound, PassEnded, graphVars
<1>2. /\ GraphWhole' /\ SettledMeans' /\ Explicit' = Explicit
      /\ \A d : DependenciesSettled(d)' = DependenciesSettled(d)
      /\ \A d : ExportsOf(d)' = ExportsOf(d)
  BY <1>1, Unmoved
<1>3. OrderInv /\ PresentInv /\ stack = <<>>
  BY <1>1 DEF LinkInv, CallInv, Looking
<1>4. OrderInv'
  BY <1>1, <1>2, <1>3 DEF OrderInv, InPass, Looking
<1>5. PresentInv'
  BY <1>1, <1>2, <1>3 DEF PresentInv
<1>6. CallInv' /\ GoalInv'
  BY <1>1, <1>3 DEF CallInv, GoalInv, Looking
<1> QED  BY <1>1, <1>2, <1>4, <1>5, <1>6, AnswersKept DEF LinkInv

(* What a settled component means comes from what was settled before it.   *)
LEMMA SettleStep ==
  ASSUME TypeInv, LinkInv, Settle PROVE LinkInv'
<1>1. /\ pc = "export" /\ pc' = "component" /\ work = {} /\ work' = {}
      /\ settled' = settled \cup component
      /\ UNCHANGED <<program, edges, components, component, goal, stack, table, cache>>
  BY DEF Settle, SettleComponent, PassEnded, graphVars
<1>2. /\ GraphWhole' /\ Explicit' = Explicit
      /\ \A d : ExportsOf(d)' = ExportsOf(d)
  BY <1>1, Unmoved
<1>3. GraphWhole /\ OrderInv /\ PresentInv /\ SettledMeans /\ stack = <<>> /\ program \in Programs
  BY <1>1 DEF LinkInv, CallInv, Looking, TypeInv
<1>4. OrderInv'
  BY <1>1, <1>2, <1>3 DEF OrderInv, InPass, Looking, DependenciesSettled
<1>5. PresentInv'
  BY <1>1, <1>2, <1>3 DEF PresentInv
<1>6. CallInv' /\ GoalInv'
  BY <1>1, <1>3 DEF CallInv, GoalInv, Looking
<1>7. ASSUME NEW id \in Ids, id[1] \in settled \cup component, Followed(id), Leads(id)
      PROVE  Meaning(id) # {}
  <2>1. CASE id[1] \in settled
    BY <1>3, <1>7, <2>1 DEF SettledMeans
  <2>2. CASE Ends(id) # {}
    BY <1>3, <2>2, MeaningSplits
  <2>3. CASE NextIds(id) # {}
    <3>1. PICK j \in NextIds(id) : TRUE
      BY <2>3
    <3>2. PICK s \in Sources(id) :
            Target(id[1], s[1]) \in Modules /\ j = <<Target(id[1], s[1]), s[2]>>
      BY <3>1 DEF NextIds
    <3>3. Reached(j)
      BY <1>3, <1>7, <3>2, ReachedOn
    <3>4. j \in Ids /\ Followed(j) /\ Leads(j) /\ Meaning(j) \subseteq Meaning(id)
      BY <1>3, <1>7, <3>1, <3>3, FollowedOn, MeaningSplits DEF Reached
    <3>5. j[1] \in settled
      BY <1>3, <3>3, <3>4, FollowedOn DEF Reached
    <3> QED  BY <1>3, <3>4, <3>5 DEF SettledMeans
  <2> QED  BY <1>3, <1>7, <2>2, <2>3, FollowedOn
<1>8. SettledMeans'
  <2>1. \A id \in Ids : /\ Followed(id)' = Followed(id) /\ Leads(id)' = Leads(id)
                        /\ Meaning(id)' = Meaning(id)
    BY <1>1, <1>3, StaticPaths
  <2> QED  BY <1>1, <1>7, <2>1 DEF SettledMeans
<1> QED  BY <1>1, <1>2, <1>4, <1>5, <1>6, <1>8, AnswersKept DEF LinkInv

LEMMA AnswerAtOnceStep ==
  ASSUME TypeInv, LinkInv, AnswerAtOnce PROVE LinkInv'
<1>1. /\ pc = "lookup" /\ UNCHANGED unchangedByLookup /\ cache' = cache
  BY DEF AnswerAtOnce
<1>2. /\ query \in Ids /\ stack \in Seq(Frames) /\ program \in Programs
      /\ table[query] \in Answers /\ cache[query] \in Answers \cup {Miss} /\ Absent \in Answers
  BY <1>1 DEF TypeInv, TypeOK, WaitInv, Answers
<1>3. /\ GraphWhole /\ OrderInv /\ PresentInv /\ AnswersRight /\ Calls(query, stack)
  BY <1>1 DEF LinkInv, CallInv
<1>4. \A j \in Ids : Followed(j) /\ cache'[j] # Miss => Right(j, cache'[j])
  BY <1>1, <1>3 DEF AnswersRight
<1>5. CASE table[query] # Absent /\ Deliver(table[query], stack)
  <2>1. Followed(query) => Right(query, table[query])
    BY <1>2, <1>3, <1>5 DEF AnswersRight
  <2> QED  BY <1>1, <1>2, <1>3, <1>4, <1>5, <2>1, DeliverKeeps
<1>6. CASE cache[query] # Miss /\ Deliver(cache[query], stack)
  <2>1. Followed(query) => Right(query, cache[query])
    BY <1>2, <1>3, <1>6 DEF AnswersRight
  <2> QED  BY <1>1, <1>2, <1>3, <1>4, <1>6, <2>1, DeliverKeeps
<1>7. CASE table[query] = Absent /\ ~MayEnter(query) /\ Deliver(Absent, stack)
  <2>1. Followed(query) => Right(query, Absent)
    BY <1>1, <1>3, <1>7, CutRight
  <2> QED  BY <1>1, <1>2, <1>3, <1>4, <1>7, <2>1, DeliverKeeps
<1> QED  BY <1>5, <1>6, <1>7 DEF AnswerAtOnce

LEMMA AnswerWithoutWalkStep ==
  ASSUME TypeInv, LinkInv, AnswerWithoutWalk PROVE LinkInv'
<1> DEFINE a == IF query[2] = Default THEN Absent ELSE Unknown
<1>1. /\ pc = "lookup" /\ UNCHANGED unchangedByLookup /\ cache' = cache
      /\ table[query] = Absent /\ ~HasStarWalk(query) /\ Deliver(a, stack)
  BY DEF AnswerWithoutWalk
<1>2. /\ query \in Ids /\ stack \in Seq(Frames) /\ program \in Programs /\ a \in Answers
  BY <1>1 DEF TypeInv, TypeOK, WaitInv, Answers, Resolutions
<1>3. /\ GraphWhole /\ OrderInv /\ PresentInv /\ AnswersRight /\ Calls(query, stack) /\ Reached(query)
  BY <1>1 DEF LinkInv, CallInv, Calls
<1>4. \A j \in Ids : Followed(j) /\ cache'[j] # Miss => Right(j, cache'[j])
  BY <1>1, <1>3 DEF AnswersRight
<1>5. Followed(query) => Right(query, a)
  <2>1. Followed(query) => query \notin Explicit
    BY <1>1, <1>2, <1>3, NotExplicit
  <2> QED  BY <1>1, <1>2, <2>1, NoWalkRight
<1> HIDE DEF a
<1> QED  BY <1>1, <1>2, <1>3, <1>4, <1>5, DeliverKeeps

LEMMA EnterStep ==
  ASSUME TypeInv, LinkInv, Enter PROVE LinkInv'
<1> DEFINE f == [id |-> query, stars |-> StarExports(query[1]), value |-> Absent, unresolved |-> FALSE]
<1>1. /\ pc = "lookup" /\ pc' = "star" /\ stack' = Append(stack, f)
      /\ table[query] = Absent /\ MayEnter(query) /\ HasStarWalk(query)
      /\ UNCHANGED <<program, edges, components, settled, component, work, table, cache, goal>>
  BY DEF Enter, unchangedByLookup, graphVars, passVars
<1>2. /\ query \in Ids /\ query[1] \in Modules /\ stack \in Seq(Frames) /\ program \in Programs
      /\ Calls(query, stack) /\ Reached(query)
  BY <1>1 DEF TypeInv, TypeOK, WaitInv, LinkInv, CallInv, Calls, Ids
<1>3. f \in Frames /\ f.id = query
  BY <1>2, InputShape DEF Frames
<1>4. FrameRight(f) /\ f.stars \subseteq StarExports(query[1])
  BY LinkerConstants DEF FrameRight, Resolutions
<1> HIDE DEF f
<1>5. FrameOK(f)
  BY <1>1, <1>2, <1>3, <1>4 DEF FrameOK
<1> DEFINE t == Append(stack, f)
<1>6. /\ t \in Seq(Frames) /\ t # <<>> /\ Last(t) = f /\ Front(t) = stack
      /\ Len(t) = Len(stack) + 1
  BY <1>2, <1>3, StackChanges
<1>7. \A k \in 1..(Len(t) - 1) : t[k].id # f.id
  <2>1. \A k \in 1..Len(stack) : t[k] = stack[k] /\ stack[k].id # query
    BY <1>1, <1>2 DEF MayEnter, Visiting
  <2>2. Len(t) - 1 = Len(stack)
    BY <1>2, <1>6
  <2> QED  BY <1>3, <2>1, <2>2
<1> HIDE DEF t
<1>8. /\ \A k \in Frames : FrameOK(k) => FrameOK(k)'
      /\ \A id \in Ids, s \in Seq(Frames) : Calls(id, s) => Calls(id, s)'
  <2>1. UNCHANGED goal /\ (work' = {} <=> work = {})
    BY <1>1
  <2> QED  BY <1>1, <1>2, <2>1, StaticCalls
<1>9. stack' = t
  BY <1>1 DEF t
<1>10. Last(stack)' = f /\ Front(stack)' = stack /\ stack' # <<>>
  BY <1>6, <1>9
<1>11. FrameOK(Last(stack))'
  BY <1>3, <1>5, <1>8, <1>10
<1>12. Calls(Last(stack).id, Front(stack))'
  BY <1>2, <1>3, <1>8, <1>10
<1>13. CallInv'
  BY <1>1, <1>6, <1>7, <1>9, <1>10, <1>11, <1>12 DEF CallInv, Looking
<1>14. GoalInv'
  BY <1>1, GoalKept
<1>15. InPass' <=> InPass
  BY <1>1 DEF InPass, Looking
<1> QED  BY <1>1, <1>13, <1>14, <1>15, PassKept DEF LinkInv

LEMMA AskStarStep ==
  ASSUME TypeInv, LinkInv, NEW i \in 1..MaxRequests, AskStar(i) PROVE LinkInv'
<1> DEFINE f == Last(stack)
           t == Target(f.id[1], i)
           s == <<i, f.id[2]>>
<1>1. /\ pc = "star" /\ IsNext(i, f.stars)
      /\ UNCHANGED <<program, edges, components, settled, component, work, table, cache, goal>>
  BY DEF AskStar, graphVars, passVars
<1>2. /\ stack \in Seq(Frames) /\ stack # <<>> /\ program \in Programs
      /\ Calls(f.id, Front(stack)) /\ FrameOK(f)
      /\ \A k \in 1..(Len(stack) - 1) : stack[k].id # f.id
      /\ GraphWhole /\ OrderInv /\ PresentInv
  BY <1>1 DEF TypeInv, TypeOK, LinkInv, CallInv
<1>3. /\ f \in Frames /\ f.id \in Ids /\ f.id[1] \in Modules /\ f.id[2] \in Names
      /\ f = stack[Len(stack)]
  BY <1>2, StackParts DEF Frames, Ids
<1>4. pc' \in {"star", "lookup"}
  BY <1>1 DEF AskStar
<1>5. InPass' <=> InPass
  BY <1>1, <1>4 DEF InPass, Looking
<1>6. GoalInv'
  BY <1>1, <1>4, GoalKept
<1>7. CASE t \in Modules
  <2> DEFINE id == <<t, f.id[2]>>
  <2>1. query' = id /\ pc' = "lookup" /\ stack' = stack
    BY <1>7 DEF AskStar
  <2>2. id \in Ids
    BY <1>3, <1>7 DEF Ids
  <2>3. Calls(id, stack)
    BY <1>1, <1>2, <1>7, CallGoesOn
  <2>4. \A r \in Seq(Frames), k \in Ids : Calls(k, r) => Calls(k, r)'
    <3>1. UNCHANGED goal /\ (work' = {} <=> work = {})
      BY <1>1
    <3> QED  BY <1>1, <1>2, <3>1, StaticCalls
  <2> HIDE DEF id
  <2>5. Calls(query, stack)'
    BY <1>2, <2>1, <2>2, <2>3, <2>4
  <2>6. CallInv'
    BY <2>1, <2>5 DEF CallInv, Looking
  <2> QED  BY <1>1, <1>5, <1>6, <2>1, <2>6, PassKept DEF LinkInv
<1>8. CASE t \notin Modules
  <2> DEFINE a == IF t = Absent THEN Absent ELSE TargetIdentity(t, f.id[2])
             g == WithContribution(f, a)
  <2>1. stack' = [stack EXCEPT ![Len(stack)] = g] /\ pc' = "star"
    BY <1>1, <1>8 DEF AskStar
  <2>2. t \in Packages \cup {Unresolvable, Absent}
    BY <1>2, <1>3, <1>8, InputShape
  <2>3. a \in Answers /\ (t # Absent => a # Absent)
    BY <1>3, <2>2, TargetShape, LinkerConstants DEF Answers, Resolutions
  <2>4. /\ Reached(f.id) /\ table[f.id] = Absent /\ HasStarWalk(f.id)
        /\ f.stars \subseteq StarExports(f.id[1]) /\ FrameRight(f)
    BY <1>2 DEF FrameOK
  <2>5. ASSUME Followed(f.id) PROVE Fits(f.id, s, a)
    <3>1. f.id \notin Explicit
      BY <1>1, <1>2, <1>3, <2>4, <2>5, NotExplicit
    <3>2. Sources(f.id) = StarExports(f.id[1]) \X {f.id[2]} /\ i \in StarExports(f.id[1])
          /\ IfAbsent(f.id) = Unknown
      BY <1>1, <1>2, <1>3, <2>4, <3>1, WalkFacts DEF IsNext
    <3>3. s \in Sources(f.id) /\ s[1] = i /\ s[2] = f.id[2]
      BY <3>2
    <3>4. Target(f.id[1], s[1]) = t
      BY <3>3
    <3>5. CASE t = Absent
      <4> HIDE DEF s, f, t
      <4> QED  BY <1>2, <1>3, <1>8, <3>2, <3>3, <3>4, <3>5, OutsideFits
    <3>6. CASE t # Absent
      <4>1. Outside(f.id, s) = a
        BY <3>3, <3>6 DEF Outside
      <4> HIDE DEF s, f, t, a
      <4> QED  BY <1>2, <1>3, <1>8, <3>3, <3>4, <3>6, <4>1, OutsideFits
    <3> QED  BY <3>5, <3>6
  <2> HIDE DEF a, t
  <2>6. g \in Frames /\ g.id = f.id
    BY <1>3, <2>3, AnswerTypes
  <2> HIDE DEF f
  <2>7. FrameRight(g) /\ g.stars \subseteq StarExports(f.id[1])
    BY <1>1, <1>2, <1>3, <2>3, <2>4, <2>5, ContributionRight
  <2> HIDE DEF g
  <2>8. FrameOK(g)
    BY <2>4, <2>6, <2>7 DEF FrameOK
  <2>9. g.id = Last(stack).id /\ Calls(g.id, Front(stack))
        /\ \A k \in 1..(Len(stack) - 1) : stack[k].id # g.id
    BY <1>2, <2>6 DEF f
  <2>10. CallInv'
    <3>1. \E r \in Seq(Frames), h \in Frames :
            /\ r # <<>> /\ h.id = Last(r).id /\ FrameOK(h) /\ Calls(h.id, Front(r))
            /\ \A k \in 1..(Len(r) - 1) : r[k].id # h.id
            /\ stack' = [r EXCEPT ![Len(r)] = h]
      BY <1>2, <2>1, <2>6, <2>8, <2>9
    <3> QED  BY <1>1, <2>1, <3>1, WalkKept
  <2> QED  BY <1>1, <1>5, <1>6, <2>1, <2>10, PassKept DEF LinkInv
<1> QED  BY <1>7, <1>8

LEMMA LeaveStep ==
  ASSUME TypeInv, LinkInv, Leave PROVE LinkInv'
<1> DEFINE f == Last(stack)
           a == WalkAnswer(f)
<1>1. /\ pc = "star" /\ f.stars = {} /\ Deliver(a, Front(stack)) /\ UNCHANGED unchangedByLookup
      /\ cache' = cache \/ cache' = [cache EXCEPT ![f.id] = a]
  BY DEF Leave
<1>2. /\ stack \in Seq(Frames) /\ stack # <<>> /\ program \in Programs
      /\ cache \in [Ids -> Answers \cup {Miss}]
      /\ Calls(f.id, Front(stack)) /\ FrameOK(f)
      /\ GraphWhole /\ OrderInv /\ PresentInv /\ AnswersRight
  BY <1>1 DEF TypeInv, TypeOK, LinkInv, CallInv, Answers
<1>3. f \in Frames /\ f.id \in Ids /\ Front(stack) \in Seq(Frames)
  BY <1>2, StackParts DEF Frames
<1>4. a \in Answers
  BY <1>3 DEF WalkAnswer, Frames, Answers
<1>5. ASSUME Followed(f.id) PROVE Right(f.id, a)
  <2>1. /\ Reached(f.id) /\ table[f.id] = Absent /\ HasStarWalk(f.id) /\ FrameRight(f)
    BY <1>2 DEF FrameOK
  <2>2. f.id \notin Explicit
    BY <1>1, <1>2, <1>3, <1>5, <2>1, NotExplicit
  <2> HIDE DEF f
  <2> QED  BY <1>1, <1>2, <1>3, <1>5, <2>1, <2>2, WalkRight
<1> HIDE DEF f, a
<1>6. \A j \in Ids : Followed(j) /\ cache'[j] # Miss => Right(j, cache'[j])
  BY <1>1, <1>2, <1>3, <1>5 DEF AnswersRight
<1> QED  BY <1>1, <1>2, <1>3, <1>4, <1>5, <1>6, DeliverKeeps

LEMMA StartValidationStep ==
  ASSUME TypeInv, LinkInv, StartValidation PROVE LinkInv'
<1>1. /\ pc = "component" /\ pc' = "check" /\ settled = Modules
      /\ UNCHANGED <<program, edges, components, settled, component, work, goal, stack, table, cache>>
  BY DEF StartValidation, graphVars, passVars
<1>2. /\ GraphWhole' /\ SettledMeans' /\ Explicit' = Explicit
      /\ \A d : DependenciesSettled(d)' = DependenciesSettled(d)
      /\ \A d : ExportsOf(d)' = ExportsOf(d)
  BY <1>1, Unmoved
<1>3. OrderInv /\ PresentInv /\ stack = <<>> /\ work = {}
  BY <1>1 DEF LinkInv, CallInv, Looking, TypeInv, WaitInv
<1>4. OrderInv'
  BY <1>1, <1>2, <1>3 DEF OrderInv, InPass, Looking
<1>5. PresentInv'
  BY <1>1, <1>2, <1>3 DEF PresentInv
<1>6. CallInv' /\ GoalInv'
  BY <1>1, <1>3 DEF CallInv, GoalInv, Looking
<1> QED  BY <1>1, <1>2, <1>4, <1>5, <1>6, AnswersKept DEF LinkInv

LEMMA CheckStep ==
  ASSUME TypeInv, LinkInv, NEW c \in checks, CheckImport(c) PROVE LinkInv'
<1> DEFINE id == <<Target(c[1], c[2]), c[3]>>
<1>1. /\ pc = "check" /\ pc' = "lookup" /\ query' = id
      /\ UNCHANGED <<program, edges, components, settled, component, work, goal, stack, table, cache>>
  BY DEF CheckImport, graphVars, passVars
<1>2. /\ program \in Programs /\ work = {} /\ stack = <<>> /\ settled = Modules
  BY <1>1 DEF TypeInv, WaitInv, LinkInv, CallInv, OrderInv, InPass, Looking
<1>3. id \in Ids /\ id[1] \in settled
  <2>1. Target(c[1], c[2]) \in Modules /\ c[3] \in Names
    BY DEF TypeInv, ImportChecks
  <2> QED  BY <1>2, <2>1 DEF Ids
<1> HIDE DEF id
<1>4. Calls(id, <<>>)
  <2>1. Reached(id)
    BY <1>3 DEF Reached
  <2>2. Len(<<>>) = 0 /\ 1..0 = {} /\ 1..(0 + 1) = {1} /\ ~(1 < 1)
    OBVIOUS
  <2> QED  BY <1>2, <2>1, <2>2 DEF Calls
<1>5. \A k \in Ids : Calls(k, <<>>) => Calls(k, <<>>)'
  <2>1. <<>> \in Seq(Frames) /\ UNCHANGED goal /\ (work' = {} <=> work = {})
    BY <1>1
  <2> QED  BY <1>1, <1>2, <2>1, StaticCalls
<1>6. CallInv' /\ GoalInv'
  BY <1>1, <1>2, <1>3, <1>4, <1>5 DEF CallInv, GoalInv, Looking
<1>7. InPass' <=> InPass
  BY <1>1, <1>2 DEF InPass, Looking
<1> QED  BY <1>1, <1>6, <1>7, PassKept DEF LinkInv

(* Linking has ended, or nothing happens.                                  *)
LEMMA RestStep ==
  ASSUME TypeInv, LinkInv, pc # "graph", FinishLink \/ UNCHANGED vars PROVE LinkInv'
<1>1. UNCHANGED <<program, edges, components, settled, component, work, goal, stack, table, cache, query>>
  BY DEF FinishLink, vars, graphVars, passVars
<1>2. \/ pc = "check" /\ pc' = "done"
      \/ pc' = pc
  BY DEF FinishLink, vars
<1>3. /\ program \in Programs /\ goal \in Goals /\ stack \in Seq(Frames) /\ CallInv /\ OrderInv
      /\ (pc \in {"check", "done"} => work = {} /\ stack = <<>>)
  BY DEF TypeInv, TypeOK, WaitInv, LinkInv, CallInv, Looking
<1>4. /\ GraphWhole' /\ SettledMeans' /\ Explicit' = Explicit
      /\ \A d : DependenciesSettled(d)' = DependenciesSettled(d)
      /\ \A d : ExportsOf(d)' = ExportsOf(d)
  BY <1>1, Unmoved
<1>5. PresentInv'
  BY <1>1, <1>4 DEF PresentInv, LinkInv
<1>6. OrderInv'
  <2>1. InPass' <=> InPass
    BY <1>1, <1>2, <1>3 DEF InPass, Looking
  <2> QED  BY <1>1, <1>2, <1>3, <1>4, <2>1 DEF OrderInv, InPass
<1>7. CallInv' /\ GoalInv'
  <2>1. CASE pc \notin {"request", "lookup", "star"}
    BY <1>1, <1>2, <1>3, <2>1 DEF CallInv, GoalInv, Looking
  <2>2. CASE pc \in {"request", "lookup", "star"}
    <3>1. pc' = pc
      BY <1>2, <2>2
    <3>2. GoalInv'
      BY <1>1, <2>2, <3>1, GoalKept
    <3>3. /\ \A k \in Frames : FrameOK(k) => FrameOK(k)'
          /\ \A k \in Ids, s \in Seq(Frames) : Calls(k, s) => Calls(k, s)'
      <4>1. UNCHANGED goal /\ (work' = {} <=> work = {})
        BY <1>1
      <4> QED  BY <1>1, <1>3, <4>1, StaticCalls
    <3>4. CASE pc = "lookup"
      <4>1. query \in Ids /\ Calls(query, stack)
        BY <1>3, <3>4 DEF CallInv, TypeInv, WaitInv
      <4>2. Calls(query, stack)'
        BY <1>1, <1>3, <3>3, <4>1
      <4> QED  BY <3>1, <3>2, <3>4, <4>2 DEF CallInv, Looking
    <3>5. CASE pc = "star"
      <4>1. /\ stack # <<>> /\ Calls(Last(stack).id, Front(stack)) /\ FrameOK(Last(stack))
            /\ \A k \in 1..(Len(stack) - 1) : stack[k].id # Last(stack).id
        BY <1>3, <3>5 DEF CallInv
      <4>2. Last(stack) \in Frames /\ Last(stack).id \in Ids /\ Front(stack) \in Seq(Frames)
        BY <1>3, <4>1, StackParts DEF Frames
      <4>3. Last(stack)' = Last(stack) /\ Front(stack)' = Front(stack)
        BY <1>1
      <4>4. FrameOK(Last(stack))' /\ Calls(Last(stack).id, Front(stack))'
        BY <3>3, <4>1, <4>2, <4>3
      <4> QED  BY <1>1, <3>1, <3>2, <3>5, <4>1, <4>3, <4>4 DEF CallInv, Looking
    <3>6. CASE pc = "request"
      BY <1>1, <1>3, <3>1, <3>2, <3>6 DEF CallInv, Looking
    <3> QED  BY <2>2, <3>4, <3>5, <3>6
  <2> QED  BY <2>1, <2>2
<1> QED  BY <1>1, <1>4, <1>5, <1>6, <1>7, AnswersKept DEF LinkInv

LEMMA LinkStep ==
  ASSUME TypeInv, StartInv, pc # "graph" /\ ~exhausted => LinkInv, [Next]_vars, pc' # "graph", ~exhausted'
  PROVE  LinkInv'
<1>1. CASE CollectEdges
  BY <1>1, GraphStep
<1>2. CASE UNCHANGED vars
  <2>1. pc # "graph" /\ ~exhausted
    BY <1>2 DEF vars
  <2> QED  BY <1>2, <2>1, RestStep
<1>3. ASSUME NEW c \in components, StartComponent(c) PROVE LinkInv'
  <2>1. pc # "graph" /\ ~exhausted
    BY <1>3 DEF StartComponent
  <2> QED  BY <1>3, <2>1, StartStep
<1>4. ASSUME NEW id \in work, OpenExport(id) PROVE LinkInv'
  <2>1. pc # "graph" /\ ~exhausted
    BY <1>4 DEF OpenExport
  <2> QED  BY <1>4, <2>1, OpenStep
<1>5. ASSUME NEW i \in 1..MaxRequests, AskRequest(i) PROVE LinkInv'
  <2>1. pc # "graph" /\ ~exhausted
    BY <1>5 DEF AskRequest
  <2> QED  BY <1>5, <2>1, AskStep
<1>6. ASSUME NEW i \in 1..MaxRequests, AskStar(i) PROVE LinkInv'
  <2>1. pc # "graph" /\ ~exhausted
    BY <1>6 DEF AskStar
  <2> QED  BY <1>6, <2>1, AskStarStep
<1>7. CASE SetExport
  <2>1. pc # "graph" /\ ~exhausted
    BY <1>7 DEF SetExport
  <2> QED  BY <1>7, <2>1, SetStep
<1>8. CASE NextRound
  <2>1. pc # "graph" /\ ~exhausted
    BY <1>8 DEF NextRound, PassEnded
  <2> QED  BY <1>8, <2>1, NextStep
<1>9. CASE GiveUp
  BY <1>9 DEF GiveUp
<1>10. CASE Settle
  <2>1. pc # "graph" /\ ~exhausted
    BY <1>10 DEF Settle, PassEnded
  <2> QED  BY <1>10, <2>1, SettleStep
<1>11. CASE AnswerAtOnce
  <2>1. pc # "graph" /\ ~exhausted
    BY <1>11 DEF AnswerAtOnce, unchangedByLookup
  <2> QED  BY <1>11, <2>1, AnswerAtOnceStep
<1>12. CASE AnswerWithoutWalk
  <2>1. pc # "graph" /\ ~exhausted
    BY <1>12 DEF AnswerWithoutWalk, unchangedByLookup
  <2> QED  BY <1>12, <2>1, AnswerWithoutWalkStep
<1>13. CASE Enter
  <2>1. pc # "graph" /\ ~exhausted
    BY <1>13 DEF Enter, unchangedByLookup
  <2> QED  BY <1>13, <2>1, EnterStep
<1>14. CASE Leave
  <2>1. pc # "graph" /\ ~exhausted
    BY <1>14 DEF Leave, unchangedByLookup
  <2> QED  BY <1>14, <2>1, LeaveStep
<1>15. CASE StartValidation
  <2>1. pc # "graph" /\ ~exhausted
    BY <1>15 DEF StartValidation
  <2> QED  BY <1>15, <2>1, StartValidationStep
<1>16. ASSUME NEW c \in checks, CheckImport(c) PROVE LinkInv'
  <2>1. pc # "graph" /\ ~exhausted
    BY <1>16 DEF CheckImport
  <2> QED  BY <1>16, <2>1, CheckStep
<1>17. CASE FinishLink
  <2>1. pc # "graph" /\ ~exhausted
    BY <1>17 DEF FinishLink
  <2> QED  BY <1>17, <2>1, RestStep
<1> QED  BY <1>1, <1>2, <1>3, <1>4, <1>5, <1>6, <1>7, <1>8, <1>9, <1>10, <1>11, <1>12, <1>13, <1>14,
            <1>15, <1>16, <1>17 DEF Next, Terminated

LEMMA StartKept ==
  ASSUME StartInv, [Next]_vars PROVE StartInv'
<1>1. ASSUME pc' = "graph" PROVE UNCHANGED vars
  BY <1>1 DEF Next, vars, CollectEdges, StartComponent, OpenExport, AskRequest, SetExport, NextRound,
         GiveUp, Settle, SettleComponent, PassEnded, AnswerAtOnce, AnswerWithoutWalk, Enter, AskStar,
         Leave, Deliver, StartValidation, CheckImport, FinishLink, Terminated
<1> QED  BY <1>1 DEF StartInv, vars, passVars

----------------------------------------------------------------------------
(* The invariant of the linker: the types, and all of the above until the  *)
(* budget is used up.                                                      *)
IInv ==
  /\ TypeInv /\ StartInv
  /\ pc # "graph" /\ ~exhausted => LinkInv

(* Every step keeps the invariant, with any program, any order of the      *)
(* components, any cache and any bounds on the recursion and the budget.   *)
THEOREM LinkerInvariant == Spec => []IInv
<1>1. Init => IInv
  <2>1. Init => StartInv /\ pc = "graph"
    BY DEF Init, StartInv
  <2> QED  BY <2>1, TypeInit DEF IInv
<1>2. IInv /\ [Next]_vars => IInv'
  BY TypeStep, LinkStep, StartKept DEF IInv
<1> QED  BY <1>1, <1>2, PTL DEF Spec

(* Every variable of the linker holds what its types allow.                *)
THEOREM LinkerTypeCorrect == Spec => []TypeOK
<1>1. IInv => TypeOK
  BY DEF IInv, TypeInv
<1> QED  BY <1>1, LinkerInvariant, PTL

(* Once a project is linked within its budget, a definite identity in the  *)
(* export table or the lookup cache is the only thing its name can mean,   *)
(* for every export that is followed through no cycle; and an export that  *)
(* means one thing has it, when no chain of star exports is too deep.      *)
THEOREM LinkerAcyclicIsExact == Spec => []AcyclicIsExact
<1>1. ASSUME IInv, pc = "done", ~exhausted, NEW id \in Ids, Followed(id)
      PROVE  /\ Proven(id)
             /\ DepthSuffices /\ id \in Explicit /\ Determined(id) => Meaning(id) = {table[id]}
  <2>1. /\ program \in Programs /\ OrderInv /\ PresentInv /\ AnswersRight /\ work = {}
    BY <1>1 DEF IInv, TypeInv, WaitInv, LinkInv
  <2>2. settled = Modules
    BY <1>1, <2>1 DEF OrderInv, InPass, Looking
  <2>3. /\ table[id] # Absent => Right(id, table[id])
        /\ cache[id] # Miss => Right(id, cache[id])
    BY <1>1, <2>1 DEF AnswersRight
  <2>4. Absent \notin Identities /\ Miss \notin Identities
    BY LinkerConstants DEF Resolutions
  <2>5. Proven(id)
    BY <2>3, <2>4 DEF Proven, Right
  <2>6. ASSUME DepthSuffices, id \in Explicit, Determined(id) PROVE Meaning(id) = {table[id]}
    <3>1. table[id] # Absent
      BY <2>1, <2>2, <2>6 DEF PresentInv, Ids
    <3>2. PICK v \in Meaning(id) : Meaning(id) = {v}
      BY <2>6 DEF Determined
    <3>3. Leads(id) /\ Right(id, table[id])
      BY <2>3, <2>6, <3>1 DEF Determined
    <3> QED  BY <2>6, <3>1, <3>2, <3>3 DEF Right
  <2> QED  BY <2>5, <2>6
<1>2. IInv => AcyclicIsExact
  BY <1>1 DEF AcyclicIsExact
<1> QED  BY <1>2, LinkerInvariant, PTL

=============================================================================
