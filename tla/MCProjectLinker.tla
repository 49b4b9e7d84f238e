-------------------------- MODULE MCProjectLinker --------------------------
(* Small projects for the linker.  Module 1 is the program's entry and     *)
(* imports from 2; 2 may re-export from 3 and 4, 3 from 4 and back from 2, *)
(* 4 back from 2, and from 1, which closes a cycle of all the modules.     *)
EXTENDS ProjectLinker

CONSTANTS pkg, alias, rel1, rel2, rel3, rel4

Request(spec, role, names) == [spec |-> spec, role |-> role, names |-> names]
Own(m, n) == [kind |-> "Direct", value |-> [module |-> m, export |-> n]]
ReExport(i, n) == [kind |-> "ReExport", request |-> i, imported |-> n]
ReExportNamespace(i) == [kind |-> "Namespace", request |-> i]
Imported(spec, n) == [kind |-> "Imported", spec |-> spec, imported |-> n]

(* Some of the given exports: alternatives[n] is the set of forms of name n. *)
Some(alternatives) ==
  UNION {{f \in [D -> UNION {alternatives[n] : n \in D}] : \A n \in D : f[n] \in alternatives[n]}
         : D \in SUBSET DOMAIN alternatives}

Uses(exports, i) ==
  \E n \in DOMAIN exports : exports[n].kind \in {"ReExport", "Namespace"} /\ exports[n].request = i

(* A module of a project, with the targets of its requests: a request that *)
(* nothing uses is an import of an unresolved package for its side effects. *)
Module(exports, requests, stars) ==
  LET used(i) == Uses(exports, i) \/ requests[i].role = "Import" \/ i \in stars
  IN  [exports  |-> exports, unknown |-> FALSE,
       requests |-> [i \in DOMAIN requests |->
                       IF used(i) THEN requests[i] ELSE Request(pkg, "Import", {})],
       used     |-> {i \in DOMAIN requests : used(i)}]

UnknownModule == [exports |-> <<>>, unknown |-> TRUE, requests |-> <<>>, used |-> {}]
Entry == Module(<<>>, <<Request(rel2, "Import", {1, 2})>>, {})

Program(interfaces, targets, limit) ==
  [interface |-> interfaces,
   target    |-> [q \in {r \in DOMAIN targets : r[2] \in interfaces[r[1]].used} |-> targets[q]],
   linkLimit |-> limit]

Targets ==
  (<<1, 1>> :> 2) @@ (<<2, 1>> :> 3) @@ (<<2, 2>> :> 4) @@ (<<2, 3>> :> 3) @@ (<<2, 4>> :> 4)
  @@ (<<3, 1>> :> 4) @@ (<<3, 2>> :> 2) @@ (<<3, 3>> :> 2) @@ (<<4, 1>> :> pkg)
  @@ (<<4, 2>> :> Unresolvable) @@ (<<4, 3>> :> 2) @@ (<<4, 4>> :> 1)

Barrels ==
  {Module(e, <<Request(rel3, "ReExport", {}), Request(rel4, "ReExport", {}),
               Request(rel3, "StarExport", {}), Request(rel4, "StarExport", {})>>, s) :
     e \in Some(<<{Own(2, 1), ReExport(1, 1), ReExport(1, 2)},
               {ReExportNamespace(2), ReExport(2, 1), ReExport(1, 2)}>>),
     s \in {{}, {3, 4}}}

Middles ==
  {Module(e, <<Request(rel4, "Import", {1}), Request(rel2, "ReExport", {}),
               Request(rel2, "StarExport", {})>>, s) :
     e \in Some(<<{Own(pkg, 1), Imported(rel4, 1), ReExport(2, 2)}, {Own(3, 2), ReExport(2, 1)}>>),
     s \in {{}, {3}}}

Last4(exports, stars) ==
  Module(exports, <<Request(pkg, "StarExport", {}), Request(alias, "StarExport", {}),
                    Request(rel2, "StarExport", {}), Request(rel1, "StarExport", {})>>, stars)

Lasts ==
  {UnknownModule, Module(<<Own(4, 1)>>, <<>>, {}), Last4(<<Own(4, 1), Own(4, 2)>>, {3})}
  \cup {Last4(<<>>, {i}) : i \in 1..4}

MCPrograms ==
  {Program(<<Entry, b, m, e>>, Targets, limit) :
     b \in Barrels, m \in Middles, e \in Lasts, limit \in {4, 20}}

=============================================================================
