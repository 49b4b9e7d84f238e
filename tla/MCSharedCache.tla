--------------------------- MODULE MCSharedCache ---------------------------
(***************************************************************************)
(* Two threads and five sources over a cache of two entries.  p1 and p2    *)
(* have the same content, keys 1 and 2 have the same fingerprint, and the  *)
(* content of p5 does not parse.                                           *)
(***************************************************************************)
EXTENDS SharedCache, TLC

CONSTANTS t1, t2, p1, p2, p3, p4, p5

MCThreads     == {t1, t2}
MCPaths       == {p1, p2, p3, p4, p5}
MCKeys        == 1 .. 4
MCContents    == (p1 :> 1) @@ (p2 :> 1) @@ (p3 :> 2) @@ (p4 :> 3) @@ (p5 :> 4)
MCFingerprint == <<7, 7, 8, 9>>
MCParseFails  == {4}
Symmetry      == Permutations(MCThreads)
=============================================================================
