-------------------------- MODULE MCProjectSession --------------------------
(***************************************************************************)
(* Four sources for a session of at most three sources and four bytes.     *)
(* 1 and 2 have the same content, 3 does not parse, and the key of 4 has   *)
(* the fingerprint of the key of 1.  The cache holds one entry, calls name *)
(* at most two sources or answers and ask for one or two workers.          *)
(***************************************************************************)
EXTENDS ProjectSession, TLC

MCPaths        == 1 .. 4
MCKeys         == 1 .. 3
MCContents     == <<1, 1, 2, 3>>
MCFingerprint  == <<7, 8, 7>>
MCSize         == <<1, 1, 1, 2>>
MCParseFails   == {2}
MCOccurrences  == <<{1}, {}, {1}>>
MCWorkerCounts == {1, 2}
=============================================================================
