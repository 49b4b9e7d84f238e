---------------------------- MODULE MCLintBatch ----------------------------
(***************************************************************************)
(* A small instance of LintBatch: two pool threads, an input longer than   *)
(* the window, and up to two faults of any kind.                           *)
(***************************************************************************)
EXTENDS LintBatch

CONSTANTS w1, w2

TwoWorkers == {w1, w2}
AllFaults == {"foreign", "duplicate", "lost"}
=============================================================================
