--------------------------- MODULE BatchContract ---------------------------
(***************************************************************************)
(* What Linter::lint_batch promises to its caller                          *)
(* (glass-lint-core/src/lint/batch.rs, README "lint_batch"): a lazily      *)
(* consumed input, a bounded window, results in input order, one for each  *)
(* source taken, and nothing after the iterator is dropped.                *)
(***************************************************************************)
EXTENDS Integers, Sequences

CONSTANTS Inputs, MaxInFlight, WorkerPanic

VARIABLES taken,    \* sources taken from the input iterator
          results,  \* results returned to the caller, in order
          open,     \* the caller still holds the iterator
          ended     \* `next` returned None

contractVars == <<taken, results, open, ended>>

Init == taken = 0 /\ results = <<>> /\ open = TRUE /\ ended = FALSE

Take == /\ open /\ ~ended
        /\ taken < Inputs
        /\ taken - Len(results) < MaxInFlight
        /\ taken' = taken + 1
        /\ UNCHANGED <<results, open, ended>>

Return == /\ open /\ ~ended
          /\ Len(results) < taken
          /\ \E r \in {Len(results), WorkerPanic} :
               results' = Append(results, [index |-> Len(results), result |-> r])
          /\ UNCHANGED <<taken, open, ended>>

End == /\ open /\ ~ended
       /\ Len(results) = taken
       /\ ended' = TRUE
       /\ UNCHANGED <<taken, results, open>>

Close == /\ open
         /\ open' = FALSE
         /\ UNCHANGED <<taken, results, ended>>

Next == Take \/ Return \/ End \/ Close

Spec == Init /\ [][Next]_contractVars
=============================================================================
