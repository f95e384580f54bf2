------------------------- MODULE MCConcurrencyKey -------------------------
(* Model values for ConcurrencyKey; runs are interchangeable. *)
EXTENDS ConcurrencyKey, TLC

Symmetry == Permutations(Runs)
============================================================================
