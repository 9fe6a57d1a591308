-------------------------- MODULE MCServingProcess --------------------------
(* ServingProcess on a small instance: threads, answers and switches are    *)
(* interchangeable in the invariants this is checked for.                   *)
EXTENDS ServingProcess, TLC

MCSymmetry == Permutations(Threads) \cup Permutations(Answers) \cup Permutations(TOGGLEABLE)
=============================================================================
