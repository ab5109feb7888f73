---------------------------- MODULE MCRunRegistry ----------------------------
(* Model-checking instance of RunRegistry; processes are interchangeable.  *)
EXTENDS RunRegistry, TLC
CONSTANTS p1, p2
Symmetry == Permutations(Procs)
=============================================================================
