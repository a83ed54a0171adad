--------------------------- MODULE MCCelLocking ---------------------------
(* Model-checking instances of CelLocking.                                 *)
EXTENDS CelLocking, TLC

Symmetry == Permutations(Threads)

=============================================================================
