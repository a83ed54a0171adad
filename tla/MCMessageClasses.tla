-------------------------- MODULE MCMessageClasses --------------------------
(* Model-checking instances of MessageClasses.                             *)
EXTENDS MessageClasses, TLC

Symmetry == Permutations(Threads) \cup Permutations(Types)

=============================================================================
