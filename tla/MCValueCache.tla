---------------------------- MODULE MCValueCache ----------------------------
(* Model-checking instances of ValueCache.                                 *)
EXTENDS ValueCache, TLC

Symmetry == Permutations(Threads)

=============================================================================
