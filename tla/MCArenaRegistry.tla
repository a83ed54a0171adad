--------------------------- MODULE MCArenaRegistry ---------------------------
(* Model-checking instances of ArenaRegistry.                              *)
EXTENDS ArenaRegistry, TLC

Symmetry == Permutations(Threads) \cup Permutations(Addresses)

=============================================================================
