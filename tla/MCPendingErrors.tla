--------------------------- MODULE MCPendingErrors ---------------------------
(* Model-checking instances of PendingErrors.                              *)
EXTENDS PendingErrors

Symmetry == Permutations(Threads)

=============================================================================
