--------------------------- MODULE MCContextPool ---------------------------
(* ContextPool for TLC, with interchangeable calls and contexts.            *)
EXTENDS ContextPool, TLC

PoolSymmetry == Permutations(Calls) \cup Permutations(Contexts)

=============================================================================
