-------------------------- MODULE MCAutoIncrement --------------------------
(* AutoIncrement for TLC, with interchangeable handlers.                    *)
EXTENDS AutoIncrement, TLC

HandlerSymmetry == Permutations(Handlers)

=============================================================================
