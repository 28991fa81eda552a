-------------------------- MODULE MCCrashRecovery --------------------------
(* CrashRecovery for TLC, with interchangeable ids and handlers.            *)
EXTENDS CrashRecovery, TLC

IdSymmetry == Permutations(RecIds) \cup Permutations(KeyIds) \cup
              Permutations(OpIds) \cup Permutations(Handlers)

\* The properties speak of a process none of whose repairs has failed; what
\* follows a failed repair is cut off.
NoFailedRepair == ~repair_failed

=============================================================================
