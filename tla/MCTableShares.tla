--------------------------- MODULE MCTableShares ---------------------------
(* TableShares for TLC, with interchangeable objects, tables and sessions.  *)
EXTENDS TableShares, TLC

ShareSymmetry ==
    Permutations(Sessions) \cup Permutations(Tables) \cup Permutations(Shares)
      \cup Permutations(LongTerms) \cup Permutations(Databases)

=============================================================================
