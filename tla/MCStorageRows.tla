--------------------------- MODULE MCStorageRows ---------------------------
(* StorageRows for TLC: ids, keys and handlers are model values, and the    *)
(* ids and the handlers are interchangeable.                                *)
EXTENDS StorageRowsInv, TLC

IdSymmetry == Permutations(RecIds) \cup Permutations(KeyIds) \cup
              Permutations(OpIds) \cup Permutations(Handlers)

=============================================================================
