--------------------------- MODULE MCSyncOperations ---------------------------
EXTENDS SyncOperations, TLC
Symmetry == Permutations(Requests)
=============================================================================
