--------------------------- MODULE MCScopingDrafts ---------------------------
\* ScopingDrafts for TLC.
EXTENDS ScopingDrafts, TLC

CallSymmetry == Permutations(Calls)
=============================================================================
