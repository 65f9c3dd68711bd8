------------------------------ MODULE MCJournal ------------------------------
EXTENDS Journal, TLC

\* Processes are alike, and so are archive files.
Symmetry == Permutations(Processes) \cup Permutations(Archives)
=============================================================================
