---------------------------- MODULE MCMlockTable ----------------------------
EXTENDS MlockTable
MCSymmetry == Permutations(Threads) \cup Permutations(Entries)
=============================================================================
