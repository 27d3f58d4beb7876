---------------------------- MODULE MCVirtioDisk ----------------------------
EXTENDS VirtioDisk, TLC

\* Neither the processes nor the blocks have an order.
Symmetry == Permutations(Procs) \cup Permutations(Blocks)
=============================================================================
