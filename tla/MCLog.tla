------------------------------- MODULE MCLog --------------------------------
EXTENDS Log, TLC
Symmetric == Permutations(Ops) \cup Permutations(Blocks)
=============================================================================
