------------------------------ MODULE MCBcache ------------------------------
EXTENDS Bcache, TLC

\* Neither the users nor the blocks have an order.
Symmetry == Permutations(Users) \cup Permutations(Blocks)
=============================================================================
