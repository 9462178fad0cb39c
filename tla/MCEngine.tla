------------------------------ MODULE MCEngine ------------------------------
EXTENDS WorldInvariant, TLC

\* The pools are alike: nothing orders or chooses them.
PoolSymmetry == Permutations(Pools)
=============================================================================
