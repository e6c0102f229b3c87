-------------------- MODULE MCAtomicTokenBucket --------------------
EXTENDS AtomicTokenBucket, TLC

Symmetry == Permutations(Thread)
=============================================================================
