---- MODULE MCVaultSession ----
EXTENDS VaultSession, TLC
CONSTANTS t1, t2, t3
Symmetry == Permutations(Thread)
====
