---- MODULE MCRemoteVault ----
EXTENDS RemoteVault, TLC
CONSTANTS t1, t2, d1, d2
Symmetry == Permutations(Thread) \cup Permutations(Daemon)
====
