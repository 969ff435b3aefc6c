---- MODULE MCRelayLimits ----
EXTENDS PresenceGate, TLC
CONSTANTS t1, t2
Symmetry == Permutations(Thread)
Lifetimes == {-1, 1, 4}
Overlapping ==
    [rate |-> 9, requests |-> 1, bytes |-> 2, callers |-> 2, steps |-> {-3, 0, 2},
     faults |-> {"restart", "reboot"}, swaps |-> 2, probes |-> 0]
Steady ==
    [rate |-> 3, requests |-> 9, bytes |-> 8, callers |-> 1, steps |-> {0},
     faults |-> {}, swaps |-> 6, probes |-> 0]
Probing ==
    [rate |-> 1, requests |-> 0, bytes |-> 0, callers |-> 0, steps |-> {0},
     faults |-> {"restart"}, swaps |-> 0, probes |-> 3]
AllSettings == {Overlapping, Steady, Probing}
====
