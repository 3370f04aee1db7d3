---------------------------- MODULE MCOrderQueue ----------------------------
(* Small instances of OrderQueue for TLC.                                  *)
EXTENDS OrderQueueLifecycle, TLC

CONSTANTS o1, o2, w1, w2, s1, s2, l1, l2, l3

Symmetry ==
    Permutations(Workers) \cup Permutations(Sessions) \cup Permutations(LeaseIds)
=============================================================================
