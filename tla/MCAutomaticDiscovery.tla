------------------------ MODULE MCAutomaticDiscovery ------------------------
(* Small instances of AutomaticDiscovery for TLC.                          *)
EXTENDS AutomaticDiscovery, TLC

CONSTANTS u1, u2, l1, l2, s1, s2

Symmetry == Permutations(Urls) \cup Permutations(LeaseIds) \cup Permutations(Sessions)
=============================================================================
