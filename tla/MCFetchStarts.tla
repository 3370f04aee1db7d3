---------------------------- MODULE MCFetchStarts ----------------------------
(* Small instances of FetchStartSchedule for TLC.                          *)
EXTENDS FetchStartSchedule, TLC

CONSTANTS w1, w2, s1, s2

Symmetry == Permutations(Workers) \cup Permutations(Sessions)
=============================================================================
