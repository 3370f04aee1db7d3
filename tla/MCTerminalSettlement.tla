------------------------ MODULE MCTerminalSettlement ------------------------
(* Small instances of TerminalSettlement for TLC.                          *)
EXTENDS TerminalSettlement, TLC

CONSTANTS o1, o2, w1, w2, l1, l2, t1, t2, k1, k2

Symmetry ==
    Permutations(Orders) \cup Permutations(LeaseIds) \cup Permutations(Tallies)
        \cup Permutations(Calls) \cup Permutations(Workers)

(* The bound of the run with liveness.  Two calls run at once while one    *)
(* lease was handed out; once there is a second lease, calls come one at a *)
(* time and the crawler is in its first session.  TLC takes no symmetry    *)
(* set together with liveness: of two behaviours that differ in the names  *)
(* of leases or snapshots only the one is looked at in which l1 is handed  *)
(* out, and t1 is recorded, before the other.                              *)
SettlementBound ==
    /\ Cardinality(issued) > 1 =>
          Cardinality(DOMAIN calls) <= 1 /\ \A w \in Workers : session[w] = 1
    /\ l2 \in issued => l1 \in issued
    /\ \A o \in Orders : <<o, t2>> \in recorded => <<o, t1>> \in recorded
=============================================================================
