------------------------- MODULE OrderQueueLifecycle -------------------------
(* The order queue implements the order lifecycle.                         *)
EXTENDS OrderQueue

LeasesOf(o) == {l \in DOMAIN leases : leases[l].order = o}
Held(o) == \E l \in LeasesOf(o) : Active(l)
Waiting(o) ==
    \/ \E n \in DOMAIN orders : orders[n] = o
    \/ \E l \in LeasesOf(o) : ~Active(l)

(* A deferred lease holds its order back but no worker owns it: it waits.  *)
StatusOf(o) ==
    IF o \in acknowledged THEN "acknowledged"
    ELSE IF o \in cleared THEN "withdrawn"
    ELSE IF Held(o) THEN "held"
    ELSE IF Waiting(o) THEN "waiting"
    ELSE IF o \in accepted THEN "lost" ELSE "absent"

HolderOf(o) ==
    IF Held(o) THEN leases[CHOOSE l \in LeasesOf(o) : Active(l)].worker ELSE NoWorker

Lifecycle == INSTANCE OrderLifecycle WITH
    status <- [o \in Orders |-> StatusOf(o)],
    holder <- [o \in Orders |-> HolderOf(o)]

(* Every step of the queue is a step of the lifecycle or leaves it alone:  *)
(* no crash, race or sweep hands an order to two workers, moves it between *)
(* workers without requeueing it, or finishes an order nobody holds.       *)
ImplementsLifecycle == Lifecycle!Spec
=============================================================================
