------------------------ MODULE OrderLifecycleProofs ------------------------
(***************************************************************************)
(* The order queue implements the order lifecycle: the initial state maps  *)
(* to the initial state, and every step to a step of the lifecycle or to   *)
(* none.  The argument rests on conservation: an order has one place, so   *)
(* its place alone tells its status and its holder.                        *)
(***************************************************************************)
EXTENDS OrderQueueLifecycle, OrderQueueProofs

-----------------------------------------------------------------------------
(* What the place of an order says about its abstract state.               *)

StatusExact ==
    \A o \in Orders :
        /\ o \in acknowledged => StatusOf(o) = "acknowledged" /\ HolderOf(o) = NoWorker
        /\ o \in cleared => StatusOf(o) = "withdrawn" /\ HolderOf(o) = NoWorker
        /\ o \notin accepted => StatusOf(o) = "absent" /\ HolderOf(o) = NoWorker
        /\ \A n \in DOMAIN orders :
              orders[n] = o => StatusOf(o) = "waiting" /\ HolderOf(o) = NoWorker
        /\ \A l \in DOMAIN leases : leases[l].order = o =>
              IF Active(l) THEN StatusOf(o) = "held" /\ HolderOf(o) = leases[l].worker
              ELSE StatusOf(o) = "waiting" /\ HolderOf(o) = NoWorker

Inv == TypeInv /\ Conserved

LEMMA PlaceTellsStatus == Inv => StatusExact
<1> SUFFICES ASSUME Inv, NEW o \in Orders
             PROVE  /\ o \in acknowledged =>
                          StatusOf(o) = "acknowledged" /\ HolderOf(o) = NoWorker
                    /\ o \in cleared => StatusOf(o) = "withdrawn" /\ HolderOf(o) = NoWorker
                    /\ o \notin accepted => StatusOf(o) = "absent" /\ HolderOf(o) = NoWorker
                    /\ \A n \in DOMAIN orders :
                          orders[n] = o => StatusOf(o) = "waiting" /\ HolderOf(o) = NoWorker
                    /\ \A l \in DOMAIN leases : leases[l].order = o =>
                          IF Active(l)
                          THEN StatusOf(o) = "held" /\ HolderOf(o) = leases[l].worker
                          ELSE StatusOf(o) = "waiting" /\ HolderOf(o) = NoWorker
    BY DEF StatusExact
<1>0. AcceptedOnly /\ NoOrderDuplicated
    BY DEF Inv, Conserved
<1>1. CASE o \in acknowledged
    <2>1. /\ o \notin cleared /\ o \in accepted /\ LeasesOf(o) = {}
          /\ \A n \in DOMAIN orders : orders[n] # o
        BY <1>0, <1>1 DEF AcceptedOnly, NoOrderDuplicated, LeasesOf
    <2> QED
        BY <1>1, <2>1 DEF StatusOf, HolderOf, Held, LeasesOf
<1>2. CASE o \in cleared
    <2>1. /\ o \notin acknowledged /\ o \in accepted /\ LeasesOf(o) = {}
          /\ \A n \in DOMAIN orders : orders[n] # o
        BY <1>0, <1>2 DEF AcceptedOnly, NoOrderDuplicated, LeasesOf
    <2> QED
        BY <1>2, <2>1 DEF StatusOf, HolderOf, Held, LeasesOf
<1>3. CASE o \notin accepted
    <2>1. /\ o \notin acknowledged /\ o \notin cleared /\ LeasesOf(o) = {}
          /\ \A n \in DOMAIN orders : orders[n] # o
        BY <1>0, <1>3 DEF AcceptedOnly, LeasesOf
    <2> QED
        BY <1>3, <2>1 DEF StatusOf, HolderOf, Held, Waiting, LeasesOf
<1>4. ASSUME NEW n \in DOMAIN orders, orders[n] = o
      PROVE  StatusOf(o) = "waiting" /\ HolderOf(o) = NoWorker
    <2>1. o \notin acknowledged /\ o \notin cleared /\ LeasesOf(o) = {}
        BY <1>0, <1>4 DEF NoOrderDuplicated, LeasesOf
    <2>2. ~Held(o) /\ Waiting(o)
        BY <1>4, <2>1 DEF Held, Waiting
    <2> QED
        BY <2>1, <2>2 DEF StatusOf, HolderOf
<1>5. ASSUME NEW l \in DOMAIN leases, leases[l].order = o
      PROVE  IF Active(l) THEN StatusOf(o) = "held" /\ HolderOf(o) = leases[l].worker
             ELSE StatusOf(o) = "waiting" /\ HolderOf(o) = NoWorker
    <2>1. o \notin acknowledged /\ o \notin cleared /\ LeasesOf(o) = {l}
        BY <1>0, <1>5 DEF NoOrderDuplicated, LeasesOf
    <2>2. CASE Active(l)
        <3>1. Held(o) /\ (CHOOSE k \in LeasesOf(o) : Active(k)) = l
            BY <2>1, <2>2 DEF Held
        <3> QED
            BY <2>1, <2>2, <3>1 DEF StatusOf, HolderOf
    <2>3. CASE ~Active(l)
        <3>1. ~Held(o) /\ Waiting(o)
            BY <2>1, <2>3 DEF Held, Waiting
        <3> QED
            BY <2>1, <2>3, <3>1 DEF StatusOf, HolderOf
    <2> QED
        BY <2>2, <2>3
<1> QED
    BY <1>1, <1>2, <1>3, <1>4, <1>5

LEMMA PlaceTellsStatusNext == Inv' => StatusExact'
BY PlaceTellsStatus, PTL

LEMMA InvStep == Inv /\ [Next]_vars => Inv'
BY TypeStep, ConservedStep DEF Inv

(* An order that a step leaves where it is keeps its abstract state.       *)
Stays(o) ==
    /\ o \in acknowledged => o \in acknowledged'
    /\ o \in cleared => o \in cleared'
    /\ o \notin accepted => o \notin accepted'
    /\ \A n \in DOMAIN orders : orders[n] = o => n \in DOMAIN orders' /\ orders'[n] = o
    /\ \A l \in DOMAIN leases : leases[l].order = o =>
          /\ l \in DOMAIN leases' /\ leases'[l].order = o
          /\ leases'[l].worker = leases[l].worker
          /\ leases'[l].deferred = leases[l].deferred

LEMMA StayingKeepsStatus ==
    ASSUME Inv, Inv', NEW o \in Orders, Stays(o)
    PROVE  StatusOf(o)' = StatusOf(o) /\ HolderOf(o)' = HolderOf(o)
<1>0. StatusExact /\ StatusExact' /\ NoOrderLost
    BY PlaceTellsStatus, PlaceTellsStatusNext DEF Inv, Conserved
<1>1. CASE o \in acknowledged \/ o \in cleared \/ o \notin accepted
    BY <1>0, <1>1 DEF StatusExact, Stays
<1>2. ASSUME NEW n \in DOMAIN orders, orders[n] = o
      PROVE  StatusOf(o)' = StatusOf(o) /\ HolderOf(o)' = HolderOf(o)
    <2>1. n \in DOMAIN orders' /\ orders'[n] = o
        BY <1>2 DEF Stays
    <2> QED
        BY <1>0, <1>2, <2>1 DEF StatusExact
<1>3. ASSUME NEW l \in DOMAIN leases, leases[l].order = o
      PROVE  StatusOf(o)' = StatusOf(o) /\ HolderOf(o)' = HolderOf(o)
    <2>1. /\ l \in DOMAIN leases' /\ leases'[l].order = o
          /\ leases'[l].worker = leases[l].worker
        BY <1>3 DEF Stays
    <2>2. Active(l)' <=> Active(l)
        BY <1>3 DEF Stays, Active
    <2> QED
        BY <1>0, <1>3, <2>1, <2>2 DEF StatusExact
<1> QED
    BY <1>0, <1>1, <1>2, <1>3 DEF NoOrderLost

-----------------------------------------------------------------------------
(* One step of the lifecycle per kind of step of the queue.  In each, every *)
(* order but the ones it is about stays where it is.                       *)

AbstractStatus == [o \in Orders |-> StatusOf(o)]
AbstractHolder == [o \in Orders |-> HolderOf(o)]

LEMMA AllStay ==
    ASSUME Inv, Inv', \A o \in Orders : Stays(o)
    PROVE  UNCHANGED <<AbstractStatus, AbstractHolder>>
<1>1. \A o \in Orders : StatusOf(o)' = StatusOf(o) /\ HolderOf(o)' = HolderOf(o)
    BY StayingKeepsStatus
<1> QED
    BY <1>1 DEF AbstractStatus, AbstractHolder

(* A step that moves one order and gives it a new abstract state.          *)
LEMMA OneMoves ==
    ASSUME Inv, Inv', NEW o \in Orders, NEW st, NEW h,
           StatusOf(o)' = st, HolderOf(o)' = h, \A x \in Orders \ {o} : Stays(x)
    PROVE  /\ AbstractStatus' = [AbstractStatus EXCEPT ![o] = st]
           /\ AbstractHolder' = [AbstractHolder EXCEPT ![o] = h]
<1>1. \A x \in Orders \ {o} : StatusOf(x)' = StatusOf(x) /\ HolderOf(x)' = HolderOf(x)
    BY StayingKeepsStatus
<1> QED
    BY <1>1 DEF AbstractStatus, AbstractHolder

LEMMA PublishAccepts ==
    ASSUME Inv, Inv', NEW o \in Orders, PublishOnce(o)
    PROVE  Lifecycle!Accept(o)
<1>0. /\ StatusExact /\ StatusExact' /\ next \in Nat /\ next \notin DOMAIN orders
    BY PlaceTellsStatus, PlaceTellsStatusNext
    DEF Inv, Conserved, SequenceFresh, TypeInv, QueueTyped
<1>1. /\ o \notin accepted /\ accepted' = accepted \cup {o}
      /\ UNCHANGED <<leases, acknowledged, cleared>>
      /\ DOMAIN orders' = DOMAIN orders \cup {next} /\ orders'[next] = o
      /\ \A n \in DOMAIN orders : orders'[n] = orders[n]
    BY <1>0 DEF PublishOnce, Enqueue, Put, leaseVars, clearVars
<1>2. StatusOf(o) = "absent" /\ HolderOf(o) = NoWorker
    BY <1>0, <1>1 DEF StatusExact
<1>3. StatusOf(o)' = "waiting" /\ HolderOf(o)' = NoWorker
    BY <1>0, <1>1 DEF StatusExact
<1>4. \A x \in Orders \ {o} : Stays(x)
    BY <1>1 DEF Stays
<1>5. /\ AbstractStatus' = [AbstractStatus EXCEPT ![o] = "waiting"]
      /\ AbstractHolder' = [AbstractHolder EXCEPT ![o] = NoWorker]
    BY <1>3, <1>4, OneMoves
<1> QED
    BY <1>2, <1>5 DEF Lifecycle!Accept, AbstractStatus, AbstractHolder

LEMMA ClaimHands ==
    ASSUME Inv, Inv', NEW w \in Workers, NEW l \in LeaseIds, Claim(w, l)
    PROVE  \E o \in Orders : Lifecycle!Hand(o, w)
<1>0. /\ StatusExact /\ StatusExact' /\ l \notin DOMAIN leases /\ w # NoWorker
      /\ \A n \in DOMAIN orders : orders[n] \in Orders
      /\ \A m, n \in DOMAIN orders : orders[m] = orders[n] => m = n
    BY PlaceTellsStatus, PlaceTellsStatusNext, NoneAssumption
    DEF Inv, Conserved, LeasesIssued, NoOrderDuplicated, TypeInv, QueueTyped, Claim
<1>1. PICK n \in DOMAIN orders :
          /\ DOMAIN orders' = DOMAIN orders \ {n}
          /\ \A m \in DOMAIN orders : m # n => orders'[m] = orders[m]
          /\ DOMAIN leases' = DOMAIN leases \cup {l}
          /\ leases'[l].order = orders[n] /\ leases'[l].worker = w /\ ~leases'[l].deferred
          /\ \A k \in DOMAIN leases : k # l => leases'[k] = leases[k]
    BY DEF Claim, Put, Delete
<1>2. UNCHANGED <<accepted, acknowledged, cleared>>
    BY DEF Claim, clearVars
<1>a. PICK o \in Orders : o = orders[n]
    BY <1>0
<1>3. StatusOf(o) = "waiting"
    BY <1>0, <1>a DEF StatusExact
<1>4. StatusOf(o)' = "held" /\ HolderOf(o)' = w
    <2>1. l \in DOMAIN leases' /\ leases'[l].order = o /\ leases'[l].worker = w /\ Active(l)'
        BY <1>0, <1>1, <1>a DEF Active
    <2> QED
        BY <1>0, <2>1 DEF StatusExact
<1>5. \A x \in Orders \ {o} : Stays(x)
    BY <1>0, <1>1, <1>2, <1>a DEF Stays
<1>6. /\ AbstractStatus' = [AbstractStatus EXCEPT ![o] = "held"]
      /\ AbstractHolder' = [AbstractHolder EXCEPT ![o] = w]
    BY <1>4, <1>5, OneMoves
<1>7. Lifecycle!Hand(o, w)
    BY <1>3, <1>6 DEF Lifecycle!Hand, AbstractStatus, AbstractHolder
<1> QED
    BY <1>7

LEMMA AckAcknowledges ==
    ASSUME Inv, Inv', NEW l \in LeaseIds, NEW w \in Workers, NEW s \in Sessions,
           AckOrder(l, w, s)
    PROVE  \E o \in Orders : Lifecycle!Acknowledge(o)
<1>0. /\ StatusExact /\ StatusExact' /\ w # NoWorker
      /\ \A k \in DOMAIN leases : leases[k].order \in Orders
      /\ \A j, k \in DOMAIN leases : leases[j].order = leases[k].order => j = k
    BY PlaceTellsStatus, PlaceTellsStatusNext, NoneAssumption
    DEF Inv, Conserved, NoOrderDuplicated, TypeInv, LeasesTyped, LeaseRecord
<1>1. l \in DOMAIN leases /\ Active(l)
    BY <1>0 DEF AckOrder, AckAnswer, LiveLeaseOwnedBy, Active
<1>2. /\ DOMAIN leases' = DOMAIN leases \ {l}
      /\ \A k \in DOMAIN leases : k # l => leases'[k] = leases[k]
      /\ acknowledged' = acknowledged \cup {leases[l].order}
      /\ UNCHANGED <<orders, accepted, cleared>>
    BY DEF AckOrder, Delete, queueVars, clearVars
<1>3. PICK o \in Orders : o = leases[l].order
    BY <1>0, <1>1
<1>4. StatusOf(o) = "held"
    BY <1>0, <1>1, <1>3 DEF StatusExact
<1>5. StatusOf(o)' = "acknowledged" /\ HolderOf(o)' = NoWorker
    BY <1>0, <1>2, <1>3 DEF StatusExact
<1>6. \A x \in Orders \ {o} : Stays(x)
    BY <1>0, <1>2, <1>3 DEF Stays
<1>7. /\ AbstractStatus' = [AbstractStatus EXCEPT ![o] = "acknowledged"]
      /\ AbstractHolder' = [AbstractHolder EXCEPT ![o] = NoWorker]
    BY <1>5, <1>6, OneMoves
<1>8. Lifecycle!Acknowledge(o)
    BY <1>4, <1>7 DEF Lifecycle!Acknowledge, AbstractStatus, AbstractHolder
<1> QED
    BY <1>8

(* A negative acknowledgment gives the order back although its lease, now  *)
(* deferred, is still stored.                                              *)
LEMMA NakReturns ==
    ASSUME Inv, Inv', NEW l \in LeaseIds, NEW w \in Workers, NEW s \in Sessions,
           NakOrder(l, w, s)
    PROVE  \E o \in Orders : Lifecycle!Return(o)
<1>0. /\ StatusExact /\ StatusExact' /\ w # NoWorker /\ LeasesTyped
      /\ \A k \in DOMAIN leases : leases[k].order \in Orders
      /\ \A j, k \in DOMAIN leases : leases[j].order = leases[k].order => j = k
    BY PlaceTellsStatus, PlaceTellsStatusNext, NoneAssumption
    DEF Inv, Conserved, NoOrderDuplicated, TypeInv, LeasesTyped, LeaseRecord
<1>1. l \in DOMAIN leases /\ Active(l)
    BY <1>0 DEF NakOrder, NakAnswer, LiveLeaseOwnedBy, Active
<1>2. /\ DOMAIN leases' = DOMAIN leases
      /\ leases'[l].order = leases[l].order /\ leases'[l].deferred
      /\ \A k \in DOMAIN leases : k # l => leases'[k] = leases[k]
      /\ UNCHANGED <<orders, accepted, acknowledged, cleared>>
    BY <1>0, <1>1 DEF NakOrder, LeasesTyped, LeaseRecord, queueVars, clearVars
<1>3. PICK o \in Orders : o = leases[l].order
    BY <1>0, <1>1
<1>4. StatusOf(o) = "held"
    BY <1>0, <1>1, <1>3 DEF StatusExact
<1>5. StatusOf(o)' = "waiting" /\ HolderOf(o)' = NoWorker
    <2>1. l \in DOMAIN leases' /\ leases'[l].order = o /\ ~Active(l)'
        BY <1>1, <1>2, <1>3 DEF Active
    <2> QED
        BY <1>0, <2>1 DEF StatusExact
<1>6. \A x \in Orders \ {o} : Stays(x)
    BY <1>0, <1>2, <1>3 DEF Stays
<1>7. /\ AbstractStatus' = [AbstractStatus EXCEPT ![o] = "waiting"]
      /\ AbstractHolder' = [AbstractHolder EXCEPT ![o] = NoWorker]
    BY <1>5, <1>6, OneMoves
<1>8. Lifecycle!Return(o)
    BY <1>4, <1>7 DEF Lifecycle!Return, AbstractStatus, AbstractHolder
<1> QED
    BY <1>8

(* The sweeper takes an order back from an absent worker, or re-enqueues   *)
(* one that was given back already: then the lifecycle sees nothing.       *)
LEMMA RequeueReturns ==
    ASSUME Inv, Inv', NEW l \in DOMAIN leases, RequeueLease(l)
    PROVE  \/ \E o \in Orders : Lifecycle!Return(o)
           \/ UNCHANGED <<AbstractStatus, AbstractHolder>>
<1>0. /\ StatusExact /\ StatusExact' /\ next \in Nat /\ next \notin DOMAIN orders
      /\ \A k \in DOMAIN leases : leases[k].order \in Orders
      /\ \A j, k \in DOMAIN leases : leases[j].order = leases[k].order => j = k
    BY PlaceTellsStatus, PlaceTellsStatusNext
    DEF Inv, Conserved, SequenceFresh, NoOrderDuplicated, TypeInv, QueueTyped, LeasesTyped,
        LeaseRecord
<1>1. /\ DOMAIN leases' = DOMAIN leases \ {l}
      /\ \A k \in DOMAIN leases : k # l => leases'[k] = leases[k]
      /\ UNCHANGED <<accepted, acknowledged, cleared>>
    BY DEF RequeueLease, Delete, clearVars
<1>2. /\ DOMAIN orders' = DOMAIN orders \cup {next} /\ orders'[next] = leases[l].order
      /\ \A n \in DOMAIN orders : orders'[n] = orders[n]
    BY <1>0 DEF RequeueLease, Enqueue, Put
<1>3. PICK o \in Orders : o = leases[l].order
    BY <1>0
<1>4. StatusOf(o)' = "waiting" /\ HolderOf(o)' = NoWorker
    BY <1>0, <1>2, <1>3 DEF StatusExact
<1>5. \A x \in Orders \ {o} : Stays(x)
    BY <1>0, <1>1, <1>2, <1>3 DEF Stays
<1>6. /\ AbstractStatus' = [AbstractStatus EXCEPT ![o] = "waiting"]
      /\ AbstractHolder' = [AbstractHolder EXCEPT ![o] = NoWorker]
    BY <1>4, <1>5, OneMoves
<1>7. CASE Active(l)
    <2>1. StatusOf(o) = "held"
        BY <1>0, <1>3, <1>7 DEF StatusExact
    <2>2. Lifecycle!Return(o)
        BY <1>6, <2>1 DEF Lifecycle!Return, AbstractStatus, AbstractHolder
    <2> QED
        BY <2>2
<1>8. CASE ~Active(l)
    <2>1. StatusOf(o) = "waiting" /\ HolderOf(o) = NoWorker
        BY <1>0, <1>3, <1>8 DEF StatusExact
    <2> QED
        BY <1>6, <2>1 DEF AbstractStatus, AbstractHolder
<1> QED
    BY <1>7, <1>8

LEMMA ClearWithdraws ==
    ASSUME Inv, Inv', ClearPage
    PROVE  \E S \in SUBSET Orders : Lifecycle!Withdraw(S)
<1>0. /\ StatusExact /\ StatusExact' /\ Doomed \subseteq DOMAIN orders
      /\ \A n \in DOMAIN orders : orders[n] \in Orders
    BY PlaceTellsStatus, PlaceTellsStatusNext
    DEF Inv, TypeInv, QueueTyped, Doomed, Page, PageRest
<1>1. /\ DOMAIN orders' = DOMAIN orders \ Doomed
      /\ \A n \in DOMAIN orders : n \notin Doomed => orders'[n] = orders[n]
      /\ cleared' = cleared \cup {orders[n] : n \in Doomed}
      /\ UNCHANGED <<leases, accepted, acknowledged>>
    BY DEF ClearPage, leaseVars
<1>2. PICK S \in SUBSET Orders : S = {orders[n] : n \in Doomed}
    BY <1>0
<1>3. \A o \in S : /\ StatusOf(o) = "waiting" /\ StatusOf(o)' = "withdrawn"
                   /\ HolderOf(o)' = HolderOf(o)
    <2> SUFFICES ASSUME NEW o \in S
                 PROVE  /\ StatusOf(o) = "waiting" /\ StatusOf(o)' = "withdrawn"
                        /\ HolderOf(o)' = HolderOf(o)
        OBVIOUS
    <2>1. PICK n \in Doomed : o = orders[n]
        BY <1>2
    <2>2. StatusOf(o) = "waiting" /\ HolderOf(o) = NoWorker
        BY <1>0, <2>1 DEF StatusExact
    <2>3. o \in cleared'
        BY <1>1, <2>1
    <2> QED
        BY <1>0, <2>2, <2>3 DEF StatusExact
<1>4. \A o \in Orders \ S : Stays(o)
    BY <1>0, <1>1, <1>2 DEF Stays
<1>5. \A o \in Orders \ S : StatusOf(o)' = StatusOf(o) /\ HolderOf(o)' = HolderOf(o)
    BY <1>4, StayingKeepsStatus
<1>6. /\ AbstractStatus' = [o \in Orders |-> IF o \in S THEN "withdrawn" ELSE AbstractStatus[o]]
      /\ UNCHANGED AbstractHolder
    BY <1>3, <1>5 DEF AbstractStatus, AbstractHolder
<1>7. Lifecycle!Withdraw(S)
    BY <1>3, <1>6 DEF Lifecycle!Withdraw, AbstractStatus, AbstractHolder
<1> QED
    BY <1>7

LEMMA LifecycleInit == Init => Lifecycle!Init
<1> SUFFICES ASSUME Init PROVE Lifecycle!Init
    OBVIOUS
<1>1. \A o \in Orders : StatusOf(o) = "absent" /\ HolderOf(o) = NoWorker
    BY DEF Init, StatusOf, HolderOf, Held, Waiting, LeasesOf
<1> QED
    BY <1>1 DEF Lifecycle!Init

LEMMA LifecycleStep ==
    Inv /\ Inv' /\ [Next]_vars => [Lifecycle!Next]_<<AbstractStatus, AbstractHolder>>
<1> SUFFICES ASSUME Inv, Inv', [Next]_vars
             PROVE  Lifecycle!Next \/ UNCHANGED <<AbstractStatus, AbstractHolder>>
    OBVIOUS
<1>0. LeasesTyped
    BY DEF Inv, TypeInv
<1> USE DEF queueVars, leaseVars, clearVars, Lifecycle!Next
<1>1. ASSUME NEW o \in Orders, PublishOnce(o) PROVE Lifecycle!Next
    BY <1>1, PublishAccepts
<1>2. ASSUME NEW w \in Workers, NEW l \in LeaseIds, Claim(w, l) PROVE Lifecycle!Next
    BY <1>2, ClaimHands
<1>3. ASSUME NEW l \in LeaseIds, NEW w \in Workers, NEW s \in Sessions, AckOrder(l, w, s)
      PROVE  Lifecycle!Next
    BY <1>3, AckAcknowledges
<1>4. ASSUME NEW l \in LeaseIds, NEW w \in Workers, NEW s \in Sessions, NakOrder(l, w, s)
      PROVE  Lifecycle!Next
    BY <1>4, NakReturns
<1>5. ASSUME NEW l \in LeaseIds, SweepExpired(l) \/ ReclaimAbandoned(l)
      PROVE  Lifecycle!Next \/ UNCHANGED <<AbstractStatus, AbstractHolder>>
    BY <1>5, RequeueReturns DEF SweepExpired, ReclaimAbandoned
<1>6. CASE ClearPage
    BY <1>6, ClearWithdraws
<1>7. ASSUME UNCHANGED <<orders, accepted, acknowledged, cleared>>,
             DOMAIN leases' = DOMAIN leases,
             \A l \in DOMAIN leases : /\ leases'[l].order = leases[l].order
                                      /\ leases'[l].worker = leases[l].worker
                                      /\ leases'[l].deferred = leases[l].deferred
      PROVE  UNCHANGED <<AbstractStatus, AbstractHolder>>
    BY <1>7, AllStay DEF Stays
<1>8. ASSUME NEW w \in Workers, NEW s \in Sessions, Connect(w, s)
      PROVE  UNCHANGED <<AbstractStatus, AbstractHolder>>
    <2>1. /\ DOMAIN leases' = DOMAIN leases
          /\ \A l \in DOMAIN leases : /\ leases'[l].order = leases[l].order
                                       /\ leases'[l].worker = leases[l].worker
                                       /\ leases'[l].deferred = leases[l].deferred
        BY <1>0, <1>8 DEF Connect, LeasesTyped, LeaseRecord
    <2> QED
        BY <1>7, <1>8, <2>1 DEF Connect
<1>9. ASSUME NEW w \in Workers, HeartbeatCommit(w)
      PROVE  UNCHANGED <<AbstractStatus, AbstractHolder>>
    <2>1. /\ DOMAIN leases' = DOMAIN leases
          /\ \A l \in DOMAIN leases : /\ leases'[l].order = leases[l].order
                                       /\ leases'[l].worker = leases[l].worker
                                       /\ leases'[l].deferred = leases[l].deferred
        BY <1>0, <1>9 DEF HeartbeatCommit, LeasesTyped, LeaseRecord
    <2> QED
        BY <1>7, <1>9, <2>1 DEF HeartbeatCommit
<1>10. ASSUME NEW l \in LeaseIds, Age(l)
       PROVE  UNCHANGED <<AbstractStatus, AbstractHolder>>
    <2>1. /\ DOMAIN leases' = DOMAIN leases
          /\ \A k \in DOMAIN leases : /\ leases'[k].order = leases[k].order
                                       /\ leases'[k].worker = leases[k].worker
                                       /\ leases'[k].deferred = leases[k].deferred
        BY <1>0, <1>10 DEF Age, LeasesTyped, LeaseRecord
    <2> QED
        BY <1>7, <1>10, <2>1 DEF Age
<1>11. ASSUME NEW w \in Workers, NEW ids \in SUBSET LeaseIds,
              \/ Disconnect(w) \/ ForgetSession(w)
              \/ HeartbeatRead(w, ids) \/ HeartbeatFail(w)
       PROVE  UNCHANGED <<AbstractStatus, AbstractHolder>>
    BY <1>7, <1>11 DEF Disconnect, ForgetSession, HeartbeatRead, HeartbeatFail
<1>12. ASSUME NEW l \in LeaseIds, ExpireSettlement(l)
       PROVE  UNCHANGED <<AbstractStatus, AbstractHolder>>
    BY <1>7, <1>12 DEF ExpireSettlement
<1>13. CASE \/ SetAutomaticDiscoveryPriority \/ ClearBegin \/ ClearCancelled
            \/ Restart \/ UNCHANGED vars
    BY <1>7, <1>13 DEF SetAutomaticDiscoveryPriority, ClearBegin, ClearCancelled,
                       Restart, vars
<1> HIDE DEF Lifecycle!Next
<1> QED
    BY <1>1, <1>2, <1>3, <1>4, <1>5, <1>6, <1>8, <1>9, <1>10, <1>11, <1>12, <1>13
    DEF Next

(* The broker's queue, with its leases, sessions, deadlines, sweeps and    *)
(* restarts, implements the order lifecycle: an accepted order is held by  *)
(* one worker at a time, changes hands only by waiting again, and ends     *)
(* acknowledged by a worker that held it or withdrawn while it waited.     *)
THEOREM QueueImplementsLifecycle == Spec => ImplementsLifecycle
<1>1. Spec => []Inv
    BY Conservation, PTL DEF Inv
<1>2. Lifecycle!Spec <=>
          Lifecycle!Init /\ [][Lifecycle!Next]_<<AbstractStatus, AbstractHolder>>
    BY PTL DEF Lifecycle!Spec, AbstractStatus, AbstractHolder
<1> QED
    BY <1>1, <1>2, LifecycleInit, LifecycleStep, PTL DEF Spec, ImplementsLifecycle
=============================================================================
