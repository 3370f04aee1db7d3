------------------------------ MODULE OrderQueue ------------------------------
(***************************************************************************)
(* The node's durable crawl order queue (yagonode/internal/crawlbroker).   *)
(* Orders wait in a FIFO with two priorities, are leased to the crawler    *)
(* session that streams them, and are settled by an acknowledgment, put    *)
(* back by a negative acknowledgment, or reclaimed by the sweeper.         *)
(*                                                                         *)
(* Every action is one handler or one background step.  A transaction is   *)
(* atomic and durable: the queue has a bbolt file of its own, whatever     *)
(* vault the rest of the node uses.  `leaseMutation` serialises the lease  *)
(* mutations; the mutex of a worker's registry entry serialises that       *)
(* worker's connect, disconnect, claim and heartbeat.  Whatever the code   *)
(* keeps in memory only (the registry, the lease catalog, a heartbeat or a *)
(* clear in progress) is lost by Restart.                                  *)
(*                                                                         *)
(* Abstracted: the order bytes are an identity; the clock is a `term` per  *)
(* lease that any lease may advance on its own, so every relation between  *)
(* deadlines is possible; a transaction over a batch of leases is a        *)
(* sequence of steps for one lease each; the ownership records of keyed    *)
(* automatic discoveries, the rich terminal settlements and the control    *)
(* targets are other components.                                           *)
(***************************************************************************)
EXTENDS Integers, FiniteSets

CONSTANTS
    Orders,         \* order identities, one accepted publication each
    Automatic,      \* those published with automatic discovery priority
    Workers,        \* stable crawler identities
    Sessions,       \* process-session identities
    LeaseIds,       \* random lease identities: bounds the number of claims
    Capacity,       \* yagocrawlcontract.MaximumHeartbeatActiveLeases
    BurstLimit,     \* yagocrawlcontract.AutomaticDiscoveryPriorityBurst
    PageSize,       \* maximumPendingOrdersPerClearTransaction
    NoWorker, NoSession

ASSUME OrdersAssumption == Automatic \subseteq Orders
ASSUME LeaseIdsAssumption == IsFiniteSet(LeaseIds)
ASSUME LimitsAssumption ==
    Capacity \in Nat /\ BurstLimit \in Nat /\ PageSize \in Nat \ {0}
ASSUME NoneAssumption == NoWorker \notin Workers /\ NoSession \notin Sessions

VARIABLES
    orders,         \* pending orders by sequence number
    next,           \* the next sequence number
    accepted,       \* idempotency keys of the orders accepted so far
    burst,          \* automatic orders claimed in a row past a normal one
    prioritize,     \* whether automatic discovery has priority
    leases,         \* lease records by lease identity
    settlements,    \* remembered outcomes by lease identity
    catalog,        \* in memory: active leases per worker and session
    session,        \* in memory: the registered session of each worker
    connected,      \* in memory: whether that session's stream is open
    renewal,        \* in memory: lease renewal candidates of a heartbeat
    clearing,       \* in memory: progress of ClearPendingOrders
    issued,         \* history: lease identities handed out
    acknowledged,   \* history: orders settled by an acknowledgment
    cleared         \* history: orders removed by ClearPendingOrders

queueVars == <<orders, next, accepted, burst, prioritize>>
leaseVars == <<leases, settlements, catalog, issued, acknowledged>>
sessionVars == <<session, connected, renewal>>
clearVars == <<clearing, cleared>>
vars == <<queueVars, leaseVars, sessionVars, clearVars>>

-----------------------------------------------------------------------------
(* Collections of the vault: Put and Delete of one key.                    *)
Put(f, k, v) == [x \in DOMAIN f \cup {k} |-> IF x = k THEN v ELSE f[x]]
Delete(f, k) == [x \in DOMAIN f \ {k} |-> f[x]]

(* How far a lease is from its deadline: more than 3/4 of the lifetime     *)
(* left, due for renewal, past the deadline, past eight lifetimes more.    *)
Terms == {"fresh", "due", "expired", "abandoned"}
Live == {"fresh", "due"}

LeaseRecord ==
    [order : Orders, worker : Workers \cup {NoWorker}, session : Sessions,
     deferred : BOOLEAN, term : Terms]

Outcomes == {"acknowledged", "requeued"}

NoClear == [active |-> FALSE, cutoff |-> 0, from |-> 0]

Active(l) == ~leases[l].deferred /\ leases[l].worker # NoWorker

(* leaseRetainsCheckpointAffinity: session identities are never empty.     *)
RetainsCheckpointAffinity(l) == Active(l)

LiveLeaseOwnedBy(l, w, s) ==
    /\ ~leases[l].deferred
    /\ leases[l].worker = w
    /\ leases[l].session = s
    /\ leases[l].term \in Live

HeldBy(w, s) ==
    {l \in DOMAIN leases : Active(l) /\ leases[l].worker = w /\ leases[l].session = s}

(* storeLeaseSettlement: a remembered outcome is never contradicted.       *)
Settleable(l, outcome) == l \in DOMAIN settlements => settlements[l] = outcome

RecordLeaseSettlement(l, outcome) == settlements' = Put(settlements, l, outcome)

(* workerLeaseCatalog.add and .remove.                                     *)
CatalogAdd(w, s) == catalog' = [catalog EXCEPT ![<<w, s>>] = @ + 1]
CatalogRemove(l) ==
    catalog' = IF Active(l)
               THEN [catalog EXCEPT ![<<leases[l].worker, leases[l].session>>] =
                         IF @ > 0 THEN @ - 1 ELSE 0]
               ELSE catalog

(* Wrong: the counts of the worker's earlier sessions are left behind.     *)
CatalogReassignKeepsOld(w, s, held) == catalog' = [catalog EXCEPT ![<<w, s>>] = held]

(* workerLeaseCatalog.reassignWorker: one session holds all of w's leases. *)
CatalogReassign(w, s, held) ==
    catalog' = [p \in Workers \X Sessions |->
                   IF p[1] # w THEN catalog[p] ELSE IF p[2] = s THEN held ELSE 0]

Enqueue(o) ==
    /\ orders' = Put(orders, next, o)
    /\ next' = next + 1

TypeOK ==
    /\ DOMAIN orders \subseteq Nat /\ orders \in [DOMAIN orders -> Orders]
    /\ next \in Nat
    /\ accepted \subseteq Orders
    /\ burst \in Nat
    /\ prioritize \in BOOLEAN
    /\ DOMAIN leases \subseteq LeaseIds /\ leases \in [DOMAIN leases -> LeaseRecord]
    /\ DOMAIN settlements \subseteq LeaseIds
    /\ settlements \in [DOMAIN settlements -> Outcomes]
    /\ catalog \in [Workers \X Sessions -> Nat]
    /\ session \in [Workers -> Sessions \cup {NoSession}]
    /\ connected \in [Workers -> BOOLEAN]
    /\ renewal \in [Workers -> SUBSET LeaseIds]
    /\ clearing \in [active : BOOLEAN, cutoff : Nat, from : Nat]
    /\ issued \subseteq LeaseIds
    /\ acknowledged \subseteq Orders
    /\ cleared \subseteq Orders

Init ==
    /\ orders = << >> /\ next = 0 /\ accepted = {} /\ burst = 0 /\ prioritize \in BOOLEAN
    /\ leases = << >> /\ settlements = << >>
    /\ catalog = [p \in Workers \X Sessions |-> 0]
    /\ session = [w \in Workers |-> NoSession]
    /\ connected = [w \in Workers |-> FALSE]
    /\ renewal = [w \in Workers |-> {}]
    /\ clearing = NoClear
    /\ issued = {} /\ acknowledged = {} /\ cleared = {}

-----------------------------------------------------------------------------
(* Publication and selection.                                              *)

(* publishEncodedOrder: a key already accepted enqueues nothing.           *)
PublishOnce(o) ==
    /\ o \notin accepted
    /\ Enqueue(o)
    /\ accepted' = accepted \cup {o}
    /\ UNCHANGED <<burst, prioritize, leaseVars, sessionVars, clearVars>>

SetAutomaticDiscoveryPriority ==
    /\ prioritize' = ~prioritize
    /\ UNCHANGED <<orders, next, accepted, burst, leaseVars, sessionVars, clearVars>>

AutomaticPending == {n \in DOMAIN orders : orders[n] \in Automatic}
NormalPending == DOMAIN orders \ AutomaticPending

First(n, S) == n \in S /\ \A m \in S : n <= m

(* selectPendingOrder: which pending order the next claim takes ...        *)
Selected(n) ==
    IF ~prioritize THEN First(n, DOMAIN orders)
    ELSE IF AutomaticPending # {} /\ (NormalPending = {} \/ burst < BurstLimit)
         THEN First(n, AutomaticPending)
         ELSE First(n, NormalPending)

(* ... and the burst it leaves behind.                                     *)
NextBurst(n) ==
    IF prioritize /\ n \in AutomaticPending /\ NormalPending # {} THEN burst + 1 ELSE 0

(* Wrong: the capacity check lets one lease too many through.              *)
ClaimPastCapacity(w, l) ==
    /\ connected[w]
    /\ renewal[w] = {}
    /\ catalog[<<w, session[w]>>] <= Capacity
    /\ l \notin issued
    /\ \E n \in DOMAIN orders :
          /\ Selected(n)
          /\ orders' = Delete(orders, n)
          /\ burst' = NextBurst(n)
          /\ leases' = Put(leases, l,
                [order |-> orders[n], worker |-> w, session |-> session[w],
                 deferred |-> FALSE, term |-> "fresh"])
    /\ issued' = issued \cup {l}
    /\ CatalogAdd(w, session[w])
    /\ UNCHANGED <<next, accepted, prioritize, settlements, acknowledged,
                   sessionVars, clearVars>>

(* Wrong: the claimed order stays in the pending bucket.                   *)
ClaimKeepsPending(w, l) ==
    /\ connected[w]
    /\ renewal[w] = {}
    /\ catalog[<<w, session[w]>>] < Capacity
    /\ l \notin issued
    /\ \E n \in DOMAIN orders :
          /\ Selected(n)
          /\ burst' = NextBurst(n)
          /\ leases' = Put(leases, l,
                [order |-> orders[n], worker |-> w, session |-> session[w],
                 deferred |-> FALSE, term |-> "fresh"])
    /\ issued' = issued \cup {l}
    /\ CatalogAdd(w, session[w])
    /\ UNCHANGED <<orders, next, accepted, prioritize, settlements, acknowledged,
                   sessionVars, clearVars>>

(* leaseNextForSession: the stream of the registered session claims the    *)
(* selected order under a fresh lease, unless the session is at capacity.  *)
Claim(w, l) ==
    /\ connected[w]
    /\ renewal[w] = {}
    /\ catalog[<<w, session[w]>>] < Capacity
    /\ l \notin issued
    /\ \E n \in DOMAIN orders :
          /\ Selected(n)
          /\ orders' = Delete(orders, n)
          /\ burst' = NextBurst(n)
          /\ leases' = Put(leases, l,
                [order |-> orders[n], worker |-> w, session |-> session[w],
                 deferred |-> FALSE, term |-> "fresh"])
    /\ issued' = issued \cup {l}
    /\ CatalogAdd(w, session[w])
    /\ UNCHANGED <<next, accepted, prioritize, settlements, acknowledged,
                   sessionVars, clearVars>>

-----------------------------------------------------------------------------
(* Sessions and heartbeats.                                                *)

(* Wrong: a lease past its deadline stays with the old session.            *)
AdoptedWhileLive(w) ==
    {l \in DOMAIN leases :
        leases[l].worker = w /\ ~leases[l].deferred /\ leases[l].term \in Live}

(* adoptWorkerSession: the leases that follow a worker to its new session. *)
Adopted(w) == {l \in DOMAIN leases : leases[l].worker = w /\ ~leases[l].deferred}

(* activateWorkerSession: refused while a stream of the worker is open;    *)
(* otherwise every undeferred lease of the worker is renewed and reassigned*)
(* to the new session, together with the catalog.                          *)
Connect(w, s) ==
    /\ ~connected[w]
    /\ renewal[w] = {}
    /\ leases' = [l \in DOMAIN leases |->
                     IF l \in Adopted(w)
                     THEN [leases[l] EXCEPT !.session = s, !.term = "fresh"]
                     ELSE leases[l]]
    /\ CatalogReassign(w, s, Cardinality(Adopted(w)))
    /\ session' = [session EXCEPT ![w] = s]
    /\ connected' = [connected EXCEPT ![w] = TRUE]
    /\ UNCHANGED <<queueVars, settlements, issued, acknowledged, renewal, clearVars>>

(* deactivate, when the stream handler returns for whatever reason: the    *)
(* session stays registered and keeps its leases.                          *)
Disconnect(w) ==
    /\ connected[w]
    /\ renewal[w] = {}
    /\ connected' = [connected EXCEPT ![w] = FALSE]
    /\ UNCHANGED <<queueVars, leaseVars, session, renewal, clearVars>>

(* removeExpiredInactiveLocked: a full registry forgets idle workers.      *)
ForgetSession(w) ==
    /\ ~connected[w]
    /\ renewal[w] = {}
    /\ session[w] # NoSession
    /\ session' = [session EXCEPT ![w] = NoSession]
    /\ UNCHANGED <<queueVars, leaseVars, connected, renewal, clearVars>>

(* renewLeases, first phase: under the read lock the heartbeat collects    *)
(* the listed leases it still owns; it goes on to write only when one of   *)
(* them is due.                                                            *)
RenewalCandidates(w, ids) ==
    {l \in ids \cap DOMAIN leases : LiveLeaseOwnedBy(l, w, session[w])}

HeartbeatRead(w, ids) ==
    /\ session[w] # NoSession
    /\ renewal[w] = {}
    /\ \E l \in RenewalCandidates(w, ids) : leases[l].term = "due"
    /\ renewal' = [renewal EXCEPT ![w] = RenewalCandidates(w, ids)]
    /\ UNCHANGED <<queueVars, leaseVars, session, connected, clearVars>>

(* Wrong: the candidates are extended as they were read.                   *)
HeartbeatCommitUnverified(w) ==
    /\ renewal[w] # {}
    /\ leases' = [l \in DOMAIN leases |->
                     IF l \in renewal[w] THEN [leases[l] EXCEPT !.term = "fresh"]
                     ELSE leases[l]]
    /\ renewal' = [renewal EXCEPT ![w] = {}]
    /\ UNCHANGED <<queueVars, settlements, catalog, issued, acknowledged,
                   session, connected, clearVars>>

(* commitLeaseRenewals, second phase: the lock was released in between, so *)
(* each candidate is read and verified again before it is extended.        *)
HeartbeatCommit(w) ==
    /\ renewal[w] # {}
    /\ leases' = [l \in DOMAIN leases |->
                     IF l \in renewal[w] /\ LiveLeaseOwnedBy(l, w, session[w])
                     THEN [leases[l] EXCEPT !.term = "fresh"]
                     ELSE leases[l]]
    /\ renewal' = [renewal EXCEPT ![w] = {}]
    /\ UNCHANGED <<queueVars, settlements, catalog, issued, acknowledged,
                   session, connected, clearVars>>

(* The write fails or its request is cancelled: nothing is extended.       *)
HeartbeatFail(w) ==
    /\ renewal[w] # {}
    /\ renewal' = [renewal EXCEPT ![w] = {}]
    /\ UNCHANGED <<queueVars, leaseVars, session, connected, clearVars>>

-----------------------------------------------------------------------------
(* Settlement and recovery.                                                *)

(* Wrong: any remembered outcome is taken for an acknowledgment.           *)
AckAnswerAnyOutcome(l, w, s) ==
    IF l \notin DOMAIN leases
    THEN IF l \in DOMAIN settlements THEN "settled" ELSE "conflict"
    ELSE IF leases[l].deferred THEN "conflict"
    ELSE IF ~LiveLeaseOwnedBy(l, w, s) THEN "lost"
    ELSE "settle"

(* acknowledgeLeaseTx: what an acknowledgment of l by session s of w gets. *)
AckAnswer(l, w, s) ==
    IF l \notin DOMAIN leases
    THEN IF l \in DOMAIN settlements /\ settlements[l] = "acknowledged"
         THEN "settled" ELSE "conflict"
    ELSE IF leases[l].deferred THEN "conflict"
    ELSE IF ~LiveLeaseOwnedBy(l, w, s) THEN "lost"
    ELSE "settle"

(* AckOrder: the live owner's acknowledgment deletes the lease for good;   *)
(* every other answer changes nothing.                                     *)
AckOrder(l, w, s) ==
    /\ AckAnswer(l, w, s) = "settle"
    /\ Settleable(l, "acknowledged")
    /\ leases' = Delete(leases, l)
    /\ RecordLeaseSettlement(l, "acknowledged")
    /\ acknowledged' = acknowledged \cup {leases[l].order}
    /\ CatalogRemove(l)
    /\ UNCHANGED <<queueVars, issued, sessionVars, clearVars>>

(* negativeAcknowledgmentLease: what a negative acknowledgment gets.       *)
NakAnswer(l, w, s) ==
    IF l \notin DOMAIN leases THEN "conflict"
    ELSE IF leases[l].worker = NoWorker
         THEN IF leases[l].deferred THEN "settled" ELSE "conflict"
    ELSE IF ~LiveLeaseOwnedBy(l, w, s) THEN "lost"
    ELSE "settle"

(* Wrong: the session is cleared together with the worker.                 *)
NakOrderClearsSession(l, w, s) ==
    /\ NakAnswer(l, w, s) = "settle"
    /\ Settleable(l, "requeued")
    /\ RecordLeaseSettlement(l, "requeued")
    /\ leases' = [leases EXCEPT ![l].worker = NoWorker, ![l].session = NoSession,
                                ![l].deferred = TRUE, ![l].term = "fresh"]
    /\ CatalogRemove(l)
    /\ UNCHANGED <<queueVars, issued, acknowledged, sessionVars, clearVars>>

(* Wrong: the order is put back at once and the lease kept as well.        *)
NakOrderEnqueues(l, w, s) ==
    /\ NakAnswer(l, w, s) = "settle"
    /\ Settleable(l, "requeued")
    /\ RecordLeaseSettlement(l, "requeued")
    /\ leases' = [leases EXCEPT ![l].worker = NoWorker, ![l].deferred = TRUE,
                                ![l].term = "fresh"]
    /\ Enqueue(leases[l].order)
    /\ CatalogRemove(l)
    /\ UNCHANGED <<accepted, burst, prioritize, issued, acknowledged, sessionVars,
                   clearVars>>

(* AckOrder with requeue: the owner is cleared and the lease waits out the *)
(* retry delay; the sweeper puts the order back afterwards.                *)
NakOrder(l, w, s) ==
    /\ NakAnswer(l, w, s) = "settle"
    /\ Settleable(l, "requeued")
    /\ RecordLeaseSettlement(l, "requeued")
    /\ leases' = [leases EXCEPT ![l].worker = NoWorker, ![l].deferred = TRUE,
                                ![l].term = "fresh"]
    /\ CatalogRemove(l)
    /\ UNCHANGED <<queueVars, issued, acknowledged, sessionVars, clearVars>>

(* Wrong: the order of a deferred lease is taken to be back already.       *)
RequeueLeaseSkipsDeferred(l) ==
    /\ Settleable(l, "requeued")
    /\ leases' = Delete(leases, l)
    /\ IF leases[l].deferred THEN UNCHANGED <<orders, next>> ELSE Enqueue(leases[l].order)
    /\ RecordLeaseSettlement(l, "requeued")
    /\ CatalogRemove(l)
    /\ UNCHANGED <<accepted, burst, prioritize, issued, acknowledged,
                   sessionVars, clearVars>>

(* requeueLeaseTx: delete the lease, enqueue its order at the tail,        *)
(* remember the outcome; the scan that found the lease is verified again   *)
(* inside the transaction, which is this step.                             *)
RequeueLease(l) ==
    /\ Settleable(l, "requeued")
    /\ leases' = Delete(leases, l)
    /\ Enqueue(leases[l].order)
    /\ RecordLeaseSettlement(l, "requeued")
    /\ CatalogRemove(l)
    /\ UNCHANGED <<accepted, burst, prioritize, issued, acknowledged,
                   sessionVars, clearVars>>

(* Wrong: only leases that still name a worker are swept.                  *)
SweepExpiredOwned(l) ==
    /\ l \in DOMAIN leases
    /\ leases[l].worker # NoWorker
    /\ ~RetainsCheckpointAffinity(l)
    /\ leases[l].term \notin Live
    /\ RequeueLease(l)

(* sweepExpired: leases past their deadline that no worker can resume.     *)
SweepExpired(l) ==
    /\ l \in DOMAIN leases
    /\ ~RetainsCheckpointAffinity(l)
    /\ leases[l].term \notin Live
    /\ RequeueLease(l)

(* Wrong: only the leases of registered workers are reclaimed.             *)
ReclaimAbandonedRegistered(l) ==
    /\ l \in DOMAIN leases
    /\ RetainsCheckpointAffinity(l)
    /\ session[leases[l].worker] # NoSession
    /\ leases[l].term = "abandoned"
    /\ RequeueLease(l)

(* reclaimAbandonedLeases: leases whose worker stayed away too long.       *)
ReclaimAbandoned(l) ==
    /\ l \in DOMAIN leases
    /\ RetainsCheckpointAffinity(l)
    /\ leases[l].term = "abandoned"
    /\ RequeueLease(l)

(* deleteExpiredLeaseSettlementTx: the 24 hour memory ends, except while   *)
(* the lease itself is still stored.                                       *)
ExpireSettlement(l) ==
    /\ l \in DOMAIN settlements
    /\ l \notin DOMAIN leases
    /\ settlements' = Delete(settlements, l)
    /\ UNCHANGED <<queueVars, leases, catalog, issued, acknowledged,
                   sessionVars, clearVars>>

(* ClearPendingOrders: the cutoff is read once, then pages of pending      *)
(* orders below it are deleted, one transaction each.                      *)
ClearBegin ==
    /\ ~clearing.active
    /\ clearing' = [active |-> TRUE, cutoff |-> next, from |-> 0]
    /\ UNCHANGED <<queueVars, leaseVars, sessionVars, cleared>>

(* Wrong: the whole page goes, whenever its orders were enqueued.          *)
DoomedWholePage ==
    LET rest == {n \in DOMAIN orders : n >= clearing.from}
    IN {n \in rest : Cardinality({m \in rest : m < n}) < PageSize}

(* ReadBucketPage: the first PageSize pending orders not read yet.         *)
PageRest == {n \in DOMAIN orders : n >= clearing.from}
Page == {n \in PageRest : Cardinality({m \in PageRest : m < n}) < PageSize}
Doomed == {n \in Page : n < clearing.cutoff}

ClearPage ==
    /\ clearing.active
    /\ orders' = [n \in DOMAIN orders \ Doomed |-> orders[n]]
    /\ cleared' = cleared \cup {orders[n] : n \in Doomed}
    /\ IF Page = PageRest \/ Doomed # Page
       THEN clearing' = NoClear
       ELSE \E last \in Doomed :
               /\ \A n \in Doomed : n <= last
               /\ clearing' = [clearing EXCEPT !.from = last + 1]
    /\ UNCHANGED <<next, accepted, burst, prioritize, leaseVars, sessionVars>>

(* The request is cancelled between two pages.                             *)
ClearCancelled ==
    /\ clearing.active
    /\ clearing' = NoClear
    /\ UNCHANGED <<queueVars, leaseVars, sessionVars, cleared>>

-----------------------------------------------------------------------------
(* The environment.                                                        *)

Later(l) ==
    CASE leases[l].deferred -> "expired"
      [] ~leases[l].deferred /\ leases[l].term = "fresh" -> "due"
      [] ~leases[l].deferred /\ leases[l].term = "due" -> "expired"
      [] OTHER -> "abandoned"

(* Time passes for a lease.                                                *)
Age(l) ==
    /\ l \in DOMAIN leases
    /\ leases[l].term # Later(l)
    /\ leases' = [leases EXCEPT ![l].term = Later(l)]
    /\ UNCHANGED <<queueVars, settlements, catalog, issued, acknowledged,
                   sessionVars, clearVars>>

(* The node stops and opens again: loadWorkerLeaseCatalog counts the       *)
(* durable leases, the registry starts empty, the priority is configured.  *)
(* The sweep Open runs before it serves is the SweepExpired steps that     *)
(* follow; a later one is a lease that expired after that sweep looked.    *)
Restart ==
    /\ catalog' = [p \in Workers \X Sessions |-> Cardinality(HeldBy(p[1], p[2]))]
    /\ session' = [w \in Workers |-> NoSession]
    /\ connected' = [w \in Workers |-> FALSE]
    /\ renewal' = [w \in Workers |-> {}]
    /\ clearing' = NoClear
    /\ prioritize' \in BOOLEAN
    /\ UNCHANGED <<orders, next, accepted, burst, leases, settlements, issued,
                   acknowledged, cleared>>

Next ==
    \/ \E o \in Orders : PublishOnce(o)
    \/ SetAutomaticDiscoveryPriority
    \/ \E w \in Workers, l \in LeaseIds : Claim(w, l)
    \/ \E w \in Workers, s \in Sessions : Connect(w, s)
    \/ \E w \in Workers : Disconnect(w) \/ ForgetSession(w)
    \/ \E w \in Workers, ids \in SUBSET LeaseIds : HeartbeatRead(w, ids)
    \/ \E w \in Workers : HeartbeatCommit(w) \/ HeartbeatFail(w)
    \/ \E l \in LeaseIds, w \in Workers, s \in Sessions :
          AckOrder(l, w, s) \/ NakOrder(l, w, s)
    \/ \E l \in LeaseIds :
          SweepExpired(l) \/ ReclaimAbandoned(l) \/ ExpireSettlement(l) \/ Age(l)
    \/ ClearBegin \/ ClearPage \/ ClearCancelled
    \/ Restart

Spec == Init /\ [][Next]_vars

(* The sweeper runs at a fixed interval for as long as the node is open,   *)
(* and time passes for every lease.  Nothing is assumed of the crawlers.   *)
Fairness ==
    \A l \in LeaseIds :
        WF_vars(SweepExpired(l)) /\ WF_vars(ReclaimAbandoned(l)) /\ WF_vars(Age(l))

FairSpec == Spec /\ Fairness

-----------------------------------------------------------------------------
(* Properties.                                                             *)

(* At-least-once delivery: an order the node accepted is acknowledged,     *)
(* cleared by the operator, pending or leased; no interleaving of claims,  *)
(* settlements, sweeps, adoptions and crashes loses it.                    *)
NoOrderLost ==
    \A o \in accepted :
        \/ o \in acknowledged
        \/ o \in cleared
        \/ \E n \in DOMAIN orders : orders[n] = o
        \/ \E l \in DOMAIN leases : leases[l].order = o

(* An order is in one place only: never pending twice, under two leases,   *)
(* pending and leased, or still around once it was acknowledged or cleared.*)
(* This is why an acknowledgment that arrives after a requeue is refused.  *)
NoOrderDuplicated ==
    /\ \A m, n \in DOMAIN orders : orders[m] = orders[n] => m = n
    /\ \A k, l \in DOMAIN leases : leases[k].order = leases[l].order => k = l
    /\ \A n \in DOMAIN orders, l \in DOMAIN leases : orders[n] # leases[l].order
    /\ \A n \in DOMAIN orders : orders[n] \notin acknowledged \cup cleared
    /\ \A l \in DOMAIN leases : leases[l].order \notin acknowledged \cup cleared
    /\ acknowledged \cap cleared = {}

(* As long as the outcome of a lease is remembered, an acknowledgment of   *)
(* it repeats that outcome: success after an acknowledgment whose response *)
(* was lost, refusal once the order was given back.                        *)
AckRepeatsOutcome ==
    \A l \in DOMAIN settlements, w \in Workers, s \in Sessions :
        AckAnswer(l, w, s) =
            IF settlements[l] = "acknowledged" THEN "settled" ELSE "conflict"

(* A registered session owns every active lease of its worker, so a stale  *)
(* session of that worker can neither settle nor renew any of them.        *)
StaleSessionsFenced ==
    \A l \in DOMAIN leases :
        Active(l) /\ session[leases[l].worker] # NoSession
            => leases[l].session = session[leases[l].worker]

(* The in-memory catalog, updated after each commit and rebuilt when the   *)
(* node opens, counts exactly the durable active leases.                   *)
CatalogMatchesLeases ==
    \A w \in Workers, s \in Sessions : catalog[<<w, s>>] = Cardinality(HeldBy(w, s))

(* A worker never holds more leases than a reconnect may replay: beyond    *)
(* that streamRecoveredOrders refuses the worker's every later stream.     *)
ReplayWithinCapacity == \A w \in Workers : Cardinality(Adopted(w)) <= Capacity

(* A lease past its deadline comes back to life only through a reconnect   *)
(* of its worker, never through a heartbeat that read it before it expired.*)
ExpiredRevivedOnlyByAdoption ==
    [][\A l \in DOMAIN leases \cap DOMAIN leases' :
          leases[l].term \notin Live /\ leases'[l].term \in Live
              => \E w \in Workers : ~connected[w] /\ connected'[w] /\ leases'[l].worker = w
      ]_vars

(* A clear that runs to its end leaves nothing pending below its cutoff,   *)
(* and no clear removes an order enqueued after the cutoff was read.       *)
ClearRemovesExactlyTheBacklog ==
    [][ClearPage =>
          /\ \A n \in DOMAIN orders \ DOMAIN orders' : n < clearing.cutoff
          /\ ~clearing'.active => \A n \in DOMAIN orders' : n >= clearing.cutoff
      ]_vars

(* A negatively acknowledged order returns to the queue.                   *)
DeferredLeaseRequeued ==
    \A l \in LeaseIds :
        (l \in DOMAIN leases /\ leases[l].deferred) ~> (l \notin DOMAIN leases)

(* The leases of a worker that never comes back are reclaimed.             *)
AbsentWorkerReclaimed ==
    \A w \in Workers :
        <>[](~connected[w] /\ renewal[w] = {}) => <>[](Adopted(w) = {})

=============================================================================
