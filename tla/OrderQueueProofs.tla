-------------------------- MODULE OrderQueueProofs --------------------------
(***************************************************************************)
(* Theorems about the order queue, for every number of orders, workers,    *)
(* sessions and leases and every value of the limits.                      *)
(***************************************************************************)
EXTENDS OrderQueue, FiniteSetTheorems, TLAPS

-----------------------------------------------------------------------------
(* What Put and Delete do to a partial function.                           *)

LEMMA PutFacts ==
    ASSUME NEW f, NEW k, NEW v
    PROVE  /\ DOMAIN Put(f, k, v) = DOMAIN f \cup {k}
           /\ Put(f, k, v)[k] = v
           /\ \A x \in DOMAIN f : x # k => Put(f, k, v)[x] = f[x]
BY DEF Put

LEMMA PutType ==
    ASSUME NEW f, NEW k, NEW v, NEW S, f \in [DOMAIN f -> S], v \in S
    PROVE  Put(f, k, v) \in [DOMAIN f \cup {k} -> S]
BY DEF Put

LEMMA DeleteFacts ==
    ASSUME NEW f, NEW k
    PROVE  /\ DOMAIN Delete(f, k) = DOMAIN f \ {k}
           /\ \A x \in DOMAIN f : x # k => Delete(f, k)[x] = f[x]
BY DEF Delete

LEMMA DeleteType ==
    ASSUME NEW f, NEW k, NEW S, f \in [DOMAIN f -> S]
    PROVE  Delete(f, k) \in [DOMAIN f \ {k} -> S]
BY DEF Delete

-----------------------------------------------------------------------------
(* Type correctness.  An open stream belongs to a registered session: that *)
(* is why the lease it claims names one.                                   *)

ConnectedRegistered == \A w \in Workers : connected[w] => session[w] \in Sessions

QueueTyped ==
    /\ DOMAIN orders \subseteq Nat /\ orders \in [DOMAIN orders -> Orders]
    /\ next \in Nat
    /\ accepted \subseteq Orders
    /\ burst \in Nat
    /\ prioritize \in BOOLEAN

LeasesTyped ==
    /\ DOMAIN leases \subseteq LeaseIds /\ leases \in [DOMAIN leases -> LeaseRecord]

SettlementsTyped ==
    /\ DOMAIN settlements \subseteq LeaseIds
    /\ settlements \in [DOMAIN settlements -> Outcomes]

CatalogTyped == catalog \in [Workers \X Sessions -> Nat]

SessionsTyped ==
    /\ session \in [Workers -> Sessions \cup {NoSession}]
    /\ connected \in [Workers -> BOOLEAN]
    /\ renewal \in [Workers -> SUBSET LeaseIds]
    /\ ConnectedRegistered

RestTyped ==
    /\ clearing \in [active : BOOLEAN, cutoff : Nat, from : Nat]
    /\ issued \subseteq LeaseIds
    /\ acknowledged \subseteq Orders
    /\ cleared \subseteq Orders

TypeInv ==
    /\ QueueTyped /\ LeasesTyped /\ SettlementsTyped /\ CatalogTyped
    /\ SessionsTyped /\ RestTyped

LEMMA TypeInvGivesTypeOK == TypeInv => TypeOK
BY DEF TypeInv, TypeOK, QueueTyped, LeasesTyped, SettlementsTyped, CatalogTyped,
       SessionsTyped, RestTyped

LEMMA TypeInit == Init => TypeInv
<1> SUFFICES ASSUME Init PROVE TypeInv
    OBVIOUS
<1> USE NoneAssumption
<1>1. QueueTyped /\ LeasesTyped /\ SettlementsTyped
    BY DEF Init, QueueTyped, LeasesTyped, SettlementsTyped
<1>2. CatalogTyped
    BY DEF Init, CatalogTyped
<1>3. SessionsTyped
    BY DEF Init, SessionsTyped, ConnectedRegistered
<1>4. RestTyped
    BY DEF Init, RestTyped, NoClear
<1> QED
    BY <1>1, <1>2, <1>3, <1>4 DEF TypeInv

(* Enqueueing an order keeps the pending bucket well typed.                *)
LEMMA EnqueueTyped ==
    ASSUME QueueTyped, NEW o \in Orders, Enqueue(o)
    PROVE  /\ DOMAIN orders' \subseteq Nat /\ orders' \in [DOMAIN orders' -> Orders]
           /\ next' \in Nat
<1>1. DOMAIN orders' = DOMAIN orders \cup {next}
    BY PutFacts DEF Enqueue
<1>2. orders' \in [DOMAIN orders \cup {next} -> Orders]
    BY PutType DEF Enqueue, QueueTyped
<1> QED
    BY <1>1, <1>2 DEF Enqueue, QueueTyped

(* So does removing a lease from the catalog.                              *)
LEMMA CatalogRemoveTyped ==
    ASSUME LeasesTyped, CatalogTyped, NEW l \in DOMAIN leases, CatalogRemove(l)
    PROVE  CatalogTyped'
<1>1. CASE Active(l)
    <2>1. leases[l].worker \in Workers /\ leases[l].session \in Sessions
        BY <1>1 DEF Active, LeasesTyped, LeaseRecord
    <2>2. catalog[<<leases[l].worker, leases[l].session>>] \in Nat
        BY <2>1 DEF CatalogTyped
    <2> DEFINE p == <<leases[l].worker, leases[l].session>>
               n == IF catalog[p] > 0 THEN catalog[p] - 1 ELSE 0
    <2>3. p \in Workers \X Sessions /\ n \in Nat
        BY <2>1, <2>2
    <2>4. catalog' = [catalog EXCEPT ![p] = n]
        BY <1>1 DEF CatalogRemove
    <2> HIDE DEF p, n
    <2> QED
        BY <2>3, <2>4 DEF CatalogTyped
<1>2. CASE ~Active(l)
    BY <1>2 DEF CatalogRemove, CatalogTyped
<1> QED
    BY <1>1, <1>2

LEMMA SettlementTyped ==
    ASSUME SettlementsTyped, NEW l \in LeaseIds, NEW outcome \in Outcomes,
           RecordLeaseSettlement(l, outcome)
    PROVE  SettlementsTyped'
<1>1. DOMAIN settlements' = DOMAIN settlements \cup {l}
    BY PutFacts DEF RecordLeaseSettlement
<1>2. settlements' \in [DOMAIN settlements \cup {l} -> Outcomes]
    BY PutType DEF RecordLeaseSettlement, SettlementsTyped
<1> QED
    BY <1>1, <1>2 DEF SettlementsTyped

(* Deleting a lease, and replacing the record of some leases.              *)
LEMMA LeaseDeleteTyped ==
    ASSUME LeasesTyped, NEW l, leases' = Delete(leases, l)
    PROVE  LeasesTyped'
<1>1. DOMAIN leases' = DOMAIN leases \ {l}
    BY DeleteFacts
<1>2. leases' \in [DOMAIN leases \ {l} -> LeaseRecord]
    BY DeleteType DEF LeasesTyped
<1> QED
    BY <1>1, <1>2 DEF LeasesTyped

LEMMA LeasePutTyped ==
    ASSUME LeasesTyped, NEW l \in LeaseIds, NEW r \in LeaseRecord,
           leases' = Put(leases, l, r)
    PROVE  LeasesTyped'
<1>1. DOMAIN leases' = DOMAIN leases \cup {l}
    BY PutFacts
<1>2. leases' \in [DOMAIN leases \cup {l} -> LeaseRecord]
    BY PutType DEF LeasesTyped
<1> QED
    BY <1>1, <1>2 DEF LeasesTyped

(* What an action leaves alone stays well typed.                           *)
LEMMA TypedUnchanged ==
    /\ QueueTyped /\ UNCHANGED queueVars => QueueTyped'
    /\ LeasesTyped /\ UNCHANGED leases => LeasesTyped'
    /\ SettlementsTyped /\ UNCHANGED settlements => SettlementsTyped'
    /\ CatalogTyped /\ UNCHANGED catalog => CatalogTyped'
    /\ SessionsTyped /\ UNCHANGED sessionVars => SessionsTyped'
    /\ RestTyped /\ UNCHANGED <<clearVars, issued, acknowledged>> => RestTyped'
<1>1. QueueTyped /\ UNCHANGED queueVars => QueueTyped'
    BY DEF queueVars, QueueTyped
<1>2. LeasesTyped /\ UNCHANGED leases => LeasesTyped'
    BY DEF LeasesTyped
<1>3. SettlementsTyped /\ UNCHANGED settlements => SettlementsTyped'
    BY DEF SettlementsTyped
<1>4. CatalogTyped /\ UNCHANGED catalog => CatalogTyped'
    BY DEF CatalogTyped
<1>5. SessionsTyped /\ UNCHANGED sessionVars => SessionsTyped'
    BY DEF sessionVars, SessionsTyped, ConnectedRegistered
<1>6. RestTyped /\ UNCHANGED <<clearVars, issued, acknowledged>> => RestTyped'
    BY DEF clearVars, RestTyped
<1> QED
    BY <1>1, <1>2, <1>3, <1>4, <1>5, <1>6

LEMMA RequeueTyped ==
    ASSUME TypeInv, NEW l \in DOMAIN leases, RequeueLease(l)
    PROVE  TypeInv'
<1> USE DEF RequeueLease, queueVars, sessionVars, clearVars
<1>0. /\ QueueTyped /\ LeasesTyped /\ SettlementsTyped /\ CatalogTyped
      /\ SessionsTyped /\ RestTyped
    BY DEF TypeInv
<1>1. leases[l].order \in Orders /\ l \in LeaseIds
    BY <1>0 DEF LeasesTyped, LeaseRecord
<1>2. /\ DOMAIN orders' \subseteq Nat /\ orders' \in [DOMAIN orders' -> Orders]
      /\ next' \in Nat
    BY <1>0, <1>1, EnqueueTyped
<1>21. QueueTyped'
    BY <1>0, <1>2 DEF QueueTyped
<1>3. LeasesTyped'
    BY <1>0, LeaseDeleteTyped
<1>4. SettlementsTyped'
    BY <1>0, <1>1, SettlementTyped DEF Outcomes
<1>5. CatalogTyped'
    BY <1>0, CatalogRemoveTyped
<1>6. SessionsTyped' /\ RestTyped'
    BY <1>0 DEF SessionsTyped, ConnectedRegistered, RestTyped
<1> QED
    BY <1>21, <1>3, <1>4, <1>5, <1>6 DEF TypeInv

LEMMA TypeStep == TypeInv /\ [Next]_vars => TypeInv'
<1> SUFFICES ASSUME TypeInv, [Next]_vars PROVE TypeInv'
    OBVIOUS
<1>0. /\ QueueTyped /\ LeasesTyped /\ SettlementsTyped /\ CatalogTyped
      /\ SessionsTyped /\ RestTyped
    BY DEF TypeInv
<1> USE TypedUnchanged DEF TypeInv
<1>1. ASSUME NEW o \in Orders, PublishOnce(o) PROVE TypeInv'
    <2>1. /\ DOMAIN orders' \subseteq Nat /\ orders' \in [DOMAIN orders' -> Orders]
          /\ next' \in Nat
        BY <1>0, <1>1, EnqueueTyped DEF PublishOnce
    <2>2. QueueTyped'
        BY <1>0, <1>1, <2>1 DEF PublishOnce, QueueTyped
    <2> QED
        BY <1>0, <1>1, <2>2 DEF PublishOnce, leaseVars
<1>2. CASE SetAutomaticDiscoveryPriority
    <2>1. QueueTyped'
        BY <1>0, <1>2 DEF SetAutomaticDiscoveryPriority, QueueTyped
    <2> QED
        BY <1>0, <1>2, <2>1 DEF SetAutomaticDiscoveryPriority, leaseVars
<1>3. ASSUME NEW w \in Workers, NEW l \in LeaseIds, Claim(w, l) PROVE TypeInv'
    <2>1. session[w] \in Sessions
        BY <1>0, <1>3 DEF Claim, SessionsTyped, ConnectedRegistered
    <2>2. PICK n \in DOMAIN orders :
              /\ orders' = Delete(orders, n)
              /\ burst' = NextBurst(n)
              /\ leases' = Put(leases, l,
                    [order |-> orders[n], worker |-> w, session |-> session[w],
                     deferred |-> FALSE, term |-> "fresh"])
        BY <1>3 DEF Claim
    <2>3. NextBurst(n) \in Nat
        BY <1>0 DEF NextBurst, QueueTyped
    <2>4. DOMAIN orders' = DOMAIN orders \ {n}
        BY <2>2, DeleteFacts
    <2>5. orders' \in [DOMAIN orders \ {n} -> Orders]
        BY <1>0, <2>2, DeleteType DEF QueueTyped
    <2>6. QueueTyped'
        BY <1>0, <1>3, <2>2, <2>3, <2>4, <2>5 DEF Claim, QueueTyped
    <2>7. [order |-> orders[n], worker |-> w, session |-> session[w],
           deferred |-> FALSE, term |-> "fresh"] \in LeaseRecord
        BY <1>0, <2>1 DEF LeaseRecord, Terms, QueueTyped
    <2>8. LeasesTyped'
        BY <1>0, <2>2, <2>7, LeasePutTyped
    <2>9. CatalogTyped'
        BY <1>0, <1>3, <2>1 DEF Claim, CatalogAdd, CatalogTyped
    <2>10. RestTyped'
        BY <1>0, <1>3 DEF Claim, clearVars, RestTyped
    <2> QED
        BY <1>0, <1>3, <2>6, <2>8, <2>9, <2>10 DEF Claim
<1>4. ASSUME NEW w \in Workers, NEW s \in Sessions, Connect(w, s) PROVE TypeInv'
    <2>1. LeasesTyped'
        <3>1. \A l \in DOMAIN leases :
                  [leases[l] EXCEPT !.session = s, !.term = "fresh"] \in LeaseRecord
            BY <1>0 DEF LeasesTyped, LeaseRecord, Terms
        <3> QED
            BY <1>0, <1>4, <3>1 DEF Connect, LeasesTyped
    <2>2. Cardinality(Adopted(w)) \in Nat
        BY <1>0, LeaseIdsAssumption, FS_Subset, FS_CardinalityType DEF Adopted, LeasesTyped
    <2>3. CatalogTyped'
        BY <1>0, <1>4, <2>2 DEF Connect, CatalogReassign, CatalogTyped
    <2>4. SessionsTyped'
        BY <1>0, <1>4 DEF Connect, SessionsTyped, ConnectedRegistered
    <2> QED
        BY <1>0, <1>4, <2>1, <2>3, <2>4 DEF Connect
<1>5. ASSUME NEW w \in Workers, Disconnect(w) PROVE TypeInv'
    <2>1. SessionsTyped'
        BY <1>0, <1>5 DEF Disconnect, SessionsTyped, ConnectedRegistered
    <2> QED
        BY <1>0, <1>5, <2>1 DEF Disconnect, leaseVars
<1>6. ASSUME NEW w \in Workers, ForgetSession(w) PROVE TypeInv'
    <2>1. SessionsTyped'
        BY <1>0, <1>6 DEF ForgetSession, SessionsTyped, ConnectedRegistered
    <2> QED
        BY <1>0, <1>6, <2>1 DEF ForgetSession, leaseVars
<1>7. ASSUME NEW w \in Workers, NEW ids \in SUBSET LeaseIds, HeartbeatRead(w, ids)
      PROVE  TypeInv'
    <2>1. RenewalCandidates(w, ids) \in SUBSET LeaseIds
        BY DEF RenewalCandidates
    <2>2. SessionsTyped'
        BY <1>0, <1>7, <2>1 DEF HeartbeatRead, SessionsTyped, ConnectedRegistered
    <2> QED
        BY <1>0, <1>7, <2>2 DEF HeartbeatRead, leaseVars
<1>8. ASSUME NEW w \in Workers, HeartbeatCommit(w) PROVE TypeInv'
    <2>1. LeasesTyped'
        <3>1. \A l \in DOMAIN leases : [leases[l] EXCEPT !.term = "fresh"] \in LeaseRecord
            BY <1>0 DEF LeasesTyped, LeaseRecord, Terms
        <3> QED
            BY <1>0, <1>8, <3>1 DEF HeartbeatCommit, LeasesTyped
    <2>2. SessionsTyped'
        BY <1>0, <1>8 DEF HeartbeatCommit, SessionsTyped, ConnectedRegistered
    <2> QED
        BY <1>0, <1>8, <2>1, <2>2 DEF HeartbeatCommit
<1>9. ASSUME NEW w \in Workers, HeartbeatFail(w) PROVE TypeInv'
    <2>1. SessionsTyped'
        BY <1>0, <1>9 DEF HeartbeatFail, SessionsTyped, ConnectedRegistered
    <2> QED
        BY <1>0, <1>9, <2>1 DEF HeartbeatFail, leaseVars
<1>10. ASSUME NEW l \in LeaseIds, NEW w \in Workers, NEW s \in Sessions, AckOrder(l, w, s)
       PROVE  TypeInv'
    <2>1. l \in DOMAIN leases
        BY <1>10 DEF AckOrder, AckAnswer
    <2>2. LeasesTyped'
        BY <1>0, <1>10, LeaseDeleteTyped DEF AckOrder
    <2>3. SettlementsTyped'
        BY <1>0, <1>10, SettlementTyped DEF AckOrder, Outcomes
    <2>4. CatalogTyped'
        BY <1>0, <1>10, <2>1, CatalogRemoveTyped DEF AckOrder
    <2>5. RestTyped'
        BY <1>0, <1>10, <2>1 DEF AckOrder, clearVars, RestTyped, LeasesTyped, LeaseRecord
    <2> QED
        BY <1>0, <1>10, <2>2, <2>3, <2>4, <2>5 DEF AckOrder
<1>11. ASSUME NEW l \in LeaseIds, NEW w \in Workers, NEW s \in Sessions, NakOrder(l, w, s)
       PROVE  TypeInv'
    <2>1. l \in DOMAIN leases
        BY <1>11 DEF NakOrder, NakAnswer
    <2>2. LeasesTyped'
        <3>1. leases' = [leases EXCEPT ![l] =
                  [leases[l] EXCEPT !.worker = NoWorker, !.deferred = TRUE, !.term = "fresh"]]
            BY <1>0, <1>11, <2>1 DEF NakOrder, LeasesTyped, LeaseRecord
        <3>2. [leases[l] EXCEPT !.worker = NoWorker, !.deferred = TRUE, !.term = "fresh"]
                  \in LeaseRecord
            BY <1>0, <2>1 DEF LeasesTyped, LeaseRecord, Terms
        <3> QED
            BY <1>0, <2>1, <3>1, <3>2 DEF LeasesTyped
    <2>3. SettlementsTyped'
        BY <1>0, <1>11, SettlementTyped DEF NakOrder, Outcomes
    <2>4. CatalogTyped'
        BY <1>0, <1>11, <2>1, CatalogRemoveTyped DEF NakOrder
    <2> QED
        BY <1>0, <1>11, <2>2, <2>3, <2>4 DEF NakOrder
<1>12. ASSUME NEW l \in LeaseIds, SweepExpired(l) PROVE TypeInv'
    BY <1>12, RequeueTyped DEF SweepExpired
<1>13. ASSUME NEW l \in LeaseIds, ReclaimAbandoned(l) PROVE TypeInv'
    BY <1>13, RequeueTyped DEF ReclaimAbandoned
<1>14. ASSUME NEW l \in LeaseIds, ExpireSettlement(l) PROVE TypeInv'
    <2>1. DOMAIN settlements' = DOMAIN settlements \ {l}
        BY <1>14, DeleteFacts DEF ExpireSettlement
    <2>2. settlements' \in [DOMAIN settlements \ {l} -> Outcomes]
        BY <1>0, <1>14, DeleteType DEF ExpireSettlement, SettlementsTyped
    <2>3. SettlementsTyped'
        BY <1>0, <2>1, <2>2 DEF SettlementsTyped
    <2> QED
        BY <1>0, <1>14, <2>3 DEF ExpireSettlement
<1>15. ASSUME NEW l \in LeaseIds, Age(l) PROVE TypeInv'
    <2>1. Later(l) \in Terms
        BY DEF Later, Terms
    <2>2. LeasesTyped'
        <3>1. leases' = [leases EXCEPT ![l] = [leases[l] EXCEPT !.term = Later(l)]]
            BY <1>15 DEF Age
        <3>2. [leases[l] EXCEPT !.term = Later(l)] \in LeaseRecord
            BY <1>0, <1>15, <2>1 DEF Age, LeasesTyped, LeaseRecord
        <3> QED
            BY <1>0, <3>1, <3>2 DEF LeasesTyped
    <2> QED
        BY <1>0, <1>15, <2>2 DEF Age
<1>16. CASE ClearBegin
    <2>1. RestTyped'
        BY <1>0, <1>16 DEF ClearBegin, leaseVars, RestTyped, QueueTyped
    <2> QED
        BY <1>0, <1>16, <2>1 DEF ClearBegin, leaseVars
<1>17. CASE ClearPage
    <2>1. Doomed \subseteq DOMAIN orders
        BY DEF Doomed, Page, PageRest
    <2>2. QueueTyped'
        BY <1>0, <1>17 DEF ClearPage, QueueTyped
    <2>3. \A n \in Doomed : n + 1 \in Nat /\ orders[n] \in Orders
        BY <1>0, <2>1 DEF QueueTyped
    <2>4. clearing' \in [active : BOOLEAN, cutoff : Nat, from : Nat]
        <3>1. CASE Page = PageRest \/ Doomed # Page
            <4>1. clearing' = NoClear
                BY <1>17, <3>1 DEF ClearPage
            <4> QED
                BY <4>1 DEF NoClear
        <3>2. CASE ~(Page = PageRest \/ Doomed # Page)
            BY <1>0, <1>17, <2>3, <3>2 DEF ClearPage, RestTyped
        <3> QED
            BY <3>1, <3>2
    <2>5. RestTyped'
        BY <1>0, <1>17, <2>3, <2>4 DEF ClearPage, leaseVars, RestTyped
    <2> QED
        BY <1>0, <1>17, <2>2, <2>5 DEF ClearPage, leaseVars
<1>18. CASE ClearCancelled
    <2>1. RestTyped'
        BY <1>0, <1>18 DEF ClearCancelled, leaseVars, RestTyped, NoClear
    <2> QED
        BY <1>0, <1>18, <2>1 DEF ClearCancelled, leaseVars
<1>19. CASE Restart
    <2>1. QueueTyped'
        BY <1>0, <1>19 DEF Restart, QueueTyped
    <2>2. \A w \in Workers, s \in Sessions : Cardinality(HeldBy(w, s)) \in Nat
        BY <1>0, LeaseIdsAssumption, FS_Subset, FS_CardinalityType DEF HeldBy, LeasesTyped
    <2>3. CatalogTyped'
        BY <1>0, <1>19, <2>2 DEF Restart, CatalogTyped
    <2>4. SessionsTyped'
        BY <1>0, <1>19 DEF Restart, SessionsTyped, ConnectedRegistered
    <2>5. RestTyped'
        BY <1>0, <1>19 DEF Restart, RestTyped, NoClear
    <2> QED
        BY <1>0, <1>19, <2>1, <2>3, <2>4, <2>5 DEF Restart
<1>20. CASE UNCHANGED vars
    BY <1>0, <1>20 DEF vars, leaseVars
<1> QED
    BY <1>1, <1>2, <1>3, <1>4, <1>5, <1>6, <1>7, <1>8, <1>9, <1>10, <1>11, <1>12,
       <1>13, <1>14, <1>15, <1>16, <1>17, <1>18, <1>19, <1>20 DEF Next

(* Every state the queue reaches is well typed, whatever the environment,  *)
(* the crawlers and the crashes of the node do.                            *)
THEOREM TypeCorrect == Spec => []TypeOK
<1>1. Spec => []TypeInv
    BY TypeInit, TypeStep, PTL DEF Spec
<1> QED
    BY <1>1, TypeInvGivesTypeOK, PTL

-----------------------------------------------------------------------------
(* Conservation of orders.  Neither property is inductive on its own: that *)
(* a step does not duplicate an order needs that a fresh sequence number   *)
(* and a fresh lease identity overwrite nothing, that only accepted orders *)
(* are around, and that the order moved was nowhere else.                  *)

SequenceFresh == \A n \in DOMAIN orders : n < next

LeasesIssued == DOMAIN leases \subseteq issued

AcceptedOnly ==
    /\ \A n \in DOMAIN orders : orders[n] \in accepted
    /\ \A l \in DOMAIN leases : leases[l].order \in accepted
    /\ acknowledged \subseteq accepted
    /\ cleared \subseteq accepted

Conserved ==
    SequenceFresh /\ LeasesIssued /\ AcceptedOnly /\ NoOrderLost /\ NoOrderDuplicated

LEMMA ConservedInit == Init => Conserved
BY DEF Init, Conserved, SequenceFresh, LeasesIssued, AcceptedOnly, NoOrderLost,
       NoOrderDuplicated

(* A step that moves no order: it changes at most owners and deadlines.    *)
LEMMA ConservedMovesNothing ==
    ASSUME Conserved,
           UNCHANGED <<orders, next, accepted, issued, acknowledged, cleared>>,
           DOMAIN leases' = DOMAIN leases,
           \A l \in DOMAIN leases : leases'[l].order = leases[l].order
    PROVE  Conserved'
<1>1. SequenceFresh' /\ LeasesIssued' /\ AcceptedOnly'
    BY DEF Conserved, SequenceFresh, LeasesIssued, AcceptedOnly
<1>2. NoOrderLost'
    BY DEF Conserved, NoOrderLost
<1>3. NoOrderDuplicated'
    BY DEF Conserved, NoOrderDuplicated
<1> QED
    BY <1>1, <1>2, <1>3 DEF Conserved

(* A new sequence number overwrites no pending order.                      *)
LEMMA EnqueueFacts ==
    ASSUME TypeInv, SequenceFresh, NEW o, Enqueue(o)
    PROVE  /\ next \in Nat /\ DOMAIN orders \subseteq Nat
           /\ DOMAIN orders' = DOMAIN orders \cup {next} /\ next' = next + 1
           /\ orders'[next] = o
           /\ \A n \in DOMAIN orders : n # next /\ orders'[n] = orders[n]
<1>1. next \in Nat /\ DOMAIN orders \subseteq Nat
    BY DEF TypeInv, QueueTyped
<1>2. \A n \in DOMAIN orders : n # next
    BY <1>1 DEF SequenceFresh
<1>3. orders' = Put(orders, next, o) /\ next' = next + 1
    BY DEF Enqueue
<1> QED
    BY <1>1, <1>2, <1>3 DEF Put

LEMMA ConservedPublish ==
    ASSUME TypeInv, Conserved, NEW o \in Orders, PublishOnce(o)
    PROVE  Conserved'
<1>1. /\ next \in Nat /\ DOMAIN orders \subseteq Nat
      /\ DOMAIN orders' = DOMAIN orders \cup {next} /\ next' = next + 1
      /\ orders'[next] = o
      /\ \A n \in DOMAIN orders : n # next /\ orders'[n] = orders[n]
    BY EnqueueFacts DEF PublishOnce, Conserved
<1>2. /\ o \notin accepted /\ accepted' = accepted \cup {o}
      /\ UNCHANGED <<leases, issued, acknowledged, cleared>>
    BY DEF PublishOnce, leaseVars, clearVars
<1>3. SequenceFresh' /\ LeasesIssued' /\ AcceptedOnly'
    BY <1>1, <1>2 DEF Conserved, SequenceFresh, LeasesIssued, AcceptedOnly
<1>4. NoOrderLost'
    BY <1>1, <1>2 DEF Conserved, NoOrderLost
<1>5. NoOrderDuplicated'
    BY <1>1, <1>2 DEF Conserved, NoOrderDuplicated, AcceptedOnly
<1> QED
    BY <1>3, <1>4, <1>5 DEF Conserved

LEMMA ConservedClaim ==
    ASSUME TypeInv, Conserved, NEW w \in Workers, NEW l \in LeaseIds, Claim(w, l)
    PROVE  Conserved'
<1>1. PICK n \in DOMAIN orders :
          /\ orders' = Delete(orders, n)
          /\ leases' = Put(leases, l,
                [order |-> orders[n], worker |-> w, session |-> session[w],
                 deferred |-> FALSE, term |-> "fresh"])
    BY DEF Claim
<1>2. /\ DOMAIN orders' = DOMAIN orders \ {n}
      /\ \A m \in DOMAIN orders : m # n => orders'[m] = orders[m]
    BY <1>1, DeleteFacts
<1> DEFINE r == [order |-> orders[n], worker |-> w, session |-> session[w],
                 deferred |-> FALSE, term |-> "fresh"]
<1>3. /\ DOMAIN leases' = DOMAIN leases \cup {l}
      /\ leases'[l].order = orders[n]
      /\ \A k \in DOMAIN leases : k # l => leases'[k] = leases[k]
    <2>1. r.order = orders[n]
        OBVIOUS
    <2>2. leases' = Put(leases, l, r)
        BY <1>1
    <2> HIDE DEF r
    <2> QED
        BY <2>1, <2>2 DEF Put
<1>4. /\ l \notin DOMAIN leases /\ issued' = issued \cup {l}
      /\ UNCHANGED <<next, accepted, acknowledged, cleared>>
    BY DEF Claim, clearVars, Conserved, LeasesIssued
<1>5. SequenceFresh' /\ LeasesIssued' /\ AcceptedOnly'
    BY <1>2, <1>3, <1>4 DEF Conserved, SequenceFresh, LeasesIssued, AcceptedOnly
<1>6. NoOrderLost'
    BY <1>2, <1>3, <1>4 DEF Conserved, NoOrderLost
<1>7. NoOrderDuplicated'
    BY <1>2, <1>3, <1>4 DEF Conserved, NoOrderDuplicated
<1> QED
    BY <1>5, <1>6, <1>7 DEF Conserved

LEMMA ConservedAck ==
    ASSUME TypeInv, Conserved, NEW l \in LeaseIds, NEW w \in Workers,
           NEW s \in Sessions, AckOrder(l, w, s)
    PROVE  Conserved'
<1>1. l \in DOMAIN leases
    BY DEF AckOrder, AckAnswer
<1>2. /\ DOMAIN leases' = DOMAIN leases \ {l}
      /\ \A k \in DOMAIN leases : k # l => leases'[k] = leases[k]
    BY DeleteFacts DEF AckOrder
<1>3. /\ acknowledged' = acknowledged \cup {leases[l].order}
      /\ UNCHANGED <<orders, next, accepted, issued, cleared>>
    BY DEF AckOrder, queueVars, clearVars
<1>4. SequenceFresh' /\ LeasesIssued' /\ AcceptedOnly'
    BY <1>1, <1>2, <1>3 DEF Conserved, SequenceFresh, LeasesIssued, AcceptedOnly
<1>5. NoOrderLost'
    BY <1>1, <1>2, <1>3 DEF Conserved, NoOrderLost
<1>6. NoOrderDuplicated'
    BY <1>1, <1>2, <1>3 DEF Conserved, NoOrderDuplicated
<1> QED
    BY <1>4, <1>5, <1>6 DEF Conserved

LEMMA ConservedRequeue ==
    ASSUME TypeInv, Conserved, NEW l \in DOMAIN leases, RequeueLease(l)
    PROVE  Conserved'
<1>1. /\ DOMAIN leases' = DOMAIN leases \ {l}
      /\ \A k \in DOMAIN leases : k # l => leases'[k] = leases[k]
    BY DeleteFacts DEF RequeueLease
<1>2. /\ next \in Nat /\ DOMAIN orders \subseteq Nat
      /\ DOMAIN orders' = DOMAIN orders \cup {next} /\ next' = next + 1
      /\ orders'[next] = leases[l].order
      /\ \A n \in DOMAIN orders : n # next /\ orders'[n] = orders[n]
    BY EnqueueFacts DEF RequeueLease, Conserved
<1>3. UNCHANGED <<accepted, issued, acknowledged, cleared>>
    BY DEF RequeueLease, clearVars
<1>4. SequenceFresh' /\ LeasesIssued' /\ AcceptedOnly'
    BY <1>1, <1>2, <1>3 DEF Conserved, SequenceFresh, LeasesIssued, AcceptedOnly
<1>5. NoOrderLost'
    BY <1>1, <1>2, <1>3 DEF Conserved, NoOrderLost
<1>6. NoOrderDuplicated'
    BY <1>1, <1>2, <1>3 DEF Conserved, NoOrderDuplicated
<1> QED
    BY <1>4, <1>5, <1>6 DEF Conserved

LEMMA ConservedClearPage ==
    ASSUME TypeInv, Conserved, ClearPage
    PROVE  Conserved'
<1>1. Doomed \subseteq DOMAIN orders
    BY DEF Doomed, Page, PageRest
<1>2. /\ DOMAIN orders' = DOMAIN orders \ Doomed
      /\ \A n \in DOMAIN orders : n \notin Doomed => orders'[n] = orders[n]
      /\ cleared' = cleared \cup {orders[n] : n \in Doomed}
      /\ UNCHANGED <<next, accepted, leases, issued, acknowledged>>
    BY DEF ClearPage, leaseVars
<1>3. SequenceFresh' /\ LeasesIssued' /\ AcceptedOnly'
    BY <1>1, <1>2 DEF Conserved, SequenceFresh, LeasesIssued, AcceptedOnly
<1>4. NoOrderLost'
    BY <1>1, <1>2 DEF Conserved, NoOrderLost
<1>5. NoOrderDuplicated'
    BY <1>1, <1>2 DEF Conserved, NoOrderDuplicated
<1> QED
    BY <1>3, <1>4, <1>5 DEF Conserved

LEMMA ConservedStep == TypeInv /\ Conserved /\ [Next]_vars => Conserved'
<1> SUFFICES ASSUME TypeInv, Conserved, [Next]_vars PROVE Conserved'
    OBVIOUS
<1> USE DEF queueVars, leaseVars, clearVars
<1>1. ASSUME NEW o \in Orders, PublishOnce(o) PROVE Conserved'
    BY <1>1, ConservedPublish
<1>2. CASE SetAutomaticDiscoveryPriority
    BY <1>2, ConservedMovesNothing DEF SetAutomaticDiscoveryPriority
<1>3. ASSUME NEW w \in Workers, NEW l \in LeaseIds, Claim(w, l) PROVE Conserved'
    BY <1>3, ConservedClaim
<1>4. ASSUME NEW w \in Workers, NEW s \in Sessions, Connect(w, s) PROVE Conserved'
    <2>1. /\ DOMAIN leases' = DOMAIN leases
          /\ \A l \in DOMAIN leases : leases'[l].order = leases[l].order
        BY <1>4 DEF Connect, TypeInv, LeasesTyped, LeaseRecord
    <2> QED
        BY <1>4, <2>1, ConservedMovesNothing DEF Connect
<1>5. ASSUME NEW w \in Workers, Disconnect(w) \/ ForgetSession(w) PROVE Conserved'
    BY <1>5, ConservedMovesNothing DEF Disconnect, ForgetSession
<1>6. ASSUME NEW w \in Workers, NEW ids \in SUBSET LeaseIds, HeartbeatRead(w, ids)
      PROVE  Conserved'
    BY <1>6, ConservedMovesNothing DEF HeartbeatRead
<1>7. ASSUME NEW w \in Workers, HeartbeatCommit(w) PROVE Conserved'
    <2>1. /\ DOMAIN leases' = DOMAIN leases
          /\ \A l \in DOMAIN leases : leases'[l].order = leases[l].order
        BY <1>7 DEF HeartbeatCommit, TypeInv, LeasesTyped, LeaseRecord
    <2> QED
        BY <1>7, <2>1, ConservedMovesNothing DEF HeartbeatCommit
<1>8. ASSUME NEW w \in Workers, HeartbeatFail(w) PROVE Conserved'
    BY <1>8, ConservedMovesNothing DEF HeartbeatFail
<1>9. ASSUME NEW l \in LeaseIds, NEW w \in Workers, NEW s \in Sessions, AckOrder(l, w, s)
      PROVE  Conserved'
    BY <1>9, ConservedAck
<1>10. ASSUME NEW l \in LeaseIds, NEW w \in Workers, NEW s \in Sessions, NakOrder(l, w, s)
       PROVE  Conserved'
    <2>1. /\ DOMAIN leases' = DOMAIN leases
          /\ \A k \in DOMAIN leases : leases'[k].order = leases[k].order
        BY <1>10 DEF NakOrder, TypeInv, LeasesTyped, LeaseRecord
    <2> QED
        BY <1>10, <2>1, ConservedMovesNothing DEF NakOrder
<1>11. ASSUME NEW l \in LeaseIds, SweepExpired(l) \/ ReclaimAbandoned(l) PROVE Conserved'
    BY <1>11, ConservedRequeue DEF SweepExpired, ReclaimAbandoned
<1>12. ASSUME NEW l \in LeaseIds, ExpireSettlement(l) PROVE Conserved'
    BY <1>12, ConservedMovesNothing DEF ExpireSettlement
<1>13. ASSUME NEW l \in LeaseIds, Age(l) PROVE Conserved'
    <2>1. /\ DOMAIN leases' = DOMAIN leases
          /\ \A k \in DOMAIN leases : leases'[k].order = leases[k].order
        BY <1>13 DEF Age, TypeInv, LeasesTyped, LeaseRecord
    <2> QED
        BY <1>13, <2>1, ConservedMovesNothing DEF Age
<1>14. CASE ClearBegin \/ ClearCancelled
    BY <1>14, ConservedMovesNothing DEF ClearBegin, ClearCancelled
<1>15. CASE ClearPage
    BY <1>15, ConservedClearPage
<1>16. CASE Restart
    BY <1>16, ConservedMovesNothing DEF Restart
<1>17. CASE UNCHANGED vars
    BY <1>17, ConservedMovesNothing DEF vars
<1> QED
    BY <1>1, <1>2, <1>3, <1>4, <1>5, <1>6, <1>7, <1>8, <1>9, <1>10, <1>11, <1>12,
       <1>13, <1>14, <1>15, <1>16, <1>17 DEF Next

LEMMA Conservation == Spec => [](TypeInv /\ Conserved)
BY TypeInit, TypeStep, ConservedInit, ConservedStep, PTL DEF Spec

(* At-least-once delivery: no interleaving of publications, claims,        *)
(* settlements, sweeps, adoptions, clears and restarts loses an order the  *)
(* node has accepted.                                                      *)
THEOREM NothingLost == Spec => []NoOrderLost
<1>1. TypeInv /\ Conserved => NoOrderLost
    BY DEF Conserved
<1> QED
    BY <1>1, Conservation, PTL

(* No such interleaving leaves an order in two places at once or brings    *)
(* back one that was acknowledged or cleared.                              *)
THEOREM NothingDuplicated == Spec => []NoOrderDuplicated
<1>1. TypeInv /\ Conserved => NoOrderDuplicated
    BY DEF Conserved
<1> QED
    BY <1>1, Conservation, PTL

-----------------------------------------------------------------------------
(* Settlements.  A remembered outcome and a stored lease coexist only      *)
(* while a negatively acknowledged lease waits out its retry delay.        *)

SettlementsSound ==
    /\ DOMAIN settlements \subseteq issued
    /\ \A l \in DOMAIN settlements \cap DOMAIN leases :
          leases[l].deferred /\ settlements[l] = "requeued"

LEMMA SettlementsSoundInit == Init => SettlementsSound
BY DEF Init, SettlementsSound

(* A step that settles nothing and defers nothing.                         *)
LEMMA SoundSettlesNothing ==
    ASSUME SettlementsSound, UNCHANGED settlements, issued \subseteq issued',
           \A l \in DOMAIN leases' \cap issued :
               l \in DOMAIN leases /\ leases'[l].deferred = leases[l].deferred
    PROVE  SettlementsSound'
BY DEF SettlementsSound

LEMMA SettlementsSoundStep ==
    TypeInv /\ Conserved /\ SettlementsSound /\ [Next]_vars => SettlementsSound'
<1> SUFFICES ASSUME TypeInv, Conserved, SettlementsSound, [Next]_vars
             PROVE  SettlementsSound'
    OBVIOUS
<1>0. LeasesTyped /\ LeasesIssued
    BY DEF TypeInv, Conserved
<1> USE DEF leaseVars
<1>1. ASSUME NEW o \in Orders, PublishOnce(o) PROVE SettlementsSound'
    BY <1>1, SoundSettlesNothing DEF PublishOnce
<1>2. CASE SetAutomaticDiscoveryPriority
    BY <1>2, SoundSettlesNothing DEF SetAutomaticDiscoveryPriority
<1>3. ASSUME NEW w \in Workers, NEW l \in LeaseIds, Claim(w, l) PROVE SettlementsSound'
    <2>1. /\ l \notin issued /\ issued' = issued \cup {l} /\ UNCHANGED settlements
          /\ DOMAIN leases' = DOMAIN leases \cup {l}
          /\ \A k \in DOMAIN leases : k # l => leases'[k] = leases[k]
        BY <1>3 DEF Claim, Put
    <2> QED
        BY <1>0, <2>1, SoundSettlesNothing DEF LeasesIssued
<1>4. ASSUME NEW w \in Workers, NEW s \in Sessions, Connect(w, s) PROVE SettlementsSound'
    <2>1. /\ DOMAIN leases' = DOMAIN leases
          /\ \A l \in DOMAIN leases : leases'[l].deferred = leases[l].deferred
        BY <1>0, <1>4 DEF Connect, LeasesTyped, LeaseRecord
    <2> QED
        BY <1>4, <2>1, SoundSettlesNothing DEF Connect
<1>5. ASSUME NEW w \in Workers, Disconnect(w) \/ ForgetSession(w) PROVE SettlementsSound'
    BY <1>5, SoundSettlesNothing DEF Disconnect, ForgetSession
<1>6. ASSUME NEW w \in Workers, NEW ids \in SUBSET LeaseIds, HeartbeatRead(w, ids)
      PROVE  SettlementsSound'
    BY <1>6, SoundSettlesNothing DEF HeartbeatRead
<1>7. ASSUME NEW w \in Workers, HeartbeatCommit(w) PROVE SettlementsSound'
    <2>1. /\ DOMAIN leases' = DOMAIN leases
          /\ \A l \in DOMAIN leases : leases'[l].deferred = leases[l].deferred
        BY <1>0, <1>7 DEF HeartbeatCommit, LeasesTyped, LeaseRecord
    <2> QED
        BY <1>7, <2>1, SoundSettlesNothing DEF HeartbeatCommit
<1>8. ASSUME NEW w \in Workers, HeartbeatFail(w) PROVE SettlementsSound'
    BY <1>8, SoundSettlesNothing DEF HeartbeatFail
<1>9. ASSUME NEW l \in LeaseIds, NEW w \in Workers, NEW s \in Sessions, AckOrder(l, w, s)
      PROVE  SettlementsSound'
    <2>1. l \in DOMAIN leases /\ UNCHANGED issued
        BY <1>9 DEF AckOrder, AckAnswer
    <2>2. /\ DOMAIN leases' = DOMAIN leases \ {l}
          /\ \A k \in DOMAIN leases : k # l => leases'[k] = leases[k]
        BY <1>9 DEF AckOrder, Delete
    <2>3. /\ DOMAIN settlements' = DOMAIN settlements \cup {l}
          /\ \A k \in DOMAIN settlements : k # l => settlements'[k] = settlements[k]
        BY <1>9 DEF AckOrder, RecordLeaseSettlement, Put
    <2> QED
        BY <1>0, <2>1, <2>2, <2>3 DEF SettlementsSound, LeasesIssued
<1>10. ASSUME NEW l \in LeaseIds, NEW w \in Workers, NEW s \in Sessions, NakOrder(l, w, s)
       PROVE  SettlementsSound'
    <2>1. l \in DOMAIN leases /\ UNCHANGED issued
        BY <1>10 DEF NakOrder, NakAnswer
    <2>2. /\ DOMAIN leases' = DOMAIN leases /\ leases'[l].deferred
          /\ \A k \in DOMAIN leases : k # l => leases'[k] = leases[k]
        BY <1>0, <1>10, <2>1 DEF NakOrder, LeasesTyped, LeaseRecord
    <2>3. /\ DOMAIN settlements' = DOMAIN settlements \cup {l}
          /\ settlements'[l] = "requeued"
          /\ \A k \in DOMAIN settlements : k # l => settlements'[k] = settlements[k]
        BY <1>10 DEF NakOrder, RecordLeaseSettlement, Put
    <2> QED
        BY <1>0, <2>1, <2>2, <2>3 DEF SettlementsSound, LeasesIssued
<1>11. ASSUME NEW l \in LeaseIds, SweepExpired(l) \/ ReclaimAbandoned(l)
       PROVE  SettlementsSound'
    <2>1. l \in DOMAIN leases /\ RequeueLease(l)
        BY <1>11 DEF SweepExpired, ReclaimAbandoned
    <2>2. /\ DOMAIN leases' = DOMAIN leases \ {l} /\ UNCHANGED issued
          /\ \A k \in DOMAIN leases : k # l => leases'[k] = leases[k]
        BY <2>1 DEF RequeueLease, Delete
    <2>3. /\ DOMAIN settlements' = DOMAIN settlements \cup {l}
          /\ \A k \in DOMAIN settlements : k # l => settlements'[k] = settlements[k]
        BY <2>1 DEF RequeueLease, RecordLeaseSettlement, Put
    <2> QED
        BY <1>0, <2>1, <2>2, <2>3 DEF SettlementsSound, LeasesIssued
<1>12. ASSUME NEW l \in LeaseIds, ExpireSettlement(l) PROVE SettlementsSound'
    BY <1>12 DEF ExpireSettlement, Delete, SettlementsSound
<1>13. ASSUME NEW l \in LeaseIds, Age(l) PROVE SettlementsSound'
    <2>1. /\ DOMAIN leases' = DOMAIN leases
          /\ \A k \in DOMAIN leases : leases'[k].deferred = leases[k].deferred
        BY <1>0, <1>13 DEF Age, LeasesTyped, LeaseRecord
    <2> QED
        BY <1>13, <2>1, SoundSettlesNothing DEF Age
<1>14. CASE ClearBegin \/ ClearCancelled
    BY <1>14, SoundSettlesNothing DEF ClearBegin, ClearCancelled
<1>15. CASE ClearPage
    BY <1>15, SoundSettlesNothing DEF ClearPage
<1>16. CASE Restart
    BY <1>16, SoundSettlesNothing DEF Restart
<1>17. CASE UNCHANGED vars
    BY <1>17, SoundSettlesNothing DEF vars
<1> QED
    BY <1>1, <1>2, <1>3, <1>4, <1>5, <1>6, <1>7, <1>8, <1>9, <1>10, <1>11, <1>12,
       <1>13, <1>14, <1>15, <1>16, <1>17 DEF Next

LEMMA SettlementsGiveAnswers == TypeInv /\ SettlementsSound => AckRepeatsOutcome
BY DEF TypeInv, SettlementsTyped, Outcomes, SettlementsSound, AckRepeatsOutcome, AckAnswer

(* For as long as the node remembers how a lease ended, an acknowledgment  *)
(* of it is answered with that outcome, whoever sends it and however late. *)
THEOREM AnswersRepeatOutcome == Spec => []AckRepeatsOutcome
<1>1. Spec => []SettlementsSound
    BY Conservation, SettlementsSoundInit, SettlementsSoundStep, PTL DEF Spec
<1> QED
    BY <1>1, Conservation, SettlementsGiveAnswers, PTL

-----------------------------------------------------------------------------
(* Fencing of stale sessions.                                              *)

LEMMA FencedInit == Init => StaleSessionsFenced
BY DEF Init, StaleSessionsFenced

(* A step that registers no session and gives no lease a new owner.        *)
LEMMA FencedKept ==
    ASSUME StaleSessionsFenced, UNCHANGED session,
           \A l \in DOMAIN leases' :
               Active(l)' => /\ l \in DOMAIN leases /\ Active(l)
                             /\ leases'[l].worker = leases[l].worker
                             /\ leases'[l].session = leases[l].session
    PROVE  StaleSessionsFenced'
BY DEF StaleSessionsFenced

LEMMA FencedStep == TypeInv /\ StaleSessionsFenced /\ [Next]_vars => StaleSessionsFenced'
<1> SUFFICES ASSUME TypeInv, StaleSessionsFenced, [Next]_vars PROVE StaleSessionsFenced'
    OBVIOUS
<1>0. LeasesTyped /\ SessionsTyped
    BY DEF TypeInv
<1> USE DEF leaseVars, sessionVars
<1>1. ASSUME NEW o \in Orders, PublishOnce(o) PROVE StaleSessionsFenced'
    BY <1>1, FencedKept DEF PublishOnce, Active
<1>2. CASE SetAutomaticDiscoveryPriority
    BY <1>2, FencedKept DEF SetAutomaticDiscoveryPriority, Active
<1>3. ASSUME NEW w \in Workers, NEW l \in LeaseIds, Claim(w, l) PROVE StaleSessionsFenced'
    <2>1. /\ DOMAIN leases' = DOMAIN leases \cup {l} /\ UNCHANGED session
          /\ leases'[l].worker = w /\ leases'[l].session = session[w]
          /\ \A k \in DOMAIN leases : k # l => leases'[k] = leases[k]
        BY <1>3 DEF Claim, Put
    <2> QED
        BY <2>1 DEF StaleSessionsFenced, Active
<1>4. ASSUME NEW w \in Workers, NEW s \in Sessions, Connect(w, s) PROVE StaleSessionsFenced'
    <2>1. /\ DOMAIN leases' = DOMAIN leases
          /\ \A l \in DOMAIN leases :
                /\ leases'[l].worker = leases[l].worker
                /\ leases'[l].deferred = leases[l].deferred
                /\ leases'[l].session = IF l \in Adopted(w) THEN s ELSE leases[l].session
        BY <1>0, <1>4 DEF Connect, LeasesTyped, LeaseRecord
    <2>2. \A v \in Workers : session'[v] = IF v = w THEN s ELSE session[v]
        BY <1>0, <1>4 DEF Connect, SessionsTyped
    <2> QED
        BY <1>0, <2>1, <2>2
        DEF StaleSessionsFenced, Active, Adopted, LeasesTyped, LeaseRecord
<1>5. ASSUME NEW w \in Workers, Disconnect(w) PROVE StaleSessionsFenced'
    BY <1>5, FencedKept DEF Disconnect, Active
<1>6. ASSUME NEW w \in Workers, ForgetSession(w) PROVE StaleSessionsFenced'
    <2>1. \A v \in Workers : session'[v] = IF v = w THEN NoSession ELSE session[v]
        BY <1>0, <1>6 DEF ForgetSession, SessionsTyped
    <2> QED
        BY <1>0, <1>6, <2>1
        DEF ForgetSession, StaleSessionsFenced, Active, LeasesTyped, LeaseRecord
<1>7. ASSUME NEW w \in Workers, NEW ids \in SUBSET LeaseIds, HeartbeatRead(w, ids)
      PROVE  StaleSessionsFenced'
    BY <1>7, FencedKept DEF HeartbeatRead, Active
<1>8. ASSUME NEW w \in Workers, HeartbeatCommit(w) PROVE StaleSessionsFenced'
    <2>1. /\ DOMAIN leases' = DOMAIN leases
          /\ \A l \in DOMAIN leases :
                /\ leases'[l].worker = leases[l].worker
                /\ leases'[l].deferred = leases[l].deferred
                /\ leases'[l].session = leases[l].session
        BY <1>0, <1>8 DEF HeartbeatCommit, LeasesTyped, LeaseRecord
    <2> QED
        BY <1>8, <2>1, FencedKept DEF HeartbeatCommit, Active
<1>9. ASSUME NEW w \in Workers, HeartbeatFail(w) PROVE StaleSessionsFenced'
    BY <1>9, FencedKept DEF HeartbeatFail, Active
<1>10. ASSUME NEW l \in LeaseIds, NEW w \in Workers, NEW s \in Sessions, AckOrder(l, w, s)
       PROVE  StaleSessionsFenced'
    <2>1. /\ DOMAIN leases' = DOMAIN leases \ {l}
          /\ \A k \in DOMAIN leases : k # l => leases'[k] = leases[k]
        BY <1>10 DEF AckOrder, Delete
    <2> QED
        BY <1>10, <2>1, FencedKept DEF AckOrder, Active
<1>11. ASSUME NEW l \in LeaseIds, NEW w \in Workers, NEW s \in Sessions, NakOrder(l, w, s)
       PROVE  StaleSessionsFenced'
    <2>1. l \in DOMAIN leases
        BY <1>11 DEF NakOrder, NakAnswer
    <2>2. /\ DOMAIN leases' = DOMAIN leases /\ leases'[l].deferred
          /\ \A k \in DOMAIN leases : k # l => leases'[k] = leases[k]
        BY <1>0, <1>11, <2>1 DEF NakOrder, LeasesTyped, LeaseRecord
    <2> QED
        BY <1>11, <2>2, FencedKept DEF NakOrder, Active
<1>12. ASSUME NEW l \in LeaseIds, SweepExpired(l) \/ ReclaimAbandoned(l)
       PROVE  StaleSessionsFenced'
    <2>1. /\ DOMAIN leases' = DOMAIN leases \ {l} /\ UNCHANGED session
          /\ \A k \in DOMAIN leases : k # l => leases'[k] = leases[k]
        BY <1>12 DEF SweepExpired, ReclaimAbandoned, RequeueLease, Delete
    <2> QED
        BY <2>1, FencedKept DEF Active
<1>13. ASSUME NEW l \in LeaseIds, ExpireSettlement(l) PROVE StaleSessionsFenced'
    BY <1>13, FencedKept DEF ExpireSettlement, Active
<1>14. ASSUME NEW l \in LeaseIds, Age(l) PROVE StaleSessionsFenced'
    <2>1. /\ DOMAIN leases' = DOMAIN leases
          /\ \A k \in DOMAIN leases :
                /\ leases'[k].worker = leases[k].worker
                /\ leases'[k].deferred = leases[k].deferred
                /\ leases'[k].session = leases[k].session
        BY <1>0, <1>14 DEF Age, LeasesTyped, LeaseRecord
    <2> QED
        BY <1>14, <2>1, FencedKept DEF Age, Active
<1>15. CASE ClearBegin \/ ClearCancelled \/ ClearPage
    BY <1>15, FencedKept DEF ClearBegin, ClearCancelled, ClearPage, Active
<1>16. CASE Restart
    <2>1. \A v \in Workers : session'[v] = NoSession
        BY <1>16 DEF Restart
    <2> QED
        BY <1>0, <1>16, <2>1
        DEF Restart, StaleSessionsFenced, Active, LeasesTyped, LeaseRecord
<1>17. CASE UNCHANGED vars
    BY <1>17, FencedKept DEF vars, Active
<1> QED
    BY <1>1, <1>2, <1>3, <1>4, <1>5, <1>6, <1>7, <1>8, <1>9, <1>10, <1>11, <1>12,
       <1>13, <1>14, <1>15, <1>16, <1>17 DEF Next

(* Once a worker has registered a session, its earlier sessions own none   *)
(* of its leases: they can neither settle nor renew one.                   *)
THEOREM StaleSessionsAreFenced == Spec => []StaleSessionsFenced
BY Conservation, FencedInit, FencedStep, PTL DEF Spec

-----------------------------------------------------------------------------
(* Expired leases.                                                         *)

LEMMA RevivedOnlyByConnect ==
    ASSUME TypeInv, Conserved, [Next]_vars,
           NEW l \in DOMAIN leases \cap DOMAIN leases',
           leases[l].term \notin Live, leases'[l].term \in Live
    PROVE  \E w \in Workers : ~connected[w] /\ connected'[w] /\ leases'[l].worker = w
<1>0. LeasesTyped /\ SessionsTyped /\ LeasesIssued
    BY DEF TypeInv, Conserved
<1> USE DEF leaseVars
<1>1. ASSUME NEW w \in Workers, NEW k \in LeaseIds, Claim(w, k) PROVE FALSE
    <2>1. \A i \in DOMAIN leases : i # k => leases'[i] = leases[i]
        BY <1>1 DEF Claim, Put
    <2>2. k \notin DOMAIN leases
        BY <1>0, <1>1 DEF Claim, LeasesIssued
    <2> QED
        BY <2>1, <2>2
<1>2. ASSUME NEW w \in Workers, NEW s \in Sessions, Connect(w, s)
      PROVE  ~connected[w] /\ connected'[w] /\ leases'[l].worker = w
    <2>1. ~connected[w] /\ connected'[w]
        BY <1>0, <1>2 DEF Connect, SessionsTyped
    <2>2. l \in Adopted(w)
        BY <1>2 DEF Connect
    <2>3. leases'[l].worker = leases[l].worker
        BY <1>0, <1>2 DEF Connect, LeasesTyped, LeaseRecord
    <2> QED
        BY <2>1, <2>2, <2>3 DEF Adopted
<1>3. ASSUME NEW w \in Workers, HeartbeatCommit(w) PROVE FALSE
    BY <1>3 DEF HeartbeatCommit, LiveLeaseOwnedBy
<1>4. ASSUME NEW k \in LeaseIds, NEW w \in Workers, NEW s \in Sessions, NakOrder(k, w, s)
      PROVE  FALSE
    <2>1. k \in DOMAIN leases /\ leases[k].term \in Live
        BY <1>4 DEF NakOrder, NakAnswer, LiveLeaseOwnedBy
    <2>2. \A i \in DOMAIN leases : i # k => leases'[i] = leases[i]
        BY <1>0, <1>4, <2>1 DEF NakOrder, LeasesTyped
    <2> QED
        BY <2>1, <2>2
<1>5. ASSUME NEW k \in LeaseIds, Age(k) PROVE FALSE
    <2>1. \A i \in DOMAIN leases : i # k => leases'[i] = leases[i]
        BY <1>0, <1>5 DEF Age, LeasesTyped
    <2>2. l = k /\ leases'[k].term = Later(k)
        BY <1>0, <1>5, <2>1 DEF Age, LeasesTyped, LeaseRecord
    <2>3. Later(k) \in Live => leases[k].term = "fresh"
        BY DEF Later, Live
    <2> QED
        BY <2>2, <2>3 DEF Live
<1>6. ASSUME NEW k \in LeaseIds, NEW w \in Workers, NEW s \in Sessions, AckOrder(k, w, s)
      PROVE  FALSE
    BY <1>6 DEF AckOrder, Delete
<1>7. ASSUME NEW k \in LeaseIds, SweepExpired(k) \/ ReclaimAbandoned(k) PROVE FALSE
    BY <1>7 DEF SweepExpired, ReclaimAbandoned, RequeueLease, Delete
<1>9. ASSUME NEW o \in Orders, PublishOnce(o) PROVE FALSE
    BY <1>9 DEF PublishOnce
<1>10. ASSUME NEW w \in Workers, Disconnect(w) \/ ForgetSession(w) \/ HeartbeatFail(w)
       PROVE  FALSE
    BY <1>10 DEF Disconnect, ForgetSession, HeartbeatFail
<1>11. ASSUME NEW w \in Workers, NEW ids \in SUBSET LeaseIds, HeartbeatRead(w, ids)
       PROVE  FALSE
    BY <1>11 DEF HeartbeatRead
<1>12. ASSUME NEW k \in LeaseIds, ExpireSettlement(k) PROVE FALSE
    BY <1>12 DEF ExpireSettlement
<1>13. ASSUME \/ SetAutomaticDiscoveryPriority \/ ClearBegin \/ ClearPage
              \/ ClearCancelled \/ Restart \/ UNCHANGED vars
       PROVE  FALSE
    BY <1>13 DEF SetAutomaticDiscoveryPriority, ClearBegin, ClearPage, ClearCancelled,
                 Restart, vars
<1> QED
    BY <1>1, <1>2, <1>3, <1>4, <1>5, <1>6, <1>7, <1>9, <1>10, <1>11, <1>12, <1>13
    DEF Next

(* A lease past its deadline comes back to life only when its worker       *)
(* reconnects: no heartbeat, however its two phases interleave with the    *)
(* clock, revives it.                                                      *)
THEOREM ExpiredStaysExpired == Spec => ExpiredRevivedOnlyByAdoption
<1>1. TypeInv /\ Conserved /\ [Next]_vars
        => [\A l \in DOMAIN leases \cap DOMAIN leases' :
               leases[l].term \notin Live /\ leases'[l].term \in Live
                   => \E w \in Workers : ~connected[w] /\ connected'[w]
                                        /\ leases'[l].worker = w]_vars
    BY RevivedOnlyByConnect
<1> QED
    BY <1>1, Conservation, PTL DEF Spec, ExpiredRevivedOnlyByAdoption

-----------------------------------------------------------------------------
(* The catalog and the capacity.                                           *)

LEMMA HeldFinite ==
    ASSUME LeasesTyped, NEW w, NEW s
    PROVE  /\ IsFiniteSet(HeldBy(w, s)) /\ Cardinality(HeldBy(w, s)) \in Nat
           /\ IsFiniteSet(Adopted(w)) /\ Cardinality(Adopted(w)) \in Nat
<1>1. HeldBy(w, s) \in SUBSET LeaseIds /\ Adopted(w) \in SUBSET LeaseIds
    BY DEF HeldBy, Adopted, LeasesTyped
<1>2. IsFiniteSet(HeldBy(w, s)) /\ IsFiniteSet(Adopted(w))
    BY <1>1, FS_Subset, LeaseIdsAssumption
<1> QED
    BY <1>2, FS_CardinalityType

(* A step that leaves the catalog alone and gives no lease a new owner.    *)
LEMMA CatalogKept ==
    ASSUME CatalogMatchesLeases, UNCHANGED catalog,
           DOMAIN leases' = DOMAIN leases,
           \A l \in DOMAIN leases :
               /\ leases'[l].deferred = leases[l].deferred
               /\ leases'[l].worker = leases[l].worker
               /\ leases'[l].session = leases[l].session
    PROVE  CatalogMatchesLeases'
<1>1. \A w, s : HeldBy(w, s)' = HeldBy(w, s)
    BY DEF HeldBy, Active
<1> QED
    BY <1>1 DEF CatalogMatchesLeases

(* A lease ends, or is deferred: the count of its owner drops by one.      *)
LEMMA CatalogRemoveMatches ==
    ASSUME TypeInv, CatalogMatchesLeases, NEW l \in DOMAIN leases, CatalogRemove(l),
           DOMAIN leases' \subseteq DOMAIN leases, DOMAIN leases \ DOMAIN leases' \subseteq {l},
           l \in DOMAIN leases' => ~Active(l)',
           \A k \in DOMAIN leases' : k # l => leases'[k] = leases[k]
    PROVE  CatalogMatchesLeases'
<1>0. LeasesTyped /\ CatalogTyped
    BY DEF TypeInv
<1> SUFFICES ASSUME NEW w \in Workers, NEW s \in Sessions
             PROVE  catalog'[<<w, s>>] = Cardinality(HeldBy(w, s)')
    BY DEF CatalogMatchesLeases
<1>1. HeldBy(w, s)' = HeldBy(w, s) \ {l}
    BY DEF HeldBy, Active
<1>2. /\ IsFiniteSet(HeldBy(w, s)) /\ Cardinality(HeldBy(w, s)) \in Nat
      /\ catalog[<<w, s>>] = Cardinality(HeldBy(w, s))
    BY <1>0, HeldFinite DEF CatalogMatchesLeases
<1>3. Cardinality(HeldBy(w, s)') = IF l \in HeldBy(w, s) THEN catalog[<<w, s>>] - 1
                                   ELSE catalog[<<w, s>>]
    <2>1. Cardinality(HeldBy(w, s) \ {l}) =
              IF l \in HeldBy(w, s) THEN Cardinality(HeldBy(w, s)) - 1
              ELSE Cardinality(HeldBy(w, s))
        BY <1>2, FS_RemoveElement
    <2> QED
        BY <1>1, <1>2, <2>1
<1>4. CASE l \in HeldBy(w, s)
    <2>1. catalog[<<w, s>>] > 0
        BY <1>2, <1>4, FS_EmptySet
    <2>2. Active(l) /\ leases[l].worker = w /\ leases[l].session = s
        BY <1>4 DEF HeldBy
    <2>3. catalog' = [catalog EXCEPT ![<<w, s>>] = IF @ > 0 THEN @ - 1 ELSE 0]
        BY <2>2 DEF CatalogRemove
    <2> QED
        BY <1>0, <1>3, <1>4, <2>1, <2>3 DEF CatalogTyped
<1>5. CASE l \notin HeldBy(w, s)
    <2>1. Active(l) => <<leases[l].worker, leases[l].session>> # <<w, s>>
        BY <1>5 DEF HeldBy
    <2>2. catalog'[<<w, s>>] = catalog[<<w, s>>]
        BY <1>0, <2>1 DEF CatalogRemove, CatalogTyped
    <2> QED
        BY <1>3, <1>5, <2>2
<1> QED
    BY <1>4, <1>5

LEMMA CatalogClaim ==
    ASSUME TypeInv, LeasesIssued, CatalogMatchesLeases,
           NEW w \in Workers, NEW l \in LeaseIds, Claim(w, l)
    PROVE  /\ CatalogMatchesLeases'
           /\ Adopted(w)' = Adopted(w) \cup {l}
           /\ \A x \in Workers \ {w} : Adopted(x)' = Adopted(x)
<1>0. LeasesTyped /\ CatalogTyped /\ session[w] \in Sessions
    BY DEF TypeInv, SessionsTyped, ConnectedRegistered, Claim
<1>2. l \notin DOMAIN leases
    BY DEF Claim, LeasesIssued
<1>3. /\ DOMAIN leases' = DOMAIN leases \cup {l}
      /\ leases'[l].worker = w /\ leases'[l].session = session[w] /\ ~leases'[l].deferred
      /\ \A k \in DOMAIN leases : leases'[k] = leases[k]
    <2>1. /\ DOMAIN leases' = DOMAIN leases \cup {l}
          /\ leases'[l].worker = w /\ leases'[l].session = session[w] /\ ~leases'[l].deferred
          /\ \A k \in DOMAIN leases : k # l => leases'[k] = leases[k]
        BY DEF Claim, Put
    <2> QED
        BY <1>2, <2>1
<1>4. w # NoWorker
    BY NoneAssumption
<1>5. ASSUME NEW x \in Workers, NEW s \in Sessions
      PROVE  catalog'[<<x, s>>] = Cardinality(HeldBy(x, s)')
    <2>1. /\ IsFiniteSet(HeldBy(x, s)) /\ Cardinality(HeldBy(x, s)) \in Nat
          /\ catalog[<<x, s>>] = Cardinality(HeldBy(x, s))
        BY <1>0, HeldFinite DEF CatalogMatchesLeases
    <2>2. catalog' = [catalog EXCEPT ![<<w, session[w]>>] = @ + 1]
        BY DEF Claim, CatalogAdd
    <2>3. CASE x = w /\ s = session[w]
        <3>1. HeldBy(x, s)' = HeldBy(x, s) \cup {l} /\ l \notin HeldBy(x, s)
            BY <1>2, <1>3, <1>4, <2>3 DEF HeldBy, Active
        <3>2. Cardinality(HeldBy(x, s)') = Cardinality(HeldBy(x, s)) + 1
            BY <2>1, <3>1, FS_AddElement
        <3> QED
            BY <1>0, <2>1, <2>2, <2>3, <3>2 DEF CatalogTyped
    <2>4. CASE ~(x = w /\ s = session[w])
        <3>1. HeldBy(x, s)' = HeldBy(x, s)
            BY <1>2, <1>3, <2>4 DEF HeldBy, Active
        <3>2. <<x, s>> # <<w, session[w]>>
            BY <2>4
        <3> QED
            BY <1>0, <2>1, <2>2, <3>1, <3>2 DEF CatalogTyped
    <2> QED
        BY <2>3, <2>4
<1>6. Adopted(w)' = Adopted(w) \cup {l}
    BY <1>2, <1>3 DEF Adopted
<1>7. \A x \in Workers \ {w} : Adopted(x)' = Adopted(x)
    BY <1>2, <1>3 DEF Adopted
<1> QED
    BY <1>5, <1>6, <1>7 DEF CatalogMatchesLeases

LEMMA CatalogConnect ==
    ASSUME TypeInv, CatalogMatchesLeases, NEW w \in Workers, NEW s \in Sessions, Connect(w, s)
    PROVE  CatalogMatchesLeases' /\ \A x \in Workers : Adopted(x)' = Adopted(x)
<1>0. LeasesTyped /\ CatalogTyped /\ w # NoWorker
    BY NoneAssumption DEF TypeInv
<1>1. /\ DOMAIN leases' = DOMAIN leases
      /\ \A l \in Adopted(w) : leases'[l] = [leases[l] EXCEPT !.session = s, !.term = "fresh"]
      /\ \A l \in DOMAIN leases \ Adopted(w) : leases'[l] = leases[l]
    BY DEF Connect, Adopted
<1>2. \A l \in DOMAIN leases : /\ leases'[l].worker = leases[l].worker
                               /\ leases'[l].deferred = leases[l].deferred
                               /\ leases'[l].session =
                                     IF l \in Adopted(w) THEN s ELSE leases[l].session
    <2> SUFFICES ASSUME NEW l \in DOMAIN leases
                 PROVE  /\ leases'[l].worker = leases[l].worker
                        /\ leases'[l].deferred = leases[l].deferred
                        /\ leases'[l].session = IF l \in Adopted(w) THEN s ELSE leases[l].session
        OBVIOUS
    <2>1. leases[l] \in LeaseRecord
        BY <1>0 DEF LeasesTyped
    <2>2. CASE l \in Adopted(w)
        <3>1. leases'[l] = [leases[l] EXCEPT !.session = s, !.term = "fresh"]
            BY <1>1, <2>2
        <3> QED
            BY <2>1, <2>2, <3>1 DEF LeaseRecord
    <2>3. CASE l \notin Adopted(w)
        BY <1>1, <2>3
    <2> QED
        BY <2>2, <2>3
<1>3. ASSUME NEW x \in Workers, NEW t \in Sessions
      PROVE  catalog'[<<x, t>>] = Cardinality(HeldBy(x, t)')
    <2>1. catalog'[<<x, t>>] = IF x # w THEN catalog[<<x, t>>]
                               ELSE IF t = s THEN Cardinality(Adopted(w)) ELSE 0
        BY DEF Connect, CatalogReassign
    <2>2. CASE x # w
        <3>1. HeldBy(x, t)' = HeldBy(x, t)
            <4>1. \A l \in DOMAIN leases : leases[l].worker = x => l \notin Adopted(w)
                BY <2>2 DEF Adopted
            <4>2. \A l \in DOMAIN leases : l \in HeldBy(x, t)' <=> l \in HeldBy(x, t)
                BY <1>1, <1>2, <4>1 DEF HeldBy, Active
            <4> QED
                BY <1>1, <4>2 DEF HeldBy
        <3> QED
            BY <2>1, <2>2, <3>1 DEF CatalogMatchesLeases
    <2>3. CASE x = w /\ t = s
        <3>1. HeldBy(x, t)' = Adopted(w)
            <4>1. HeldBy(x, t)' = {l \in DOMAIN leases : l \in Adopted(w)}
                <5>1. \A l \in DOMAIN leases : l \in HeldBy(x, t)' => l \in Adopted(w)
                    BY <1>2, <2>3 DEF HeldBy, Active, Adopted
                <5>2. \A l \in DOMAIN leases : l \in Adopted(w) => l \in HeldBy(x, t)'
                    BY <1>0, <1>1, <1>2, <2>3 DEF HeldBy, Active, Adopted
                <5>3. HeldBy(x, t)' \subseteq DOMAIN leases
                    BY <1>1 DEF HeldBy
                <5> QED
                    BY <5>1, <5>2, <5>3
            <4> QED
                BY <4>1 DEF Adopted
        <3> QED
            BY <2>1, <2>3, <3>1
    <2>4. CASE x = w /\ t # s
        <3>1. HeldBy(x, t)' = {}
            <4> SUFFICES ASSUME NEW l \in HeldBy(x, t)' PROVE FALSE
                OBVIOUS
            <4>1. /\ l \in DOMAIN leases /\ leases'[l].worker = w
                  /\ ~leases'[l].deferred /\ leases'[l].session = t
                BY <1>1, <2>4 DEF HeldBy, Active
            <4>2. l \in Adopted(w)
                BY <1>2, <4>1 DEF Adopted
            <4> QED
                BY <1>2, <2>4, <4>1, <4>2
        <3> QED
            BY <2>1, <2>4, <3>1, FS_EmptySet
    <2> QED
        BY <2>2, <2>3, <2>4
<1>4. \A x \in Workers : Adopted(x)' = Adopted(x)
    BY <1>1, <1>2 DEF Adopted
<1> QED
    BY <1>3, <1>4 DEF CatalogMatchesLeases

LEMMA CatalogInit == Init => CatalogMatchesLeases
<1> SUFFICES ASSUME Init, NEW w \in Workers, NEW s \in Sessions
             PROVE  catalog[<<w, s>>] = Cardinality(HeldBy(w, s))
    BY DEF CatalogMatchesLeases
<1>1. HeldBy(w, s) = {}
    BY DEF Init, HeldBy
<1> QED
    BY <1>1, FS_EmptySet DEF Init

LEMMA CatalogStep ==
    TypeInv /\ Conserved /\ CatalogMatchesLeases /\ [Next]_vars => CatalogMatchesLeases'
<1> SUFFICES ASSUME TypeInv, Conserved, CatalogMatchesLeases, [Next]_vars
             PROVE  CatalogMatchesLeases'
    OBVIOUS
<1>0. LeasesTyped /\ LeasesIssued
    BY DEF TypeInv, Conserved
<1> USE DEF leaseVars
<1>1. ASSUME NEW o \in Orders, PublishOnce(o) PROVE CatalogMatchesLeases'
    BY <1>1, CatalogKept DEF PublishOnce
<1>2. CASE SetAutomaticDiscoveryPriority
    BY <1>2, CatalogKept DEF SetAutomaticDiscoveryPriority
<1>3. ASSUME NEW w \in Workers, NEW l \in LeaseIds, Claim(w, l) PROVE CatalogMatchesLeases'
    BY <1>0, <1>3, CatalogClaim
<1>4. ASSUME NEW w \in Workers, NEW s \in Sessions, Connect(w, s) PROVE CatalogMatchesLeases'
    BY <1>4, CatalogConnect
<1>5. ASSUME NEW w \in Workers, Disconnect(w) \/ ForgetSession(w) \/ HeartbeatFail(w)
      PROVE  CatalogMatchesLeases'
    BY <1>5, CatalogKept DEF Disconnect, ForgetSession, HeartbeatFail
<1>6. ASSUME NEW w \in Workers, NEW ids \in SUBSET LeaseIds, HeartbeatRead(w, ids)
      PROVE  CatalogMatchesLeases'
    BY <1>6, CatalogKept DEF HeartbeatRead
<1>7. ASSUME NEW w \in Workers, HeartbeatCommit(w) PROVE CatalogMatchesLeases'
    <2>1. /\ DOMAIN leases' = DOMAIN leases /\ UNCHANGED catalog
          /\ \A l \in DOMAIN leases :
                /\ leases'[l].deferred = leases[l].deferred
                /\ leases'[l].worker = leases[l].worker
                /\ leases'[l].session = leases[l].session
        BY <1>0, <1>7 DEF HeartbeatCommit, LeasesTyped, LeaseRecord
    <2> QED
        BY <2>1, CatalogKept
<1>8. ASSUME NEW l \in LeaseIds, NEW w \in Workers, NEW s \in Sessions, AckOrder(l, w, s)
      PROVE  CatalogMatchesLeases'
    <2>1. l \in DOMAIN leases /\ CatalogRemove(l)
        BY <1>8 DEF AckOrder, AckAnswer
    <2>2. /\ DOMAIN leases' = DOMAIN leases \ {l}
          /\ \A k \in DOMAIN leases : k # l => leases'[k] = leases[k]
        BY <1>8 DEF AckOrder, Delete
    <2> QED
        BY <2>1, <2>2, CatalogRemoveMatches
<1>9. ASSUME NEW l \in LeaseIds, NEW w \in Workers, NEW s \in Sessions, NakOrder(l, w, s)
      PROVE  CatalogMatchesLeases'
    <2>1. l \in DOMAIN leases /\ CatalogRemove(l)
        BY <1>9 DEF NakOrder, NakAnswer
    <2>2. /\ DOMAIN leases' = DOMAIN leases /\ leases'[l].deferred
          /\ \A k \in DOMAIN leases : k # l => leases'[k] = leases[k]
        BY <1>0, <1>9, <2>1 DEF NakOrder, LeasesTyped, LeaseRecord
    <2>3. ~Active(l)'
        BY <2>2 DEF Active
    <2> QED
        BY <2>1, <2>2, <2>3, CatalogRemoveMatches
<1>10. ASSUME NEW l \in LeaseIds, SweepExpired(l) \/ ReclaimAbandoned(l)
       PROVE  CatalogMatchesLeases'
    <2>1. l \in DOMAIN leases /\ CatalogRemove(l)
        BY <1>10 DEF SweepExpired, ReclaimAbandoned, RequeueLease
    <2>2. /\ DOMAIN leases' = DOMAIN leases \ {l}
          /\ \A k \in DOMAIN leases : k # l => leases'[k] = leases[k]
        BY <1>10 DEF SweepExpired, ReclaimAbandoned, RequeueLease, Delete
    <2> QED
        BY <2>1, <2>2, CatalogRemoveMatches
<1>11. ASSUME NEW l \in LeaseIds, ExpireSettlement(l) PROVE CatalogMatchesLeases'
    BY <1>11, CatalogKept DEF ExpireSettlement
<1>12. ASSUME NEW l \in LeaseIds, Age(l) PROVE CatalogMatchesLeases'
    <2>1. /\ DOMAIN leases' = DOMAIN leases /\ UNCHANGED catalog
          /\ \A k \in DOMAIN leases :
                /\ leases'[k].deferred = leases[k].deferred
                /\ leases'[k].worker = leases[k].worker
                /\ leases'[k].session = leases[k].session
        BY <1>0, <1>12 DEF Age, LeasesTyped, LeaseRecord
    <2> QED
        BY <2>1, CatalogKept
<1>13. CASE ClearBegin \/ ClearPage \/ ClearCancelled
    BY <1>13, CatalogKept DEF ClearBegin, ClearPage, ClearCancelled
<1>14. CASE Restart
    <2>1. \A w, s : HeldBy(w, s)' = HeldBy(w, s)
        BY <1>14 DEF Restart, HeldBy, Active
    <2>2. \A w \in Workers, s \in Sessions : catalog'[<<w, s>>] = Cardinality(HeldBy(w, s))
        BY <1>14 DEF Restart
    <2> QED
        BY <2>1, <2>2 DEF CatalogMatchesLeases
<1>15. CASE UNCHANGED vars
    BY <1>15, CatalogKept DEF vars
<1> QED
    BY <1>1, <1>2, <1>3, <1>4, <1>5, <1>6, <1>7, <1>8, <1>9, <1>10, <1>11, <1>12,
       <1>13, <1>14, <1>15 DEF Next

(* The catalog a claim reads its capacity from counts exactly the active   *)
(* leases in the vault: add, remove, reassignWorker and the rebuild at     *)
(* start-up keep it so through every adoption, sweep and restart.          *)
THEOREM CatalogExact == Spec => []CatalogMatchesLeases
BY Conservation, CatalogInit, CatalogStep, PTL DEF Spec

-----------------------------------------------------------------------------
(* The replay bound.                                                       *)

(* A step after which no worker holds a lease it did not hold before.      *)
LEMMA ReplayKept ==
    ASSUME LeasesTyped, ReplayWithinCapacity,
           \A w \in Workers : Adopted(w)' \subseteq Adopted(w)
    PROVE  ReplayWithinCapacity'
<1> SUFFICES ASSUME NEW w \in Workers PROVE Cardinality(Adopted(w)') <= Capacity
    BY DEF ReplayWithinCapacity
<1>1. IsFiniteSet(Adopted(w)) /\ Cardinality(Adopted(w)) \in Nat
    BY HeldFinite
<1>2. IsFiniteSet(Adopted(w)') /\ Cardinality(Adopted(w)') <= Cardinality(Adopted(w))
    BY <1>1, FS_Subset
<1>3. Cardinality(Adopted(w)') \in Nat
    BY <1>2, FS_CardinalityType
<1> QED
    BY <1>1, <1>2, <1>3, LimitsAssumption DEF ReplayWithinCapacity

(* A claim is counted against the registered session, which holds every    *)
(* active lease of its worker, and only below the capacity.                *)
LEMMA ReplayClaim ==
    ASSUME TypeInv, LeasesIssued, CatalogMatchesLeases, StaleSessionsFenced,
           ReplayWithinCapacity, NEW w \in Workers, NEW l \in LeaseIds, Claim(w, l)
    PROVE  ReplayWithinCapacity'
<1>0. LeasesTyped /\ session[w] \in Sessions
    BY DEF TypeInv, SessionsTyped, ConnectedRegistered, Claim
<1>1. Adopted(w) = HeldBy(w, session[w])
    <2>1. \A k \in Adopted(w) : Active(k) /\ leases[k].session = session[w]
        BY <1>0, NoneAssumption DEF Adopted, Active, StaleSessionsFenced
    <2> QED
        BY <2>1 DEF Adopted, HeldBy, Active
<1>2. IsFiniteSet(Adopted(w)) /\ Cardinality(Adopted(w)) \in Nat
    BY <1>0, HeldFinite
<1>3. Cardinality(Adopted(w)) < Capacity
    BY <1>0, <1>1 DEF Claim, CatalogMatchesLeases
<1>4. /\ Adopted(w)' = Adopted(w) \cup {l}
      /\ \A x \in Workers \ {w} : Adopted(x)' = Adopted(x)
    BY CatalogClaim
<1>5. Cardinality(Adopted(w) \cup {l}) \in {Cardinality(Adopted(w)), Cardinality(Adopted(w)) + 1}
    BY <1>2, FS_AddElement
<1>6. Cardinality(Adopted(w)') <= Capacity
    BY <1>2, <1>3, <1>4, <1>5, LimitsAssumption
<1>7. \A x \in Workers \ {w} : Cardinality(Adopted(x)') <= Capacity
    BY <1>4 DEF ReplayWithinCapacity
<1> QED
    BY <1>6, <1>7 DEF ReplayWithinCapacity

LEMMA ReplayInit == Init => ReplayWithinCapacity
<1> SUFFICES ASSUME Init, NEW w \in Workers PROVE Cardinality(Adopted(w)) <= Capacity
    BY DEF ReplayWithinCapacity
<1>1. Adopted(w) = {}
    BY DEF Init, Adopted
<1> QED
    BY <1>1, FS_EmptySet, LimitsAssumption

LEMMA ReplayStep ==
    TypeInv /\ Conserved /\ CatalogMatchesLeases /\ StaleSessionsFenced
        /\ ReplayWithinCapacity /\ [Next]_vars => ReplayWithinCapacity'
<1> SUFFICES ASSUME TypeInv, Conserved, CatalogMatchesLeases, StaleSessionsFenced,
                    ReplayWithinCapacity, [Next]_vars
             PROVE  ReplayWithinCapacity'
    OBVIOUS
<1>0. LeasesTyped /\ LeasesIssued
    BY DEF TypeInv, Conserved
<1> USE DEF leaseVars
<1>1. ASSUME NEW w \in Workers, NEW l \in LeaseIds, Claim(w, l) PROVE ReplayWithinCapacity'
    BY <1>0, <1>1, ReplayClaim
<1>2. ASSUME NEW w \in Workers, NEW s \in Sessions, Connect(w, s) PROVE ReplayWithinCapacity'
    <2>1. \A x \in Workers : Adopted(x)' = Adopted(x)
        BY <1>2, CatalogConnect
    <2> QED
        BY <1>0, <2>1, ReplayKept
<1>3. ASSUME NEW w \in Workers, HeartbeatCommit(w) PROVE ReplayWithinCapacity'
    <2>1. /\ DOMAIN leases' = DOMAIN leases
          /\ \A l \in DOMAIN leases : /\ leases'[l].deferred = leases[l].deferred
                                       /\ leases'[l].worker = leases[l].worker
        BY <1>0, <1>3 DEF HeartbeatCommit, LeasesTyped, LeaseRecord
    <2>2. \A x \in Workers : Adopted(x)' \subseteq Adopted(x)
        BY <2>1 DEF Adopted
    <2> QED
        BY <1>0, <2>2, ReplayKept
<1>4. ASSUME NEW l, leases' = Delete(leases, l) PROVE ReplayWithinCapacity'
    <2>1. /\ DOMAIN leases' = DOMAIN leases \ {l}
          /\ \A k \in DOMAIN leases : k # l => leases'[k] = leases[k]
        BY <1>4 DEF Delete
    <2>2. \A x \in Workers : Adopted(x)' \subseteq Adopted(x)
        BY <2>1 DEF Adopted
    <2> QED
        BY <1>0, <2>2, ReplayKept
<1>5. ASSUME NEW l \in LeaseIds, NEW w \in Workers, NEW s \in Sessions, NakOrder(l, w, s)
      PROVE  ReplayWithinCapacity'
    <2>1. l \in DOMAIN leases
        BY <1>5 DEF NakOrder, NakAnswer
    <2>2. /\ DOMAIN leases' = DOMAIN leases /\ leases'[l].deferred
          /\ \A k \in DOMAIN leases : k # l => leases'[k] = leases[k]
        BY <1>0, <1>5, <2>1 DEF NakOrder, LeasesTyped, LeaseRecord
    <2>3. \A x \in Workers : Adopted(x)' \subseteq Adopted(x)
        BY <2>2 DEF Adopted
    <2> QED
        BY <1>0, <2>3, ReplayKept
<1>6. ASSUME NEW l \in LeaseIds, Age(l) PROVE ReplayWithinCapacity'
    <2>1. /\ DOMAIN leases' = DOMAIN leases
          /\ \A k \in DOMAIN leases : /\ leases'[k].deferred = leases[k].deferred
                                       /\ leases'[k].worker = leases[k].worker
        BY <1>0, <1>6 DEF Age, LeasesTyped, LeaseRecord
    <2>2. \A x \in Workers : Adopted(x)' \subseteq Adopted(x)
        BY <2>1 DEF Adopted
    <2> QED
        BY <1>0, <2>2, ReplayKept
<1>7. ASSUME UNCHANGED leases PROVE ReplayWithinCapacity'
    BY <1>7 DEF ReplayWithinCapacity, Adopted
<1>8. ASSUME NEW o \in Orders, PublishOnce(o) PROVE ReplayWithinCapacity'
    BY <1>7, <1>8 DEF PublishOnce
<1>9. ASSUME NEW w \in Workers, NEW ids \in SUBSET LeaseIds,
             \/ Disconnect(w) \/ ForgetSession(w)
             \/ HeartbeatRead(w, ids) \/ HeartbeatFail(w)
      PROVE  ReplayWithinCapacity'
    BY <1>7, <1>9 DEF Disconnect, ForgetSession, HeartbeatRead, HeartbeatFail
<1>10. ASSUME NEW l \in LeaseIds, ExpireSettlement(l) PROVE ReplayWithinCapacity'
    BY <1>7, <1>10 DEF ExpireSettlement
<1>11. CASE \/ SetAutomaticDiscoveryPriority \/ ClearBegin \/ ClearPage
            \/ ClearCancelled \/ Restart \/ UNCHANGED vars
    BY <1>7, <1>11 DEF SetAutomaticDiscoveryPriority, ClearBegin, ClearPage,
                       ClearCancelled, Restart, vars
<1>12. ASSUME NEW l \in LeaseIds, NEW w \in Workers, NEW s \in Sessions, AckOrder(l, w, s)
       PROVE  ReplayWithinCapacity'
    BY <1>4, <1>12 DEF AckOrder
<1>13. ASSUME NEW l \in LeaseIds, SweepExpired(l) \/ ReclaimAbandoned(l)
       PROVE  ReplayWithinCapacity'
    BY <1>4, <1>13 DEF SweepExpired, ReclaimAbandoned, RequeueLease
<1> QED
    BY <1>1, <1>2, <1>3, <1>5, <1>6, <1>8, <1>9, <1>10, <1>11, <1>12, <1>13 DEF Next

(* No interleaving of claims, adoptions and settlements lets a worker hold *)
(* more leases than streamRecoveredOrders replays: its next stream is      *)
(* never refused for the leases it holds.                                  *)
THEOREM ReplayAlwaysFits == Spec => []ReplayWithinCapacity
BY Conservation, CatalogExact, StaleSessionsAreFenced, ReplayInit, ReplayStep, PTL DEF Spec

-----------------------------------------------------------------------------
(* Clearing the backlog.  While a clear is in progress every order below   *)
(* the page it reads next is gone, and none can come back: an enqueue      *)
(* takes a sequence number past the cutoff.                                *)

ClearProgress ==
    clearing.active =>
        /\ clearing.from <= clearing.cutoff /\ clearing.cutoff <= next
        /\ \A n \in DOMAIN orders : n >= clearing.from

(* A page is a prefix of the orders not read yet.                          *)
LEMMA PagePrefix ==
    ASSUME QueueTyped, NEW p \in Page, NEW n \in PageRest, n <= p
    PROVE  n \in Page
<1> DEFINE Below(k) == {m \in PageRest : m < k}
<1>0. n \in Nat /\ p \in Nat /\ PageRest \subseteq Nat
    BY DEF PageRest, Page, QueueTyped
<1>1. p \in PageRest /\ Cardinality(Below(p)) < PageSize
    BY DEF PageRest, Page, QueueTyped
<1>2. IsFiniteSet(Below(p))
    <2>1. \A m \in Below(p) : m \in 0..p
        BY <1>0, <1>1
    <2>2. IsFiniteSet(0..p)
        BY <1>0, FS_Interval
    <2> QED
        BY <2>1, <2>2, FS_Subset
<1>3. Below(n) \subseteq Below(p)
    <2>1. \A m \in PageRest : m < n => m < p
        BY <1>0
    <2> QED
        BY <2>1
<1>4. IsFiniteSet(Below(n)) /\ Cardinality(Below(n)) <= Cardinality(Below(p))
    BY <1>2, <1>3, FS_Subset
<1>5. Cardinality(Below(n)) \in Nat /\ Cardinality(Below(p)) \in Nat
    BY <1>2, <1>4, FS_CardinalityType
<1>6. Cardinality(Below(n)) < PageSize
    BY <1>1, <1>4, <1>5, LimitsAssumption
<1> QED
    BY <1>6 DEF Page

(* What one transaction of ClearPendingOrders leaves behind.               *)
LEMMA ClearPageFacts ==
    ASSUME TypeInv, ClearProgress, ClearPage
    PROVE  /\ DOMAIN orders' = DOMAIN orders \ Doomed /\ UNCHANGED next
           /\ ~clearing'.active => \A n \in DOMAIN orders' : n >= clearing.cutoff
           /\ ClearProgress'
<1>0. /\ QueueTyped /\ DOMAIN orders \subseteq Nat
      /\ clearing.cutoff \in Nat /\ clearing.from \in Nat /\ next \in Nat
      /\ clearing \in [active : BOOLEAN, cutoff : Nat, from : Nat]
    BY DEF TypeInv, QueueTyped, RestTyped
<1>1. clearing.active /\ DOMAIN orders' = DOMAIN orders \ Doomed /\ UNCHANGED next
    BY DEF ClearPage
<1>2. PageRest = DOMAIN orders
    BY <1>0, <1>1 DEF ClearProgress, PageRest
<1>3. Page \subseteq PageRest /\ Doomed = {n \in Page : n < clearing.cutoff}
    BY DEF Page, Doomed
<1>4. CASE Page = PageRest \/ Doomed # Page
    <2>1. clearing' = NoClear
        BY <1>4 DEF ClearPage
    <2>2. ~clearing'.active
        BY <2>1 DEF NoClear
    <2>3. ASSUME NEW n \in DOMAIN orders', n < clearing.cutoff PROVE FALSE
        <3>1. n \in PageRest /\ n \notin Page
            BY <1>1, <1>2, <1>3, <2>3
        <3>2. PICK p \in Page : p >= clearing.cutoff
            BY <1>0, <1>2, <1>3, <1>4, <3>1
        <3>3. n <= p
            BY <1>0, <1>2, <1>3, <2>3, <3>1, <3>2
        <3> QED
            BY <1>0, <3>1, <3>2, <3>3, PagePrefix
    <2> QED
        BY <1>0, <1>1, <2>2, <2>3 DEF ClearProgress
<1>5. CASE Page # PageRest /\ Doomed = Page
    <2>1. PICK last \in Doomed :
              /\ \A n \in Doomed : n <= last
              /\ clearing' = [clearing EXCEPT !.from = last + 1]
        BY <1>5 DEF ClearPage
    <2>2. last \in Nat /\ last < clearing.cutoff /\ last \in Page
        BY <1>0, <1>2, <1>3
    <2>3. clearing'.active /\ clearing'.cutoff = clearing.cutoff /\ clearing'.from = last + 1
        BY <1>0, <1>1, <2>1
    <2>4. ASSUME NEW n \in DOMAIN orders' PROVE n >= last + 1
        <3>1. n \in PageRest /\ n \notin Page /\ n \in Nat
            BY <1>0, <1>1, <1>2, <1>5
        <3>2. ~(n <= last)
            BY <1>0, <2>2, <3>1, PagePrefix
        <3> QED
            BY <2>2, <3>1, <3>2
    <2>5. clearing.cutoff <= next
        BY <1>1 DEF ClearProgress
    <2> QED
        BY <1>0, <1>1, <2>2, <2>3, <2>4, <2>5 DEF ClearProgress
<1> QED
    BY <1>1, <1>4, <1>5

LEMMA ClearProgressInit == Init => ClearProgress
BY DEF Init, NoClear, ClearProgress

(* A step that enqueues nothing and leaves the clear alone.                *)
LEMMA ClearProgressKept ==
    ASSUME ClearProgress, UNCHANGED <<next, clearing>>, DOMAIN orders' \subseteq DOMAIN orders
    PROVE  ClearProgress'
BY DEF ClearProgress

LEMMA ClearProgressEnqueue ==
    ASSUME TypeInv, ClearProgress, NEW o, Enqueue(o), UNCHANGED clearing
    PROVE  ClearProgress'
<1>0. next \in Nat /\ clearing.cutoff \in Nat /\ clearing.from \in Nat
    BY DEF TypeInv, QueueTyped, RestTyped
<1>1. DOMAIN orders' = DOMAIN orders \cup {next} /\ next' = next + 1
    BY PutFacts DEF Enqueue
<1> QED
    BY <1>0, <1>1 DEF ClearProgress

LEMMA ClearProgressStep == TypeInv /\ ClearProgress /\ [Next]_vars => ClearProgress'
<1> SUFFICES ASSUME TypeInv, ClearProgress, [Next]_vars PROVE ClearProgress'
    OBVIOUS
<1> USE DEF queueVars, clearVars
<1>1. ASSUME NEW o \in Orders, PublishOnce(o) PROVE ClearProgress'
    BY <1>1, ClearProgressEnqueue DEF PublishOnce
<1>2. ASSUME NEW w \in Workers, NEW l \in LeaseIds, Claim(w, l) PROVE ClearProgress'
    <2>1. DOMAIN orders' \subseteq DOMAIN orders
        BY <1>2 DEF Claim, Delete
    <2> QED
        BY <1>2, <2>1, ClearProgressKept DEF Claim
<1>3. ASSUME NEW l \in LeaseIds, SweepExpired(l) \/ ReclaimAbandoned(l) PROVE ClearProgress'
    BY <1>3, ClearProgressEnqueue DEF SweepExpired, ReclaimAbandoned, RequeueLease
<1>4. CASE ClearBegin
    <2>1. /\ clearing'.cutoff = next /\ clearing'.from = 0 /\ UNCHANGED <<orders, next>>
        BY <1>4 DEF ClearBegin
    <2>2. next \in Nat /\ DOMAIN orders \subseteq Nat
        BY DEF TypeInv, QueueTyped
    <2> QED
        BY <2>1, <2>2 DEF ClearProgress
<1>5. CASE ClearPage
    BY <1>5, ClearPageFacts
<1>6. CASE ClearCancelled \/ Restart
    BY <1>6 DEF ClearCancelled, Restart, NoClear, ClearProgress
<1>7. ASSUME UNCHANGED <<orders, next, clearing>> PROVE ClearProgress'
    BY <1>7, ClearProgressKept
<1>8. CASE SetAutomaticDiscoveryPriority \/ UNCHANGED vars
    BY <1>7, <1>8 DEF SetAutomaticDiscoveryPriority, vars
<1>9. ASSUME NEW l \in LeaseIds, NEW w \in Workers, NEW s \in Sessions,
             AckOrder(l, w, s) \/ NakOrder(l, w, s)
      PROVE  ClearProgress'
    BY <1>7, <1>9 DEF AckOrder, NakOrder
<1>10. ASSUME NEW w \in Workers, NEW ids \in SUBSET LeaseIds,
              \/ Disconnect(w) \/ ForgetSession(w) \/ HeartbeatRead(w, ids)
              \/ HeartbeatCommit(w) \/ HeartbeatFail(w)
       PROVE  ClearProgress'
    BY <1>7, <1>10 DEF Disconnect, ForgetSession, HeartbeatRead, HeartbeatCommit,
                       HeartbeatFail
<1>11. ASSUME NEW l \in LeaseIds, ExpireSettlement(l) \/ Age(l) PROVE ClearProgress'
    BY <1>7, <1>11 DEF ExpireSettlement, Age
<1>12. ASSUME NEW w \in Workers, NEW s \in Sessions, Connect(w, s) PROVE ClearProgress'
    BY <1>7, <1>12 DEF Connect
<1> QED
    BY <1>1, <1>2, <1>3, <1>4, <1>5, <1>6, <1>8, <1>9, <1>10, <1>11, <1>12 DEF Next

(* ClearPendingOrders removes the backlog it found and nothing else: a     *)
(* page deletes only orders below the cutoff, and the page that ends the   *)
(* clear leaves none of them, whatever was claimed or enqueued between two *)
(* of its transactions.                                                    *)
THEOREM ClearExact == Spec => ClearRemovesExactlyTheBacklog
<1>1. TypeInv /\ ClearProgress /\ [Next]_vars
        => [ClearPage =>
               /\ \A n \in DOMAIN orders \ DOMAIN orders' : n < clearing.cutoff
               /\ ~clearing'.active => \A n \in DOMAIN orders' : n >= clearing.cutoff]_vars
    BY ClearPageFacts DEF Doomed
<1>2. Spec => []ClearProgress
    BY Conservation, ClearProgressInit, ClearProgressStep, PTL DEF Spec
<1> QED
    BY <1>1, <1>2, Conservation, PTL DEF Spec, ClearRemovesExactlyTheBacklog
=============================================================================
