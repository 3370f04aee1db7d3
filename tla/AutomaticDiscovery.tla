--------------------------- MODULE AutomaticDiscovery ---------------------------
(***************************************************************************)
(* Ownership of a URL by its automatic-discovery order                     *)
(* (yagonode/internal/crawlbroker/automatic_discovery_*.go).  A URL that a *)
(* search surfaced is crawled by one order at a time: a publication is     *)
(* answered "duplicate" while an order for its URL is pending or leased.   *)
(* Ownership lives in several buckets beside the queue, and publication    *)
(* and acknowledgment take several transactions each, announced by a       *)
(* durable intent that a later call or the next start completes.           *)
(*                                                                         *)
(* `store` is the content of the buckets.  A transaction is an operator    *)
(* from the store to the store; it is atomic, and it may fail.  Publishing *)
(* and clearing hold the mutex `discoveryAdmission`, claims and settlements*)
(* hold `leaseMutation`, so a publication and a settlement interleave      *)
(* between any two of their transactions.                                  *)
(*                                                                         *)
(* Abstracted: an order is its URL (webSeedOrder puts one request in it);  *)
(* normal orders and priorities, the lease catalog, control targets,       *)
(* progress and the growth gate are in other modules or left out; time is  *)
(* left open, so a lease may be abandoned, and a settlement forgotten, at  *)
(* any time.  A terminal settlement that gives its order back has the      *)
(* effect of a negative acknowledgment on ownership.  A batch of the       *)
(* sweeper and a page of the clear are sequences of steps for one order.   *)
(***************************************************************************)
EXTENDS Naturals, FiniteSets, FiniteSetsExt

CONSTANTS
    Urls,           \* normalised URLs, the keys of publications
    LeaseIds,       \* random lease identities: bounds the number of claims
    Sessions,       \* process sessions of the one worker
    MaxSequence,    \* bound on the orders that are enqueued
    NoUrl, NoSession, NoLease

ASSUME DiscoveryAssumption == NoUrl \notin Urls /\ NoSession \notin Sessions

VARIABLES
    store,          \* the buckets of the queue
    admission,      \* who holds discoveryAdmission and how far it has come
    mutation,       \* who holds leaseMutation and how far it has come
    session         \* the worker's registered session

vars == <<store, admission, mutation, session>>

Put(f, k, v) == [x \in DOMAIN f \cup {k} |-> IF x = k THEN v ELSE f[x]]
Delete(f, k) == [x \in DOMAIN f \ {k} |-> f[x]]

(* `key` and `seq` are the DiscoveryKey and the DiscoverySequence; leases  *)
(* of older releases have none.                                            *)
LeaseRecord ==
    [url : Urls, key : Urls \cup {NoUrl}, seq : 0..MaxSequence,
     session : Sessions, deferred : BOOLEAN]

Settlement == [outcome : {"acknowledged", "requeued"}, terminal : BOOLEAN]

(* Both mutexes free; an operation that fails or ends frees its own.       *)
Free == [op |-> "none", stage |-> "none", url |-> NoUrl, intent |-> NoUrl,
         cutoff |-> 0]
Idle == [stage |-> "none", leases |-> {}, lease |-> NoLease, terminal |-> FALSE,
         adopts |-> NoSession]

TypeOK ==
    /\ DOMAIN store = {"orders", "next", "leases", "keys", "active", "pending",
                       "leased", "intents", "staged", "settlements"}
    /\ store.next \in 0..(MaxSequence + 1)
    /\ \A n \in DOMAIN store.orders : n < store.next /\ store.orders[n] \in Urls
    /\ DOMAIN store.leases \cup DOMAIN store.staged \subseteq LeaseIds
    /\ \A l \in DOMAIN store.leases : store.leases[l] \in LeaseRecord
    /\ \A u \in DOMAIN store.active : u \in Urls /\ store.active[u] < store.next
    /\ \A n \in DOMAIN store.pending : n < store.next /\ store.pending[n] \in Urls
    /\ \A u \in DOMAIN store.leased : u \in Urls /\ store.leased[u] \in LeaseIds
    /\ store.intents \subseteq Urls
    /\ \A l \in DOMAIN store.settlements : store.settlements[l] \in Settlement
    /\ admission.op \in {"none", "publish", "clear", "open"}
    /\ mutation.stage \in {"none", "opening", "settle", "resolve", "release"}
    /\ session \in Sessions

-----------------------------------------------------------------------------
(* What a store holds for a URL.                                           *)
OrdersOf(s, u) == {n \in DOMAIN s.orders : s.orders[n] = u}
LeasesOf(s, u) == {l \in DOMAIN s.leases : s.leases[l].url = u}
Work(s, u) == OrdersOf(s, u) # {} \/ LeasesOf(s, u) # {}

(* The indexed lease if it is still one of the URL, or the first found.    *)
LeaseOf(s, u) ==
    IF u \in DOMAIN s.leased /\ s.leased[u] \in LeasesOf(s, u)
    THEN s.leased[u]
    ELSE CHOOSE l \in LeasesOf(s, u) : TRUE

ActivePending(s, u) == u \in DOMAIN s.active /\ s.active[u] \in OrdersOf(s, u)

(* The answer "duplicate".  An active URL is outstanding when any order or *)
(* lease of it is found; one known from an older release only, when its    *)
(* sequence is not another order's; one without ownership never.           *)
Outstanding(s, u) ==
    \/ u \in DOMAIN s.active /\ Work(s, u)
    \/ /\ u \notin DOMAIN s.active /\ u \in DOMAIN s.keys
       /\ IF s.keys[u] \in DOMAIN s.orders THEN s.orders[s.keys[u]] = u ELSE Work(s, u)

TrackOrder(s, u, n) ==
    [s EXCEPT !.active = Put(@, u, n), !.pending = Put(@, n, u)]

TrackLease(s, u, l, n) ==
    [s EXCEPT !.leases[l].key = u, !.leases[l].seq = n,
              !.leased = Put(@, u, l), !.active = Put(@, u, n)]

Untracked(s, u) ==
    CASE OrdersOf(s, u) # {} -> TrackOrder(s, u, Min(OrdersOf(s, u)))
      [] OrdersOf(s, u) = {} /\ LeasesOf(s, u) # {} ->
             TrackLease(s, u, LeaseOf(s, u), s.leases[LeaseOf(s, u)].seq)
      [] OTHER -> s

ReleaseOrphan(s, u) ==
    [s EXCEPT !.pending = Delete(@, s.active[u]),
              !.active = Delete(@, u), !.leased = Delete(@, u)]

Legacy(s, u) ==
    CASE s.keys[u] \in OrdersOf(s, u) ->
             [TrackOrder(s, u, s.keys[u]) EXCEPT !.keys = Delete(@, u)]
      [] s.keys[u] \in DOMAIN s.orders \ OrdersOf(s, u) -> s
      [] s.keys[u] \notin DOMAIN s.orders /\ LeasesOf(s, u) # {} ->
             TrackLease(s, u, LeaseOf(s, u), s.leases[LeaseOf(s, u)].seq)
      [] OTHER -> Untracked(s, u)

(* What looking for a URL's work changes when it may repair what it finds. *)
Repaired(s, u) ==
    CASE ActivePending(s, u) -> TrackOrder(s, u, s.active[u])
      [] u \in DOMAIN s.active /\ ~ActivePending(s, u) /\ LeasesOf(s, u) # {} ->
             TrackLease(s, u, LeaseOf(s, u), s.active[u])
      [] u \in DOMAIN s.active /\ ~ActivePending(s, u) /\ LeasesOf(s, u) = {} ->
             Untracked(ReleaseOrphan(s, u), u)
      [] u \notin DOMAIN s.active /\ u \in DOMAIN s.keys -> Legacy(s, u)
      [] OTHER -> s

-----------------------------------------------------------------------------
(* Transactions.                                                           *)
Enqueue(s, u) == [s EXCEPT !.orders = Put(@, s.next, u), !.next = @ + 1]

CompleteIntent(s, u, recovering) ==
    LET r == Repaired(s, u) IN
    CASE Outstanding(s, u) -> r
      [] ~Outstanding(s, u) /\ recovering /\ Work(r, u) -> Untracked(r, u)
      [] OTHER -> TrackOrder(Enqueue(r, u), u, r.next)

(* The order is the one that owns its URL.                                 *)
Tracked(s, n) ==
    n \in DOMAIN s.pending \/ (s.orders[n] \in DOMAIN s.active /\ s.active[s.orders[n]] = n)

DiscardDuplicate(s, u) == TrackLease(s, u, LeaseOf(s, u), s.leases[LeaseOf(s, u)].seq)

(* The oldest order is claimed, or dropped when its URL is leased already. *)
Claimed(s, l, w) ==
    LET n == Min(DOMAIN s.orders)
        u == s.orders[n]
        taken == [s EXCEPT !.orders = Delete(@, n), !.pending = Delete(@, n)]
        record == [url |-> u, key |-> IF Tracked(s, n) THEN u ELSE NoUrl,
                   seq |-> IF Tracked(s, n) THEN n ELSE 0, session |-> w, deferred |-> FALSE]
    IN  CASE Tracked(s, n) /\ LeasesOf(s, u) # {} -> DiscardDuplicate(taken, u)
          [] Tracked(s, n) /\ LeasesOf(s, u) = {} ->
                 [taken EXCEPT !.leases = Put(@, l, record), !.leased = Put(@, u, l)]
          [] OTHER -> [taken EXCEPT !.leases = Put(@, l, record)]

(* The index keeps a lease of the same URL that came later.                *)
ReleaseLeased(s, l, record) ==
    IF record.key \in DOMAIN s.leased /\ s.leased[record.key] = l
    THEN [s EXCEPT !.leased = Delete(@, record.key)] ELSE s

Remember(s, l, outcome, terminal) ==
    IF l \in DOMAIN s.settlements THEN s
    ELSE [s EXCEPT !.settlements =
              Put(@, l, [outcome |-> outcome, terminal |-> terminal])]

StageAcknowledgment(s, l, terminal) ==
    [s EXCEPT !.staged = Put(@, l, [lease |-> s.leases[l], terminal |-> terminal])]

Acknowledge(s, l, terminal) ==
    Remember(ReleaseLeased([s EXCEPT !.leases = Delete(@, l)], l, s.leases[l]),
             l, "acknowledged", terminal)

(* Wrong: ownership ends whatever order has it.                            *)
ReleaseActiveAny(s, record) == [s EXCEPT !.active = Delete(@, record.key)]

(* Ownership ends only if it is still that of the settled order.           *)
ReleaseActive(s, record) ==
    IF record.key \in DOMAIN s.active /\ s.active[record.key] = record.seq
    THEN [s EXCEPT !.active = Delete(@, record.key)] ELSE s

(* A staged acknowledgment contradicts what the store says of its lease.   *)
Conflicts(s, l) ==
    \/ l \in DOMAIN s.leases /\ s.leases[l] # s.staged[l].lease
    \/ /\ l \in DOMAIN s.settlements
       /\ s.settlements[l] # [outcome |-> "acknowledged", terminal |-> s.staged[l].terminal]

CompleteSettlement(s, l) ==
    LET record == s.staged[l].lease
        removed == ReleaseLeased([s EXCEPT !.leases = Delete(@, l)], l, record)
    IN  ReleaseActive(Remember(removed, l, "acknowledged", s.staged[l].terminal), record)

(* A lease goes back to the queue, with the ownership it has.              *)
Requeued(s, l) ==
    LET record == s.leases[l]
        queued == Enqueue([s EXCEPT !.leases = Delete(@, l)], record.url)
        tracked == TrackOrder(ReleaseLeased(queued, l, record), record.key, s.next)
    IN  Remember(IF record.key = NoUrl THEN queued ELSE tracked, l, "requeued", FALSE)

Deferred(s, l) ==
    Remember([s EXCEPT !.leases[l].deferred = TRUE], l, "requeued", FALSE)

(* Wrong: the ownership of a cleared order is kept.                        *)
ClearedOnly(s, n) == [s EXCEPT !.orders = Delete(@, n), !.pending = Delete(@, n)]

(* Clearing an order ends its ownership unless a lease has it.             *)
Cleared(s, n) ==
    LET u == s.orders[n]
        removed == [s EXCEPT !.orders = Delete(@, n), !.pending = Delete(@, n)]
        owns(f) == u \notin DOMAIN s.leased /\ u \in DOMAIN f /\ f[u] = n
    IN  [removed EXCEPT !.active = IF owns(s.active) THEN Delete(@, u) ELSE @,
                        !.keys = IF owns(s.keys) THEN Delete(@, u) ELSE @]

(* The start makes every lease that has a key findable by it.              *)
ReconcileLeases(s) ==
    LET keyed == {l \in DOMAIN s.leases : s.leases[l].key # NoUrl}
        urls == {s.leases[l].key : l \in keyed}
        holder(u) == CHOOSE l \in keyed : s.leases[l].key = u
    IN  [s EXCEPT
            !.leased = [u \in DOMAIN @ \cup urls |-> IF u \in urls THEN holder(u) ELSE @[u]],
            !.active = [u \in DOMAIN @ \cup urls |->
                           IF u \in DOMAIN @ THEN @[u] ELSE s.leases[holder(u)].seq]]

-----------------------------------------------------------------------------
(* Publishing and clearing, under discoveryAdmission.                      *)
Publishing(stage) == admission.op = "publish" /\ admission.stage = stage
GoTo(stage) == admission' = [admission EXCEPT !.stage = stage]

Begin(op, u) ==
    /\ admission = Free
    /\ admission' = [Free EXCEPT !.op = op, !.stage = "recover", !.url = u]
    /\ UNCHANGED <<store, mutation, session>>

PublishBegin(u) == Begin("publish", u)
ClearBegin == Begin("clear", NoUrl)

(* Intents left by earlier calls are completed first, one after another;   *)
(* completing one twice, when its release failed, is harmless.             *)
RecoverIntent(u) ==
    /\ admission.stage = "recover" /\ u \in store.intents
    /\ store' = CompleteIntent(store, u, TRUE)
    /\ store'.next <= MaxSequence
    /\ admission' = [admission EXCEPT !.stage = "recovered", !.intent = u]
    /\ UNCHANGED <<mutation, session>>

RecoverRelease ==
    /\ admission.stage = "recovered"
    /\ store' = [store EXCEPT !.intents = @ \ {admission.intent}]
    /\ admission' = [admission EXCEPT !.stage = "recover", !.intent = NoUrl]
    /\ UNCHANGED <<mutation, session>>

(* The check reads only; what it finds is repaired before the publication  *)
(* is answered, and looked for again when the repair found nothing.        *)
Admit ==
    /\ Publishing("recover") /\ store.intents = {}
    /\ GoTo(IF Outstanding(store, admission.url) THEN "repair" ELSE "admitted")
    /\ UNCHANGED <<store, mutation, session>>

Repair ==
    /\ Publishing("repair")
    /\ store' = Repaired(store, admission.url)
    /\ IF Outstanding(store, admission.url) THEN admission' = Free ELSE GoTo("recover")
    /\ UNCHANGED <<mutation, session>>

PersistIntent ==
    /\ Publishing("admitted")
    /\ store' = [store EXCEPT !.intents = @ \cup {admission.url}]
    /\ GoTo("persisted")
    /\ UNCHANGED <<mutation, session>>

PublishOrder ==
    /\ Publishing("persisted")
    /\ store' = CompleteIntent(store, admission.url, FALSE)
    /\ store'.next <= MaxSequence
    /\ GoTo("published")
    /\ UNCHANGED <<mutation, session>>

PublishEnd ==
    /\ Publishing("published")
    /\ store' = [store EXCEPT !.intents = @ \ {admission.url}]
    /\ admission' = Free
    /\ UNCHANGED <<mutation, session>>

ClearCutoff ==
    /\ admission.op = "clear" /\ admission.stage = "recover" /\ store.intents = {}
    /\ admission' = [admission EXCEPT !.stage = "delete", !.cutoff = store.next]
    /\ UNCHANGED <<store, mutation, session>>

ClearOrder ==
    LET before == {n \in DOMAIN store.orders : n < admission.cutoff} IN
    /\ admission.stage = "delete"
    /\ IF before = {} THEN admission' = Free /\ UNCHANGED store
       ELSE store' = Cleared(store, Min(before)) /\ UNCHANGED admission
    /\ UNCHANGED <<mutation, session>>

(* A transaction fails, a deadline passes, or storage must not grow.       *)
AdmissionFails ==
    /\ admission.op \in {"publish", "clear"}
    /\ admission' = Free
    /\ UNCHANGED <<store, mutation, session>>

-----------------------------------------------------------------------------
(* Claims and settlements, under leaseMutation.                            *)
Claim(l) ==
    /\ mutation = Idle
    /\ l \notin DOMAIN store.leases \cup DOMAIN store.settlements \cup DOMAIN store.staged
    /\ \A u \in DOMAIN store.leased : store.leased[u] # l
    /\ DOMAIN store.orders # {}
    /\ store' = Claimed(store, l, session)
    /\ UNCHANGED <<admission, mutation, session>>

Resolve(leases, adopts) ==
    mutation' = [Idle EXCEPT !.stage = "resolve", !.leases = leases, !.adopts = adopts]

Owned(l) == l \in DOMAIN store.leases /\ ~store.leases[l].deferred

(* A plain or a terminal acknowledgment by the lease's session.  A lease   *)
(* with a key is staged, once and in one form; a request repeated after    *)
(* the lease is gone goes on with what is staged.                          *)
AcknowledgeStage(l, terminal) ==
    /\ mutation = Idle
    /\ \/ /\ Owned(l) /\ store.leases[l].key = NoUrl
          /\ UNCHANGED store
       \/ /\ Owned(l) /\ store.leases[l].key # NoUrl /\ l \notin DOMAIN store.staged
          /\ store' = StageAcknowledgment(store, l, terminal)
       \/ /\ l \in DOMAIN store.staged /\ store.staged[l].terminal = terminal
          /\ UNCHANGED store
    /\ mutation' = [Idle EXCEPT !.stage = "settle", !.leases = {l}, !.terminal = terminal]
    /\ UNCHANGED <<admission, session>>

(* The settlement itself; when it fails, what is staged is completed all   *)
(* the same.                                                               *)
AcknowledgeSettle ==
    /\ mutation.stage = "settle"
    /\ \/ \E l \in mutation.leases :
              Owned(l) /\ store' = Acknowledge(store, l, mutation.terminal)
       \/ UNCHANGED store
    /\ mutation' = [mutation EXCEPT !.stage = "resolve"]
    /\ UNCHANGED <<admission, session>>

(* A staged acknowledgment is completed in two transactions.               *)
ResolveComplete(l) ==
    /\ mutation.stage = "resolve" /\ l \in mutation.leases
    /\ l \in DOMAIN store.staged /\ ~Conflicts(store, l)
    /\ store' = CompleteSettlement(store, l)
    /\ mutation' = [mutation EXCEPT !.stage = "release", !.lease = l]
    /\ UNCHANGED <<admission, session>>

ResolveRelease ==
    /\ mutation.stage = "release"
    /\ store' = [store EXCEPT !.staged = Delete(@, mutation.lease)]
    /\ mutation' = [mutation EXCEPT !.stage = "resolve", !.lease = NoLease,
                                   !.leases = @ \ {mutation.lease}]
    /\ UNCHANGED <<admission, session>>

(* Nothing is left to resolve.  An adoption now moves the leases of the    *)
(* worker to its new session; a start is over.                             *)
ResolveEnd ==
    /\ mutation.stage = "resolve"
    /\ mutation.leases \cap DOMAIN store.staged = {}
    /\ IF mutation.adopts = NoSession THEN UNCHANGED <<store, session>>
       ELSE /\ session' = mutation.adopts
            /\ store' = [store EXCEPT !.leases = [l \in DOMAIN @ |->
                   IF @[l].deferred THEN @[l] ELSE [@[l] EXCEPT !.session = mutation.adopts]]]
    /\ mutation' = Idle
    /\ admission' = IF admission.op = "open" THEN Free ELSE admission

(* A negative acknowledgment or a sweep that meets a staged acknowledgment *)
(* resolves it and gives nothing back.                                     *)
NegativeAcknowledge(l) ==
    /\ mutation = Idle
    /\ \/ l \in DOMAIN store.staged /\ Resolve({l}, NoSession) /\ UNCHANGED store
       \/ l \notin DOMAIN store.staged /\ Owned(l) /\ store' = Deferred(store, l)
          /\ UNCHANGED mutation
    /\ UNCHANGED <<admission, session>>

(* Wrong: the sweep does not look for a staged acknowledgment.             *)
SweepAnyway(l) ==
    /\ mutation = Idle /\ l \in DOMAIN store.leases
    /\ store.next < MaxSequence
    /\ store' = Requeued(store, l)
    /\ UNCHANGED <<admission, mutation, session>>

Sweep(l) ==
    /\ mutation = Idle /\ l \in DOMAIN store.leases
    /\ \/ l \in DOMAIN store.staged /\ Resolve({l}, NoSession) /\ UNCHANGED store
       \/ /\ l \notin DOMAIN store.staged /\ store.next < MaxSequence
          /\ store' = Requeued(store, l) /\ UNCHANGED mutation
    /\ UNCHANGED <<admission, session>>

(* Wrong: the leases change their session with acknowledgments staged.     *)
AdoptAtOnce(w) ==
    /\ mutation = Idle
    /\ Resolve({}, w)
    /\ UNCHANGED <<store, admission, session>>

Adopt(w) ==
    /\ mutation = Idle
    /\ Resolve(DOMAIN store.staged, w)
    /\ UNCHANGED <<store, admission, session>>

(* The remembered outcome of a lease that is gone expires.                 *)
Forget(l) ==
    /\ mutation = Idle
    /\ l \in DOMAIN store.settlements \ DOMAIN store.leases
    /\ store' = [store EXCEPT !.settlements = Delete(@, l)]
    /\ UNCHANGED <<admission, mutation, session>>

MutationFails ==
    /\ mutation # Idle /\ admission.op # "open" /\ mutation.stage # "settle"
    /\ mutation' = Idle
    /\ UNCHANGED <<store, admission, session>>

-----------------------------------------------------------------------------
(* A stop at any point, the stop of a start included; the start completes  *)
(* the intents, then reconciles the leases, then completes the staged      *)
(* acknowledgments, before any call is served.                             *)
Crash ==
    /\ admission' = [Free EXCEPT !.op = "open", !.stage = "recover"]
    /\ mutation' = [Idle EXCEPT !.stage = "opening"]
    /\ UNCHANGED <<store, session>>

OpenLeases ==
    /\ admission.op = "open" /\ admission.stage = "recover" /\ store.intents = {}
    /\ store' = ReconcileLeases(store)
    /\ admission' = [admission EXCEPT !.stage = "settlements"]
    /\ Resolve(DOMAIN store.staged, NoSession)
    /\ UNCHANGED session

-----------------------------------------------------------------------------
(* A new store, or one of an older release that owned a URL by its first   *)
(* sequence for ever: its order pending, leased, or done.                  *)
EmptyStore ==
    [orders |-> <<>>, next |-> 0, leases |-> <<>>, keys |-> <<>>, active |-> <<>>,
     pending |-> <<>>, leased |-> <<>>, intents |-> {}, staged |-> <<>>,
     settlements |-> <<>>]

OldOwned(u) == [EmptyStore EXCEPT !.keys = Put(@, u, 0), !.next = 1]
OldPending(u) == [OldOwned(u) EXCEPT !.orders = Put(@, 0, u)]
OldLeased(u, l, w) ==
    [OldOwned(u) EXCEPT !.leases = Put(@, l, [url |-> u, key |-> NoUrl, seq |-> 0,
                                              session |-> w, deferred |-> FALSE])]

LegacyStores ==
    {OldOwned(u) : u \in Urls} \cup {OldPending(u) : u \in Urls}
    \cup {OldLeased(u, l, w) : u \in Urls, l \in LeaseIds, w \in Sessions}

Init ==
    /\ store \in {EmptyStore} \cup LegacyStores
    /\ session \in Sessions
    /\ \A l \in DOMAIN store.leases : store.leases[l].session = session
    /\ admission = Free /\ mutation = Idle

Next ==
    \/ \E u \in Urls : PublishBegin(u) \/ RecoverIntent(u)
    \/ RecoverRelease \/ Admit \/ Repair \/ PersistIntent \/ PublishOrder \/ PublishEnd
    \/ ClearBegin \/ ClearCutoff \/ ClearOrder \/ AdmissionFails
    \/ \E l \in LeaseIds :
           \/ Claim(l) \/ NegativeAcknowledge(l) \/ Sweep(l) \/ Forget(l)
           \/ ResolveComplete(l)
           \/ \E terminal \in BOOLEAN : AcknowledgeStage(l, terminal)
    \/ AcknowledgeSettle \/ ResolveRelease \/ ResolveEnd \/ MutationFails
    \/ \E w \in Sessions : Adopt(w)
    \/ Crash \/ OpenLeases

Spec == Init /\ [][Next]_vars

-----------------------------------------------------------------------------
(* A URL is crawled by one order at a time: whatever publications, claims, *)
(* sweeps, acknowledgments, clears and stops interleave, at most one       *)
(* pending order or lease exists for it (publishAutomaticDiscovery).       *)
OneOrderPerUrl ==
    \A u \in Urls : Cardinality(OrdersOf(store, u)) + Cardinality(LeasesOf(store, u)) <= 1

(* Ownership is that of the work there is.  A pending order or a lease     *)
(* makes its URL outstanding, tracked under its own sequence or known from *)
(* an older release; and a URL without work is owned only while its        *)
(* acknowledgment is staged, so it can be discovered again                 *)
(* (activeAutomaticDiscoveryOutstandingTx, releaseActiveAutomaticDiscoveryTx). *)
OwnershipExact ==
    \A u \in Urls :
        /\ Work(store, u) => Outstanding(store, u)
        /\ \A n \in OrdersOf(store, u) :
               u \in DOMAIN store.active =>
                   store.active[u] = n /\ n \in DOMAIN store.pending
        /\ \A l \in LeasesOf(store, u) :
               u \in DOMAIN store.active =>
                   store.active[u] = store.leases[l].seq /\ store.leased[u] = l
        /\ u \in DOMAIN store.active /\ ~Work(store, u) =>
               \/ u \in DOMAIN store.keys
               \/ \E l \in DOMAIN store.staged : store.staged[l].lease.key = u

(* No staged acknowledgment contradicts the store, so the retry, the sweep *)
(* or the start that meets it completes it; one that did would stop the    *)
(* node from opening for ever (completeAutomaticDiscoverySettlementTx).    *)
IntentsCompletable == \A l \in DOMAIN store.staged : ~Conflicts(store, l)

(* An order whose acknowledgment was staged is never given back and never  *)
(* handed to another session, whatever fails afterwards: its lease stays   *)
(* as it was and ends acknowledged (negativeAcknowledgmentTx,              *)
(* requeueLeaseBatchTx, adoptWorkerSession).                               *)
AcknowledgedStaysDone ==
    [][\A l \in DOMAIN store.staged \cap DOMAIN store.leases :
          \/ l \in DOMAIN store'.leases /\ store'.leases[l] = store.leases[l]
          \/ /\ l \notin DOMAIN store'.leases
             /\ store'.settlements[l].outcome = "acknowledged"
             /\ store'.orders = store.orders]_vars
=============================================================================
