-------------------------- MODULE TerminalSettlement --------------------------
(***************************************************************************)
(* The end of a crawl run: how a crawler hands the final snapshot of a run *)
(* to the node and both forget it.  Node: yagonode/internal/crawlbroker    *)
(* (settleTerminalOrder and what it calls) and crawlruns (the record of    *)
(* final snapshots).  Crawler: yago-crawler/internal/crawlorder (the relay)*)
(* and frontiercheckpoint (the outbox and the run's checkpoint).           *)
(*                                                                         *)
(* One call of the node is several transactions, so a call is a process    *)
(* that takes one step per transaction, may fail before any of them, and   *)
(* goes on after its caller gave up.  Whatever is kept in memory is lost   *)
(* when its process stops: calls and the registered sessions on the node;  *)
(* runs, lease grants and the relay's progress on the crawler.             *)
(*                                                                         *)
(* Abstracted: the snapshot (tally, recent outcomes, rate) is one value of *)
(* Tallies; the confirmation token, an HMAC over the lease and the whole   *)
(* request, is the definition it was computed from; a worker's sessions    *)
(* are numbered; whether a lease is past its deadline is a flag.  The      *)
(* pending queue, the plain acknowledgments and the heartbeats are those   *)
(* of OrderQueue and appear only as far as they change a lease.            *)
(***************************************************************************)
EXTENDS Integers, FiniteSets

CONSTANTS
    Orders,         \* order identities; a run of an order has the order's provenance
    Workers,        \* crawlers
    LeaseIds,       \* random lease identities: bounds the number of claims
    Tallies,        \* final snapshots a run can end with
    Calls,          \* concurrent AckOrder calls
    MaxSession,     \* bounds the restarts of a crawler
    Capacity,       \* of the record of final snapshots (crawlruns)
    None

ASSUME TerminalAssumption ==
    MaxSession \in Nat \ {0} /\ Capacity \in Nat /\ None \notin Workers \cup LeaseIds

VARIABLES
    pending,        \* node: orders waiting to be claimed
    leases,         \* node: lease records
    settlements,    \* node: remembered outcomes by lease
    control,        \* node: leaseControlTargets and completedControlTargets
    deliveries,     \* node: final snapshots by run
    registered,     \* node, in memory: the session each worker streams with
    calls,          \* node, in memory: AckOrder calls in progress or answered
    checkpoint,     \* crawler: state of the run's frontier checkpoint
    outbox,         \* crawler: settlements to deliver, by lease
    session,        \* crawler, in memory: the session of the running process
    run,            \* crawler, in memory: the lease under which an order runs
    grants,         \* crawler, in memory: leases confirmed by a heartbeat
    relay,          \* crawler, in memory: progress of the relay with a lease
    issued,         \* history: lease identities handed out
    acknowledged,   \* history: definitions the node acknowledged
    recorded        \* history: orders and snapshots given to RecordTerminal

leaseVars == <<pending, leases, issued>>
nodeVars == <<leaseVars, settlements, control, deliveries, registered, acknowledged, recorded>>
crawlerVars == <<checkpoint, outbox, session, run, grants, relay>>
vars == <<nodeVars, calls, crawlerVars>>

Put(f, k, v) == [x \in DOMAIN f \cup {k} |-> IF x = k THEN v ELSE f[x]]
Delete(f, k) == [x \in DOMAIN f \ {k} |-> f[x]]

Sessions == 1 .. MaxSession
Outcomes == {"acknowledged", "requeued"}

(* crawlsettlement.Settlement without its phase, and terminalLeaseRequest. *)
Definitions ==
    [lease : LeaseIds, order : Orders, worker : Workers, session : Sessions,
     outcome : Outcomes, tally : Tallies]

LeaseRecord ==
    [order : Orders, worker : Workers, session : Sessions, deferred : BOOLEAN, live : BOOLEAN]

(* leaseSettlementRecord: a terminal one, or the outcome the sweeper left. *)
Plain == [terminal |-> FALSE]
TerminalRecord == [terminal : {TRUE}, def : Definitions, delivered : BOOLEAN, final : BOOLEAN]

(* Steps of settleTerminalOrder, then the answers a call can have.         *)
Steps == {"prepare", "record", "progress", "deliver", "complete", "finalize", "confirm"}
Answers == {"token", "confirmed", "refused", "lost", "conflict", "failed"}
CallRecord ==
    [def : Definitions, step : Steps \cup Answers, delivered : BOOLEAN, awaited : BOOLEAN]

Phases == {"AwaitingAcknowledgment", "AcknowledgedDeleting", "Confirming"}
Row == [def : Definitions, phase : Phases]

TypeOK ==
    /\ pending \subseteq Orders
    /\ DOMAIN leases \subseteq LeaseIds /\ leases \in [DOMAIN leases -> LeaseRecord]
    /\ DOMAIN settlements \subseteq LeaseIds
    /\ settlements \in [DOMAIN settlements -> {Plain} \cup TerminalRecord]
    /\ DOMAIN control \subseteq LeaseIds
    /\ control \in [DOMAIN control -> {"pending", "completed"}]
    /\ DOMAIN deliveries \subseteq Orders
    /\ deliveries \in [DOMAIN deliveries ->
                          [tally : Tallies, worker : Workers, confirmed : BOOLEAN]]
    /\ registered \in [Workers -> 0 .. MaxSession]
    /\ DOMAIN calls \subseteq Calls /\ calls \in [DOMAIN calls -> CallRecord]
    /\ checkpoint \in [Workers -> [Orders -> {"none", "active", "completed", "deleting"}]]
    /\ DOMAIN outbox \subseteq LeaseIds /\ outbox \in [DOMAIN outbox -> Row]
    /\ session \in [Workers -> Sessions]
    /\ run \in [Workers -> [Orders -> LeaseIds \cup {None}]]
    /\ grants \in [Workers -> SUBSET LeaseIds]
    /\ relay \in [LeaseIds -> {"idle", "waiting", "mark", "erase", "advance"}]
    /\ issued \subseteq LeaseIds
    /\ acknowledged \subseteq Definitions
    /\ recorded \subseteq Orders \X Tallies

Init ==
    /\ pending = Orders
    /\ leases = << >> /\ settlements = << >> /\ control = << >> /\ deliveries = << >>
    /\ registered = [w \in Workers |-> 0]
    /\ calls = << >>
    /\ checkpoint = [w \in Workers |-> [o \in Orders |-> "none"]]
    /\ outbox = << >>
    /\ session = [w \in Workers |-> 1]
    /\ run = [w \in Workers |-> [o \in Orders |-> None]]
    /\ grants = [w \in Workers |-> {}]
    /\ relay = [l \in LeaseIds |-> "idle"]
    /\ issued = {} /\ acknowledged = {} /\ recorded = {}

-----------------------------------------------------------------------------
(* The node's queue, as far as it concerns a lease.                        *)

(* activateWorkerSession: the worker's leases follow it to its session.    *)
Connect(w) ==
    /\ registered' = [registered EXCEPT ![w] = session[w]]
    /\ leases' = [l \in DOMAIN leases |->
                     IF leases[l].worker = w /\ ~leases[l].deferred
                     THEN [leases[l] EXCEPT !.session = session[w], !.live = TRUE]
                     ELSE leases[l]]
    /\ UNCHANGED <<pending, issued, settlements, control, deliveries, acknowledged, recorded,
                   calls, crawlerVars>>

(* claimPendingOrder for the session that streams.                         *)
Claim(w, o, l) ==
    /\ registered[w] = session[w]
    /\ o \in pending
    /\ l \notin issued
    /\ pending' = pending \ {o}
    /\ issued' = issued \cup {l}
    /\ leases' = Put(leases, l, [order |-> o, worker |-> w, session |-> session[w],
                                 deferred |-> FALSE, live |-> TRUE])
    /\ UNCHANGED <<settlements, control, deliveries, registered, acknowledged, recorded,
                   calls, crawlerVars>>

(* The lease passes its deadline.                                          *)
Lapse(l) ==
    /\ l \in DOMAIN leases
    /\ leases[l].live
    /\ leases' = [leases EXCEPT ![l].live = FALSE]
    /\ UNCHANGED <<pending, issued, settlements, control, deliveries, registered,
                   acknowledged, recorded, calls, crawlerVars>>

(* requeueLeaseTx, for a deferred lease past its delay and for a lease its *)
(* worker abandoned: the settlement already remembered is kept.            *)
Sweep(l) ==
    /\ l \in DOMAIN leases
    /\ ~leases[l].live
    /\ pending' = pending \cup {leases[l].order}
    /\ leases' = Delete(leases, l)
    /\ settlements' = IF l \in DOMAIN settlements THEN settlements
                      ELSE Put(settlements, l, Plain)
    /\ UNCHANGED <<issued, control, deliveries, registered, acknowledged, recorded,
                   calls, crawlerVars>>

-----------------------------------------------------------------------------
(* The node's side of a settlement: settleTerminalOrder.                   *)

(* requireTerminalLeaseSettlement, sameTerminalLeaseSettlement.            *)
Remembers(d) ==
    /\ d.lease \in DOMAIN settlements
    /\ settlements[d.lease].terminal
    /\ settlements[d.lease].def = d

(* The call goes on with its next step, or ends: nobody reads the answer   *)
(* of a call whose caller gave up.                                         *)
Continue(k, step) == calls' = [calls EXCEPT ![k].step = step]
Answer(k, answer) ==
    calls' = IF calls[k].awaited THEN [calls EXCEPT ![k].step = answer] ELSE Delete(calls, k)

OwnedLive(d) ==
    /\ leases[d.lease].worker = d.worker
    /\ leases[d.lease].session = d.session
    /\ leases[d.lease].live

(* applyTerminalLeaseDispositionTx and storeLeaseSettlement: an            *)
(* acknowledgment deletes the lease and leaves a control target to         *)
(* complete; a requeue defers the lease.                                   *)
Dispose(d) ==
    /\ settlements' = Put(settlements, d.lease,
                          [terminal |-> TRUE, def |-> d, delivered |-> FALSE, final |-> FALSE])
    /\ IF d.outcome = "acknowledged"
       THEN /\ control' = Put(control, d.lease, "pending")
            /\ leases' = Delete(leases, d.lease)
            /\ acknowledged' = acknowledged \cup {d}
       ELSE /\ leases' = [leases EXCEPT ![d.lease].deferred = TRUE]
            /\ UNCHANGED <<control, acknowledged>>
    /\ UNCHANGED <<pending, issued, deliveries, registered, recorded>>

(* prepareTerminalLeaseSettlement: a lease that is gone or deferred must   *)
(* have been settled by exactly this definition.                           *)
Prepare(k) ==
    LET d == calls[k].def IN
    /\ calls[k].step = "prepare"
    /\ IF d.lease \notin DOMAIN leases \/ leases[d.lease].deferred
       THEN /\ IF Remembers(d)
               THEN calls' = [calls EXCEPT ![k].step = "record",
                                           ![k].delivered = settlements[d.lease].delivered]
               ELSE Answer(k, "refused")
            /\ UNCHANGED nodeVars
       ELSE IF ~OwnedLive(d)
       THEN Answer(k, "lost") /\ UNCHANGED nodeVars
       ELSE IF d.lease \in DOMAIN settlements /\ ~Remembers(d)
       THEN Answer(k, "refused") /\ UNCHANGED nodeVars
       ELSE Continue(k, "record") /\ Dispose(d)
    /\ UNCHANGED crawlerVars

(* pruneConfirmedTerminalDeliveries: beyond the capacity the oldest        *)
(* confirmed snapshot goes; ages are wall-clock times, so any may be it.   *)
Pruned(f) ==
    LET confirmed == {o \in DOMAIN f : f[o].confirmed} IN
    IF Cardinality(DOMAIN f) > Capacity /\ confirmed # {}
    THEN {Delete(f, o) : o \in confirmed} ELSE {f}

(* Wrong: a snapshot known already is not compared and counts as delivered.*)
RecordTerminalAnyKnown(k) ==
    LET d == calls[k].def IN
    /\ calls[k].step = "record"
    /\ IF calls[k].delivered \/ d.order \in DOMAIN deliveries
       THEN /\ Continue(k, "progress")
            /\ UNCHANGED <<deliveries, recorded>>
       ELSE /\ \E f \in Pruned(Put(deliveries, d.order,
                            [tally |-> d.tally, worker |-> d.worker, confirmed |-> FALSE])) :
                  deliveries' = f
            /\ recorded' = recorded \cup {<<d.order, d.tally>>}
            /\ Continue(k, "progress")
    /\ UNCHANGED <<leaseVars, settlements, control, registered, acknowledged, crawlerVars>>

(* RecordTerminal, skipped when the settlement was read as delivered: a    *)
(* run has one final snapshot, and another one for it is a conflict the    *)
(* crawler sees as an internal error.                                      *)
RecordTerminal(k) ==
    LET d == calls[k].def IN
    /\ calls[k].step = "record"
    /\ IF calls[k].delivered
       THEN Continue(k, "deliver") /\ UNCHANGED <<deliveries, recorded>>
       ELSE IF d.order \in DOMAIN deliveries
       THEN /\ IF deliveries[d.order].tally = d.tally /\ deliveries[d.order].worker = d.worker
               THEN Continue(k, "progress") ELSE Answer(k, "conflict")
            /\ UNCHANGED <<deliveries, recorded>>
       ELSE /\ \E f \in Pruned(Put(deliveries, d.order,
                            [tally |-> d.tally, worker |-> d.worker, confirmed |-> FALSE])) :
                  deliveries' = f
            /\ recorded' = recorded \cup {<<d.order, d.tally>>}
            /\ Continue(k, "progress")
    /\ UNCHANGED <<leaseVars, settlements, control, registered, acknowledged, crawlerVars>>

(* acknowledgeTerminalProgress.                                            *)
AcknowledgeProgress(k) ==
    LET d == calls[k].def IN
    /\ calls[k].step = "progress"
    /\ IF Remembers(d)
       THEN /\ settlements' = [settlements EXCEPT ![d.lease].delivered = TRUE]
            /\ Continue(k, "deliver")
       ELSE Answer(k, "refused") /\ UNCHANGED settlements
    /\ UNCHANGED <<leaseVars, control, deliveries, registered, acknowledged, recorded,
                   crawlerVars>>

(* ConfirmTerminalDelivery: from now on the snapshot may be pruned.        *)
ConfirmDelivery(k) ==
    LET d == calls[k].def IN
    /\ calls[k].step = "deliver"
    /\ IF d.order \in DOMAIN deliveries /\ ~deliveries[d.order].confirmed
       THEN \E f \in Pruned([deliveries EXCEPT ![d.order].confirmed = TRUE]) : deliveries' = f
       ELSE UNCHANGED deliveries
    /\ Continue(k, IF d.outcome = "acknowledged" THEN "complete" ELSE "finalize")
    /\ UNCHANGED <<leaseVars, settlements, control, registered, acknowledged, recorded,
                   crawlerVars>>

(* completeRunControl, which the replay when the node opens repeats: the   *)
(* target moves to the completed ones while the settlement is retained.    *)
CompletedTargets(S) ==
    [l \in {x \in DOMAIN control : x \in S => x \in DOMAIN settlements} |->
        IF l \in S THEN "completed" ELSE control[l]]

(* acknowledgeOrder: the lease is gone, so the outcome must be remembered. *)
CompleteControl(k) ==
    LET d == calls[k].def IN
    /\ calls[k].step = "complete"
    /\ IF d.lease \in DOMAIN settlements
       THEN control' = CompletedTargets({d.lease}) /\ Continue(k, "finalize")
       ELSE Answer(k, "refused") /\ UNCHANGED control
    /\ UNCHANGED <<leaseVars, settlements, deliveries, registered, acknowledged, recorded,
                   crawlerVars>>

(* finalizeTerminalLeaseSettlement and the token.                          *)
Finalize(k) ==
    LET d == calls[k].def IN
    /\ calls[k].step = "finalize"
    /\ IF /\ Remembers(d)
          /\ \/ settlements[d.lease].final
             \/ /\ settlements[d.lease].delivered
                /\ d.outcome = "acknowledged" =>
                      d.lease \in DOMAIN control /\ control[d.lease] = "completed"
       THEN /\ settlements' = [settlements EXCEPT ![d.lease].final = TRUE]
            /\ Answer(k, "token")
       ELSE Answer(k, "refused") /\ UNCHANGED settlements
    /\ UNCHANGED <<leaseVars, control, deliveries, registered, acknowledged, recorded,
                   crawlerVars>>

(* Wrong: the order is enqueued whether or not its lease is still there.   *)
RequeueAlways(l, o) == pending' = pending \cup {o} /\ leases' = Delete(leases, l)

(* requeueTerminalLeaseTx: a deferred lease the sweeper has taken already  *)
(* is not requeued again.                                                  *)
RequeueTerminalLease(l, o) ==
    IF l \in DOMAIN leases
    THEN pending' = pending \cup {o} /\ leases' = Delete(leases, l)
    ELSE UNCHANGED <<pending, leases>>

(* deleteTerminalLeaseSettlementTx, after the requeue.                     *)
ForgetSettlement(l) ==
    /\ IF settlements[l].def.outcome = "requeued"
       THEN RequeueTerminalLease(l, settlements[l].def.order)
       ELSE UNCHANGED <<pending, leases>>
    /\ settlements' = Delete(settlements, l)
    /\ control' = Delete(control, l)
    /\ UNCHANGED <<issued, deliveries, registered, acknowledged, recorded>>

(* confirmTerminalLeaseSettlement: a settlement already forgotten is a     *)
(* confirmation already done.                                              *)
Confirm(k) ==
    LET d == calls[k].def IN
    /\ calls[k].step = "confirm"
    /\ IF d.lease \notin DOMAIN settlements
       THEN Answer(k, "confirmed") /\ UNCHANGED nodeVars
       ELSE IF ~Remembers(d)
       THEN Answer(k, "refused") /\ UNCHANGED nodeVars
       ELSE Answer(k, "confirmed") /\ ForgetSettlement(d.lease)
    /\ UNCHANGED crawlerVars

(* A transaction fails or the request's context ends.                      *)
CallFails(k) ==
    /\ calls[k].step \in Steps
    /\ Answer(k, "failed")
    /\ UNCHANGED <<nodeVars, crawlerVars>>

(* deleteExpiredLeaseSettlementTx, 24 hours after the finalization, or     *)
(* after a plain settlement whose lease is gone.                           *)
ExpireSettlement(l) ==
    /\ l \in DOMAIN settlements
    /\ IF settlements[l].terminal
       THEN settlements[l].final /\ ForgetSettlement(l)
       ELSE /\ l \notin DOMAIN leases
            /\ settlements' = Delete(settlements, l)
            /\ UNCHANGED <<leaseVars, control, deliveries, registered, acknowledged, recorded>>
    /\ UNCHANGED <<calls, crawlerVars>>

(* The node stops and opens again; replayRunControlCompletions runs first. *)
NodeRestart ==
    /\ calls' = [k \in {x \in DOMAIN calls : calls[x].awaited} |->
                    [calls[k] EXCEPT !.step = "failed"]]
    /\ control' = CompletedTargets(DOMAIN control)
    /\ registered' = [w \in Workers |-> 0]
    /\ UNCHANGED <<leaseVars, settlements, deliveries, acknowledged, recorded, crawlerVars>>

-----------------------------------------------------------------------------
(* The crawler.                                                            *)

(* The order of l arrives, on a first or a repeated delivery, its lease    *)
(* confirmed by a heartbeat: the run starts, goes on under this lease, or, *)
(* when its checkpoint is complete, is only settled.                       *)
Deliver(l) ==
    LET w == leases[l].worker
        o == leases[l].order IN
    /\ l \in DOMAIN leases
    /\ ~leases[l].deferred /\ leases[l].live
    /\ leases[l].session = session[w]
    /\ registered[w] = session[w]
    /\ l \notin grants[w]
    /\ checkpoint[w][o] # "deleting"
    /\ grants' = [grants EXCEPT ![w] = @ \cup {l}]
    /\ run' = [run EXCEPT ![w][o] = l]
    /\ checkpoint' = [checkpoint EXCEPT ![w][o] = IF @ = "none" THEN "active" ELSE @]
    /\ UNCHANGED <<nodeVars, calls, outbox, session, relay>>

(* The last page is stored.                                                *)
Complete(w, o) ==
    /\ run[w][o] # None
    /\ checkpoint[w][o] = "active"
    /\ checkpoint' = [checkpoint EXCEPT ![w][o] = "completed"]
    /\ UNCHANGED <<nodeVars, calls, outbox, session, run, grants, relay>>

(* Stage: a new row needs the completed checkpoint; an existing one is     *)
(* taken over by this session while it awaits its acknowledgment, provided *)
(* nothing else of it differs.                                             *)
Staged(d) ==
    IF d.lease \notin DOMAIN outbox
    THEN Put(outbox, d.lease, [def |-> d, phase |-> "AwaitingAcknowledgment"])
    ELSE IF /\ outbox[d.lease].phase = "AwaitingAcknowledgment"
            /\ [outbox[d.lease].def EXCEPT !.session = d.session] = d
    THEN [outbox EXCEPT ![d.lease].def = d]
    ELSE outbox

(* finishRun, settleRecoveredOrder, stageAndDeliver: the snapshot's        *)
(* outcomes and rate live in memory, so the one of a recovered run need    *)
(* not be the one staged before.  A run is requeued when the write that    *)
(* completed its checkpoint reported a failure.                            *)
Settle(w, o, outcome, tally) ==
    LET d == [lease |-> run[w][o], order |-> o, worker |-> w, session |-> session[w],
              outcome |-> outcome, tally |-> tally] IN
    /\ run[w][o] # None
    /\ checkpoint[w][o] # "active"
    /\ outbox' = IF checkpoint[w][o] = "completed" \/ run[w][o] \in DOMAIN outbox
                 THEN Staged(d) ELSE outbox
    /\ run' = [run EXCEPT ![w][o] = None]
    /\ UNCHANGED <<nodeVars, calls, checkpoint, session, grants, relay>>

(* AckOrder: the request is on its way to the node.                        *)
Send(k, d, step) ==
    /\ k \notin DOMAIN calls
    /\ calls' = Put(calls, k, [def |-> d, step |-> step, delivered |-> FALSE, awaited |-> TRUE])
    /\ relay' = [relay EXCEPT ![d.lease] = "waiting"]

(* Wrong: a row of an earlier session is taken over unconditionally.       *)
RebindsEagerly(l) == outbox[l].phase = "AwaitingAcknowledgment"

(* rebindAwaitingWorkerSession: only when a heartbeat of this session      *)
(* confirmed the lease, so that no earlier session can settle it any more. *)
Rebinds(l) ==
    /\ outbox[l].phase = "AwaitingAcknowledgment"
    /\ l \in grants[outbox[l].def.worker]

(* advanceExclusive, for a row that awaits its acknowledgment ...          *)
AdvanceAwaiting(l, k) ==
    /\ l \in DOMAIN outbox
    /\ relay[l] = "idle"
    /\ outbox[l].phase = "AwaitingAcknowledgment"
    /\ LET d == [outbox[l].def EXCEPT !.session =
                    IF Rebinds(l) THEN session[outbox[l].def.worker] ELSE @] IN
       /\ outbox' = [outbox EXCEPT ![l].def = d]
       /\ Send(k, d, "prepare")
    /\ UNCHANGED <<nodeVars, checkpoint, session, run, grants>>

(* ... and for one the node has acknowledged.                              *)
AdvanceAcknowledged(l) ==
    /\ l \in DOMAIN outbox
    /\ relay[l] = "idle"
    /\ outbox[l].phase = "AcknowledgedDeleting"
    /\ relay' = [relay EXCEPT ![l] = "mark"]
    /\ grants' = [grants EXCEPT ![outbox[l].def.worker] = @ \ {l}]
    /\ UNCHANGED <<nodeVars, calls, checkpoint, outbox, session, run>>

AdvanceConfirming(l, k) ==
    /\ l \in DOMAIN outbox
    /\ relay[l] = "idle"
    /\ outbox[l].phase = "Confirming"
    /\ Send(k, outbox[l].def, "confirm")
    /\ UNCHANGED <<nodeVars, checkpoint, outbox, session, run, grants>>

(* RecordAcknowledgment: the answer to the first request is the token.     *)
ReceiveToken(k) ==
    LET l == calls[k].def.lease IN
    /\ calls[k].step = "token"
    /\ outbox' = [outbox EXCEPT ![l].phase = "AcknowledgedDeleting"]
    /\ relay' = [relay EXCEPT ![l] = "mark"]
    /\ grants' = [grants EXCEPT ![calls[k].def.worker] = @ \ {l}]
    /\ calls' = Delete(calls, k)
    /\ UNCHANGED <<nodeVars, checkpoint, session, run>>

(* PrepareConfirmation: markRunDeleting, deleteMarkedRun, and only then    *)
(* advanceTerminalConfirmation, a transaction each.                        *)
MarkDeleting(l) ==
    LET d == outbox[l].def IN
    /\ relay[l] = "mark"
    /\ checkpoint' = [checkpoint EXCEPT ![d.worker][d.order] =
                         IF @ = "none" THEN @ ELSE "deleting"]
    /\ relay' = [relay EXCEPT ![l] = "erase"]
    /\ UNCHANGED <<nodeVars, calls, outbox, session, run, grants>>

Erase(l) ==
    LET d == outbox[l].def IN
    /\ relay[l] = "erase"
    /\ checkpoint' = [checkpoint EXCEPT ![d.worker][d.order] = "none"]
    /\ relay' = [relay EXCEPT ![l] = "advance"]
    /\ UNCHANGED <<nodeVars, calls, outbox, session, run, grants>>

AdvanceToConfirming(l, k) ==
    /\ relay[l] = "advance"
    /\ outbox' = [outbox EXCEPT ![l].phase = "Confirming"]
    /\ Send(k, outbox[l].def, "confirm")
    /\ UNCHANGED <<nodeVars, checkpoint, session, run, grants>>

(* Wrong: a refused row is kept for another round.                         *)
ReceiveEndKeepsRefused(k) ==
    LET l == calls[k].def.lease IN
    /\ calls[k].step \in {"confirmed", "refused"}
    /\ outbox' = IF calls[k].step = "refused" THEN outbox ELSE Delete(outbox, l)
    /\ relay' = [relay EXCEPT ![l] = "idle"]
    /\ grants' = [grants EXCEPT ![calls[k].def.worker] = @ \ {l}]
    /\ calls' = Delete(calls, k)
    /\ UNCHANGED <<nodeVars, checkpoint, session, run>>

(* Complete, after the confirmation, and Discard, after a refusal.         *)
ReceiveEnd(k) ==
    LET l == calls[k].def.lease IN
    /\ calls[k].step \in {"confirmed", "refused"}
    /\ outbox' = Delete(outbox, l)
    /\ relay' = [relay EXCEPT ![l] = "idle"]
    /\ grants' = [grants EXCEPT ![calls[k].def.worker] = @ \ {l}]
    /\ calls' = Delete(calls, k)
    /\ UNCHANGED <<nodeVars, checkpoint, session, run>>

(* Every other answer keeps the row for the next round.                    *)
ReceiveFailure(k) ==
    /\ calls[k].step \in {"lost", "conflict", "failed"}
    /\ relay' = [relay EXCEPT ![calls[k].def.lease] = "idle"]
    /\ calls' = Delete(calls, k)
    /\ UNCHANGED <<nodeVars, checkpoint, outbox, session, run, grants>>

(* The call's deadline passes while the node is at work on it, or before   *)
(* its answer arrives, which comes to the same.                            *)
Timeout(k) ==
    /\ calls[k].awaited
    /\ calls[k].step \in Steps
    /\ relay' = [relay EXCEPT ![calls[k].def.lease] = "idle"]
    /\ calls' = [calls EXCEPT ![k].awaited = FALSE]
    /\ UNCHANGED <<nodeVars, checkpoint, outbox, session, run, grants>>

(* The process stops and starts again under another session;               *)
(* resumeDeletions finishes what was marked.  It also stops by itself when *)
(* an order arrives while its checkpoint is being deleted.                 *)
CrawlerRestart(w) ==
    LET mine == {l \in DOMAIN outbox : outbox[l].def.worker = w} IN
    /\ session[w] < MaxSession
    /\ session' = [session EXCEPT ![w] = @ + 1]
    /\ run' = [run EXCEPT ![w] = [o \in Orders |-> None]]
    /\ grants' = [grants EXCEPT ![w] = {}]
    /\ relay' = [l \in LeaseIds |-> IF l \in mine THEN "idle" ELSE relay[l]]
    /\ calls' = [k \in {x \in DOMAIN calls :
                           calls[x].def.worker # w \/ calls[x].step \in Steps} |->
                    IF calls[k].def.worker = w THEN [calls[k] EXCEPT !.awaited = FALSE]
                    ELSE calls[k]]
    /\ checkpoint' = [checkpoint EXCEPT ![w] =
                         [o \in Orders |-> IF @[o] = "deleting" THEN "none" ELSE @[o]]]
    /\ UNCHANGED <<nodeVars, outbox>>

-----------------------------------------------------------------------------
Handle(k) ==
    /\ k \in DOMAIN calls
    /\ \/ Prepare(k) \/ RecordTerminal(k) \/ AcknowledgeProgress(k) \/ ConfirmDelivery(k)
       \/ CompleteControl(k) \/ Finalize(k) \/ Confirm(k)

Receive(k) ==
    /\ k \in DOMAIN calls
    /\ ReceiveToken(k) \/ ReceiveEnd(k) \/ ReceiveFailure(k)

Advance(l) ==
    \/ \E k \in Calls : AdvanceAwaiting(l, k) \/ AdvanceConfirming(l, k) \/ AdvanceToConfirming(l, k)
    \/ AdvanceAcknowledged(l) \/ MarkDeleting(l) \/ Erase(l)

Next ==
    \/ \E w \in Workers : Connect(w) \/ CrawlerRestart(w)
    \/ \E w \in Workers, o \in Orders, l \in LeaseIds : Claim(w, o, l)
    \/ \E l \in LeaseIds : Lapse(l) \/ Sweep(l) \/ ExpireSettlement(l)
    \/ \E k \in Calls : Handle(k) \/ Receive(k)
    \/ \E k \in DOMAIN calls : CallFails(k) \/ Timeout(k)
    \/ NodeRestart
    \/ \E l \in DOMAIN leases : Deliver(l)
    \/ \E w \in Workers, o \in Orders : Complete(w, o)
    \/ \E w \in Workers, o \in Orders, c \in Outcomes, t \in Tallies : Settle(w, o, c, t)
    \/ \E l \in LeaseIds : Advance(l)

Spec == Init /\ [][Next]_vars

(* What goes wrong: stops, broken streams, failed transactions, requests   *)
(* that time out.  A step of another kind looks like one of these only     *)
(* while a crawler is not connected.                                       *)
Fault ==
    \/ NodeRestart
    \/ \E w \in Workers : CrawlerRestart(w) \/ (registered[w] = session[w] /\ Connect(w))
    \/ \E k \in DOMAIN calls : calls[k].awaited /\ (CallFails(k) \/ Timeout(k))

(* Faults stop at some time; then handlers, the relay, the stream of each  *)
(* crawler and its heartbeats, and the sweeper keep running.               *)
FairSpec ==
    /\ Spec
    /\ <>[][~Fault]_vars
    /\ \A k \in Calls : WF_vars(Handle(k)) /\ WF_vars(Receive(k))
    /\ \A l \in LeaseIds :
          /\ WF_vars(Advance(l))
          /\ WF_vars(l \in DOMAIN leases /\ Deliver(l))
          /\ WF_vars(Sweep(l))
    /\ \A w \in Workers : WF_vars(registered[w] # session[w] /\ Connect(w))

-----------------------------------------------------------------------------
(* Properties.                                                             *)

Leased(o) == {l \in DOMAIN leases : leases[l].order = o}
AcknowledgedOrders == {d.order : d \in acknowledged}

(* An order waits, is under one lease, or has been acknowledged once, and  *)
(* never two of these: the confirmation of a requeue, its expiry and the   *)
(* sweeper all put the same order back.                                    *)
OrderInOnePlace ==
    /\ \A o \in Orders :
          /\ (o \in pending) => Leased(o) = {} /\ o \notin AcknowledgedOrders
          /\ o \in AcknowledgedOrders => Leased(o) = {}
          /\ o \in pending \cup AcknowledgedOrders \/ Leased(o) # {}
    /\ \A k, l \in DOMAIN leases : leases[k].order = leases[l].order => k = l
    /\ \A d, e \in acknowledged : d.order = e.order => d = e

(* The final snapshot of an acknowledged order is never lost: the node has *)
(* recorded it, or the crawler still holds the row that will deliver it    *)
(* and the node still knows it.                                            *)
SnapshotNotLost ==
    \A d \in acknowledged :
        \/ <<d.order, d.tally>> \in recorded
        \/ /\ Remembers(d)
           /\ d.lease \in DOMAIN outbox
           /\ outbox[d.lease] = [def |-> d, phase |-> "AwaitingAcknowledgment"]

(* The crawler deletes a row that is past its acknowledgment, and the      *)
(* checkpoint with it, only when the node has recorded the snapshot.       *)
RecordedBeforeDeleting ==
    \A l \in DOMAIN outbox :
        outbox[l].phase # "AwaitingAcknowledgment" =>
            <<outbox[l].def.order, outbox[l].def.tally>> \in recorded

(* The node holds another final snapshot of the row's run, one that was    *)
(* recorded for an earlier lease: RecordTerminal answers with a conflict.  *)
Contested(l) ==
    LET d == outbox[l].def IN
    /\ outbox[l].phase = "AwaitingAcknowledgment"
    /\ d.order \in DOMAIN deliveries
    /\ \/ deliveries[d.order].tally # d.tally
       \/ deliveries[d.order].worker # d.worker

(* Once faults stop, the relay gets rid of every row: it is acknowledged,  *)
(* its checkpoint deleted and the deletion confirmed, or it is refused.    *)
(* The exception is a row whose run has another final snapshot at the      *)
(* node: it is sent again every round, until that snapshot is evicted.     *)
OutboxDrains ==
    \A l \in LeaseIds :
        l \in DOMAIN outbox ~> l \notin DOMAIN outbox \/ Contested(l)

=============================================================================
