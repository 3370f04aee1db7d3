---------------------------- MODULE SessionDelivery ----------------------------
(***************************************************************************)
(* The delivery of orders to one crawler: the handler of its stream at the *)
(* node (yagonode/internal/crawlbroker, session_order_delivery.go) and the *)
(* reader of the stream at the crawler (yago-crawler/internal/crawlorder). *)
(*                                                                         *)
(* The handler first sends the leases the worker holds already, in batches *)
(* that the crawler checks and confirms, then one order at a time, each    *)
(* when the one before has been confirmed by a heartbeat.  Between orders  *)
(* it sleeps on a channel that every change of the queue closes.           *)
(*                                                                         *)
(* Streams break, calls time out and may be handled late, either side may  *)
(* restart; each is a fault, and there are at most MaxFaults of them.  An  *)
(* order is claimed once here, so it is also its lease: orders that go     *)
(* back to the queue, priorities and the transactions of a settlement are  *)
(* in OrderQueue and TerminalSettlement.                                   *)
(***************************************************************************)
EXTENDS Integers, Sequences, FiniteSetsExt

CONSTANTS
    MaxOrder,       \* orders are 1 .. MaxOrder, in the order of the queue
    Capacity,       \* yagocrawlcontract.MaximumHeartbeatActiveLeases
    BatchSize,      \* maximumRecoveredOrderDeliveryBatch
    MaxFaults

ASSUME DeliveryAssumption ==
    /\ MaxOrder \in Nat /\ MaxFaults \in Nat
    /\ Capacity \in Nat \ {0} /\ BatchSize \in Nat \ {0}

VARIABLES
    place,          \* durable, node: where each order is
    staged,         \* durable, crawler: settlements in the outbox
    unsignalled,    \* a change of the queue has not closed the channel yet
    registered,     \* the worker's session in the registry, 0 for none
    handler,        \* the handler of the worker's stream
    credit,         \* the delivery confirmation the handler waits for
    wire,           \* messages in the stream
    broken,         \* the context of the stream has ended
    reader,         \* the crawler's reader of the stream
    grants,         \* crawler: leases tracked
    confirmed,      \* crawler: those of them that a heartbeat renewed
    running,        \* crawler: orders being crawled
    calls,          \* heartbeats: the one that is awaited, and a late one
    faults          \* faults so far

nodeVars == <<unsignalled, registered, handler, credit>>
streamVars == <<wire, broken>>
leaseVars == <<grants, confirmed, running>>
vars == <<place, staged, nodeVars, streamVars, reader, leaseVars, calls, faults>>

Orders == 1 .. MaxOrder
Leased == {o \in Orders : place[o] \in {"live", "lapsed"}}

NoHandler == [stage |-> "none", todo |-> {}, manifest |-> {}, header |-> {}, batch |-> {},
              changed |-> FALSE]
HandlerStages == {"none", "batch", "send", "await", "look", "claim", "pause", "sleep",
                  "expect",
                  "sendNew", "awaitNew", "end"}
NoCredit == [expected |-> {}, confirmed |-> FALSE]

Message == [order : Orders, recovered : BOOLEAN, header : SUBSET Orders,
            manifest : SUBSET Orders, end : BOOLEAN]

(* recoveredOrderReplay and recoveredSessionManifest of a new stream.      *)
NewReader(session) ==
    [stage |-> "recv", session |-> session, order |-> 1, retain |-> {}, ask |-> {},
     replay |-> {}, remaining |-> {}, seen |-> FALSE, declared |-> FALSE,
     closed |-> FALSE, refused |-> FALSE]
ReaderStages == {"down", "recv", "retain", "confirm", "deliver"}

NoCall == [stage |-> "none", kind |-> "periodic", asked |-> {}, added |-> {},
           renewed |-> {}, session |-> 0]
CallStages == {"none", "sent", "renewed", "done", "refused", "lost"}

TypeOK ==
    /\ place \in [Orders -> {"new", "pending", "live", "lapsed", "settled"}]
    /\ staged \subseteq Orders
    /\ unsignalled \in BOOLEAN
    /\ registered \in Nat
    /\ handler.stage \in HandlerStages
    /\ handler.todo \cup handler.manifest \cup handler.header \cup handler.batch \subseteq Orders
    /\ credit.expected \subseteq Orders
    /\ wire \in Seq(Message)
    /\ reader.stage \in ReaderStages
    /\ confirmed \subseteq grants /\ running \subseteq confirmed
    /\ \A c \in {"awaited", "late"} : calls[c].stage \in CallStages
    /\ faults \in 0 .. MaxFaults

(* Leases of an earlier session may be there to recover.                   *)
Init ==
    /\ \E n \in 0 .. MaxOrder :
          n <= Capacity /\ place = [o \in Orders |-> IF o <= n THEN "lapsed" ELSE "new"]
    /\ staged = {}
    /\ unsignalled = FALSE /\ registered = 0
    /\ handler = NoHandler /\ credit = NoCredit
    /\ wire = << >> /\ broken = FALSE
    /\ reader = [NewReader(1) EXCEPT !.stage = "down"]
    /\ grants = {} /\ confirmed = {} /\ running = {}
    /\ calls = [c \in {"awaited", "late"} |-> NoCall]
    /\ faults = 0

-----------------------------------------------------------------------------
(* The queue.                                                              *)

Publish(o) ==
    /\ place[o] = "new" /\ \A x \in 1 .. o - 1 : place[x] # "new"
    /\ place' = [place EXCEPT ![o] = "pending"]
    /\ unsignalled' = TRUE
    /\ UNCHANGED <<staged, registered, handler, credit, streamVars, reader, leaseVars,
                   calls, faults>>

(* signal: closes the channel, after the transaction.                      *)
Signal ==
    /\ unsignalled
    /\ unsignalled' = FALSE
    /\ handler' = [handler EXCEPT !.changed = @ \/ handler.stage \in {"claim", "pause", "sleep"}]
    /\ UNCHANGED <<place, staged, registered, credit, streamVars, reader, leaseVars, calls,
                   faults>>

-----------------------------------------------------------------------------
(* The node's handler.                                                     *)

(* StreamOrders and activateWorkerSession: refused while the registered    *)
(* stream is open; otherwise the leases of the worker are renewed.         *)
Connect ==
    /\ reader.stage = "down" /\ handler.stage = "none"
    /\ place' = [o \in Orders |-> IF o \in Leased THEN "live" ELSE place[o]]
    /\ registered' = reader.session
    /\ handler' = [NoHandler EXCEPT !.stage = "batch", !.todo = Leased, !.manifest = Leased]
    /\ credit' = NoCredit
    /\ wire' = << >> /\ broken' = FALSE
    /\ reader' = NewReader(reader.session)
    /\ UNCHANGED <<staged, unsignalled, leaseVars, calls, faults>>

HandlerAt(stage) == handler.stage = stage
HandlerEnds == handler' = [NoHandler EXCEPT !.stage = "end"]
OthersUnchanged == UNCHANGED <<staged, unsignalled, registered, broken, reader, leaseVars,
                               calls, faults>>

(* streamRecoveredOrders and expectDeliveryConfirmation.                   *)
FirstOf(S) == {o \in S : Cardinality({x \in S : x < o}) < BatchSize}

StartBatch ==
    LET b == FirstOf(handler.todo) IN
    /\ HandlerAt("batch")
    /\ IF handler.todo = {}
       THEN handler' = [NoHandler EXCEPT !.stage = "look"] /\ UNCHANGED credit
       ELSE /\ handler' = [handler EXCEPT !.stage = "send", !.header = b, !.batch = b,
                              !.todo = @ \ b]
            /\ credit' = [expected |-> b, confirmed |-> FALSE]
    /\ UNCHANGED <<place, wire>> /\ OthersUnchanged

(* Wrong: every batch declares what the session holds.                     *)
RecoveredManifestAlways == IF handler.header = {} THEN {} ELSE handler.manifest

(* All the leases of the session are declared with the first order.        *)
RecoveredManifest ==
    IF handler.header = {} \/ handler.header \cup handler.todo # handler.manifest
    THEN {} ELSE handler.manifest

(* streamRecoveredOrderBatch: the first order of a batch names the others  *)
(* and is confirmed before they follow.                                    *)
SendRecovered ==
    LET o == Min(handler.batch)
        rest == handler.batch \ {o} IN
    /\ HandlerAt("send")
    /\ IF broken THEN HandlerEnds /\ UNCHANGED wire
       ELSE /\ wire' = Append(wire, [order |-> o, recovered |-> TRUE, header |-> handler.header,
                                     manifest |-> RecoveredManifest, end |-> rest = {}])
            /\ handler' = [handler EXCEPT !.batch = rest, !.header = {},
                   !.stage = IF handler.header # {} THEN "await"
                             ELSE IF rest # {} THEN "send" ELSE "batch"]
    /\ UNCHANGED <<place, credit>> /\ OthersUnchanged

(* crawlOrderDeliveryConfirmation.wait: for the confirmation or the end of *)
(* the stream.                                                             *)
AwaitConfirmation ==
    /\ handler.stage \in {"await", "awaitNew"}
    /\ \/ /\ credit.confirmed
          /\ handler' = [handler EXCEPT !.stage =
                IF @ = "awaitNew" THEN "look" ELSE IF handler.batch # {} THEN "send" ELSE "batch"]
          /\ credit' = NoCredit
       \/ broken /\ HandlerEnds /\ UNCHANGED credit
    /\ UNCHANGED <<place, wire>> /\ OthersUnchanged

(* leaseNextForSession: takes the channel before it looks for an order ... *)
Look ==
    /\ HandlerAt("look")
    /\ handler' = [handler EXCEPT !.stage = "claim", !.changed = FALSE]
    /\ UNCHANGED <<place, credit, wire>> /\ OthersUnchanged

Claimable == IF Cardinality(Leased) < Capacity THEN {o \in Orders : place[o] = "pending"} ELSE {}

(* ... and claims it, in a transaction that fails once the stream has      *)
(* ended, or finds none.                                                   *)
Claim ==
    /\ HandlerAt("claim")
    /\ IF broken THEN HandlerEnds /\ UNCHANGED place
       ELSE IF Claimable = {}
       THEN handler' = [handler EXCEPT !.stage = "pause"] /\ UNCHANGED place
       ELSE /\ place' = [place EXCEPT ![Min(Claimable)] = "live"]
            /\ handler' = [handler EXCEPT !.stage = "expect", !.batch = {Min(Claimable)},
                              !.changed = FALSE]
    /\ UNCHANGED <<credit, wire>> /\ OthersUnchanged

(* Wrong: it takes the channel only now.                                   *)
PauseTakesChannel ==
    /\ HandlerAt("pause")
    /\ handler' = [handler EXCEPT !.stage = "sleep", !.changed = FALSE]
    /\ UNCHANGED <<place, credit, wire>> /\ OthersUnchanged

(* It goes to sleep on the channel it has.                                 *)
Pause ==
    /\ HandlerAt("pause")
    /\ handler' = [handler EXCEPT !.stage = "sleep"]
    /\ UNCHANGED <<place, credit, wire>> /\ OthersUnchanged

Sleep ==
    /\ HandlerAt("sleep")
    /\ \/ handler.changed /\ handler' = [NoHandler EXCEPT !.stage = "look"]
       \/ broken /\ HandlerEnds
    /\ UNCHANGED <<place, credit, wire>> /\ OthersUnchanged

(* streamNewOrders: the confirmation is expected before the order is sent. *)
ExpectNew ==
    /\ HandlerAt("expect")
    /\ credit' = [expected |-> handler.batch, confirmed |-> FALSE]
    /\ handler' = [handler EXCEPT !.stage = "sendNew"]
    /\ UNCHANGED <<place, wire>> /\ OthersUnchanged

SendNew ==
    /\ HandlerAt("sendNew")
    /\ IF broken THEN HandlerEnds /\ UNCHANGED wire
       ELSE /\ wire' = Append(wire, [order |-> Min(handler.batch), recovered |-> FALSE,
                                     header |-> {}, manifest |-> {}, end |-> FALSE])
            /\ handler' = [handler EXCEPT !.stage = "awaitNew", !.batch = {}]
    /\ UNCHANGED <<place, credit>> /\ OthersUnchanged

(* releaseWorkerSession and deactivate, when the handler returns.          *)
Deactivate ==
    /\ HandlerAt("end")
    /\ handler' = NoHandler /\ credit' = NoCredit
    /\ UNCHANGED <<place, wire>> /\ OthersUnchanged

-----------------------------------------------------------------------------
(* Heartbeats.                                                             *)

(* Nobody waits for the answer to a late call.                             *)
Ended(c, stage) == IF c = "late" THEN NoCall ELSE [calls[c] EXCEPT !.stage = stage]

(* Heartbeat: renews what is still live, for the registered session ...    *)
HandleCall(c) ==
    /\ calls[c].stage = "sent"
    /\ calls' = [calls EXCEPT ![c] =
          IF @.session # registered THEN Ended(c, "refused")
          ELSE [@ EXCEPT !.stage = "renewed",
                         !.renewed = {o \in calls[c].asked : place[o] = "live"}]]
    /\ UNCHANGED <<place, staged, nodeVars, streamVars, reader, leaseVars, faults>>

(* ... and confirmExactDeliveries: the expected leases, all and no others. *)
ConfirmCall(c) ==
    /\ calls[c].stage = "renewed"
    /\ calls' = [calls EXCEPT ![c] = Ended(c, "done")]
    /\ credit' = IF /\ calls[c].kind = "confirm" /\ calls[c].session = registered
                    /\ credit.expected # {} /\ calls[c].renewed = credit.expected
                 THEN [credit EXCEPT !.confirmed = TRUE]
                 ELSE credit
    /\ UNCHANGED <<place, staged, unsignalled, registered, handler, streamVars, reader,
                   leaseVars, faults>>

(* Track and exchangeForLeases; one heartbeat at a time.                   *)
Call(kind, asked) ==
    /\ calls["awaited"].stage = "none"
    /\ calls' = [calls EXCEPT !["awaited"] =
          [stage |-> "sent", kind |-> kind, asked |-> asked, added |-> asked \ grants,
           renewed |-> {}, session |-> reader.session]]
    /\ grants' = grants \cup asked
    /\ UNCHANGED <<place, staged, nodeVars, streamVars, reader, confirmed, running>>

(* periodicHeartbeats: named as a fault only to bound them.                *)
PeriodicHeartbeat ==
    /\ faults < MaxFaults /\ faults' = faults + 1
    /\ grants # {}
    /\ Call("periodic", grants)

(* The reader gives the stream up: its context ends, also for the node.    *)
StreamLost(r) ==
    /\ reader' = [NewReader(r.session) EXCEPT !.stage = "down", !.refused = r.refused]
    /\ wire' = << >> /\ broken' = TRUE

(* loseLocked: the context of a crawl ends with its grant.                 *)
KeepOnly(kept) ==
    /\ grants' = kept /\ confirmed' = confirmed \cap kept /\ running' = running \cap kept

(* Renew and the rest of exchangeRecoveredLeases or confirmLease.          *)
Answered ==
    LET call == calls["awaited"]
        lost == (call.asked \ call.renewed) \cap grants IN
    /\ call.stage = "done"
    /\ calls' = [calls EXCEPT !["awaited"] = NoCall]
    /\ grants' = grants \ lost
    /\ confirmed' = (confirmed \ lost) \cup (call.renewed \cap grants)
    /\ running' = running \ lost
    /\ IF call.kind = "periodic"
       THEN broken' = (broken \/ lost # {}) /\ UNCHANGED <<reader, wire>>
       ELSE IF call.asked \subseteq confirmed'
       THEN /\ reader' = [reader EXCEPT !.stage = IF @ = "retain" THEN "confirm" ELSE "deliver"]
            /\ UNCHANGED streamVars
       ELSE StreamLost(reader)
    /\ UNCHANGED <<place, staged, nodeVars, faults>>

(* rejectLeasesAfterHeartbeatError: another session is registered, or none.*)
Refused ==
    /\ calls["awaited"].stage = "refused"
    /\ KeepOnly({})
    /\ IF calls["awaited"].kind = "periodic"
       THEN broken' = TRUE /\ UNCHANGED <<reader, wire>>
       ELSE StreamLost(reader)
    /\ calls' = [calls EXCEPT !["awaited"] = NoCall]
    /\ UNCHANGED <<place, staged, nodeVars, faults>>

(* The call fails, takes too long or ends with the context of the stream,  *)
(* and may still be handled; what was tracked for it is revoked.           *)
CallFails ==
    LET call == calls["awaited"] IN
    /\ \/ call.stage = "lost" /\ UNCHANGED faults
       \/ call.stage # "none" /\ call.kind # "periodic" /\ broken /\ UNCHANGED faults
       \/ call.stage \notin {"none", "lost"} /\ faults < MaxFaults /\ faults' = faults + 1
    /\ calls' = [awaited |-> NoCall,
                 late |-> IF call.stage \in {"sent", "renewed"} THEN call ELSE calls["late"]]
    /\ IF call.kind = "periodic"
       THEN UNCHANGED <<leaseVars, reader, streamVars>>
       ELSE KeepOnly(grants \ call.added) /\ StreamLost(reader)
    /\ UNCHANGED <<place, staged, nodeVars>>

-----------------------------------------------------------------------------
(* The crawler's reader.                                                   *)

(* accept and acceptFrame: what a frame of recovered orders has to be.     *)
Started == reader.replay = {}
BatchIds(m) == IF Started THEN m.header ELSE reader.replay
Declared(m) == IF m.manifest # {} THEN m.manifest ELSE reader.remaining

WellFramed(m) ==
    /\ Started <=> m.header # {}
    /\ m.order = Min(BatchIds(m))
    /\ m.end <=> BatchIds(m) = {m.order}
    /\ ~reader.closed
    /\ ~(Started /\ reader.declared /\ reader.seen /\ reader.remaining = {})
    /\ m.manifest # {} => Started /\ ~reader.seen
    /\ Started /\ (reader.declared \/ m.manifest # {}) => m.header \subseteq Declared(m)

(* receiveRecoveredOrder.                                                  *)
ReceiveRecovered(m) ==
    IF ~WellFramed(m) THEN StreamLost([reader EXCEPT !.refused = TRUE])
    ELSE /\ reader' = [reader EXCEPT
               !.stage = IF ~Started THEN "deliver"
                         ELSE IF Cardinality(m.manifest) > Cardinality(m.header)
                         THEN "retain" ELSE "confirm",
               !.order = m.order, !.retain = m.manifest, !.ask = m.header,
               !.replay = BatchIds(m) \ {m.order},
               !.remaining = Declared(m) \ m.header,
               !.declared = @ \/ m.manifest # {}, !.seen = TRUE]
         /\ wire' = Tail(wire) /\ UNCHANGED broken

(* receiveOrdinaryOrder.                                                   *)
ReceiveOrdinary(m) ==
    IF reader.replay # {} \/ reader.remaining # {}
    THEN StreamLost([reader EXCEPT !.refused = TRUE])
    ELSE /\ reader' = [reader EXCEPT !.stage = "confirm", !.order = m.order,
                          !.retain = {}, !.ask = {m.order}, !.closed = TRUE]
         /\ wire' = Tail(wire) /\ UNCHANGED broken

Receive ==
    /\ reader.stage = "recv" /\ wire # << >>
    /\ IF Head(wire).recovered THEN ReceiveRecovered(Head(wire)) ELSE ReceiveOrdinary(Head(wire))
    /\ UNCHANGED <<place, staged, nodeVars, leaseVars, calls, faults>>

(* Wrong: the batch is confirmed with everything that was declared.        *)
AskedAll == IF reader.retain # {} THEN reader.retain ELSE reader.ask

(* What is confirmed: the batch, or the order.                             *)
Asked == reader.ask

AskNode ==
    /\ reader.stage \in {"retain", "confirm"}
    /\ Call(reader.stage, IF reader.stage = "retain" THEN reader.retain ELSE Asked)
    /\ UNCHANGED faults

(* deliverOrderWithLeaseSession; the consumer starts the order if it still *)
(* holds the lease and has no settlement for it.                           *)
Deliver ==
    /\ reader.stage = "deliver"
    /\ reader' = [reader EXCEPT !.stage = "recv", !.order = 1, !.retain = {}, !.ask = {}]
    /\ running' = running \cup (({reader.order} \cap confirmed) \ staged)
    /\ UNCHANGED <<place, staged, nodeVars, streamVars, grants, confirmed, calls, faults>>

(* Recv, or handing an order over, fails on a stream that has ended.       *)
StreamEnds ==
    /\ broken /\ reader.stage \in {"recv", "deliver"}
    /\ StreamLost(reader)
    /\ UNCHANGED <<place, staged, nodeVars, leaseVars, calls, faults>>

(* A run ends and its settlement is staged; the relay settles it.          *)
Finish(o) ==
    /\ o \in running
    /\ staged' = staged \cup {o}
    /\ running' = running \ {o}
    /\ UNCHANGED <<place, nodeVars, streamVars, reader, grants, confirmed, calls, faults>>

(* AckOrder and confirmDisposition.                                        *)
Settle(o) ==
    /\ o \in staged /\ place[o] = "live" /\ registered = reader.session
    /\ place' = [place EXCEPT ![o] = "settled"]
    /\ staged' = staged \ {o}
    /\ unsignalled' = TRUE
    /\ credit' = IF credit.expected = {o} THEN [credit EXCEPT !.confirmed = TRUE] ELSE credit
    /\ KeepOnly(grants \ {o})
    /\ UNCHANGED <<registered, handler, streamVars, reader, calls, faults>>

-----------------------------------------------------------------------------
(* Faults.                                                                 *)

Break ==
    /\ ~broken /\ broken' = TRUE
    /\ UNCHANGED <<place, staged, nodeVars, wire, reader, leaseVars, calls>>

(* The time of a lease runs out.  The crawler counts it from before its    *)
(* call, so by then the grant, or the answer that would make one, has ended.*)
Lapse(o) ==
    /\ place[o] = "live" /\ o \notin confirmed \cup calls["awaited"].renewed
    /\ place' = [place EXCEPT ![o] = "lapsed"]
    /\ UNCHANGED <<staged, nodeVars, streamVars, reader, leaseVars, calls>>

GrantExpires(o) ==
    /\ o \in confirmed
    /\ KeepOnly(grants \ {o})
    /\ broken' = TRUE
    /\ UNCHANGED <<place, staged, nodeVars, wire, reader, calls>>

NodeRestart ==
    /\ registered' = 0 /\ handler' = NoHandler /\ credit' = NoCredit /\ unsignalled' = FALSE
    /\ wire' = << >> /\ broken' = TRUE
    /\ calls' = [awaited |-> IF calls["awaited"].stage \in {"sent", "renewed"}
                             THEN [calls["awaited"] EXCEPT !.stage = "lost"]
                             ELSE calls["awaited"],
                 late |-> NoCall]
    /\ UNCHANGED <<place, staged, reader, leaseVars>>

CrawlerRestart ==
    /\ KeepOnly({})
    /\ StreamLost([reader EXCEPT !.session = @ + 1])
    /\ calls' = [awaited |-> NoCall,
                 late |-> IF calls["awaited"].stage \in {"sent", "renewed"}
                          THEN calls["awaited"] ELSE calls["late"]]
    /\ UNCHANGED <<place, staged, nodeVars>>

Fault ==
    /\ faults < MaxFaults /\ faults' = faults + 1
    /\ \/ Break \/ NodeRestart \/ CrawlerRestart
       \/ \E o \in Orders : Lapse(o) \/ GrantExpires(o)

-----------------------------------------------------------------------------
HandlerStep ==
    \/ StartBatch \/ SendRecovered \/ AwaitConfirmation \/ Look \/ Claim \/ Pause \/ Sleep
    \/ ExpectNew \/ SendNew \/ Deactivate

ReaderStep == Receive \/ AskNode \/ Deliver \/ StreamEnds
CallStep(c) == HandleCall(c) \/ ConfirmCall(c)
AnswerStep == Answered \/ Refused \/ CallFails

Next ==
    \/ \E o \in Orders : Publish(o) \/ Finish(o) \/ Settle(o)
    \/ Signal \/ Connect \/ HandlerStep \/ ReaderStep \/ AnswerStep
    \/ \E c \in {"awaited", "late"} : CallStep(c)
    \/ PeriodicHeartbeat
    \/ Fault

Spec == Init /\ [][Next]_vars

(* Handlers, calls, reader, relay and the crawls themselves keep running,  *)
(* and the crawler connects again whenever its stream has ended.           *)
FairSpec ==
    /\ Spec
    /\ WF_vars(Signal) /\ WF_vars(Connect) /\ WF_vars(HandlerStep) /\ WF_vars(ReaderStep)
    /\ WF_vars(AnswerStep) /\ WF_vars(CallStep("awaited"))
    /\ WF_vars(\E o \in Orders : Finish(o)) /\ WF_vars(\E o \in Orders : Settle(o))

-----------------------------------------------------------------------------
(* Properties.                                                             *)

(* A handler does not sleep through the publication of an order or the end *)
(* of another one that makes room for it: while it sleeps on an open       *)
(* channel and could claim, the channel is about to be closed.             *)
NoWakeupLost ==
    handler.stage \in {"pause", "sleep"} /\ ~handler.changed /\ Claimable # {} => unsignalled

(* What the node sends, over any sequence of breaks, restarts and partial  *)
(* recoveries, is what the crawler's framing checks accept.                *)
FramesAccepted == ~reader.refused

(* Every order that was published is crawled and settled: no handler waits *)
(* for a confirmation that will not come, and a lease whose order did not  *)
(* arrive is delivered again.                                              *)
OrdersDelivered == \A o \in Orders : place[o] = "pending" ~> place[o] = "settled"

=============================================================================
