---------------------------- MODULE FetchStartFleet ----------------------------
(***************************************************************************)
(* How a crawler gets its fetch-start permits: its admission               *)
(* (yago-crawler/internal/fleetfetchstart), the order streams that its     *)
(* session at the node depends on, and the changes of the fleet's rate     *)
(* (yagonode/internal/crawlbroker).                                        *)
(*                                                                         *)
(* One crawler process is modelled, with the node's registration of its    *)
(* session and its part of the schedule.  When the schedule has a permit   *)
(* to give is FetchStartSchedule; here it has one, or it has not.  A       *)
(* stream is its number: the handler of each one runs on its own, and the  *)
(* crawler may open the next before the handler of the last has returned.  *)
(***************************************************************************)
EXTENDS Integers, FiniteSets

CONSTANTS
    MaxStreams,     \* streams the crawler opens
    MaxSequence,    \* lease sequences of one stream
    MaxPermits,     \* permits in a batch
    Rates,          \* pages per second; 0 is unlimited
    MaxChanges,     \* changes of the rate
    MaxFaults       \* broken streams and calls without an answer

ASSUME BoundsAssumption ==
    MaxStreams \in Nat /\ MaxSequence \in Nat /\ MaxPermits \in Nat /\ Rates \subseteq Nat

VARIABLES
    rate, fence,    \* the fleet's rate; streams that are to be closed for it
    registered,     \* workerSessionRegistry: the stream of the worker, 0 for none
    connected,      \* the registered stream is connected
    active,         \* the schedule knows the worker's session
    record,         \* the schedule's record of the session's last lease
    waiting,        \* the session's request in the rotation
    handlers,       \* the stage of the handler of each stream
    cancelled,      \* streams whose context has ended
    capable,        \* the crawler advertises fetch-start leases
    gate,           \* SessionGate: the stream the crawler is on
    admission,      \* Admission
    calls,          \* LeaseFetchStarts: the call that is awaited, and a late one
    changes, faults \* so far

(* The stream of a lease or a request and the origin of an answer are      *)
(* history: the node does not keep on which stream it was asked.           *)

nodeVars == <<rate, fence, registered, connected>>
scheduleVars == <<active, record, waiting>>
streamVars == <<handlers, cancelled, capable>>
bounds == <<changes, faults>>
vars == <<nodeVars, scheduleVars, streamVars, gate, admission, calls, bounds>>

Streams == 1 .. MaxStreams
Permits == 1 .. MaxPermits

NoLease == [stream |-> 0, sequence |-> 0, permits |-> 0, outstanding |-> FALSE]
NoRequest == [stream |-> 0, sequence |-> 0, permits |-> 0]
NoCall ==
    [stage |-> "none", stream |-> 0, sequence |-> 0, completed |-> 0, permits |-> 0,
     origin |-> 0]

(* resetForSession.                                                        *)
Fresh(stream) ==
    [stream |-> stream, sequence |-> 1, maximum |-> 0, completed |-> 0, leased |-> FALSE,
     left |-> 0]

Init ==
    /\ rate \in Rates /\ fence = "none"
    /\ registered = 0 /\ connected = FALSE
    /\ active = FALSE /\ record = NoLease /\ waiting = NoRequest
    /\ handlers = [i \in Streams |-> "none"]
    /\ cancelled = {}
    /\ capable \in BOOLEAN
    /\ gate = [stream |-> 0, connected |-> FALSE]
    /\ admission = Fresh(0)
    /\ calls = [c \in {"awaited", "late"} |-> NoCall]
    /\ changes = 0 /\ faults = 0

-----------------------------------------------------------------------------
(* Order streams.                                                          *)

(* The crawler opens a stream; Connected is called without waiting for the *)
(* node.                                                                   *)
OpenStream ==
    /\ ~gate.connected /\ gate.stream < MaxStreams
    /\ gate' = [stream |-> gate.stream + 1, connected |-> TRUE]
    /\ handlers' = [handlers EXCEPT ![gate.stream + 1] = "opened"]
    /\ UNCHANGED <<nodeVars, scheduleVars, cancelled, capable, admission, calls, bounds>>

(* sessions.activate: refused while the registered stream is connected.    *)
Activate(i) ==
    /\ handlers[i] = "opened"
    /\ IF connected \/ i \in cancelled
       THEN handlers' = [handlers EXCEPT ![i] = "returned"] /\ UNCHANGED <<registered, connected>>
       ELSE /\ registered' = i /\ connected' = TRUE
            /\ handlers' = [handlers EXCEPT ![i] = "activated"]
    /\ UNCHANGED <<rate, fence, scheduleVars, cancelled, capable, gate, admission, calls, bounds>>

(* Wrong: a crawler without fetch-start leases is served at any rate.      *)
ServedAtRate == TRUE

(* The rate that a stream without fetch-start leases may be served at.     *)
Served == rate = 0 \/ capable

(* The rest of activateWorkerSession, under fetchPolicy.                   *)
Admit(i) ==
    /\ handlers[i] = "activated" /\ fence = "none"
    /\ IF Served
       THEN /\ handlers' = [handlers EXCEPT ![i] = "serving"]
            /\ active' = TRUE /\ UNCHANGED connected
       ELSE /\ handlers' = [handlers EXCEPT ![i] = "returned"]
            /\ connected' = FALSE /\ UNCHANGED active
    /\ UNCHANGED <<rate, fence, registered, record, waiting, cancelled, capable, gate, admission,
                   calls, bounds>>

(* releaseWorkerSession: the registry first ...                            *)
Deactivate(i) ==
    /\ handlers[i] = "serving" /\ i \in cancelled
    /\ handlers' = [handlers EXCEPT ![i] = IF registered = i THEN "deactivated" ELSE "returned"]
    /\ connected' = IF registered = i THEN FALSE ELSE connected
    /\ UNCHANGED <<rate, fence, registered, scheduleVars, cancelled, capable, gate, admission,
                   calls, bounds>>

(* ... then DeactivateSession, which goes by worker and session.           *)
DeactivateSession(i) ==
    /\ handlers[i] = "deactivated"
    /\ handlers' = [handlers EXCEPT ![i] = "returned"]
    /\ active' = FALSE /\ record' = NoLease /\ waiting' = NoRequest
    /\ UNCHANGED <<nodeVars, cancelled, capable, gate, admission, calls, bounds>>

(* The crawler sees the end of its stream: at once when it or the          *)
(* transport ended it, otherwise when the handler has returned.            *)
StreamEnds ==
    /\ gate.connected /\ handlers[gate.stream] = "returned"
    /\ gate' = [gate EXCEPT !.connected = FALSE]
    /\ UNCHANGED <<nodeVars, scheduleVars, streamVars, admission, calls, bounds>>

Break ==
    /\ faults < MaxFaults /\ faults' = faults + 1
    /\ gate.connected
    /\ gate' = [gate EXCEPT !.connected = FALSE]
    /\ cancelled' = cancelled \cup {gate.stream}
    /\ UNCHANGED <<nodeVars, scheduleVars, handlers, capable, admission, calls, changes>>

-----------------------------------------------------------------------------
(* The schedule.                                                           *)

(* nextLeaseLocked for a request that is served now: all it asks for at an *)
(* unlimited rate, what fits the horizon at another.                       *)
Granted(request, r) ==
    {n \in Permits : n <= request.permits /\ (r = 0 => n = request.permits)}

Grant(request, r) ==
    /\ waiting' = NoRequest
    /\ \E n \in Granted(request, r) :
          record' = [stream |-> request.stream, sequence |-> request.sequence,
                     permits |-> n, outstanding |-> TRUE]

(* setFleetPagesPerSecond: the rate changes, and a waiting request may be  *)
(* served at it ...                                                        *)
SetRate(r) ==
    /\ changes < MaxChanges /\ changes' = changes + 1
    /\ fence = "none" /\ r # rate
    /\ rate' = r
    /\ fence' = IF r = 0 THEN "none" ELSE IF rate = 0 \/ rate > r THEN "all" ELSE "incapable"
    /\ \/ (r # 0 \/ waiting = NoRequest) /\ UNCHANGED <<record, waiting>>
       \/ waiting # NoRequest /\ Grant(waiting, r)
    /\ UNCHANGED <<registered, connected, active, streamVars, gate, admission, calls, faults>>

(* ... before disconnectActiveSessions or disconnectWithoutFetchStartLeases.*)
CloseStreams ==
    /\ fence # "none"
    /\ fence' = "none"
    /\ cancelled' = IF connected /\ (fence = "all" \/ ~capable)
                    THEN cancelled \cup {registered} ELSE cancelled
    /\ UNCHANGED <<rate, registered, connected, scheduleVars, handlers, capable, gate,
                   admission, calls, bounds>>

(* The lifetime of an outstanding lease ends.                              *)
Expire ==
    /\ record.outstanding
    /\ record' = [record EXCEPT !.outstanding = FALSE]
    /\ UNCHANGED <<nodeVars, active, waiting, streamVars, gate, admission, calls, bounds>>

-----------------------------------------------------------------------------
(* LeaseFetchStarts, in two critical sections.                             *)

(* Nobody reads the answer to a late call.                                 *)
Answer(c, stage, permits, origin) ==
    calls' = [calls EXCEPT ![c] =
        IF c = "late" THEN NoCall
        ELSE [@ EXCEPT !.stage = stage, !.permits = permits, !.origin = origin]]

Refuse(c, stage) == Answer(c, stage, 0, calls[c].stream)

(* Wrong: a completion that is repeated after the next lease is refused.   *)
CompletableOnce(sequence) == active /\ record.sequence = sequence

(* CompleteLease accepts the sequence of the record and earlier ones.      *)
Completable(sequence) == active /\ record.sequence # 0 /\ sequence <= record.sequence

CompleteLease(c) ==
    LET call == calls[c] IN
    /\ call.stage = "sent"
    /\ IF call.completed = 0 \/ Completable(call.completed)
       THEN /\ calls' = [calls EXCEPT ![c].stage = "completed"]
            /\ record' = [record EXCEPT !.outstanding =
                             @ /\ ~(call.completed # 0 /\ call.completed = record.sequence)]
       ELSE Refuse(c, "failed") /\ UNCHANGED record
    /\ UNCHANGED <<nodeVars, active, waiting, streamVars, gate, admission, bounds>>

(* What Lease makes of a request before it is put in the rotation.         *)
Existing(call) == call.sequence = record.sequence
Conflicting(call) ==
    \/ ~active
    \/ call.sequence < record.sequence
    \/ call.sequence > record.sequence /\ record.outstanding
    \/ ~Existing(call) /\ waiting # NoRequest /\ waiting.sequence # call.sequence
Request(call) ==
    IF waiting # NoRequest THEN waiting
    ELSE [stream |-> call.stream, sequence |-> call.sequence, permits |-> call.permits]

(* A call that needs no permit: refused, or the lease is there already, of *)
(* which some windows, or all, may have closed.                            *)
LeaseAnswered(c) ==
    LET call == calls[c] IN
    /\ call.stage = "completed" /\ (Conflicting(call) \/ Existing(call))
    /\ \/ Conflicting(call) /\ Refuse(c, "failed")
       \/ /\ ~Conflicting(call)
          /\ \E n \in 0 .. record.permits : Answer(c, "granted", n, record.stream)
    /\ UNCHANGED <<nodeVars, scheduleVars, streamVars, gate, admission, bounds>>

Requested(c) ==
    calls[c].stage = "completed" /\ ~Conflicting(calls[c]) /\ ~Existing(calls[c])

(* A call that finds a permit, for the request that waits if there is one. *)
LeaseGranted(c) ==
    /\ Requested(c)
    /\ Grant(Request(calls[c]), rate)
    /\ Answer(c, "granted", record'.permits, record'.stream)
    /\ UNCHANGED <<nodeVars, active, streamVars, gate, admission, bounds>>

(* A call that finds none, and waits in the rotation.                      *)
LeaseDelayed(c) ==
    /\ Requested(c) /\ rate # 0
    /\ waiting' = Request(calls[c])
    /\ Refuse(c, "delayed")
    /\ UNCHANGED <<nodeVars, active, record, streamVars, gate, admission, bounds>>

-----------------------------------------------------------------------------
(* Admission.Wait, one caller at a time; there always is one.              *)

Ready == capable /\ gate.connected /\ calls["awaited"].stage = "none"

Reset ==
    /\ Ready /\ admission.stream # gate.stream
    /\ admission' = Fresh(gate.stream)
    /\ UNCHANGED <<nodeVars, scheduleVars, streamVars, gate, calls, bounds>>

(* Wrong: the number of permits follows the demand of the moment.          *)
MaximumNow == Permits

(* What a sequence asks for is decided once.                               *)
Maximum == IF admission.maximum = 0 THEN Permits ELSE {admission.maximum}

(* acquireLease.                                                           *)
AcquireLease ==
    /\ Ready /\ admission.stream = gate.stream /\ ~admission.leased
    /\ \E n \in Maximum :
          /\ admission' = [admission EXCEPT !.maximum = n]
          /\ calls' = [calls EXCEPT !["awaited"] =
                [stage |-> "sent", stream |-> gate.stream, sequence |-> admission.sequence,
                 completed |-> admission.completed, permits |-> n, origin |-> gate.stream]]
    /\ UNCHANGED <<nodeVars, scheduleVars, streamVars, gate, bounds>>

(* The answer, of no use on another stream; applyDecision takes one with   *)
(* more permits than it asked for as an error of the node, and the fetch   *)
(* fails.                                                                  *)
ApplyDecision ==
    LET call == calls["awaited"]
        current == gate.connected /\ gate.stream = call.stream IN
    /\ call.stage \in {"granted", "delayed", "failed"}
    /\ calls' = [calls EXCEPT !["awaited"] = NoCall]
    /\ admission' =
          IF ~current \/ call.stage # "granted" \/ call.permits > admission.maximum
          THEN admission
          ELSE [admission EXCEPT !.leased = TRUE, !.left = call.permits]
    /\ UNCHANGED <<nodeVars, scheduleVars, streamVars, gate, bounds>>

(* The call fails or takes too long, and may still be handled.             *)
CallFails ==
    LET call == calls["awaited"] IN
    /\ faults < MaxFaults /\ faults' = faults + 1
    /\ call.stage # "none"
    /\ calls' = [awaited |-> NoCall,
                 late |-> IF call.stage \in {"sent", "completed"} THEN call ELSE calls["late"]]
    /\ UNCHANGED <<nodeVars, scheduleVars, streamVars, gate, admission, changes>>

(* usePermit: a fetch starts in its window, or the window has closed.      *)
UsePermit ==
    /\ Ready /\ admission.stream = gate.stream /\ admission.leased /\ admission.left > 0
    /\ admission' = [admission EXCEPT !.left = @ - 1]
    /\ UNCHANGED <<nodeVars, scheduleVars, streamVars, gate, calls, bounds>>

FinishLease ==
    /\ Ready /\ admission.stream = gate.stream /\ admission.leased /\ admission.left = 0
    /\ admission.sequence < MaxSequence
    /\ admission' = [admission EXCEPT !.completed = admission.sequence, !.sequence = @ + 1,
                        !.maximum = 0, !.leased = FALSE]
    /\ UNCHANGED <<nodeVars, scheduleVars, streamVars, gate, calls, bounds>>

-----------------------------------------------------------------------------
HandlerStep(i) == Activate(i) \/ Admit(i) \/ Deactivate(i) \/ DeactivateSession(i)
CallStep(c) == CompleteLease(c) \/ LeaseAnswered(c) \/ LeaseGranted(c) \/ LeaseDelayed(c)
AdmissionStep == Reset \/ AcquireLease \/ ApplyDecision \/ UsePermit \/ FinishLease

Next ==
    \/ OpenStream \/ StreamEnds \/ Break
    \/ \E i \in Streams : HandlerStep(i)
    \/ \E r \in Rates : SetRate(r)
    \/ CloseStreams \/ Expire
    \/ \E c \in {"awaited", "late"} : CallStep(c)
    \/ AdmissionStep \/ CallFails

Spec == Init /\ [][Next]_vars

(* Handlers, calls, the operator's request that set the rate and the       *)
(* crawler go on; a call that is repeated finds a permit in the end, as    *)
(* the schedule serves its sessions in rotation.                           *)
FairSpec ==
    /\ Spec
    /\ \A i \in Streams : WF_vars(HandlerStep(i))
    /\ WF_vars(OpenStream) /\ WF_vars(StreamEnds) /\ WF_vars(CloseStreams)
    /\ WF_vars(AdmissionStep)
    /\ WF_vars(CallStep("awaited")) /\ SF_vars(LeaseGranted("awaited"))

-----------------------------------------------------------------------------
(* Properties.                                                             *)

(* At a finite rate no stream is served whose crawler would fetch without  *)
(* permits: a stream that is being opened while the rate changes is either *)
(* refused or closed.                                                      *)
IncapableStreamsFenced ==
    rate # 0 /\ fence = "none" /\ ~capable =>
        \A i \in Streams : handlers[i] = "serving" => i \in cancelled

(* The crawler takes no answer for an error of the node on a stream that   *)
(* asked for what it is answered about: whatever calls are lost, repeated  *)
(* or handled late, a lease that was asked for on the stream has no more   *)
(* permits than the crawler decided on for its sequence.  After a          *)
(* reconnection the session may still have the lease or the request of the *)
(* stream before, under the same sequence, and that one may have more.     *)
DecisionsAccepted ==
    LET call == calls["awaited"] IN
    call.stage = "granted" /\ call.origin = call.stream => call.permits <= admission.maximum

(* While its stream stays connected a crawler that wants to fetch is given *)
(* one lease after the other, whatever answers are lost.                   *)
LeasesKeepComing ==
    \A s \in 1 .. MaxSequence - 1 :
        capable /\ gate.connected /\ admission.sequence = s
            ~> ~gate.connected \/ admission.sequence # s

(* Nothing of an earlier stream is left that reaches the session of the    *)
(* crawler's stream: no handler that may still deactivate it, no lease,    *)
(* request or call; and the session was not deactivated under the stream.  *)
Undisturbed ==
    /\ \A i \in 1 .. gate.stream - 1 : handlers[i] = "returned"
    /\ \A x \in {record, waiting, calls["awaited"], calls["late"]} :
          x.stream \in {0, gate.stream}
    /\ handlers[gate.stream] = "serving" => active
    /\ admission.stream = gate.stream => admission.completed <= record.sequence

(* Leases keep coming, also on a stream that was opened after another one  *)
(* broke or was closed for a new rate, once the earlier stream is out of   *)
(* the way: lost answers, late calls and rate changes never stop them.     *)
UndisturbedLeasesKeepComing ==
    \A s \in 1 .. MaxSequence - 1 :
        capable /\ gate.connected /\ Undisturbed /\ admission.sequence = s
            ~> ~gate.connected \/ admission.sequence # s

=============================================================================
