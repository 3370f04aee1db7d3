-------------------------- MODULE FetchFleetProofs --------------------------
(***************************************************************************)
(* Theorems about how a crawler gets its permits, for every number of      *)
(* streams, sequences, permits, rate changes and faults.                   *)
(***************************************************************************)
EXTENDS FetchStartFleet, TLAPS

-----------------------------------------------------------------------------
(* Streams and the fleet's rate.  The registry has one place: the handler  *)
(* of a stream that was activated and has not been released is in it, so   *)
(* closing the registered stream closes every stream that is served.       *)

Stages == {"none", "opened", "activated", "serving", "deactivated", "returned"}

OwnHandler ==
    /\ handlers \in [Streams -> Stages]
    /\ \A i \in Streams :
          handlers[i] \in {"activated", "serving"} => registered = i /\ connected

FencedInv == OwnHandler /\ IncapableStreamsFenced

LEMMA FencedInit == Init => FencedInv
BY DEF Init, FencedInv, OwnHandler, Stages, IncapableStreamsFenced

(* A step that leaves the streams, the registry and the rate alone.        *)
LEMMA FencedKept ==
    ASSUME FencedInv, UNCHANGED <<rate, fence, registered, connected, handlers, capable>>,
           cancelled \subseteq cancelled'
    PROVE  FencedInv'
BY DEF FencedInv, OwnHandler, IncapableStreamsFenced

LEMMA FencedStep == FencedInv /\ [Next]_vars => FencedInv'
<1> SUFFICES ASSUME FencedInv, [Next]_vars PROVE FencedInv'
    OBVIOUS
<1> USE DEF nodeVars, scheduleVars, streamVars, bounds
<1>1. CASE OpenStream
    <2>1. /\ \A i \in Streams : handlers'[i] \in {handlers[i], "opened"}
          /\ handlers' \in [Streams -> Stages]
        BY <1>1 DEF OpenStream, FencedInv, OwnHandler, Stages
    <2> QED
        BY <1>1, <2>1 DEF OpenStream, FencedInv, OwnHandler, IncapableStreamsFenced
<1>2. CASE StreamEnds \/ Break
    BY <1>2, FencedKept DEF StreamEnds, Break
<1>3. ASSUME NEW i \in Streams, Activate(i) PROVE FencedInv'
    <2>1. CASE connected \/ i \in cancelled
        BY <1>3, <2>1 DEF Activate, FencedInv, OwnHandler, Stages, IncapableStreamsFenced
    <2>2. CASE ~connected /\ i \notin cancelled
        <3>1. \A j \in Streams : handlers[j] \notin {"activated", "serving"}
            BY <2>2 DEF FencedInv, OwnHandler
        <3> QED
            BY <1>3, <2>2, <3>1
            DEF Activate, FencedInv, OwnHandler, Stages, IncapableStreamsFenced
    <2> QED
        BY <2>1, <2>2
<1>4. ASSUME NEW i \in Streams, Admit(i) PROVE FencedInv'
    <2>1. registered = i /\ connected
        BY <1>4 DEF Admit, FencedInv, OwnHandler
    <2>2. CASE Served
        BY <1>4, <2>1, <2>2
        DEF Admit, Served, FencedInv, OwnHandler, Stages, IncapableStreamsFenced
    <2>3. CASE ~Served
        <3>1. \A j \in Streams \ {i} : handlers[j] \notin {"activated", "serving"}
            BY <2>1 DEF FencedInv, OwnHandler
        <3> QED
            BY <1>4, <2>3, <3>1
            DEF Admit, FencedInv, OwnHandler, Stages, IncapableStreamsFenced
    <2> QED
        BY <2>2, <2>3
<1>5. ASSUME NEW i \in Streams, Deactivate(i) PROVE FencedInv'
    <2>1. registered = i /\ connected
        BY <1>5 DEF Deactivate, FencedInv, OwnHandler
    <2>2. \A j \in Streams \ {i} : handlers[j] \notin {"activated", "serving"}
        BY <2>1 DEF FencedInv, OwnHandler
    <2> QED
        BY <1>5, <2>1, <2>2
        DEF Deactivate, FencedInv, OwnHandler, Stages, IncapableStreamsFenced
<1>6. ASSUME NEW i \in Streams, DeactivateSession(i) PROVE FencedInv'
    BY <1>6 DEF DeactivateSession, FencedInv, OwnHandler, Stages, IncapableStreamsFenced
<1>7. ASSUME NEW r \in Rates, SetRate(r) PROVE FencedInv'
    <2>1. r = 0 \/ fence' # "none"
        BY <1>7 DEF SetRate
    <2> QED
        BY <1>7, <2>1 DEF SetRate, FencedInv, OwnHandler, IncapableStreamsFenced
<1>8. CASE CloseStreams
    <2>1. \A i \in Streams : handlers[i] = "serving" /\ ~capable => i \in cancelled'
        BY <1>8 DEF CloseStreams, FencedInv, OwnHandler
    <2> QED
        BY <1>8, <2>1 DEF CloseStreams, FencedInv, OwnHandler, IncapableStreamsFenced
<1>9. CASE Expire \/ CallFails
    BY <1>9, FencedKept DEF Expire, CallFails
<1>10. ASSUME NEW c \in {"awaited", "late"}, CallStep(c) PROVE FencedInv'
    BY <1>10, FencedKept
    DEF CallStep, CompleteLease, LeaseAnswered, LeaseGranted, LeaseDelayed
<1>11. CASE AdmissionStep
    BY <1>11, FencedKept
    DEF AdmissionStep, Reset, AcquireLease, ApplyDecision, UsePermit, FinishLease
<1>12. CASE UNCHANGED vars
    BY <1>12, FencedKept DEF vars
<1> QED
    BY <1>1, <1>2, <1>3, <1>4, <1>5, <1>6, <1>7, <1>8, <1>9, <1>10, <1>11, <1>12
    DEF Next, HandlerStep

(* At a finite rate no stream of a crawler without fetch-start leases is   *)
(* served: whatever handler is between activate and the check under        *)
(* fetchPolicy when the rate changes, its stream is refused or closed.     *)
THEOREM IncapableFenced == Spec => []IncapableStreamsFenced
<1>1. FencedInv => IncapableStreamsFenced
    BY DEF FencedInv
<1> QED
    BY <1>1, FencedInit, FencedStep, PTL DEF Spec

-----------------------------------------------------------------------------
(* What the crawler is given.  Whatever the node holds that was asked for  *)
(* on the crawler's stream, for the sequence the crawler is at, was asked  *)
(* for with the number of permits the crawler decided on for that          *)
(* sequence.  Nothing is asked for on a stream before the admission is     *)
(* reset for it, so a lease, a request or a call of another stream is of   *)
(* an earlier one and no longer compared.                                  *)

Calls == {"awaited", "late"}
CallStages == {"none", "sent", "completed", "granted", "delayed", "failed"}
CallRecord ==
    [stage : CallStages, stream : Nat, sequence : Nat, completed : Nat, permits : Nat,
     origin : Nat]
LeaseRecord == [stream : Nat, sequence : Nat, permits : Nat, outstanding : BOOLEAN]
RequestRecord == [stream : Nat, sequence : Nat, permits : Nat]

RequestTyped ==
    /\ record \in LeaseRecord
    /\ waiting \in RequestRecord
    /\ gate \in [stream : Nat, connected : BOOLEAN]
    /\ admission \in [stream : Nat, sequence : Nat \ {0}, maximum : Nat, completed : Nat,
                      leased : BOOLEAN, left : Nat]
    /\ calls \in [Calls -> CallRecord]

(* A request or a lease of some stream, seen from the admission.           *)
AskedFor(stream, sequence, permits) ==
    /\ stream <= admission.stream
    /\ stream = admission.stream =>
          /\ sequence <= admission.sequence
          /\ sequence = admission.sequence => permits <= admission.maximum

(* A call that has no answer yet is about itself.                          *)
CallAgrees(call) ==
    /\ AskedFor(call.origin, call.sequence, call.permits)
    /\ call.stage \in {"sent", "completed"} => call.origin = call.stream
    /\ call.stream <= admission.stream

RequestsAgree ==
    /\ AskedFor(record.stream, record.sequence, record.permits)
    /\ AskedFor(waiting.stream, waiting.sequence, waiting.permits)
    /\ \A c \in Calls : CallAgrees(calls[c])

AwaitedCurrent ==
    calls["awaited"].stage # "none" =>
        /\ calls["awaited"].stream = admission.stream
        /\ calls["awaited"].sequence = admission.sequence

DecisionInv ==
    /\ RequestTyped
    /\ RequestsAgree
    /\ admission.stream <= gate.stream
    /\ AwaitedCurrent

LEMMA DecisionInit == Init => DecisionInv
BY DEF Init, DecisionInv, RequestTyped, RequestsAgree, AskedFor, CallAgrees, AwaitedCurrent,
       Fresh, NoLease, NoRequest, NoCall, Calls, CallStages, CallRecord, LeaseRecord,
       RequestRecord

LEMMA DecisionSafe == DecisionInv => DecisionsAccepted
BY DEF DecisionInv, RequestTyped, RequestsAgree, AskedFor, CallAgrees, AwaitedCurrent,
       DecisionsAccepted, Calls, CallRecord

(* A step of the node or of a stream: the crawler's side is left alone.    *)
LEMMA DecisionKept ==
    ASSUME DecisionInv, UNCHANGED <<admission, calls>>,
           gate' \in [stream : Nat, connected : BOOLEAN], gate.stream <= gate'.stream,
           record' \in LeaseRecord,
           waiting' \in RequestRecord,
           AskedFor(record'.stream, record'.sequence, record'.permits),
           AskedFor(waiting'.stream, waiting'.sequence, waiting'.permits)
    PROVE  DecisionInv'
<1>1. admission.stream <= gate'.stream
    BY DEF DecisionInv, RequestTyped
<1> QED
    BY <1>1 DEF DecisionInv, RequestTyped, RequestsAgree, AskedFor, CallAgrees, AwaitedCurrent

(* A grant answers the request with at most what it asked for.             *)
LEMMA GrantAgrees ==
    ASSUME DecisionInv, NEW request \in RequestRecord, NEW r,
           AskedFor(request.stream, request.sequence, request.permits), Grant(request, r)
    PROVE  /\ record' \in LeaseRecord
           /\ waiting' \in RequestRecord
           /\ record'.sequence = request.sequence
           /\ AskedFor(record'.stream, record'.sequence, record'.permits)
           /\ AskedFor(waiting'.stream, waiting'.sequence, waiting'.permits)
<1>1. PICK n \in Granted(request, r) :
          record' = [stream |-> request.stream, sequence |-> request.sequence,
                     permits |-> n, outstanding |-> TRUE]
    BY DEF Grant
<1>2. n \in Nat /\ n <= request.permits
    BY BoundsAssumption DEF Granted, Permits, RequestRecord
<1>3. /\ record' \in LeaseRecord /\ record'.stream = request.stream
      /\ record'.sequence = request.sequence /\ record'.permits = n
    BY <1>1, <1>2 DEF LeaseRecord, RequestRecord
<1>4. waiting' = NoRequest
    BY DEF Grant
<1>5. admission.stream \in Nat /\ admission.sequence \in Nat \ {0} /\ admission.maximum \in Nat
    BY DEF DecisionInv, RequestTyped
<1>6. AskedFor(record'.stream, record'.sequence, record'.permits)
    BY <1>2, <1>3, <1>5 DEF AskedFor, RequestRecord
<1>7. /\ waiting' \in RequestRecord
      /\ AskedFor(waiting'.stream, waiting'.sequence, waiting'.permits)
    BY <1>4, <1>5 DEF AskedFor, NoRequest, RequestRecord
<1> QED
    BY <1>3, <1>6, <1>7

(* An answer about a lease carries no more permits than the lease has.     *)
LEMMA AnswerAgrees ==
    ASSUME DecisionInv, NEW c \in Calls, NEW stage \in {"granted", "delayed", "failed"},
           NEW n \in Nat, NEW origin \in Nat,
           Answer(c, stage, n, origin), AskedFor(origin, calls[c].sequence, n),
           UNCHANGED <<admission, gate>>,
           record' \in LeaseRecord,
           waiting' \in RequestRecord,
           AskedFor(record'.stream, record'.sequence, record'.permits),
           AskedFor(waiting'.stream, waiting'.sequence, waiting'.permits),
           calls[c].stage # "none"
    PROVE  DecisionInv'
<1>0. /\ calls \in [Calls -> CallRecord] /\ CallAgrees(calls[c])
      /\ admission.stream \in Nat
      /\ admission.sequence \in Nat \ {0} /\ admission.maximum \in Nat
    BY DEF DecisionInv, RequestTyped, RequestsAgree
<1> DEFINE a == IF c = "late" THEN NoCall
                ELSE [calls[c] EXCEPT !.stage = stage, !.permits = n, !.origin = origin]
<1>1. calls' = [calls EXCEPT ![c] = a]
    BY <1>0 DEF Answer
<1>2. a \in CallRecord
    <2>1. NoCall \in CallRecord
        BY DEF NoCall, CallStages, CallRecord
    <2>2. [calls[c] EXCEPT !.stage = stage, !.permits = n, !.origin = origin] \in CallRecord
        BY <1>0 DEF CallRecord, CallStages
    <2> QED
        BY <2>1, <2>2
<1>3. /\ CallAgrees(a)
      /\ c = "awaited" => a.stream = calls[c].stream /\ a.sequence = calls[c].sequence
    <2>1. CASE c = "late"
        BY <1>0, <2>1 DEF CallAgrees, AskedFor, NoCall
    <2>2. CASE c # "late"
        <3>1. /\ a.stage = stage /\ a.permits = n /\ a.origin = origin
              /\ a.stream = calls[c].stream /\ a.sequence = calls[c].sequence
            BY <1>0, <2>2 DEF CallRecord
        <3> QED
            BY <1>0, <3>1 DEF CallAgrees
    <2> QED
        BY <2>1, <2>2
<1> HIDE DEF a
<1>4. /\ calls' \in [Calls -> CallRecord]
      /\ calls'[c] = a /\ \A d \in Calls \ {c} : calls'[d] = calls[d]
    BY <1>0, <1>1, <1>2
<1>5. RequestTyped'
    BY <1>4 DEF DecisionInv, RequestTyped
<1>6. RequestsAgree'
    BY <1>3, <1>4 DEF DecisionInv, RequestsAgree, AskedFor, CallAgrees
<1>7. AwaitedCurrent'
    BY <1>3, <1>4 DEF DecisionInv, AwaitedCurrent, Calls
<1> QED
    BY <1>5, <1>6, <1>7 DEF DecisionInv

LEMMA CallStepAgrees ==
    ASSUME DecisionInv, NEW c \in Calls, CallStep(c)
    PROVE  DecisionInv'
<1>0. /\ record \in LeaseRecord /\ waiting \in RequestRecord /\ calls[c] \in CallRecord
      /\ calls \in [Calls -> CallRecord]
      /\ AskedFor(record.stream, record.sequence, record.permits)
      /\ AskedFor(waiting.stream, waiting.sequence, waiting.permits)
      /\ CallAgrees(calls[c])
      /\ admission.stream \in Nat
      /\ admission.sequence \in Nat \ {0} /\ admission.maximum \in Nat
    BY DEF DecisionInv, RequestTyped, RequestsAgree
<1> USE DEF nodeVars, scheduleVars, streamVars, bounds
<1>1. ASSUME NEW stage \in {"failed", "delayed"}, Refuse(c, stage),
             calls[c].stage \in {"sent", "completed"},
             UNCHANGED <<admission, gate>>, record' \in LeaseRecord,
             waiting' \in RequestRecord,
             AskedFor(record'.stream, record'.sequence, record'.permits),
             AskedFor(waiting'.stream, waiting'.sequence, waiting'.permits)
      PROVE  DecisionInv'
    <2>1. calls[c].stream \in Nat /\ AskedFor(calls[c].stream, calls[c].sequence, 0)
        BY <1>0, <1>1 DEF CallAgrees, AskedFor, CallRecord
    <2>2. Answer(c, stage, 0, calls[c].stream)
        BY <1>1 DEF Refuse
    <2> QED
        BY <1>1, <2>1, <2>2, AnswerAgrees
<1>3. CASE CompleteLease(c)
    <2>1. CASE calls[c].completed = 0 \/ Completable(calls[c].completed)
        <3>1. /\ calls' = [calls EXCEPT ![c].stage = "completed"] /\ calls[c].stage = "sent"
              /\ UNCHANGED <<waiting, gate, admission>>
            BY <1>3, <2>1 DEF CompleteLease
        <3>2. /\ record'.sequence = record.sequence /\ record'.permits = record.permits
              /\ record'.stream = record.stream
              /\ record' \in LeaseRecord
            BY <1>0, <1>3, <2>1 DEF CompleteLease, LeaseRecord
        <3>3. /\ calls' \in [Calls -> CallRecord]
              /\ calls'[c] = [calls[c] EXCEPT !.stage = "completed"]
              /\ \A d \in Calls \ {c} : calls'[d] = calls[d]
            <4>1. [calls[c] EXCEPT !.stage = "completed"] \in CallRecord
                BY <1>0 DEF CallRecord, CallStages
            <4>2. calls' = [calls EXCEPT ![c] = [calls[c] EXCEPT !.stage = "completed"]]
                BY <1>0, <3>1
            <4> QED
                BY <1>0, <4>1, <4>2
        <3>4. /\ calls'[c].sequence = calls[c].sequence /\ calls'[c].permits = calls[c].permits
              /\ calls'[c].stream = calls[c].stream /\ calls'[c].origin = calls[c].origin
            BY <1>0, <3>3 DEF CallRecord
        <3>5. RequestTyped'
            BY <3>1, <3>2, <3>3 DEF DecisionInv, RequestTyped
        <3>6. RequestsAgree'
            <4>1. CallAgrees(calls[c])'
                BY <1>0, <3>1, <3>4 DEF CallAgrees, AskedFor
            <4>2. \A d \in Calls \ {c} : CallAgrees(calls[d])'
                BY <3>1, <3>3 DEF DecisionInv, RequestsAgree, CallAgrees, AskedFor
            <4>3. /\ AskedFor(record.stream, record.sequence, record.permits)'
                  /\ AskedFor(waiting.stream, waiting.sequence, waiting.permits)'
                BY <1>0, <3>1, <3>2 DEF AskedFor
            <4> QED
                BY <4>1, <4>2, <4>3 DEF RequestsAgree
        <3>7. AwaitedCurrent'
            BY <3>1, <3>3, <3>4 DEF DecisionInv, AwaitedCurrent, Calls
        <3> QED
            BY <3>1, <3>5, <3>6, <3>7 DEF DecisionInv
    <2>2. CASE ~(calls[c].completed = 0 \/ Completable(calls[c].completed))
        <3>1. /\ Refuse(c, "failed") /\ calls[c].stage = "sent"
              /\ UNCHANGED <<record, waiting, gate, admission>>
            BY <1>3, <2>2 DEF CompleteLease
        <3> QED
            BY <1>0, <1>1, <3>1
    <2> QED
        BY <2>1, <2>2
<1>4. CASE LeaseAnswered(c)
    <2>1. calls[c].stage = "completed" /\ UNCHANGED <<record, waiting, gate, admission>>
        BY <1>4 DEF LeaseAnswered
    <2>2. CASE Conflicting(calls[c])
        BY <1>0, <1>1, <1>4, <2>1, <2>2 DEF LeaseAnswered
    <2>3. CASE ~Conflicting(calls[c])
        <3>1. PICK n \in 0 .. record.permits : Answer(c, "granted", n, record.stream)
            BY <1>4, <2>3 DEF LeaseAnswered
        <3>2. calls[c].sequence = record.sequence
            BY <1>4, <2>3 DEF LeaseAnswered, Existing
        <3>3. /\ n \in Nat /\ record.stream \in Nat
              /\ AskedFor(record.stream, calls[c].sequence, n)
            BY <1>0, <3>2 DEF AskedFor, LeaseRecord
        <3> QED
            BY <1>0, <2>1, <3>1, <3>3, AnswerAgrees
    <2> QED
        BY <2>2, <2>3
<1>5. ASSUME Requested(c)
      PROVE  /\ calls[c].stage = "completed" /\ Request(calls[c]) \in RequestRecord
             /\ Request(calls[c]).sequence = calls[c].sequence
             /\ AskedFor(Request(calls[c]).stream, Request(calls[c]).sequence,
                         Request(calls[c]).permits)
    <2>1. CASE waiting # NoRequest
        BY <1>0, <1>5, <2>1 DEF Requested, Conflicting, Request
    <2>2. CASE waiting = NoRequest
        BY <1>0, <1>5, <2>2 DEF Requested, Request, RequestRecord, CallRecord, CallAgrees
    <2> QED
        BY <2>1, <2>2
<1>6. CASE LeaseGranted(c)
    <2>1. Requested(c) /\ Grant(Request(calls[c]), rate) /\ UNCHANGED <<gate, admission>>
        BY <1>6 DEF LeaseGranted
    <2>2. /\ record' \in LeaseRecord /\ waiting' \in RequestRecord
          /\ record'.sequence = Request(calls[c]).sequence
          /\ AskedFor(record'.stream, record'.sequence, record'.permits)
          /\ AskedFor(waiting'.stream, waiting'.sequence, waiting'.permits)
        BY <1>5, <2>1, GrantAgrees
    <2>3. PICK n \in Nat, origin \in Nat : n = record'.permits /\ origin = record'.stream
        BY <2>2 DEF LeaseRecord
    <2>4. Answer(c, "granted", n, origin) /\ AskedFor(origin, calls[c].sequence, n)
        BY <1>5, <1>6, <2>1, <2>2, <2>3 DEF LeaseGranted
    <2> QED
        BY <1>5, <2>1, <2>2, <2>4, AnswerAgrees
<1>7. CASE LeaseDelayed(c)
    <2>1. /\ Requested(c) /\ waiting' = Request(calls[c]) /\ Refuse(c, "delayed")
          /\ UNCHANGED <<record, gate, admission>>
        BY <1>7 DEF LeaseDelayed
    <2> QED
        BY <1>0, <1>1, <1>5, <2>1
<1> QED
    BY <1>3, <1>4, <1>6, <1>7 DEF CallStep

LEMMA AcquireAgrees ==
    ASSUME DecisionInv, AcquireLease
    PROVE  DecisionInv'
<1>0. /\ calls \in [Calls -> CallRecord] /\ gate.stream = admission.stream
      /\ admission.stream \in Nat
      /\ admission.sequence \in Nat \ {0} /\ admission.maximum \in Nat
      /\ admission.completed \in Nat
    BY DEF DecisionInv, RequestTyped, AcquireLease
<1>1. PICK n \in Maximum :
          /\ admission' = [admission EXCEPT !.maximum = n]
          /\ calls' = [calls EXCEPT !["awaited"] =
                [stage |-> "sent", stream |-> gate.stream, sequence |-> admission.sequence,
                 completed |-> admission.completed, permits |-> n, origin |-> gate.stream]]
    BY DEF AcquireLease
<1>2. n \in Nat /\ admission.maximum <= n
    BY <1>0, BoundsAssumption DEF Maximum, Permits
<1>3. /\ admission'.maximum = n /\ admission'.sequence = admission.sequence
      /\ admission'.stream = admission.stream
    BY <1>0, <1>1 DEF DecisionInv, RequestTyped
<1> DEFINE a == calls'["awaited"]
<1>4. /\ calls' \in [Calls -> CallRecord]
      /\ a.sequence = admission.sequence /\ a.permits = n
      /\ a.stream = admission.stream /\ a.origin = admission.stream
      /\ calls'["late"] = calls["late"]
    BY <1>0, <1>1, <1>2 DEF CallRecord, CallStages, Calls
<1>5. UNCHANGED <<record, waiting, gate>>
    BY DEF AcquireLease, scheduleVars
<1>6. RequestTyped'
    BY <1>1, <1>2, <1>4, <1>5 DEF DecisionInv, RequestTyped
<1>7. \A t, q, p \in Nat : AskedFor(t, q, p) => AskedFor(t, q, p)'
    BY <1>0, <1>2, <1>3 DEF AskedFor
<1>8. RequestsAgree'
    <2>1. /\ AskedFor(record.stream, record.sequence, record.permits)'
          /\ AskedFor(waiting.stream, waiting.sequence, waiting.permits)'
        BY <1>5, <1>7
        DEF DecisionInv, RequestsAgree, RequestTyped, LeaseRecord, RequestRecord, AskedFor
    <2>2. CallAgrees(calls["late"])'
        BY <1>0, <1>3, <1>4, <1>7
        DEF DecisionInv, RequestsAgree, CallRecord, CallAgrees, AskedFor, Calls
    <2>3. CallAgrees(calls["awaited"])'
        BY <1>0, <1>2, <1>3, <1>4 DEF CallAgrees, AskedFor
    <2> QED
        BY <2>1, <2>2, <2>3 DEF RequestsAgree, Calls
<1> QED
    BY <1>0, <1>3, <1>4, <1>5, <1>6, <1>8 DEF DecisionInv, AwaitedCurrent

(* The crawler goes on to its next sequence: what was asked for is of an   *)
(* earlier one.                                                            *)
LEMMA FinishAgrees ==
    ASSUME DecisionInv, FinishLease
    PROVE  DecisionInv'
<1>0. /\ calls \in [Calls -> CallRecord] /\ record \in LeaseRecord
      /\ waiting \in RequestRecord
      /\ admission.stream \in Nat /\ admission.sequence \in Nat \ {0}
      /\ calls["awaited"].stage = "none"
    BY DEF DecisionInv, RequestTyped, FinishLease, Ready
<1>1. /\ admission'.sequence = admission.sequence + 1
      /\ admission'.stream = admission.stream
      /\ UNCHANGED <<record, waiting, gate, calls>>
    BY <1>0 DEF FinishLease, scheduleVars, DecisionInv, RequestTyped
<1>2. RequestTyped'
    <2>1. admission' \in [stream : Nat, sequence : Nat \ {0}, maximum : Nat, completed : Nat,
                          leased : BOOLEAN, left : Nat]
        <3>1. admission' = [admission EXCEPT !.completed = admission.sequence,
                               !.sequence = admission.sequence + 1, !.maximum = 0,
                               !.leased = FALSE]
            BY DEF FinishLease
        <3>2. admission.sequence + 1 \in Nat \ {0} /\ admission.sequence \in Nat
            BY <1>0
        <3> QED
            BY <3>1, <3>2 DEF DecisionInv, RequestTyped
    <2> QED
        BY <1>1, <2>1 DEF DecisionInv, RequestTyped
<1>3. \A t, q, p \in Nat : AskedFor(t, q, p) => AskedFor(t, q, p)'
    BY <1>0, <1>1 DEF AskedFor
<1>4. RequestsAgree'
    <2>1. /\ AskedFor(record.stream, record.sequence, record.permits)'
          /\ AskedFor(waiting.stream, waiting.sequence, waiting.permits)'
        BY <1>0, <1>1, <1>3 DEF DecisionInv, RequestsAgree, LeaseRecord, RequestRecord, AskedFor
    <2>2. \A c \in Calls : CallAgrees(calls[c])'
        BY <1>0, <1>1, <1>3 DEF DecisionInv, RequestsAgree, CallRecord, CallAgrees, AskedFor
    <2> QED
        BY <2>1, <2>2 DEF RequestsAgree
<1> QED
    BY <1>0, <1>1, <1>2, <1>4 DEF DecisionInv, AwaitedCurrent

(* The crawler turns to its new stream, on which nothing was asked for.    *)
LEMMA ResetAgrees ==
    ASSUME DecisionInv, Reset
    PROVE  DecisionInv'
<1>0. /\ admission.stream \in Nat /\ gate.stream \in Nat /\ admission.stream < gate.stream
      /\ calls \in [Calls -> CallRecord] /\ record \in LeaseRecord
      /\ waiting \in RequestRecord /\ calls["awaited"].stage = "none"
    BY DEF DecisionInv, RequestTyped, Reset, Ready
<1>1. /\ admission'.stream = gate.stream
      /\ UNCHANGED <<record, waiting, gate, calls>>
    BY DEF Reset, Fresh, scheduleVars
<1>2. RequestTyped'
    BY <1>0, <1>1 DEF Reset, Fresh, DecisionInv, RequestTyped
<1>3. \A t, q, p \in Nat : AskedFor(t, q, p) => AskedFor(t, q, p)'
    BY <1>0, <1>1 DEF AskedFor
<1>4. RequestsAgree'
    <2>1. /\ AskedFor(record.stream, record.sequence, record.permits)'
          /\ AskedFor(waiting.stream, waiting.sequence, waiting.permits)'
        BY <1>0, <1>1, <1>3 DEF DecisionInv, RequestsAgree, LeaseRecord, RequestRecord, AskedFor
    <2>2. \A c \in Calls : CallAgrees(calls[c])'
        BY <1>0, <1>1, <1>3 DEF DecisionInv, RequestsAgree, CallRecord, CallAgrees, AskedFor
    <2> QED
        BY <2>1, <2>2 DEF RequestsAgree
<1> QED
    BY <1>0, <1>1, <1>2, <1>4 DEF DecisionInv, AwaitedCurrent

LEMMA ApplyAgrees ==
    ASSUME DecisionInv, ApplyDecision
    PROVE  DecisionInv'
<1>0. /\ calls \in [Calls -> CallRecord]
      /\ calls["awaited"].permits \in Nat /\ admission.stream \in Nat
      /\ admission.sequence \in Nat \ {0}
    BY DEF DecisionInv, RequestTyped, CallRecord, Calls
<1>1. /\ calls' = [calls EXCEPT !["awaited"] = NoCall] /\ UNCHANGED <<record, waiting, gate>>
      /\ \/ admission' = admission
         \/ admission' = [admission EXCEPT !.leased = TRUE, !.left = calls["awaited"].permits]
    BY DEF ApplyDecision, scheduleVars
<1>2. /\ calls' \in [Calls -> CallRecord] /\ calls'["awaited"] = NoCall
      /\ calls'["late"] = calls["late"]
    BY <1>0, <1>1 DEF CallRecord, CallStages, Calls, NoCall
<1>3. /\ admission'.sequence = admission.sequence /\ admission'.maximum = admission.maximum
      /\ admission'.stream = admission.stream
    BY <1>1 DEF DecisionInv, RequestTyped
<1>4. RequestTyped'
    BY <1>0, <1>1, <1>2 DEF DecisionInv, RequestTyped
<1>5. RequestsAgree'
    <2>1. CallAgrees(calls["awaited"])'
        BY <1>0, <1>2, <1>3 DEF CallAgrees, AskedFor, NoCall
    <2>2. CallAgrees(calls["late"])'
        BY <1>2, <1>3 DEF DecisionInv, RequestsAgree, CallAgrees, AskedFor, Calls
    <2>3. /\ AskedFor(record.stream, record.sequence, record.permits)'
          /\ AskedFor(waiting.stream, waiting.sequence, waiting.permits)'
        BY <1>1, <1>3 DEF DecisionInv, RequestsAgree, AskedFor
    <2> QED
        BY <2>1, <2>2, <2>3 DEF RequestsAgree, Calls
<1> QED
    BY <1>1, <1>2, <1>3, <1>4, <1>5 DEF DecisionInv, AwaitedCurrent, NoCall

LEMMA CallFailsAgrees ==
    ASSUME DecisionInv, CallFails
    PROVE  DecisionInv'
<1>0. calls \in [Calls -> CallRecord] /\ admission.stream \in Nat
      /\ admission.sequence \in Nat \ {0}
    BY DEF DecisionInv, RequestTyped
<1>1. /\ DOMAIN calls' = Calls /\ calls'["awaited"] = NoCall
      /\ calls'["late"] \in {calls["awaited"], calls["late"]}
      /\ UNCHANGED <<record, waiting, gate, admission>>
    BY DEF CallFails, scheduleVars, Calls
<1>2. calls' \in [Calls -> CallRecord]
    <2>1. calls' = [c \in Calls |-> calls'[c]]
        BY DEF CallFails, Calls
    <2>2. calls'["awaited"] \in CallRecord /\ calls'["late"] \in CallRecord
        BY <1>0, <1>1 DEF CallRecord, CallStages, Calls, NoCall
    <2> QED
        BY <2>1, <2>2 DEF Calls
<1>3. RequestTyped'
    BY <1>1, <1>2 DEF DecisionInv, RequestTyped
<1>4. RequestsAgree'
    <2>1. CallAgrees(calls["awaited"])'
        BY <1>0, <1>1 DEF CallAgrees, AskedFor, NoCall
    <2>2. CallAgrees(calls["late"])'
        BY <1>1 DEF DecisionInv, RequestsAgree, CallAgrees, AskedFor, Calls
    <2>3. /\ AskedFor(record.stream, record.sequence, record.permits)'
          /\ AskedFor(waiting.stream, waiting.sequence, waiting.permits)'
        BY <1>1 DEF DecisionInv, RequestsAgree, AskedFor
    <2> QED
        BY <2>1, <2>2, <2>3 DEF RequestsAgree, Calls
<1> QED
    BY <1>1, <1>3, <1>4 DEF DecisionInv, AwaitedCurrent, NoCall

LEMMA DecisionStep == DecisionInv /\ [Next]_vars => DecisionInv'
<1> SUFFICES ASSUME DecisionInv, [Next]_vars PROVE DecisionInv'
    OBVIOUS
<1>0. /\ record \in LeaseRecord /\ waiting \in RequestRecord
      /\ gate \in [stream : Nat, connected : BOOLEAN] /\ gate.stream <= gate.stream
      /\ AskedFor(record.stream, record.sequence, record.permits)
      /\ AskedFor(waiting.stream, waiting.sequence, waiting.permits)
    BY DEF DecisionInv, RequestTyped, RequestsAgree
<1> USE DEF nodeVars, scheduleVars, streamVars, bounds
<1>1. CASE OpenStream
    <2>1. gate' = [stream |-> gate.stream + 1, connected |-> TRUE]
        BY <1>1 DEF OpenStream
    <2>2. gate' \in [stream : Nat, connected : BOOLEAN] /\ gate.stream <= gate'.stream
        BY <1>0, <2>1
    <2> QED
        BY <1>0, <1>1, <2>2, DecisionKept DEF OpenStream
<1>2. CASE StreamEnds \/ Break
    <2>1. gate' = [gate EXCEPT !.connected = FALSE]
        BY <1>2 DEF StreamEnds, Break
    <2>2. gate' \in [stream : Nat, connected : BOOLEAN] /\ gate.stream <= gate'.stream
        BY <1>0, <2>1
    <2> QED
        BY <1>0, <1>2, <2>2, DecisionKept DEF StreamEnds, Break
<1>3. ASSUME NEW i \in Streams, HandlerStep(i) PROVE DecisionInv'
    <2>1. record' \in {record, NoLease} /\ waiting' \in {waiting, NoRequest}
          /\ UNCHANGED <<gate, admission, calls>>
        BY <1>3 DEF HandlerStep, Activate, Admit, Deactivate, DeactivateSession
    <2>2. admission.stream \in Nat /\ admission.sequence \in Nat \ {0}
        BY DEF DecisionInv, RequestTyped
    <2>3. /\ record' \in LeaseRecord /\ waiting' \in RequestRecord
          /\ AskedFor(record'.stream, record'.sequence, record'.permits)
          /\ AskedFor(waiting'.stream, waiting'.sequence, waiting'.permits)
        <3>1. /\ NoLease \in LeaseRecord
              /\ AskedFor(NoLease.stream, NoLease.sequence, NoLease.permits)
            BY <2>2 DEF AskedFor, NoLease, LeaseRecord
        <3>2. /\ NoRequest \in RequestRecord
              /\ AskedFor(NoRequest.stream, NoRequest.sequence, NoRequest.permits)
            BY <2>2 DEF AskedFor, NoRequest, RequestRecord
        <3> QED
            BY <1>0, <2>1, <3>1, <3>2
    <2> QED
        BY <1>0, <2>1, <2>3, DecisionKept
<1>4. ASSUME NEW r \in Rates, SetRate(r) PROVE DecisionInv'
    <2>1. UNCHANGED <<gate, admission, calls>>
        BY <1>4 DEF SetRate
    <2>2. CASE UNCHANGED <<record, waiting>>
        BY <1>0, <2>1, <2>2, DecisionKept
    <2>3. CASE Grant(waiting, r)
        <3>1. /\ record' \in LeaseRecord /\ waiting' \in RequestRecord
              /\ AskedFor(record'.stream, record'.sequence, record'.permits)
              /\ AskedFor(waiting'.stream, waiting'.sequence, waiting'.permits)
            BY <1>0, <2>3, GrantAgrees
        <3> QED
            BY <1>0, <2>1, <3>1, DecisionKept
    <2> QED
        BY <1>4, <2>2, <2>3 DEF SetRate
<1>5. CASE CloseStreams
    BY <1>0, <1>5, DecisionKept DEF CloseStreams
<1>6. CASE Expire
    <2>1. /\ record'.sequence = record.sequence /\ record'.permits = record.permits
          /\ record'.stream = record.stream /\ record' \in LeaseRecord
        BY <1>0, <1>6 DEF Expire, LeaseRecord
    <2> QED
        BY <1>0, <1>6, <2>1, DecisionKept DEF Expire
<1>7. ASSUME NEW c \in {"awaited", "late"}, CallStep(c) PROVE DecisionInv'
    BY <1>7, CallStepAgrees DEF Calls
<1>8. CASE Reset
    BY <1>8, ResetAgrees
<1>9. CASE AcquireLease
    BY <1>9, AcquireAgrees
<1>10. CASE ApplyDecision
    BY <1>10, ApplyAgrees
<1>11. CASE UsePermit
    <2>1. /\ admission'.sequence = admission.sequence /\ admission'.maximum = admission.maximum
          /\ admission'.stream = admission.stream
          /\ UNCHANGED <<record, waiting, gate, calls>>
        BY <1>11 DEF UsePermit, DecisionInv, RequestTyped
    <2>2. RequestTyped'
        BY <1>11, <2>1 DEF UsePermit, DecisionInv, RequestTyped
    <2> QED
        BY <2>1, <2>2 DEF DecisionInv, RequestsAgree, CallAgrees, AskedFor, AwaitedCurrent
<1>12. CASE FinishLease
    BY <1>12, FinishAgrees
<1>13. CASE CallFails
    BY <1>13, CallFailsAgrees
<1>14. CASE UNCHANGED vars
    BY <1>0, <1>14, DecisionKept DEF vars
<1> QED
    BY <1>1, <1>2, <1>3, <1>4, <1>5, <1>6, <1>7, <1>8, <1>9, <1>10, <1>11, <1>12,
       <1>13, <1>14 DEF Next, AdmissionStep

(* However often the crawler reconnects, and however its calls are lost,   *)
(* repeated and handled late, the node answers it about a lease that was   *)
(* asked for on its stream with at most the permits that applyDecision     *)
(* accepts.                                                                *)
THEOREM DecisionsStayAccepted == Spec => []DecisionsAccepted
BY DecisionInit, DecisionStep, DecisionSafe, PTL DEF Spec
=============================================================================
