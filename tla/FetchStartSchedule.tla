-------------------------- MODULE FetchStartSchedule --------------------------
(***************************************************************************)
(* The node's schedule of page-fetch starts for the whole crawler fleet    *)
(* (yagonode/internal/crawlbroker/fleet_fetch_start_schedule.go).  At a    *)
(* finite rate a crawler session asks, by sequence number, for a lease of  *)
(* permits; the schedule reserves a window of time for each permit and     *)
(* never gives two leases overlapping windows.  The schedule lives in      *)
(* memory: a restarted node starts an empty one with a quiet period, while *)
(* crawlers may still hold windows of the previous process.                *)
(*                                                                         *)
(* An action is what one critical section of the schedule's mutex does;    *)
(* the dispatch loop is one step per iteration, during which the mutex is  *)
(* held and only time goes on.  `dispatchAt` is the time the holder read   *)
(* when it took the mutex.                                                 *)
(*                                                                         *)
(* Abstracted: time is in units of which Second make a second; a lease     *)
(* whose deadline passed stops being outstanding when it is looked at; the *)
(* worker and session strings are identities.  Which sessions connect, and *)
(* what they ask for and when, is left open here.                          *)
(***************************************************************************)
EXTENDS Integers, Sequences, FiniteSets

CONSTANTS
    Workers, Sessions, NoSession,
    Second,         \* time units per second
    Rates,          \* the pages-per-second settings, 0 for unlimited
    Horizon,        \* policy.ReservationHorizon
    LeaseLifetime,  \* policy.LeaseLifetime
    QuietPeriod,    \* policy.RestartQuietPeriod
    MaxAllowance,   \* MaximumFetchStartPermitDeliveryAllowance
    Allowances,     \* the delivery allowances crawlers report
    MaxPermits,     \* policy.MaximumLeasePermits
    MaxTime, MaxSequence, MaxGeneration     \* bounds of the model

ASSUME SecondAssumption == Second \in Nat \ {0}
ASSUME RatesAssumption == Rates \subseteq Nat
(* validFleetFetchStartPolicy.                                             *)
ASSUME PolicyAssumption ==
    /\ Horizon \in Nat \ {0}
    /\ LeaseLifetime \in Nat /\ LeaseLifetime - Horizon > Horizon
    /\ QuietPeriod \in Nat
    /\ MaxPermits \in Nat \ {0}
ASSUME AllowanceAssumption == MaxAllowance \in Nat /\ Allowances \subseteq 0..MaxAllowance
ASSUME BoundsAssumption == MaxTime \in Nat /\ MaxSequence \in Nat /\ MaxGeneration \in Nat
ASSUME SessionsAssumption == NoSession \notin Sessions

VARIABLES
    now,            \* the clock
    rate,           \* policy.PagesPerSecond
    generation,     \* policyGeneration
    quietUntil, nextPermitAt, lastPermitAt,
    active,         \* activeSessions
    leases,         \* the last lease of each session
    waiting,        \* waitingRotation, oldest request first
    dispatchAt,     \* the time dispatchLocked works with, 0 when it is not running
    since,          \* history: generation of the last change to a finite rate
    granted,        \* history: the reservations of this process
    previous,       \* history: the reservations of earlier processes
    passed          \* history: sessions served while a request waited

timeVars == <<quietUntil, nextPermitAt, lastPermitAt>>
policyVars == <<rate, generation, since>>
sessionVars == <<active, leases, waiting, passed>>
historyVars == <<granted, previous>>
vars == <<now, dispatchAt, timeVars, policyVars, sessionVars, historyVars>>

-----------------------------------------------------------------------------
Identity == Workers \X Sessions

(* fleetFetchStartInterval: one second over the rate, rounded up.          *)
Interval(pps) == (Second + pps - 1) \div pps

Least(a, b) == IF a < b THEN a ELSE b
Greatest(a, b) == IF a > b THEN a ELSE b

Requests ==
    [id : Identity, sequence : Nat \ {0}, maximum : 1..MaxPermits, allowance : 0..MaxAllowance]

(* A lease as the schedule remembers it: enough to answer a retry.         *)
LeaseRecords ==
    [sequence : Nat \ {0}, permits : Nat \ {0}, first : Nat, expires : Nat, outstanding : BOOLEAN]

(* A reservation of the timeline: the first and the last permit's opening  *)
(* and the time the last window closes.                                    *)
Reservations ==
    [first : Nat, last : Nat, closes : Nat, expires : Nat, interval : Nat,
     allowance : Nat, generation : Nat, since : Nat]

WaitingIds == {waiting[i].id : i \in DOMAIN waiting}

Current(id) == active[id[1]] = id[2]

(* existingLeaseLocked: a lease is outstanding until it is completed or    *)
(* its deadline passes.                                                    *)
Outstanding(id) == id \in DOMAIN leases /\ leases[id].outstanding /\ leases[id].expires > now

(* Wrong: the sequence granted last may be granted again.                  *)
LastSequenceReopened(id) == IF id \in DOMAIN leases THEN leases[id].sequence - 1 ELSE 0

LastSequence(id) == IF id \in DOMAIN leases THEN leases[id].sequence ELSE 0

DropLease(id) == leases' = [x \in DOMAIN leases \ {id} |-> leases[x]]

(* removeWaitingLocked: a session has at most one request in the rotation. *)
RemoveWaiting(id) ==
    /\ IF id \in WaitingIds
       THEN \E i \in DOMAIN waiting :
               /\ waiting[i].id = id
               /\ waiting' = SubSeq(waiting, 1, i - 1) \o SubSeq(waiting, i + 1, Len(waiting))
       ELSE UNCHANGED waiting
    /\ passed' = [passed EXCEPT ![id] = {}]

Init ==
    /\ now = 1 /\ dispatchAt = 0
    /\ rate \in Rates /\ generation = 1 /\ since = 1
    /\ quietUntil = 1 + QuietPeriod /\ nextPermitAt = 0 /\ lastPermitAt = 0
    /\ active = [w \in Workers |-> NoSession]
    /\ leases = << >> /\ waiting = << >> /\ passed = [id \in Identity |-> {}]
    /\ granted = {} /\ previous = {}

-----------------------------------------------------------------------------
(* Sessions.                                                               *)

(* replaceSession: the stream of session s starts; what an earlier session *)
(* of the worker left behind goes.                                         *)
ReplaceSession(w, s) ==
    /\ dispatchAt = 0
    /\ active' = [active EXCEPT ![w] = s]
    /\ IF active[w] \notin {s, NoSession}
       THEN DropLease(<<w, active[w]>>) /\ RemoveWaiting(<<w, active[w]>>)
       ELSE UNCHANGED <<leases, waiting, passed>>
    /\ UNCHANGED <<now, dispatchAt, timeVars, policyVars, historyVars>>

(* DeactivateSession: the stream of session s ended.                       *)
DeactivateSession(w, s) ==
    /\ dispatchAt = 0
    /\ active[w] = s
    /\ active' = [active EXCEPT ![w] = NoSession]
    /\ DropLease(<<w, s>>)
    /\ RemoveWaiting(<<w, s>>)
    /\ UNCHANGED <<now, dispatchAt, timeVars, policyVars, historyVars>>

-----------------------------------------------------------------------------
(* Leases.                                                                 *)

(* Wrong: a new request goes to the front of the rotation.                 *)
PushedFront(request) == <<request>> \o waiting

(* waitingRotation.PushBack.                                               *)
Pushed(request) == Append(waiting, request)

(* Lease: a session asks for the permits of a sequence.  An older sequence *)
(* and a lease still outstanding are refused, the sequence granted last is *)
(* answered with the lease it got, and a session waits with one sequence   *)
(* at a time; none of these changes anything.  Otherwise the request joins *)
(* the rotation, unless a retry finds it there, and the rotation is served.*)
Lease(id, sequence, maximum, allowance) ==
    /\ dispatchAt = 0
    /\ Current(id)
    /\ sequence > LastSequence(id)
    /\ ~Outstanding(id)
    /\ \/ /\ id \notin WaitingIds
          /\ waiting' = Pushed([id |-> id, sequence |-> sequence,
                                maximum |-> maximum, allowance |-> allowance])
       \/ /\ \E i \in DOMAIN waiting : waiting[i].id = id /\ waiting[i].sequence = sequence
          /\ UNCHANGED waiting
    /\ dispatchAt' = now
    /\ UNCHANGED <<now, timeVars, policyVars, active, leases, passed, historyVars>>

(* nextLeaseLocked: where the next permit would open.                      *)
FirstPermitAt == Greatest(dispatchAt, Greatest(quietUntil, nextPermitAt))
LatestPermitAt == dispatchAt + Horizon
Available == rate = 0 \/ FirstPermitAt <= LatestPermitAt

(* The permits of a lease: as many as asked for and open by the horizon.   *)
Fits(permits, maximum, interval) ==
    /\ permits = 1 \/ FirstPermitAt + (permits - 1) * interval <= LatestPermitAt
    /\ permits = maximum \/ FirstPermitAt + permits * interval > LatestPermitAt

(* fleetFetchStartPermitWindowWidth.                                       *)
WindowWidth(interval, allowance) == Least(Horizon, interval) + allowance

(* Wrong: the widened part of the last window is not reserved.             *)
ReservedUntilInterval(last, interval, allowance) == last + interval

(* The next permit opens an interval after the last one, and not inside    *)
(* its window.                                                             *)
ReservedUntil(last, interval, allowance) ==
    last + Greatest(interval, WindowWidth(interval, allowance))

(* What a lease of that many permits reserves, whole last window included. *)
Reservation(permits, interval, allowance) ==
    LET last == FirstPermitAt + (permits - 1) * interval
    IN [first |-> FirstPermitAt, last |-> last,
        closes |-> last + WindowWidth(interval, allowance),
        expires |-> Greatest(dispatchAt + LeaseLifetime, ReservedUntil(last, interval, allowance)),
        interval |-> interval, allowance |-> allowance,
        generation |-> generation, since |-> since]

Grant(request, permits, first, expires) ==
    leases' = [x \in DOMAIN leases \cup {request.id} |->
                  IF x = request.id
                  THEN [sequence |-> request.sequence, permits |-> permits, first |-> first,
                        expires |-> expires, outstanding |-> TRUE]
                  ELSE leases[x]]

(* The oldest request leaves the rotation; the others saw it pass.         *)
ServeHead ==
    /\ waiting' = Tail(waiting)
    /\ passed' = [id \in Identity |->
                     IF id = Head(waiting).id THEN {}
                     ELSE IF id \in WaitingIds THEN passed[id] \cup {Head(waiting).id}
                     ELSE passed[id]]

(* dispatchLocked, one iteration: the request that waited longest gets the *)
(* next reservation.                                                       *)
DispatchFinite ==
    /\ dispatchAt # 0 /\ waiting # << >> /\ rate # 0 /\ Available
    /\ LET request == Head(waiting)
           interval == Interval(rate)
       IN \E permits \in 1..request.maximum :
             /\ Fits(permits, request.maximum, interval)
             /\ LET r == Reservation(permits, interval, request.allowance)
                IN /\ Grant(request, permits, r.first, r.expires)
                   /\ lastPermitAt' = r.last
                   /\ nextPermitAt' = ReservedUntil(r.last, interval, request.allowance)
                   /\ granted' = granted \cup {r}
    /\ ServeHead
    /\ UNCHANGED <<now, dispatchAt, quietUntil, policyVars, active, previous>>

(* Wrong: an unlimited lease without permits.                              *)
DispatchUnlimitedEmpty ==
    /\ dispatchAt # 0 /\ waiting # << >> /\ rate = 0
    /\ Grant(Head(waiting), 0, 0, dispatchAt + LeaseLifetime)
    /\ ServeHead
    /\ UNCHANGED <<now, dispatchAt, timeVars, policyVars, active, historyVars>>

(* The same at an unlimited rate: permits without windows.                 *)
DispatchUnlimited ==
    /\ dispatchAt # 0 /\ waiting # << >> /\ rate = 0
    /\ Grant(Head(waiting), Head(waiting).maximum, 0, dispatchAt + LeaseLifetime)
    /\ ServeHead
    /\ UNCHANGED <<now, dispatchAt, timeVars, policyVars, active, historyVars>>

DispatchEnd ==
    /\ dispatchAt # 0
    /\ waiting = << >> \/ ~Available
    /\ dispatchAt' = 0
    /\ UNCHANGED <<now, timeVars, policyVars, sessionVars, historyVars>>

(* Wrong: the quiet period is left out.                                    *)
RetryAtUnquieted == nextPermitAt - Horizon

(* retryAtLocked: when a request that has to wait is told to ask again.    *)
RetryAt == Greatest(quietUntil, nextPermitAt) - Horizon

(* CompleteLease: the crawler is done with a sequence.                     *)
CompleteLease(id) ==
    /\ dispatchAt = 0
    /\ Current(id)
    /\ id \in DOMAIN leases /\ leases[id].outstanding
    /\ leases' = [leases EXCEPT ![id].outstanding = FALSE]
    /\ UNCHANGED <<now, dispatchAt, timeVars, policyVars, active, waiting, passed, historyVars>>

-----------------------------------------------------------------------------
(* The rate, the clock and the process.                                    *)

(* Wrong: a finite rate may follow another without a gap.                  *)
MinimumNextPermitAtAnyTime(pps) == IF rate = 0 THEN now + Interval(pps) ELSE now

(* SetPagesPerSecond: permits of a new finite rate keep its distance from  *)
(* the last permit reserved before.                                        *)
MinimumNextPermitAt(pps) ==
    IF rate = 0 THEN now + Interval(pps)
    ELSE IF lastPermitAt # 0 THEN lastPermitAt + Interval(pps)
    ELSE now

SetPagesPerSecond(pps) ==
    /\ dispatchAt = 0
    /\ pps # rate
    /\ generation < MaxGeneration
    /\ rate' = pps
    /\ generation' = generation + 1
    /\ since' = IF rate = 0 THEN generation + 1 ELSE since
    /\ nextPermitAt' = IF pps = 0 THEN nextPermitAt
                       ELSE Greatest(nextPermitAt, MinimumNextPermitAt(pps))
    /\ dispatchAt' = now
    /\ UNCHANGED <<now, quietUntil, lastPermitAt, sessionVars, historyVars>>

Tick ==
    /\ now < MaxTime
    /\ now' = now + 1
    /\ UNCHANGED <<dispatchAt, timeVars, policyVars, sessionVars, historyVars>>

(* Wrong: the new schedule starts at once.                                 *)
RestartWithoutQuiet ==
    /\ rate' \in Rates /\ generation' = 1 /\ since' = 1
    /\ quietUntil' = now /\ nextPermitAt' = 0 /\ lastPermitAt' = 0
    /\ active' = [w \in Workers |-> NoSession]
    /\ leases' = << >> /\ waiting' = << >> /\ passed' = [id \in Identity |-> {}]
    /\ dispatchAt' = 0
    /\ previous' = previous \cup granted
    /\ granted' = {}
    /\ UNCHANGED now

(* The node stops and starts with a new schedule; crawlers may still hold  *)
(* the windows of the old one.                                             *)
Restart ==
    /\ rate' \in Rates /\ generation' = 1 /\ since' = 1
    /\ quietUntil' = now + QuietPeriod /\ nextPermitAt' = 0 /\ lastPermitAt' = 0
    /\ active' = [w \in Workers |-> NoSession]
    /\ leases' = << >> /\ waiting' = << >> /\ passed' = [id \in Identity |-> {}]
    /\ dispatchAt' = 0
    /\ previous' = previous \cup granted
    /\ granted' = {}
    /\ UNCHANGED now

Next ==
    \/ \E w \in Workers, s \in Sessions : ReplaceSession(w, s) \/ DeactivateSession(w, s)
    \/ \E id \in Identity, sequence \in 1..MaxSequence, maximum \in 1..MaxPermits,
          allowance \in Allowances : Lease(id, sequence, maximum, allowance)
    \/ DispatchFinite \/ DispatchUnlimited \/ DispatchEnd
    \/ \E id \in Identity : CompleteLease(id)
    \/ \E pps \in Rates : SetPagesPerSecond(pps)
    \/ Tick
    \/ Restart

Spec == Init /\ [][Next]_vars

-----------------------------------------------------------------------------
(* Properties.                                                             *)

TypeOK ==
    /\ now \in Nat \ {0} /\ dispatchAt \in Nat /\ dispatchAt <= now
    /\ rate \in Rates /\ generation \in Nat /\ since \in Nat
    /\ quietUntil \in Nat /\ nextPermitAt \in Nat /\ lastPermitAt \in Nat
    /\ active \in [Workers -> Sessions \cup {NoSession}]
    /\ DOMAIN leases \subseteq Identity /\ leases \in [DOMAIN leases -> LeaseRecords]
    /\ waiting \in Seq(Requests)
    /\ passed \in [Identity -> SUBSET Identity]
    /\ granted \subseteq Reservations
    /\ previous \subseteq Reservations

(* The windows reserved by one process never overlap, across sessions,     *)
(* batches of several permits, delivery allowances and rate changes: one   *)
(* lease's last window closes before the next lease's first one opens.     *)
ReservationsDisjoint ==
    \A a, b \in granted : a # b => a.closes <= b.first \/ b.closes <= a.first

(* The ceiling: permits open at least an interval apart, also around a     *)
(* change of one finite rate for another, where the slower rate counts.    *)
OpeningsSpaced ==
    \A a, b \in granted :
        a.first < b.first =>
            /\ b.first - a.last >= a.interval
            /\ a.generation >= b.since => b.first - a.last >= b.interval

(* What the quiet period of a restarted node is worth: no new permit opens *)
(* inside a window of the previous process, as long as the allowance of    *)
(* that window is no more than the quiet period exceeds two horizons.      *)
QuietCoversWindows ==
    \A a \in previous, b \in granted :
        a.allowance + 2 * Horizon <= QuietPeriod => a.closes <= b.first

(* Retries are idempotent: as long as a session lasts, its lease is only   *)
(* replaced by one of a later sequence, so a request repeated because its  *)
(* answer was lost never reserves twice.                                   *)
RetryReservesOnce ==
    [][\A id \in DOMAIN leases \cap DOMAIN leases' :
          \/ leases'[id].sequence > leases[id].sequence
          \/ leases'[id] = [leases[id] EXCEPT !.outstanding = leases'[id].outstanding]
      ]_vars

(* The rotation is fair: while a request waits, every other session is     *)
(* served at most once.                                                    *)
RotationFair ==
    [][\A id \in WaitingIds :
          (waiting # << >> /\ waiting' = Tail(waiting) /\ id # Head(waiting).id)
              => Head(waiting).id \notin passed[id]
      ]_vars

(* A request that is not served is told to come back later than now: the   *)
(* crawler takes any other delay for a protocol error.                     *)
RefusalNamesLaterTime ==
    [][dispatchAt # 0 /\ dispatchAt' = 0 /\ waiting' # << >> => RetryAt > dispatchAt]_vars
=============================================================================
