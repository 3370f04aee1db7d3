--------------------------- MODULE FetchStartProofs ---------------------------
(***************************************************************************)
(* Proofs about the fetch-start schedule, for every set of workers and     *)
(* sessions, every set of rates and every policy that                      *)
(* validFleetFetchStartPolicy accepts.                                     *)
(***************************************************************************)
EXTENDS FetchStartSchedule, TLAPS

-----------------------------------------------------------------------------
(* The interval of a finite rate is a positive number of time units.       *)
LEMMA IntervalPositive ==
    ASSUME NEW pps \in Rates, pps # 0
    PROVE  Interval(pps) \in Nat \ {0}
<1>1. pps \in Nat \ {0} /\ Second \in Nat \ {0}
  BY RatesAssumption, SecondAssumption
<1>2. Second + pps - 1 \in Nat /\ Second + pps - 1 >= pps
  BY <1>1
<1>3. (Second + pps - 1) \div pps \in Int
  BY <1>1, <1>2
<1>4. ASSUME NEW x \in Nat, x >= pps PROVE x \div pps >= 1
  BY <1>1, <1>4
<1> QED BY <1>1, <1>2, <1>3, <1>4 DEF Interval

(* What one iteration of the dispatch loop reserves: after everything       *)
(* reserved before and after the quiet period, within the horizon, and as  *)
(* a whole before the next permit.                                         *)
LEMMA ReservationFits ==
    ASSUME TypeOK, dispatchAt # 0, rate # 0, Available,
           NEW allowance \in 0..MaxAllowance,
           NEW maximum \in 1..MaxPermits, NEW permits \in 1..maximum,
           Fits(permits, maximum, Interval(rate))
    PROVE  LET interval == Interval(rate)
               r == Reservation(permits, interval, allowance)
               until == ReservedUntil(r.last, interval, allowance)
           IN /\ r \in Reservations
              /\ until \in Nat
              /\ r.first >= nextPermitAt /\ r.first >= quietUntil /\ r.first >= 1
              /\ r.first <= r.last /\ r.last <= now + Horizon
              /\ r.last + interval <= until /\ r.closes <= until
              /\ r.closes <= now + 2 * Horizon + allowance
              /\ r.interval = interval /\ r.allowance = allowance
              /\ r.generation = generation /\ r.since = since
<1> DEFINE interval == Interval(rate)
           r == Reservation(permits, interval, allowance)
           span == (permits - 1) * interval
<1>1. interval \in Nat \ {0}
  BY IntervalPositive DEF TypeOK
<1>2. /\ Horizon \in Nat \ {0} /\ LeaseLifetime \in Nat /\ MaxPermits \in Nat
      /\ MaxAllowance \in Nat
  BY PolicyAssumption, AllowanceAssumption
<1>3. /\ now \in Nat /\ dispatchAt \in Nat \ {0} /\ dispatchAt <= now
      /\ quietUntil \in Nat /\ nextPermitAt \in Nat
      /\ generation \in Nat /\ since \in Nat
  BY DEF TypeOK
<1>4. /\ FirstPermitAt \in Nat /\ FirstPermitAt >= dispatchAt
      /\ FirstPermitAt >= quietUntil /\ FirstPermitAt >= nextPermitAt
      /\ FirstPermitAt <= dispatchAt + Horizon
  BY <1>2, <1>3 DEF FirstPermitAt, Greatest, Available, LatestPermitAt
<1>5. permits \in Nat \ {0} /\ permits - 1 \in Nat
  BY <1>2
<1>6. span \in Nat
  BY <1>1, <1>5
<1>7. FirstPermitAt + span <= dispatchAt + Horizon
  <2>1. CASE permits = 1
    BY <2>1, <1>1, <1>4
  <2>2. CASE permits # 1
    BY <2>2 DEF Fits, LatestPermitAt
  <2> QED BY <2>1, <2>2
<1>8. /\ WindowWidth(interval, allowance) \in Nat
      /\ WindowWidth(interval, allowance) <= Horizon + allowance
  BY <1>1, <1>2 DEF WindowWidth, Least
<1>9. r.last = FirstPermitAt + span /\ r.last \in Nat
  BY <1>4, <1>6 DEF Reservation
<1>10. LET until == ReservedUntil(r.last, interval, allowance)
       IN /\ until \in Nat /\ r.last + interval <= until
          /\ r.last + WindowWidth(interval, allowance) <= until
  BY <1>1, <1>8, <1>9 DEF ReservedUntil, Greatest
<1> HIDE DEF interval, span
<1>11. /\ r.first = FirstPermitAt
       /\ r.closes = r.last + WindowWidth(interval, allowance)
       /\ r.expires = Greatest(dispatchAt + LeaseLifetime, ReservedUntil(r.last, interval, allowance))
       /\ r.interval = interval /\ r.allowance = allowance
       /\ r.generation = generation /\ r.since = since
  BY DEF Reservation
<1>12. r.expires \in Nat
  BY <1>2, <1>3, <1>10, <1>11 DEF Greatest
<1>13. r.closes \in Nat
  BY <1>8, <1>9, <1>11
<1>14. r \in Reservations
  <2>1. r = [first |-> r.first, last |-> r.last, closes |-> r.closes, expires |-> r.expires,
             interval |-> r.interval, allowance |-> r.allowance,
             generation |-> r.generation, since |-> r.since]
    BY DEF Reservation
  <2>2. r.first \in Nat /\ r.interval \in Nat /\ r.allowance \in Nat
        /\ r.generation \in Nat /\ r.since \in Nat
    BY <1>1, <1>2, <1>3, <1>4, <1>11
  <2> HIDE DEF r
  <2> QED BY <2>1, <2>2, <1>9, <1>12, <1>13 DEF Reservations
<1> HIDE DEF r
<1>15. /\ r.first >= nextPermitAt /\ r.first >= quietUntil /\ r.first >= 1
       /\ r.first <= r.last /\ r.last <= now + Horizon
       /\ r.closes <= now + 2 * Horizon + allowance
  BY <1>2, <1>3, <1>4, <1>6, <1>7, <1>8, <1>9, <1>11
<1> QED BY <1>10, <1>11, <1>14, <1>15 DEF interval, r

-----------------------------------------------------------------------------
(* Type correctness.                                                       *)

LEMMA RemoveWaitingTyped ==
    ASSUME TypeOK, NEW id \in Identity, RemoveWaiting(id)
    PROVE  waiting' \in Seq(Requests) /\ passed' \in [Identity -> SUBSET Identity]
<1>1. waiting \in Seq(Requests) /\ passed \in [Identity -> SUBSET Identity]
  BY DEF TypeOK
<1>2. passed' = [passed EXCEPT ![id] = {}]
  BY DEF RemoveWaiting
<1>3. waiting' \in Seq(Requests)
  <2>1. CASE UNCHANGED waiting
    BY <1>1, <2>1
  <2>2. CASE \E i \in DOMAIN waiting :
              waiting' = SubSeq(waiting, 1, i - 1) \o SubSeq(waiting, i + 1, Len(waiting))
    <3> DEFINE without(i) == SubSeq(waiting, 1, i - 1) \o SubSeq(waiting, i + 1, Len(waiting))
    <3>1. PICK i \in DOMAIN waiting : waiting' = without(i)
      BY <2>2
    <3>2. i \in 1..Len(waiting)
      BY <1>1
    <3>3. SubSeq(waiting, 1, i - 1) \in Seq(Requests)
      BY <1>1, <3>2
    <3>4. SubSeq(waiting, i + 1, Len(waiting)) \in Seq(Requests)
      BY <1>1, <3>2
    <3> QED BY <3>1, <3>3, <3>4
  <2> QED BY <2>1, <2>2 DEF RemoveWaiting
<1> QED BY <1>1, <1>2, <1>3

LEMMA DropLeaseTyped ==
    ASSUME TypeOK, NEW id, DropLease(id)
    PROVE  DOMAIN leases' \subseteq Identity /\ leases' \in [DOMAIN leases' -> LeaseRecords]
  BY DEF TypeOK, DropLease

(* The request at the head of the rotation is served.                      *)
LEMMA ServeHeadTyped ==
    ASSUME TypeOK, waiting # << >>, ServeHead
    PROVE  /\ Head(waiting) \in Requests
           /\ waiting' \in Seq(Requests)
           /\ passed' \in [Identity -> SUBSET Identity]
<1>1. waiting \in Seq(Requests) /\ passed \in [Identity -> SUBSET Identity]
  BY DEF TypeOK
<1>2. Head(waiting) \in Requests /\ Tail(waiting) \in Seq(Requests)
  BY <1>1
<1>3. Head(waiting).id \in Identity
  BY <1>2 DEF Requests
<1> QED BY <1>1, <1>2, <1>3 DEF ServeHead

LEMMA GrantTyped ==
    ASSUME TypeOK, NEW request \in Requests, NEW permits \in Nat \ {0},
           NEW first \in Nat, NEW expires \in Nat, Grant(request, permits, first, expires)
    PROVE  DOMAIN leases' \subseteq Identity /\ leases' \in [DOMAIN leases' -> LeaseRecords]
<1> DEFINE record == [sequence |-> request.sequence, permits |-> permits, first |-> first,
                      expires |-> expires, outstanding |-> TRUE]
<1>1. request.id \in Identity /\ request.sequence \in Nat \ {0}
  BY DEF Requests
<1>2. record \in LeaseRecords
  BY <1>1 DEF LeaseRecords
<1>3. DOMAIN leases \subseteq Identity /\ \A x \in DOMAIN leases : leases[x] \in LeaseRecords
  BY DEF TypeOK
<1>4. leases' = [x \in DOMAIN leases \cup {request.id} |->
                    IF x = request.id THEN record ELSE leases[x]]
  BY DEF Grant
<1> HIDE DEF record
<1> QED BY <1>1, <1>2, <1>3, <1>4

LEMMA TypeInit == Init => TypeOK
  BY PolicyAssumption DEF Init, TypeOK

LEMMA TypeStep == TypeOK /\ [Next]_vars => TypeOK'
<1> SUFFICES ASSUME TypeOK, [Next]_vars PROVE TypeOK'
  OBVIOUS
<1> USE DEF timeVars, policyVars, sessionVars, historyVars
<1>1. CASE UNCHANGED vars
  BY <1>1 DEF vars, TypeOK
<1>2. ASSUME NEW w \in Workers, NEW s \in Sessions, ReplaceSession(w, s) PROVE TypeOK'
  <2>1. CASE active[w] \notin {s, NoSession}
    <3>1. <<w, active[w]>> \in Identity
      BY <2>1 DEF TypeOK, Identity
    <3>2. /\ waiting' \in Seq(Requests) /\ passed' \in [Identity -> SUBSET Identity]
          /\ DOMAIN leases' \subseteq Identity /\ leases' \in [DOMAIN leases' -> LeaseRecords]
      BY <1>2, <2>1, <3>1, RemoveWaitingTyped, DropLeaseTyped DEF ReplaceSession
    <3> QED BY <1>2, <3>2 DEF ReplaceSession, TypeOK
  <2>2. CASE active[w] \in {s, NoSession}
    BY <1>2, <2>2 DEF ReplaceSession, TypeOK
  <2> QED BY <2>1, <2>2
<1>3. ASSUME NEW w \in Workers, NEW s \in Sessions, DeactivateSession(w, s) PROVE TypeOK'
  <2>1. <<w, s>> \in Identity
    BY DEF Identity
  <2>2. /\ waiting' \in Seq(Requests) /\ passed' \in [Identity -> SUBSET Identity]
        /\ DOMAIN leases' \subseteq Identity /\ leases' \in [DOMAIN leases' -> LeaseRecords]
    BY <1>3, <2>1, RemoveWaitingTyped, DropLeaseTyped DEF DeactivateSession
  <2> QED BY <1>3, <2>2 DEF DeactivateSession, TypeOK
<1>4. ASSUME NEW id \in Identity, NEW sequence \in 1..MaxSequence,
             NEW maximum \in 1..MaxPermits, NEW allowance \in Allowances,
             Lease(id, sequence, maximum, allowance)
      PROVE  TypeOK'
  <2> DEFINE request == [id |-> id, sequence |-> sequence,
                         maximum |-> maximum, allowance |-> allowance]
  <2>1. request \in Requests
    BY AllowanceAssumption, BoundsAssumption DEF Requests
  <2>2. waiting' = Append(waiting, request) \/ waiting' = waiting
    BY <1>4 DEF Lease, Pushed
  <2> HIDE DEF request
  <2>3. waiting \in Seq(Requests)
    BY DEF TypeOK
  <2>4. waiting' \in Seq(Requests)
    BY <2>1, <2>2, <2>3
  <2> QED BY <1>4, <2>4 DEF Lease, TypeOK
<1>5. CASE DispatchFinite
  <2>1. /\ Head(waiting) \in Requests /\ waiting' \in Seq(Requests)
        /\ passed' \in [Identity -> SUBSET Identity]
    BY <1>5, ServeHeadTyped DEF DispatchFinite
  <2>2. PICK permits \in 1..Head(waiting).maximum :
           LET request == Head(waiting)
               interval == Interval(rate)
               r == Reservation(permits, interval, request.allowance)
           IN /\ Fits(permits, request.maximum, interval)
              /\ Grant(request, permits, r.first, r.expires)
              /\ lastPermitAt' = r.last
              /\ nextPermitAt' = ReservedUntil(r.last, interval, request.allowance)
              /\ granted' = granted \cup {r}
    BY <1>5 DEF DispatchFinite
  <2>3. /\ Head(waiting).maximum \in 1..MaxPermits
        /\ Head(waiting).allowance \in 0..MaxAllowance
    BY <2>1 DEF Requests
  <2> DEFINE r == Reservation(permits, Interval(rate), Head(waiting).allowance)
  <2>4. /\ r \in Reservations
        /\ ReservedUntil(r.last, Interval(rate), Head(waiting).allowance) \in Nat
    BY <1>5, <2>2, <2>3, ReservationFits DEF DispatchFinite
  <2>5. r.first \in Nat /\ r.last \in Nat /\ r.expires \in Nat
    BY <2>4 DEF Reservations
  <2> HIDE DEF r
  <2>6. permits \in Nat \ {0}
    BY <2>3, PolicyAssumption
  <2>7. Grant(Head(waiting), permits, r.first, r.expires)
    BY <2>2 DEF r
  <2>8. DOMAIN leases' \subseteq Identity /\ leases' \in [DOMAIN leases' -> LeaseRecords]
    BY <2>1, <2>5, <2>6, <2>7, GrantTyped
  <2>9. nextPermitAt' \in Nat /\ lastPermitAt' \in Nat /\ granted' \subseteq Reservations
    BY <2>2, <2>4, <2>5 DEF r, TypeOK
  <2> QED BY <1>5, <2>1, <2>8, <2>9 DEF DispatchFinite, TypeOK
<1>6. CASE DispatchUnlimited
  <2>1. /\ Head(waiting) \in Requests /\ waiting' \in Seq(Requests)
        /\ passed' \in [Identity -> SUBSET Identity]
    BY <1>6, ServeHeadTyped DEF DispatchUnlimited
  <2>2. Head(waiting).maximum \in 1..MaxPermits
    BY <2>1 DEF Requests
  <2>3. Head(waiting).maximum \in Nat \ {0} /\ dispatchAt + LeaseLifetime \in Nat
    <3>1. dispatchAt \in Nat /\ LeaseLifetime \in Nat /\ MaxPermits \in Nat
      BY PolicyAssumption DEF TypeOK
    <3> QED BY <2>2, <3>1
  <2>4. DOMAIN leases' \subseteq Identity /\ leases' \in [DOMAIN leases' -> LeaseRecords]
    BY <1>6, <2>1, <2>3, GrantTyped DEF DispatchUnlimited
  <2> QED BY <1>6, <2>1, <2>4 DEF DispatchUnlimited, TypeOK
<1>7. CASE DispatchEnd
  BY <1>7 DEF DispatchEnd, TypeOK
<1>8. ASSUME NEW id \in Identity, CompleteLease(id) PROVE TypeOK'
  <2>1. DOMAIN leases' \subseteq Identity /\ leases' \in [DOMAIN leases' -> LeaseRecords]
    BY <1>8 DEF CompleteLease, TypeOK, LeaseRecords
  <2> QED BY <1>8, <2>1 DEF CompleteLease, TypeOK
<1>9. ASSUME NEW pps \in Rates, SetPagesPerSecond(pps) PROVE TypeOK'
  <2>1. pps # 0 => Interval(pps) \in Nat
    BY IntervalPositive
  <2>2. nextPermitAt' \in Nat
    BY <1>9, <2>1 DEF SetPagesPerSecond, MinimumNextPermitAt, Greatest, TypeOK
  <2> QED BY <1>9, <2>2 DEF SetPagesPerSecond, TypeOK
<1>10. CASE Tick
  BY <1>10 DEF Tick, TypeOK
<1>11. CASE Restart
  BY <1>11, PolicyAssumption DEF Restart, TypeOK
<1> QED
  BY <1>1, <1>2, <1>3, <1>4, <1>5, <1>6, <1>7, <1>8, <1>9, <1>10, <1>11 DEF Next

(* Every value the schedule keeps has its type.                            *)
THEOREM ScheduleTypeCorrect == Spec => []TypeOK
  BY TypeInit, TypeStep, PTL DEF Spec
-----------------------------------------------------------------------------
(* The timeline.  Everything reserved lies before nextPermitAt, by an       *)
(* interval of its own rate and, unless an unlimited rate came between, by *)
(* an interval of the present rate; lastPermitAt is the latest opening.    *)

BeforeNextPermit(a) ==
    /\ 1 <= a.first /\ a.first <= a.last
    /\ a.closes <= nextPermitAt
    /\ a.last + a.interval <= nextPermitAt
    /\ a.last <= lastPermitAt

PresentRateKept(a) ==
    /\ a.generation <= generation
    /\ (rate # 0 /\ a.generation >= since) => a.last + Interval(rate) <= nextPermitAt

Timeline ==
    /\ since <= generation
    /\ \A a \in granted : BeforeNextPermit(a) /\ PresentRateKept(a)
    /\ ReservationsDisjoint
    /\ OpeningsSpaced

LEMMA TimelineInit == Init => Timeline
  BY DEF Init, Timeline, ReservationsDisjoint, OpeningsSpaced

(* A new reservation goes behind all the others.                           *)
LEMMA TimelineDispatch ==
    ASSUME TypeOK, Timeline, DispatchFinite
    PROVE  Timeline'
<1>1. PICK permits \in 1..Head(waiting).maximum :
         LET request == Head(waiting)
             interval == Interval(rate)
             r == Reservation(permits, interval, request.allowance)
         IN /\ Fits(permits, request.maximum, interval)
            /\ lastPermitAt' = r.last
            /\ nextPermitAt' = ReservedUntil(r.last, interval, request.allowance)
            /\ granted' = granted \cup {r}
  BY DEF DispatchFinite
<1>2. Head(waiting) \in Requests
  BY ServeHeadTyped DEF DispatchFinite
<1>3. /\ Head(waiting).maximum \in 1..MaxPermits
      /\ Head(waiting).allowance \in 0..MaxAllowance
  BY <1>2 DEF Requests
<1> DEFINE r == Reservation(permits, Interval(rate), Head(waiting).allowance)
<1>4. /\ r \in Reservations /\ nextPermitAt' \in Nat
      /\ r.first >= nextPermitAt /\ r.first >= 1
      /\ r.first <= r.last /\ lastPermitAt' = r.last
      /\ r.last + Interval(rate) <= nextPermitAt' /\ r.closes <= nextPermitAt'
      /\ r.interval = Interval(rate)
      /\ r.generation = generation /\ r.since = since
  BY <1>1, <1>3, ReservationFits DEF DispatchFinite
<1>5. granted' = granted \cup {r}
  BY <1>1
<1> HIDE DEF r
<1>6. UNCHANGED <<rate, generation, since>> /\ rate # 0
  BY DEF DispatchFinite, policyVars
<1>7. /\ nextPermitAt \in Nat /\ lastPermitAt \in Nat /\ generation \in Nat /\ since \in Nat
      /\ granted \subseteq Reservations /\ rate \in Rates
  BY DEF TypeOK
<1>8. Interval(rate) \in Nat \ {0} /\ Interval(rate)' = Interval(rate)
  BY <1>6, <1>7, IntervalPositive DEF Interval
<1>9. ASSUME NEW a \in Reservations
      PROVE  /\ a.first \in Nat /\ a.last \in Nat /\ a.closes \in Nat /\ a.interval \in Nat
             /\ a.generation \in Nat /\ a.since \in Nat
  BY DEF Reservations
<1>10. ASSUME NEW a \in granted
       PROVE  /\ 1 <= a.first /\ a.first <= a.last /\ a.closes <= nextPermitAt
              /\ a.last + a.interval <= nextPermitAt /\ a.last <= lastPermitAt
              /\ a.generation <= generation
              /\ a.generation >= since => a.last + Interval(rate) <= nextPermitAt
  BY <1>6 DEF Timeline, BeforeNextPermit, PresentRateKept
<1>11. ASSUME NEW a \in granted' PROVE BeforeNextPermit(a)' /\ PresentRateKept(a)'
  <2>1. CASE a = r
    BY <2>1, <1>4, <1>6, <1>7, <1>8, <1>9 DEF BeforeNextPermit, PresentRateKept
  <2>2. CASE a \in granted
    <3>1. nextPermitAt <= nextPermitAt' /\ a.last <= lastPermitAt'
      BY <2>2, <1>4, <1>7, <1>8, <1>9, <1>10
    <3> QED
      BY <2>2, <3>1, <1>4, <1>6, <1>7, <1>8, <1>9, <1>10 DEF BeforeNextPermit, PresentRateKept
  <2> QED BY <1>5, <2>1, <2>2
<1>12. ReservationsDisjoint'
  <2> SUFFICES ASSUME NEW a \in granted', NEW b \in granted', a # b
               PROVE  a.closes <= b.first \/ b.closes <= a.first
    BY DEF ReservationsDisjoint
  <2>1. CASE a \in granted /\ b \in granted
    BY <2>1 DEF Timeline, ReservationsDisjoint
  <2>2. CASE a \in granted /\ b = r
    BY <2>2, <1>4, <1>7, <1>9, <1>10
  <2>3. CASE a = r /\ b \in granted
    BY <2>3, <1>4, <1>7, <1>9, <1>10
  <2> QED BY <1>5, <2>1, <2>2, <2>3
<1>13. OpeningsSpaced'
  <2> SUFFICES ASSUME NEW a \in granted', NEW b \in granted', a.first < b.first
               PROVE  /\ b.first - a.last >= a.interval
                      /\ a.generation >= b.since => b.first - a.last >= b.interval
    BY DEF OpeningsSpaced
  <2>1. CASE a \in granted /\ b \in granted
    BY <2>1 DEF Timeline, OpeningsSpaced
  <2>2. CASE a \in granted /\ b = r
    BY <2>2, <1>4, <1>7, <1>8, <1>9, <1>10
  <2>3. CASE a = r /\ b \in granted
    BY <2>3, <1>4, <1>7, <1>9, <1>10
  <2>4. CASE a = r /\ b = r
    BY <2>4, <1>4, <1>9
  <2> QED BY <1>5, <2>1, <2>2, <2>3, <2>4
<1> QED BY <1>6, <1>11, <1>12, <1>13 DEF Timeline

(* A new rate moves the next permit away from the last one reserved.       *)
LEMMA TimelineRate ==
    ASSUME TypeOK, Timeline, NEW pps \in Rates, SetPagesPerSecond(pps)
    PROVE  Timeline'
<1>1. /\ nextPermitAt \in Nat /\ lastPermitAt \in Nat /\ generation \in Nat /\ since \in Nat
      /\ granted \subseteq Reservations /\ rate \in Rates /\ now \in Nat
  BY DEF TypeOK
<1>2. /\ UNCHANGED <<granted, lastPermitAt>> /\ rate' = pps /\ generation' = generation + 1
      /\ since' = IF rate = 0 THEN generation + 1 ELSE since
      /\ nextPermitAt' = IF pps = 0 THEN nextPermitAt
                         ELSE Greatest(nextPermitAt, MinimumNextPermitAt(pps))
  BY DEF SetPagesPerSecond, historyVars
<1>3. pps # 0 => Interval(pps) \in Nat \ {0}
  BY IntervalPositive
<1>4. Interval(rate)' = Interval(pps)
  BY <1>2 DEF Interval
<1>5. /\ nextPermitAt' \in Nat /\ nextPermitAt <= nextPermitAt'
      /\ pps # 0 /\ rate # 0 /\ lastPermitAt # 0 => lastPermitAt + Interval(pps) <= nextPermitAt'
  BY <1>1, <1>2, <1>3 DEF Greatest, MinimumNextPermitAt
<1>6. ASSUME NEW a \in granted PROVE BeforeNextPermit(a)' /\ PresentRateKept(a)'
  <2>1. /\ a.first \in Nat /\ a.last \in Nat /\ a.closes \in Nat /\ a.interval \in Nat
        /\ a.generation \in Nat
    BY <1>1 DEF Reservations
  <2>2. /\ 1 <= a.first /\ a.first <= a.last /\ a.closes <= nextPermitAt
        /\ a.last + a.interval <= nextPermitAt /\ a.last <= lastPermitAt
        /\ a.generation <= generation
    BY DEF Timeline, BeforeNextPermit, PresentRateKept
  <2>3. BeforeNextPermit(a)'
    BY <2>1, <2>2, <1>1, <1>2, <1>5 DEF BeforeNextPermit
  <2>4. PresentRateKept(a)'
    BY <2>1, <2>2, <1>1, <1>2, <1>3, <1>4, <1>5 DEF PresentRateKept
  <2> QED BY <2>3, <2>4
<1>7. since' <= generation'
  BY <1>1, <1>2 DEF Timeline
<1>8. ReservationsDisjoint' /\ OpeningsSpaced'
  BY <1>2 DEF Timeline, ReservationsDisjoint, OpeningsSpaced
<1> QED BY <1>2, <1>6, <1>7, <1>8 DEF Timeline

LEMMA TimelineStep == TypeOK /\ Timeline /\ [Next]_vars => Timeline'
<1> SUFFICES ASSUME TypeOK, Timeline, [Next]_vars PROVE Timeline'
  OBVIOUS
<1> USE DEF timeVars, policyVars, historyVars
<1>1. ASSUME UNCHANGED <<timeVars, policyVars, historyVars>> PROVE Timeline'
  BY <1>1 DEF Timeline, BeforeNextPermit, PresentRateKept, Interval,
              ReservationsDisjoint, OpeningsSpaced
<1>2. CASE Restart
  BY <1>2 DEF Restart, Timeline, ReservationsDisjoint, OpeningsSpaced
<1> QED
  BY <1>1, <1>2, TimelineDispatch, TimelineRate
  DEF Next, vars, ReplaceSession, DeactivateSession, Lease, DispatchUnlimited, DispatchEnd,
      CompleteLease, Tick

(* Within one process the windows of two leases never overlap, for every   *)
(* policy, any number of sessions, permits and rate changes.               *)
THEOREM WindowsDisjoint == Spec => []ReservationsDisjoint
<1>1. Init => TypeOK /\ Timeline
  BY TypeInit, TimelineInit
<1>2. TypeOK /\ Timeline /\ [Next]_vars => (TypeOK /\ Timeline)'
  BY TypeStep, TimelineStep
<1>3. TypeOK /\ Timeline => ReservationsDisjoint
  BY DEF Timeline
<1> QED BY <1>1, <1>2, <1>3, PTL DEF Spec

(* The fleet never exceeds its rate, also around rate changes.             *)
THEOREM RateCeiling == Spec => []OpeningsSpaced
<1>1. Init => TypeOK /\ Timeline
  BY TypeInit, TimelineInit
<1>2. TypeOK /\ Timeline /\ [Next]_vars => (TypeOK /\ Timeline)'
  BY TypeStep, TimelineStep
<1>3. TypeOK /\ Timeline => OpeningsSpaced
  BY DEF Timeline
<1> QED BY <1>1, <1>2, <1>3, PTL DEF Spec

-----------------------------------------------------------------------------
(* The quiet period.  No window closes more than two horizons and its      *)
(* allowance after now, so a window of an earlier process closes at most   *)
(* that much less the quiet period after quietUntil.                       *)

Quiet ==
    /\ quietUntil <= now + QuietPeriod
    /\ \A a \in granted : a.closes <= now + 2 * Horizon + a.allowance /\ quietUntil <= a.first
    /\ \A a \in previous : a.closes + QuietPeriod <= quietUntil + a.allowance + 2 * Horizon

LEMMA QuietInit == Init => Quiet
  BY PolicyAssumption DEF Init, Quiet

LEMMA QuietStep == TypeOK /\ Quiet /\ [Next]_vars => Quiet'
<1> SUFFICES ASSUME TypeOK, Quiet, [Next]_vars PROVE Quiet'
  OBVIOUS
<1> USE DEF timeVars, policyVars, historyVars
<1>1. /\ Horizon \in Nat /\ QuietPeriod \in Nat /\ now \in Nat /\ quietUntil \in Nat
      /\ granted \subseteq Reservations /\ previous \subseteq Reservations
  BY PolicyAssumption DEF TypeOK
<1>2. ASSUME NEW a \in Reservations
      PROVE  a.first \in Nat /\ a.closes \in Nat /\ a.allowance \in Nat
  BY DEF Reservations
<1>3. CASE UNCHANGED <<now, quietUntil, historyVars>>
  BY <1>3 DEF Quiet
<1>4. CASE Tick
  <2>1. now' = now + 1 /\ UNCHANGED <<quietUntil, granted, previous>>
    BY <1>4 DEF Tick
  <2> QED BY <2>1, <1>1, <1>2 DEF Quiet
<1>5. CASE DispatchFinite
  <2>1. PICK permits \in 1..Head(waiting).maximum :
           LET request == Head(waiting)
               interval == Interval(rate)
           IN /\ Fits(permits, request.maximum, interval)
              /\ granted' = granted \cup {Reservation(permits, interval, request.allowance)}
    BY <1>5 DEF DispatchFinite
  <2>2. Head(waiting) \in Requests
    BY <1>5, ServeHeadTyped DEF DispatchFinite
  <2>3. /\ Head(waiting).maximum \in 1..MaxPermits
        /\ Head(waiting).allowance \in 0..MaxAllowance
    BY <2>2 DEF Requests
  <2> DEFINE r == Reservation(permits, Interval(rate), Head(waiting).allowance)
  <2>4. /\ r.closes <= now + 2 * Horizon + r.allowance /\ r.first >= quietUntil
        /\ r \in Reservations
    BY <1>5, <2>1, <2>3, ReservationFits DEF DispatchFinite
  <2>5. granted' = granted \cup {r} /\ UNCHANGED <<now, quietUntil, previous>>
    BY <1>5, <2>1 DEF DispatchFinite
  <2> HIDE DEF r
  <2> QED BY <2>4, <2>5, <1>1, <1>2 DEF Quiet
<1>6. CASE Restart
  <2>1. /\ now' = now /\ quietUntil' = now + QuietPeriod
        /\ granted' = {} /\ previous' = previous \cup granted
    BY <1>6 DEF Restart
  <2>2. ASSUME NEW a \in previous'
        PROVE  a.closes + QuietPeriod <= quietUntil' + a.allowance + 2 * Horizon
    <3>1. CASE a \in previous
      BY <3>1, <2>1, <1>1, <1>2 DEF Quiet
    <3>2. CASE a \in granted
      BY <3>2, <2>1, <1>1, <1>2 DEF Quiet
    <3> QED BY <2>1, <3>1, <3>2
  <2> QED BY <2>1, <2>2, <1>1 DEF Quiet
<1> QED
  BY <1>3, <1>4, <1>5, <1>6
  DEF Next, vars, ReplaceSession, DeactivateSession, Lease, DispatchUnlimited, DispatchEnd,
      CompleteLease, SetPagesPerSecond

(* After a restart no permit opens inside a window of an earlier process,  *)
(* for the windows whose allowance the quiet period is long enough for.    *)
THEOREM QuietPeriodCovers == Spec => []QuietCoversWindows
<1>1. Init => TypeOK /\ Quiet
  BY TypeInit, QuietInit
<1>2. TypeOK /\ Quiet /\ [Next]_vars => (TypeOK /\ Quiet)'
  BY TypeStep, QuietStep
<1>3. ASSUME TypeOK, Quiet PROVE QuietCoversWindows
  <2> SUFFICES ASSUME NEW a \in previous, NEW b \in granted,
                      a.allowance + 2 * Horizon <= QuietPeriod
               PROVE  a.closes <= b.first
    BY DEF QuietCoversWindows
  <2>1. Horizon \in Nat /\ QuietPeriod \in Nat /\ quietUntil \in Nat
    BY PolicyAssumption, <1>3 DEF TypeOK
  <2>2. a \in Reservations /\ b \in Reservations
    BY <1>3 DEF TypeOK
  <2>3. a.closes \in Nat /\ a.allowance \in Nat /\ b.first \in Nat
    BY <2>2 DEF Reservations
  <2>4. /\ a.closes + QuietPeriod <= quietUntil + a.allowance + 2 * Horizon
        /\ quietUntil <= b.first
    BY <1>3 DEF Quiet
  <2> QED BY <2>1, <2>3, <2>4
<1> QED BY <1>1, <1>2, <1>3, PTL DEF Spec
-----------------------------------------------------------------------------
(* The rotation.  A session waits with one request, for a sequence after   *)
(* the one it was granted last.                                            *)

OneRequestEach == \A i, j \in DOMAIN waiting : waiting[i].id = waiting[j].id => i = j

Ahead(request) ==
    request.id \in DOMAIN leases => request.sequence > leases[request.id].sequence

Rotation == OneRequestEach /\ \A i \in DOMAIN waiting : Ahead(waiting[i])

(* What is left of the rotation when the request at one position is gone:  *)
(* `gap` is that position, or behind the end.                              *)
Behind(gap, k) == IF k < gap THEN k ELSE k + 1

Closed(gap) ==
    \A k \in DOMAIN waiting' :
        Behind(gap, k) \in DOMAIN waiting \ {gap} /\ waiting'[k] = waiting[Behind(gap, k)]

LEMMA RemoveWaitingCloses ==
    ASSUME TypeOK, NEW id \in Identity, RemoveWaiting(id)
    PROVE  \E gap \in Nat : Closed(gap)
<1>1. waiting \in Seq(Requests) /\ waiting' \in Seq(Requests)
  BY RemoveWaitingTyped DEF TypeOK
<1>2. CASE UNCHANGED waiting
  <2>1. Closed(Len(waiting) + 1)
    BY <1>1, <1>2 DEF Closed, Behind
  <2> QED BY <1>1, <2>1
<1>3. CASE \E i \in DOMAIN waiting :
            waiting' = SubSeq(waiting, 1, i - 1) \o SubSeq(waiting, i + 1, Len(waiting))
  <2> DEFINE front(i) == SubSeq(waiting, 1, i - 1)
             back(i) == SubSeq(waiting, i + 1, Len(waiting))
  <2>1. PICK i \in DOMAIN waiting : waiting' = front(i) \o back(i)
    BY <1>3
  <2>2. i \in 1..Len(waiting) /\ Len(waiting) \in Nat
    BY <1>1
  <2>3. /\ front(i) \in Seq(Requests) /\ Len(front(i)) = i - 1
        /\ \A k \in 1..(i - 1) : front(i)[k] = waiting[k]
    BY <1>1, <2>2
  <2>4. /\ back(i) \in Seq(Requests) /\ Len(back(i)) = Len(waiting) - i
        /\ \A k \in 1..(Len(waiting) - i) : back(i)[k] = waiting[i + k]
    BY <1>1, <2>2
  <2> HIDE DEF front, back
  <2>5. /\ Len(waiting') = Len(waiting) - 1
        /\ \A k \in 1..(Len(waiting) - 1) :
              waiting'[k] = IF k <= i - 1 THEN front(i)[k] ELSE back(i)[k - (i - 1)]
    BY <2>1, <2>2, <2>3, <2>4
  <2>6. DOMAIN waiting' = 1..(Len(waiting) - 1) /\ DOMAIN waiting = 1..Len(waiting)
    BY <1>1, <2>5
  <2>7. Closed(i)
    <3> SUFFICES ASSUME NEW k \in DOMAIN waiting'
                 PROVE  /\ Behind(i, k) \in DOMAIN waiting \ {i}
                        /\ waiting'[k] = waiting[Behind(i, k)]
      BY DEF Closed
    <3>1. k \in 1..(Len(waiting) - 1)
      BY <2>6
    <3>2. CASE k <= i - 1
      BY <3>1, <3>2, <2>2, <2>3, <2>5, <2>6 DEF Behind
    <3>3. CASE k > i - 1
      <4>1. k - (i - 1) \in 1..(Len(waiting) - i) /\ i + (k - (i - 1)) = k + 1
        BY <3>1, <3>3, <2>2
      <4>2. waiting'[k] = waiting[k + 1]
        BY <4>1, <3>1, <3>3, <2>2, <2>4, <2>5
      <4> QED BY <4>2, <3>1, <3>3, <2>2, <2>6 DEF Behind
    <3> QED BY <3>1, <3>2, <3>3, <2>2
  <2> QED BY <2>2, <2>7
<1> QED BY <1>2, <1>3 DEF RemoveWaiting

LEMMA ServeHeadCloses ==
    ASSUME TypeOK, waiting # << >>, ServeHead
    PROVE  Closed(1)
<1>1. waiting \in Seq(Requests)
  BY DEF TypeOK
<1>2. waiting' = Tail(waiting)
  BY DEF ServeHead
<1>3. /\ DOMAIN waiting' = 1..(Len(waiting) - 1) /\ DOMAIN waiting = 1..Len(waiting)
      /\ Len(waiting) \in Nat
      /\ \A k \in 1..(Len(waiting) - 1) : waiting'[k] = waiting[k + 1]
  BY <1>1, <1>2
<1> QED BY <1>3 DEF Closed, Behind

(* Closing a gap keeps the requests of distinct sessions distinct, and no  *)
(* request but those that were there before is left.                       *)
LEMMA ClosedKeeps ==
    ASSUME TypeOK, OneRequestEach, NEW gap \in Nat, Closed(gap), waiting' \in Seq(Requests)
    PROVE  /\ OneRequestEach'
           /\ \A k \in DOMAIN waiting' : \E i \in DOMAIN waiting \ {gap} : waiting'[k] = waiting[i]
<1>1. ASSUME NEW k \in DOMAIN waiting' PROVE k \in Nat
  OBVIOUS
<1>2. ASSUME NEW j \in DOMAIN waiting', NEW k \in DOMAIN waiting', waiting'[j].id = waiting'[k].id
      PROVE  j = k
  <2>1. Behind(gap, j) = Behind(gap, k)
    BY <1>2 DEF Closed, OneRequestEach
  <2> QED BY <1>1, <2>1 DEF Behind
<1>3. ASSUME NEW k \in DOMAIN waiting'
      PROVE  \E i \in DOMAIN waiting \ {gap} : waiting'[k] = waiting[i]
  BY DEF Closed
<1> QED BY <1>2, <1>3 DEF OneRequestEach

LEMMA RotationInit == Init => Rotation
  BY DEF Init, Rotation, OneRequestEach

(* A session leaves: its lease and its request go.                         *)
LEMMA RotationLeave ==
    ASSUME TypeOK, Rotation, NEW id \in Identity, DropLease(id), RemoveWaiting(id)
    PROVE  Rotation'
<1>1. waiting' \in Seq(Requests)
  BY RemoveWaitingTyped
<1>2. PICK gap \in Nat : Closed(gap)
  BY RemoveWaitingCloses
<1>3. /\ OneRequestEach'
      /\ \A k \in DOMAIN waiting' : \E i \in DOMAIN waiting : waiting'[k] = waiting[i]
  BY <1>1, <1>2, ClosedKeeps DEF Rotation
<1>4. ASSUME NEW i \in DOMAIN waiting PROVE Ahead(waiting[i])
  BY DEF Rotation
<1>5. DOMAIN leases' = DOMAIN leases \ {id} /\ \A x \in DOMAIN leases' : leases'[x] = leases[x]
  BY DEF DropLease
<1>6. ASSUME NEW k \in DOMAIN waiting' PROVE Ahead(waiting[k])'
  <2>1. PICK i \in DOMAIN waiting : waiting'[k] = waiting[i]
    BY <1>3
  <2> QED BY <2>1, <1>4, <1>5 DEF Ahead
<1> QED BY <1>3, <1>6 DEF Rotation

(* The oldest request is granted: it was the only one of its session.      *)
LEMMA RotationServe ==
    ASSUME TypeOK, Rotation, waiting # << >>, ServeHead, NEW permits, NEW first, NEW expires,
           Grant(Head(waiting), permits, first, expires)
    PROVE  /\ Rotation'
           /\ \A x \in DOMAIN leases : leases'[x] = leases[x] \/ leases'[x].sequence > leases[x].sequence
<1>1. waiting \in Seq(Requests) /\ waiting' \in Seq(Requests)
  BY ServeHeadTyped DEF TypeOK
<1>2. Head(waiting) = waiting[1] /\ 1 \in DOMAIN waiting
  BY <1>1
<1>3. Closed(1)
  BY ServeHeadCloses
<1>4. /\ OneRequestEach'
      /\ \A k \in DOMAIN waiting' : \E i \in DOMAIN waiting \ {1} : waiting'[k] = waiting[i]
  BY <1>1, <1>3, ClosedKeeps DEF Rotation
<1>5. /\ DOMAIN leases' = DOMAIN leases \cup {waiting[1].id}
      /\ leases'[waiting[1].id].sequence = waiting[1].sequence
      /\ \A x \in DOMAIN leases \ {waiting[1].id} : leases'[x] = leases[x]
  BY <1>2 DEF Grant
<1>6. ASSUME NEW k \in DOMAIN waiting' PROVE Ahead(waiting[k])'
  <2>1. PICK i \in DOMAIN waiting \ {1} : waiting'[k] = waiting[i]
    BY <1>4
  <2>2. waiting[i].id # waiting[1].id
    BY <2>1, <1>2 DEF Rotation, OneRequestEach
  <2>3. Ahead(waiting[i])
    BY DEF Rotation
  <2> QED BY <2>1, <2>2, <2>3, <1>5 DEF Ahead
<1>7. Ahead(waiting[1])
  BY <1>2 DEF Rotation
<1>8. \A x \in DOMAIN leases : leases'[x] = leases[x] \/ leases'[x].sequence > leases[x].sequence
  BY <1>5, <1>7 DEF Ahead
<1> QED BY <1>4, <1>6, <1>8 DEF Rotation

(* A request joins: the session had none, and none of this sequence before.*)
LEMMA RotationJoin ==
    ASSUME TypeOK, Rotation, NEW id \in Identity, NEW sequence \in 1..MaxSequence,
           NEW maximum \in 1..MaxPermits, NEW allowance \in Allowances,
           Lease(id, sequence, maximum, allowance)
    PROVE  Rotation'
<1> DEFINE request == [id |-> id, sequence |-> sequence,
                       maximum |-> maximum, allowance |-> allowance]
<1>1. leases' = leases /\ sequence > LastSequence(id)
  BY DEF Lease
<1>2. CASE UNCHANGED waiting
  BY <1>1, <1>2 DEF Rotation, OneRequestEach, Ahead
<1>3. CASE id \notin WaitingIds /\ waiting' = Append(waiting, request)
  <2>1. Ahead(request)
    BY <1>1 DEF Ahead, LastSequence
  <2>2. request.id = id
    OBVIOUS
  <2> HIDE DEF request
  <2>3. waiting \in Seq(Requests)
    BY DEF TypeOK
  <2>4. /\ DOMAIN waiting = 1..Len(waiting) /\ Len(waiting) \in Nat
        /\ DOMAIN waiting' = 1..(Len(waiting) + 1)
        /\ waiting'[Len(waiting) + 1] = request
        /\ \A k \in 1..Len(waiting) : waiting'[k] = waiting[k]
    BY <2>3, <1>3
  <2>5. \A k \in DOMAIN waiting' :
           \/ k \in DOMAIN waiting /\ waiting'[k] = waiting[k] /\ waiting[k].id # id
           \/ k = Len(waiting) + 1 /\ waiting'[k] = request
    BY <2>4, <1>3 DEF WaitingIds
  <2>6. OneRequestEach'
    BY <2>2, <2>5 DEF OneRequestEach, Rotation
  <2>7. ASSUME NEW k \in DOMAIN waiting' PROVE Ahead(waiting[k])'
    BY <2>1, <2>5, <1>1 DEF Ahead, Rotation
  <2> QED BY <2>6, <2>7 DEF Rotation
<1> QED BY <1>2, <1>3 DEF Lease, Pushed

LEMMA RotationStep == TypeOK /\ Rotation /\ [Next]_vars => Rotation'
<1> SUFFICES ASSUME TypeOK, Rotation, [Next]_vars PROVE Rotation'
  OBVIOUS
<1> USE DEF sessionVars
<1>1. CASE UNCHANGED <<leases, waiting>>
  BY <1>1 DEF Rotation, OneRequestEach, Ahead
<1>2. ASSUME NEW w \in Workers, NEW s \in Sessions, ReplaceSession(w, s) PROVE Rotation'
  <2>1. CASE active[w] \notin {s, NoSession}
    <3>1. <<w, active[w]>> \in Identity
      BY <2>1 DEF TypeOK, Identity
    <3> QED BY <1>2, <2>1, <3>1, RotationLeave DEF ReplaceSession
  <2>2. CASE active[w] \in {s, NoSession}
    BY <1>1, <1>2, <2>2 DEF ReplaceSession
  <2> QED BY <2>1, <2>2
<1>3. ASSUME NEW w \in Workers, NEW s \in Sessions, DeactivateSession(w, s) PROVE Rotation'
  <2>1. <<w, s>> \in Identity
    BY DEF Identity
  <2> QED BY <1>3, <2>1, RotationLeave DEF DeactivateSession
<1>4. CASE DispatchFinite
  <2>1. PICK permits, first, expires : Grant(Head(waiting), permits, first, expires)
    BY <1>4 DEF DispatchFinite
  <2> QED BY <1>4, <2>1, RotationServe DEF DispatchFinite
<1>5. CASE DispatchUnlimited
  BY <1>5, RotationServe DEF DispatchUnlimited
<1>6. ASSUME NEW id \in Identity, CompleteLease(id) PROVE Rotation'
  <2>1. /\ waiting' = waiting /\ DOMAIN leases' = DOMAIN leases
        /\ \A x \in DOMAIN leases : leases'[x].sequence = leases[x].sequence
    BY <1>6 DEF CompleteLease, TypeOK, LeaseRecords
  <2> QED BY <2>1 DEF Rotation, OneRequestEach, Ahead
<1>7. CASE Restart
  BY <1>7 DEF Restart, Rotation, OneRequestEach
<1> QED
  BY <1>1, <1>2, <1>3, <1>4, <1>5, <1>6, <1>7, RotationJoin
  DEF Next, vars, DispatchEnd, SetPagesPerSecond, Tick

(* A retry never reserves a second time: as long as a session lasts its    *)
(* lease is replaced only by one of a later sequence.                      *)
THEOREM RetriesIdempotent == Spec => RetryReservesOnce
<1> DEFINE Replaced(x) ==
        \/ leases'[x].sequence > leases[x].sequence
        \/ leases'[x] = [leases[x] EXCEPT !.outstanding = leases'[x].outstanding]
<1>1. Init => TypeOK /\ Rotation
  BY TypeInit, RotationInit
<1>2. TypeOK /\ Rotation /\ [Next]_vars => (TypeOK /\ Rotation)'
  BY TypeStep, RotationStep
<1>3. TypeOK /\ Rotation /\ [Next]_vars
        => [\A id \in DOMAIN leases \cap DOMAIN leases' : Replaced(id)]_vars
  <2> SUFFICES ASSUME TypeOK, Rotation, [Next]_vars, NEW x \in DOMAIN leases \cap DOMAIN leases'
               PROVE  Replaced(x)
    OBVIOUS
  <2>1. leases[x] \in LeaseRecords
    BY DEF TypeOK
  <2>2. ASSUME leases'[x] = leases[x] PROVE Replaced(x)
    BY <2>1, <2>2 DEF LeaseRecords
  <2>3. CASE UNCHANGED leases
    BY <2>2, <2>3
  <2>4. ASSUME NEW y, DropLease(y) PROVE Replaced(x)
    BY <2>2, <2>4 DEF DropLease
  <2>5. CASE DispatchFinite
    <3>1. PICK permits, first, expires : Grant(Head(waiting), permits, first, expires)
      BY <2>5 DEF DispatchFinite
    <3> QED BY <2>2, <2>5, <3>1, RotationServe DEF DispatchFinite
  <2>6. CASE DispatchUnlimited
    BY <2>2, <2>6, RotationServe DEF DispatchUnlimited
  <2>7. ASSUME NEW y \in Identity, CompleteLease(y) PROVE Replaced(x)
    BY <2>1, <2>7 DEF CompleteLease, LeaseRecords
  <2>8. CASE Restart
    BY <2>8 DEF Restart
  <2> HIDE DEF Replaced
  <2> QED
    BY <2>3, <2>4, <2>5, <2>6, <2>7, <2>8
    DEF Next, vars, sessionVars, ReplaceSession, DeactivateSession, Lease, DispatchEnd,
        SetPagesPerSecond, Tick
<1> QED BY <1>1, <1>2, <1>3, PTL DEF Spec, RetryReservesOnce
-----------------------------------------------------------------------------
(* Fairness of the rotation.  Whoever a waiting session saw pass has not   *)
(* come back ahead of it, and a session that does not wait has seen nobody *)
(* pass, so it joins behind everybody with a clean record.                 *)

NobodyPassedIsAhead ==
    \A i, j \in DOMAIN waiting : j < i => waiting[j].id \notin passed[waiting[i].id]

Fresh == \A id \in Identity : id \notin WaitingIds => passed[id] = {}

Fair == NobodyPassedIsAhead /\ Fresh

LEMMA FairInit == Init => Fair
  BY DEF Init, Fair, NobodyPassedIsAhead, Fresh

(* Requests that stay keep their order.                                    *)
LEMMA ClosedInOrder ==
    ASSUME TypeOK, NEW gap \in Nat, Closed(gap), waiting' \in Seq(Requests),
           NEW i \in DOMAIN waiting', NEW j \in DOMAIN waiting', j < i
    PROVE  Behind(gap, j) < Behind(gap, i)
<1>1. i \in Nat /\ j \in Nat
  OBVIOUS
<1> QED BY <1>1 DEF Behind

(* removeWaitingLocked takes the session's request out and no other.       *)
LEMMA RemoveWaitingLeavesOthers ==
    ASSUME TypeOK, NEW id \in Identity, RemoveWaiting(id),
           NEW i \in DOMAIN waiting, waiting[i].id # id
    PROVE  \E k \in DOMAIN waiting' : waiting'[k] = waiting[i]
<1>1. waiting \in Seq(Requests)
  BY DEF TypeOK
<1>2. CASE UNCHANGED waiting
  BY <1>2
<1>3. ASSUME NEW h \in DOMAIN waiting, waiting[h].id = id,
             waiting' = SubSeq(waiting, 1, h - 1) \o SubSeq(waiting, h + 1, Len(waiting))
      PROVE  \E k \in DOMAIN waiting' : waiting'[k] = waiting[i]
  <2> DEFINE front == SubSeq(waiting, 1, h - 1)
             back == SubSeq(waiting, h + 1, Len(waiting))
  <2>1. h \in 1..Len(waiting) /\ i \in 1..Len(waiting) /\ Len(waiting) \in Nat /\ i # h
    BY <1>1, <1>3
  <2>2. /\ front \in Seq(Requests) /\ Len(front) = h - 1
        /\ \A k \in 1..(h - 1) : front[k] = waiting[k]
    BY <1>1, <2>1
  <2>3. /\ back \in Seq(Requests) /\ Len(back) = Len(waiting) - h
        /\ \A k \in 1..(Len(waiting) - h) : back[k] = waiting[h + k]
    BY <1>1, <2>1
  <2>4. waiting' = front \o back
    BY <1>3
  <2> HIDE DEF front, back
  <2>5. /\ DOMAIN waiting' = 1..(Len(waiting) - 1)
        /\ \A k \in 1..(Len(waiting) - 1) :
              waiting'[k] = IF k <= h - 1 THEN front[k] ELSE back[k - (h - 1)]
    <3>1. /\ Len(waiting') = Len(front) + Len(back) /\ waiting' \in Seq(Requests)
          /\ \A k \in 1..(Len(front) + Len(back)) :
                waiting'[k] = IF k <= Len(front) THEN front[k] ELSE back[k - Len(front)]
      BY <2>2, <2>3, <2>4
    <3>2. Len(front) + Len(back) = Len(waiting) - 1 /\ Len(front) = h - 1
      BY <2>1, <2>2, <2>3
    <3>3. DOMAIN waiting' = 1..Len(waiting')
      BY <3>1
    <3> QED BY <3>1, <3>2, <3>3
  <2>6. CASE i < h
    BY <2>1, <2>2, <2>5, <2>6
  <2>7. CASE i > h
    <3>1. i - 1 \in 1..(Len(waiting) - 1) /\ ~(i - 1 <= h - 1)
      BY <2>1, <2>7
    <3>2. waiting'[i - 1] = back[i - h] /\ i - h \in 1..(Len(waiting) - h)
      <4>1. (i - 1) - (h - 1) = i - h
        BY <2>1
      <4> QED BY <2>1, <2>5, <2>7, <3>1, <4>1
    <3>3. back[i - h] = waiting[i]
      <4>1. h + (i - h) = i
        BY <2>1
      <4> QED BY <2>3, <3>2, <4>1
    <3> QED BY <2>5, <3>1, <3>2, <3>3
  <2> QED BY <2>1, <2>6, <2>7
<1> QED BY <1>2, <1>3 DEF RemoveWaiting

(* A session leaves the rotation; the others see nobody pass.              *)
LEMMA FairLeave ==
    ASSUME TypeOK, Fair, NEW id \in Identity, RemoveWaiting(id)
    PROVE  Fair'
<1>1. waiting' \in Seq(Requests) /\ waiting \in Seq(Requests)
  BY RemoveWaitingTyped DEF TypeOK
<1>2. PICK gap \in Nat : Closed(gap)
  BY RemoveWaitingCloses
<1>3. \A x \in Identity : passed'[x] = IF x = id THEN {} ELSE passed[x]
  BY DEF RemoveWaiting, TypeOK
<1>4. NobodyPassedIsAhead'
  <2> SUFFICES ASSUME NEW i \in DOMAIN waiting', NEW j \in DOMAIN waiting', j < i
               PROVE  waiting'[j].id \notin passed'[waiting'[i].id]
    BY DEF NobodyPassedIsAhead
  <2>1. PICK m \in DOMAIN waiting : m = Behind(gap, i) /\ waiting'[i] = waiting[m]
    BY <1>2 DEF Closed
  <2>2. PICK n \in DOMAIN waiting : n = Behind(gap, j) /\ waiting'[j] = waiting[n]
    BY <1>2 DEF Closed
  <2>3. n < m
    BY <1>1, <1>2, <2>1, <2>2, ClosedInOrder
  <2>4. waiting[n].id \notin passed[waiting[m].id]
    BY <2>3 DEF Fair, NobodyPassedIsAhead
  <2>5. waiting[m].id \in Identity
    <3>1. waiting[m] \in Requests
      BY <1>1
    <3> QED BY <3>1 DEF Requests
  <2> QED BY <1>3, <2>1, <2>2, <2>4, <2>5
<1>5. Fresh'
  <2> SUFFICES ASSUME NEW x \in Identity, x \notin WaitingIds' PROVE passed'[x] = {}
    BY DEF Fresh
  <2>1. CASE x = id
    BY <1>3, <2>1
  <2>2. CASE x # id
    <3>1. x \notin WaitingIds
      <4> SUFFICES ASSUME NEW i \in DOMAIN waiting, waiting[i].id = x PROVE FALSE
        BY DEF WaitingIds
      <4>1. PICK k \in DOMAIN waiting' : waiting'[k] = waiting[i]
        BY <2>2, RemoveWaitingLeavesOthers
      <4> QED BY <4>1 DEF WaitingIds
    <3> QED BY <1>3, <2>2, <3>1 DEF Fair, Fresh
  <2> QED BY <2>1, <2>2
<1> QED BY <1>4, <1>5 DEF Fair

(* The oldest request is served: it is out of the rotation when the others *)
(* write down that they saw it pass.                                       *)
LEMMA FairServe ==
    ASSUME TypeOK, OneRequestEach, Fair, waiting # << >>, ServeHead
    PROVE  Fair'
<1>1. waiting' \in Seq(Requests) /\ waiting \in Seq(Requests)
  BY ServeHeadTyped DEF TypeOK
<1>2. PICK h \in Requests : h = Head(waiting) /\ h = waiting[1] /\ 1 \in DOMAIN waiting
  BY <1>1
<1>3. h.id \in Identity
  BY DEF Requests
<1>4. /\ passed'[h.id] = {}
      /\ \A x \in WaitingIds \ {h.id} : x \in Identity => passed'[x] = passed[x] \cup {h.id}
      /\ \A x \in Identity \ WaitingIds : x # h.id => passed'[x] = passed[x]
  BY <1>2, <1>3 DEF ServeHead
<1>5. Closed(1)
  BY ServeHeadCloses
<1>6. /\ DOMAIN waiting' = 1..(Len(waiting) - 1) /\ DOMAIN waiting = 1..Len(waiting)
      /\ Len(waiting) \in Nat
      /\ \A k \in 1..(Len(waiting) - 1) : waiting'[k] = waiting[k + 1]
  <2>1. waiting' = Tail(waiting)
    BY DEF ServeHead
  <2> QED BY <1>1, <2>1
<1>7. \A k \in DOMAIN waiting \ {1} : waiting[k].id # h.id
  BY <1>2 DEF OneRequestEach
<1>8. NobodyPassedIsAhead'
  <2> SUFFICES ASSUME NEW i \in DOMAIN waiting', NEW j \in DOMAIN waiting', j < i
               PROVE  waiting'[j].id \notin passed'[waiting'[i].id]
    BY DEF NobodyPassedIsAhead
  <2>1. PICK m \in DOMAIN waiting \ {1} : m = i + 1 /\ waiting'[i] = waiting[m]
    BY <1>6
  <2>2. PICK n \in DOMAIN waiting \ {1} : n = j + 1 /\ waiting'[j] = waiting[n]
    BY <1>6
  <2>3. n < m
    BY <1>6, <2>1, <2>2
  <2>4. waiting[n].id \notin passed[waiting[m].id]
    BY <2>3 DEF Fair, NobodyPassedIsAhead
  <2>5. waiting[m].id \in Identity /\ waiting[m].id \in WaitingIds
    <3>1. waiting[m] \in Requests
      BY <1>1
    <3>2. waiting[m].id \in WaitingIds
      BY DEF WaitingIds
    <3> QED BY <3>1, <3>2 DEF Requests
  <2>6. waiting[n].id # h.id /\ waiting[m].id # h.id
    BY <1>7
  <2>7. passed'[waiting[m].id] = passed[waiting[m].id] \cup {h.id}
    BY <1>4, <2>5, <2>6
  <2> QED BY <2>1, <2>2, <2>4, <2>6, <2>7
<1>9. Fresh'
  <2> SUFFICES ASSUME NEW x \in Identity, x \notin WaitingIds' PROVE passed'[x] = {}
    BY DEF Fresh
  <2>1. CASE x = h.id
    BY <1>4, <2>1
  <2>2. CASE x # h.id
    <3>1. x \notin WaitingIds
      <4> SUFFICES ASSUME NEW i \in DOMAIN waiting, waiting[i].id = x PROVE FALSE
        BY DEF WaitingIds
      <4>1. i # 1
        BY <1>2, <2>2
      <4>2. i - 1 \in DOMAIN waiting' /\ waiting'[i - 1] = waiting[i]
        BY <1>6, <4>1
      <4> QED BY <4>2 DEF WaitingIds
    <3> QED BY <1>4, <2>2, <3>1 DEF Fair, Fresh
  <2> QED BY <2>1, <2>2
<1> QED BY <1>8, <1>9 DEF Fair

(* A request joins behind everybody, and its session has seen nobody pass. *)
LEMMA FairJoin ==
    ASSUME TypeOK, Fair, NEW id \in Identity, NEW sequence, NEW maximum, NEW allowance,
           Lease(id, sequence, maximum, allowance)
    PROVE  Fair'
<1>1. passed' = passed /\ waiting \in Seq(Requests)
  BY DEF Lease, TypeOK
<1>2. CASE UNCHANGED waiting
  BY <1>1, <1>2 DEF Fair, NobodyPassedIsAhead, Fresh, WaitingIds
<1>3. CASE id \notin WaitingIds /\ ~UNCHANGED waiting
  <2>1. PICK request : /\ request = [id |-> id, sequence |-> sequence,
                                     maximum |-> maximum, allowance |-> allowance]
                       /\ waiting' = Append(waiting, request)
    BY <1>3 DEF Lease, Pushed
  <2>2. request.id = id
    BY <2>1
  <2>3. /\ DOMAIN waiting = 1..Len(waiting) /\ Len(waiting) \in Nat
        /\ DOMAIN waiting' = 1..(Len(waiting) + 1)
        /\ waiting'[Len(waiting) + 1] = request
        /\ \A k \in 1..Len(waiting) : waiting'[k] = waiting[k]
    BY <1>1, <2>1
  <2>4. passed[id] = {}
    BY <1>3 DEF Fair, Fresh
  <2>5. NobodyPassedIsAhead'
    <3> SUFFICES ASSUME NEW i \in DOMAIN waiting', NEW j \in DOMAIN waiting', j < i
                 PROVE  waiting'[j].id \notin passed'[waiting'[i].id]
      BY DEF NobodyPassedIsAhead
    <3>1. CASE i = Len(waiting) + 1
      BY <1>1, <2>2, <2>3, <2>4, <3>1
    <3>2. CASE i # Len(waiting) + 1
      <4>1. /\ i \in DOMAIN waiting /\ j \in DOMAIN waiting
            /\ waiting'[i] = waiting[i] /\ waiting'[j] = waiting[j]
        BY <2>3, <3>2
      <4> QED BY <1>1, <4>1 DEF Fair, NobodyPassedIsAhead
    <3> QED BY <3>1, <3>2
  <2>6. Fresh'
    <3>1. WaitingIds \subseteq WaitingIds'
      <4>1. \A k \in DOMAIN waiting : k \in DOMAIN waiting' /\ waiting'[k] = waiting[k]
        BY <2>3
      <4> QED BY <4>1 DEF WaitingIds
    <3> QED BY <1>1, <3>1 DEF Fair, Fresh
  <2> QED BY <2>5, <2>6 DEF Fair
<1> QED BY <1>2, <1>3 DEF Lease

LEMMA FairStep ==
    ASSUME TypeOK, Rotation, Fair, [Next]_vars
    PROVE  Fair'
<1> USE DEF sessionVars
<1>1. CASE UNCHANGED <<waiting, passed>>
  BY <1>1 DEF Fair, NobodyPassedIsAhead, Fresh, WaitingIds
<1>2. ASSUME NEW w \in Workers, NEW s \in Sessions, ReplaceSession(w, s) PROVE Fair'
  <2>1. CASE active[w] \notin {s, NoSession}
    <3>1. <<w, active[w]>> \in Identity
      BY <2>1 DEF TypeOK, Identity
    <3> QED BY <1>2, <2>1, <3>1, FairLeave DEF ReplaceSession
  <2>2. CASE active[w] \in {s, NoSession}
    BY <1>1, <1>2, <2>2 DEF ReplaceSession
  <2> QED BY <2>1, <2>2
<1>3. ASSUME NEW w \in Workers, NEW s \in Sessions, DeactivateSession(w, s) PROVE Fair'
  <2>1. <<w, s>> \in Identity
    BY DEF Identity
  <2> QED BY <1>3, <2>1, FairLeave DEF DeactivateSession
<1>4. CASE DispatchFinite \/ DispatchUnlimited
  BY <1>4, FairServe DEF DispatchFinite, DispatchUnlimited, Rotation
<1>5. CASE Restart
  BY <1>5 DEF Restart, Fair, NobodyPassedIsAhead, Fresh
<1>6. ASSUME NEW id \in Identity, NEW sequence, NEW maximum, NEW allowance,
             Lease(id, sequence, maximum, allowance)
      PROVE  Fair'
  BY <1>6, FairJoin
<1> QED
  BY <1>1, <1>2, <1>3, <1>4, <1>5, <1>6
  DEF Next, vars, DispatchEnd, SetPagesPerSecond, Tick, CompleteLease

(* While a request waits, every other session is served at most once: no   *)
(* order of requests, departures, retries and rate changes lets a session  *)
(* overtake one that waits (dispatchLocked and waitingRotation).           *)
THEOREM NobodyOvertakenTwice == Spec => RotationFair
<1>1. Init => TypeOK /\ Rotation /\ Fair
  BY TypeInit, RotationInit, FairInit
<1>2. TypeOK /\ Rotation /\ Fair /\ [Next]_vars => (TypeOK /\ Rotation /\ Fair)'
  BY TypeStep, RotationStep, FairStep
<1>3. TypeOK /\ Rotation /\ Fair /\ [Next]_vars
        => [\A id \in WaitingIds :
               (waiting # << >> /\ waiting' = Tail(waiting) /\ id # Head(waiting).id)
                   => Head(waiting).id \notin passed[id]]_vars
  <2> SUFFICES ASSUME TypeOK, Fair, NEW id \in WaitingIds, waiting # << >>,
                      id # Head(waiting).id
               PROVE  Head(waiting).id \notin passed[id]
    OBVIOUS
  <2>1. waiting \in Seq(Requests)
    BY DEF TypeOK
  <2>2. PICK i \in DOMAIN waiting : waiting[i].id = id
    BY DEF WaitingIds
  <2>3. Head(waiting) = waiting[1] /\ 1 \in DOMAIN waiting /\ 1 < i
    BY <2>1, <2>2
  <2> QED BY <2>2, <2>3 DEF Fair, NobodyPassedIsAhead
<1> QED BY <1>1, <1>2, <1>3, PTL DEF Spec, RotationFair

(* A request that has to wait is told to come back at a time after now:    *)
(* the crawler's waitForPermit takes any other delay for a violation of    *)
(* the protocol (retryAtLocked against nextLeaseLocked).                   *)
THEOREM RefusalsNameLaterTimes == Spec => RefusalNamesLaterTime
<1>1. TypeOK /\ [Next]_vars
        => [dispatchAt # 0 /\ dispatchAt' = 0 /\ waiting' # << >> => RetryAt > dispatchAt]_vars
  <2> SUFFICES ASSUME TypeOK, [Next]_vars, dispatchAt # 0, dispatchAt' = 0, waiting' # << >>
               PROVE  RetryAt > dispatchAt
    OBVIOUS
  <2>1. DispatchEnd
    BY DEF Next, vars, TypeOK, ReplaceSession, DeactivateSession, Lease, DispatchFinite,
           DispatchUnlimited, CompleteLease, SetPagesPerSecond, Tick, Restart
  <2>2. ~Available /\ rate # 0
    BY <2>1 DEF DispatchEnd, Available, sessionVars
  <2>3. FirstPermitAt > LatestPermitAt
    BY <2>2, PolicyAssumption DEF Available, FirstPermitAt, LatestPermitAt, Greatest, TypeOK
  <2> QED BY <2>3, PolicyAssumption DEF FirstPermitAt, LatestPermitAt, RetryAt, Greatest, TypeOK
<1> QED BY <1>1, ScheduleTypeCorrect, PTL DEF Spec, RefusalNamesLaterTime
=============================================================================
