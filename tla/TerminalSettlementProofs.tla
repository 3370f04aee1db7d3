------------------------ MODULE TerminalSettlementProofs ------------------------
(***************************************************************************)
(* Theorems about the end of a crawl run, for every set of orders,         *)
(* crawlers, leases, snapshots and concurrent calls, and any number of     *)
(* restarts.                                                               *)
(***************************************************************************)
EXTENDS TerminalSettlement, TLAPS

-----------------------------------------------------------------------------
(* Types of what the theorems are about, and the functions the model is    *)
(* built from.                                                             *)

SettlementRecord == {Plain} \cup TerminalRecord
DeliveryRecord == [tally : Tallies, worker : Workers, confirmed : BOOLEAN]
RelayStages == {"idle", "waiting", "mark", "erase", "advance"}

NodeTypes ==
    /\ leases \in [DOMAIN leases -> LeaseRecord] /\ DOMAIN leases \subseteq LeaseIds
    /\ settlements \in [DOMAIN settlements -> SettlementRecord]
    /\ deliveries \in [DOMAIN deliveries -> DeliveryRecord]
    /\ acknowledged \subseteq Definitions

CallTypes == calls \in [DOMAIN calls -> CallRecord]

CrawlerTypes ==
    /\ outbox \in [DOMAIN outbox -> Row] /\ DOMAIN outbox \subseteq LeaseIds
    /\ session \in [Workers -> Sessions]
    /\ run \in [Workers -> [Orders -> LeaseIds \cup {None}]]
    /\ grants \in [Workers -> SUBSET LeaseIds]
    /\ relay \in [LeaseIds -> RelayStages]

Types == NodeTypes /\ CallTypes /\ CrawlerTypes

LEMMA DeleteFacts ==
    ASSUME NEW f, NEW k
    PROVE  /\ DOMAIN Delete(f, k) = DOMAIN f \ {k}
           /\ \A x \in DOMAIN f \ {k} : Delete(f, k)[x] = f[x]
BY DEF Delete

LEMMA DeleteTyped ==
    ASSUME NEW f, NEW k, NEW S, f \in [DOMAIN f -> S]
    PROVE  Delete(f, k) \in [DOMAIN Delete(f, k) -> S]
BY DEF Delete

LEMMA ExceptTyped ==
    ASSUME NEW f, NEW k \in DOMAIN f, NEW S, NEW v \in S, f \in [DOMAIN f -> S]
    PROVE  /\ [f EXCEPT ![k] = v] \in [DOMAIN f -> S]
           /\ DOMAIN [f EXCEPT ![k] = v] = DOMAIN f
           /\ [f EXCEPT ![k] = v][k] = v
           /\ \A x \in DOMAIN f \ {k} : [f EXCEPT ![k] = v][x] = f[x]
OBVIOUS

-----------------------------------------------------------------------------
(* What a step of one call does to the calls: it goes to step s, or is     *)
(* gone; the others stay.                                                  *)
CallGoes(k, s, delivered) ==
    /\ CallTypes'
    /\ DOMAIN calls' \subseteq DOMAIN calls
    /\ \A j \in DOMAIN calls' :
          /\ calls'[j].def = calls[j].def /\ calls'[j].awaited = calls[j].awaited
          /\ j # k => calls'[j] = calls[j]
          /\ j = k => calls'[j].step = s /\ calls'[j].delivered = delivered
    /\ s \in Answers /\ k \in DOMAIN calls' => calls[k].awaited

LEMMA ContinueGoes ==
    ASSUME CallTypes, NEW k \in DOMAIN calls, NEW s \in Steps, Continue(k, s)
    PROVE  CallGoes(k, s, calls[k].delivered)
<1>1. PICK c \in CallRecord : c = calls[k]
    BY DEF CallTypes
<1>2. PICK n \in CallRecord : n = [c EXCEPT !.step = s]
    BY DEF CallRecord
<1>3. n.def = c.def /\ n.awaited = c.awaited /\ n.delivered = c.delivered /\ n.step = s
    BY <1>2 DEF CallRecord
<1>4. calls' = [calls EXCEPT ![k] = n]
    BY <1>1, <1>2 DEF Continue
<1>5. s \notin Answers
    BY DEF Steps, Answers
<1> QED
    BY <1>1, <1>3, <1>4, <1>5 DEF CallGoes, CallTypes

LEMMA AnswerGoes ==
    ASSUME CallTypes, NEW k \in DOMAIN calls, NEW s \in Answers, Answer(k, s)
    PROVE  CallGoes(k, s, calls[k].delivered)
<1>1. PICK c \in CallRecord : c = calls[k]
    BY DEF CallTypes
<1>2. PICK n \in CallRecord : n = [c EXCEPT !.step = s]
    BY DEF CallRecord
<1>3. n.def = c.def /\ n.awaited = c.awaited /\ n.delivered = c.delivered /\ n.step = s
    BY <1>2 DEF CallRecord
<1>4. CASE c.awaited
    <2>1. calls' = [calls EXCEPT ![k] = n]
        BY <1>1, <1>2, <1>4 DEF Answer
    <2> QED
        BY <1>1, <1>3, <1>4, <2>1 DEF CallGoes, CallTypes
<1>5. CASE ~c.awaited
    <2>1. calls' = Delete(calls, k)
        BY <1>1, <1>5 DEF Answer
    <2>2. CallTypes'
        BY <2>1, DeleteTyped DEF CallTypes
    <2>3. DOMAIN calls' = DOMAIN calls \ {k} /\ \A j \in DOMAIN calls' : calls'[j] = calls[j]
        BY <2>1, DeleteFacts
    <2> QED
        BY <2>2, <2>3 DEF CallGoes
<1> QED
    BY <1>4, <1>5

(* A call that has been answered is read and gone.                         *)
CallRead(k) ==
    /\ CallTypes'
    /\ DOMAIN calls' = DOMAIN calls \ {k}
    /\ \A j \in DOMAIN calls' : calls'[j] = calls[j]

LEMMA DeleteReads ==
    ASSUME CallTypes, NEW k, calls' = Delete(calls, k)
    PROVE  CallRead(k)
BY DeleteTyped, DeleteFacts DEF CallRead, CallTypes

(* A new call.                                                             *)
CallSent(k, d, step) ==
    /\ CallTypes'
    /\ k \notin DOMAIN calls
    /\ DOMAIN calls' = DOMAIN calls \cup {k}
    /\ \A j \in DOMAIN calls : calls'[j] = calls[j]
    /\ calls'[k] = [def |-> d, step |-> step, delivered |-> FALSE, awaited |-> TRUE]

LEMMA SendSends ==
    ASSUME CallTypes, CrawlerTypes, NEW k, NEW d \in Definitions, NEW s \in Steps, Send(k, d, s)
    PROVE  /\ CallSent(k, d, s)
           /\ relay' = [relay EXCEPT ![d.lease] = "waiting"]
<1>1. PICK c \in CallRecord :
          c = [def |-> d, step |-> s, delivered |-> FALSE, awaited |-> TRUE]
    BY DEF CallRecord
<1>2. calls' = Put(calls, k, c) /\ k \notin DOMAIN calls
    BY <1>1 DEF Send
<1>3. CallSent(k, d, s)
    <2>1. CallTypes'
        BY <1>2 DEF CallTypes, Put
    <2>2. /\ DOMAIN calls' = DOMAIN calls \cup {k} /\ calls'[k] = c
          /\ \A j \in DOMAIN calls : calls'[j] = calls[j]
        BY <1>2 DEF Put
    <2> QED
        BY <1>1, <1>2, <2>1, <2>2 DEF CallSent
<1> QED
    BY <1>3 DEF Send

-----------------------------------------------------------------------------
(* Leases.  A lease is spent when it is gone or deferred: from then on     *)
(* nobody can settle it, and its identity is never given out again.        *)

Spent(l) == l \notin DOMAIN leases \/ leases[l].deferred

Belongs(l, w, o) ==
    /\ l \in issued
    /\ l \in DOMAIN leases => leases[l].worker = w /\ leases[l].order = o

(* What every step does to the leases: new ones have new identities, the   *)
(* others keep their order and their worker and stay deferred, and what is *)
(* still open belongs to the session it had or to the worker's present one.*)
LeasesFollow ==
    /\ issued \subseteq issued'
    /\ \A l \in DOMAIN leases' : l \in issued =>
          /\ l \in DOMAIN leases
          /\ leases'[l].worker = leases[l].worker /\ leases'[l].order = leases[l].order
          /\ leases[l].deferred => leases'[l].deferred
          /\ leases'[l].session \in {leases[l].session, session[leases[l].worker]}

LEMMA SpentStays ==
    ASSUME LeasesFollow, NEW l \in issued
    PROVE  /\ Spent(l) => Spent(l)'
           /\ ~Spent(l)' => ~Spent(l) /\ l \in DOMAIN leases /\ l \in DOMAIN leases'
           /\ \A w, o : Belongs(l, w, o) => Belongs(l, w, o)'
BY DEF LeasesFollow, Spent, Belongs

LEMMA LeaseMoves ==
    ASSUME NEW r \in LeaseRecord, NEW s \in Sessions
    PROVE  /\ [r EXCEPT !.session = s, !.live = TRUE] \in LeaseRecord
           /\ [r EXCEPT !.live = FALSE] \in LeaseRecord
           /\ [r EXCEPT !.deferred = TRUE] \in LeaseRecord
BY DEF LeaseRecord

LEMMA ConnectFollows ==
    ASSUME Types, NEW w \in Workers, Connect(w)
    PROVE  NodeTypes' /\ LeasesFollow /\ DOMAIN leases' = DOMAIN leases
<1>1. PICK s \in Sessions : s = session[w]
    BY DEF Types, CrawlerTypes
<1> DEFINE moved(l) == IF leases[l].worker = w /\ ~leases[l].deferred
                       THEN [leases[l] EXCEPT !.session = s, !.live = TRUE] ELSE leases[l]
<1>2. leases' = [l \in DOMAIN leases |-> moved(l)]
    BY <1>1 DEF Connect
<1>3. ASSUME NEW l \in DOMAIN leases
      PROVE  /\ moved(l) \in LeaseRecord
             /\ moved(l).worker = leases[l].worker /\ moved(l).order = leases[l].order
             /\ moved(l).deferred = leases[l].deferred
             /\ moved(l).session \in {leases[l].session, session[leases[l].worker]}
    <2>1. PICK r \in LeaseRecord : r = leases[l]
        BY DEF Types, NodeTypes
    <2>2. [r EXCEPT !.session = s, !.live = TRUE] \in LeaseRecord
        BY <2>1, LeaseMoves
    <2> QED
        BY <1>1, <2>1, <2>2 DEF LeaseRecord
<1> HIDE DEF moved
<1>4. leases' \in [DOMAIN leases' -> LeaseRecord] /\ DOMAIN leases' = DOMAIN leases
    BY <1>2, <1>3
<1>5. UNCHANGED <<issued, settlements, deliveries, acknowledged>>
    BY DEF Connect
<1> QED
    BY <1>2, <1>3, <1>4, <1>5 DEF Types, NodeTypes, LeasesFollow

LEMMA ClaimFollows ==
    ASSUME Types, DOMAIN leases \subseteq issued,
           NEW w \in Workers, NEW o \in Orders, NEW l \in LeaseIds, Claim(w, o, l)
    PROVE  /\ NodeTypes' /\ LeasesFollow
           /\ DOMAIN leases' = DOMAIN leases \cup {l} /\ issued' = issued \cup {l}
           /\ \A x \in DOMAIN leases : leases'[x] = leases[x]
           /\ leases'[l].order = o /\ leases'[l].worker = w /\ leases'[l].session = session[w]
<1>1. PICK r \in LeaseRecord : r = [order |-> o, worker |-> w, session |-> session[w],
                                  deferred |-> FALSE, live |-> TRUE]
    BY DEF LeaseRecord, Types, CrawlerTypes
<1>2. leases' = Put(leases, l, r) /\ l \notin issued /\ issued' = issued \cup {l}
    BY <1>1 DEF Claim
<1>3. leases' \in [DOMAIN leases' -> LeaseRecord]
    BY <1>2 DEF Types, NodeTypes, Put
<1>4. /\ DOMAIN leases' = DOMAIN leases \cup {l} /\ leases'[l] = r
      /\ \A x \in DOMAIN leases : leases'[x] = leases[x]
    BY <1>2 DEF Put
<1>5. UNCHANGED <<settlements, deliveries, acknowledged>>
    BY DEF Claim
<1>6. NodeTypes'
    BY <1>3, <1>4, <1>5 DEF Types, NodeTypes
<1>7. LeasesFollow
    <2>1. \A x \in DOMAIN leases' : x \in issued => x \in DOMAIN leases /\ leases'[x] = leases[x]
        BY <1>2, <1>4
    <2> QED
        BY <1>2, <2>1 DEF LeasesFollow
<1>8. r.order = o /\ r.worker = w /\ r.session = session[w]
    BY <1>1
<1> QED
    BY <1>2, <1>4, <1>6, <1>7, <1>8

LEMMA LapseFollows ==
    ASSUME Types, NEW l \in LeaseIds, Lapse(l)
    PROVE  /\ NodeTypes' /\ LeasesFollow /\ DOMAIN leases' = DOMAIN leases
<1>1. l \in DOMAIN leases
    BY DEF Lapse
<1>2. PICK r \in LeaseRecord : r = leases[l]
    BY <1>1 DEF Types, NodeTypes
<1>3. PICK n \in LeaseRecord : n = [r EXCEPT !.live = FALSE]
    BY DEF LeaseRecord
<1>4. n.order = r.order /\ n.worker = r.worker /\ n.deferred = r.deferred /\ n.session = r.session
    BY <1>3 DEF LeaseRecord
<1>5. leases' = [leases EXCEPT ![l] = n]
    BY <1>2, <1>3 DEF Lapse
<1>6. /\ leases' \in [DOMAIN leases' -> LeaseRecord] /\ DOMAIN leases' = DOMAIN leases
      /\ leases'[l] = n /\ \A x \in DOMAIN leases \ {l} : leases'[x] = leases[x]
    BY <1>1, <1>5, ExceptTyped DEF Types, NodeTypes
<1>7. UNCHANGED <<issued, settlements, deliveries, acknowledged>>
    BY DEF Lapse
<1> QED
    BY <1>2, <1>4, <1>6, <1>7 DEF Types, NodeTypes, LeasesFollow

(* A lease is given up: Sweep, the acknowledgment, and the end of a        *)
(* settlement that requeued it.                                            *)
LEMMA DeleteFollows ==
    ASSUME Types, NEW l, leases' = Delete(leases, l), UNCHANGED issued
    PROVE  /\ leases' \in [DOMAIN leases' -> LeaseRecord]
           /\ LeasesFollow /\ DOMAIN leases' = DOMAIN leases \ {l}
           /\ \A x \in DOMAIN leases' : leases'[x] = leases[x]
<1>1. /\ DOMAIN leases' = DOMAIN leases \ {l}
      /\ \A x \in DOMAIN leases' : leases'[x] = leases[x]
    BY DeleteFacts
<1>2. leases' \in [DOMAIN leases' -> LeaseRecord]
    BY DeleteTyped DEF Types, NodeTypes
<1> QED
    BY <1>1, <1>2 DEF LeasesFollow

LEMMA SweepFollows ==
    ASSUME Types, NEW l \in LeaseIds, Sweep(l)
    PROVE  /\ NodeTypes' /\ LeasesFollow /\ DOMAIN leases' = DOMAIN leases \ {l}
           /\ \A x \in DOMAIN leases' : leases'[x] = leases[x]
           /\ \A x \in DOMAIN settlements : x \in DOMAIN settlements' /\ settlements'[x] = settlements[x]
           /\ \A x \in DOMAIN settlements' \ DOMAIN settlements :
                 x = l /\ ~settlements'[x].terminal
<1>1. leases' = Delete(leases, l) /\ UNCHANGED <<issued, deliveries, acknowledged>>
    BY DEF Sweep
<1>2. /\ settlements' \in [DOMAIN settlements' -> SettlementRecord]
      /\ \A x \in DOMAIN settlements : x \in DOMAIN settlements' /\ settlements'[x] = settlements[x]
      /\ \A x \in DOMAIN settlements' \ DOMAIN settlements :
                 x = l /\ ~settlements'[x].terminal
    <2>1. CASE l \in DOMAIN settlements
        BY <2>1 DEF Sweep, Types, NodeTypes
    <2>2. CASE l \notin DOMAIN settlements
        <3>1. settlements' = Put(settlements, l, Plain) /\ Plain \in SettlementRecord
            BY <2>2 DEF Sweep, SettlementRecord
        <3>2. settlements' \in [DOMAIN settlements' -> SettlementRecord]
            BY <3>1 DEF Types, NodeTypes, Put
        <3>3. /\ DOMAIN settlements' = DOMAIN settlements \cup {l}
              /\ settlements'[l] = Plain
              /\ \A x \in DOMAIN settlements : settlements'[x] = settlements[x]
            BY <2>2, <3>1 DEF Put
        <3>4. ~Plain.terminal
            BY DEF Plain
        <3> QED
            BY <3>2, <3>3, <3>4
    <2> QED
        BY <2>1, <2>2
<1>3. /\ leases' \in [DOMAIN leases' -> LeaseRecord]
      /\ LeasesFollow /\ DOMAIN leases' = DOMAIN leases \ {l}
      /\ \A x \in DOMAIN leases' : leases'[x] = leases[x]
    BY <1>1, DeleteFollows
<1>4. NodeTypes'
    BY <1>1, <1>2, <1>3 DEF Types, NodeTypes
<1> QED
    BY <1>2, <1>3, <1>4

LEMMA DisposeFollows ==
    ASSUME Types, NEW d \in Definitions, d.lease \in DOMAIN leases, Dispose(d)
    PROVE  /\ NodeTypes' /\ LeasesFollow /\ Spent(d.lease)'
           /\ DOMAIN leases' \subseteq DOMAIN leases
           /\ \A x \in DOMAIN leases \ {d.lease} : x \in DOMAIN leases' /\ leases'[x] = leases[x]
           /\ DOMAIN settlements' = DOMAIN settlements \cup {d.lease}
           /\ \A x \in DOMAIN settlements \ {d.lease} : settlements'[x] = settlements[x]
           /\ settlements'[d.lease] =
                 [terminal |-> TRUE, def |-> d, delivered |-> FALSE, final |-> FALSE]
<1>1. PICK n \in SettlementRecord :
          n = [terminal |-> TRUE, def |-> d, delivered |-> FALSE, final |-> FALSE]
    BY DEF SettlementRecord, TerminalRecord
<1>2. settlements' = Put(settlements, d.lease, n)
    BY <1>1 DEF Dispose
<1>3. settlements' \in [DOMAIN settlements' -> SettlementRecord]
    BY <1>2 DEF Types, NodeTypes, Put
<1>4. /\ DOMAIN settlements' = DOMAIN settlements \cup {d.lease}
      /\ \A x \in DOMAIN settlements \ {d.lease} : settlements'[x] = settlements[x]
      /\ settlements'[d.lease] = n
    BY <1>2 DEF Put
<1>5. UNCHANGED <<issued, deliveries>>
    BY DEF Dispose
<1>6. CASE d.outcome = "acknowledged"
    <2>1. leases' = Delete(leases, d.lease) /\ acknowledged' = acknowledged \cup {d}
        BY <1>6 DEF Dispose
    <2>2. /\ leases' \in [DOMAIN leases' -> LeaseRecord]
          /\ LeasesFollow /\ DOMAIN leases' = DOMAIN leases \ {d.lease}
          /\ \A x \in DOMAIN leases' : leases'[x] = leases[x]
        BY <1>5, <2>1, DeleteFollows
    <2>3. NodeTypes'
        BY <1>3, <1>5, <2>1, <2>2 DEF Types, NodeTypes
    <2> QED
        BY <1>1, <1>4, <2>2, <2>3 DEF Spent
<1>7. CASE d.outcome # "acknowledged"
    <2>1. PICK r \in LeaseRecord : r = leases[d.lease]
        BY DEF Types, NodeTypes
    <2>2. PICK m \in LeaseRecord : m = [r EXCEPT !.deferred = TRUE]
        BY DEF LeaseRecord
    <2>3. m.order = r.order /\ m.worker = r.worker /\ m.deferred /\ m.session = r.session
        BY <2>2 DEF LeaseRecord
    <2>4. leases' = [leases EXCEPT ![d.lease] = m] /\ UNCHANGED acknowledged
        BY <1>7, <2>1, <2>2 DEF Dispose
    <2>5. /\ leases' \in [DOMAIN leases' -> LeaseRecord] /\ DOMAIN leases' = DOMAIN leases
          /\ leases'[d.lease] = m /\ \A x \in DOMAIN leases \ {d.lease} : leases'[x] = leases[x]
        BY <2>4, ExceptTyped DEF Types, NodeTypes
    <2>6. NodeTypes'
        BY <1>3, <1>5, <2>4, <2>5 DEF Types, NodeTypes
    <2>7. LeasesFollow
        BY <1>5, <2>1, <2>3, <2>5 DEF LeasesFollow
    <2> QED
        BY <1>1, <1>4, <2>3, <2>5, <2>6, <2>7 DEF Spent
<1> QED
    BY <1>6, <1>7

LEMMA ForgetFollows ==
    ASSUME Types, NEW l, ForgetSettlement(l)
    PROVE  /\ NodeTypes' /\ LeasesFollow
           /\ DOMAIN leases' \subseteq DOMAIN leases
           /\ \A x \in DOMAIN leases' : leases'[x] = leases[x]
           /\ DOMAIN settlements' = DOMAIN settlements \ {l}
           /\ \A x \in DOMAIN settlements' : settlements'[x] = settlements[x]
<1>1. /\ settlements' = Delete(settlements, l)
      /\ UNCHANGED <<issued, deliveries, acknowledged>>
    BY DEF ForgetSettlement
<1>2. settlements' \in [DOMAIN settlements' -> SettlementRecord]
    BY <1>1, DeleteTyped DEF Types, NodeTypes
<1>3. /\ DOMAIN settlements' = DOMAIN settlements \ {l}
      /\ \A x \in DOMAIN settlements' : settlements'[x] = settlements[x]
    BY <1>1, DeleteFacts
<1>4. leases' = leases \/ leases' = Delete(leases, l)
    BY DEF ForgetSettlement, RequeueTerminalLease
<1>5. /\ leases' \in [DOMAIN leases' -> LeaseRecord] /\ LeasesFollow
      /\ DOMAIN leases' \subseteq DOMAIN leases
      /\ \A x \in DOMAIN leases' : leases'[x] = leases[x]
    <2>1. CASE leases' = leases
        BY <1>1, <2>1 DEF LeasesFollow, Types, NodeTypes
    <2>2. CASE leases' = Delete(leases, l)
        BY <1>1, <2>2, DeleteFollows
    <2> QED
        BY <1>4, <2>1, <2>2
<1>6. NodeTypes'
    BY <1>1, <1>2, <1>5 DEF Types, NodeTypes
<1> QED
    BY <1>3, <1>5, <1>6

-----------------------------------------------------------------------------
(* Definitions that differ in their session at most are of the same run.   *)

SameRun(d, e) ==
    /\ d.lease = e.lease /\ d.order = e.order /\ d.worker = e.worker
    /\ d.outcome = e.outcome /\ d.tally = e.tally

LEMMA SameRunSameSession ==
    ASSUME NEW d \in Definitions, NEW e \in Definitions, SameRun(d, e), d.session = e.session
    PROVE  d = e
BY DEF Definitions, SameRun

LEMMA SessionMoves ==
    ASSUME NEW d \in Definitions, NEW s \in Sessions
    PROVE  /\ [d EXCEPT !.session = s] \in Definitions
           /\ SameRun(d, [d EXCEPT !.session = s]) /\ [d EXCEPT !.session = s].session = s
BY DEF Definitions, SameRun

(* What a step does to the rows of the outbox: row l is now r, or gone.    *)
RowPut(l, r) ==
    /\ outbox' \in [DOMAIN outbox' -> Row]
    /\ DOMAIN outbox' = DOMAIN outbox \cup {l}
    /\ outbox'[l] = r
    /\ \A x \in DOMAIN outbox \ {l} : outbox'[x] = outbox[x]

RowGone(l) ==
    /\ outbox' \in [DOMAIN outbox' -> Row]
    /\ DOMAIN outbox' = DOMAIN outbox \ {l}
    /\ \A x \in DOMAIN outbox' : outbox'[x] = outbox[x]

LEMMA RowDefined ==
    ASSUME CrawlerTypes, NEW l \in DOMAIN outbox, NEW d \in Definitions,
           outbox' = [outbox EXCEPT ![l].def = d]
    PROVE  RowPut(l, [def |-> d, phase |-> outbox[l].phase])
<1>1. PICK r \in Row : r = outbox[l]
    BY DEF CrawlerTypes
<1>2. PICK n \in Row : n = [r EXCEPT !.def = d]
    BY DEF Row
<1>3. n = [def |-> d, phase |-> r.phase]
    BY <1>2 DEF Row
<1>4. outbox' = [outbox EXCEPT ![l] = n]
    BY <1>1, <1>2
<1> QED
    BY <1>1, <1>3, <1>4 DEF RowPut, CrawlerTypes

LEMMA RowPhased ==
    ASSUME CrawlerTypes, NEW l \in DOMAIN outbox, NEW p \in Phases,
           outbox' = [outbox EXCEPT ![l].phase = p]
    PROVE  RowPut(l, [def |-> outbox[l].def, phase |-> p])
<1>1. PICK r \in Row : r = outbox[l]
    BY DEF CrawlerTypes
<1>2. PICK n \in Row : n = [r EXCEPT !.phase = p]
    BY DEF Row
<1>3. n = [def |-> r.def, phase |-> p]
    BY <1>2 DEF Row
<1>4. outbox' = [outbox EXCEPT ![l] = n]
    BY <1>1, <1>2
<1> QED
    BY <1>1, <1>3, <1>4 DEF RowPut, CrawlerTypes

LEMMA RowDeleted ==
    ASSUME CrawlerTypes, NEW l, outbox' = Delete(outbox, l)
    PROVE  RowGone(l)
BY DeleteTyped, DeleteFacts DEF RowGone, CrawlerTypes

(* Staging adds the row, takes it over, or leaves the rows as they are.    *)
LEMMA StagedRows ==
    ASSUME CrawlerTypes, NEW d \in Definitions, outbox' = Staged(d) \/ UNCHANGED outbox
    PROVE  \/ UNCHANGED outbox
           \/ /\ RowPut(d.lease, [def |-> d, phase |-> "AwaitingAcknowledgment"])
              /\ \/ d.lease \notin DOMAIN outbox
                 \/ /\ d.lease \in DOMAIN outbox
                    /\ outbox[d.lease].phase = "AwaitingAcknowledgment"
                    /\ SameRun(outbox[d.lease].def, d)
<1>1. PICK l : l = d.lease
    OBVIOUS
<1>2. CASE l \notin DOMAIN outbox
    <2>1. PICK n \in Row : n = [def |-> d, phase |-> "AwaitingAcknowledgment"]
        BY DEF Row, Phases
    <2>2. CASE outbox' = Put(outbox, l, n)
        <3>1. outbox' \in [DOMAIN outbox' -> Row]
            BY <2>2 DEF Put, CrawlerTypes
        <3>2. RowPut(l, n)
            BY <2>2, <3>1 DEF RowPut, Put
        <3> QED
            BY <1>1, <1>2, <2>1, <3>2
    <2> QED
        BY <1>1, <1>2, <2>1, <2>2 DEF Staged
<1>3. CASE l \in DOMAIN outbox
    <2>1. PICK e \in Definitions : e = outbox[l].def
        BY <1>3 DEF CrawlerTypes, Row
    <2>2. CASE /\ outbox[l].phase = "AwaitingAcknowledgment" /\ [e EXCEPT !.session = d.session] = d
               /\ outbox' = [outbox EXCEPT ![l].def = d]
        <3>1. RowPut(l, [def |-> d, phase |-> "AwaitingAcknowledgment"])
            BY <1>3, <2>2, RowDefined
        <3>2. SameRun(e, d)
            BY <2>2 DEF SameRun, Definitions
        <3> QED
            BY <1>1, <1>3, <2>1, <2>2, <3>1, <3>2
    <2> QED
        BY <1>1, <1>3, <2>1, <2>2 DEF Staged
<1> QED
    BY <1>2, <1>3

(* The relay turns to lease l.                                             *)
RelayTo(l, stage) ==
    /\ relay' \in [LeaseIds -> RelayStages]
    /\ relay'[l] = stage
    /\ \A x \in LeaseIds \ {l} : relay'[x] = relay[x]

LEMMA RelayMoves ==
    ASSUME CrawlerTypes, NEW l \in LeaseIds, NEW s \in RelayStages,
           relay' = [relay EXCEPT ![l] = s]
    PROVE  RelayTo(l, s)
BY DEF RelayTo, CrawlerTypes

(* The grants of worker w lose a lease.                                    *)
GrantDropped(w, l) ==
    /\ grants' \in [Workers -> SUBSET LeaseIds]
    /\ \A x \in Workers : grants'[x] \subseteq grants[x]

LEMMA GrantDrops ==
    ASSUME CrawlerTypes, NEW w \in Workers, NEW l, grants' = [grants EXCEPT ![w] = @ \ {l}]
    PROVE  GrantDropped(w, l)
BY DEF GrantDropped, CrawlerTypes

-----------------------------------------------------------------------------
(* The steps of a call, each with what it does to the calls and to the     *)
(* settlements, and what it knows.                                         *)

IsRecorded(d) == <<d.order, d.tally>> \in recorded

(* A settlement is marked: its definition stays.                           *)
SettlementMarked(l) ==
    /\ settlements' \in [DOMAIN settlements' -> SettlementRecord]
    /\ DOMAIN settlements' = DOMAIN settlements
    /\ settlements'[l].terminal /\ settlements'[l].def = settlements[l].def
    /\ \A x \in DOMAIN settlements \ {l} : settlements'[x] = settlements[x]

LEMMA SettlementMarks ==
    ASSUME NodeTypes, NEW l \in DOMAIN settlements, settlements[l].terminal,
           \/ settlements' = [settlements EXCEPT ![l].delivered = TRUE]
           \/ settlements' = [settlements EXCEPT ![l].final = TRUE]
    PROVE  SettlementMarked(l)
<1>1. PICK r \in TerminalRecord : r = settlements[l]
    BY DEF NodeTypes, SettlementRecord, Plain
<1>2. ASSUME NEW n \in TerminalRecord, n.def = r.def, settlements' = [settlements EXCEPT ![l] = n]
      PROVE  SettlementMarked(l)
    <2>1. n \in SettlementRecord /\ n.terminal
        BY DEF SettlementRecord, TerminalRecord
    <2> QED
        BY <1>1, <1>2, <2>1, ExceptTyped DEF NodeTypes, SettlementMarked
<1>3. CASE settlements' = [settlements EXCEPT ![l].delivered = TRUE]
    <2>1. PICK n \in TerminalRecord : n = [r EXCEPT !.delivered = TRUE]
        BY DEF TerminalRecord
    <2>2. n.def = r.def
        BY <2>1 DEF TerminalRecord
    <2>3. settlements' = [settlements EXCEPT ![l] = n]
        BY <1>1, <1>3, <2>1
    <2> QED
        BY <1>2, <2>2, <2>3
<1>4. CASE settlements' = [settlements EXCEPT ![l].final = TRUE]
    <2>1. PICK n \in TerminalRecord : n = [r EXCEPT !.final = TRUE]
        BY DEF TerminalRecord
    <2>2. n.def = r.def
        BY <2>1 DEF TerminalRecord
    <2>3. settlements' = [settlements EXCEPT ![l] = n]
        BY <1>1, <1>4, <2>1
    <2> QED
        BY <1>2, <2>2, <2>3
<1> QED
    BY <1>3, <1>4

LEMMA CallDefined ==
    ASSUME CallTypes, NEW k \in DOMAIN calls
    PROVE  calls[k] \in CallRecord /\ calls[k].def \in Definitions /\ calls[k].def.lease \in LeaseIds
           /\ calls[k].def.worker \in Workers /\ calls[k].def.session \in Sessions
BY DEF CallTypes, CallRecord, Definitions

(* prepareTerminalLeaseSettlement settles an open lease its caller owns,   *)
(* finds it settled by the same request, or refuses.                       *)
LEMMA PrepareCases ==
    ASSUME NodeTypes, CallTypes, NEW k \in DOMAIN calls, Prepare(k), NEW d, d = calls[k].def,
           \A l \in DOMAIN settlements : Spent(l)
    PROVE  \/ /\ Remembers(d) /\ Spent(d.lease)
              /\ CallGoes(k, "record", settlements[d.lease].delivered) /\ UNCHANGED nodeVars
           \/ /\ ~Remembers(d) /\ Spent(d.lease)
              /\ CallGoes(k, "refused", calls[k].delivered) /\ UNCHANGED nodeVars
           \/ /\ CallGoes(k, "lost", calls[k].delivered) /\ UNCHANGED nodeVars
           \/ /\ ~Spent(d.lease) /\ d.lease \in DOMAIN leases /\ OwnedLive(d) /\ Dispose(d)
              /\ CallGoes(k, "record", calls[k].delivered)
<1>1. CASE d.lease \notin DOMAIN leases \/ leases[d.lease].deferred
    <2>1. CASE Remembers(d)
        <3>1. PICK c \in CallRecord : c = calls[k]
            BY DEF CallTypes
        <3>2. PICK b \in BOOLEAN : b = settlements[d.lease].delivered
            <4>1. settlements[d.lease] \in SettlementRecord /\ settlements[d.lease].terminal
                BY <2>1 DEF Remembers, NodeTypes
            <4>2. settlements[d.lease] \in TerminalRecord
                BY <4>1 DEF SettlementRecord, Plain
            <4>3. settlements[d.lease].delivered \in BOOLEAN
                BY <4>2 DEF TerminalRecord
            <4> QED
                BY <4>3
        <3>3. PICK n \in CallRecord : n = [c EXCEPT !.step = "record", !.delivered = b]
            BY DEF CallRecord, Steps
        <3>4. n.def = c.def /\ n.awaited = c.awaited /\ n.delivered = b /\ n.step = "record"
            BY <3>3 DEF CallRecord
        <3>5. calls' = [calls EXCEPT ![k] = n]
            BY <1>1, <2>1, <3>1, <3>2, <3>3 DEF Prepare
        <3>6. CallGoes(k, "record", b)
            BY <3>1, <3>4, <3>5 DEF CallGoes, CallTypes, Answers
        <3> QED
            BY <1>1, <2>1, <3>2, <3>6 DEF Prepare, Spent
    <2>2. CASE ~Remembers(d)
        BY <1>1, <2>2, AnswerGoes DEF Prepare, Spent, Answers
    <2> QED
        BY <2>1, <2>2
<1>2. CASE ~(d.lease \notin DOMAIN leases \/ leases[d.lease].deferred)
    <2>1. ~Spent(d.lease) /\ d.lease \in DOMAIN leases /\ d.lease \notin DOMAIN settlements
        BY <1>2 DEF Spent
    <2>2. CASE ~OwnedLive(d)
        BY <1>2, <2>2, AnswerGoes DEF Prepare, Answers
    <2>3. CASE OwnedLive(d)
        <3>1. Continue(k, "record") /\ Dispose(d)
            BY <1>2, <2>1, <2>3 DEF Prepare
        <3> QED
            BY <2>1, <2>3, <3>1, ContinueGoes DEF Steps
    <2> QED
        BY <2>2, <2>3
<1> QED
    BY <1>1, <1>2

(* Deliveries: one is added or marked, and some may be pruned.             *)
DeliveriesFollow ==
    /\ deliveries' \in [DOMAIN deliveries' -> DeliveryRecord]
    /\ recorded \subseteq recorded'
    /\ \A o \in DOMAIN deliveries' :
          \/ o \in DOMAIN deliveries /\ deliveries'[o].tally = deliveries[o].tally
          \/ <<o, deliveries'[o].tally>> \in recorded'

LEMMA PrunedKeeps ==
    ASSUME NEW f, f \in [DOMAIN f -> DeliveryRecord], NEW g \in Pruned(f)
    PROVE  /\ g \in [DOMAIN g -> DeliveryRecord] /\ DOMAIN g \subseteq DOMAIN f
           /\ \A o \in DOMAIN g : g[o] = f[o]
<1>1. g = f \/ \E o \in DOMAIN f : g = Delete(f, o)
    BY DEF Pruned
<1>2. ASSUME NEW o \in DOMAIN f, g = Delete(f, o)
      PROVE  /\ g \in [DOMAIN g -> DeliveryRecord] /\ DOMAIN g \subseteq DOMAIN f
             /\ \A x \in DOMAIN g : g[x] = f[x]
    BY <1>2, DeleteTyped, DeleteFacts
<1> QED
    BY <1>1, <1>2

LEMMA RecordCases ==
    ASSUME NodeTypes, CallTypes, NEW k \in DOMAIN calls, RecordTerminal(k), NEW d, d = calls[k].def
    PROVE  /\ DeliveriesFollow
           /\ calls[k].step = "record"
           /\ \/ calls[k].delivered /\ CallGoes(k, "deliver", calls[k].delivered)
              \/ CallGoes(k, "progress", calls[k].delivered) /\
                    (\/ <<d.order, d.tally>> \in recorded'
                     \/ d.order \in DOMAIN deliveries /\ deliveries[d.order].tally = d.tally)
              \/ CallGoes(k, "conflict", calls[k].delivered)
           /\ UNCHANGED <<leaseVars, settlements, control, registered, acknowledged, crawlerVars>>
<1>1. calls[k].step = "record"
    BY DEF RecordTerminal
<1>2. CASE calls[k].delivered \/ d.order \in DOMAIN deliveries
    <2>1. UNCHANGED <<deliveries, recorded>>
        BY <1>2 DEF RecordTerminal
    <2>2. \/ calls[k].delivered /\ Continue(k, "deliver")
          \/ /\ d.order \in DOMAIN deliveries /\ deliveries[d.order].tally = d.tally
             /\ Continue(k, "progress")
          \/ Answer(k, "conflict")
        BY <1>2 DEF RecordTerminal
    <2> QED
        BY <1>1, <2>1, <2>2, ContinueGoes, AnswerGoes
        DEF RecordTerminal, DeliveriesFollow, NodeTypes, Steps, Answers
<1>3. CASE ~calls[k].delivered /\ d.order \notin DOMAIN deliveries
    <2>1. d.tally \in Tallies /\ d.worker \in Workers
        BY CallDefined DEF Definitions
    <2>2. PICK r \in DeliveryRecord : r = [tally |-> d.tally, worker |-> d.worker, confirmed |-> FALSE]
        BY <2>1 DEF DeliveryRecord
    <2>3. PICK f : f = Put(deliveries, d.order, r)
        OBVIOUS
    <2>4. /\ f \in [DOMAIN f -> DeliveryRecord] /\ f[d.order] = r
          /\ DOMAIN f = DOMAIN deliveries \cup {d.order}
          /\ \A x \in DOMAIN deliveries : f[x] = deliveries[x]
        BY <1>3, <2>3 DEF Put, NodeTypes
    <2>5. /\ deliveries' \in Pruned(f) /\ recorded' = recorded \cup {<<d.order, d.tally>>}
          /\ Continue(k, "progress")
        BY <1>3, <2>2, <2>3 DEF RecordTerminal
    <2>6. /\ deliveries' \in [DOMAIN deliveries' -> DeliveryRecord]
          /\ DOMAIN deliveries' \subseteq DOMAIN f
          /\ \A o \in DOMAIN deliveries' : deliveries'[o] = f[o]
        BY <2>4, <2>5, PrunedKeeps
    <2>7. r.tally = d.tally
        BY <2>2
    <2>8. DeliveriesFollow
        BY <2>4, <2>5, <2>6, <2>7 DEF DeliveriesFollow
    <2> QED
        BY <1>1, <2>5, <2>8, ContinueGoes DEF RecordTerminal, Steps
<1> QED
    BY <1>2, <1>3

LEMMA ProgressCases ==
    ASSUME NodeTypes, CallTypes, NEW k \in DOMAIN calls, AcknowledgeProgress(k),
           NEW d, d = calls[k].def
    PROVE  /\ calls[k].step = "progress"
           /\ \/ Remembers(d) /\ SettlementMarked(d.lease) /\ CallGoes(k, "deliver", calls[k].delivered)
              \/ ~Remembers(d) /\ CallGoes(k, "refused", calls[k].delivered) /\ UNCHANGED settlements
           /\ UNCHANGED <<leaseVars, control, deliveries, registered, acknowledged, recorded,
                          crawlerVars>>
<1>1. CASE Remembers(d)
    <2>1. SettlementMarked(d.lease)
        BY <1>1, SettlementMarks DEF Remembers, AcknowledgeProgress
    <2> QED
        BY <1>1, <2>1, ContinueGoes DEF AcknowledgeProgress, Steps
<1>2. CASE ~Remembers(d)
    BY <1>2, AnswerGoes DEF AcknowledgeProgress, Answers
<1> QED
    BY <1>1, <1>2

LEMMA DeliveryCases ==
    ASSUME NodeTypes, CallTypes, NEW k \in DOMAIN calls, ConfirmDelivery(k)
    PROVE  /\ calls[k].step = "deliver"
           /\ DeliveriesFollow
           /\ \E s \in {"complete", "finalize"} : CallGoes(k, s, calls[k].delivered)
           /\ UNCHANGED <<leaseVars, settlements, control, registered, acknowledged, recorded,
                          crawlerVars>>
<1>1. PICK d : d = calls[k].def
    OBVIOUS
<1>2. DeliveriesFollow
    <2>1. CASE d.order \in DOMAIN deliveries /\ ~deliveries[d.order].confirmed
        <3>1. PICK r \in DeliveryRecord : r = deliveries[d.order]
            BY <2>1 DEF NodeTypes
        <3>2. PICK n \in DeliveryRecord : n = [r EXCEPT !.confirmed = TRUE]
            BY DEF DeliveryRecord
        <3>3. n.tally = r.tally
            BY <3>2 DEF DeliveryRecord
        <3>4. PICK f : f = [deliveries EXCEPT ![d.order] = n]
            OBVIOUS
        <3>5. /\ f \in [DOMAIN f -> DeliveryRecord] /\ DOMAIN f = DOMAIN deliveries
              /\ \A x \in DOMAIN f : f[x].tally = deliveries[x].tally
            BY <2>1, <3>1, <3>3, <3>4 DEF NodeTypes
        <3>6. deliveries' \in Pruned(f)
            BY <1>1, <2>1, <3>1, <3>2, <3>4 DEF ConfirmDelivery
        <3>7. /\ deliveries' \in [DOMAIN deliveries' -> DeliveryRecord]
              /\ DOMAIN deliveries' \subseteq DOMAIN f
              /\ \A o \in DOMAIN deliveries' : deliveries'[o] = f[o]
            BY <3>5, <3>6, PrunedKeeps
        <3> QED
            BY <3>5, <3>7 DEF ConfirmDelivery, DeliveriesFollow
    <2>2. CASE ~(d.order \in DOMAIN deliveries /\ ~deliveries[d.order].confirmed)
        BY <1>1, <2>2 DEF ConfirmDelivery, DeliveriesFollow, NodeTypes
    <2> QED
        BY <2>1, <2>2
<1>3. \E s \in {"complete", "finalize"} : Continue(k, s)
    BY DEF ConfirmDelivery
<1> QED
    BY <1>2, <1>3, ContinueGoes DEF ConfirmDelivery, Steps

LEMMA ControlCases ==
    ASSUME CallTypes, NEW k \in DOMAIN calls, CompleteControl(k)
    PROVE  /\ calls[k].step = "complete"
           /\ \/ CallGoes(k, "finalize", calls[k].delivered)
              \/ /\ calls[k].def.lease \notin DOMAIN settlements
                 /\ CallGoes(k, "refused", calls[k].delivered)
           /\ UNCHANGED <<leaseVars, settlements, deliveries, registered, acknowledged, recorded,
                          crawlerVars>>
<1>1. CASE calls[k].def.lease \in DOMAIN settlements
    BY <1>1, ContinueGoes DEF CompleteControl, Steps
<1>2. CASE calls[k].def.lease \notin DOMAIN settlements
    BY <1>2, AnswerGoes DEF CompleteControl, Answers
<1> QED
    BY <1>1, <1>2

LEMMA FinalizeCases ==
    ASSUME NodeTypes, CallTypes, NEW k \in DOMAIN calls, Finalize(k), NEW d, d = calls[k].def
    PROVE  /\ calls[k].step = "finalize"
           /\ \/ Remembers(d) /\ SettlementMarked(d.lease) /\ CallGoes(k, "token", calls[k].delivered)
              \/ CallGoes(k, "refused", calls[k].delivered) /\ UNCHANGED settlements
           /\ UNCHANGED <<leaseVars, control, deliveries, registered, acknowledged, recorded,
                          crawlerVars>>
<1>1. \/ /\ Remembers(d) /\ settlements' = [settlements EXCEPT ![d.lease].final = TRUE]
         /\ Answer(k, "token")
      \/ Answer(k, "refused") /\ UNCHANGED settlements
    BY DEF Finalize
<1>2. CASE /\ Remembers(d) /\ settlements' = [settlements EXCEPT ![d.lease].final = TRUE]
           /\ Answer(k, "token")
    <2>1. SettlementMarked(d.lease)
        BY <1>2, SettlementMarks DEF Remembers
    <2> QED
        BY <1>2, <2>1, AnswerGoes DEF Finalize, Answers
<1>3. CASE Answer(k, "refused") /\ UNCHANGED settlements
    BY <1>3, AnswerGoes DEF Finalize, Answers
<1> QED
    BY <1>1, <1>2, <1>3

LEMMA ConfirmCases ==
    ASSUME CallTypes, NEW k \in DOMAIN calls, Confirm(k), NEW d, d = calls[k].def
    PROVE  /\ calls[k].step = "confirm" /\ UNCHANGED crawlerVars
           /\ \/ CallGoes(k, "confirmed", calls[k].delivered) /\ UNCHANGED nodeVars
              \/ CallGoes(k, "refused", calls[k].delivered) /\ UNCHANGED nodeVars
              \/ /\ CallGoes(k, "confirmed", calls[k].delivered)
                 /\ Remembers(d) /\ ForgetSettlement(d.lease)
<1>1. \/ Answer(k, "confirmed") /\ UNCHANGED nodeVars
      \/ Answer(k, "refused") /\ UNCHANGED nodeVars
      \/ Answer(k, "confirmed") /\ Remembers(d) /\ ForgetSettlement(d.lease)
    BY DEF Confirm
<1>2. \A s \in {"confirmed", "refused"} : Answer(k, s) => CallGoes(k, s, calls[k].delivered)
    BY AnswerGoes DEF Answers
<1> QED
    BY <1>1, <1>2 DEF Confirm

-----------------------------------------------------------------------------
(* The inductive invariant, in parts.  First: what runs, rows, calls and   *)
(* settlements say of a lease is true of it as long as it exists, and a    *)
(* settled lease is spent.                                                 *)

RowsBelong ==
    \A l \in DOMAIN outbox :
        outbox[l].def.lease = l /\ Belongs(l, outbox[l].def.worker, outbox[l].def.order)

CallsBelong ==
    \A k \in DOMAIN calls : Belongs(calls[k].def.lease, calls[k].def.worker, calls[k].def.order)

SettledSpent ==
    \A l \in DOMAIN settlements :
        /\ l \in issued /\ Spent(l)
        /\ settlements[l].terminal =>
              /\ settlements[l].def.lease = l
              /\ Belongs(l, settlements[l].def.worker, settlements[l].def.order)

RunsBelong ==
    \A w \in Workers, o \in Orders : run[w][o] # None => Belongs(run[w][o], w, o)

AcknowledgedGone ==
    \A d \in acknowledged : d.lease \in issued /\ d.lease \notin DOMAIN leases

HoldInv ==
    /\ DOMAIN leases \subseteq issued
    /\ RowsBelong /\ CallsBelong /\ SettledSpent /\ RunsBelong /\ AcknowledgedGone

(* Then: an answer has somebody who waits for it, the relay waits with at  *)
(* most one call for each lease, whose row is there, and the relay erases  *)
(* a checkpoint only for an acknowledged row.                              *)
AnswersAwaited == \A k \in DOMAIN calls : calls[k].step \in Answers => calls[k].awaited

AwaitedHasRow ==
    \A k \in DOMAIN calls : calls[k].awaited =>
        /\ relay[calls[k].def.lease] = "waiting"
        /\ calls[k].def.lease \in DOMAIN outbox
        /\ SameRun(calls[k].def, outbox[calls[k].def.lease].def)

OneAwaited ==
    \A j, k \in DOMAIN calls :
        calls[j].awaited /\ calls[k].awaited /\ calls[j].def.lease = calls[k].def.lease => j = k

ErasesAcknowledged ==
    \A l \in LeaseIds : relay[l] \in {"mark", "erase", "advance"} =>
        l \in DOMAIN outbox /\ outbox[l].phase = "AcknowledgedDeleting"

RelayInv == AnswersAwaited /\ AwaitedHasRow /\ OneAwaited /\ ErasesAcknowledged

-----------------------------------------------------------------------------
(* Steps of the node leave the crawlers alone and send no calls.           *)

NodeStep ==
    \/ \E w \in Workers : Connect(w)
    \/ \E w \in Workers, o \in Orders, l \in LeaseIds : Claim(w, o, l)
    \/ \E l \in LeaseIds : Lapse(l) \/ Sweep(l) \/ ExpireSettlement(l)
    \/ \E k \in DOMAIN calls : Handle(k) \/ CallFails(k)
    \/ NodeRestart

CallsStay ==
    /\ CallTypes'
    /\ DOMAIN calls' \subseteq DOMAIN calls
    /\ \A k \in DOMAIN calls' :
          /\ calls'[k].def = calls[k].def
          /\ calls'[k].awaited => calls[k].awaited
          /\ calls'[k].step \in Answers => calls'[k].awaited

LEMMA GoesStay ==
    ASSUME AnswersAwaited, NEW k, NEW s, NEW b, CallGoes(k, s, b)
    PROVE  CallsStay
<1>1. ASSUME NEW j \in DOMAIN calls'
      PROVE  /\ calls'[j].def = calls[j].def
             /\ calls'[j].awaited => calls[j].awaited
             /\ calls'[j].step \in Answers => calls'[j].awaited
    <2>1. CASE j = k
        BY <1>1, <2>1 DEF CallGoes
    <2>2. CASE j # k
        BY <1>1, <2>2 DEF CallGoes, AnswersAwaited
    <2> QED
        BY <2>1, <2>2
<1> QED
    BY <1>1 DEF CallsStay, CallGoes

LEMMA CallsUnchanged ==
    ASSUME AnswersAwaited, CallTypes, UNCHANGED calls
    PROVE  CallsStay
BY DEF CallsStay, AnswersAwaited, CallTypes

LEMMA LeasesUnchanged ==
    ASSUME UNCHANGED <<leases, issued>>
    PROVE  LeasesFollow
BY DEF LeasesFollow

(* Settlements: old ones stay or are marked or go; a new one is of a lease *)
(* that is spent by the same step.                                         *)
SettlementsFollow ==
    \A l \in DOMAIN settlements' :
        \/ /\ l \in DOMAIN settlements /\ settlements'[l].terminal = settlements[l].terminal
           /\ settlements[l].terminal => settlements'[l].def = settlements[l].def
        \/ /\ l \in issued /\ Spent(l)'
           /\ settlements'[l].terminal =>
                 /\ settlements'[l].def.lease = l
                 /\ Belongs(l, settlements'[l].def.worker, settlements'[l].def.order)

AcknowledgedFollow ==
    \A d \in acknowledged' : d \in acknowledged \/ (d.lease \in issued /\ d.lease \notin DOMAIN leases')

NodeFollows ==
    /\ NodeTypes' /\ LeasesFollow /\ CallsStay /\ SettlementsFollow /\ AcknowledgedFollow
    /\ DOMAIN leases' \subseteq issued'
    /\ UNCHANGED crawlerVars

LEMMA LeaseStepFollows ==
    ASSUME Types, HoldInv, RelayInv,
           \/ \E w \in Workers : Connect(w)
           \/ \E w \in Workers, o \in Orders, l \in LeaseIds : Claim(w, o, l)
           \/ \E l \in LeaseIds : Lapse(l) \/ Sweep(l)
    PROVE  NodeFollows
<1> USE DEF nodeVars, crawlerVars, leaseVars
<1>1. ASSUME UNCHANGED calls PROVE CallsStay
    BY <1>1, CallsUnchanged DEF Types, RelayInv
<1>2. ASSUME UNCHANGED settlements PROVE SettlementsFollow
    BY <1>2 DEF SettlementsFollow
<1>3. ASSUME UNCHANGED acknowledged PROVE AcknowledgedFollow
    BY <1>3 DEF AcknowledgedFollow
<1>4. ASSUME NEW w \in Workers, Connect(w) PROVE NodeFollows
    <2>1. NodeTypes' /\ LeasesFollow /\ DOMAIN leases' = DOMAIN leases
        BY <1>4, ConnectFollows
    <2>2. UNCHANGED <<calls, settlements, acknowledged, issued, crawlerVars>>
        BY <1>4 DEF Connect
    <2> QED
        BY <1>1, <1>2, <1>3, <2>1, <2>2 DEF NodeFollows, HoldInv
<1>5. ASSUME NEW w \in Workers, NEW o \in Orders, NEW l \in LeaseIds, Claim(w, o, l)
      PROVE  NodeFollows
    <2>1. /\ NodeTypes' /\ LeasesFollow /\ DOMAIN leases' = DOMAIN leases \cup {l}
          /\ issued' = issued \cup {l}
        BY <1>5, ClaimFollows DEF HoldInv
    <2>2. UNCHANGED <<calls, settlements, acknowledged, crawlerVars>>
        BY <1>5 DEF Claim
    <2> QED
        BY <1>1, <1>2, <1>3, <2>1, <2>2 DEF NodeFollows, HoldInv
<1>6. ASSUME NEW l \in LeaseIds, Lapse(l) PROVE NodeFollows
    <2>1. NodeTypes' /\ LeasesFollow /\ DOMAIN leases' = DOMAIN leases
        BY <1>6, LapseFollows
    <2>2. UNCHANGED <<calls, settlements, acknowledged, issued, crawlerVars>>
        BY <1>6 DEF Lapse
    <2> QED
        BY <1>1, <1>2, <1>3, <2>1, <2>2 DEF NodeFollows, HoldInv
<1>7. ASSUME NEW l \in LeaseIds, Sweep(l) PROVE NodeFollows
    <2>1. /\ NodeTypes' /\ LeasesFollow /\ DOMAIN leases' = DOMAIN leases \ {l}
          /\ \A x \in DOMAIN settlements :
                x \in DOMAIN settlements' /\ settlements'[x] = settlements[x]
          /\ \A x \in DOMAIN settlements' \ DOMAIN settlements : x = l /\ ~settlements'[x].terminal
        BY <1>7, SweepFollows
    <2>2. UNCHANGED <<calls, acknowledged, issued, crawlerVars>> /\ l \in DOMAIN leases
        BY <1>7 DEF Sweep
    <2>3. SettlementsFollow
        BY <2>1, <2>2 DEF SettlementsFollow, Spent, HoldInv
    <2> QED
        BY <1>1, <1>3, <2>1, <2>2, <2>3 DEF NodeFollows, HoldInv
<1> QED
    BY <1>4, <1>5, <1>6, <1>7

LEMMA HandleFollows ==
    ASSUME Types, HoldInv, RelayInv, NEW k \in DOMAIN calls, Handle(k) \/ CallFails(k)
    PROVE  NodeFollows
<1> USE DEF nodeVars, crawlerVars, leaseVars
<1>0. PICK d \in Definitions : d = calls[k].def
    BY CallDefined DEF Types
<1>1. ASSUME UNCHANGED <<leases, issued, acknowledged>>
      PROVE  LeasesFollow /\ AcknowledgedFollow /\ DOMAIN leases' \subseteq issued'
    BY <1>1, LeasesUnchanged DEF AcknowledgedFollow, HoldInv
<1>2. ASSUME UNCHANGED <<leases, settlements, acknowledged, deliveries>> PROVE NodeTypes' /\ SettlementsFollow
    BY <1>2 DEF SettlementsFollow, Types, NodeTypes
<1>3. ASSUME NEW s, NEW b, CallGoes(k, s, b) PROVE CallsStay
    BY <1>3, GoesStay DEF RelayInv
<1>4. ASSUME SettlementMarked(d.lease), Remembers(d) PROVE SettlementsFollow
    <2>1. ASSUME NEW x \in DOMAIN settlements'
          PROVE  /\ x \in DOMAIN settlements /\ settlements'[x].terminal = settlements[x].terminal
                 /\ settlements[x].terminal => settlements'[x].def = settlements[x].def
        <3>1. CASE x = d.lease
            <4>1. settlements[x] \in SettlementRecord /\ settlements'[x] \in SettlementRecord
                BY <1>4, <2>1, <3>1 DEF SettlementMarked, Remembers, Types, NodeTypes
            <4>2. settlements[x].terminal /\ settlements'[x].terminal
                BY <1>4, <3>1 DEF SettlementMarked, Remembers
            <4>3. settlements[x].terminal = TRUE /\ settlements'[x].terminal = TRUE
                BY <4>1, <4>2 DEF SettlementRecord, Plain, TerminalRecord
            <4> QED
                BY <1>4, <2>1, <3>1, <4>3 DEF SettlementMarked
        <3>2. CASE x # d.lease
            BY <1>4, <2>1, <3>2 DEF SettlementMarked
        <3> QED
            BY <3>1, <3>2
    <2> QED
        BY <2>1 DEF SettlementsFollow
<1>5. CASE Prepare(k)
    <2>1. \A l \in DOMAIN settlements : Spent(l)
        BY DEF HoldInv, SettledSpent
    <2>2. UNCHANGED crawlerVars
        BY <1>5 DEF Prepare
    <2>3. CASE UNCHANGED nodeVars /\ \E s, b : CallGoes(k, s, b)
        BY <1>1, <1>2, <1>3, <2>2, <2>3 DEF NodeFollows
    <2>4. CASE d.lease \in DOMAIN leases /\ Dispose(d) /\ CallGoes(k, "record", calls[k].delivered)
        <3>1. /\ NodeTypes' /\ LeasesFollow /\ Spent(d.lease)'
              /\ DOMAIN leases' \subseteq DOMAIN leases
              /\ DOMAIN settlements' = DOMAIN settlements \cup {d.lease}
              /\ \A x \in DOMAIN settlements \ {d.lease} : settlements'[x] = settlements[x]
              /\ settlements'[d.lease] =
                    [terminal |-> TRUE, def |-> d, delivered |-> FALSE, final |-> FALSE]
            BY <1>0, <2>4, DisposeFollows
        <3>2. settlements'[d.lease].def = d
            BY <3>1
        <3>3. SettlementsFollow
            <4>1. d.lease \in issued /\ Belongs(d.lease, d.worker, d.order)
                BY <1>0 DEF HoldInv, CallsBelong, Belongs
            <4>2. ASSUME NEW x \in DOMAIN settlements', x # d.lease
                  PROVE  x \in DOMAIN settlements /\ settlements'[x] = settlements[x]
                BY <3>1, <4>2
            <4> QED
                BY <3>1, <3>2, <4>1, <4>2 DEF SettlementsFollow
        <3>4. UNCHANGED issued /\
              \/ UNCHANGED acknowledged
              \/ acknowledged' = acknowledged \cup {d} /\ leases' = Delete(leases, d.lease)
            BY <2>4 DEF Dispose
        <3>5. AcknowledgedFollow
            <4>1. d.lease \in issued
                BY <2>4 DEF HoldInv
            <4>2. leases' = Delete(leases, d.lease) => d.lease \notin DOMAIN leases'
                BY DEF Delete
            <4> QED
                BY <3>4, <4>1, <4>2 DEF AcknowledgedFollow
        <3> QED
            BY <1>3, <2>2, <2>4, <3>1, <3>3, <3>4, <3>5 DEF NodeFollows, HoldInv
    <2> QED
        BY <1>0, <1>5, <2>1, <2>3, <2>4, PrepareCases DEF Types
<1>6. CASE RecordTerminal(k)
    <2>1. /\ deliveries' \in [DOMAIN deliveries' -> DeliveryRecord] /\ \E s, b : CallGoes(k, s, b)
          /\ UNCHANGED <<leases, issued, settlements, acknowledged, crawlerVars>>
        BY <1>0, <1>6, RecordCases DEF DeliveriesFollow, Types
    <2>2. NodeTypes'
        BY <2>1 DEF Types, NodeTypes
    <2>3. SettlementsFollow
        BY <2>1 DEF SettlementsFollow
    <2> QED
        BY <1>1, <1>3, <2>1, <2>2, <2>3 DEF NodeFollows
<1>7. CASE AcknowledgeProgress(k)
    <2>1. /\ \E s, b : CallGoes(k, s, b)
          /\ UNCHANGED <<leases, issued, acknowledged, deliveries, crawlerVars>>
          /\ (Remembers(d) /\ SettlementMarked(d.lease)) \/ UNCHANGED settlements
        BY <1>0, <1>7, ProgressCases DEF Types
    <2>2. NodeTypes'
        BY <2>1 DEF Types, NodeTypes, SettlementMarked
    <2> QED
        BY <1>1, <1>2, <1>3, <1>4, <2>1, <2>2 DEF NodeFollows
<1>8. CASE ConfirmDelivery(k)
    <2>1. /\ deliveries' \in [DOMAIN deliveries' -> DeliveryRecord] /\ \E s, b : CallGoes(k, s, b)
          /\ UNCHANGED <<leases, issued, settlements, acknowledged, crawlerVars>>
        BY <1>8, DeliveryCases DEF DeliveriesFollow, Types
    <2>2. NodeTypes'
        BY <2>1 DEF Types, NodeTypes
    <2>3. SettlementsFollow
        BY <2>1 DEF SettlementsFollow
    <2> QED
        BY <1>1, <1>3, <2>1, <2>2, <2>3 DEF NodeFollows
<1>9. CASE CompleteControl(k)
    <2>1. /\ \E s, b : CallGoes(k, s, b)
          /\ UNCHANGED <<leases, issued, settlements, acknowledged, deliveries, crawlerVars>>
        BY <1>9, ControlCases DEF Types
    <2> QED
        BY <1>1, <1>2, <1>3, <2>1 DEF NodeFollows
<1>10. CASE Finalize(k)
    <2>1. /\ \E s, b : CallGoes(k, s, b)
          /\ UNCHANGED <<leases, issued, acknowledged, deliveries, crawlerVars>>
          /\ (Remembers(d) /\ SettlementMarked(d.lease)) \/ UNCHANGED settlements
        BY <1>0, <1>10, FinalizeCases DEF Types
    <2>2. NodeTypes'
        BY <2>1 DEF Types, NodeTypes, SettlementMarked
    <2> QED
        BY <1>1, <1>2, <1>3, <1>4, <2>1, <2>2 DEF NodeFollows
<1>11. CASE Confirm(k)
    <2>1. /\ \E s, b : CallGoes(k, s, b)
          /\ UNCHANGED crawlerVars
          /\ UNCHANGED nodeVars \/ ForgetSettlement(d.lease)
        BY <1>0, <1>11, ConfirmCases DEF Types
    <2>2. CASE UNCHANGED nodeVars
        BY <1>1, <1>2, <1>3, <2>1, <2>2 DEF NodeFollows
    <2>3. CASE ForgetSettlement(d.lease)
        <3>1. /\ NodeTypes' /\ LeasesFollow /\ DOMAIN leases' \subseteq DOMAIN leases
              /\ DOMAIN settlements' = DOMAIN settlements \ {d.lease}
              /\ \A x \in DOMAIN settlements' : settlements'[x] = settlements[x]
            BY <2>3, ForgetFollows
        <3>2. UNCHANGED <<issued, acknowledged>>
            BY <2>3 DEF ForgetSettlement
        <3>3. SettlementsFollow /\ AcknowledgedFollow
            BY <3>1, <3>2 DEF SettlementsFollow, AcknowledgedFollow
        <3> QED
            BY <1>3, <2>1, <3>1, <3>2, <3>3 DEF NodeFollows, HoldInv
    <2> QED
        BY <2>1, <2>2, <2>3
<1>12. CASE CallFails(k)
    <2>1. CallGoes(k, "failed", calls[k].delivered) /\ UNCHANGED <<nodeVars, crawlerVars>>
        BY <1>12, AnswerGoes DEF CallFails, Answers, Types
    <2> QED
        BY <1>1, <1>2, <1>3, <2>1 DEF NodeFollows
<1> QED
    BY <1>5, <1>6, <1>7, <1>8, <1>9, <1>10, <1>11, <1>12 DEF Handle

LEMMA ExpireFollows ==
    ASSUME Types, HoldInv, RelayInv, NEW l \in LeaseIds, ExpireSettlement(l)
    PROVE  NodeFollows
<1> USE DEF nodeVars, crawlerVars, leaseVars
<1>1. CallsStay /\ UNCHANGED crawlerVars
    BY CallsUnchanged DEF ExpireSettlement, Types, RelayInv
<1>2. CASE settlements[l].terminal
    <2>1. ForgetSettlement(l)
        BY <1>2 DEF ExpireSettlement
    <2>2. /\ NodeTypes' /\ LeasesFollow /\ DOMAIN leases' \subseteq DOMAIN leases
          /\ DOMAIN settlements' = DOMAIN settlements \ {l}
          /\ \A x \in DOMAIN settlements' : settlements'[x] = settlements[x]
        BY <2>1, ForgetFollows
    <2>3. UNCHANGED <<issued, acknowledged>>
        BY <2>1 DEF ForgetSettlement
    <2> QED
        BY <1>1, <2>2, <2>3 DEF NodeFollows, SettlementsFollow, AcknowledgedFollow, HoldInv
<1>3. CASE ~settlements[l].terminal
    <2>1. /\ settlements' = Delete(settlements, l)
          /\ UNCHANGED <<leases, issued, deliveries, acknowledged>>
        BY <1>3 DEF ExpireSettlement
    <2>2. settlements' \in [DOMAIN settlements' -> SettlementRecord]
        BY <2>1, DeleteTyped DEF Types, NodeTypes
    <2>3. /\ DOMAIN settlements' = DOMAIN settlements \ {l}
          /\ \A x \in DOMAIN settlements' : settlements'[x] = settlements[x]
        BY <2>1, DeleteFacts
    <2>4. NodeTypes' /\ LeasesFollow
        BY <2>1, <2>2, LeasesUnchanged DEF Types, NodeTypes
    <2> QED
        BY <1>1, <2>1, <2>3, <2>4 DEF NodeFollows, SettlementsFollow, AcknowledgedFollow, HoldInv
<1> QED
    BY <1>2, <1>3

LEMMA RestartFails ==
    ASSUME CallTypes, NodeRestart
    PROVE  /\ CallTypes' /\ DOMAIN calls' \subseteq DOMAIN calls
           /\ \A k \in DOMAIN calls' :
                 /\ calls[k].awaited /\ calls'[k].awaited = calls[k].awaited
                 /\ calls'[k].def = calls[k].def /\ calls'[k].step = "failed"
                 /\ calls'[k].delivered = calls[k].delivered
<1> DEFINE kept == {x \in DOMAIN calls : calls[x].awaited}
<1>1. calls' = [k \in kept |-> [calls[k] EXCEPT !.step = "failed"]]
    BY DEF NodeRestart
<1>2. ASSUME NEW k \in kept
      PROVE  /\ [calls[k] EXCEPT !.step = "failed"] \in CallRecord
             /\ calls[k].awaited /\ calls'[k].awaited = calls[k].awaited
             /\ calls'[k].def = calls[k].def /\ calls'[k].step = "failed"
             /\ calls'[k].delivered = calls[k].delivered
    <2>1. PICK c \in CallRecord : c = calls[k]
        BY <1>2 DEF CallTypes
    <2>2. PICK n \in CallRecord : n = [c EXCEPT !.step = "failed"]
        BY DEF CallRecord, Answers
    <2>3. n.awaited = c.awaited /\ n.def = c.def /\ n.step = "failed" /\ n.delivered = c.delivered
        BY <2>2 DEF CallRecord
    <2>4. calls'[k] = n
        BY <1>1, <1>2, <2>1, <2>2
    <2> QED
        BY <1>2, <2>1, <2>2, <2>3, <2>4
<1>3. DOMAIN calls' = kept
    BY <1>1
<1>4. CallTypes'
    BY <1>1, <1>2, <1>3 DEF CallTypes
<1> QED
    BY <1>2, <1>3, <1>4

LEMMA RestartFollows ==
    ASSUME Types, HoldInv, RelayInv, NodeRestart
    PROVE  NodeFollows
<1> USE DEF nodeVars, crawlerVars, leaseVars
<1>1. UNCHANGED <<leases, issued, settlements, deliveries, acknowledged, crawlerVars>>
    BY DEF NodeRestart
<1>2. CallsStay
    BY RestartFails DEF CallsStay, Types
<1>3. NodeTypes' /\ LeasesFollow
    BY <1>1, LeasesUnchanged DEF Types, NodeTypes
<1> QED
    BY <1>1, <1>2, <1>3 DEF NodeFollows, SettlementsFollow, AcknowledgedFollow, HoldInv

LEMMA NodeStepFollows ==
    ASSUME Types, HoldInv, RelayInv, NodeStep
    PROVE  NodeFollows
BY LeaseStepFollows, HandleFollows, ExpireFollows, RestartFollows DEF NodeStep

LEMMA NodeStepHolds ==
    ASSUME Types, HoldInv, RelayInv, NodeFollows
    PROVE  Types' /\ HoldInv' /\ RelayInv'
<1> USE DEF crawlerVars
<1>1. LeasesFollow /\ UNCHANGED crawlerVars /\ CallsStay
    BY DEF NodeFollows
<1>2. Types'
    BY <1>1 DEF Types, NodeFollows, CrawlerTypes, CallsStay
<1>3. ASSUME NEW l, NEW w, NEW o, Belongs(l, w, o) PROVE Belongs(l, w, o)'
    BY <1>1, <1>3, SpentStays DEF Belongs
<1>4. RowsBelong'
    BY <1>1, <1>3 DEF HoldInv, RowsBelong
<1>5. CallsBelong'
    BY <1>1, <1>3 DEF HoldInv, CallsBelong, CallsStay
<1>6. RunsBelong'
    BY <1>1, <1>3 DEF HoldInv, RunsBelong
<1>7. SettledSpent'
    <2>1. ASSUME NEW l \in DOMAIN settlements'
          PROVE  /\ l \in issued' /\ Spent(l)'
                 /\ settlements'[l].terminal =>
                       /\ settlements'[l].def.lease = l
                       /\ l \in DOMAIN leases' => /\ leases'[l].worker = settlements'[l].def.worker
                                                 /\ leases'[l].order = settlements'[l].def.order
        <3>0. PICK w, o : w = settlements'[l].def.worker /\ o = settlements'[l].def.order
            OBVIOUS
        <3>1. CASE /\ l \in DOMAIN settlements /\ settlements'[l].terminal = settlements[l].terminal
                   /\ settlements[l].terminal => settlements'[l].def = settlements[l].def
            <4>1. /\ l \in issued /\ Spent(l)
                  /\ settlements[l].terminal => settlements[l].def.lease = l /\ Belongs(l, w, o)
                BY <3>0, <3>1 DEF HoldInv, SettledSpent
            <4>2. l \in issued' /\ Spent(l)'
                BY <1>1, <4>1, SpentStays DEF LeasesFollow
            <4> QED
                BY <1>3, <3>0, <3>1, <4>1, <4>2 DEF Belongs
        <3>2. CASE /\ l \in issued /\ Spent(l)'
                   /\ settlements'[l].terminal =>
                         /\ settlements'[l].def.lease = l
                         /\ Belongs(l, settlements'[l].def.worker, settlements'[l].def.order)
            <4>1. settlements'[l].terminal => Belongs(l, w, o)
                BY <3>0, <3>2
            <4> QED
                BY <1>1, <1>3, <3>0, <3>2, <4>1 DEF LeasesFollow, Belongs
        <3> QED
            BY <2>1, <3>1, <3>2 DEF NodeFollows, SettlementsFollow
    <2>2. \A l \in DOMAIN settlements' : l \in issued'
        BY <2>1
    <2> QED
        BY <2>1, <2>2 DEF SettledSpent, Belongs
<1>8. AcknowledgedGone'
    BY <1>1 DEF NodeFollows, AcknowledgedFollow, AcknowledgedGone, HoldInv, LeasesFollow
<1>9. HoldInv'
    BY <1>4, <1>5, <1>6, <1>7, <1>8 DEF HoldInv, NodeFollows
<1>10. RelayInv'
    BY <1>1 DEF RelayInv, AnswersAwaited, AwaitedHasRow, OneAwaited, ErasesAcknowledged, CallsStay
<1> QED
    BY <1>2, <1>9, <1>10

-----------------------------------------------------------------------------
(* Steps of the crawlers leave the node alone, except for its calls.       *)

CrawlerStep ==
    \/ \E l \in DOMAIN leases : Deliver(l)
    \/ \E w \in Workers, o \in Orders : Complete(w, o)
    \/ \E w \in Workers, o \in Orders, c \in Outcomes, t \in Tallies : Settle(w, o, c, t)
    \/ \E l \in LeaseIds : Advance(l)
    \/ \E k \in DOMAIN calls : Receive(k) \/ Timeout(k)
    \/ \E w \in Workers : CrawlerRestart(w)

LEMMA NextSplits ==
    ASSUME Next
    PROVE  NodeStep \/ CrawlerStep
BY DEF Next, NodeStep, CrawlerStep, Handle, Receive

LEMMA RowDefinition ==
    ASSUME CrawlerTypes, NEW l \in DOMAIN outbox
    PROVE  /\ outbox[l] \in Row /\ outbox[l].def \in Definitions /\ outbox[l].phase \in Phases
           /\ outbox[l].def.worker \in Workers /\ outbox[l].def.order \in Orders
           /\ outbox[l].def.session \in Sessions
           /\ outbox[l] = [def |-> outbox[l].def, phase |-> outbox[l].phase]
BY DEF CrawlerTypes, Row, Definitions

LEMMA DeliverDoes ==
    ASSUME Types, NEW l \in DOMAIN leases, Deliver(l), NEW w, w = leases[l].worker,
           NEW o, o = leases[l].order
    PROVE  /\ w \in Workers /\ o \in Orders /\ ~Spent(l) /\ leases[l].session = session[w]
           /\ CrawlerTypes' /\ grants' = [grants EXCEPT ![w] = @ \cup {l}]
           /\ run' = [run EXCEPT ![w][o] = l]
           /\ UNCHANGED <<nodeVars, calls, outbox, session, relay>>
<1>1. w \in Workers /\ o \in Orders /\ l \in LeaseIds
    BY DEF Types, NodeTypes, LeaseRecord
<1>2. /\ grants' = [grants EXCEPT ![w] = @ \cup {l}] /\ run' = [run EXCEPT ![w][o] = l]
      /\ UNCHANGED <<nodeVars, calls, outbox, session, relay>>
      /\ ~Spent(l) /\ leases[l].session = session[w]
    BY DEF Deliver, Spent
<1>3. grants' \in [Workers -> SUBSET LeaseIds]
    BY <1>1, <1>2 DEF Types, CrawlerTypes
<1>4. run' \in [Workers -> [Orders -> LeaseIds \cup {None}]]
    BY <1>1, <1>2 DEF Types, CrawlerTypes
<1> QED
    BY <1>1, <1>2, <1>3, <1>4 DEF Types, CrawlerTypes

(* The definition a run is settled with.                                   *)
Settlement(w, o, c, t) ==
    [lease |-> run[w][o], order |-> o, worker |-> w, session |-> session[w],
     outcome |-> c, tally |-> t]

LEMMA SettleDoes ==
    ASSUME Types, NEW w \in Workers, NEW o \in Orders, NEW c \in Outcomes, NEW t \in Tallies,
           Settle(w, o, c, t), NEW d, d = Settlement(w, o, c, t)
    PROVE  /\ d \in Definitions /\ run[w][o] # None
           /\ CrawlerTypes' /\ run' = [run EXCEPT ![w][o] = None]
           /\ \/ UNCHANGED outbox
              \/ /\ RowPut(d.lease, [def |-> d, phase |-> "AwaitingAcknowledgment"])
                 /\ \/ d.lease \notin DOMAIN outbox
                    \/ /\ d.lease \in DOMAIN outbox
                       /\ outbox[d.lease].phase = "AwaitingAcknowledgment"
                       /\ SameRun(outbox[d.lease].def, d)
           /\ UNCHANGED <<nodeVars, calls, session, grants, relay>>
<1>1. run[w][o] # None /\ run' = [run EXCEPT ![w][o] = None]
      /\ UNCHANGED <<nodeVars, calls, session, grants, relay>>
    BY DEF Settle
<1>2. run[w][o] \in LeaseIds /\ session[w] \in Sessions
    BY <1>1 DEF Types, CrawlerTypes
<1>3. d \in Definitions /\ d.lease \in LeaseIds
    BY <1>2 DEF Definitions, Settlement
<1>4. outbox' = Staged(d) \/ UNCHANGED outbox
    BY DEF Settle, Settlement
<1>5. \/ UNCHANGED outbox
      \/ /\ RowPut(d.lease, [def |-> d, phase |-> "AwaitingAcknowledgment"])
         /\ \/ d.lease \notin DOMAIN outbox
            \/ /\ d.lease \in DOMAIN outbox
               /\ outbox[d.lease].phase = "AwaitingAcknowledgment"
               /\ SameRun(outbox[d.lease].def, d)
    BY <1>3, <1>4, StagedRows DEF Types
<1>6. outbox' \in [DOMAIN outbox' -> Row] /\ DOMAIN outbox' \subseteq LeaseIds
    BY <1>3, <1>5 DEF RowPut, Types, CrawlerTypes
<1>7. run' \in [Workers -> [Orders -> LeaseIds \cup {None}]]
    BY <1>1 DEF Types, CrawlerTypes
<1> QED
    BY <1>1, <1>3, <1>5, <1>6, <1>7 DEF Types, CrawlerTypes

LEMMA AwaitingDoes ==
    ASSUME Types, RowsBelong, NEW l \in LeaseIds, NEW k, AdvanceAwaiting(l, k)
    PROVE  /\ l \in DOMAIN outbox /\ outbox[l].phase = "AwaitingAcknowledgment"
           /\ relay[l] = "idle" /\ RelayTo(l, "waiting") /\ CrawlerTypes'
           /\ \E d \in Definitions :
                 /\ SameRun(outbox[l].def, d)
                 /\ \/ l \notin grants[d.worker] /\ d = outbox[l].def
                    \/ l \in grants[d.worker] /\ d.session = session[d.worker]
                 /\ RowPut(l, [def |-> d, phase |-> "AwaitingAcknowledgment"])
                 /\ CallSent(k, d, "prepare")
           /\ UNCHANGED <<nodeVars, session, run, grants>>
<1>1. /\ l \in DOMAIN outbox /\ outbox[l].phase = "AwaitingAcknowledgment" /\ relay[l] = "idle"
      /\ UNCHANGED <<nodeVars, session, run, grants>>
    BY DEF AdvanceAwaiting
<1>2. PICK e \in Definitions : e = outbox[l].def
    BY <1>1, RowDefinition DEF Types
<1>3. e.worker \in Workers /\ e.lease = l /\ session[e.worker] \in Sessions
    BY <1>1, <1>2 DEF Definitions, RowsBelong, Types, CrawlerTypes
<1>4. PICK d \in Definitions :
          d = [e EXCEPT !.session = IF l \in grants[e.worker] THEN session[e.worker] ELSE @]
    BY <1>3, SessionMoves DEF Definitions
<1>5. /\ SameRun(e, d) /\ d.worker = e.worker
      /\ l \notin grants[e.worker] => d.session = e.session
      /\ l \in grants[e.worker] => d.session = session[e.worker]
    BY <1>4 DEF Definitions, SameRun
<1>6. outbox' = [outbox EXCEPT ![l].def = d] /\ Send(k, d, "prepare")
    BY <1>1, <1>2, <1>4 DEF AdvanceAwaiting, Rebinds
<1>7. RowPut(l, [def |-> d, phase |-> "AwaitingAcknowledgment"])
    BY <1>1, <1>6, RowDefined DEF Types
<1>8. d.lease = l /\ "prepare" \in Steps
    BY <1>3, <1>5 DEF SameRun, Steps
<1>9. CallSent(k, d, "prepare") /\ RelayTo(l, "waiting")
    BY <1>6, <1>8, SendSends, RelayMoves DEF Types, RelayStages
<1>10. l \notin grants[e.worker] => d = e
    BY <1>5, SameRunSameSession
<1>11. CrawlerTypes'
    BY <1>1, <1>7, <1>9 DEF Types, CrawlerTypes, RowPut, RelayTo
<1> QED
    BY <1>1, <1>2, <1>5, <1>7, <1>9, <1>10, <1>11

LEMMA AcknowledgedDoes ==
    ASSUME Types, NEW l \in LeaseIds, AdvanceAcknowledged(l)
    PROVE  /\ l \in DOMAIN outbox /\ outbox[l].phase = "AcknowledgedDeleting"
           /\ relay[l] = "idle" /\ RelayTo(l, "mark") /\ CrawlerTypes'
           /\ \A w \in Workers : grants'[w] \subseteq grants[w]
           /\ UNCHANGED <<nodeVars, calls, outbox, session, run>>
<1>1. /\ l \in DOMAIN outbox /\ outbox[l].phase = "AcknowledgedDeleting" /\ relay[l] = "idle"
      /\ UNCHANGED <<nodeVars, calls, outbox, session, run>>
      /\ relay' = [relay EXCEPT ![l] = "mark"]
      /\ grants' = [grants EXCEPT ![outbox[l].def.worker] = @ \ {l}]
    BY DEF AdvanceAcknowledged
<1>2. PICK w \in Workers : w = outbox[l].def.worker
    BY <1>1, RowDefinition DEF Types
<1>3. RelayTo(l, "mark") /\ GrantDropped(w, l)
    BY <1>1, <1>2, RelayMoves, GrantDrops DEF Types, RelayStages
<1> QED
    BY <1>1, <1>3 DEF Types, CrawlerTypes, RelayTo, GrantDropped

LEMMA ConfirmingDoes ==
    ASSUME Types, RowsBelong, ErasesAcknowledged, NEW l \in LeaseIds, NEW k,
           AdvanceConfirming(l, k) \/ AdvanceToConfirming(l, k)
    PROVE  /\ l \in DOMAIN outbox /\ outbox[l].phase # "AwaitingAcknowledgment"
           /\ relay[l] # "waiting" /\ RelayTo(l, "waiting") /\ CrawlerTypes'
           /\ RowPut(l, [def |-> outbox[l].def, phase |-> "Confirming"])
           /\ CallSent(k, outbox[l].def, "confirm")
           /\ UNCHANGED <<nodeVars, session, run, grants>>
<1>1. /\ l \in DOMAIN outbox /\ outbox[l].phase # "AwaitingAcknowledgment" /\ relay[l] # "waiting"
      /\ UNCHANGED <<nodeVars, session, run, grants>>
      /\ Send(k, outbox[l].def, "confirm")
    BY DEF AdvanceConfirming, AdvanceToConfirming, ErasesAcknowledged
<1>2. RowPut(l, [def |-> outbox[l].def, phase |-> "Confirming"])
    <2>1. CASE AdvanceConfirming(l, k)
        <3>1. outbox[l].phase = "Confirming" /\ UNCHANGED outbox
            BY <2>1 DEF AdvanceConfirming
        <3> QED
            BY <1>1, <3>1, RowDefinition DEF RowPut, Types, CrawlerTypes
    <2>2. CASE AdvanceToConfirming(l, k)
        BY <1>1, <2>2, RowPhased DEF AdvanceToConfirming, Phases, Types
    <2> QED
        BY <2>1, <2>2
<1>3. outbox[l].def \in Definitions /\ outbox[l].def.lease = l
    BY <1>1, RowDefinition DEF RowsBelong, Types
<1>4. CallSent(k, outbox[l].def, "confirm") /\ relay' = [relay EXCEPT ![l] = "waiting"]
    BY <1>1, <1>3, SendSends DEF Types, Steps
<1>5. RelayTo(l, "waiting")
    BY <1>4, RelayMoves DEF Types, RelayStages
<1>6. CrawlerTypes'
    BY <1>1, <1>2, <1>5 DEF Types, CrawlerTypes, RowPut, RelayTo
<1> QED
    BY <1>1, <1>2, <1>4, <1>5, <1>6

LEMMA EraseDoes ==
    ASSUME Types, ErasesAcknowledged, NEW l \in LeaseIds, MarkDeleting(l) \/ Erase(l)
    PROVE  /\ l \in DOMAIN outbox /\ outbox[l].phase = "AcknowledgedDeleting" /\ relay[l] # "waiting"
           /\ \E s \in {"erase", "advance"} : RelayTo(l, s)
           /\ CrawlerTypes' /\ UNCHANGED <<nodeVars, calls, outbox, session, run, grants>>
<1>1. /\ relay[l] \in {"mark", "erase"} /\ UNCHANGED <<nodeVars, calls, outbox, session, run, grants>>
      /\ \E s \in {"erase", "advance"} : relay' = [relay EXCEPT ![l] = s]
    BY DEF MarkDeleting, Erase
<1>2. PICK s \in {"erase", "advance"} : RelayTo(l, s)
    BY <1>1, RelayMoves DEF Types, RelayStages
<1>3. CrawlerTypes'
    BY <1>1, <1>2 DEF Types, CrawlerTypes, RelayTo
<1> QED
    BY <1>1, <1>2, <1>3 DEF ErasesAcknowledged

LEMMA TokenDoes ==
    ASSUME Types, RelayInv, NEW k \in DOMAIN calls, ReceiveToken(k), NEW l, l = calls[k].def.lease
    PROVE  /\ calls[k].step = "token" /\ calls[k].awaited /\ l \in LeaseIds /\ l \in DOMAIN outbox
           /\ RowPut(l, [def |-> outbox[l].def, phase |-> "AcknowledgedDeleting"])
           /\ RelayTo(l, "mark") /\ CallRead(k) /\ CrawlerTypes'
           /\ \A w \in Workers : grants'[w] \subseteq grants[w]
           /\ UNCHANGED <<nodeVars, session, run>>
<1>1. /\ calls[k].step = "token" /\ UNCHANGED <<nodeVars, session, run>>
      /\ outbox' = [outbox EXCEPT ![l].phase = "AcknowledgedDeleting"]
      /\ relay' = [relay EXCEPT ![l] = "mark"]
      /\ grants' = [grants EXCEPT ![calls[k].def.worker] = @ \ {l}]
      /\ calls' = Delete(calls, k)
    BY DEF ReceiveToken
<1>2. calls[k].awaited /\ l \in LeaseIds /\ l \in DOMAIN outbox /\ calls[k].def.worker \in Workers
    BY <1>1, CallDefined DEF RelayInv, AnswersAwaited, AwaitedHasRow, Answers, Types
<1>3. RowPut(l, [def |-> outbox[l].def, phase |-> "AcknowledgedDeleting"])
    BY <1>1, <1>2, RowPhased DEF Types, Phases
<1>4. RelayTo(l, "mark") /\ GrantDropped(calls[k].def.worker, l) /\ CallRead(k)
    BY <1>1, <1>2, RelayMoves, GrantDrops, DeleteReads DEF Types, RelayStages
<1>5. CrawlerTypes'
    BY <1>1, <1>2, <1>3, <1>4 DEF Types, CrawlerTypes, RowPut, RelayTo, GrantDropped
<1> QED
    BY <1>1, <1>2, <1>3, <1>4, <1>5 DEF GrantDropped

LEMMA EndDoes ==
    ASSUME Types, RelayInv, NEW k \in DOMAIN calls, ReceiveEnd(k), NEW l, l = calls[k].def.lease
    PROVE  /\ calls[k].step \in {"confirmed", "refused"} /\ calls[k].awaited
           /\ l \in LeaseIds /\ l \in DOMAIN outbox
           /\ RowGone(l) /\ RelayTo(l, "idle") /\ CallRead(k) /\ CrawlerTypes'
           /\ \A w \in Workers : grants'[w] \subseteq grants[w]
           /\ UNCHANGED <<nodeVars, session, run>>
<1>1. /\ calls[k].step \in {"confirmed", "refused"} /\ UNCHANGED <<nodeVars, session, run>>
      /\ outbox' = Delete(outbox, l)
      /\ relay' = [relay EXCEPT ![l] = "idle"]
      /\ grants' = [grants EXCEPT ![calls[k].def.worker] = @ \ {l}]
      /\ calls' = Delete(calls, k)
    BY DEF ReceiveEnd
<1>2. calls[k].awaited /\ l \in LeaseIds /\ l \in DOMAIN outbox /\ calls[k].def.worker \in Workers
    BY <1>1, CallDefined DEF RelayInv, AnswersAwaited, AwaitedHasRow, Answers, Types
<1>3. RowGone(l)
    BY <1>1, RowDeleted DEF Types
<1>4. RelayTo(l, "idle") /\ GrantDropped(calls[k].def.worker, l) /\ CallRead(k)
    BY <1>1, <1>2, RelayMoves, GrantDrops, DeleteReads DEF Types, RelayStages
<1>5. CrawlerTypes'
    BY <1>1, <1>2, <1>3, <1>4 DEF Types, CrawlerTypes, RowGone, RelayTo, GrantDropped
<1> QED
    BY <1>1, <1>2, <1>3, <1>4, <1>5 DEF GrantDropped

LEMMA FailureDoes ==
    ASSUME Types, RelayInv, NEW k \in DOMAIN calls, ReceiveFailure(k), NEW l, l = calls[k].def.lease
    PROVE  /\ calls[k].awaited /\ l \in LeaseIds
           /\ RelayTo(l, "idle") /\ CallRead(k) /\ CrawlerTypes'
           /\ UNCHANGED <<nodeVars, outbox, session, run, grants>>
<1>1. /\ calls[k].step \in Answers /\ UNCHANGED <<nodeVars, outbox, session, run, grants>>
      /\ relay' = [relay EXCEPT ![l] = "idle"] /\ calls' = Delete(calls, k)
    BY DEF ReceiveFailure, Answers
<1>2. calls[k].awaited /\ l \in LeaseIds
    BY <1>1, CallDefined DEF RelayInv, AnswersAwaited, Types
<1>3. RelayTo(l, "idle") /\ CallRead(k)
    BY <1>1, <1>2, RelayMoves, DeleteReads DEF Types, RelayStages
<1>4. CrawlerTypes'
    BY <1>1, <1>2, <1>3 DEF Types, CrawlerTypes, RelayTo
<1> QED
    BY <1>1, <1>2, <1>3, <1>4

(* Calls nobody awaits any more go on.                                     *)
CallsLeft(kept, left) ==
    /\ CallTypes'
    /\ DOMAIN calls' = kept
    /\ \A j \in kept \cap left :
          /\ calls'[j].def = calls[j].def /\ calls'[j].step = calls[j].step
          /\ calls'[j].delivered = calls[j].delivered
          /\ ~calls'[j].awaited /\ calls[j].step \in Steps
    /\ \A j \in kept \ left : calls'[j] = calls[j]

LEMMA TimeoutDoes ==
    ASSUME Types, NEW k \in DOMAIN calls, Timeout(k), NEW l, l = calls[k].def.lease
    PROVE  /\ calls[k].awaited /\ l \in LeaseIds
           /\ RelayTo(l, "idle") /\ CallsLeft(DOMAIN calls, {k}) /\ CrawlerTypes'
           /\ UNCHANGED <<nodeVars, outbox, session, run, grants>>
<1>1. /\ calls[k].awaited /\ calls[k].step \in Steps
      /\ UNCHANGED <<nodeVars, outbox, session, run, grants>>
      /\ relay' = [relay EXCEPT ![l] = "idle"]
      /\ calls' = [calls EXCEPT ![k].awaited = FALSE]
    BY DEF Timeout
<1>2. l \in LeaseIds
    BY CallDefined DEF Types
<1>3. RelayTo(l, "idle")
    BY <1>1, <1>2, RelayMoves DEF Types, RelayStages
<1>4. PICK c \in CallRecord : c = calls[k]
    BY CallDefined DEF Types
<1>5. PICK n \in CallRecord : n = [c EXCEPT !.awaited = FALSE]
    BY DEF CallRecord
<1>6. n.def = c.def /\ n.step = c.step /\ n.delivered = c.delivered /\ ~n.awaited
    BY <1>5 DEF CallRecord
<1>7. calls' = [calls EXCEPT ![k] = n]
    BY <1>1, <1>4, <1>5
<1>8. CallsLeft(DOMAIN calls, {k})
    BY <1>1, <1>4, <1>6, <1>7 DEF CallsLeft, CallTypes, Types
<1>9. CrawlerTypes'
    BY <1>1, <1>2, <1>3 DEF Types, CrawlerTypes, RelayTo
<1> QED
    BY <1>1, <1>2, <1>3, <1>8, <1>9

LEMMA CrawlerRestartDoes ==
    ASSUME Types, NEW w \in Workers, CrawlerRestart(w)
    PROVE  /\ CrawlerTypes' /\ UNCHANGED <<nodeVars, outbox>>
           /\ session[w] < session'[w] /\ \A x \in Workers \ {w} : session'[x] = session[x]
           /\ \A o \in Orders : run'[w][o] = None
           /\ \A x \in Workers \ {w} : run'[x] = run[x] /\ grants'[x] = grants[x]
           /\ grants'[w] = {}
           /\ \A l \in LeaseIds :
                 IF l \in DOMAIN outbox /\ outbox[l].def.worker = w THEN relay'[l] = "idle"
                 ELSE relay'[l] = relay[l]
           /\ CallsLeft({k \in DOMAIN calls : calls[k].def.worker # w \/ calls[k].step \in Steps},
                        {k \in DOMAIN calls : calls[k].def.worker = w})
<1> USE DEF nodeVars
<1>1. /\ UNCHANGED <<nodeVars, outbox>> /\ session' = [session EXCEPT ![w] = @ + 1]
      /\ run' = [run EXCEPT ![w] = [o \in Orders |-> None]]
      /\ grants' = [grants EXCEPT ![w] = {}]
      /\ relay' = [l \in LeaseIds |->
                      IF l \in DOMAIN outbox /\ outbox[l].def.worker = w THEN "idle" ELSE relay[l]]
    BY DEF CrawlerRestart
<1>2. session' \in [Workers -> Sessions] /\ session[w] < session'[w]
      /\ \A x \in Workers \ {w} : session'[x] = session[x]
    <2>1. session[w] \in Sessions /\ session[w] < MaxSession /\ session[w] + 1 \in Sessions
        BY TerminalAssumption DEF CrawlerRestart, Types, CrawlerTypes, Sessions
    <2>2. session[w] < session[w] + 1
        BY <2>1 DEF Sessions
    <2> QED
        BY <1>1, <2>1, <2>2 DEF Types, CrawlerTypes
<1>3. /\ run' \in [Workers -> [Orders -> LeaseIds \cup {None}]]
      /\ \A o \in Orders : run'[w][o] = None /\ \A x \in Workers \ {w} : run'[x] = run[x]
    <2>1. [o \in Orders |-> None] \in [Orders -> LeaseIds \cup {None}]
        OBVIOUS
    <2> QED
        BY <1>1, <2>1 DEF Types, CrawlerTypes
<1>4. \A x \in Workers \ {w} : run'[x] = run[x]
    BY <1>1 DEF Types, CrawlerTypes
<1>5. /\ grants' \in [Workers -> SUBSET LeaseIds] /\ grants'[w] = {}
      /\ \A x \in Workers \ {w} : grants'[x] = grants[x]
    BY <1>1 DEF Types, CrawlerTypes
<1>6. relay' \in [LeaseIds -> RelayStages]
    BY <1>1 DEF Types, CrawlerTypes, RelayStages
<1>7. CrawlerTypes'
    BY <1>1, <1>2, <1>3, <1>5, <1>6 DEF Types, CrawlerTypes
<1> DEFINE kept == {k \in DOMAIN calls : calls[k].def.worker # w \/ calls[k].step \in Steps}
           left == {k \in DOMAIN calls : calls[k].def.worker = w}
           now(k) == IF calls[k].def.worker = w THEN [calls[k] EXCEPT !.awaited = FALSE] ELSE calls[k]
<1>8. calls' = [k \in kept |-> now(k)]
    BY DEF CrawlerRestart
<1>9. ASSUME NEW k \in kept
      PROVE  /\ now(k) \in CallRecord
             /\ k \in left => /\ now(k).def = calls[k].def /\ now(k).step = calls[k].step
                              /\ now(k).delivered = calls[k].delivered
                              /\ ~now(k).awaited /\ calls[k].step \in Steps
             /\ k \notin left => now(k) = calls[k]
    <2>1. PICK c \in CallRecord : c = calls[k]
        BY <1>9, CallDefined DEF Types
    <2>2. PICK n \in CallRecord : n = [c EXCEPT !.awaited = FALSE]
        BY DEF CallRecord
    <2>3. n.def = c.def /\ n.step = c.step /\ n.delivered = c.delivered /\ ~n.awaited
        BY <2>2 DEF CallRecord
    <2> QED
        BY <1>9, <2>1, <2>2, <2>3
<1> HIDE DEF now
<1>10. DOMAIN calls' = kept /\ CallTypes'
    BY <1>8, <1>9 DEF CallTypes
<1>11. CallsLeft(kept, left)
    BY <1>8, <1>9, <1>10 DEF CallsLeft
<1> QED
    BY <1>1, <1>2, <1>3, <1>4, <1>5, <1>7, <1>11

-----------------------------------------------------------------------------
(* The first two parts of the invariant hold after a step of a crawler.    *)

(* What the node keeps is as it was, and so is what belongs to it.         *)
LEMMA NodeUnchanged ==
    ASSUME NodeTypes, HoldInv, UNCHANGED nodeVars
    PROVE  /\ NodeTypes' /\ DOMAIN leases' \subseteq issued' /\ SettledSpent' /\ AcknowledgedGone'
           /\ \A l, w, o : Belongs(l, w, o) => Belongs(l, w, o)'
<1> USE DEF nodeVars, leaseVars
<1>1. UNCHANGED <<leases, issued, settlements, deliveries, acknowledged>>
    OBVIOUS
<1>2. NodeTypes' /\ DOMAIN leases' \subseteq issued' /\ AcknowledgedGone'
    BY <1>1 DEF NodeTypes, HoldInv, AcknowledgedGone
<1>3. SettledSpent'
    BY <1>1 DEF HoldInv, SettledSpent, Spent, Belongs
<1>4. \A l, w, o : Belongs(l, w, o) => Belongs(l, w, o)'
    BY <1>1 DEF Belongs
<1> QED
    BY <1>2, <1>3, <1>4

LEMMA CrawlerStepHolds ==
    ASSUME Types, HoldInv, RelayInv, CrawlerStep
    PROVE  Types' /\ HoldInv' /\ RelayInv'
<1> USE DEF nodeVars, leaseVars
<1>1. ASSUME UNCHANGED nodeVars, CallTypes', CrawlerTypes', RowsBelong', CallsBelong', RunsBelong'
      PROVE  Types' /\ HoldInv'
    BY <1>1, NodeUnchanged DEF Types, HoldInv
<1>2. ASSUME UNCHANGED nodeVars, UNCHANGED outbox PROVE RowsBelong'
    BY <1>2 DEF HoldInv, RowsBelong, Belongs
<1>3. ASSUME UNCHANGED nodeVars, UNCHANGED run PROVE RunsBelong'
    BY <1>3 DEF HoldInv, RunsBelong, Belongs
<1>4. ASSUME UNCHANGED nodeVars, DOMAIN calls' \subseteq DOMAIN calls,
             \A k \in DOMAIN calls' : calls'[k].def = calls[k].def
      PROVE  CallsBelong'
    BY <1>4 DEF HoldInv, CallsBelong, Belongs
<1>5. ASSUME UNCHANGED nodeVars, NEW l \in LeaseIds, NEW e, NEW p, RowPut(l, [def |-> e, phase |-> p]),
             e.lease = l, Belongs(l, e.worker, e.order)
      PROVE  RowsBelong'
    <2>1. outbox'[l].def = e /\ Belongs(l, e.worker, e.order)'
        BY <1>5, NodeUnchanged DEF RowPut, Types
    <2>2. ASSUME NEW x \in DOMAIN outbox'
          PROVE  outbox'[x].def.lease = x /\
                 Belongs(x, outbox[x].def.worker, outbox[x].def.order)'
        <3>1. CASE x = l
            BY <1>5, <2>1, <3>1 DEF Belongs
        <3>2. CASE x # l
            <4>1. x \in DOMAIN outbox /\ outbox'[x] = outbox[x]
                BY <1>5, <2>2, <3>2 DEF RowPut
            <4>2. outbox[x].def.lease = x /\ Belongs(x, outbox[x].def.worker, outbox[x].def.order)
                BY <4>1 DEF HoldInv, RowsBelong
            <4> QED
                BY <1>5, <4>1, <4>2 DEF Belongs
        <3> QED
            BY <3>1, <3>2
    <2> QED
        BY <2>2 DEF RowsBelong
<1>6. ASSUME NEW l \in DOMAIN leases, Deliver(l) PROVE Types' /\ HoldInv' /\ RelayInv'
    <2>1. PICK w, o : w = leases[l].worker /\ o = leases[l].order
        OBVIOUS
    <2>2. /\ w \in Workers /\ o \in Orders /\ CrawlerTypes' /\ run' = [run EXCEPT ![w][o] = l]
          /\ UNCHANGED <<nodeVars, calls, outbox, relay>>
        BY <1>6, <2>1, DeliverDoes
    <2>3. Belongs(l, w, o)
        BY <2>1 DEF Belongs, HoldInv
    <2>4. \A x \in Workers, y \in Orders : run'[x][y] = IF x = w /\ y = o THEN l ELSE run[x][y]
        BY <2>2 DEF Types, CrawlerTypes
    <2>5. RunsBelong'
        BY <2>2, <2>3, <2>4 DEF RunsBelong, HoldInv, Belongs
    <2>6. Types' /\ HoldInv'
        BY <1>1, <1>2, <1>4, <2>2, <2>5 DEF Types, CallTypes
    <2>7. RelayInv'
        BY <2>2 DEF RelayInv, AnswersAwaited, AwaitedHasRow, OneAwaited, ErasesAcknowledged
    <2> QED
        BY <2>6, <2>7
<1>7. ASSUME NEW w \in Workers, NEW o \in Orders, Complete(w, o)
      PROVE  Types' /\ HoldInv' /\ RelayInv'
    <2>1. UNCHANGED <<nodeVars, calls, outbox, session, run, grants, relay>>
        BY <1>7 DEF Complete
    <2>2. Types' /\ HoldInv'
        BY <1>1, <1>2, <1>3, <1>4, <2>1 DEF Types, CallTypes, CrawlerTypes
    <2>3. RelayInv'
        BY <2>1 DEF RelayInv, AnswersAwaited, AwaitedHasRow, OneAwaited, ErasesAcknowledged
    <2> QED
        BY <2>2, <2>3
<1>8. ASSUME NEW w \in Workers, NEW o \in Orders, NEW c \in Outcomes, NEW t \in Tallies,
             Settle(w, o, c, t)
      PROVE  Types' /\ HoldInv' /\ RelayInv'
    <2>1. PICK d : d = Settlement(w, o, c, t)
        OBVIOUS
    <2>2. /\ d \in Definitions /\ run[w][o] # None
          /\ CrawlerTypes' /\ run' = [run EXCEPT ![w][o] = None]
          /\ \/ UNCHANGED outbox
             \/ /\ RowPut(d.lease, [def |-> d, phase |-> "AwaitingAcknowledgment"])
                /\ \/ d.lease \notin DOMAIN outbox
                   \/ /\ d.lease \in DOMAIN outbox
                      /\ outbox[d.lease].phase = "AwaitingAcknowledgment"
                      /\ SameRun(outbox[d.lease].def, d)
          /\ UNCHANGED <<nodeVars, calls, session, grants, relay>>
        BY <1>8, <2>1, SettleDoes
    <2>3. d.lease = run[w][o] /\ d.worker = w /\ d.order = o /\ d.lease \in LeaseIds
        BY <2>1, <2>2 DEF Settlement, Definitions
    <2>4. Belongs(d.lease, d.worker, d.order)
        BY <2>2, <2>3 DEF HoldInv, RunsBelong
    <2>5. RowsBelong'
        BY <1>2, <1>5, <2>2, <2>3, <2>4
    <2>6. RunsBelong'
        <3>1. \A x \in Workers, y \in Orders : run'[x][y] = IF x = w /\ y = o THEN None ELSE run[x][y]
            BY <2>2 DEF Types, CrawlerTypes
        <3> QED
            BY <2>2, <3>1 DEF RunsBelong, HoldInv, Belongs
    <2>7. Types' /\ HoldInv'
        BY <1>1, <1>4, <2>2, <2>5, <2>6 DEF Types, CallTypes
    <2>8. RelayInv'
        <3>1. CASE UNCHANGED outbox
            BY <2>2, <3>1 DEF RelayInv, AnswersAwaited, AwaitedHasRow, OneAwaited, ErasesAcknowledged
        <3>2. CASE /\ RowPut(d.lease, [def |-> d, phase |-> "AwaitingAcknowledgment"])
                   /\ \/ d.lease \notin DOMAIN outbox
                      \/ /\ d.lease \in DOMAIN outbox
                         /\ outbox[d.lease].phase = "AwaitingAcknowledgment"
                         /\ SameRun(outbox[d.lease].def, d)
            <4>1. outbox'[d.lease].def = d
                BY <3>2 DEF RowPut
            <4>2. AwaitedHasRow'
                <5>1. ASSUME NEW k \in DOMAIN calls, calls[k].awaited
                      PROVE  /\ relay[calls[k].def.lease] = "waiting"
                             /\ calls[k].def.lease \in DOMAIN outbox'
                             /\ SameRun(calls[k].def, outbox'[calls[k].def.lease].def)
                    <6>1. /\ relay[calls[k].def.lease] = "waiting"
                          /\ calls[k].def.lease \in DOMAIN outbox
                          /\ SameRun(calls[k].def, outbox[calls[k].def.lease].def)
                        BY <5>1 DEF RelayInv, AwaitedHasRow
                    <6>2. CASE calls[k].def.lease = d.lease
                        BY <3>2, <4>1, <6>1, <6>2 DEF SameRun, RowPut
                    <6>3. CASE calls[k].def.lease # d.lease
                        BY <3>2, <6>1, <6>3 DEF RowPut
                    <6> QED
                        BY <6>2, <6>3
                <5> QED
                    BY <2>2, <5>1 DEF AwaitedHasRow
            <4>3. ErasesAcknowledged'
                <5>1. ASSUME NEW l \in LeaseIds, relay[l] \in {"mark", "erase", "advance"}
                      PROVE  l \in DOMAIN outbox' /\ outbox'[l].phase = "AcknowledgedDeleting"
                    <6>1. l \in DOMAIN outbox /\ outbox[l].phase = "AcknowledgedDeleting"
                        BY <5>1 DEF RelayInv, ErasesAcknowledged
                    <6>2. l # d.lease
                        BY <3>2, <6>1
                    <6> QED
                        BY <3>2, <6>1, <6>2 DEF RowPut
                <5> QED
                    BY <2>2, <5>1 DEF ErasesAcknowledged
            <4> QED
                BY <2>2, <4>2, <4>3 DEF RelayInv, AnswersAwaited, OneAwaited
        <3> QED
            BY <2>2, <3>1, <3>2
    <2> QED
        BY <2>7, <2>8
(* A call is sent for row l, whose relay was idle or at the end of the     *)
(* deletion.                                                               *)
<1>9. ASSUME NEW l \in LeaseIds, NEW k, NEW e \in Definitions, NEW p, NEW s \in Steps, l \in DOMAIN outbox,
             SameRun(outbox[l].def, e), RowPut(l, [def |-> e, phase |-> p]), CallSent(k, e, s),
             relay[l] # "waiting", RelayTo(l, "waiting"), CrawlerTypes', UNCHANGED <<nodeVars, run>>
      PROVE  Types' /\ HoldInv' /\ RelayInv'
    <2>1. outbox[l].def.lease = l /\ Belongs(l, outbox[l].def.worker, outbox[l].def.order)
        BY <1>9 DEF HoldInv, RowsBelong
    <2>2. e.lease = l /\ Belongs(l, e.worker, e.order)
        BY <1>9, <2>1 DEF SameRun
    <2>3. RowsBelong'
        BY <1>5, <1>9, <2>2
    <2>4. calls'[k].def = e /\ calls'[k].awaited /\ calls'[k].step = s
        BY <1>9 DEF CallSent
    <2>5. \A j \in DOMAIN calls' : j = k \/ (j \in DOMAIN calls /\ calls'[j] = calls[j])
        BY <1>9 DEF CallSent
    <2>6. CallsBelong'
        <3>1. \A j \in DOMAIN calls : Belongs(calls[j].def.lease, calls[j].def.worker, calls[j].def.order)
            BY DEF HoldInv, CallsBelong
        <3> QED
            BY <1>9, <2>2, <2>4, <2>5, <3>1 DEF CallsBelong, Belongs
    <2>7. Types' /\ HoldInv'
        BY <1>1, <1>3, <1>9, <2>3, <2>6 DEF CallSent
    <2>8. ASSUME NEW j \in DOMAIN calls, calls[j].awaited
          PROVE  /\ calls[j].def.lease # l /\ calls[j].def.lease \in LeaseIds
                 /\ relay[calls[j].def.lease] = "waiting"
                 /\ calls[j].def.lease \in DOMAIN outbox
                 /\ SameRun(calls[j].def, outbox[calls[j].def.lease].def)
        BY <1>9, <2>8, CallDefined DEF RelayInv, AwaitedHasRow, Types
    <2>9. AnswersAwaited'
        BY <2>4, <2>5 DEF RelayInv, AnswersAwaited
    <2>10. AwaitedHasRow'
        <3>1. ASSUME NEW j \in DOMAIN calls', calls'[j].awaited
              PROVE  /\ relay'[calls'[j].def.lease] = "waiting"
                     /\ calls'[j].def.lease \in DOMAIN outbox'
                     /\ SameRun(calls'[j].def, outbox'[calls'[j].def.lease].def)
            <4>1. CASE j = k
                <5>1. outbox'[l].def = e /\ l \in DOMAIN outbox' /\ relay'[l] = "waiting"
                    BY <1>9 DEF RowPut, RelayTo
                <5> QED
                    BY <2>2, <2>4, <4>1, <5>1 DEF SameRun
            <4>2. CASE j # k
                <5>1. j \in DOMAIN calls /\ calls'[j] = calls[j] /\ calls[j].awaited
                    BY <2>5, <3>1, <4>2
                <5> QED
                    BY <1>9, <2>8, <5>1 DEF RowPut, RelayTo
            <4> QED
                BY <4>1, <4>2
        <3> QED
            BY <3>1 DEF AwaitedHasRow
    <2>11. OneAwaited'
        <3>1. ASSUME NEW i \in DOMAIN calls', NEW j \in DOMAIN calls', calls'[i].awaited,
                     calls'[j].awaited, calls'[i].def.lease = calls'[j].def.lease
              PROVE  i = j
            <4>1. CASE i = k \/ j = k
                BY <2>2, <2>4, <2>5, <2>8, <3>1, <4>1
            <4>2. CASE i # k /\ j # k
                BY <2>5, <3>1, <4>2 DEF RelayInv, OneAwaited
            <4> QED
                BY <4>1, <4>2
        <3> QED
            BY <3>1 DEF OneAwaited
    <2>12. ErasesAcknowledged'
        <3>1. ASSUME NEW x \in LeaseIds, relay'[x] \in {"mark", "erase", "advance"}
              PROVE  x \in DOMAIN outbox' /\ outbox'[x].phase = "AcknowledgedDeleting"
            BY <1>9, <3>1 DEF RelayTo, RowPut, RelayInv, ErasesAcknowledged
        <3> QED
            BY <3>1 DEF ErasesAcknowledged
    <2> QED
        BY <2>7, <2>9, <2>10, <2>11, <2>12 DEF RelayInv
(* The call awaited for row l is not any more.                             *)
<1>10. ASSUME NEW l \in LeaseIds, NEW s, s # "waiting", RelayTo(l, s), CallsStay,
              \A j \in DOMAIN calls' : calls'[j].awaited => calls'[j].def.lease # l,
              \A x \in DOMAIN outbox \ {l} : x \in DOMAIN outbox' /\ outbox'[x] = outbox[x],
              s \in {"mark", "erase", "advance"} =>
                  l \in DOMAIN outbox' /\ outbox'[l].phase = "AcknowledgedDeleting",
              RowsBelong', CrawlerTypes', UNCHANGED <<nodeVars, run>>
       PROVE  Types' /\ HoldInv' /\ RelayInv'
    <2>1. /\ CallTypes' /\ DOMAIN calls' \subseteq DOMAIN calls
          /\ \A k \in DOMAIN calls' : /\ calls'[k].def = calls[k].def
                                      /\ calls'[k].awaited => calls[k].awaited
        BY <1>10 DEF CallsStay
    <2>2. Types' /\ HoldInv'
        BY <1>1, <1>3, <1>4, <1>10, <2>1
    <2>3. AnswersAwaited'
        BY <1>10 DEF AnswersAwaited, CallsStay
    <2>4. AwaitedHasRow'
        <3>1. ASSUME NEW j \in DOMAIN calls', calls'[j].awaited
              PROVE  /\ relay'[calls'[j].def.lease] = "waiting"
                     /\ calls'[j].def.lease \in DOMAIN outbox'
                     /\ SameRun(calls'[j].def, outbox'[calls'[j].def.lease].def)
            <4>1. /\ calls[j].def.lease # l /\ calls[j].def.lease \in LeaseIds
                  /\ relay[calls[j].def.lease] = "waiting"
                  /\ calls[j].def.lease \in DOMAIN outbox
                  /\ SameRun(calls[j].def, outbox[calls[j].def.lease].def)
                BY <1>10, <2>1, <3>1, CallDefined DEF RelayInv, AwaitedHasRow, Types
            <4> QED
                BY <1>10, <2>1, <3>1, <4>1 DEF RelayTo
        <3> QED
            BY <3>1 DEF AwaitedHasRow
    <2>5. OneAwaited'
        BY <2>1 DEF RelayInv, OneAwaited
    <2>6. ErasesAcknowledged'
        <3>1. ASSUME NEW x \in LeaseIds, relay'[x] \in {"mark", "erase", "advance"}
              PROVE  x \in DOMAIN outbox' /\ outbox'[x].phase = "AcknowledgedDeleting"
            BY <1>10, <3>1 DEF RelayTo, RelayInv, ErasesAcknowledged
        <3> QED
            BY <3>1 DEF ErasesAcknowledged
    <2> QED
        BY <2>2, <2>3, <2>4, <2>5, <2>6 DEF RelayInv
<1>11. ASSUME NEW k \in DOMAIN calls, calls[k].awaited, CallRead(k)
       PROVE  /\ CallsStay
              /\ \A j \in DOMAIN calls' : calls'[j].awaited => calls'[j].def.lease # calls[k].def.lease
    BY <1>11 DEF CallRead, CallsStay, RelayInv, OneAwaited, AnswersAwaited
<1>12. ASSUME NEW l \in LeaseIds, relay[l] # "waiting", UNCHANGED calls
       PROVE  /\ CallsStay
              /\ \A j \in DOMAIN calls' : calls'[j].awaited => calls'[j].def.lease # l
    BY <1>12, CallsUnchanged DEF RelayInv, AwaitedHasRow, Types
<1>13. ASSUME NEW l \in LeaseIds, Advance(l) PROVE Types' /\ HoldInv' /\ RelayInv'
    <2>1. ASSUME NEW k \in Calls, AdvanceAwaiting(l, k) PROVE Types' /\ HoldInv' /\ RelayInv'
        <3>1. /\ l \in DOMAIN outbox /\ relay[l] = "idle" /\ RelayTo(l, "waiting") /\ CrawlerTypes'
              /\ UNCHANGED <<nodeVars, run>>
            BY <2>1, AwaitingDoes DEF HoldInv
        <3>2. PICK d \in Definitions : /\ SameRun(outbox[l].def, d)
                                       /\ RowPut(l, [def |-> d, phase |-> "AwaitingAcknowledgment"])
                                       /\ CallSent(k, d, "prepare")
            BY <2>1, AwaitingDoes DEF HoldInv
        <3> QED
            BY <1>9, <3>1, <3>2 DEF Steps
    <2>2. ASSUME NEW k \in Calls, AdvanceConfirming(l, k) \/ AdvanceToConfirming(l, k)
          PROVE  Types' /\ HoldInv' /\ RelayInv'
        <3>1. /\ l \in DOMAIN outbox /\ relay[l] # "waiting" /\ RelayTo(l, "waiting") /\ CrawlerTypes'
              /\ RowPut(l, [def |-> outbox[l].def, phase |-> "Confirming"])
              /\ CallSent(k, outbox[l].def, "confirm")
              /\ UNCHANGED <<nodeVars, run>>
            BY <2>2, ConfirmingDoes DEF HoldInv, RelayInv
        <3>2. PICK d \in Definitions : d = outbox[l].def
            BY <3>1, RowDefinition DEF Types
        <3>3. SameRun(outbox[l].def, d)
            BY <3>2 DEF SameRun
        <3> QED
            BY <1>9, <3>1, <3>2, <3>3 DEF Steps
    <2>3. CASE AdvanceAcknowledged(l)
        <3>1. /\ l \in DOMAIN outbox /\ outbox[l].phase = "AcknowledgedDeleting"
              /\ relay[l] = "idle" /\ RelayTo(l, "mark") /\ CrawlerTypes'
              /\ UNCHANGED <<nodeVars, calls, outbox, run>>
            BY <2>3, AcknowledgedDoes
        <3> QED
            BY <1>2, <1>10, <1>12, <3>1
    <2>4. CASE MarkDeleting(l) \/ Erase(l)
        <3>1. /\ l \in DOMAIN outbox /\ outbox[l].phase = "AcknowledgedDeleting" /\ relay[l] # "waiting"
              /\ CrawlerTypes' /\ UNCHANGED <<nodeVars, calls, outbox, run>>
            BY <2>4, EraseDoes DEF RelayInv
        <3>2. PICK s \in {"erase", "advance"} : RelayTo(l, s)
            BY <2>4, EraseDoes DEF RelayInv
        <3> QED
            BY <1>2, <1>10, <1>12, <3>1, <3>2
    <2> QED
        BY <1>13, <2>1, <2>2, <2>3, <2>4 DEF Advance
<1>14. ASSUME NEW k \in DOMAIN calls, Receive(k) \/ Timeout(k)
       PROVE  Types' /\ HoldInv' /\ RelayInv'
    <2>1. PICK l : l = calls[k].def.lease
        OBVIOUS
    <2>2. CASE ReceiveToken(k)
        <3>1. /\ calls[k].awaited /\ l \in LeaseIds /\ l \in DOMAIN outbox
              /\ RowPut(l, [def |-> outbox[l].def, phase |-> "AcknowledgedDeleting"])
              /\ RelayTo(l, "mark") /\ CallRead(k) /\ CrawlerTypes'
              /\ UNCHANGED <<nodeVars, run>>
            BY <2>1, <2>2, TokenDoes
        <3>2. outbox[l].def.lease = l /\ Belongs(l, outbox[l].def.worker, outbox[l].def.order)
            BY <3>1 DEF HoldInv, RowsBelong
        <3>3. RowsBelong'
            BY <1>5, <3>1, <3>2
        <3>4. /\ l \in DOMAIN outbox' /\ outbox'[l].phase = "AcknowledgedDeleting"
              /\ \A x \in DOMAIN outbox \ {l} : x \in DOMAIN outbox' /\ outbox'[x] = outbox[x]
            BY <3>1 DEF RowPut
        <3> QED
            BY <1>10, <1>11, <2>1, <3>1, <3>3, <3>4
    <2>3. CASE ReceiveEnd(k)
        <3>1. /\ calls[k].awaited /\ l \in LeaseIds
              /\ RowGone(l) /\ RelayTo(l, "idle") /\ CallRead(k) /\ CrawlerTypes'
              /\ UNCHANGED <<nodeVars, run>>
            BY <2>1, <2>3, EndDoes
        <3>2. RowsBelong'
            BY <3>1 DEF RowGone, HoldInv, RowsBelong, Belongs
        <3>3. \A x \in DOMAIN outbox \ {l} : x \in DOMAIN outbox' /\ outbox'[x] = outbox[x]
            BY <3>1 DEF RowGone
        <3> QED
            BY <1>10, <1>11, <2>1, <3>1, <3>2, <3>3
    <2>4. CASE ReceiveFailure(k)
        <3>1. /\ calls[k].awaited /\ l \in LeaseIds
              /\ RelayTo(l, "idle") /\ CallRead(k) /\ CrawlerTypes'
              /\ UNCHANGED <<nodeVars, outbox, run>>
            BY <2>1, <2>4, FailureDoes
        <3> QED
            BY <1>2, <1>10, <1>11, <2>1, <3>1
    <2>5. CASE Timeout(k)
        <3>1. /\ calls[k].awaited /\ l \in LeaseIds
              /\ RelayTo(l, "idle") /\ CallsLeft(DOMAIN calls, {k}) /\ CrawlerTypes'
              /\ UNCHANGED <<nodeVars, outbox, run>>
            BY <2>1, <2>5, TimeoutDoes
        <3>2. ASSUME NEW j \in DOMAIN calls'
              PROVE  /\ j \in DOMAIN calls /\ calls'[j].def = calls[j].def
                     /\ calls'[j].awaited => calls[j].awaited /\ j # k
                     /\ calls'[j].step \in Answers => calls'[j].awaited
            <4>1. CASE j = k
                BY <3>1, <3>2, <4>1 DEF CallsLeft, Steps, Answers
            <4>2. CASE j # k
                BY <3>1, <3>2, <4>2 DEF CallsLeft, RelayInv, AnswersAwaited
            <4> QED
                BY <4>1, <4>2
        <3>3. /\ CallsStay
              /\ \A j \in DOMAIN calls' : calls'[j].awaited => calls'[j].def.lease # l
            BY <2>1, <3>1, <3>2 DEF CallsStay, CallsLeft, RelayInv, OneAwaited
        <3> QED
            BY <1>2, <1>10, <3>1, <3>3
    <2> QED
        BY <1>14, <2>2, <2>3, <2>4, <2>5 DEF Receive
<1>15. ASSUME NEW w \in Workers, CrawlerRestart(w) PROVE Types' /\ HoldInv' /\ RelayInv'
    <2>1. /\ CrawlerTypes' /\ UNCHANGED <<nodeVars, outbox>>
          /\ \A o \in Orders : run'[w][o] = None
          /\ \A x \in Workers \ {w} : run'[x] = run[x]
          /\ \A l \in LeaseIds :
                IF l \in DOMAIN outbox /\ outbox[l].def.worker = w THEN relay'[l] = "idle"
                ELSE relay'[l] = relay[l]
          /\ CallsLeft({k \in DOMAIN calls : calls[k].def.worker # w \/ calls[k].step \in Steps},
                       {k \in DOMAIN calls : calls[k].def.worker = w})
        BY <1>15, CrawlerRestartDoes
    <2>2. ASSUME NEW j \in DOMAIN calls'
          PROVE  /\ j \in DOMAIN calls /\ calls'[j].def = calls[j].def
                 /\ calls'[j].awaited => calls[j].awaited /\ calls[j].def.worker # w
                 /\ calls'[j].step \in Answers => calls'[j].awaited
        <3>1. CASE calls[j].def.worker = w
            BY <2>1, <2>2, <3>1 DEF CallsLeft, Steps, Answers
        <3>2. CASE calls[j].def.worker # w
            BY <2>1, <2>2, <3>2 DEF CallsLeft, RelayInv, AnswersAwaited
        <3> QED
            BY <3>1, <3>2
    <2>3. RunsBelong'
        BY <2>1 DEF HoldInv, RunsBelong, Belongs
    <2>4. Types' /\ HoldInv'
        BY <1>1, <1>2, <1>4, <2>1, <2>2, <2>3 DEF CallsLeft
    <2>5. AwaitedHasRow'
        <3>1. ASSUME NEW j \in DOMAIN calls', calls'[j].awaited
              PROVE  /\ relay'[calls'[j].def.lease] = "waiting"
                     /\ calls'[j].def.lease \in DOMAIN outbox'
                     /\ SameRun(calls'[j].def, outbox'[calls'[j].def.lease].def)
            <4>1. /\ calls[j].def.lease \in LeaseIds /\ relay[calls[j].def.lease] = "waiting"
                  /\ calls[j].def.lease \in DOMAIN outbox
                  /\ SameRun(calls[j].def, outbox[calls[j].def.lease].def)
                BY <2>2, <3>1, CallDefined DEF RelayInv, AwaitedHasRow, Types
            <4>2. outbox[calls[j].def.lease].def.worker # w
                BY <2>2, <3>1, <4>1 DEF SameRun
            <4> QED
                BY <2>1, <2>2, <3>1, <4>1, <4>2
        <3> QED
            BY <3>1 DEF AwaitedHasRow
    <2>6. OneAwaited' /\ AnswersAwaited'
        BY <2>2 DEF RelayInv, OneAwaited, AnswersAwaited
    <2>7. ErasesAcknowledged'
        BY <2>1 DEF RelayInv, ErasesAcknowledged
    <2> QED
        BY <2>4, <2>5, <2>6, <2>7 DEF RelayInv
<1> QED
    BY <1>6, <1>7, <1>8, <1>13, <1>14, <1>15 DEF CrawlerStep

-----------------------------------------------------------------------------
(* Where the orders are.  A step leaves every order where it is, claims    *)
(* one, puts one back, or acknowledges one.                                *)

OrdersStay ==
    /\ pending' = pending /\ acknowledged' = acknowledged
    /\ DOMAIN leases' = DOMAIN leases
    /\ \A l \in DOMAIN leases : leases'[l].order = leases[l].order

OrderClaimed(o, l) ==
    /\ o \in pending /\ pending' = pending \ {o} /\ acknowledged' = acknowledged
    /\ l \notin DOMAIN leases /\ DOMAIN leases' = DOMAIN leases \cup {l}
    /\ leases'[l].order = o /\ \A x \in DOMAIN leases : leases'[x].order = leases[x].order

LeaseDropped(l) ==
    /\ l \in DOMAIN leases /\ DOMAIN leases' = DOMAIN leases \ {l}
    /\ \A x \in DOMAIN leases' : leases'[x].order = leases[x].order

OrderReturned(l) ==
    LeaseDropped(l) /\ pending' = pending \cup {leases[l].order} /\ acknowledged' = acknowledged

OrderAcknowledged(d) ==
    /\ LeaseDropped(d.lease) /\ leases[d.lease].order = d.order
    /\ pending' = pending /\ acknowledged' = acknowledged \cup {d}

OrdersMove ==
    \/ OrdersStay
    \/ \E o \in Orders, l \in LeaseIds : OrderClaimed(o, l)
    \/ \E l \in LeaseIds : OrderReturned(l)
    \/ \E d \in Definitions : OrderAcknowledged(d)

LEMMA MoveKeepsPlaces ==
    ASSUME NodeTypes, OrderInOnePlace, OrdersMove
    PROVE  OrderInOnePlace'
<1> USE DEF Leased, AcknowledgedOrders
<1>0. \A l \in DOMAIN leases : leases[l].order \in Orders
    BY DEF NodeTypes, LeaseRecord
<1>1. CASE OrdersStay
    BY <1>1 DEF OrderInOnePlace, OrdersStay
<1>2. ASSUME NEW o \in Orders, NEW l \in LeaseIds, OrderClaimed(o, l) PROVE OrderInOnePlace'
    BY <1>2 DEF OrderInOnePlace, OrderClaimed
<1>3. ASSUME NEW l \in LeaseIds, OrderReturned(l) PROVE OrderInOnePlace'
    BY <1>0, <1>3 DEF OrderInOnePlace, OrderReturned, LeaseDropped
<1>4. ASSUME NEW d \in Definitions, OrderAcknowledged(d) PROVE OrderInOnePlace'
    BY <1>0, <1>4 DEF OrderInOnePlace, OrderAcknowledged, LeaseDropped
<1> QED
    BY <1>1, <1>2, <1>3, <1>4 DEF OrdersMove

LEMMA DeleteDrops ==
    ASSUME NEW l \in DOMAIN leases, leases' = Delete(leases, l)
    PROVE  LeaseDropped(l)
<1>1. DOMAIN leases' = DOMAIN leases \ {l} /\ \A x \in DOMAIN leases \ {l} : leases'[x] = leases[x]
    BY DeleteFacts
<1> QED
    BY <1>1 DEF LeaseDropped

(* The settlement of a requeued lease is of the lease's order.             *)
LEMMA ForgetMoves ==
    ASSUME Types, HoldInv, NEW l \in DOMAIN settlements, settlements[l].terminal, ForgetSettlement(l)
    PROVE  OrdersMove
<1>1. UNCHANGED acknowledged
    BY DEF ForgetSettlement
<1>2. CASE UNCHANGED <<pending, leases>>
    BY <1>1, <1>2 DEF OrdersMove, OrdersStay
<1>3. CASE /\ l \in DOMAIN leases /\ leases' = Delete(leases, l)
           /\ pending' = pending \cup {settlements[l].def.order}
    <2>1. settlements[l].def.order = leases[l].order
        BY <1>3 DEF HoldInv, SettledSpent, Belongs
    <2>2. l \in LeaseIds
        BY <1>3 DEF Types, NodeTypes
    <2> QED
        BY <1>1, <1>3, <2>1, <2>2, DeleteDrops DEF OrdersMove, OrderReturned
<1> QED
    BY <1>2, <1>3 DEF ForgetSettlement, RequeueTerminalLease

LEMMA DisposeMoves ==
    ASSUME Types, HoldInv, NEW k \in DOMAIN calls, NEW d \in Definitions, d = calls[k].def,
           d.lease \in DOMAIN leases, Dispose(d)
    PROVE  OrdersMove
<1>1. UNCHANGED pending /\ leases[d.lease].order = d.order
    BY DEF Dispose, HoldInv, CallsBelong, Belongs
<1>2. CASE d.outcome = "acknowledged"
    <2>1. leases' = Delete(leases, d.lease) /\ acknowledged' = acknowledged \cup {d}
        BY <1>2 DEF Dispose
    <2> QED
        BY <1>1, <2>1, DeleteDrops DEF OrdersMove, OrderAcknowledged
<1>3. CASE d.outcome # "acknowledged"
    <2>1. PICK r \in LeaseRecord : r = leases[d.lease]
        BY DEF Types, NodeTypes
    <2>2. leases' = [leases EXCEPT ![d.lease] = [r EXCEPT !.deferred = TRUE]] /\ UNCHANGED acknowledged
        BY <1>3, <2>1 DEF Dispose
    <2>3. [r EXCEPT !.deferred = TRUE].order = r.order
        BY DEF LeaseRecord
    <2> QED
        BY <1>1, <2>1, <2>2, <2>3 DEF OrdersMove, OrdersStay
<1> QED
    BY <1>2, <1>3

LEMMA StepMoves ==
    ASSUME Types, HoldInv, Next
    PROVE  OrdersMove
<1> USE DEF nodeVars, leaseVars
<1>1. ASSUME UNCHANGED <<pending, leases, acknowledged>> PROVE OrdersMove
    BY <1>1 DEF OrdersMove, OrdersStay
<1>2. CASE CrawlerStep
    <2>1. UNCHANGED nodeVars
        BY <1>2 DEF CrawlerStep, Deliver, Complete, Settle, Advance, AdvanceAwaiting,
                    AdvanceAcknowledged, AdvanceConfirming, AdvanceToConfirming, MarkDeleting, Erase,
                    Receive, ReceiveToken, ReceiveEnd, ReceiveFailure, Timeout, CrawlerRestart
    <2> QED
        BY <1>1, <2>1
<1>3. ASSUME NEW w \in Workers, Connect(w) PROVE OrdersMove
    <2>1. DOMAIN leases' = DOMAIN leases /\ LeasesFollow
        BY <1>3, ConnectFollows
    <2>2. UNCHANGED <<pending, acknowledged>>
        BY <1>3 DEF Connect
    <2>3. \A l \in DOMAIN leases : leases'[l].order = leases[l].order
        BY <2>1 DEF LeasesFollow, HoldInv
    <2> QED
        BY <2>1, <2>2, <2>3 DEF OrdersMove, OrdersStay
<1>4. ASSUME NEW w \in Workers, NEW o \in Orders, NEW l \in LeaseIds, Claim(w, o, l)
      PROVE  OrdersMove
    <2>1. /\ DOMAIN leases' = DOMAIN leases \cup {l} /\ leases'[l].order = o
          /\ \A x \in DOMAIN leases : leases'[x] = leases[x]
        BY <1>4, ClaimFollows DEF HoldInv
    <2>2. /\ o \in pending /\ pending' = pending \ {o} /\ UNCHANGED acknowledged
          /\ l \notin DOMAIN leases
        BY <1>4 DEF Claim, HoldInv
    <2> QED
        BY <2>1, <2>2 DEF OrdersMove, OrderClaimed
<1>5. ASSUME NEW l \in LeaseIds, Lapse(l) PROVE OrdersMove
    <2>1. DOMAIN leases' = DOMAIN leases /\ LeasesFollow
        BY <1>5, LapseFollows
    <2>2. UNCHANGED <<pending, acknowledged>>
        BY <1>5 DEF Lapse
    <2>3. \A x \in DOMAIN leases : leases'[x].order = leases[x].order
        BY <2>1 DEF LeasesFollow, HoldInv
    <2> QED
        BY <2>1, <2>2, <2>3 DEF OrdersMove, OrdersStay
<1>6. ASSUME NEW l \in LeaseIds, Sweep(l) PROVE OrdersMove
    BY <1>6, DeleteDrops DEF Sweep, OrdersMove, OrderReturned
<1>7. ASSUME NEW l \in LeaseIds, ExpireSettlement(l) PROVE OrdersMove
    <2>1. CASE settlements[l].terminal
        BY <1>7, <2>1, ForgetMoves DEF ExpireSettlement
    <2>2. CASE ~settlements[l].terminal
        BY <1>1, <1>7, <2>2 DEF ExpireSettlement
    <2> QED
        BY <2>1, <2>2
<1>8. ASSUME NEW k \in DOMAIN calls, Handle(k) \/ CallFails(k) PROVE OrdersMove
    <2>1. PICK d \in Definitions : d = calls[k].def
        BY CallDefined DEF Types
    <2>2. CASE Prepare(k)
        <3>1. \A l \in DOMAIN settlements : Spent(l)
            BY DEF HoldInv, SettledSpent
        <3>2. UNCHANGED nodeVars \/ (d.lease \in DOMAIN leases /\ Dispose(d))
            BY <2>1, <2>2, <3>1, PrepareCases DEF Types
        <3> QED
            BY <1>1, <2>1, <3>2, DisposeMoves
    <2>3. CASE Confirm(k)
        <3>1. UNCHANGED nodeVars \/ (Remembers(d) /\ ForgetSettlement(d.lease))
            BY <2>1, <2>3, ConfirmCases DEF Types
        <3> QED
            BY <1>1, <3>1, ForgetMoves DEF Remembers
    <2>4. CASE \/ RecordTerminal(k) \/ AcknowledgeProgress(k) \/ ConfirmDelivery(k)
               \/ CompleteControl(k) \/ Finalize(k) \/ CallFails(k)
        BY <1>1, <2>4 DEF RecordTerminal, AcknowledgeProgress, ConfirmDelivery, CompleteControl,
                          Finalize, CallFails
    <2> QED
        BY <1>8, <2>2, <2>3, <2>4 DEF Handle
<1>9. CASE NodeRestart
    BY <1>1, <1>9 DEF NodeRestart
<1> QED
    BY <1>2, <1>3, <1>4, <1>5, <1>6, <1>7, <1>8, <1>9, NextSplits DEF NodeStep

-----------------------------------------------------------------------------
(* The first theorem.                                                      *)

LEMMA BaseInit ==
    ASSUME Init
    PROVE  Types /\ HoldInv /\ RelayInv /\ OrderInOnePlace
<1> USE DEF Init
<1>1. /\ DOMAIN leases = {} /\ DOMAIN settlements = {} /\ DOMAIN deliveries = {}
      /\ DOMAIN calls = {} /\ DOMAIN outbox = {}
    OBVIOUS
<1>2. session \in [Workers -> Sessions]
    BY TerminalAssumption DEF Sessions
<1>3. Types
    BY <1>1, <1>2 DEF Types, NodeTypes, CallTypes, CrawlerTypes, RelayStages
<1>4. HoldInv
    BY <1>1 DEF HoldInv, RowsBelong, CallsBelong, SettledSpent, RunsBelong, AcknowledgedGone
<1>5. RelayInv
    BY <1>1 DEF RelayInv, AnswersAwaited, AwaitedHasRow, OneAwaited, ErasesAcknowledged
<1>6. OrderInOnePlace
    BY <1>1 DEF OrderInOnePlace, Leased, AcknowledgedOrders
<1> QED
    BY <1>3, <1>4, <1>5, <1>6

LEMMA BaseStep ==
    ASSUME Types, HoldInv, RelayInv, [Next]_vars
    PROVE  Types' /\ HoldInv' /\ RelayInv'
<1>1. CASE Next
    BY <1>1, NextSplits, NodeStepFollows, NodeStepHolds, CrawlerStepHolds
<1>2. CASE UNCHANGED vars
    <2> USE <1>2 DEF vars, nodeVars, crawlerVars, leaseVars
    <2>1. Types'
        BY DEF Types, NodeTypes, CallTypes, CrawlerTypes
    <2>2. HoldInv'
        BY NodeUnchanged DEF Types, HoldInv, RowsBelong, CallsBelong, RunsBelong, Belongs
    <2>3. RelayInv'
        BY DEF RelayInv, AnswersAwaited, AwaitedHasRow, OneAwaited, ErasesAcknowledged
    <2> QED
        BY <2>1, <2>2, <2>3
<1> QED
    BY <1>1, <1>2

(* An order waits, is under one lease, or has been acknowledged once, and  *)
(* is never in two of these places: claims, the sweeper (requeueLeaseTx),  *)
(* acknowledgments, and the confirmation or the expiry of a requeue        *)
(* (requeueTerminalLeaseTx) move it from one to another, in any order and  *)
(* with any number of calls at work on the same lease.                     *)
THEOREM OrderAlwaysInOnePlace == Spec => []OrderInOnePlace
<1>1. Init => Types /\ HoldInv /\ RelayInv /\ OrderInOnePlace
    BY BaseInit
<1>2. Types /\ HoldInv /\ RelayInv /\ OrderInOnePlace /\ [Next]_vars =>
          (Types /\ HoldInv /\ RelayInv /\ OrderInOnePlace)'
    <2> SUFFICES ASSUME Types, HoldInv, RelayInv, OrderInOnePlace, [Next]_vars
                 PROVE  (Types /\ HoldInv /\ RelayInv)' /\ OrderInOnePlace'
        OBVIOUS
    <2>1. (Types /\ HoldInv /\ RelayInv)'
        BY BaseStep
    <2>2. CASE Next
        BY <2>1, <2>2, StepMoves, MoveKeepsPlaces DEF Types
    <2>3. CASE UNCHANGED vars
        BY <2>1, <2>3 DEF vars, nodeVars, leaseVars, OrderInOnePlace, Leased, AcknowledgedOrders
    <2> QED
        BY <2>1, <2>2, <2>3
<1> QED
    BY <1>1, <1>2, PTL DEF Spec

-----------------------------------------------------------------------------
(* The next part of the invariant: whatever says that a snapshot has been  *)
(* delivered is right, the settlement's marks, the progress of a call and  *)
(* the phase of a row.                                                     *)

PastRecording ==
    {"progress", "deliver", "complete", "finalize", "token", "confirm", "confirmed"}

DeliveriesRecorded == \A o \in DOMAIN deliveries : <<o, deliveries[o].tally>> \in recorded

SettlementsRecorded ==
    \A l \in DOMAIN settlements :
        settlements[l].terminal /\ (settlements[l].delivered \/ settlements[l].final) =>
            IsRecorded(settlements[l].def)

CallsRecorded ==
    \A k \in DOMAIN calls :
        calls[k].delivered \/ calls[k].step \in PastRecording => IsRecorded(calls[k].def)

RecInv ==
    DeliveriesRecorded /\ SettlementsRecorded /\ CallsRecorded /\ RecordedBeforeDeleting

LEMMA RowsStayRecorded ==
    ASSUME RecInv, UNCHANGED outbox, recorded \subseteq recorded'
    PROVE  RecordedBeforeDeleting'
BY DEF RecInv, RecordedBeforeDeleting

LEMMA DeliveriesStayRecorded ==
    ASSUME RecInv, DeliveriesFollow
    PROVE  DeliveriesRecorded'
BY DEF RecInv, DeliveriesRecorded, DeliveriesFollow

LEMMA GoesRecorded ==
    ASSUME RecInv, NEW k \in DOMAIN calls, NEW s, NEW b, CallGoes(k, s, b), recorded \subseteq recorded',
           b \/ s \in PastRecording => <<calls[k].def.order, calls[k].def.tally>> \in recorded'
    PROVE  CallsRecorded'
<1>1. ASSUME NEW j \in DOMAIN calls', calls'[j].delivered \/ calls'[j].step \in PastRecording
      PROVE  <<calls'[j].def.order, calls'[j].def.tally>> \in recorded'
    <2>1. CASE j = k
        BY <1>1, <2>1 DEF CallGoes
    <2>2. CASE j # k
        BY <1>1, <2>2 DEF CallGoes, RecInv, CallsRecorded, IsRecorded
    <2> QED
        BY <2>1, <2>2
<1> QED
    BY <1>1 DEF CallsRecorded, IsRecorded

LEMMA MarkedRecorded ==
    ASSUME RecInv, NEW l, SettlementMarked(l), IsRecorded(settlements[l].def), recorded \subseteq recorded'
    PROVE  SettlementsRecorded'
BY DEF SettlementMarked, RecInv, SettlementsRecorded, IsRecorded

LEMMA SettlementsStayRecorded ==
    ASSUME RecInv, recorded \subseteq recorded',
           \A l \in DOMAIN settlements' :
               \/ l \in DOMAIN settlements /\ settlements'[l] = settlements[l]
               \/ settlements'[l].terminal => ~settlements'[l].delivered /\ ~settlements'[l].final
    PROVE  SettlementsRecorded'
BY DEF RecInv, SettlementsRecorded, IsRecorded

LEMMA HandleRecords ==
    ASSUME Types, HoldInv, RecInv, NEW k \in DOMAIN calls, Handle(k) \/ CallFails(k)
    PROVE  RecInv'
<1> USE DEF nodeVars, crawlerVars, leaseVars
<1>0. PICK d \in Definitions : d = calls[k].def
    BY CallDefined DEF Types
<1>1. ASSUME UNCHANGED <<outbox, recorded, deliveries>>
      PROVE  RecordedBeforeDeleting' /\ DeliveriesRecorded'
    BY <1>1, RowsStayRecorded DEF RecInv, DeliveriesRecorded
<1>2. ASSUME UNCHANGED <<recorded, settlements>> PROVE SettlementsRecorded'
    BY <1>2, SettlementsStayRecorded
<1>3. /\ calls[k].delivered => IsRecorded(d)
      /\ calls[k].step \in PastRecording => IsRecorded(d)
    BY <1>0 DEF RecInv, CallsRecorded
<1>4. ASSUME UNCHANGED recorded, NEW s, CallGoes(k, s, calls[k].delivered),
             s \notin PastRecording \/ calls[k].step \in PastRecording
      PROVE  CallsRecorded'
    BY <1>0, <1>3, <1>4, GoesRecorded DEF IsRecorded
<1>5. CASE Prepare(k)
    <2>1. \A l \in DOMAIN settlements : Spent(l)
        BY DEF HoldInv, SettledSpent
    <2>2. UNCHANGED <<outbox, recorded, deliveries>>
        BY <1>5 DEF Prepare, Dispose
    <2>3. CASE /\ Remembers(d) /\ CallGoes(k, "record", settlements[d.lease].delivered)
               /\ UNCHANGED nodeVars
        <3>1. settlements[d.lease].delivered => IsRecorded(d)
            BY <2>3 DEF Remembers, RecInv, SettlementsRecorded
        <3>2. CallsRecorded'
            BY <1>0, <2>3, <3>1, GoesRecorded DEF IsRecorded, PastRecording
        <3> QED
            BY <1>1, <1>2, <2>2, <2>3, <3>2 DEF RecInv
    <2>4. CASE /\ UNCHANGED nodeVars
               /\ \E s \in {"refused", "lost"} : CallGoes(k, s, calls[k].delivered)
        BY <1>1, <1>2, <1>4, <2>2, <2>4 DEF RecInv, PastRecording
    <2>5. CASE d.lease \in DOMAIN leases /\ Dispose(d) /\ CallGoes(k, "record", calls[k].delivered)
        <3>1. /\ DOMAIN settlements' = DOMAIN settlements \cup {d.lease}
              /\ \A x \in DOMAIN settlements \ {d.lease} : settlements'[x] = settlements[x]
              /\ settlements'[d.lease] =
                    [terminal |-> TRUE, def |-> d, delivered |-> FALSE, final |-> FALSE]
            BY <1>0, <2>5, DisposeFollows
        <3>2. ~settlements'[d.lease].delivered /\ ~settlements'[d.lease].final
            BY <3>1
        <3>3. ASSUME NEW l \in DOMAIN settlements'
              PROVE  \/ l \in DOMAIN settlements /\ settlements'[l] = settlements[l]
                     \/ ~settlements'[l].delivered /\ ~settlements'[l].final
            BY <3>1, <3>2, <3>3
        <3>4. SettlementsRecorded'
            BY <2>2, <3>3, SettlementsStayRecorded
        <3> QED
            BY <1>1, <1>4, <2>2, <2>5, <3>4 DEF RecInv, PastRecording
    <2> QED
        BY <1>0, <1>5, <2>1, <2>3, <2>4, <2>5, PrepareCases DEF Types
<1>6. CASE RecordTerminal(k)
    <2>1. /\ DeliveriesFollow /\ calls[k].step = "record" /\ UNCHANGED <<settlements, outbox>>
          /\ \/ calls[k].delivered /\ CallGoes(k, "deliver", calls[k].delivered)
             \/ CallGoes(k, "progress", calls[k].delivered) /\
                   (\/ <<d.order, d.tally>> \in recorded'
                    \/ d.order \in DOMAIN deliveries /\ deliveries[d.order].tally = d.tally)
             \/ CallGoes(k, "conflict", calls[k].delivered)
        BY <1>0, <1>6, RecordCases DEF Types
    <2>2. recorded \subseteq recorded'
        BY <2>1 DEF DeliveriesFollow
    <2>3. d.order \in DOMAIN deliveries /\ deliveries[d.order].tally = d.tally => IsRecorded(d)
        BY DEF RecInv, DeliveriesRecorded, IsRecorded
    <2>4. ASSUME NEW s, CallGoes(k, s, calls[k].delivered),
                 s \in PastRecording => <<d.order, d.tally>> \in recorded'
          PROVE  CallsRecorded'
        BY <1>0, <1>3, <2>2, <2>4, GoesRecorded DEF IsRecorded
    <2>5. CallsRecorded'
        BY <1>3, <2>1, <2>2, <2>3, <2>4 DEF IsRecorded, PastRecording
    <2>6. SettlementsRecorded'
        BY <2>1, <2>2, SettlementsStayRecorded
    <2> QED
        BY <2>1, <2>2, <2>5, <2>6, DeliveriesStayRecorded, RowsStayRecorded DEF RecInv
<1>7. CASE AcknowledgeProgress(k)
    <2>1. /\ calls[k].step = "progress" /\ UNCHANGED <<outbox, recorded, deliveries>>
          /\ \/ /\ Remembers(d) /\ SettlementMarked(d.lease)
                /\ CallGoes(k, "deliver", calls[k].delivered)
             \/ CallGoes(k, "refused", calls[k].delivered) /\ UNCHANGED settlements
        BY <1>0, <1>7, ProgressCases DEF Types
    <2>2. IsRecorded(d)
        BY <1>3, <2>1 DEF PastRecording
    <2>3. SettlementsRecorded'
        BY <1>2, <2>1, <2>2, MarkedRecorded DEF Remembers
    <2>4. CallsRecorded'
        BY <1>4, <2>1 DEF PastRecording
    <2> QED
        BY <1>1, <2>1, <2>3, <2>4 DEF RecInv
<1>8. CASE ConfirmDelivery(k)
    <2>1. /\ calls[k].step = "deliver" /\ UNCHANGED <<outbox, recorded, settlements>>
          /\ DeliveriesFollow /\ \E s : CallGoes(k, s, calls[k].delivered)
        BY <1>8, DeliveryCases DEF Types
    <2>2. CallsRecorded'
        BY <1>4, <2>1 DEF PastRecording
    <2> QED
        BY <1>2, <2>1, <2>2, DeliveriesStayRecorded, RowsStayRecorded DEF RecInv
<1>9. CASE CompleteControl(k)
    <2>1. /\ calls[k].step = "complete" /\ UNCHANGED <<outbox, recorded, settlements, deliveries>>
          /\ \E s : CallGoes(k, s, calls[k].delivered)
        BY <1>9, ControlCases DEF Types
    <2>2. CallsRecorded'
        BY <1>4, <2>1 DEF PastRecording
    <2> QED
        BY <1>1, <1>2, <2>1, <2>2 DEF RecInv
<1>10. CASE Finalize(k)
    <2>1. /\ calls[k].step = "finalize" /\ UNCHANGED <<outbox, recorded, deliveries>>
          /\ \E s : CallGoes(k, s, calls[k].delivered)
          /\ (Remembers(d) /\ SettlementMarked(d.lease)) \/ UNCHANGED settlements
        BY <1>0, <1>10, FinalizeCases DEF Types
    <2>2. IsRecorded(d)
        BY <1>3, <2>1 DEF PastRecording
    <2>3. SettlementsRecorded'
        BY <1>2, <2>1, <2>2, MarkedRecorded DEF Remembers
    <2>4. CallsRecorded'
        BY <1>4, <2>1 DEF PastRecording
    <2> QED
        BY <1>1, <2>1, <2>3, <2>4 DEF RecInv
<1>11. CASE Confirm(k)
    <2>1. /\ calls[k].step = "confirm" /\ UNCHANGED outbox
          /\ \E s : CallGoes(k, s, calls[k].delivered)
          /\ UNCHANGED nodeVars \/ ForgetSettlement(d.lease)
        BY <1>0, <1>11, ConfirmCases DEF Types
    <2>2. UNCHANGED <<recorded, deliveries>>
        BY <2>1 DEF ForgetSettlement
    <2>3. SettlementsRecorded'
        <3>1. CASE UNCHANGED nodeVars
            BY <1>2, <3>1
        <3>2. CASE ForgetSettlement(d.lease)
            <4>1. /\ DOMAIN settlements' = DOMAIN settlements \ {d.lease}
                  /\ \A x \in DOMAIN settlements' : settlements'[x] = settlements[x]
                BY <3>2, ForgetFollows
            <4> QED
                BY <2>2, <4>1, SettlementsStayRecorded
        <3> QED
            BY <2>1, <3>1, <3>2
    <2>4. CallsRecorded'
        BY <1>4, <2>1, <2>2 DEF PastRecording
    <2> QED
        BY <1>1, <2>1, <2>2, <2>3, <2>4 DEF RecInv
<1>12. CASE CallFails(k)
    <2>1. CallGoes(k, "failed", calls[k].delivered) /\ UNCHANGED <<nodeVars, crawlerVars>>
        BY <1>12, AnswerGoes DEF CallFails, Answers, Types
    <2> QED
        BY <1>1, <1>2, <1>4, <2>1 DEF RecInv, PastRecording
<1> QED
    BY <1>5, <1>6, <1>7, <1>8, <1>9, <1>10, <1>11, <1>12 DEF Handle

LEMMA NodeRecords ==
    ASSUME Types, HoldInv, RecInv, NodeStep
    PROVE  RecInv'
<1> USE DEF nodeVars, crawlerVars, leaseVars
<1>1. ASSUME UNCHANGED <<outbox, recorded, deliveries>>
      PROVE  RecordedBeforeDeleting' /\ DeliveriesRecorded'
    BY <1>1, RowsStayRecorded DEF RecInv, DeliveriesRecorded
<1>2. ASSUME UNCHANGED <<recorded, calls>> PROVE CallsRecorded'
    BY <1>2 DEF RecInv, CallsRecorded, IsRecorded
<1>3. ASSUME UNCHANGED <<recorded, settlements>> PROVE SettlementsRecorded'
    BY <1>3, SettlementsStayRecorded
<1>4. ASSUME NEW w \in Workers, Connect(w) PROVE RecInv'
    BY <1>1, <1>2, <1>3, <1>4 DEF Connect, RecInv
<1>5. ASSUME NEW w \in Workers, NEW o \in Orders, NEW l \in LeaseIds, Claim(w, o, l) PROVE RecInv'
    BY <1>1, <1>2, <1>3, <1>5 DEF Claim, RecInv
<1>6. ASSUME NEW l \in LeaseIds, Lapse(l) PROVE RecInv'
    BY <1>1, <1>2, <1>3, <1>6 DEF Lapse, RecInv
<1>7. ASSUME NEW l \in LeaseIds, Sweep(l) PROVE RecInv'
    <2>1. UNCHANGED <<outbox, recorded, deliveries, calls>>
        BY <1>7 DEF Sweep
    <2>2. /\ \A x \in DOMAIN settlements :
                x \in DOMAIN settlements' /\ settlements'[x] = settlements[x]
          /\ \A x \in DOMAIN settlements' \ DOMAIN settlements : ~settlements'[x].terminal
        BY <1>7, SweepFollows
    <2>3. SettlementsRecorded'
        BY <2>1, <2>2, SettlementsStayRecorded
    <2> QED
        BY <1>1, <1>2, <2>1, <2>3 DEF RecInv
<1>8. ASSUME NEW l \in LeaseIds, ExpireSettlement(l) PROVE RecInv'
    <2>1. UNCHANGED <<outbox, recorded, deliveries, calls>> /\ settlements' = Delete(settlements, l)
        BY <1>8 DEF ExpireSettlement, ForgetSettlement
    <2>2. /\ DOMAIN settlements' = DOMAIN settlements \ {l}
          /\ \A x \in DOMAIN settlements' : settlements'[x] = settlements[x]
        BY <2>1, DeleteFacts
    <2>3. SettlementsRecorded'
        BY <2>1, <2>2, SettlementsStayRecorded
    <2> QED
        BY <1>1, <1>2, <2>1, <2>3 DEF RecInv
<1>9. CASE NodeRestart
    <2>1. UNCHANGED <<outbox, recorded, deliveries, settlements>>
        BY <1>9 DEF NodeRestart
    <2>2. /\ DOMAIN calls' \subseteq DOMAIN calls
          /\ \A k \in DOMAIN calls' : /\ calls'[k].def = calls[k].def /\ calls'[k].step = "failed"
                                      /\ calls'[k].delivered = calls[k].delivered
        BY <1>9, RestartFails DEF Types
    <2>3. CallsRecorded'
        BY <2>1, <2>2 DEF RecInv, CallsRecorded, IsRecorded, PastRecording
    <2> QED
        BY <1>1, <1>3, <2>1, <2>3 DEF RecInv
<1> QED
    BY <1>4, <1>5, <1>6, <1>7, <1>8, <1>9, HandleRecords DEF NodeStep

LEMMA CrawlerRecords ==
    ASSUME Types, HoldInv, RelayInv, RecInv, CrawlerStep
    PROVE  RecInv'
<1> USE DEF nodeVars, leaseVars
<1>1. ASSUME UNCHANGED nodeVars, CallsRecorded', RecordedBeforeDeleting' PROVE RecInv'
    BY <1>1 DEF RecInv, DeliveriesRecorded, SettlementsRecorded, IsRecorded
<1>2. ASSUME UNCHANGED <<nodeVars, outbox>> PROVE RecordedBeforeDeleting'
    BY <1>2, RowsStayRecorded
<1>3. ASSUME UNCHANGED nodeVars, DOMAIN calls' \subseteq DOMAIN calls,
             \A k \in DOMAIN calls' : /\ calls'[k].def = calls[k].def /\ calls'[k].step = calls[k].step
                                      /\ calls'[k].delivered = calls[k].delivered
      PROVE  CallsRecorded'
    BY <1>3 DEF RecInv, CallsRecorded, IsRecorded
<1>4. ASSUME UNCHANGED nodeVars, NEW k, NEW e, NEW s, CallSent(k, e, s),
             s \in PastRecording => IsRecorded(e)
      PROVE  CallsRecorded'
    <2>1. calls'[k].def = e /\ ~calls'[k].delivered /\ calls'[k].step = s
        BY <1>4 DEF CallSent
    <2>2. \A j \in DOMAIN calls' : j = k \/ (j \in DOMAIN calls /\ calls'[j] = calls[j])
        BY <1>4 DEF CallSent
    <2> QED
        BY <1>4, <2>1, <2>2 DEF RecInv, CallsRecorded, IsRecorded
<1>5. ASSUME UNCHANGED nodeVars, NEW l, NEW e, NEW p, RowPut(l, [def |-> e, phase |-> p]),
             p # "AwaitingAcknowledgment" => IsRecorded(e)
      PROVE  RecordedBeforeDeleting'
    <2>1. outbox'[l].def = e /\ outbox'[l].phase = p
        BY <1>5 DEF RowPut
    <2>2. \A x \in DOMAIN outbox' : x = l \/ (x \in DOMAIN outbox /\ outbox'[x] = outbox[x])
        BY <1>5 DEF RowPut
    <2> QED
        BY <1>5, <2>1, <2>2 DEF RecInv, RecordedBeforeDeleting, IsRecorded
<1>6. ASSUME NEW l \in DOMAIN leases, Deliver(l) PROVE RecInv'
    BY <1>1, <1>2, <1>3, <1>6 DEF Deliver
<1>7. ASSUME NEW w \in Workers, NEW o \in Orders, Complete(w, o) PROVE RecInv'
    BY <1>1, <1>2, <1>3, <1>7 DEF Complete
<1>8. ASSUME NEW w \in Workers, NEW o \in Orders, NEW c \in Outcomes, NEW t \in Tallies,
             Settle(w, o, c, t)
      PROVE  RecInv'
    <2>1. PICK d : d = Settlement(w, o, c, t)
        OBVIOUS
    <2>2. /\ \/ UNCHANGED outbox
             \/ RowPut(d.lease, [def |-> d, phase |-> "AwaitingAcknowledgment"])
          /\ UNCHANGED <<nodeVars, calls>>
        BY <1>8, <2>1, SettleDoes
    <2> QED
        BY <1>1, <1>2, <1>3, <1>5, <2>2
<1>9. ASSUME NEW l \in LeaseIds, Advance(l) PROVE RecInv'
    <2>1. ASSUME NEW k \in Calls, AdvanceAwaiting(l, k) PROVE RecInv'
        <3>1. PICK d \in Definitions : /\ RowPut(l, [def |-> d, phase |-> "AwaitingAcknowledgment"])
                                       /\ CallSent(k, d, "prepare")
            BY <2>1, AwaitingDoes DEF HoldInv
        <3>2. UNCHANGED nodeVars
            BY <2>1 DEF AdvanceAwaiting
        <3> QED
            BY <1>1, <1>4, <1>5, <3>1, <3>2 DEF PastRecording
    <2>2. ASSUME NEW k \in Calls, AdvanceConfirming(l, k) \/ AdvanceToConfirming(l, k) PROVE RecInv'
        <3>1. /\ l \in DOMAIN outbox /\ outbox[l].phase # "AwaitingAcknowledgment"
              /\ RowPut(l, [def |-> outbox[l].def, phase |-> "Confirming"])
              /\ CallSent(k, outbox[l].def, "confirm") /\ UNCHANGED nodeVars
            BY <2>2, ConfirmingDoes DEF HoldInv, RelayInv
        <3>2. IsRecorded(outbox[l].def)
            BY <3>1 DEF RecInv, RecordedBeforeDeleting, IsRecorded
        <3> QED
            BY <1>1, <1>4, <1>5, <3>1, <3>2
    <2>3. CASE AdvanceAcknowledged(l) \/ MarkDeleting(l) \/ Erase(l)
        BY <1>1, <1>2, <1>3, <2>3 DEF AdvanceAcknowledged, MarkDeleting, Erase
    <2> QED
        BY <1>9, <2>1, <2>2, <2>3 DEF Advance
<1>10. ASSUME NEW k \in DOMAIN calls, Receive(k) \/ Timeout(k) PROVE RecInv'
    <2>1. PICK l : l = calls[k].def.lease
        OBVIOUS
    <2>2. ASSUME CallRead(k), UNCHANGED nodeVars PROVE CallsRecorded'
        BY <1>3, <2>2 DEF CallRead
    <2>3. CASE ReceiveToken(k)
        <3>1. /\ calls[k].step = "token" /\ calls[k].awaited
              /\ RowPut(l, [def |-> outbox[l].def, phase |-> "AcknowledgedDeleting"])
              /\ CallRead(k) /\ UNCHANGED nodeVars
            BY <2>1, <2>3, TokenDoes
        <3>2. IsRecorded(calls[k].def)
            BY <3>1 DEF RecInv, CallsRecorded, PastRecording
        <3>3. SameRun(calls[k].def, outbox[l].def)
            BY <2>1, <3>1 DEF RelayInv, AwaitedHasRow
        <3>4. IsRecorded(outbox[l].def)
            BY <3>2, <3>3 DEF SameRun, IsRecorded
        <3> QED
            BY <1>1, <1>5, <2>2, <3>1, <3>4
    <2>4. CASE ReceiveEnd(k)
        <3>1. RowGone(l) /\ CallRead(k) /\ UNCHANGED nodeVars
            BY <2>1, <2>4, EndDoes
        <3>2. RecordedBeforeDeleting'
            BY <3>1 DEF RowGone, RecInv, RecordedBeforeDeleting
        <3> QED
            BY <1>1, <2>2, <3>1, <3>2
    <2>5. CASE ReceiveFailure(k)
        BY <1>1, <1>2, <2>1, <2>2, <2>5, FailureDoes
    <2>6. CASE Timeout(k)
        <3>1. CallsLeft(DOMAIN calls, {k}) /\ UNCHANGED <<nodeVars, outbox>>
            BY <2>1, <2>6, TimeoutDoes
        <3>2. CallsRecorded'
            BY <1>3, <3>1 DEF CallsLeft
        <3> QED
            BY <1>1, <1>2, <3>1, <3>2
    <2> QED
        BY <1>10, <2>3, <2>4, <2>5, <2>6 DEF Receive
<1>11. ASSUME NEW w \in Workers, CrawlerRestart(w) PROVE RecInv'
    <2>1. /\ UNCHANGED <<nodeVars, outbox>>
          /\ CallsLeft({k \in DOMAIN calls : calls[k].def.worker # w \/ calls[k].step \in Steps},
                       {k \in DOMAIN calls : calls[k].def.worker = w})
        BY <1>11, CrawlerRestartDoes
    <2>2. CallsRecorded'
        BY <1>3, <2>1 DEF CallsLeft
    <2> QED
        BY <1>1, <1>2, <2>1, <2>2
<1> QED
    BY <1>6, <1>7, <1>8, <1>9, <1>10, <1>11 DEF CrawlerStep

(* The crawler erases a run's checkpoint, and later its row, only when the *)
(* node has recorded the run's final snapshot: PrepareConfirmation follows *)
(* a token, the token follows RecordTerminal, and neither a retry, a call  *)
(* its caller gave up on, a second call at work on the same settlement nor *)
(* a restart of either side lets a token out before.                       *)
THEOREM RecordedBeforeErasing == Spec => []RecordedBeforeDeleting
<1>1. Init => Types /\ HoldInv /\ RelayInv /\ RecInv
    <2> SUFFICES ASSUME Init PROVE Types /\ HoldInv /\ RelayInv /\ RecInv
        OBVIOUS
    <2>1. /\ DOMAIN deliveries = {} /\ DOMAIN settlements = {} /\ DOMAIN calls = {}
          /\ DOMAIN outbox = {}
        BY DEF Init
    <2>2. RecInv
        BY <2>1 DEF RecInv, DeliveriesRecorded, SettlementsRecorded, CallsRecorded,
                    RecordedBeforeDeleting
    <2> QED
        BY <2>2, BaseInit
<1>2. Types /\ HoldInv /\ RelayInv /\ RecInv /\ [Next]_vars =>
          (Types /\ HoldInv /\ RelayInv /\ RecInv)'
    <2> SUFFICES ASSUME Types, HoldInv, RelayInv, RecInv, [Next]_vars
                 PROVE  (Types /\ HoldInv /\ RelayInv)' /\ RecInv'
        OBVIOUS
    <2>1. (Types /\ HoldInv /\ RelayInv)'
        BY BaseStep
    <2>2. CASE Next
        BY <2>1, <2>2, NextSplits, NodeRecords, CrawlerRecords
    <2>3. CASE UNCHANGED vars
        BY <2>1, <2>3 DEF vars, nodeVars, crawlerVars, leaseVars, RecInv, DeliveriesRecorded,
                          SettlementsRecorded, CallsRecorded, RecordedBeforeDeleting, IsRecorded
    <2> QED
        BY <2>1, <2>2, <2>3
<1>3. RecInv => RecordedBeforeDeleting
    BY DEF RecInv
<1> QED
    BY <1>1, <1>2, <1>3, PTL DEF Spec

-----------------------------------------------------------------------------
(* The next part: no lease, row or call is of a session yet to come, and a *)
(* lease that a crawler holds or runs under, and that is still open, has   *)
(* followed it to its present session.                                     *)

LeaseSessions == \A l \in DOMAIN leases : leases[l].session <= session[leases[l].worker]
RowSessions == \A l \in DOMAIN outbox : outbox[l].def.session <= session[outbox[l].def.worker]
CallSessions == \A k \in DOMAIN calls : calls[k].def.session <= session[calls[k].def.worker]

GrantsFollow ==
    \A w \in Workers : \A l \in grants[w] :
        /\ l \in issued
        /\ ~Spent(l) => leases[l].worker = w /\ leases[l].session = session[w]

RunsFollow ==
    \A w \in Workers, o \in Orders :
        run[w][o] # None /\ ~Spent(run[w][o]) => leases[run[w][o]].session = session[w]

SessInv == LeaseSessions /\ RowSessions /\ CallSessions /\ GrantsFollow /\ RunsFollow

LEMMA SessionNumbers ==
    ASSUME Types
    PROVE  /\ \A w \in Workers : session[w] \in Int
           /\ \A l \in DOMAIN leases : leases[l].session \in Int /\ leases[l].worker \in Workers
           /\ \A l \in DOMAIN outbox : outbox[l].def.session \in Int /\ outbox[l].def.worker \in Workers
           /\ \A k \in DOMAIN calls : calls[k].def.session \in Int /\ calls[k].def.worker \in Workers
<1>1. Sessions \subseteq Int
    BY TerminalAssumption DEF Sessions
<1>2. \A w \in Workers : session[w] \in Int
    BY <1>1 DEF Types, CrawlerTypes
<1>3. \A l \in DOMAIN leases : leases[l].session \in Int /\ leases[l].worker \in Workers
    BY <1>1 DEF Types, NodeTypes, LeaseRecord
<1>4. \A l \in DOMAIN outbox : outbox[l].def.session \in Int /\ outbox[l].def.worker \in Workers
    BY <1>1, RowDefinition DEF Types
<1>5. \A k \in DOMAIN calls : calls[k].def.session \in Int /\ calls[k].def.worker \in Workers
    BY <1>1, CallDefined DEF Types
<1> QED
    BY <1>2, <1>3, <1>4, <1>5

(* A new lease is of its worker's present session.                         *)
LEMMA NewLeases ==
    ASSUME Types, HoldInv, RelayInv, NodeStep
    PROVE  \A l \in DOMAIN leases' :
               l \notin issued => leases'[l].session = session[leases'[l].worker]
<1> USE DEF nodeVars, leaseVars
<1>1. DOMAIN leases' \subseteq issued'
    BY NodeStepFollows DEF NodeFollows
<1>2. ASSUME NEW w \in Workers, NEW o \in Orders, NEW l \in LeaseIds, Claim(w, o, l)
      PROVE  \A x \in DOMAIN leases' :
                 x \notin issued => leases'[x].session = session[leases'[x].worker]
    <2>1. /\ issued' = issued \cup {l} /\ leases'[l].worker = w /\ leases'[l].session = session[w]
        BY <1>2, ClaimFollows DEF HoldInv
    <2> QED
        BY <1>1, <2>1
<1>3. ASSUME UNCHANGED issued
      PROVE  \A x \in DOMAIN leases' :
                 x \notin issued => leases'[x].session = session[leases'[x].worker]
    BY <1>1, <1>3
<1>4. (\E w \in Workers, o \in Orders, l \in LeaseIds : Claim(w, o, l)) \/ UNCHANGED issued
    BY DEF NodeStep, Connect, Lapse, Sweep, ExpireSettlement, ForgetSettlement, Handle, Prepare,
           Dispose, RecordTerminal, AcknowledgeProgress, ConfirmDelivery, CompleteControl, Finalize,
           Confirm, CallFails, NodeRestart
<1> QED
    BY <1>2, <1>3, <1>4

LEMMA NodeSessions ==
    ASSUME Types, HoldInv, RelayInv, SessInv, NodeStep
    PROVE  SessInv'
<1> USE DEF crawlerVars
<1>1. LeasesFollow /\ UNCHANGED crawlerVars /\ CallsStay
    BY NodeStepFollows DEF NodeFollows
<1>2. LeaseSessions'
    <2>1. ASSUME NEW l \in DOMAIN leases' PROVE leases'[l].session <= session'[leases'[l].worker]
        <3>1. Types'
            BY NodeStepFollows, NodeStepHolds
        <3>2. leases'[l].session \in Int /\ session'[leases'[l].worker] \in Int
            <4>1. Sessions \subseteq Int
                BY TerminalAssumption DEF Sessions
            <4>2. leases'[l] \in LeaseRecord
                BY <2>1, <3>1 DEF Types, NodeTypes
            <4>3. leases'[l].session \in Int /\ leases'[l].worker \in Workers
                BY <4>1, <4>2 DEF LeaseRecord
            <4> QED
                BY <1>1, <4>3, SessionNumbers
        <3>3. CASE l \in issued
            <4>1. /\ l \in DOMAIN leases /\ leases'[l].worker = leases[l].worker
                  /\ leases'[l].session \in {leases[l].session, session[leases[l].worker]}
                BY <1>1, <2>1, <3>3 DEF LeasesFollow
            <4>2. leases[l].session <= session[leases[l].worker]
                BY <4>1 DEF SessInv, LeaseSessions
            <4> QED
                BY <1>1, <3>2, <4>1, <4>2
        <3>4. CASE l \notin issued
            BY <1>1, <2>1, <3>2, <3>4, NewLeases
        <3> QED
            BY <3>3, <3>4
    <2> QED
        BY <2>1 DEF LeaseSessions
<1>3. RowSessions'
    BY <1>1 DEF SessInv, RowSessions
<1>4. CallSessions'
    BY <1>1 DEF SessInv, CallSessions, CallsStay
<1>5. ASSUME NEW l \in issued, ~Spent(l)'
      PROVE  /\ l \in issued' /\ ~Spent(l) /\ leases'[l].worker = leases[l].worker
             /\ leases'[l].session \in {leases[l].session, session[leases[l].worker]}
    BY <1>1, <1>5, SpentStays DEF LeasesFollow
<1>6. GrantsFollow'
    <2>1. ASSUME NEW w \in Workers, NEW l \in grants[w]
          PROVE  /\ l \in issued'
                 /\ ~Spent(l)' => leases'[l].worker = w /\ leases'[l].session = session[w]
        <3>1. l \in issued /\ (~Spent(l) => leases[l].worker = w /\ leases[l].session = session[w])
            BY <2>1 DEF SessInv, GrantsFollow
        <3> QED
            BY <1>1, <1>5, <3>1 DEF LeasesFollow
    <2> QED
        BY <1>1, <2>1 DEF GrantsFollow
<1>7. RunsFollow'
    <2>1. ASSUME NEW w \in Workers, NEW o \in Orders, NEW l, l = run[w][o], l # None, ~Spent(l)'
          PROVE  leases'[l].session = session[w]
        <3>1. Belongs(l, w, o) /\ (~Spent(l) => leases[l].session = session[w])
            BY <2>1 DEF HoldInv, RunsBelong, SessInv, RunsFollow
        <3>2. l \in issued /\ ~Spent(l) /\ l \in DOMAIN leases
            BY <1>5, <2>1, <3>1 DEF Belongs, Spent
        <3>3. leases[l].worker = w
            BY <3>1, <3>2 DEF Belongs
        <3> QED
            BY <1>5, <2>1, <3>1, <3>2, <3>3
    <2>2. ASSUME NEW w \in Workers, NEW o \in Orders, (run[w][o] # None /\ ~Spent(run[w][o]))'
          PROVE  (leases[run[w][o]].session = session[w])'
        <3>1. PICK l : l = run[w][o]
            OBVIOUS
        <3>2. run'[w][o] = l /\ session' = session
            BY <1>1, <3>1
        <3>3. l # None /\ ~Spent(l)'
            BY <2>2, <3>2 DEF Spent
        <3> QED
            BY <2>1, <3>1, <3>2, <3>3
    <2> QED
        BY <2>2 DEF RunsFollow
<1> QED
    BY <1>2, <1>3, <1>4, <1>6, <1>7 DEF SessInv

LEMMA CrawlerSessions ==
    ASSUME Types, HoldInv, RelayInv, SessInv, CrawlerStep
    PROVE  SessInv'
<1> USE DEF nodeVars, leaseVars
<1>0. ASSUME UNCHANGED nodeVars, UNCHANGED session PROVE LeaseSessions'
    BY <1>0 DEF SessInv, LeaseSessions
<1>1. ASSUME UNCHANGED nodeVars, UNCHANGED <<session, outbox>> PROVE RowSessions'
    BY <1>1 DEF SessInv, RowSessions
<1>2. ASSUME UNCHANGED nodeVars, UNCHANGED session, DOMAIN calls' \subseteq DOMAIN calls,
             \A k \in DOMAIN calls' : calls'[k].def = calls[k].def
      PROVE  CallSessions'
    BY <1>2 DEF SessInv, CallSessions
<1>3. ASSUME UNCHANGED nodeVars, UNCHANGED session, \A w \in Workers : grants'[w] \subseteq grants[w]
      PROVE  GrantsFollow'
    BY <1>3 DEF SessInv, GrantsFollow, Spent
<1>4. ASSUME UNCHANGED nodeVars, UNCHANGED <<session, run>> PROVE RunsFollow'
    BY <1>4 DEF SessInv, RunsFollow, Spent
<1>5. ASSUME UNCHANGED nodeVars, UNCHANGED session, NEW l, NEW e, NEW p,
             RowPut(l, [def |-> e, phase |-> p]), e.session <= session[e.worker]
      PROVE  RowSessions'
    <2>1. outbox'[l].def = e
        BY <1>5 DEF RowPut
    <2>2. \A x \in DOMAIN outbox' : x = l \/ (x \in DOMAIN outbox /\ outbox'[x] = outbox[x])
        BY <1>5 DEF RowPut
    <2> QED
        BY <1>5, <2>1, <2>2 DEF SessInv, RowSessions
<1>6. ASSUME UNCHANGED nodeVars, UNCHANGED session, NEW k, NEW e, NEW s, CallSent(k, e, s),
             e.session <= session[e.worker]
      PROVE  CallSessions'
    <2>1. calls'[k].def = e
        BY <1>6 DEF CallSent
    <2>2. \A j \in DOMAIN calls' : j = k \/ (j \in DOMAIN calls /\ calls'[j] = calls[j])
        BY <1>6 DEF CallSent
    <2> QED
        BY <1>6, <2>1, <2>2 DEF SessInv, CallSessions
<1>7. ASSUME NEW l \in DOMAIN leases, Deliver(l) PROVE SessInv'
    <2>1. PICK w, o : w = leases[l].worker /\ o = leases[l].order
        OBVIOUS
    <2>2. /\ w \in Workers /\ o \in Orders /\ leases[l].session = session[w]
          /\ grants' = [grants EXCEPT ![w] = @ \cup {l}] /\ run' = [run EXCEPT ![w][o] = l]
          /\ UNCHANGED <<nodeVars, calls, outbox, session>>
        BY <1>7, <2>1, DeliverDoes
    <2>3. \A x \in Workers : grants'[x] = IF x = w THEN grants[x] \cup {l} ELSE grants[x]
        BY <2>2 DEF Types, CrawlerTypes
    <2>4. \A x \in Workers, y \in Orders : run'[x][y] = IF x = w /\ y = o THEN l ELSE run[x][y]
        BY <2>2 DEF Types, CrawlerTypes
    <2>5. GrantsFollow'
        BY <2>1, <2>2, <2>3 DEF SessInv, GrantsFollow, HoldInv, Spent
    <2>6. RunsFollow'
        BY <2>2, <2>4 DEF SessInv, RunsFollow, Spent
    <2> QED
        BY <1>0, <1>1, <1>2, <2>2, <2>5, <2>6 DEF SessInv
<1>8. ASSUME NEW w \in Workers, NEW o \in Orders, Complete(w, o) PROVE SessInv'
    BY <1>0, <1>1, <1>2, <1>3, <1>4, <1>8 DEF Complete, SessInv
<1>9. ASSUME NEW w \in Workers, NEW o \in Orders, NEW c \in Outcomes, NEW t \in Tallies,
             Settle(w, o, c, t)
      PROVE  SessInv'
    <2>1. PICK d : d = Settlement(w, o, c, t)
        OBVIOUS
    <2>2. /\ run' = [run EXCEPT ![w][o] = None]
          /\ \/ UNCHANGED outbox
             \/ RowPut(d.lease, [def |-> d, phase |-> "AwaitingAcknowledgment"])
          /\ UNCHANGED <<nodeVars, calls, session, grants, relay>>
        BY <1>9, <2>1, SettleDoes
    <2>3. d.session <= session[d.worker]
        BY <2>1, SessionNumbers DEF Settlement
    <2>4. \A x \in Workers, y \in Orders : run'[x][y] = IF x = w /\ y = o THEN None ELSE run[x][y]
        BY <2>2 DEF Types, CrawlerTypes
    <2>5. RunsFollow'
        BY <2>2, <2>4 DEF SessInv, RunsFollow, Spent
    <2>6. RowSessions'
        BY <1>1, <1>5, <2>2, <2>3
    <2> QED
        BY <1>0, <1>2, <1>3, <2>2, <2>5, <2>6 DEF SessInv
<1>10. ASSUME NEW l \in LeaseIds, Advance(l) PROVE SessInv'
    <2>1. ASSUME NEW k \in Calls, AdvanceAwaiting(l, k) PROVE SessInv'
        <3>1. l \in DOMAIN outbox /\ UNCHANGED <<nodeVars, session, run, grants>>
            BY <2>1 DEF AdvanceAwaiting
        <3>2. PICK d \in Definitions : /\ SameRun(outbox[l].def, d)
                                       /\ d = outbox[l].def \/ d.session = session[d.worker]
                                       /\ RowPut(l, [def |-> d, phase |-> "AwaitingAcknowledgment"])
                                       /\ CallSent(k, d, "prepare")
            BY <2>1, AwaitingDoes DEF HoldInv
        <3>3. d.session <= session[d.worker]
            <4>1. CASE d = outbox[l].def
                BY <3>1, <4>1 DEF SessInv, RowSessions
            <4>2. CASE d.session = session[d.worker]
                BY <4>2, SessionNumbers DEF Definitions
            <4> QED
                BY <3>2, <4>1, <4>2
        <3> QED
            BY <1>0, <1>3, <1>4, <1>5, <1>6, <3>1, <3>2, <3>3 DEF SessInv
    <2>2. ASSUME NEW k \in Calls, AdvanceConfirming(l, k) \/ AdvanceToConfirming(l, k) PROVE SessInv'
        <3>1. /\ l \in DOMAIN outbox
              /\ RowPut(l, [def |-> outbox[l].def, phase |-> "Confirming"])
              /\ CallSent(k, outbox[l].def, "confirm") /\ UNCHANGED <<nodeVars, session, run, grants>>
            BY <2>2, ConfirmingDoes DEF HoldInv, RelayInv
        <3>2. outbox[l].def.session <= session[outbox[l].def.worker]
            BY <3>1 DEF SessInv, RowSessions
        <3> QED
            BY <1>0, <1>3, <1>4, <1>5, <1>6, <3>1, <3>2 DEF SessInv
    <2>3. CASE AdvanceAcknowledged(l)
        <3>1. /\ \A w \in Workers : grants'[w] \subseteq grants[w]
              /\ UNCHANGED <<nodeVars, calls, outbox, session, run>>
            BY <2>3, AcknowledgedDoes
        <3> QED
            BY <1>0, <1>1, <1>2, <1>3, <1>4, <3>1 DEF SessInv
    <2>4. CASE MarkDeleting(l) \/ Erase(l)
        BY <1>0, <1>1, <1>2, <1>3, <1>4, <2>4 DEF MarkDeleting, Erase, SessInv
    <2> QED
        BY <1>10, <2>1, <2>2, <2>3, <2>4 DEF Advance
<1>11. ASSUME NEW k \in DOMAIN calls, Receive(k) \/ Timeout(k) PROVE SessInv'
    <2>1. PICK l : l = calls[k].def.lease
        OBVIOUS
    <2>2. ASSUME CallRead(k), UNCHANGED <<nodeVars, session>> PROVE CallSessions'
        BY <1>2, <2>2 DEF CallRead
    <2>3. CASE ReceiveToken(k)
        <3>1. /\ RowPut(l, [def |-> outbox[l].def, phase |-> "AcknowledgedDeleting"])
              /\ l \in DOMAIN outbox /\ CallRead(k) /\ UNCHANGED <<nodeVars, session, run>>
              /\ \A w \in Workers : grants'[w] \subseteq grants[w]
            BY <2>1, <2>3, TokenDoes
        <3>2. outbox[l].def.session <= session[outbox[l].def.worker]
            BY <3>1 DEF SessInv, RowSessions
        <3> QED
            BY <1>0, <1>3, <1>4, <1>5, <2>2, <3>1, <3>2 DEF SessInv
    <2>4. CASE ReceiveEnd(k)
        <3>1. /\ RowGone(l) /\ CallRead(k) /\ UNCHANGED <<nodeVars, session, run>>
              /\ \A w \in Workers : grants'[w] \subseteq grants[w]
            BY <2>1, <2>4, EndDoes
        <3>2. RowSessions'
            BY <3>1 DEF RowGone, SessInv, RowSessions
        <3> QED
            BY <1>0, <1>3, <1>4, <2>2, <3>1, <3>2 DEF SessInv
    <2>5. CASE ReceiveFailure(k)
        <3>1. CallRead(k) /\ UNCHANGED <<nodeVars, outbox, session, run, grants>>
            BY <2>1, <2>5, FailureDoes
        <3> QED
            BY <1>0, <1>1, <1>3, <1>4, <2>2, <3>1 DEF SessInv
    <2>6. CASE Timeout(k)
        <3>1. CallsLeft(DOMAIN calls, {k}) /\ UNCHANGED <<nodeVars, outbox, session, run, grants>>
            BY <2>1, <2>6, TimeoutDoes
        <3>2. CallSessions'
            BY <1>2, <3>1 DEF CallsLeft
        <3> QED
            BY <1>0, <1>1, <1>3, <1>4, <3>1, <3>2 DEF SessInv
    <2> QED
        BY <1>11, <2>3, <2>4, <2>5, <2>6 DEF Receive
<1>12. ASSUME NEW w \in Workers, CrawlerRestart(w) PROVE SessInv'
    <2>1. /\ UNCHANGED <<nodeVars, outbox>> /\ session[w] < session'[w] /\ CrawlerTypes'
          /\ \A x \in Workers \ {w} : session'[x] = session[x]
          /\ \A o \in Orders : run'[w][o] = None
          /\ \A x \in Workers \ {w} : run'[x] = run[x] /\ grants'[x] = grants[x]
          /\ grants'[w] = {}
          /\ CallsLeft({k \in DOMAIN calls : calls[k].def.worker # w \/ calls[k].step \in Steps},
                       {k \in DOMAIN calls : calls[k].def.worker = w})
        BY <1>12, CrawlerRestartDoes
    <2>2. \A x \in Workers : session'[x] \in Int /\ session[x] <= session'[x]
        <3>1. \A x \in Workers : session'[x] \in Int
            BY <2>1, TerminalAssumption DEF CrawlerTypes, Sessions
        <3> QED
            BY <2>1, <3>1, SessionNumbers
    <2>3. ASSUME NEW n \in Int, NEW x \in Workers, n <= session[x] PROVE n <= session'[x]
        BY <2>2, <2>3, SessionNumbers
    <2>4. LeaseSessions'
        BY <2>1, <2>3, SessionNumbers DEF SessInv, LeaseSessions
    <2>5. RowSessions'
        BY <2>1, <2>3, SessionNumbers DEF SessInv, RowSessions
    <2>6. CallSessions'
        BY <2>1, <2>3, SessionNumbers DEF SessInv, CallSessions, CallsLeft
    <2>7. GrantsFollow'
        BY <2>1 DEF SessInv, GrantsFollow, Spent
    <2>8. RunsFollow'
        BY <2>1 DEF SessInv, RunsFollow, Spent
    <2> QED
        BY <2>4, <2>5, <2>6, <2>7, <2>8 DEF SessInv
<1> QED
    BY <1>7, <1>8, <1>9, <1>10, <1>11, <1>12 DEF CrawlerStep

-----------------------------------------------------------------------------
(* The next part: what is known of a lease that is still open.  Its row    *)
(* awaits the acknowledgment; every call about it has yet to settle it, is *)
(* of the same run as the row and not of a later session; and a call of a  *)
(* session before the row's is of a session before the lease's, and will   *)
(* be turned away.                                                         *)

OpenRows == \A l \in DOMAIN outbox : ~Spent(l) => outbox[l].phase = "AwaitingAcknowledgment"

Stale(d, l) == d.session < outbox[l].def.session => d.session < leases[l].session

OpenCall(k, l) ==
    /\ calls[k].step \in {"prepare", "lost", "failed"}
    /\ l \in DOMAIN outbox /\ SameRun(calls[k].def, outbox[l].def)
    /\ calls[k].def.session <= outbox[l].def.session
    /\ Stale(calls[k].def, l)

OpenCalls == \A k \in DOMAIN calls : ~Spent(calls[k].def.lease) => OpenCall(k, calls[k].def.lease)

(* The call the relay waits for is the latest.                             *)
LatestAwaited ==
    \A j, k \in DOMAIN calls :
        /\ calls[j].awaited /\ calls[j].def.lease = calls[k].def.lease
        /\ ~Spent(calls[j].def.lease)
        => calls[k].def.session <= calls[j].def.session

OpenInv == OpenRows /\ OpenCalls /\ LatestAwaited

LEMMA OpenSteps ==
    ASSUME Types, HoldInv, RelayInv, OpenInv, NodeStep, NEW k \in DOMAIN calls',
           NEW l, l = calls[k].def.lease, ~Spent(l)'
    PROVE  calls'[k].step \in {calls[k].step, "lost", "failed"}
<1> USE DEF nodeVars, crawlerVars, leaseVars
<1>1. LeasesFollow /\ CallsStay /\ k \in DOMAIN calls
    BY NodeStepFollows DEF NodeFollows, CallsStay
<1>2. ~Spent(l)
    <2>1. l \in issued
        BY <1>1 DEF HoldInv, CallsBelong, Belongs
    <2> QED
        BY <1>1, <2>1, SpentStays
<1>3. calls[k].step \in {"prepare", "lost", "failed"}
    BY <1>1, <1>2 DEF OpenInv, OpenCalls, OpenCall
<1>4. CASE UNCHANGED calls
    BY <1>4
<1>5. CASE NodeRestart
    BY <1>5, RestartFails DEF Types
<1>6. ASSUME NEW j \in DOMAIN calls, Handle(j) \/ CallFails(j)
      PROVE  calls'[k].step \in {calls[k].step, "lost", "failed"}
    <2>1. PICK d \in Definitions : d = calls[j].def
        BY CallDefined DEF Types
    <2>2. ASSUME NEW s, NEW b, CallGoes(j, s, b), j # k \/ s \in {"lost", "failed"}
          PROVE  calls'[k].step \in {calls[k].step, "lost", "failed"}
        BY <2>2 DEF CallGoes
    <2>3. CASE CallFails(j)
        <3>1. CallGoes(j, "failed", calls[j].delivered)
            BY <2>3, AnswerGoes DEF CallFails, Answers, Types
        <3> QED
            BY <2>2, <3>1
    <2>4. CASE Prepare(j)
        <3>1. \A x \in DOMAIN settlements : Spent(x)
            BY DEF HoldInv, SettledSpent
        <3>2. CASE \E s, b : CallGoes(j, s, b) /\ Spent(d.lease)
            BY <1>2, <2>1, <2>2, <3>2
        <3>3. CASE CallGoes(j, "lost", calls[j].delivered)
            BY <2>2, <3>3
        <3>4. CASE d.lease \in DOMAIN leases /\ Dispose(d) /\ CallGoes(j, "record", calls[j].delivered)
            <4>1. Spent(d.lease)'
                BY <3>4, DisposeFollows
            <4>2. j # k
                BY <2>1, <4>1 DEF Spent
            <4> QED
                BY <2>2, <3>4, <4>2
        <3> QED
            BY <2>1, <2>4, <3>1, <3>2, <3>3, <3>4, PrepareCases DEF Types
    <2>5. CASE \/ RecordTerminal(j) \/ AcknowledgeProgress(j) \/ ConfirmDelivery(j)
               \/ CompleteControl(j) \/ Finalize(j) \/ Confirm(j)
        <3>1. calls[j].step \notin {"prepare", "lost", "failed"}
            BY <2>5 DEF RecordTerminal, AcknowledgeProgress, ConfirmDelivery, CompleteControl,
                        Finalize, Confirm
        <3>2. j # k
            BY <1>3, <3>1
        <3>3. \E s, b : CallGoes(j, s, b)
            BY <2>1, <2>5, RecordCases, ProgressCases, DeliveryCases, ControlCases, FinalizeCases,
               ConfirmCases DEF Types
        <3> QED
            BY <2>2, <3>2, <3>3
    <2> QED
        BY <1>6, <2>3, <2>4, <2>5 DEF Handle
<1>7. UNCHANGED calls \/ NodeRestart \/ \E j \in DOMAIN calls : Handle(j) \/ CallFails(j)
    BY DEF NodeStep, Connect, Claim, Lapse, Sweep, ExpireSettlement
<1> QED
    BY <1>4, <1>5, <1>6, <1>7

LEMMA NodeOpens ==
    ASSUME Types, HoldInv, RelayInv, SessInv, OpenInv, NodeStep
    PROVE  OpenInv'
<1> USE DEF crawlerVars
<1>1. LeasesFollow /\ CallsStay /\ UNCHANGED crawlerVars
    BY NodeStepFollows DEF NodeFollows
<1>2. ASSUME NEW l \in issued, ~Spent(l)'
      PROVE  /\ ~Spent(l) /\ l \in DOMAIN leases
             /\ leases'[l].session \in {leases[l].session, session[leases[l].worker]}
    BY <1>1, <1>2, SpentStays DEF LeasesFollow
<1>3. OpenRows'
    BY <1>1, <1>2 DEF OpenInv, OpenRows, HoldInv, RowsBelong, Belongs
<1>4. ASSUME NEW k \in DOMAIN calls', NEW l, l = calls[k].def.lease, ~Spent(l)'
      PROVE  OpenCall(k, l)'
    <2>1. k \in DOMAIN calls /\ calls'[k].def = calls[k].def
        BY <1>1, <1>4 DEF CallsStay
    <2>2. l \in issued /\ Belongs(l, calls[k].def.worker, calls[k].def.order)
        BY <1>4, <2>1 DEF HoldInv, CallsBelong, Belongs
    <2>3. /\ ~Spent(l) /\ l \in DOMAIN leases /\ leases[l].worker = calls[k].def.worker
          /\ leases'[l].session \in {leases[l].session, session[leases[l].worker]}
        BY <1>2, <1>4, <2>2 DEF Belongs
    <2>4. OpenCall(k, l)
        BY <1>4, <2>1, <2>3 DEF OpenInv, OpenCalls
    <2>5. calls'[k].step \in {"prepare", "lost", "failed"}
        <3>1. calls'[k].step \in {calls[k].step, "lost", "failed"}
            BY <1>4, OpenSteps
        <3> QED
            BY <2>4, <3>1 DEF OpenCall
    <2>6. calls[k].def.session < outbox[l].def.session => calls[k].def.session < leases'[l].session
        <3>1. CASE leases'[l].session = leases[l].session
            BY <2>4, <3>1 DEF OpenCall, Stale
        <3>2. CASE leases'[l].session = session[leases[l].worker]
            <4>1. /\ l \in DOMAIN outbox /\ outbox[l].def.worker = calls[k].def.worker
                  /\ outbox[l].def.session <= session[calls[k].def.worker]
                BY <2>4 DEF OpenCall, SameRun, SessInv, RowSessions
            <4>2. /\ calls[k].def.session \in Int /\ outbox[l].def.session \in Int
                  /\ session[calls[k].def.worker] \in Int
                BY <2>1, <4>1, SessionNumbers
            <4> QED
                BY <2>3, <3>2, <4>1, <4>2
        <3> QED
            BY <2>3, <3>1, <3>2
    <2> QED
        BY <1>1, <2>1, <2>4, <2>5, <2>6 DEF OpenCall, Stale
<1>5. OpenCalls'
    <2>1. ASSUME NEW k \in DOMAIN calls', (~Spent(calls[k].def.lease))'
          PROVE  OpenCall(k, calls[k].def.lease)'
        <3>1. PICK l : l = calls[k].def.lease
            OBVIOUS
        <3>2. calls'[k].def.lease = l
            BY <1>1, <2>1, <3>1 DEF CallsStay
        <3>3. ~Spent(l)'
            BY <2>1, <3>2 DEF Spent
        <3>4. OpenCall(k, l)'
            BY <1>4, <3>1, <3>3
        <3> QED
            BY <3>2, <3>4 DEF OpenCall, Stale
    <2> QED
        BY <2>1 DEF OpenCalls
<1>6. LatestAwaited'
    <2>1. ASSUME NEW j \in DOMAIN calls', NEW k \in DOMAIN calls', calls'[j].awaited,
                 calls'[j].def.lease = calls'[k].def.lease, (~Spent(calls[j].def.lease))'
          PROVE  calls'[k].def.session <= calls'[j].def.session
        <3>1. /\ j \in DOMAIN calls /\ k \in DOMAIN calls /\ calls[j].awaited
              /\ calls'[j].def = calls[j].def /\ calls'[k].def = calls[k].def
            BY <1>1, <2>1 DEF CallsStay
        <3>2. PICK l : l = calls[j].def.lease
            OBVIOUS
        <3>3. l \in issued /\ ~Spent(l)'
            BY <2>1, <3>1, <3>2 DEF HoldInv, CallsBelong, Belongs, Spent
        <3>4. ~Spent(l)
            BY <1>2, <3>3
        <3> QED
            BY <2>1, <3>1, <3>2, <3>4 DEF OpenInv, LatestAwaited
    <2> QED
        BY <2>1 DEF LatestAwaited
<1> QED
    BY <1>3, <1>5, <1>6 DEF OpenInv

LEMMA CrawlerOpens ==
    ASSUME Types, HoldInv, RelayInv, SessInv, OpenInv, CrawlerStep
    PROVE  OpenInv'
<1> USE DEF nodeVars, leaseVars
<1> DEFINE open(k, x) ==
        /\ calls[k].step \in {"prepare", "lost", "failed"}
        /\ x \in DOMAIN outbox' /\ SameRun(calls[k].def, outbox'[x].def)
        /\ calls[k].def.session <= outbox'[x].def.session
        /\ calls[k].def.session < outbox'[x].def.session => calls[k].def.session < leases[x].session
<1>1. ASSUME UNCHANGED nodeVars, UNCHANGED outbox PROVE OpenRows'
    BY <1>1 DEF OpenInv, OpenRows, Spent
<1>2. ASSUME UNCHANGED nodeVars, DOMAIN calls' \subseteq DOMAIN calls,
             \A k \in DOMAIN calls' : /\ calls'[k].def = calls[k].def /\ calls'[k].step = calls[k].step
                                      /\ calls'[k].awaited => calls[k].awaited
      PROVE  /\ LatestAwaited'
             /\ UNCHANGED outbox => OpenCalls'
    BY <1>2 DEF OpenInv, OpenCalls, OpenCall, Stale, LatestAwaited, Spent
(* What has become of a row and of the calls about it does not matter when *)
(* the lease is spent.                                                     *)
<1>3. ASSUME UNCHANGED nodeVars, NEW l, Spent(l), DOMAIN calls' \subseteq DOMAIN calls,
             \A k \in DOMAIN calls' : calls'[k] = calls[k],
             \A x \in DOMAIN outbox \ {l} : x \in DOMAIN outbox' /\ outbox'[x] = outbox[x],
             \A x \in DOMAIN outbox' \ {l} : x \in DOMAIN outbox
      PROVE  OpenInv'
    <2>1. OpenRows'
        BY <1>3 DEF OpenInv, OpenRows, Spent
    <2>2. OpenCalls'
        <3>1. ASSUME NEW k \in DOMAIN calls', NEW x, x = calls[k].def.lease, ~Spent(x)
              PROVE  OpenCall(k, x)'
            <4>1. k \in DOMAIN calls /\ calls'[k] = calls[k] /\ OpenCall(k, x) /\ x # l
                BY <1>3, <3>1 DEF OpenInv, OpenCalls
            <4>2. x \in DOMAIN outbox' /\ outbox'[x] = outbox[x]
                BY <1>3, <4>1 DEF OpenCall
            <4> QED
                BY <1>3, <4>1, <4>2 DEF OpenCall, Stale
        <3> QED
            BY <1>3, <3>1 DEF OpenCalls, Spent, OpenCall, Stale
    <2> QED
        BY <1>2, <1>3, <2>1, <2>2 DEF OpenInv
<1>4. ASSUME NEW l \in DOMAIN leases, Deliver(l) PROVE OpenInv'
    BY <1>1, <1>2, <1>4 DEF Deliver, OpenInv
<1>5. ASSUME NEW w \in Workers, NEW o \in Orders, Complete(w, o) PROVE OpenInv'
    BY <1>1, <1>2, <1>5 DEF Complete, OpenInv
(* Row l is taken over by the worker's present session, which the lease,   *)
(* when it is open, is of as well.                                         *)
<1>6. ASSUME NEW l \in LeaseIds, NEW e \in Definitions, e.lease = l, UNCHANGED nodeVars,
             RowPut(l, [def |-> e, phase |-> "AwaitingAcknowledgment"]),
             l \in DOMAIN outbox => SameRun(outbox[l].def, e),
             \/ l \in DOMAIN outbox /\ outbox[l].def = e
             \/ e.session = session[e.worker] /\ (~Spent(l) => leases[l].session = session[e.worker])
      PROVE  /\ OpenRows'
             /\ \A k \in DOMAIN calls : ~Spent(calls[k].def.lease) => open(k, calls[k].def.lease)
    <2>1. outbox'[l].def = e /\ outbox'[l].phase = "AwaitingAcknowledgment"
        BY <1>6 DEF RowPut
    <2>2. OpenRows'
        BY <1>6, <2>1 DEF RowPut, OpenInv, OpenRows, Spent
    <2>3. ASSUME NEW k \in DOMAIN calls, NEW x, x = calls[k].def.lease, ~Spent(x) PROVE open(k, x)
        <3>1. /\ calls[k].step \in {"prepare", "lost", "failed"}
              /\ x \in DOMAIN outbox /\ SameRun(calls[k].def, outbox[x].def)
              /\ calls[k].def.session <= outbox[x].def.session
              /\ calls[k].def.session < outbox[x].def.session =>
                    calls[k].def.session < leases[x].session
            BY <2>3 DEF OpenInv, OpenCalls, OpenCall, Stale
        <3>2. CASE x # l
            BY <1>6, <3>1, <3>2 DEF RowPut
        <3>3. CASE x = l /\ outbox[l].def = e
            BY <1>6, <2>1, <3>1, <3>3 DEF RowPut
        <3>4. CASE x = l /\ e.session = session[e.worker] /\ leases[l].session = session[e.worker]
            <4>1. SameRun(calls[k].def, e)
                BY <1>6, <3>1, <3>4 DEF SameRun
            <4>2. calls[k].def.session <= e.session
                BY <3>4, <4>1 DEF SessInv, CallSessions, SameRun
            <4> QED
                BY <1>6, <2>1, <3>1, <3>4, <4>1, <4>2 DEF RowPut
        <3> QED
            BY <1>6, <2>3, <3>2, <3>3, <3>4
    <2> QED
        BY <2>2, <2>3
<1>7. ASSUME NEW w \in Workers, NEW o \in Orders, NEW c \in Outcomes, NEW t \in Tallies,
             Settle(w, o, c, t)
      PROVE  OpenInv'
    <2>1. PICK d : d = Settlement(w, o, c, t)
        OBVIOUS
    <2>2. /\ d \in Definitions /\ run[w][o] # None
          /\ \/ UNCHANGED outbox
             \/ /\ RowPut(d.lease, [def |-> d, phase |-> "AwaitingAcknowledgment"])
                /\ \/ d.lease \notin DOMAIN outbox
                   \/ /\ d.lease \in DOMAIN outbox
                      /\ SameRun(outbox[d.lease].def, d)
          /\ UNCHANGED <<nodeVars, calls>>
        BY <1>7, <2>1, SettleDoes
    <2>3. d.lease = run[w][o] /\ d.worker = w /\ d.session = session[w] /\ d.lease \in LeaseIds
        BY <2>1, <2>2 DEF Settlement, Definitions
    <2>4. ~Spent(d.lease) => leases[d.lease].session = session[w]
        BY <2>2, <2>3 DEF SessInv, RunsFollow
    <2>5. CASE UNCHANGED outbox
        BY <1>1, <1>2, <2>2, <2>5 DEF OpenInv
    <2>6. CASE ~UNCHANGED outbox
        <3>1. /\ RowPut(d.lease, [def |-> d, phase |-> "AwaitingAcknowledgment"])
              /\ d.lease \in DOMAIN outbox => SameRun(outbox[d.lease].def, d)
            BY <2>2, <2>6
        <3>2. PICK l \in LeaseIds : l = d.lease
            BY <2>3
        <3>3. /\ OpenRows'
              /\ \A k \in DOMAIN calls : ~Spent(calls[k].def.lease) => open(k, calls[k].def.lease)
            BY <1>6, <2>2, <2>3, <2>4, <3>1, <3>2
        <3>4. OpenCalls'
            BY <2>2, <3>3 DEF OpenCalls, OpenCall, Stale, Spent
        <3> QED
            BY <1>2, <2>2, <3>3, <3>4 DEF OpenInv
    <2> QED
        BY <2>5, <2>6
<1>8. ASSUME NEW l \in LeaseIds, NEW k \in Calls, AdvanceAwaiting(l, k) PROVE OpenInv'
    <2>1. l \in DOMAIN outbox /\ relay[l] = "idle" /\ UNCHANGED nodeVars
        BY <1>8 DEF AdvanceAwaiting
    <2>2. PICK d \in Definitions :
              /\ SameRun(outbox[l].def, d)
              /\ \/ d = outbox[l].def
                 \/ l \in grants[d.worker] /\ d.session = session[d.worker]
              /\ RowPut(l, [def |-> d, phase |-> "AwaitingAcknowledgment"])
              /\ CallSent(k, d, "prepare")
        BY <1>8, AwaitingDoes DEF HoldInv
    <2>3. d.worker \in Workers /\ d.lease = l /\ d.session \in Int
        BY <2>1, <2>2, TerminalAssumption DEF Definitions, HoldInv, RowsBelong, SameRun, Sessions
    <2>4. l \in grants[d.worker] /\ ~Spent(l) => leases[l].session = session[d.worker]
        BY <2>3 DEF SessInv, GrantsFollow
    <2>5. /\ OpenRows'
          /\ \A j \in DOMAIN calls : ~Spent(calls[j].def.lease) => open(j, calls[j].def.lease)
        BY <1>6, <2>1, <2>2, <2>3, <2>4
    <2>6. /\ calls'[k].def = d /\ calls'[k].step = "prepare"
          /\ outbox'[l].def = d /\ l \in DOMAIN outbox'
        BY <2>2 DEF CallSent, RowPut
    <2>7. \A j \in DOMAIN calls' : j = k \/ (j \in DOMAIN calls /\ calls'[j] = calls[j])
        BY <2>2 DEF CallSent
    <2>8. OpenCalls'
        <3>1. ASSUME NEW j \in DOMAIN calls', NEW x, x = calls'[j].def.lease, ~Spent(x)
              PROVE  OpenCall(j, x)'
            <4>1. CASE j = k
                BY <2>3, <2>6, <3>1, <4>1 DEF OpenCall, Stale, SameRun
            <4>2. CASE j # k
                BY <2>1, <2>5, <2>7, <3>1, <4>2 DEF OpenCall, Stale
            <4> QED
                BY <4>1, <4>2
        <3> QED
            BY <2>1, <3>1 DEF OpenCalls, OpenCall, Stale, Spent
    <2>9. LatestAwaited'
        <3>1. ASSUME NEW i \in DOMAIN calls', NEW j \in DOMAIN calls', calls'[i].awaited,
                     calls'[i].def.lease = calls'[j].def.lease, ~Spent(calls'[i].def.lease)
              PROVE  calls'[j].def.session <= calls'[i].def.session
            <4>1. CASE i = k /\ j = k
                BY <2>3, <2>6, <4>1
            <4>2. CASE i = k /\ j # k
                <5>1. j \in DOMAIN calls /\ calls'[j] = calls[j] /\ calls[j].def.lease = l
                    BY <2>3, <2>6, <2>7, <3>1, <4>2
                <5>2. calls[j].def.session <= outbox'[l].def.session
                    BY <2>3, <2>5, <2>6, <3>1, <4>2, <5>1
                <5> QED
                    BY <2>6, <4>2, <5>1, <5>2
            <4>3. CASE i # k
                <5>1. i \in DOMAIN calls /\ calls'[i] = calls[i]
                    BY <2>7, <4>3
                <5>2. calls[i].def.lease # l
                    BY <2>1, <3>1, <5>1 DEF RelayInv, AwaitedHasRow
                <5>3. j \in DOMAIN calls /\ calls'[j] = calls[j]
                    BY <2>3, <2>6, <2>7, <3>1, <5>1, <5>2
                <5> QED
                    BY <3>1, <5>1, <5>3 DEF OpenInv, LatestAwaited
            <4> QED
                BY <4>1, <4>2, <4>3
        <3> QED
            BY <2>1, <3>1 DEF LatestAwaited, Spent
    <2> QED
        BY <2>5, <2>8, <2>9 DEF OpenInv
<1>9. ASSUME NEW l \in LeaseIds, NEW k \in Calls, AdvanceConfirming(l, k) \/ AdvanceToConfirming(l, k)
      PROVE  OpenInv'
    <2>1. /\ l \in DOMAIN outbox /\ outbox[l].phase # "AwaitingAcknowledgment"
          /\ RowPut(l, [def |-> outbox[l].def, phase |-> "Confirming"])
          /\ CallSent(k, outbox[l].def, "confirm") /\ UNCHANGED nodeVars
        BY <1>9, ConfirmingDoes DEF HoldInv, RelayInv
    <2>2. Spent(l) /\ outbox[l].def.lease = l
        BY <2>1 DEF OpenInv, OpenRows, HoldInv, RowsBelong
    <2>3. calls'[k].def.lease = l
        BY <2>1, <2>2 DEF CallSent
    <2>4. \A j \in DOMAIN calls' : j = k \/ (j \in DOMAIN calls /\ calls'[j] = calls[j])
        BY <2>1 DEF CallSent
    <2>5. OpenRows'
        BY <2>1, <2>2 DEF RowPut, OpenInv, OpenRows, Spent
    <2>6. OpenCalls'
        <3>1. ASSUME NEW j \in DOMAIN calls', NEW x, x = calls'[j].def.lease, ~Spent(x)
              PROVE  OpenCall(j, x)'
            <4>1. j \in DOMAIN calls /\ calls'[j] = calls[j] /\ x # l
                BY <2>2, <2>3, <2>4, <3>1
            <4>2. OpenCall(j, x)
                BY <3>1, <4>1 DEF OpenInv, OpenCalls
            <4> QED
                BY <2>1, <4>1, <4>2 DEF RowPut, OpenCall, Stale
        <3> QED
            BY <2>1, <3>1 DEF OpenCalls, OpenCall, Stale, Spent
    <2>7. LatestAwaited'
        <3>1. ASSUME NEW i \in DOMAIN calls', NEW j \in DOMAIN calls', calls'[i].awaited,
                     calls'[i].def.lease = calls'[j].def.lease, ~Spent(calls'[i].def.lease)
              PROVE  calls'[j].def.session <= calls'[i].def.session
            BY <2>2, <2>3, <2>4, <3>1 DEF OpenInv, LatestAwaited
        <3> QED
            BY <2>1, <3>1 DEF LatestAwaited, Spent
    <2> QED
        BY <2>5, <2>6, <2>7 DEF OpenInv
<1>10. ASSUME NEW l \in LeaseIds, AdvanceAcknowledged(l) \/ MarkDeleting(l) \/ Erase(l) PROVE OpenInv'
    BY <1>1, <1>2, <1>10 DEF AdvanceAcknowledged, MarkDeleting, Erase, OpenInv
<1>11. ASSUME NEW k \in DOMAIN calls, Receive(k) \/ Timeout(k) PROVE OpenInv'
    <2>1. PICK l : l = calls[k].def.lease
        OBVIOUS
    <2>2. calls[k].step \notin {"prepare", "lost", "failed"} => Spent(l)
        BY <2>1 DEF OpenInv, OpenCalls, OpenCall
    <2>3. CASE ReceiveToken(k)
        <3>1. /\ RowPut(l, [def |-> outbox[l].def, phase |-> "AcknowledgedDeleting"])
              /\ l \in DOMAIN outbox /\ CallRead(k) /\ UNCHANGED nodeVars /\ calls[k].step = "token"
            BY <2>1, <2>3, TokenDoes
        <3>2. Spent(l)
            BY <2>2, <3>1
        <3> QED
            BY <1>3, <3>1, <3>2 DEF RowPut, CallRead
    <2>4. CASE ReceiveEnd(k)
        <3>1. /\ RowGone(l) /\ CallRead(k) /\ UNCHANGED nodeVars
              /\ calls[k].step \in {"confirmed", "refused"}
            BY <2>1, <2>4, EndDoes
        <3>2. Spent(l)
            BY <2>2, <3>1
        <3> QED
            BY <1>3, <3>1, <3>2 DEF RowGone, CallRead
    <2>5. CASE ReceiveFailure(k)
        <3>1. CallRead(k) /\ UNCHANGED <<nodeVars, outbox>>
            BY <2>1, <2>5, FailureDoes
        <3> QED
            BY <1>1, <1>2, <3>1 DEF CallRead, OpenInv
    <2>6. CASE Timeout(k)
        <3>1. CallsLeft(DOMAIN calls, {k}) /\ UNCHANGED <<nodeVars, outbox>>
            BY <2>1, <2>6, TimeoutDoes
        <3> QED
            BY <1>1, <1>2, <3>1 DEF CallsLeft, OpenInv
    <2> QED
        BY <1>11, <2>3, <2>4, <2>5, <2>6 DEF Receive
<1>12. ASSUME NEW w \in Workers, CrawlerRestart(w) PROVE OpenInv'
    <2>1. /\ UNCHANGED <<nodeVars, outbox>>
          /\ CallsLeft({k \in DOMAIN calls : calls[k].def.worker # w \/ calls[k].step \in Steps},
                       {k \in DOMAIN calls : calls[k].def.worker = w})
        BY <1>12, CrawlerRestartDoes
    <2> QED
        BY <1>1, <1>2, <2>1 DEF CallsLeft, OpenInv
<1> QED
    BY <1>4, <1>5, <1>7, <1>8, <1>9, <1>10, <1>11, <1>12 DEF CrawlerStep, Advance

-----------------------------------------------------------------------------
(* The last part: an acknowledged settlement whose snapshot is not         *)
(* recorded yet is held on both sides, by the node in its settlements and  *)
(* by the crawler in a row of the same session, which nobody replaces: the *)
(* call waited for is about this settlement and can only be going on or    *)
(* have failed.                                                            *)

RowHolds(d) ==
    /\ d.lease \in DOMAIN outbox
    /\ outbox[d.lease] = [def |-> d, phase |-> "AwaitingAcknowledgment"]

CrawlerHolds(d) ==
    /\ d.lease \in grants[d.worker] => d.session = session[d.worker]
    /\ \A o \in Orders : run[d.worker][o] = d.lease => d.session = session[d.worker]

CallsHold(d) ==
    \A k \in DOMAIN calls : calls[k].awaited /\ calls[k].def.lease = d.lease =>
        calls[k].def = d /\ calls[k].step \notin {"refused", "confirmed"}

Held(d) == Remembers(d) /\ RowHolds(d) /\ CrawlerHolds(d) /\ CallsHold(d)

HeldInv == \A d \in acknowledged : ~IsRecorded(d) => Held(d)

(* The settlement that acknowledges is of the session of the row.          *)
LEMMA DisposeHeld ==
    ASSUME Types, HoldInv, RelayInv, SessInv, OpenInv, NEW k \in DOMAIN calls,
           NEW d \in Definitions, d = calls[k].def, ~Spent(d.lease), d.lease \in DOMAIN leases,
           OwnedLive(d), Dispose(d), CallGoes(k, "record", calls[k].delivered), UNCHANGED crawlerVars
    PROVE  Held(d)'
<1> USE DEF crawlerVars
<1>1. PICK l \in LeaseIds : l = d.lease
    BY DEF Definitions
<1>2. d.worker \in Workers /\ leases[l].worker = d.worker /\ leases[l].session = d.session
    BY <1>1 DEF OwnedLive, Definitions
<1>3. /\ l \in DOMAIN outbox /\ SameRun(d, outbox[l].def) /\ d.session <= outbox[l].def.session
      /\ d.session < outbox[l].def.session => d.session < leases[l].session
    BY <1>1 DEF OpenInv, OpenCalls, OpenCall, Stale
<1>4. outbox[l].def.session = d.session
    <2>1. d.session \in Int /\ outbox[l].def.session \in Int
        BY <1>3, SessionNumbers
    <2> QED
        BY <1>2, <1>3, <2>1
<1>5. outbox[l].def = d
    BY <1>3, <1>4, RowDefinition, SameRunSameSession DEF Types
<1>6. outbox[l].phase = "AwaitingAcknowledgment"
    BY <1>1, <1>3 DEF OpenInv, OpenRows
<1>7. RowHolds(d)'
    <2>1. outbox[l] = [def |-> d, phase |-> "AwaitingAcknowledgment"]
        BY <1>3, <1>5, <1>6, RowDefinition DEF Types
    <2> QED
        BY <1>1, <1>3, <2>1 DEF RowHolds
<1>8. Remembers(d)'
    <2>1. /\ d.lease \in DOMAIN settlements'
          /\ settlements'[d.lease] =
                 [terminal |-> TRUE, def |-> d, delivered |-> FALSE, final |-> FALSE]
        BY DisposeFollows
    <2> QED
        BY <2>1 DEF Remembers
<1>9. CrawlerHolds(d)'
    <2>1. l \in grants[d.worker] => d.session = session[d.worker]
        BY <1>1, <1>2 DEF SessInv, GrantsFollow
    <2>2. ASSUME NEW o \in Orders, run[d.worker][o] = l PROVE d.session = session[d.worker]
        <3>1. l # None
            BY TerminalAssumption
        <3> QED
            BY <1>1, <1>2, <2>2, <3>1 DEF SessInv, RunsFollow
    <2> QED
        BY <1>1, <2>1, <2>2 DEF CrawlerHolds
<1>10. CallsHold(d)'
    <2>1. ASSUME NEW j \in DOMAIN calls', calls'[j].awaited, calls'[j].def.lease = l
          PROVE  calls'[j].def = d /\ calls'[j].step \notin {"refused", "confirmed"}
        <3>1. /\ j \in DOMAIN calls /\ calls[j].awaited /\ calls'[j].def = calls[j].def
              /\ calls'[j].step \in {calls[j].step, "record"} /\ calls[j].def.lease = l
            <4>1. CASE j = k
                BY <2>1, <4>1 DEF CallGoes
            <4>2. CASE j # k
                BY <2>1, <4>2 DEF CallGoes
            <4> QED
                BY <4>1, <4>2
        <3>2. OpenCall(j, l)
            BY <1>1, <3>1 DEF OpenInv, OpenCalls
        <3>3. d.session <= calls[j].def.session
            BY <1>1, <3>1 DEF OpenInv, LatestAwaited
        <3>4. calls[j].def.session = d.session
            <4>1. d.session \in Int /\ calls[j].def.session \in Int
                BY <3>1, SessionNumbers
            <4> QED
                BY <1>4, <3>2, <3>3, <4>1 DEF OpenCall
        <3>5. SameRun(calls[j].def, d) /\ calls[j].def \in Definitions
            BY <1>5, <3>1, <3>2, CallDefined DEF OpenCall, Types
        <3>6. calls[j].def = d
            BY <3>4, <3>5, SameRunSameSession
        <3> QED
            BY <3>1, <3>2, <3>6 DEF OpenCall
    <2> QED
        BY <1>1, <2>1 DEF CallsHold
<1> QED
    BY <1>7, <1>8, <1>9, <1>10 DEF Held

(* While it is held, no step of the node answers its call with a refusal   *)
(* or forgets it.                                                          *)
LEMMA HeldCalls ==
    ASSUME Types, HoldInv, RelayInv, RecInv, NEW d \in acknowledged, ~IsRecorded(d), Held(d),
           NodeStep
    PROVE  CallsHold(d)'
<1> USE DEF nodeVars, crawlerVars, leaseVars
<1>1. CallsStay
    BY NodeStepFollows DEF NodeFollows
<1>2. ASSUME NEW j \in DOMAIN calls', calls'[j].awaited, calls'[j].def.lease = d.lease
      PROVE  /\ j \in DOMAIN calls /\ calls'[j].def = d /\ calls[j].def = d
             /\ calls[j].step \notin {"refused", "confirmed"}
             /\ calls[j].step \notin PastRecording
    <2>1. j \in DOMAIN calls /\ calls[j].awaited /\ calls'[j].def = calls[j].def
        BY <1>1, <1>2 DEF CallsStay
    <2>2. calls[j].def = d /\ calls[j].step \notin {"refused", "confirmed"}
        BY <1>2, <2>1 DEF Held, CallsHold
    <2> QED
        BY <2>1, <2>2 DEF RecInv, CallsRecorded
<1>3. CASE UNCHANGED calls
    BY <1>3 DEF Held, CallsHold
<1>4. CASE NodeRestart
    <2>1. \A k \in DOMAIN calls' : calls'[k].step = "failed"
        BY <1>4, RestartFails DEF Types
    <2> QED
        BY <1>2, <2>1 DEF CallsHold
<1>5. ASSUME NEW k \in DOMAIN calls, Handle(k) \/ CallFails(k) PROVE CallsHold(d)'
    <2>1. PICK e \in Definitions : e = calls[k].def
        BY CallDefined DEF Types
    <2>2. ASSUME NEW s, NEW b, CallGoes(k, s, b),
                 s \notin {"refused", "confirmed"} \/ e # d \/ calls[k].step \in PastRecording
          PROVE  CallsHold(d)'
        <3>1. ASSUME NEW j \in DOMAIN calls', calls'[j].awaited, calls'[j].def.lease = d.lease
              PROVE  calls'[j].def = d /\ calls'[j].step \notin {"refused", "confirmed"}
            <4>1. CASE j = k
                BY <1>2, <2>1, <2>2, <3>1, <4>1 DEF CallGoes
            <4>2. CASE j # k
                BY <1>2, <2>2, <3>1, <4>2 DEF CallGoes
            <4> QED
                BY <4>1, <4>2
        <3> QED
            BY <3>1 DEF CallsHold
    <2>3. Remembers(d)
        BY DEF Held
    <2>4. CASE CallFails(k)
        <3>1. CallGoes(k, "failed", calls[k].delivered)
            BY <2>4, AnswerGoes DEF CallFails, Answers, Types
        <3> QED
            BY <2>2, <3>1
    <2>5. CASE Prepare(k)
        <3>1. \A x \in DOMAIN settlements : Spent(x)
            BY DEF HoldInv, SettledSpent
        <3>2. \E s, b : CallGoes(k, s, b) /\ (s \in {"record", "lost"} \/ ~Remembers(e))
            BY <2>1, <2>5, <3>1, PrepareCases DEF Types
        <3> QED
            BY <2>2, <2>3, <3>2
    <2>6. CASE RecordTerminal(k)
        <3>1. \E b : \E s \in {"deliver", "progress", "conflict"} : CallGoes(k, s, b)
            BY <2>1, <2>6, RecordCases DEF Types
        <3> QED
            BY <2>2, <3>1
    <2>7. CASE \/ AcknowledgeProgress(k) \/ ConfirmDelivery(k) \/ CompleteControl(k)
               \/ Finalize(k) \/ Confirm(k)
        <3>1. calls[k].step \in PastRecording
            BY <2>7 DEF AcknowledgeProgress, ConfirmDelivery, CompleteControl, Finalize, Confirm,
                        PastRecording
        <3>2. \E s, b : CallGoes(k, s, b)
            BY <2>1, <2>7, ProgressCases, DeliveryCases, ControlCases, FinalizeCases, ConfirmCases
            DEF Types
        <3> QED
            BY <2>2, <3>1, <3>2
    <2> QED
        BY <1>5, <2>4, <2>5, <2>6, <2>7 DEF Handle
<1>6. UNCHANGED calls \/ NodeRestart \/ \E j \in DOMAIN calls : Handle(j) \/ CallFails(j)
    BY DEF NodeStep, Connect, Claim, Lapse, Sweep, ExpireSettlement
<1> QED
    BY <1>3, <1>4, <1>5, <1>6

LEMMA HeldRemembered ==
    ASSUME Types, HoldInv, RelayInv, RecInv, NEW d \in acknowledged, ~IsRecorded(d), Held(d),
           NodeStep
    PROVE  Remembers(d)'
<1> USE DEF nodeVars, crawlerVars, leaseVars
<1>1. /\ d.lease \in DOMAIN settlements /\ settlements[d.lease].terminal
      /\ settlements[d.lease].def = d /\ d.lease \notin DOMAIN leases
    BY DEF Held, Remembers, HoldInv, AcknowledgedGone
<1>2. ASSUME d.lease \in DOMAIN settlements', settlements'[d.lease] = settlements[d.lease]
      PROVE  Remembers(d)'
    BY <1>1, <1>2 DEF Remembers
<1>3. ASSUME UNCHANGED settlements PROVE Remembers(d)'
    BY <1>1, <1>3 DEF Remembers
<1>4. ASSUME NEW l, SettlementMarked(l) PROVE Remembers(d)'
    <2>1. CASE l = d.lease
        BY <1>1, <1>4, <2>1 DEF SettlementMarked, Remembers
    <2>2. CASE l # d.lease
        BY <1>1, <1>2, <1>4, <2>2 DEF SettlementMarked
    <2> QED
        BY <2>1, <2>2
<1>5. ASSUME NEW l \in LeaseIds, Sweep(l) PROVE Remembers(d)'
    BY <1>1, <1>2, <1>5, SweepFollows
<1>6. ASSUME NEW l, settlements' = Delete(settlements, l), l # d.lease PROVE Remembers(d)'
    <2>1. /\ DOMAIN settlements' = DOMAIN settlements \ {l}
          /\ \A x \in DOMAIN settlements \ {l} : settlements'[x] = settlements[x]
        BY <1>6, DeleteFacts
    <2> QED
        BY <1>1, <1>2, <1>6, <2>1
<1>7. ASSUME NEW l \in LeaseIds, ExpireSettlement(l) PROVE Remembers(d)'
    <2>1. settlements' = Delete(settlements, l) /\ l \in DOMAIN settlements
        BY <1>7 DEF ExpireSettlement, ForgetSettlement
    <2>2. CASE l = d.lease
        <3>1. settlements[l].final
            BY <1>1, <1>7, <2>2 DEF ExpireSettlement
        <3> QED
            BY <1>1, <2>2, <3>1 DEF RecInv, SettlementsRecorded
    <2> QED
        BY <1>6, <2>1, <2>2
<1>8. ASSUME NEW k \in DOMAIN calls, Handle(k) \/ CallFails(k) PROVE Remembers(d)'
    <2>1. PICK e \in Definitions : e = calls[k].def
        BY CallDefined DEF Types
    <2>2. CASE Prepare(k)
        <3>1. \A x \in DOMAIN settlements : Spent(x)
            BY DEF HoldInv, SettledSpent
        <3>2. UNCHANGED settlements \/ (e.lease \in DOMAIN leases /\ Dispose(e))
            BY <2>1, <2>2, <3>1, PrepareCases DEF Types
        <3>3. CASE e.lease \in DOMAIN leases /\ Dispose(e)
            <4>1. /\ DOMAIN settlements' = DOMAIN settlements \cup {e.lease}
                  /\ \A x \in DOMAIN settlements \ {e.lease} : settlements'[x] = settlements[x]
                BY <3>3, DisposeFollows
            <4> QED
                BY <1>1, <1>2, <3>3, <4>1
        <3> QED
            BY <1>3, <3>2, <3>3
    <2>3. CASE AcknowledgeProgress(k) \/ Finalize(k)
        <3>1. UNCHANGED settlements \/ SettlementMarked(e.lease)
            BY <2>1, <2>3, ProgressCases, FinalizeCases DEF Types
        <3> QED
            BY <1>3, <1>4, <3>1
    <2>4. CASE Confirm(k)
        <3>1. /\ calls[k].step = "confirm"
              /\ UNCHANGED settlements \/ (Remembers(e) /\ ForgetSettlement(e.lease))
            BY <2>1, <2>4, ConfirmCases DEF Types
        <3>2. IsRecorded(e)
            BY <2>1, <3>1 DEF RecInv, CallsRecorded, PastRecording
        <3>3. CASE Remembers(e) /\ ForgetSettlement(e.lease)
            <4>1. e.lease # d.lease
                BY <1>1, <3>2, <3>3 DEF Remembers
            <4>2. settlements' = Delete(settlements, e.lease)
                BY <3>3 DEF ForgetSettlement
            <4> QED
                BY <1>6, <4>1, <4>2
        <3> QED
            BY <1>3, <3>1, <3>3
    <2>5. CASE RecordTerminal(k) \/ ConfirmDelivery(k) \/ CompleteControl(k) \/ CallFails(k)
        BY <1>3, <2>5 DEF RecordTerminal, ConfirmDelivery, CompleteControl, CallFails
    <2> QED
        BY <1>8, <2>2, <2>3, <2>4, <2>5 DEF Handle
<1>9. CASE (\E w \in Workers : Connect(w)) \/ NodeRestart
    BY <1>3, <1>9 DEF Connect, NodeRestart
<1>10. CASE (\E w \in Workers, o \in Orders, l \in LeaseIds : Claim(w, o, l)) \/ \E l \in LeaseIds : Lapse(l)
    BY <1>3, <1>10 DEF Claim, Lapse
<1> QED
    BY <1>5, <1>7, <1>8, <1>9, <1>10 DEF NodeStep

LEMMA NodeHolds ==
    ASSUME Types, HoldInv, RelayInv, RecInv, SessInv, OpenInv, HeldInv, NodeStep
    PROVE  HeldInv'
<1> USE DEF nodeVars, crawlerVars, leaseVars
<1>1. UNCHANGED crawlerVars
    BY NodeStepFollows DEF NodeFollows
<1>2. recorded \subseteq recorded'
    <2>1. ASSUME NEW k \in DOMAIN calls, RecordTerminal(k) PROVE recorded \subseteq recorded'
        BY <2>1, RecordCases DEF DeliveriesFollow, Types
    <2>2. (\E k \in DOMAIN calls : RecordTerminal(k)) \/ UNCHANGED recorded
        BY DEF NodeStep, Connect, Claim, Lapse, Sweep, ExpireSettlement, ForgetSettlement, Handle,
               Prepare, Dispose, AcknowledgeProgress, ConfirmDelivery, CompleteControl, Finalize,
               Confirm, CallFails, NodeRestart
    <2> QED
        BY <2>1, <2>2
<1>3. ASSUME NEW d \in acknowledged, ~IsRecorded(d)' PROVE Held(d)'
    <2>1. ~IsRecorded(d) /\ Held(d)
        BY <1>2, <1>3 DEF IsRecorded, HeldInv
    <2>2. Remembers(d)' /\ CallsHold(d)'
        BY <2>1, HeldCalls, HeldRemembered
    <2>3. RowHolds(d)' /\ CrawlerHolds(d)'
        BY <1>1, <2>1 DEF Held, RowHolds, CrawlerHolds
    <2> QED
        BY <2>2, <2>3 DEF Held
<1>4. ASSUME NEW d \in acknowledged', d \notin acknowledged PROVE Held(d)'
    <2>1. PICK k \in DOMAIN calls : Prepare(k)
        BY <1>4 DEF NodeStep, Connect, Claim, Lapse, Sweep, ExpireSettlement, ForgetSettlement, Handle,
               AcknowledgeProgress, ConfirmDelivery, CompleteControl, Finalize, RecordTerminal,
               Confirm, CallFails, NodeRestart
    <2>2. PICK e \in Definitions : e = calls[k].def
        BY CallDefined DEF Types
    <2>3. \A x \in DOMAIN settlements : Spent(x)
        BY DEF HoldInv, SettledSpent
    <2>4. /\ ~Spent(e.lease) /\ e.lease \in DOMAIN leases /\ OwnedLive(e) /\ Dispose(e)
          /\ CallGoes(k, "record", calls[k].delivered)
        BY <1>4, <2>1, <2>2, <2>3, PrepareCases DEF Types
    <2>5. acknowledged' \subseteq acknowledged \cup {e}
        BY <2>4 DEF Dispose
    <2>6. d = e
        BY <1>4, <2>5
    <2> QED
        BY <1>1, <2>2, <2>4, <2>6, DisposeHeld
<1> QED
    BY <1>3, <1>4 DEF HeldInv

LEMMA CrawlerHeld ==
    ASSUME Types, HoldInv, RelayInv, RecInv, SessInv, NEW d \in acknowledged, ~IsRecorded(d), Held(d),
           CrawlerStep
    PROVE  Held(d)'
<1> USE DEF nodeVars, leaseVars
<1>0. /\ d \in Definitions /\ d.lease \in LeaseIds /\ d.lease \notin DOMAIN leases
      /\ d.worker \in Workers /\ d.lease # None
    BY TerminalAssumption DEF Types, NodeTypes, Definitions, HoldInv, AcknowledgedGone
<1>1. /\ Remembers(d) /\ d.lease \in DOMAIN outbox
      /\ outbox[d.lease] = [def |-> d, phase |-> "AwaitingAcknowledgment"]
    BY DEF Held, RowHolds
<1>2. outbox[d.lease].def = d /\ outbox[d.lease].phase = "AwaitingAcknowledgment"
    BY <1>1
<1>3. ASSUME UNCHANGED nodeVars, RowHolds(d)', CrawlerHolds(d)', CallsHold(d)' PROVE Held(d)'
    BY <1>1, <1>3 DEF Held, Remembers
<1>4. ASSUME \A x \in DOMAIN outbox \cap {d.lease} : x \in DOMAIN outbox' /\ outbox'[x] = outbox[x]
      PROVE  RowHolds(d)'
    BY <1>1, <1>4 DEF RowHolds
<1>5. ASSUME UNCHANGED <<session, run>>, \A w \in Workers : grants'[w] \subseteq grants[w]
      PROVE  CrawlerHolds(d)'
    BY <1>0, <1>5 DEF Held, CrawlerHolds
<1>6. ASSUME DOMAIN calls' \subseteq DOMAIN calls,
             \A k \in DOMAIN calls' : /\ calls'[k].def = calls[k].def /\ calls'[k].step = calls[k].step
                                      /\ calls'[k].awaited => calls[k].awaited
      PROVE  CallsHold(d)'
    BY <1>6 DEF Held, CallsHold
<1>7. ASSUME NEW k, NEW e, NEW s, CallSent(k, e, s), e = d \/ e.lease # d.lease,
             s \notin {"refused", "confirmed"}
      PROVE  CallsHold(d)'
    <2>1. calls'[k].def = e /\ calls'[k].step = s
        BY <1>7 DEF CallSent
    <2>2. \A j \in DOMAIN calls' : j = k \/ (j \in DOMAIN calls /\ calls'[j] = calls[j])
        BY <1>7 DEF CallSent
    <2> QED
        BY <1>7, <2>1, <2>2 DEF Held, CallsHold
<1>8. ASSUME NEW l \in DOMAIN leases, Deliver(l) PROVE Held(d)'
    <2>1. PICK w, o : w = leases[l].worker /\ o = leases[l].order
        OBVIOUS
    <2>2. /\ w \in Workers /\ o \in Orders
          /\ grants' = [grants EXCEPT ![w] = @ \cup {l}] /\ run' = [run EXCEPT ![w][o] = l]
          /\ UNCHANGED <<nodeVars, calls, outbox, session>>
        BY <1>8, <2>1, DeliverDoes
    <2>3. \A x \in Workers : grants'[x] \subseteq grants[x] \cup {l}
        BY <2>2 DEF Types, CrawlerTypes
    <2>4. \A x \in Workers, y \in Orders : run'[x][y] \in {run[x][y], l}
        BY <2>2 DEF Types, CrawlerTypes
    <2>5. l # d.lease
        BY <1>0
    <2>6. CrawlerHolds(d)'
        BY <1>0, <2>2, <2>3, <2>4, <2>5 DEF Held, CrawlerHolds
    <2> QED
        BY <1>3, <1>4, <1>6, <2>2, <2>6
<1>9. ASSUME NEW w \in Workers, NEW o \in Orders, Complete(w, o) PROVE Held(d)'
    BY <1>3, <1>4, <1>5, <1>6, <1>9 DEF Complete
<1>10. ASSUME NEW w \in Workers, NEW o \in Orders, NEW c \in Outcomes, NEW t \in Tallies,
              Settle(w, o, c, t)
       PROVE  Held(d)'
    <2>1. PICK e : e = Settlement(w, o, c, t)
        OBVIOUS
    <2>2. /\ e \in Definitions /\ run' = [run EXCEPT ![w][o] = None]
          /\ \/ UNCHANGED outbox
             \/ /\ RowPut(e.lease, [def |-> e, phase |-> "AwaitingAcknowledgment"])
                /\ \/ e.lease \notin DOMAIN outbox
                   \/ /\ e.lease \in DOMAIN outbox /\ SameRun(outbox[e.lease].def, e)
          /\ UNCHANGED <<nodeVars, calls, session, grants, relay>>
        BY <1>10, <2>1, SettleDoes
    <2>3. e.lease = run[w][o] /\ e.worker = w /\ e.session = session[w]
        BY <2>1 DEF Settlement
    <2>4. \A x \in Workers, y \in Orders : run'[x][y] \in {run[x][y], None}
        BY <2>2 DEF Types, CrawlerTypes
    <2>5. CrawlerHolds(d)'
        BY <1>0, <2>2, <2>4 DEF Held, CrawlerHolds
    <2>6. RowHolds(d)'
        <3>1. CASE UNCHANGED outbox
            BY <1>4, <3>1
        <3>2. CASE /\ RowPut(e.lease, [def |-> e, phase |-> "AwaitingAcknowledgment"])
                   /\ e.lease # d.lease
            BY <1>4, <3>2 DEF RowPut
        <3>3. CASE /\ RowPut(e.lease, [def |-> e, phase |-> "AwaitingAcknowledgment"])
                   /\ e.lease = d.lease /\ SameRun(outbox[e.lease].def, e)
            <4>1. SameRun(d, e)
                BY <1>2, <3>3
            <4>2. d.session = session[w]
                BY <2>3, <3>3, <4>1 DEF Held, CrawlerHolds, SameRun
            <4>3. e = d
                BY <1>0, <2>2, <2>3, <4>1, <4>2, SameRunSameSession
            <4> QED
                BY <3>3, <4>3 DEF RowPut, RowHolds
        <3> QED
            BY <1>1, <2>2, <3>1, <3>2, <3>3
    <2> QED
        BY <1>3, <1>6, <2>2, <2>5, <2>6
<1>11. ASSUME NEW l \in LeaseIds, NEW k \in Calls, AdvanceAwaiting(l, k) PROVE Held(d)'
    <2>1. l \in DOMAIN outbox /\ UNCHANGED <<nodeVars, session, run, grants>>
        BY <1>11 DEF AdvanceAwaiting
    <2>2. PICK e \in Definitions :
              /\ SameRun(outbox[l].def, e)
              /\ \/ e = outbox[l].def
                 \/ l \in grants[e.worker] /\ e.session = session[e.worker]
              /\ RowPut(l, [def |-> e, phase |-> "AwaitingAcknowledgment"])
              /\ CallSent(k, e, "prepare")
        BY <1>11, AwaitingDoes DEF HoldInv
    <2>3. e.lease = l
        BY <2>1, <2>2 DEF HoldInv, RowsBelong, SameRun
    <2>4. CASE l = d.lease
        <3>1. SameRun(d, e)
            BY <1>2, <2>2, <2>4
        <3>2. e = d
            <4>1. CASE e = outbox[l].def
                BY <1>2, <2>4, <4>1
            <4>2. CASE l \in grants[e.worker] /\ e.session = session[e.worker]
                <5>1. d.session = e.session
                    BY <2>4, <3>1, <4>2 DEF Held, CrawlerHolds, SameRun
                <5> QED
                    BY <1>0, <3>1, <5>1, SameRunSameSession
            <4> QED
                BY <2>2, <4>1, <4>2
        <3>3. RowHolds(d)'
            BY <2>2, <2>4, <3>2 DEF RowPut, RowHolds
        <3> QED
            BY <1>3, <1>5, <1>7, <2>1, <2>2, <3>2, <3>3
    <2>5. CASE l # d.lease
        <3>1. RowHolds(d)'
            BY <1>4, <2>2, <2>5 DEF RowPut
        <3> QED
            BY <1>3, <1>5, <1>7, <2>1, <2>2, <2>3, <2>5, <3>1
    <2> QED
        BY <2>4, <2>5
<1>12. ASSUME NEW l \in LeaseIds, NEW k \in Calls, AdvanceConfirming(l, k) \/ AdvanceToConfirming(l, k)
       PROVE  Held(d)'
    <2>1. /\ l \in DOMAIN outbox /\ outbox[l].phase # "AwaitingAcknowledgment"
          /\ RowPut(l, [def |-> outbox[l].def, phase |-> "Confirming"])
          /\ CallSent(k, outbox[l].def, "confirm") /\ UNCHANGED <<nodeVars, session, run, grants>>
        BY <1>12, ConfirmingDoes DEF HoldInv, RelayInv
    <2>2. l # d.lease /\ outbox[l].def.lease = l
        BY <1>2, <2>1 DEF HoldInv, RowsBelong
    <2>3. RowHolds(d)'
        BY <1>4, <2>1, <2>2 DEF RowPut
    <2> QED
        BY <1>3, <1>5, <1>7, <2>1, <2>2, <2>3
<1>13. ASSUME NEW l \in LeaseIds, AdvanceAcknowledged(l) PROVE Held(d)'
    BY <1>3, <1>4, <1>5, <1>6, <1>13, AcknowledgedDoes
<1>14. ASSUME NEW l \in LeaseIds, MarkDeleting(l) \/ Erase(l) PROVE Held(d)'
    BY <1>3, <1>4, <1>5, <1>6, <1>14 DEF MarkDeleting, Erase
<1>15. ASSUME NEW k \in DOMAIN calls, Receive(k) \/ Timeout(k) PROVE Held(d)'
    <2>1. PICK l : l = calls[k].def.lease
        OBVIOUS
    <2>2. ASSUME CallRead(k) PROVE CallsHold(d)'
        BY <1>6, <2>2 DEF CallRead
    <2>3. ASSUME calls[k].awaited, calls[k].step \in {"token", "confirmed", "refused"}
          PROVE  l # d.lease
        <3>1. ASSUME l = d.lease PROVE FALSE
            <4>1. calls[k].def = d /\ calls[k].step = "token"
                BY <2>1, <2>3, <3>1 DEF Held, CallsHold
            <4>2. IsRecorded(d)
                BY <4>1 DEF RecInv, CallsRecorded, PastRecording
            <4> QED
                BY <4>2
        <3> QED
            BY <3>1
    <2>4. CASE ReceiveToken(k)
        <3>1. /\ RowPut(l, [def |-> outbox[l].def, phase |-> "AcknowledgedDeleting"])
              /\ calls[k].step = "token" /\ calls[k].awaited
              /\ CallRead(k) /\ UNCHANGED <<nodeVars, session, run>>
              /\ \A w \in Workers : grants'[w] \subseteq grants[w]
            BY <2>1, <2>4, TokenDoes
        <3>2. RowHolds(d)'
            BY <1>4, <2>3, <3>1 DEF RowPut
        <3> QED
            BY <1>3, <1>5, <2>2, <3>1, <3>2
    <2>5. CASE ReceiveEnd(k)
        <3>1. /\ RowGone(l) /\ CallRead(k) /\ UNCHANGED <<nodeVars, session, run>>
              /\ calls[k].step \in {"confirmed", "refused"} /\ calls[k].awaited
              /\ \A w \in Workers : grants'[w] \subseteq grants[w]
            BY <2>1, <2>5, EndDoes
        <3>2. RowHolds(d)'
            BY <1>4, <2>3, <3>1 DEF RowGone
        <3> QED
            BY <1>3, <1>5, <2>2, <3>1, <3>2
    <2>6. CASE ReceiveFailure(k)
        <3>1. CallRead(k) /\ UNCHANGED <<nodeVars, outbox, session, run, grants>>
            BY <2>1, <2>6, FailureDoes
        <3> QED
            BY <1>3, <1>4, <1>5, <2>2, <3>1
    <2>7. CASE Timeout(k)
        <3>1. CallsLeft(DOMAIN calls, {k}) /\ UNCHANGED <<nodeVars, outbox, session, run, grants>>
            BY <2>1, <2>7, TimeoutDoes
        <3>2. CallsHold(d)'
            BY <1>6, <3>1 DEF CallsLeft
        <3> QED
            BY <1>3, <1>4, <1>5, <3>1, <3>2
    <2> QED
        BY <1>15, <2>4, <2>5, <2>6, <2>7 DEF Receive
<1>16. ASSUME NEW w \in Workers, CrawlerRestart(w) PROVE Held(d)'
    <2>1. /\ UNCHANGED <<nodeVars, outbox>>
          /\ \A x \in Workers \ {w} : session'[x] = session[x]
          /\ \A o \in Orders : run'[w][o] = None
          /\ \A x \in Workers \ {w} : run'[x] = run[x] /\ grants'[x] = grants[x]
          /\ grants'[w] = {}
          /\ CallsLeft({k \in DOMAIN calls : calls[k].def.worker # w \/ calls[k].step \in Steps},
                       {k \in DOMAIN calls : calls[k].def.worker = w})
        BY <1>16, CrawlerRestartDoes
    <2>2. CallsHold(d)'
        BY <1>6, <2>1 DEF CallsLeft
    <2>3. CrawlerHolds(d)'
        BY <1>0, <2>1 DEF Held, CrawlerHolds
    <2> QED
        BY <1>3, <1>4, <2>1, <2>2, <2>3
<1> QED
    BY <1>8, <1>9, <1>10, <1>11, <1>12, <1>13, <1>14, <1>15, <1>16 DEF CrawlerStep, Advance

LEMMA CrawlerKeepsHeld ==
    ASSUME Types, HoldInv, RelayInv, RecInv, SessInv, HeldInv, CrawlerStep
    PROVE  HeldInv'
<1>1. UNCHANGED <<acknowledged, recorded>>
    BY DEF CrawlerStep, Deliver, Complete, Settle, Advance, AdvanceAwaiting, AdvanceAcknowledged,
           AdvanceConfirming, AdvanceToConfirming, MarkDeleting, Erase, Receive, ReceiveToken,
           ReceiveEnd, ReceiveFailure, Timeout, CrawlerRestart, nodeVars
<1>2. ASSUME NEW d \in acknowledged, ~IsRecorded(d) PROVE Held(d)'
    BY <1>2, CrawlerHeld DEF HeldInv
<1> QED
    BY <1>1, <1>2 DEF HeldInv, IsRecorded

(* All parts together.                                                     *)
Inv == Types /\ HoldInv /\ RelayInv /\ RecInv /\ SessInv /\ OpenInv /\ HeldInv

LEMMA InvInit ==
    ASSUME Init
    PROVE  Inv
<1>1. /\ DOMAIN leases = {} /\ DOMAIN settlements = {} /\ DOMAIN deliveries = {}
      /\ DOMAIN calls = {} /\ DOMAIN outbox = {} /\ acknowledged = {}
      /\ \A w \in Workers : grants[w] = {} /\ \A o \in Orders : run[w][o] = None
    BY DEF Init
<1>2. RecInv
    BY <1>1 DEF RecInv, DeliveriesRecorded, SettlementsRecorded, CallsRecorded,
                RecordedBeforeDeleting
<1>3. SessInv
    BY <1>1 DEF SessInv, LeaseSessions, RowSessions, CallSessions, GrantsFollow, RunsFollow
<1>4. OpenInv
    BY <1>1 DEF OpenInv, OpenRows, OpenCalls, LatestAwaited
<1>5. HeldInv
    BY <1>1 DEF HeldInv
<1> QED
    BY <1>2, <1>3, <1>4, <1>5, BaseInit DEF Inv

LEMMA InvUnchanged ==
    ASSUME Inv, UNCHANGED vars
    PROVE  Inv'
<1> USE DEF vars, nodeVars, crawlerVars, leaseVars
<1>1. Types' /\ HoldInv' /\ RelayInv'
    BY BaseStep DEF Inv
<1>2. RecInv'
    BY DEF Inv, RecInv, DeliveriesRecorded, SettlementsRecorded, CallsRecorded,
           RecordedBeforeDeleting, IsRecorded
<1>3. SessInv'
    BY DEF Inv, SessInv, LeaseSessions, RowSessions, CallSessions, GrantsFollow, RunsFollow, Spent
<1>4. OpenInv'
    BY DEF Inv, OpenInv, OpenRows, OpenCalls, OpenCall, Stale, LatestAwaited, Spent
<1>5. HeldInv'
    BY DEF Inv, HeldInv, Held, Remembers, RowHolds, CrawlerHolds, CallsHold, IsRecorded
<1> QED
    BY <1>1, <1>2, <1>3, <1>4, <1>5 DEF Inv

(* The final snapshot of an acknowledged order is never lost.  Once        *)
(* settleTerminalOrder has deleted the lease, and for as long as no call   *)
(* has recorded the snapshot, the node remembers the settlement and the    *)
(* crawler keeps the very row it came from, awaiting its acknowledgment:   *)
(* whatever times out, fails or restarts, the relay's next round delivers  *)
(* it, no call of an earlier session settles the lease in its place, and   *)
(* neither side takes its own retry for a conflict.                        *)
THEOREM SnapshotNeverLost == Spec => []SnapshotNotLost
<1>1. Init => Inv
    BY InvInit
<1>2. Inv /\ [Next]_vars => Inv'
    <2> SUFFICES ASSUME Inv, [Next]_vars PROVE Inv'
        OBVIOUS
    <2>1. CASE Next
        <3> USE DEF Inv
        <3>1. Types' /\ HoldInv' /\ RelayInv'
            BY BaseStep
        <3>2. NodeStep \/ CrawlerStep
            BY <2>1, NextSplits
        <3>3. RecInv'
            BY <3>2, NodeRecords, CrawlerRecords
        <3>4. SessInv'
            BY <3>2, NodeSessions, CrawlerSessions
        <3>5. OpenInv'
            BY <3>2, NodeOpens, CrawlerOpens
        <3>6. HeldInv'
            BY <3>2, NodeHolds, CrawlerKeepsHeld
        <3> QED
            BY <3>1, <3>3, <3>4, <3>5, <3>6
    <2>2. CASE UNCHANGED vars
        BY <2>2, InvUnchanged
    <2> QED
        BY <2>1, <2>2
<1>3. Inv => SnapshotNotLost
    BY DEF Inv, HeldInv, Held, RowHolds, IsRecorded, SnapshotNotLost
<1> QED
    BY <1>1, <1>2, <1>3, PTL DEF Spec

-----------------------------------------------------------------------------
(* The types that the invariants above do not need: which keys the buckets *)
(* have, the registry and the checkpoints.                                 *)
States == {"none", "active", "completed", "deleting"}

NodeKeys ==
    /\ pending \subseteq Orders /\ issued \subseteq LeaseIds
    /\ DOMAIN settlements \subseteq LeaseIds
    /\ DOMAIN control \subseteq LeaseIds /\ control \in [DOMAIN control -> {"pending", "completed"}]
    /\ DOMAIN deliveries \subseteq Orders
    /\ registered \in [Workers -> 0 .. MaxSession]
    /\ recorded \subseteq Orders \X Tallies

OtherKeys ==
    /\ DOMAIN calls \subseteq Calls
    /\ checkpoint \in [Workers -> [Orders -> States]]

LEMMA PrunedKeys ==
    ASSUME NEW f, NEW g \in Pruned(f)
    PROVE  DOMAIN g \subseteq DOMAIN f
BY DEF Pruned, Delete

LEMMA CompletedTyped ==
    ASSUME NodeKeys, NEW S
    PROVE  /\ DOMAIN CompletedTargets(S) \subseteq DOMAIN control
           /\ CompletedTargets(S) \in [DOMAIN CompletedTargets(S) -> {"pending", "completed"}]
<1>1. DOMAIN CompletedTargets(S) \subseteq DOMAIN control
    BY DEF CompletedTargets
<1>2. ASSUME NEW l \in DOMAIN CompletedTargets(S)
      PROVE  CompletedTargets(S)[l] \in {"pending", "completed"}
    BY <1>2 DEF CompletedTargets, NodeKeys
<1> QED
    BY <1>1, <1>2 DEF CompletedTargets

LEMMA CallDefinition ==
    ASSUME Types, NEW k \in DOMAIN calls
    PROVE  /\ calls[k].def \in Definitions
           /\ calls[k].def.lease \in LeaseIds /\ calls[k].def.order \in Orders
           /\ calls[k].def.worker \in Workers /\ calls[k].def.tally \in Tallies
<1>1. calls[k].def \in Definitions
    BY DEF Types, CallTypes, CallRecord
<1> QED
    BY <1>1 DEF Definitions

LEMMA ForgetKeys ==
    ASSUME Types, NodeKeys, NEW l \in LeaseIds, l \in DOMAIN settlements, settlements[l].terminal,
           ForgetSettlement(l)
    PROVE  NodeKeys'
<1>1. settlements[l] \in TerminalRecord
    BY DEF Types, NodeTypes, SettlementRecord, Plain
<1>2. settlements[l].def.order \in Orders
    BY <1>1 DEF TerminalRecord, Definitions
<1>3. pending' \subseteq Orders
    BY <1>2 DEF ForgetSettlement, RequeueTerminalLease, NodeKeys
<1>4. /\ settlements' = Delete(settlements, l) /\ control' = Delete(control, l)
      /\ UNCHANGED <<issued, deliveries, registered, recorded>>
    BY DEF ForgetSettlement
<1>5. /\ DOMAIN settlements' \subseteq LeaseIds /\ DOMAIN control' \subseteq LeaseIds
      /\ control' \in [DOMAIN control' -> {"pending", "completed"}]
    BY <1>4 DEF NodeKeys, Delete
<1> QED
    BY <1>3, <1>4, <1>5 DEF NodeKeys

LEMMA HandleKeys ==
    ASSUME Types, NodeKeys, NEW k \in DOMAIN calls, Handle(k) \/ CallFails(k)
    PROVE  NodeKeys'
<1> USE DEF nodeVars, leaseVars
<1>1. PICK d \in Definitions : /\ d = calls[k].def /\ d.lease \in LeaseIds /\ d.order \in Orders
                               /\ d.tally \in Tallies
    BY CallDefinition
<1>2. CASE UNCHANGED nodeVars
    BY <1>2 DEF NodeKeys
<1>3. CASE Prepare(k)
    <2>1. UNCHANGED nodeVars \/ Dispose(d)
        BY <1>1, <1>3 DEF Prepare
    <2>2. CASE Dispose(d)
        <3>1. UNCHANGED <<pending, issued, deliveries, registered, recorded>>
            BY <2>2 DEF Dispose
        <3>2. DOMAIN settlements' \subseteq LeaseIds
            BY <1>1, <2>2 DEF Dispose, Put, NodeKeys
        <3>3. control' = control \/ control' = Put(control, d.lease, "pending")
            BY <2>2 DEF Dispose
        <3>4. /\ DOMAIN control' \subseteq LeaseIds
              /\ control' \in [DOMAIN control' -> {"pending", "completed"}]
            BY <1>1, <3>3 DEF Put, NodeKeys
        <3> QED
            BY <3>1, <3>2, <3>4 DEF NodeKeys
    <2> QED
        BY <1>2, <2>1, <2>2
<1>4. CASE RecordTerminal(k)
    <2>1. UNCHANGED <<pending, issued, settlements, control, registered>>
        BY <1>4 DEF RecordTerminal
    <2>2. recorded' \subseteq Orders \X Tallies
        BY <1>1, <1>4 DEF RecordTerminal, NodeKeys
    <2>3. \/ UNCHANGED deliveries
          \/ \E r : deliveries' \in Pruned(Put(deliveries, d.order, r))
        BY <1>1, <1>4 DEF RecordTerminal
    <2>4. ASSUME NEW r PROVE DOMAIN Put(deliveries, d.order, r) \subseteq Orders
        BY <1>1 DEF Put, NodeKeys
    <2>5. DOMAIN deliveries' \subseteq Orders
        BY <2>3, <2>4, PrunedKeys DEF NodeKeys
    <2> QED
        BY <2>1, <2>2, <2>5 DEF NodeKeys
<1>5. CASE AcknowledgeProgress(k) \/ Finalize(k)
    <2>1. UNCHANGED <<pending, issued, control, deliveries, registered, recorded>>
        BY <1>5 DEF AcknowledgeProgress, Finalize
    <2>2. DOMAIN settlements' = DOMAIN settlements
        BY <1>5 DEF AcknowledgeProgress, Finalize
    <2> QED
        BY <2>1, <2>2 DEF NodeKeys
<1>6. CASE ConfirmDelivery(k)
    <2>1. UNCHANGED <<pending, issued, settlements, control, registered, recorded>>
        BY <1>6 DEF ConfirmDelivery
    <2>2. \/ UNCHANGED deliveries
          \/ deliveries' \in Pruned([deliveries EXCEPT ![d.order].confirmed = TRUE])
        BY <1>1, <1>6 DEF ConfirmDelivery
    <2>3. DOMAIN deliveries' \subseteq DOMAIN deliveries
        BY <2>2, PrunedKeys
    <2> QED
        BY <2>1, <2>3 DEF NodeKeys
<1>7. CASE CompleteControl(k)
    <2>1. UNCHANGED <<pending, issued, settlements, deliveries, registered, recorded>>
        BY <1>7 DEF CompleteControl
    <2>2. UNCHANGED control \/ control' = CompletedTargets({d.lease})
        BY <1>1, <1>7 DEF CompleteControl
    <2> QED
        BY <2>1, <2>2, CompletedTyped DEF NodeKeys
<1>8. CASE Confirm(k)
    <2>1. UNCHANGED nodeVars \/ (Remembers(d) /\ ForgetSettlement(d.lease))
        BY <1>1, <1>8 DEF Confirm
    <2> QED
        BY <1>1, <1>2, <2>1, ForgetKeys DEF Remembers
<1>9. CASE CallFails(k)
    BY <1>2, <1>9 DEF CallFails
<1> QED
    BY <1>3, <1>4, <1>5, <1>6, <1>7, <1>8, <1>9 DEF Handle

LEMMA NodeStepKeys ==
    ASSUME Types, NodeKeys, NodeStep
    PROVE  NodeKeys'
<1> USE DEF nodeVars, leaseVars
<1>1. ASSUME NEW w \in Workers, Connect(w) PROVE NodeKeys'
    <2>1. session[w] \in 0 .. MaxSession
        BY TerminalAssumption DEF Types, CrawlerTypes, Sessions
    <2>2. /\ registered' = [registered EXCEPT ![w] = session[w]]
          /\ UNCHANGED <<pending, issued, settlements, control, deliveries, recorded>>
        BY <1>1 DEF Connect
    <2> QED
        BY <2>1, <2>2 DEF NodeKeys
<1>2. ASSUME NEW w \in Workers, NEW o \in Orders, NEW l \in LeaseIds, Claim(w, o, l)
      PROVE  NodeKeys'
    BY <1>2 DEF Claim, NodeKeys
<1>3. ASSUME NEW l \in LeaseIds, Lapse(l) PROVE NodeKeys'
    BY <1>3 DEF Lapse, NodeKeys
<1>4. ASSUME NEW l \in LeaseIds, Sweep(l) PROVE NodeKeys'
    <2>1. leases[l].order \in Orders
        BY <1>4 DEF Sweep, Types, NodeTypes, LeaseRecord
    <2>2. DOMAIN settlements' \subseteq LeaseIds
        BY <1>4 DEF Sweep, Put, NodeKeys
    <2>3. /\ pending' = pending \cup {leases[l].order}
          /\ UNCHANGED <<issued, control, deliveries, registered, recorded>>
        BY <1>4 DEF Sweep
    <2> QED
        BY <2>1, <2>2, <2>3 DEF NodeKeys
<1>5. ASSUME NEW l \in LeaseIds, ExpireSettlement(l) PROVE NodeKeys'
    <2>1. CASE settlements[l].terminal
        BY <1>5, <2>1, ForgetKeys DEF ExpireSettlement
    <2>2. CASE ~settlements[l].terminal
        BY <1>5, <2>2 DEF ExpireSettlement, Delete, NodeKeys
    <2> QED
        BY <2>1, <2>2
<1>6. CASE NodeRestart
    <2>1. /\ UNCHANGED <<pending, issued, settlements, deliveries, recorded>>
          /\ control' = CompletedTargets(DOMAIN control) /\ registered' = [w \in Workers |-> 0]
        BY <1>6 DEF NodeRestart
    <2>2. registered' \in [Workers -> 0 .. MaxSession]
        BY <2>1, TerminalAssumption
    <2> QED
        BY <2>1, <2>2, CompletedTyped DEF NodeKeys
<1> QED
    BY <1>1, <1>2, <1>3, <1>4, <1>5, <1>6, HandleKeys DEF NodeStep

LEMMA CheckpointPut ==
    ASSUME OtherKeys, NEW w \in Workers, NEW o \in Orders, NEW s \in States,
           checkpoint' = [checkpoint EXCEPT ![w][o] = s]
    PROVE  checkpoint' \in [Workers -> [Orders -> States]]
BY DEF OtherKeys

LEMMA CrawlerStepKeys ==
    ASSUME Types, RelayInv, OtherKeys, CrawlerStep
    PROVE  OtherKeys'
<1> USE DEF crawlerVars
<1>1. ASSUME NEW l \in DOMAIN leases, Deliver(l) PROVE OtherKeys'
    <2>1. PICK w \in Workers, o \in Orders : w = leases[l].worker /\ o = leases[l].order
        BY DEF Types, NodeTypes, LeaseRecord
    <2>2. PICK s \in States : s = IF checkpoint[w][o] = "none" THEN "active" ELSE checkpoint[w][o]
        BY DEF OtherKeys, States
    <2>3. checkpoint' = [checkpoint EXCEPT ![w][o] = s] /\ UNCHANGED calls
        BY <1>1, <2>1, <2>2 DEF Deliver
    <2> QED
        BY <2>3, CheckpointPut DEF OtherKeys
<1>2. ASSUME NEW w \in Workers, NEW o \in Orders, Complete(w, o) PROVE OtherKeys'
    BY <1>2, CheckpointPut DEF Complete, OtherKeys, States
<1>3. ASSUME NEW w \in Workers, NEW o \in Orders, NEW c \in Outcomes, NEW t \in Tallies,
             Settle(w, o, c, t)
      PROVE  OtherKeys'
    BY <1>3 DEF Settle, OtherKeys
<1>4. ASSUME NEW l \in LeaseIds, NEW k \in Calls,
             AdvanceAwaiting(l, k) \/ AdvanceConfirming(l, k) \/ AdvanceToConfirming(l, k)
      PROVE  OtherKeys'
    BY <1>4 DEF AdvanceAwaiting, AdvanceConfirming, AdvanceToConfirming, Send, Put, OtherKeys
<1>5. ASSUME NEW l \in LeaseIds, AdvanceAcknowledged(l) PROVE OtherKeys'
    BY <1>5 DEF AdvanceAcknowledged, OtherKeys
<1>6. ASSUME NEW l \in LeaseIds, MarkDeleting(l) \/ Erase(l) PROVE OtherKeys'
    <2>1. l \in DOMAIN outbox
        BY <1>6 DEF MarkDeleting, Erase, RelayInv, ErasesAcknowledged
    <2>2. PICK w \in Workers, o \in Orders : w = outbox[l].def.worker /\ o = outbox[l].def.order
        BY <2>1, RowDefinition DEF Types, Definitions
    <2>3. PICK s \in States : s = IF checkpoint[w][o] = "none" THEN "none" ELSE "deleting"
        BY DEF States
    <2>4. /\ UNCHANGED calls
          /\ \/ checkpoint' = [checkpoint EXCEPT ![w][o] = s]
             \/ checkpoint' = [checkpoint EXCEPT ![w][o] = "none"]
        BY <1>6, <2>2, <2>3 DEF MarkDeleting, Erase
    <2> QED
        BY <2>4, CheckpointPut DEF OtherKeys, States
<1>7. ASSUME NEW k \in DOMAIN calls, Receive(k) \/ Timeout(k) PROVE OtherKeys'
    BY <1>7 DEF Receive, ReceiveToken, ReceiveEnd, ReceiveFailure, Timeout, Delete, OtherKeys
<1>8. ASSUME NEW w \in Workers, CrawlerRestart(w) PROVE OtherKeys'
    <2>1. DOMAIN calls' \subseteq Calls
        BY <1>8 DEF CrawlerRestart, OtherKeys
    <2>2. checkpoint' = [checkpoint EXCEPT ![w] =
              [o \in Orders |-> IF checkpoint[w][o] = "deleting" THEN "none" ELSE checkpoint[w][o]]]
        BY <1>8 DEF CrawlerRestart
    <2>3. checkpoint' \in [Workers -> [Orders -> States]]
        BY <2>2 DEF OtherKeys, States
    <2> QED
        BY <2>1, <2>3 DEF OtherKeys
<1> QED
    BY <1>1, <1>2, <1>3, <1>4, <1>5, <1>6, <1>7, <1>8 DEF CrawlerStep, Advance

LEMMA KeysStep ==
    ASSUME Types, HoldInv, RelayInv, NodeKeys, OtherKeys, [Next]_vars
    PROVE  NodeKeys' /\ OtherKeys'
<1> USE DEF vars, nodeVars, crawlerVars, leaseVars
<1>1. CASE NodeStep
    <2>1. NodeFollows
        BY <1>1, NodeStepFollows
    <2>2. DOMAIN calls' \subseteq DOMAIN calls /\ UNCHANGED checkpoint
        BY <2>1 DEF NodeFollows, CallsStay
    <2> QED
        BY <1>1, <2>2, NodeStepKeys DEF OtherKeys
<1>2. CASE CrawlerStep
    <2>1. UNCHANGED nodeVars
        BY <1>2 DEF CrawlerStep, Deliver, Complete, Settle, Advance, AdvanceAwaiting,
               AdvanceAcknowledged, AdvanceConfirming, AdvanceToConfirming, MarkDeleting, Erase,
               Receive, ReceiveToken, ReceiveEnd, ReceiveFailure, Timeout, CrawlerRestart
    <2> QED
        BY <1>2, <2>1, CrawlerStepKeys DEF NodeKeys
<1>3. CASE UNCHANGED vars
    BY <1>3 DEF NodeKeys, OtherKeys
<1> QED
    BY <1>1, <1>2, <1>3, NextSplits

(* Every state of the settlement has its type, on both sides: no call and  *)
(* no restart leaves a remembered outcome, a control target, a snapshot or *)
(* a row under a key that is not one, or half of a record.                 *)
THEOREM SettlementTypeCorrect == Spec => []TypeOK
<1> DEFINE I == Types /\ HoldInv /\ RelayInv /\ NodeKeys /\ OtherKeys
<1>1. Init => I
    <2> SUFFICES ASSUME Init PROVE NodeKeys /\ OtherKeys
        BY BaseInit
    <2>1. NodeKeys
        BY TerminalAssumption DEF Init, NodeKeys
    <2>2. OtherKeys
        BY DEF Init, OtherKeys, States
    <2> QED
        BY <2>1, <2>2
<1>2. I /\ [Next]_vars => I'
    BY BaseStep, KeysStep
<1>3. I => TypeOK
    BY DEF Types, NodeTypes, CallTypes, CrawlerTypes, SettlementRecord, DeliveryRecord,
           RelayStages, NodeKeys, OtherKeys, States, TypeOK
<1> QED
    BY <1>1, <1>2, <1>3, PTL DEF Spec

=============================================================================
