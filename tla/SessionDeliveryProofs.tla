------------------------- MODULE SessionDeliveryProofs -------------------------
(***************************************************************************)
(* Theorems about the delivery of orders to a crawler, for every number of *)
(* orders, batch size, capacity and number of faults.                      *)
(***************************************************************************)
EXTENDS SessionDelivery, FiniteSetTheorems, SequenceTheorems, WellFoundedInduction, TLAPS

-----------------------------------------------------------------------------
(* Types, and the least order of a set.                                    *)

Places == {"new", "pending", "live", "lapsed", "settled"}

HandlerRecord ==
    [stage : HandlerStages, todo : SUBSET Orders, manifest : SUBSET Orders,
     header : SUBSET Orders, batch : SUBSET Orders, changed : BOOLEAN]

ReaderRecord ==
    [stage : ReaderStages, session : Nat, order : Nat, retain : SUBSET Orders,
     ask : SUBSET Orders, replay : SUBSET Orders, remaining : SUBSET Orders,
     seen : BOOLEAN, declared : BOOLEAN, closed : BOOLEAN, refused : BOOLEAN]

NodeTypes ==
    /\ place \in [Orders -> Places]
    /\ unsignalled \in BOOLEAN
    /\ handler \in HandlerRecord

LEMMA LeastOrder ==
    ASSUME NEW S, S \subseteq Orders, S # {}
    PROVE  Min(S) \in S /\ \A x \in S : Min(S) <= x
<1>1. PICK o \in S : \A x \in S : <<x, o>> \notin OpToRel(<, Nat)
    <2>1. S \subseteq Nat
        BY DeliveryAssumption DEF Orders
    <2> QED
        BY <2>1, NatLessThanWellFounded, WFMin, Zenon
<1>2. \A x \in S : o <= x
    <2>1. OpToRel(<, Nat) = {ss \in Nat \X Nat : ss[1] < ss[2]}
        BY Zenon DEF OpToRel
    <2>2. \A x \in S : x \in Nat
        BY DeliveryAssumption DEF Orders
    <2>3. \A x \in S : ~(x < o)
        BY <1>1, <2>1, <2>2
    <2> QED
        BY <2>2, <2>3
<1> QED
    BY <1>2 DEF Min

LEMMA FirstOfSome ==
    ASSUME NEW S, S \subseteq Orders, S # {}
    PROVE  FirstOf(S) \subseteq S /\ FirstOf(S) # {}
<1>1. Min(S) \in S /\ \A x \in S : Min(S) <= x
    BY LeastOrder
<1>2. {x \in S : x < Min(S)} = {}
    <2>1. \A x \in S : x \in Nat
        BY DeliveryAssumption DEF Orders
    <2>2. PICK m \in S : m = Min(S)
        BY <1>1
    <2>3. \A x \in S : ~(x < m)
        BY <1>1, <2>1, <2>2
    <2> QED
        BY <2>2, <2>3
<1>3. Cardinality({x \in S : x < Min(S)}) < BatchSize
    BY <1>2, FS_EmptySet, DeliveryAssumption
<1> QED
    BY <1>1, <1>3 DEF FirstOf

LEMMA TypesInit == Init => NodeTypes
<1> SUFFICES ASSUME Init PROVE NodeTypes
    OBVIOUS
<1>1. place \in [Orders -> Places]
    BY DEF Init, Places
<1>2. handler \in HandlerRecord
    BY DEF Init, NoHandler, HandlerRecord, HandlerStages
<1> QED
    BY <1>1, <1>2 DEF Init, NodeTypes

-----------------------------------------------------------------------------
LEMMA TypesStep == NodeTypes /\ [Next]_vars => NodeTypes'
<1> SUFFICES ASSUME NodeTypes, [Next]_vars PROVE NodeTypes'
    OBVIOUS
<1> USE DEF nodeVars, streamVars, leaseVars, OthersUnchanged, HandlerAt, HandlerEnds
<1> USE DEF NodeTypes
<1>1. ASSUME NEW o \in Orders, Publish(o) PROVE NodeTypes'
    BY <1>1 DEF Publish, Places
<1>2. ASSUME NEW o \in Orders, Finish(o) PROVE NodeTypes'
    BY <1>2 DEF Finish
<1>3. ASSUME NEW o \in Orders, Settle(o) PROVE NodeTypes'
    BY <1>3 DEF Settle, Places
<1>4. CASE Signal
    BY <1>4 DEF Signal, HandlerRecord
<1>5. CASE Connect
    BY <1>5 DEF Connect, HandlerRecord, HandlerStages, NoHandler, Leased, Places
<1>6. CASE StartBatch
    <2>1. PICK t \in SUBSET Orders, b \in SUBSET Orders :
              t = handler.todo \ FirstOf(handler.todo) /\ b = FirstOf(handler.todo)
        BY DEF HandlerRecord, FirstOf
    <2>2. handler' \in {[NoHandler EXCEPT !.stage = "look"],
                       [handler EXCEPT !.stage = "send", !.header = b, !.batch = b, !.todo = t]}
        BY <1>6, <2>1 DEF StartBatch
    <2>3. /\ [NoHandler EXCEPT !.stage = "look"] \in HandlerRecord
          /\ [handler EXCEPT !.stage = "send", !.header = b, !.batch = b, !.todo = t]
                \in HandlerRecord
        BY DEF NoHandler, HandlerRecord, HandlerStages
    <2> QED
        BY <1>6, <2>2, <2>3 DEF StartBatch
<1>7. CASE SendRecovered
    <2>1. PICK b \in SUBSET Orders : b = handler.batch \ {Min(handler.batch)}
        BY DEF HandlerRecord
    <2>2. PICK s \in HandlerStages :
              s = IF handler.header # {} THEN "await" ELSE IF b # {} THEN "send" ELSE "batch"
        BY DEF HandlerStages
    <2>3. handler' \in {[NoHandler EXCEPT !.stage = "end"],
                       [handler EXCEPT !.batch = b, !.header = {}, !.stage = s]}
        BY <1>7, <2>1, <2>2 DEF SendRecovered
    <2>4. /\ [NoHandler EXCEPT !.stage = "end"] \in HandlerRecord
          /\ [handler EXCEPT !.batch = b, !.header = {}, !.stage = s] \in HandlerRecord
        BY DEF NoHandler, HandlerRecord, HandlerStages
    <2> QED
        BY <1>7, <2>3, <2>4 DEF SendRecovered
<1>8. CASE AwaitConfirmation
    <2>1. \/ handler' = [NoHandler EXCEPT !.stage = "end"]
          \/ handler' = [handler EXCEPT !.stage = "look"]
          \/ handler' = [handler EXCEPT !.stage = "send"]
          \/ handler' = [handler EXCEPT !.stage = "batch"]
        BY <1>8 DEF AwaitConfirmation
    <2>2. handler' \in HandlerRecord
        BY <2>1 DEF NoHandler, HandlerRecord, HandlerStages
    <2> QED
        BY <1>8, <2>2 DEF AwaitConfirmation
<1>9. CASE Look \/ Pause \/ Sleep \/ ExpectNew \/ SendNew \/ Deactivate
    <2>1. CASE Look \/ Pause \/ Sleep
        BY <2>1 DEF Look, Pause, Sleep, NoHandler, HandlerRecord, HandlerStages
    <2>2. CASE ExpectNew
        BY <2>2 DEF ExpectNew, HandlerRecord, HandlerStages
    <2>3. CASE SendNew
        BY <2>3 DEF SendNew, NoHandler, HandlerRecord, HandlerStages
    <2>4. CASE Deactivate
        BY <2>4 DEF Deactivate, NoHandler, HandlerRecord, HandlerStages
    <2> QED
        BY <1>9, <2>1, <2>2, <2>3, <2>4
<1>10. CASE Claim
    <2>1. CASE broken \/ Claimable = {}
        <3>1. /\ \/ handler' = [NoHandler EXCEPT !.stage = "end"]
                 \/ handler' = [handler EXCEPT !.stage = "pause"]
              /\ UNCHANGED <<place, unsignalled>>
            BY <1>10, <2>1 DEF Claim
        <3> QED
            BY <3>1 DEF NoHandler, HandlerRecord, HandlerStages
    <2>2. CASE ~broken /\ Claimable # {}
        <3>1. Min(Claimable) \in Orders
            BY <2>2, LeastOrder DEF Claimable
        <3>2. PICK b \in SUBSET Orders : b = {Min(Claimable)}
            BY <3>1
        <3>3. handler' = [handler EXCEPT !.stage = "expect", !.batch = b, !.changed = FALSE]
            BY <1>10, <2>2, <3>2 DEF Claim
        <3>4. handler' \in HandlerRecord
            BY <3>3 DEF NoHandler, HandlerRecord, HandlerStages
        <3>5. place' \in [Orders -> Places]
            BY <1>10, <2>2, <3>1 DEF Claim, Places
        <3> QED
            BY <1>10, <3>4, <3>5 DEF Claim
    <2> QED
        BY <2>1, <2>2
<1>11. CASE ReaderStep
    BY <1>11 DEF ReaderStep, Receive, AskNode, Call, Deliver, StreamEnds
<1>12. CASE AnswerStep
    BY <1>12 DEF AnswerStep, Answered, Refused, CallFails
<1>13. ASSUME NEW c \in {"awaited", "late"}, CallStep(c) PROVE NodeTypes'
    BY <1>13 DEF CallStep, HandleCall, ConfirmCall
<1>14. CASE PeriodicHeartbeat
    BY <1>14 DEF PeriodicHeartbeat, Call
<1>15. CASE Fault
    <2>1. NoHandler \in HandlerRecord
        BY DEF NoHandler, HandlerRecord, HandlerStages
    <2> QED
        BY <1>15, <2>1 DEF Fault, Break, Lapse, GrantExpires, NodeRestart, CrawlerRestart, Places
<1>16. CASE UNCHANGED vars
    BY <1>16 DEF vars
<1> QED
    BY <1>1, <1>2, <1>3, <1>4, <1>5, <1>6, <1>7, <1>8, <1>9, <1>10, <1>11, <1>12, <1>13,
       <1>14, <1>15, <1>16 DEF Next, HandlerStep

LEMMA TypesHold == Spec => []NodeTypes
BY TypesInit, TypesStep, PTL DEF Spec

-----------------------------------------------------------------------------
(* Sleeping on the channel.  A handler takes the channel before it looks,  *)
(* so whatever makes an order claimable after the look signals that        *)
(* channel or has still to do it.                                          *)

LEMMA WakeStep == NodeTypes /\ NoWakeupLost /\ [Next]_vars => NoWakeupLost'
<1> SUFFICES ASSUME NodeTypes, NoWakeupLost, [Next]_vars PROVE NoWakeupLost'
    OBVIOUS
<1> USE DEF nodeVars, streamVars, leaseVars, OthersUnchanged, HandlerAt, HandlerEnds
<1>0. ASSUME UNCHANGED <<place, unsignalled, handler>> PROVE NoWakeupLost'
    BY <1>0 DEF NoWakeupLost, Claimable, Leased
<1>1. ASSUME NEW o \in Orders, Publish(o) PROVE NoWakeupLost'
    BY <1>1 DEF Publish, NoWakeupLost
<1>2. ASSUME NEW o \in Orders, Finish(o) PROVE NoWakeupLost'
    BY <1>2, <1>0 DEF Finish
<1>3. ASSUME NEW o \in Orders, Settle(o) PROVE NoWakeupLost'
    BY <1>3 DEF Settle, NoWakeupLost
<1>4. CASE Signal
    BY <1>4 DEF Signal, NoWakeupLost, NodeTypes, HandlerRecord
<1>5. CASE Connect
    BY <1>5 DEF Connect, NoHandler, NoWakeupLost
<1>6. CASE StartBatch \/ SendRecovered \/ AwaitConfirmation \/ Look \/ Sleep \/ ExpectNew
           \/ SendNew \/ Deactivate
    <2>1. PICK h \in HandlerRecord : h = handler
        BY DEF NodeTypes
    <2>2. CASE StartBatch \/ SendRecovered
        BY <2>1, <2>2 DEF StartBatch, SendRecovered, NoHandler, HandlerRecord, NoWakeupLost
    <2>3. CASE AwaitConfirmation \/ Look \/ Sleep
        BY <2>1, <2>3 DEF AwaitConfirmation, Look, Sleep, NoHandler, HandlerRecord, NoWakeupLost
    <2>4. CASE ExpectNew \/ SendNew
        BY <2>1, <2>4 DEF ExpectNew, SendNew, NoHandler, HandlerRecord, NoWakeupLost
    <2>5. CASE Deactivate
        BY <2>5 DEF Deactivate, NoHandler, NoWakeupLost
    <2> QED
        BY <1>6, <2>2, <2>3, <2>4, <2>5
<1>7. CASE Claim
    <2>1. CASE broken \/ Claimable # {}
        <3>1. handler'.stage \notin {"pause", "sleep"}
            BY <1>7, <2>1 DEF Claim, NoHandler, NodeTypes, HandlerRecord
        <3> QED
            BY <3>1 DEF NoWakeupLost
    <2>2. CASE ~broken /\ Claimable = {}
        BY <1>7, <2>2 DEF Claim, NoWakeupLost, Claimable, Leased
    <2> QED
        BY <2>1, <2>2
<1>8. CASE Pause
    BY <1>8 DEF Pause, NoWakeupLost, Claimable, Leased, NodeTypes, HandlerRecord
<1>9. CASE ReaderStep
    BY <1>9, <1>0 DEF ReaderStep, Receive, AskNode, Call, Deliver, StreamEnds
<1>10. CASE AnswerStep
    BY <1>10, <1>0 DEF AnswerStep, Answered, Refused, CallFails
<1>11. ASSUME NEW c \in {"awaited", "late"}, CallStep(c) PROVE NoWakeupLost'
    BY <1>11, <1>0 DEF CallStep, HandleCall, ConfirmCall
<1>12. CASE PeriodicHeartbeat
    BY <1>12, <1>0 DEF PeriodicHeartbeat, Call
<1>13. CASE Fault
    <2>1. CASE NodeRestart
        BY <2>1 DEF NodeRestart, NoWakeupLost, NoHandler
    <2>2. ASSUME NEW o \in Orders, Lapse(o) PROVE NoWakeupLost'
        <3>1. Leased' = Leased /\ {x \in Orders : place'[x] = "pending"} = {x \in Orders : place[x] = "pending"}
            BY <2>2 DEF Lapse, Leased, NodeTypes
        <3>2. Claimable' = Claimable
            BY <3>1 DEF Claimable
        <3> QED
            BY <2>2, <3>2 DEF Lapse, NoWakeupLost
    <2>3. CASE Break \/ CrawlerRestart \/ \E o \in Orders : GrantExpires(o)
        BY <2>3, <1>0 DEF Break, CrawlerRestart, GrantExpires
    <2> QED
        BY <1>13, <2>1, <2>2, <2>3 DEF Fault
<1>14. CASE UNCHANGED vars
    BY <1>14, <1>0 DEF vars
<1> QED
    BY <1>1, <1>2, <1>3, <1>4, <1>5, <1>6, <1>7, <1>8, <1>9, <1>10, <1>11, <1>12, <1>13,
       <1>14 DEF Next, HandlerStep

(* A handler never sleeps through a publication, or through a settlement   *)
(* that makes room: leaseNextForSession takes the channel of the queue     *)
(* before its transaction looks for an order.                              *)
THEOREM NoWakeupIsLost == Spec => []NoWakeupLost
<1>1. Init => NoWakeupLost
    BY DEF Init, NoHandler, NoWakeupLost
<1> QED
    BY <1>1, TypesHold, WakeStep, PTL DEF Spec

-----------------------------------------------------------------------------
(* Frames.  A view is what the reader remembers of the frames it accepted; *)
(* Accepts and After are what its checks and its assignments make of a     *)
(* message, read as functions of the view.                                 *)

Views ==
    [replay : SUBSET Orders, remaining : SUBSET Orders, seen : BOOLEAN,
     declared : BOOLEAN, closed : BOOLEAN]

View(r) ==
    [replay |-> r.replay, remaining |-> r.remaining, seen |-> r.seen,
     declared |-> r.declared, closed |-> r.closed]

FreshView ==
    [replay |-> {}, remaining |-> {}, seen |-> FALSE, declared |-> FALSE, closed |-> FALSE]

BatchOf(v, m) == IF v.replay = {} THEN m.header ELSE v.replay
DeclaredOf(v, m) == IF m.manifest # {} THEN m.manifest ELSE v.remaining

AcceptsRecovered(v, m) ==
    /\ v.replay = {} <=> m.header # {}
    /\ m.order = Min(BatchOf(v, m))
    /\ m.end <=> BatchOf(v, m) = {m.order}
    /\ ~v.closed
    /\ ~(v.replay = {} /\ v.declared /\ v.seen /\ v.remaining = {})
    /\ m.manifest # {} => v.replay = {} /\ ~v.seen
    /\ v.replay = {} /\ (v.declared \/ m.manifest # {}) => m.header \subseteq DeclaredOf(v, m)

Accepts(v, m) ==
    /\ m.recovered => AcceptsRecovered(v, m)
    /\ ~m.recovered => v.replay = {} /\ v.remaining = {}

AfterRecovered(v, m) ==
    [replay |-> BatchOf(v, m) \ {m.order}, remaining |-> DeclaredOf(v, m) \ m.header,
     seen |-> TRUE, declared |-> v.declared \/ m.manifest # {}, closed |-> v.closed]

After(v, m) ==
    IF m.recovered THEN AfterRecovered(v, m) ELSE [v EXCEPT !.closed = TRUE]

(* Reading the messages w one after another leads from v to e, and each of *)
(* them is accepted on the way.                                            *)
Reads(t, w) ==
    /\ t \in [0 .. Len(w) -> Views]
    /\ \A i \in 1 .. Len(w) : Accepts(t[i - 1], w[i]) /\ t[i] = After(t[i - 1], w[i])

Leads(w, v, e) == \E t : Reads(t, w) /\ t[0] = v /\ t[Len(w)] = e

LEMMA AfterTyped ==
    ASSUME NEW v \in Views, NEW m \in Message
    PROVE  After(v, m) \in Views
<1>1. CASE m.recovered
    BY <1>1 DEF After, AfterRecovered, BatchOf, DeclaredOf, Views, Message
<1>2. CASE ~m.recovered
    BY <1>2 DEF After, Views
<1> QED
    BY <1>1, <1>2

LEMMA LeadsNowhere ==
    ASSUME NEW v \in Views
    PROVE  Leads(<< >>, v, v)
<1> DEFINE t == [i \in 0 .. 0 |-> v]
<1>1. Reads(t, << >>) /\ t[0] = v
    BY DEF Reads
<1> HIDE DEF t
<1> QED
    BY <1>1 DEF Leads

LEMMA LeadsFurther ==
    ASSUME NEW w \in Seq(Message), NEW m \in Message, NEW v, NEW e \in Views,
           Leads(w, v, e), Accepts(e, m)
    PROVE  Leads(Append(w, m), v, After(e, m))
<1>1. PICK t : Reads(t, w) /\ t[0] = v /\ t[Len(w)] = e
    BY DEF Leads
<1>2. PICK n \in Nat : n = Len(w)
    BY LenProperties
<1>3. PICK x \in Views : x = After(e, m)
    BY AfterTyped
<1>4. PICK a \in Seq(Message) : a = Append(w, m)
    BY AppendProperties
<1>5. Len(a) = n + 1 /\ a[n + 1] = m /\ \A i \in 1 .. n : a[i] = w[i]
    BY <1>2, <1>4, AppendProperties
<1> DEFINE u == [i \in 0 .. n + 1 |-> IF i = n + 1 THEN x ELSE t[i]]
<1>6. u \in [0 .. n + 1 -> Views]
    BY <1>1, <1>2 DEF Reads
<1>7. u[0] = v /\ u[n + 1] = x /\ u[n] = e
    BY <1>1, <1>2
<1>8. ASSUME NEW i \in 1 .. n + 1
      PROVE  Accepts(u[i - 1], a[i]) /\ u[i] = After(u[i - 1], a[i])
    <2>1. CASE i = n + 1
        BY <2>1, <1>3, <1>5, <1>7
    <2>2. CASE i # n + 1
        <3>1. i \in 1 .. n /\ i - 1 \in 0 .. n + 1 /\ i - 1 # n + 1
            BY <2>2
        <3>2. u[i] = t[i] /\ u[i - 1] = t[i - 1] /\ a[i] = w[i]
            BY <2>2, <3>1, <1>5
        <3> QED
            BY <3>1, <3>2, <1>1, <1>2 DEF Reads
    <2> QED
        BY <2>1, <2>2
<1>9. Reads(u, a)
    BY <1>5, <1>6, <1>8 DEF Reads
<1> HIDE DEF u
<1> QED
    BY <1>3, <1>4, <1>5, <1>7, <1>9 DEF Leads

LEMMA LeadsOn ==
    ASSUME NEW w \in Seq(Message), w # << >>, NEW v, NEW e, Leads(w, v, e)
    PROVE  Accepts(v, Head(w)) /\ Leads(Tail(w), After(v, Head(w)), e)
<1>1. PICK t : Reads(t, w) /\ t[0] = v /\ t[Len(w)] = e
    BY DEF Leads
<1>2. PICK n \in Nat \ {0} : n = Len(w)
    BY LenProperties, EmptySeq
<1>3. PICK a \in Seq(Message) : a = Tail(w)
    BY HeadTailProperties
<1>4. Len(a) = n - 1 /\ Head(w) = w[1] /\ \A i \in 1 .. n - 1 : a[i] = w[i + 1]
    BY <1>2, <1>3, HeadTailProperties
<1> DEFINE u == [i \in 0 .. n - 1 |-> t[i + 1]]
<1>5. Accepts(t[0], w[1]) /\ t[1] = After(t[0], w[1])
    BY <1>1, <1>2 DEF Reads
<1>6. u \in [0 .. n - 1 -> Views]
    BY <1>1, <1>2 DEF Reads
<1>7. ASSUME NEW i \in 1 .. n - 1
      PROVE  Accepts(u[i - 1], a[i]) /\ u[i] = After(u[i - 1], a[i])
    <2>1. i + 1 \in 1 .. n /\ (i + 1) - 1 = i /\ (i - 1) + 1 = i /\ i - 1 \in 0 .. n - 1
        OBVIOUS
    <2>2. u[i - 1] = t[i] /\ u[i] = t[i + 1] /\ a[i] = w[i + 1]
        BY <2>1, <1>4
    <2> QED
        BY <2>1, <2>2, <1>1, <1>2 DEF Reads
<1>8. Reads(u, a)
    BY <1>4, <1>6, <1>7 DEF Reads
<1>9. u[0] = t[1] /\ u[n - 1] = t[n]
    OBVIOUS
<1> HIDE DEF u
<1> QED
    BY <1>1, <1>2, <1>3, <1>4, <1>5, <1>8, <1>9 DEF Leads


-----------------------------------------------------------------------------
(* What the handler will send next, relative to the view e that the reader *)
(* will have when it has read all that is in the stream.  Between batches  *)
(* the reader has seen frames exactly if a batch was sent, and then still  *)
(* expects what is left to send; within a batch both have the same rest.   *)
BetweenBatches(h, left, e) ==
    /\ left \subseteq h.manifest
    /\ e.replay = {} /\ ~e.closed
    /\ e.declared = e.seen
    /\ e.seen <=> left # h.manifest
    /\ e.remaining = IF e.seen THEN left ELSE {}

WithinBatch(h, e) ==
    /\ h.todo \subseteq h.manifest /\ h.todo # h.manifest
    /\ e.replay = h.batch /\ e.remaining = h.todo
    /\ e.seen /\ e.declared /\ ~e.closed

Recovered(h, e) == e.replay = {} /\ e.remaining = {}

Expects(h, e) ==
    /\ h.stage = "batch" => BetweenBatches(h, h.todo, e)
    /\ h.stage = "send" /\ h.header # {} =>
          /\ h.header = h.batch /\ h.batch \cap h.todo = {}
          /\ BetweenBatches(h, h.batch \cup h.todo, e)
    /\ h.stage = "send" /\ h.header = {} => WithinBatch(h, e) /\ h.batch # {}
    /\ h.stage = "await" => WithinBatch(h, e) /\ h.header = {}
    /\ h.stage \in {"look", "claim", "pause", "sleep", "expect", "sendNew", "awaitNew"} =>
          Recovered(h, e)
    /\ h.stage \in {"expect", "sendNew"} => h.batch # {}

Serving == ~broken /\ handler.stage \notin {"none", "end"}

FrameInv ==
    /\ reader \in ReaderRecord /\ ~reader.refused
    /\ wire \in Seq(Message)
    /\ \E e \in Views : Leads(wire, View(reader), e) /\ (Serving => Expects(handler, e))

LEMMA ViewTyped ==
    ASSUME NEW r \in ReaderRecord
    PROVE  View(r) \in Views
BY DEF View, Views, ReaderRecord

(* A step that changes neither the stream nor what the reader remembers.   *)
LEMMA FramesKept ==
    ASSUME FrameInv, UNCHANGED wire, reader' \in ReaderRecord, ~reader'.refused,
           View(reader') = View(reader), Serving' => Serving /\ UNCHANGED handler
    PROVE  FrameInv'
BY DEF FrameInv

(* A handler that goes on without sending anything.                        *)
LEMMA FramesAhead ==
    ASSUME FrameInv, UNCHANGED <<wire, reader>>,
           \A e \in Views : Serving' /\ Serving /\ Expects(handler, e) => Expects(handler', e),
           Serving' => Serving
    PROVE  FrameInv'
BY DEF FrameInv

(* The stream ends.                                                        *)
LEMMA FramesLost ==
    ASSUME NEW r \in ReaderRecord, ~r.refused, StreamLost(r)
    PROVE  FrameInv'
<1>1. PICK x \in ReaderRecord : x = reader'
    BY DEF StreamLost, NewReader, ReaderRecord, ReaderStages
<1>2. View(x) = FreshView /\ ~x.refused
    BY <1>1 DEF StreamLost, NewReader, View, FreshView
<1>3. FreshView \in Views /\ Leads(<< >>, FreshView, FreshView)
    BY LeadsNowhere DEF FreshView, Views
<1>4. wire' = << >> /\ wire' \in Seq(Message) /\ ~Serving'
    BY EmptySeq DEF StreamLost, Serving
<1> QED
    BY <1>1, <1>2, <1>3, <1>4 DEF FrameInv

LEMMA FramesInit == Init => FrameInv
<1> SUFFICES ASSUME Init PROVE FrameInv
    OBVIOUS
<1>1. reader \in ReaderRecord /\ ~reader.refused /\ View(reader) = FreshView
    BY DEF Init, NewReader, ReaderRecord, ReaderStages, View, FreshView
<1>2. FreshView \in Views /\ Leads(<< >>, FreshView, FreshView)
    BY LeadsNowhere DEF FreshView, Views
<1>3. wire = << >> /\ wire \in Seq(Message) /\ ~Serving
    BY EmptySeq DEF Init, Serving, NoHandler
<1> QED
    BY <1>1, <1>2, <1>3 DEF FrameInv

LEMMA FramesConnect ==
    ASSUME NodeTypes, FrameInv, Connect
    PROVE  FrameInv'
<1>1. reader' \in ReaderRecord /\ ~reader'.refused /\ View(reader') = FreshView
    BY DEF Connect, FrameInv, NewReader, ReaderRecord, ReaderStages, View, FreshView
<1>2. FreshView \in Views /\ Leads(<< >>, FreshView, FreshView)
    BY LeadsNowhere DEF FreshView, Views
<1>3. wire' = << >> /\ wire' \in Seq(Message)
    BY EmptySeq DEF Connect
<1>4. PICK h : h = handler'
    OBVIOUS
<1>5. h.stage = "batch" /\ h.todo = h.manifest
    BY <1>4 DEF Connect, NoHandler
<1>6. Expects(h, FreshView)
    BY <1>5 DEF Expects, BetweenBatches, FreshView
<1> QED
    BY <1>1, <1>2, <1>3, <1>4, <1>6 DEF FrameInv

(* The next batch is a part of what is left.                               *)
LEMMA FramesStartBatch ==
    ASSUME NodeTypes, FrameInv, StartBatch
    PROVE  FrameInv'
<1>0. PICK g : g = handler'
    OBVIOUS
<1>1. PICK h \in HandlerRecord : h = handler /\ g = handler'
    BY <1>0 DEF NodeTypes
<1>2. UNCHANGED <<wire, reader, broken>> /\ h.stage = "batch"
    BY <1>1 DEF StartBatch, HandlerAt, OthersUnchanged
<1>3. ASSUME NEW e \in Views, Expects(h, e)
      PROVE  Expects(g, e)
    <2>0. BetweenBatches(h, h.todo, e)
        BY <1>2, <1>3 DEF Expects
    <2>1. CASE h.todo = {}
        <3>1. g = [NoHandler EXCEPT !.stage = "look"]
            BY <1>1, <2>1 DEF StartBatch
        <3>2. g.stage = "look"
            BY <3>1 DEF NoHandler
        <3>3. e.replay = {} /\ e.remaining = {}
            BY <2>0, <2>1 DEF BetweenBatches
        <3> QED
            BY <3>2, <3>3 DEF Expects, Recovered
    <2>2. CASE h.todo # {}
        <3>1. PICK b \in SUBSET Orders : b = FirstOf(h.todo) /\ b \subseteq h.todo /\ b # {}
            BY <2>2, FirstOfSome DEF HandlerRecord
        <3>2. g = [h EXCEPT !.stage = "send", !.header = b, !.batch = b, !.todo = @ \ b]
            BY <1>1, <2>2, <3>1 DEF StartBatch
        <3>3. /\ g.stage = "send" /\ g.header = b /\ g.batch = b /\ g.todo = h.todo \ b
              /\ g.manifest = h.manifest
            BY <3>2 DEF HandlerRecord
        <3>4. g.batch \cup g.todo = h.todo /\ g.batch \cap g.todo = {}
            BY <3>1, <3>3
        <3>5. BetweenBatches(g, g.batch \cup g.todo, e)
            BY <2>0, <3>3, <3>4 DEF BetweenBatches
        <3> QED
            BY <3>1, <3>3, <3>4, <3>5 DEF Expects
    <2> QED
        BY <2>1, <2>2
<1>4. Serving' => Serving
    BY <1>1, <1>2 DEF Serving
<1> QED
    BY <1>1, <1>2, <1>3, <1>4, FramesAhead


(* The reader accepts the next frame of a batch, and both have the same    *)
(* rest then: the first one opens the batch, and declares what the session *)
(* holds if nothing was sent before; the others continue it.               *)
LEMMA FrameFits ==
    ASSUME NEW h \in HandlerRecord, NEW e \in Views, NEW m \in Message, NEW o,
           h.stage = "send", Expects(h, e),
           m.recovered, m.order = o, o = Min(h.batch), m.header = h.header,
           m.manifest = IF h.header = {} \/ h.header \cup h.todo # h.manifest
                        THEN {} ELSE h.manifest,
           m.end <=> h.batch \ {o} = {}
    PROVE  /\ Accepts(e, m) /\ h.todo \subseteq h.manifest /\ h.todo # h.manifest
           /\ After(e, m) = [replay |-> h.batch \ {o}, remaining |-> h.todo, seen |-> TRUE,
                             declared |-> TRUE, closed |-> FALSE]
<1>1. CASE h.header # {}
    <2>1. /\ h.header = h.batch /\ h.batch \cap h.todo = {}
          /\ BetweenBatches(h, h.batch \cup h.todo, e)
        BY <1>1 DEF Expects
    <2>2. BatchOf(e, m) = h.batch /\ h.batch # {} /\ e.replay = {}
        BY <1>1, <2>1 DEF BetweenBatches, BatchOf
    <2>3. m.end <=> BatchOf(e, m) = {m.order}
        BY <2>2
    <2>4. h.todo \subseteq h.manifest /\ h.todo # h.manifest
        BY <2>1, <2>2 DEF BetweenBatches
    <2>5. CASE h.batch \cup h.todo = h.manifest
        <3>1. m.manifest = h.manifest /\ m.manifest # {} /\ ~e.seen /\ ~e.declared
            BY <1>1, <2>1, <2>2, <2>5 DEF BetweenBatches
        <3>2. DeclaredOf(e, m) = h.manifest /\ DeclaredOf(e, m) \ m.header = h.todo
            BY <3>1, <2>1, <2>5 DEF DeclaredOf
        <3>3. AcceptsRecovered(e, m)
            BY <1>1, <2>1, <2>2, <2>3, <3>1, <3>2 DEF AcceptsRecovered, BetweenBatches
        <3>4. AfterRecovered(e, m) = [replay |-> h.batch \ {o}, remaining |-> h.todo,
                  seen |-> TRUE, declared |-> TRUE, closed |-> FALSE]
            BY <2>1, <2>2, <3>1, <3>2 DEF AfterRecovered, BetweenBatches, Views
        <3> QED
            BY <2>4, <3>3, <3>4 DEF Accepts, After
    <2>6. CASE h.batch \cup h.todo # h.manifest
        <3>1. /\ m.manifest = {} /\ e.seen /\ e.declared /\ e.remaining = h.batch \cup h.todo
            BY <1>1, <2>1, <2>6 DEF BetweenBatches, Views
        <3>2. DeclaredOf(e, m) = h.batch \cup h.todo /\ DeclaredOf(e, m) \ m.header = h.todo
            BY <3>1, <2>1 DEF DeclaredOf
        <3>3. AcceptsRecovered(e, m)
            BY <1>1, <2>1, <2>2, <2>3, <3>1, <3>2 DEF AcceptsRecovered, BetweenBatches
        <3>4. AfterRecovered(e, m) = [replay |-> h.batch \ {o}, remaining |-> h.todo,
                  seen |-> TRUE, declared |-> TRUE, closed |-> FALSE]
            BY <2>1, <2>2, <3>1, <3>2 DEF AfterRecovered, BetweenBatches, Views
        <3> QED
            BY <2>4, <3>3, <3>4 DEF Accepts, After
    <2> QED
        BY <2>5, <2>6
<1>2. CASE h.header = {}
    <2>1. WithinBatch(h, e) /\ h.batch # {} /\ m.manifest = {}
        BY <1>2 DEF Expects
    <2>2. BatchOf(e, m) = h.batch /\ DeclaredOf(e, m) = h.todo
        BY <2>1 DEF WithinBatch, BatchOf, DeclaredOf
    <2>3. m.end <=> BatchOf(e, m) = {m.order}
        BY <2>1, <2>2
    <2>4. AcceptsRecovered(e, m)
        BY <1>2, <2>1, <2>2, <2>3 DEF AcceptsRecovered, WithinBatch
    <2>5. AfterRecovered(e, m) = [replay |-> h.batch \ {o}, remaining |-> h.todo,
              seen |-> TRUE, declared |-> TRUE, closed |-> FALSE]
        BY <1>2, <2>1, <2>2 DEF AfterRecovered, WithinBatch, Views
    <2> QED
        BY <2>1, <2>4, <2>5 DEF Accepts, After, WithinBatch
<1> QED
    BY <1>1, <1>2

LEMMA FramesSendRecovered ==
    ASSUME NodeTypes, FrameInv, SendRecovered
    PROVE  FrameInv'
<1> USE DEF HandlerAt, OthersUnchanged, HandlerEnds
<1>0. PICK g : g = handler'
    OBVIOUS
<1>1. PICK h \in HandlerRecord : h = handler /\ g = handler'
    BY <1>0 DEF NodeTypes
<1>2. UNCHANGED <<reader, broken>> /\ h.stage = "send"
    BY <1>1 DEF SendRecovered
<1>3. CASE broken
    <2>1. UNCHANGED wire /\ ~Serving'
        BY <1>2, <1>3 DEF SendRecovered, Serving
    <2> QED
        BY <1>2, <2>1, FramesKept DEF FrameInv
<1>4. CASE ~broken
    <2>1. PICK e \in Views : Leads(wire, View(reader), e) /\ Expects(h, e)
        BY <1>1, <1>2, <1>4 DEF FrameInv, Serving
    <2>2. h.batch # {} /\ h.batch \subseteq Orders
        BY <1>2, <2>1 DEF Expects, HandlerRecord
    <2>3. PICK o \in Orders : o = Min(h.batch)
        BY <2>2, LeastOrder
    <2>4. PICK b \in SUBSET Orders : b = h.batch \ {o}
        BY <2>2
    <2> DEFINE declares == IF h.header = {} \/ h.header \cup h.todo # h.manifest
                           THEN {} ELSE h.manifest
    <2>5. PICK m \in Message :
              m = [order |-> o, recovered |-> TRUE, header |-> h.header,
                   manifest |-> declares, end |-> b = {}]
        <3>1. h.header \in SUBSET Orders /\ declares \in SUBSET Orders /\ (b = {}) \in BOOLEAN
            BY DEF HandlerRecord
        <3> HIDE DEF declares
        <3> QED
            BY <3>1 DEF Message
    <2>6. wire' = Append(wire, m)
        BY <1>1, <1>4, <2>3, <2>4, <2>5 DEF SendRecovered, RecoveredManifest
    <2>7. /\ Accepts(e, m) /\ h.todo \subseteq h.manifest /\ h.todo # h.manifest
          /\ After(e, m) = [replay |-> b, remaining |-> h.todo, seen |-> TRUE,
                            declared |-> TRUE, closed |-> FALSE]
        <3>1. /\ m.recovered /\ m.order = o /\ o = Min(h.batch) /\ m.header = h.header
              /\ m.manifest = declares /\ (m.end <=> h.batch \ {o} = {})
            BY <2>3, <2>4, <2>5
        <3> QED
            BY <1>2, <2>1, <2>4, <3>1, FrameFits
    <2>8. PICK x \in Views : x = After(e, m)
        BY AfterTyped
    <2>9. wire' \in Seq(Message) /\ Leads(wire', View(reader), x)
        BY <2>1, <2>6, <2>7, <2>8, LeadsFurther, AppendProperties DEF FrameInv
    <2>10. PICK s : s = IF h.header # {} THEN "await" ELSE IF b # {} THEN "send" ELSE "batch"
        OBVIOUS
    <2>11. g = [h EXCEPT !.batch = b, !.header = {}, !.stage = s]
        BY <1>1, <1>4, <2>3, <2>4, <2>10 DEF SendRecovered
    <2>12. /\ g.stage = s /\ g.batch = b /\ g.header = {} /\ g.todo = h.todo
           /\ g.manifest = h.manifest
        BY <2>11 DEF HandlerRecord
    <2>13. WithinBatch(g, x)
        BY <2>7, <2>8, <2>12 DEF WithinBatch
    <2>14. b = {} => BetweenBatches(g, g.todo, x)
        BY <2>12, <2>13 DEF WithinBatch, BetweenBatches
    <2>15. Expects(g, x)
        BY <2>10, <2>12, <2>13, <2>14 DEF Expects
    <2> QED
        BY <1>1, <1>2, <2>9, <2>15 DEF FrameInv
<1> QED
    BY <1>3, <1>4

LEMMA FramesSendNew ==
    ASSUME NodeTypes, FrameInv, SendNew
    PROVE  FrameInv'
<1> USE DEF HandlerAt, OthersUnchanged, HandlerEnds
<1>0. PICK g : g = handler'
    OBVIOUS
<1>1. PICK h \in HandlerRecord : h = handler /\ g = handler'
    BY <1>0 DEF NodeTypes
<1>2. UNCHANGED <<reader, broken>> /\ h.stage = "sendNew"
    BY <1>1 DEF SendNew
<1>3. CASE broken
    <2>1. UNCHANGED wire /\ ~Serving'
        BY <1>2, <1>3 DEF SendNew, Serving
    <2> QED
        BY <1>2, <2>1, FramesKept DEF FrameInv
<1>4. CASE ~broken
    <2>1. PICK e \in Views : Leads(wire, View(reader), e) /\ Expects(h, e)
        BY <1>1, <1>2, <1>4 DEF FrameInv, Serving
    <2>2. h.batch # {} /\ h.batch \subseteq Orders /\ e.replay = {} /\ e.remaining = {}
        BY <1>2, <2>1 DEF Expects, HandlerRecord, Recovered
    <2>3. PICK o \in Orders : o = Min(h.batch)
        BY <2>2, LeastOrder
    <2>4. PICK m \in Message :
              m = [order |-> o, recovered |-> FALSE, header |-> {}, manifest |-> {},
                   end |-> FALSE]
        BY DEF Message
    <2>5. wire' = Append(wire, m)
        BY <1>1, <1>4, <2>3, <2>4 DEF SendNew
    <2>6. Accepts(e, m)
        BY <2>2, <2>4 DEF Accepts
    <2>7. PICK x \in Views : x = After(e, m)
        BY AfterTyped
    <2>8. x.replay = {} /\ x.remaining = {}
        BY <2>2, <2>4, <2>7 DEF After, Views
    <2>9. wire' \in Seq(Message) /\ Leads(wire', View(reader), x)
        BY <2>1, <2>5, <2>6, <2>7, LeadsFurther, AppendProperties DEF FrameInv
    <2>10. g = [h EXCEPT !.stage = "awaitNew", !.batch = {}]
        BY <1>1, <1>4 DEF SendNew
    <2>11. g.stage = "awaitNew"
        BY <2>10 DEF HandlerRecord
    <2>12. Expects(g, x)
        BY <2>8, <2>11 DEF Expects, Recovered
    <2> QED
        BY <1>1, <1>2, <2>9, <2>12 DEF FrameInv
<1> QED
    BY <1>3, <1>4

(* The other steps of the handler send nothing.                            *)
LEMMA FramesHandler ==
    ASSUME NodeTypes, FrameInv,
           AwaitConfirmation \/ Look \/ Claim \/ Pause \/ Sleep \/ ExpectNew \/ Deactivate
    PROVE  FrameInv'
<1> USE DEF HandlerAt, OthersUnchanged, HandlerEnds
<1>0. PICK g : g = handler'
    OBVIOUS
<1>1. PICK h \in HandlerRecord : h = handler /\ g = handler'
    BY <1>0 DEF NodeTypes
<1>2. /\ UNCHANGED <<wire, reader, broken>> /\ h.stage \notin {"none"}
      /\ g.stage = "end" \/ h.stage # "end" \/ g.stage = "none"
    BY <1>1 DEF AwaitConfirmation, Look, Claim, Pause, Sleep, ExpectNew, Deactivate, NoHandler
<1>3. ASSUME NEW e \in Views, Expects(h, e), g.stage \notin {"none", "end"}
      PROVE  Expects(g, e)
    <2>1. CASE AwaitConfirmation
        <3>1. PICK s : s = IF h.stage = "awaitNew" THEN "look"
                           ELSE IF h.batch # {} THEN "send" ELSE "batch"
            OBVIOUS
        <3>2. g = [h EXCEPT !.stage = s] /\ h.stage \in {"await", "awaitNew"}
            BY <1>1, <1>3, <2>1, <3>1 DEF AwaitConfirmation, NoHandler
        <3>3. /\ g.stage = s /\ g.batch = h.batch /\ g.header = h.header /\ g.todo = h.todo
              /\ g.manifest = h.manifest
            BY <3>2 DEF HandlerRecord
        <3>4. CASE h.stage = "awaitNew"
            BY <1>3, <3>1, <3>3, <3>4 DEF Expects, Recovered
        <3>5. CASE h.stage = "await"
            <4>1. WithinBatch(g, e) /\ g.header = {}
                BY <1>3, <3>3, <3>5 DEF Expects, WithinBatch
            <4>2. g.batch = {} => BetweenBatches(g, g.todo, e)
                BY <4>1 DEF WithinBatch, BetweenBatches
            <4> QED
                BY <3>1, <3>3, <3>5, <4>1, <4>2 DEF Expects
        <3> QED
            BY <3>2, <3>4, <3>5
    <2>2. CASE Look \/ Pause \/ Sleep
        <3>1. /\ h.stage \in {"look", "pause", "sleep"}
              /\ g.stage \in {"claim", "sleep", "look"}
            BY <1>1, <1>3, <2>2 DEF Look, Pause, Sleep, NoHandler, HandlerRecord
        <3> QED
            BY <1>3, <3>1 DEF Expects, Recovered
    <2>3. CASE Claim
        <3>1. h.stage = "claim" /\ ~broken
            BY <1>1, <1>3, <2>3 DEF Claim, NoHandler
        <3>2. CASE Claimable = {}
            <4>1. g.stage = "pause"
                BY <1>1, <2>3, <3>1, <3>2 DEF Claim, HandlerRecord
            <4> QED
                BY <1>3, <3>1, <4>1 DEF Expects, Recovered
        <3>3. CASE Claimable # {}
            <4>1. g.stage = "expect" /\ g.batch = {Min(Claimable)}
                BY <1>1, <2>3, <3>1, <3>3 DEF Claim, HandlerRecord
            <4> QED
                BY <1>3, <3>1, <4>1 DEF Expects, Recovered
        <3> QED
            BY <3>2, <3>3
    <2>4. CASE ExpectNew
        <3>1. h.stage = "expect" /\ g.stage = "sendNew" /\ g.batch = h.batch
            BY <1>1, <2>4 DEF ExpectNew, HandlerRecord
        <3> QED
            BY <1>3, <3>1 DEF Expects, Recovered
    <2>5. CASE Deactivate
        BY <1>1, <1>3, <2>5 DEF Deactivate, NoHandler
    <2> QED
        BY <2>1, <2>2, <2>3, <2>4, <2>5
<1>4. Serving' => Serving
    BY <1>1, <1>2 DEF Serving
<1> QED
    BY <1>1, <1>2, <1>3, <1>4, FramesAhead DEF Serving


(* What the reader's checks decide is what the view says they decide.      *)
LEMMA FramesReceive ==
    ASSUME FrameInv, Receive
    PROVE  FrameInv'
<1>1. PICK r \in ReaderRecord, v \in Views : r = reader /\ v = View(reader)
    BY ViewTyped DEF FrameInv
<1>2. PICK e \in Views : Leads(wire, v, e) /\ (Serving => Expects(handler, e))
    BY <1>1 DEF FrameInv
<1>3. wire \in Seq(Message) /\ wire # << >> /\ ~r.refused /\ r.stage = "recv"
    BY <1>1 DEF FrameInv, Receive
<1>4. PICK m \in Message : m = Head(wire)
    BY <1>3, HeadTailProperties
<1>5. Accepts(v, m) /\ Leads(Tail(wire), After(v, m), e) /\ Tail(wire) \in Seq(Message)
    BY <1>2, <1>3, <1>4, LeadsOn, HeadTailProperties
<1>6. /\ r.replay = v.replay /\ r.remaining = v.remaining /\ r.seen = v.seen
      /\ r.declared = v.declared /\ r.closed = v.closed
    BY <1>1 DEF View
<1>7. ASSUME NEW x \in ReaderRecord, x = reader', View(x) = After(v, m), ~x.refused,
             wire' = Tail(wire), UNCHANGED broken
      PROVE  FrameInv'
    BY <1>2, <1>5, <1>7 DEF FrameInv, Serving, Receive, nodeVars
<1>8. CASE m.recovered
    <2>1. WellFramed(m)
        <3>1. AcceptsRecovered(v, m)
            BY <1>5, <1>8 DEF Accepts
        <3>2. BatchIds(m) = BatchOf(v, m) /\ Declared(m) = DeclaredOf(v, m)
            BY <1>1, <1>6 DEF BatchIds, BatchOf, Declared, DeclaredOf, Started
        <3> QED
            BY <1>1, <1>6, <3>1, <3>2 DEF WellFramed, AcceptsRecovered, Started
    <2>2. PICK s \in ReaderStages, d \in BOOLEAN, p \in SUBSET Orders, q \in SUBSET Orders :
              /\ d = (r.declared \/ m.manifest # {})
              /\ p = BatchIds(m) \ {m.order} /\ q = Declared(m) \ m.header
              /\ s = IF ~Started THEN "deliver"
                     ELSE IF Cardinality(m.manifest) > Cardinality(m.header)
                     THEN "retain" ELSE "confirm"
        <3>1. /\ BatchIds(m) \ {m.order} \in SUBSET Orders
              /\ Declared(m) \ m.header \in SUBSET Orders
            BY <1>1 DEF BatchIds, Declared, Message, ReaderRecord
        <3>2. (r.declared \/ m.manifest # {}) \in BOOLEAN
            OBVIOUS
        <3> QED
            BY <3>1, <3>2, Zenon DEF ReaderStages
    <2>3. PICK x \in ReaderRecord :
              x = [r EXCEPT !.stage = s, !.order = m.order, !.retain = m.manifest,
                     !.ask = m.header, !.replay = p, !.remaining = q, !.declared = d,
                     !.seen = TRUE]
        <3>1. m.order \in Nat /\ m.manifest \in SUBSET Orders /\ m.header \in SUBSET Orders
            BY DeliveryAssumption DEF Message, Orders
        <3> QED
            BY <3>1 DEF ReaderRecord
    <2>4. reader' = x /\ wire' = Tail(wire) /\ UNCHANGED broken
        BY <1>1, <1>4, <1>8, <2>1, <2>2, <2>3 DEF Receive, ReceiveRecovered
    <2>5. /\ x.replay = p /\ x.remaining = q /\ x.declared = d /\ x.seen = TRUE
          /\ x.closed = r.closed /\ x.refused = r.refused
        BY <2>3 DEF ReaderRecord
    <2>6. View(x) = After(v, m)
        <3>1. BatchIds(m) = BatchOf(v, m) /\ Declared(m) = DeclaredOf(v, m)
            BY <1>1, <1>6 DEF BatchIds, BatchOf, Declared, DeclaredOf, Started
        <3> QED
            BY <1>6, <1>8, <2>2, <2>5, <3>1 DEF View, After, AfterRecovered
    <2> QED
        BY <1>3, <1>7, <2>4, <2>5, <2>6
<1>9. CASE ~m.recovered
    <2>1. r.replay = {} /\ r.remaining = {}
        BY <1>5, <1>6, <1>9 DEF Accepts
    <2>2. PICK x \in ReaderRecord :
              x = [r EXCEPT !.stage = "confirm", !.order = m.order, !.retain = {},
                     !.ask = {m.order}, !.closed = TRUE]
        <3>1. m.order \in Nat /\ {m.order} \in SUBSET Orders
            BY DeliveryAssumption DEF Message, Orders
        <3> QED
            BY <3>1 DEF ReaderRecord, ReaderStages
    <2>3. reader' = x /\ wire' = Tail(wire) /\ UNCHANGED broken
        BY <1>1, <1>4, <1>9, <2>1, <2>2 DEF Receive, ReceiveOrdinary
    <2>4. /\ x.replay = r.replay /\ x.remaining = r.remaining /\ x.declared = r.declared
          /\ x.seen = r.seen /\ x.closed = TRUE /\ x.refused = r.refused
        BY <2>2 DEF ReaderRecord
    <2>5. View(x) = After(v, m)
        BY <1>6, <1>9, <2>4 DEF View, After, Views
    <2> QED
        BY <1>3, <1>7, <2>3, <2>4, <2>5
<1> QED
    BY <1>8, <1>9

(* Everything else leaves the stream alone or ends it.                     *)
LEMMA FramesReader ==
    ASSUME FrameInv, AskNode \/ Deliver \/ StreamEnds \/ AnswerStep \/ PeriodicHeartbeat
    PROVE  FrameInv'
<1> USE DEF nodeVars, streamVars, leaseVars
<1>1. PICK r \in ReaderRecord : r = reader /\ ~r.refused
    BY DEF FrameInv
<1>2. UNCHANGED handler
    BY DEF AskNode, Call, Deliver, StreamEnds, AnswerStep, Answered, Refused, CallFails,
           PeriodicHeartbeat
<1>3. CASE StreamLost(reader)
    BY <1>1, <1>3, FramesLost
<1>4. CASE UNCHANGED <<reader, wire>> /\ (broken => broken')
    BY <1>1, <1>2, <1>4, FramesKept DEF Serving
<1>5. ASSUME NEW s \in ReaderStages, UNCHANGED <<wire, broken>>,
             \/ reader' = [r EXCEPT !.stage = s]
             \/ reader' = [r EXCEPT !.stage = s, !.order = 1, !.retain = {}, !.ask = {}]
      PROVE  FrameInv'
    <2>1. PICK x : x = reader'
        OBVIOUS
    <2>2. /\ x \in ReaderRecord /\ x.refused = r.refused /\ x.replay = r.replay
          /\ x.remaining = r.remaining /\ x.seen = r.seen /\ x.declared = r.declared
          /\ x.closed = r.closed
        <3>1. CASE x = [r EXCEPT !.stage = s]
            BY <3>1 DEF ReaderRecord
        <3>2. CASE x = [r EXCEPT !.stage = s, !.order = 1, !.retain = {}, !.ask = {}]
            BY <3>2 DEF ReaderRecord
        <3> QED
            BY <1>5, <2>1, <3>1, <3>2
    <2>3. View(x) = View(r)
        BY <2>2 DEF View
    <2> QED
        BY <1>1, <1>2, <1>5, <2>1, <2>2, <2>3, FramesKept DEF Serving
<1>6. CASE AskNode \/ PeriodicHeartbeat
    BY <1>4, <1>6 DEF AskNode, PeriodicHeartbeat, Call
<1>7. CASE Deliver
    BY <1>1, <1>5, <1>7 DEF Deliver, ReaderStages
<1>8. CASE StreamEnds
    BY <1>3, <1>8 DEF StreamEnds
<1>9. CASE Answered
    <2>1. \/ UNCHANGED <<reader, wire>> /\ (broken => broken')
          \/ StreamLost(reader)
          \/ UNCHANGED <<wire, broken>> /\ reader' = [reader EXCEPT !.stage = "confirm"]
          \/ UNCHANGED <<wire, broken>> /\ reader' = [reader EXCEPT !.stage = "deliver"]
        BY <1>9 DEF Answered
    <2> QED
        BY <1>1, <1>3, <1>4, <1>5, <2>1 DEF ReaderStages
<1>10. CASE Refused \/ CallFails
    <2>1. \/ UNCHANGED <<reader, wire>> /\ (broken => broken')
          \/ StreamLost(reader)
        BY <1>10 DEF Refused, CallFails
    <2> QED
        BY <1>3, <1>4, <2>1
<1> QED
    BY <1>6, <1>7, <1>8, <1>9, <1>10 DEF AnswerStep

LEMMA FramesFault ==
    ASSUME FrameInv, Fault
    PROVE  FrameInv'
<1> USE DEF nodeVars, streamVars, leaseVars
<1>1. PICK r \in ReaderRecord : r = reader /\ ~r.refused
    BY DEF FrameInv
<1>2. CASE Break \/ \E o \in Orders : Lapse(o) \/ GrantExpires(o)
    <2>1. UNCHANGED <<reader, wire, handler>> /\ (broken => broken')
        <3>1. CASE Break
            BY <3>1 DEF Break
        <3>2. ASSUME NEW o \in Orders, Lapse(o) \/ GrantExpires(o)
              PROVE  UNCHANGED <<reader, wire, handler>> /\ (broken => broken')
            BY <3>2 DEF Lapse, GrantExpires
        <3> QED
            BY <1>2, <3>1, <3>2
    <2> QED
        BY <1>1, <2>1, FramesKept DEF Serving
<1>3. CASE NodeRestart
    <2>1. UNCHANGED reader /\ wire' = << >> /\ wire' \in Seq(Message) /\ ~Serving'
        BY <1>3, EmptySeq DEF NodeRestart, Serving
    <2>2. View(reader) \in Views /\ Leads(<< >>, View(reader), View(reader))
        BY <1>1, ViewTyped, LeadsNowhere
    <2> QED
        BY <1>1, <2>1, <2>2 DEF FrameInv
<1>4. CASE CrawlerRestart
    <2>0. PICK n \in Nat : n = r.session + 1
        BY DEF ReaderRecord
    <2>1. PICK x \in ReaderRecord : x = [r EXCEPT !.session = n]
        BY DEF ReaderRecord
    <2>2. ~x.refused /\ StreamLost(x)
        BY <1>1, <1>4, <2>0, <2>1 DEF CrawlerRestart, ReaderRecord
    <2> QED
        BY <2>2, FramesLost
<1> QED
    BY <1>2, <1>3, <1>4 DEF Fault

LEMMA FramesStep == NodeTypes /\ FrameInv /\ [Next]_vars => FrameInv'
<1> SUFFICES ASSUME NodeTypes, FrameInv, [Next]_vars PROVE FrameInv'
    OBVIOUS
<1> USE DEF nodeVars, streamVars, leaseVars
<1>1. ASSUME UNCHANGED <<wire, broken, reader, handler>> PROVE FrameInv'
    BY <1>1 DEF FrameInv, Serving
<1>2. ASSUME NEW o \in Orders, Publish(o) \/ Finish(o) \/ Settle(o) PROVE FrameInv'
    BY <1>1, <1>2 DEF Publish, Finish, Settle
<1>3. CASE Signal
    <2>0. PICK g : g = handler'
        OBVIOUS
    <2>1. PICK h \in HandlerRecord : h = handler /\ g = handler'
        BY <2>0 DEF NodeTypes
    <2>2. g = [h EXCEPT !.changed = @ \/ h.stage \in {"claim", "pause", "sleep"}]
        BY <1>3, <2>1 DEF Signal
    <2>3. /\ g.stage = h.stage /\ g.todo = h.todo /\ g.batch = h.batch
          /\ g.header = h.header /\ g.manifest = h.manifest
        BY <2>2 DEF HandlerRecord
    <2>4. \A e \in Views : Expects(h, e) => Expects(g, e)
        BY <2>3 DEF Expects, BetweenBatches, WithinBatch, Recovered
    <2>5. UNCHANGED <<wire, reader, broken>>
        BY <1>3 DEF Signal
    <2> QED
        BY <2>1, <2>3, <2>4, <2>5, FramesAhead DEF Serving
<1>4. CASE Connect
    BY <1>4, FramesConnect
<1>5. CASE HandlerStep
    BY <1>5, FramesStartBatch, FramesSendRecovered, FramesSendNew, FramesHandler
    DEF HandlerStep
<1>6. CASE ReaderStep \/ AnswerStep \/ PeriodicHeartbeat
    BY <1>6, FramesReceive, FramesReader DEF ReaderStep
<1>7. ASSUME NEW c \in {"awaited", "late"}, CallStep(c) PROVE FrameInv'
    BY <1>1, <1>7 DEF CallStep, HandleCall, ConfirmCall
<1>8. CASE Fault
    BY <1>8, FramesFault
<1>9. CASE UNCHANGED vars
    BY <1>1, <1>9 DEF vars
<1> QED
    BY <1>2, <1>3, <1>4, <1>5, <1>6, <1>7, <1>8, <1>9 DEF Next

(* The crawler never refuses what the node sends, over any sequence of     *)
(* breaks, restarts, late confirmations and partial recoveries: whatever   *)
(* is in the stream is a prefix of batches that acceptFrame accepts, and   *)
(* streamRecoveredOrderBatch goes on where it ends.                        *)
THEOREM FramesAlwaysAccepted == Spec => []FramesAccepted
<1>1. FrameInv => FramesAccepted
    BY DEF FrameInv, FramesAccepted
<1> QED
    BY <1>1, TypesHold, FramesInit, FramesStep, PTL DEF Spec

-----------------------------------------------------------------------------
(* Leases on both sides. What the crawler counts as confirmed is live at   *)
(* the node, and so is what the awaited answer would confirm of the leases *)
(* that are still tracked: a settlement in between ends the tracking.      *)
LiveOrders == {o \in Orders : place[o] = "live"}

CallRecord ==
    [stage : CallStages, kind : {"periodic", "retain", "confirm"}, asked : SUBSET Orders,
     added : SUBSET Orders, renewed : SUBSET Orders, session : Nat]

CallsTyped ==
    /\ calls = [awaited |-> calls["awaited"], late |-> calls["late"]]
    /\ calls["awaited"] \in CallRecord /\ calls["late"] \in CallRecord

Nested == grants \subseteq Orders /\ confirmed \subseteq grants /\ running \subseteq confirmed

NotTwice == staged \subseteq Orders /\ running \cap staged = {}

LeaseInv ==
    /\ CallsTyped /\ Nested /\ NotTwice
    /\ confirmed \subseteq LiveOrders
    /\ calls["awaited"].renewed \cap grants \subseteq LiveOrders

LEMMA NoCallTyped == NoCall \in CallRecord /\ NoCall.renewed = {}
BY DEF NoCall, CallRecord, CallStages

LEMMA LeasesInit == Init => LeaseInv
<1> SUFFICES ASSUME Init PROVE LeaseInv
    OBVIOUS
<1>1. calls["awaited"] = NoCall /\ calls["late"] = NoCall
    BY DEF Init
<1>2. CallsTyped
    BY <1>1, NoCallTyped DEF Init, CallsTyped
<1> QED
    BY <1>1, <1>2, NoCallTyped DEF Init, LeaseInv, Nested, NotTwice

(* What one call may become.                                               *)
LEMMA CallsChange ==
    ASSUME CallsTyped, NEW a \in CallRecord, NEW l \in CallRecord,
           calls' = [awaited |-> a, late |-> l]
    PROVE  CallsTyped' /\ calls'["awaited"] = a /\ calls'["late"] = l
BY DEF CallsTyped

LEMMA CallAdvances ==
    ASSUME NodeTypes, LeaseInv, NEW c \in {"awaited", "late"}, CallStep(c)
    PROVE  LeaseInv'
<1> USE DEF nodeVars, streamVars, leaseVars
<1>1. PICK a \in CallRecord, l \in CallRecord : a = calls["awaited"] /\ l = calls["late"]
                                               /\ calls = [awaited |-> a, late |-> l]
    BY DEF LeaseInv, CallsTyped
<1>2. UNCHANGED <<place, staged, grants, confirmed, running>>
    BY DEF CallStep, HandleCall, ConfirmCall
<1>3. ASSUME NEW x \in CallRecord, NEW y \in CallRecord, calls' = [awaited |-> x, late |-> y],
             x.renewed \cap grants \subseteq LiveOrders
      PROVE  LeaseInv'
    <2>1. CallsTyped' /\ calls'["awaited"] = x
        BY <1>3, CallsChange DEF LeaseInv
    <2> QED
        BY <1>2, <1>3, <2>1 DEF LeaseInv, Nested, NotTwice, LiveOrders
<1>4. PICK live \in SUBSET Orders : live = {o \in calls[c].asked : place[o] = "live"}
    BY <1>1 DEF CallRecord
<1>5. a.renewed \cap grants \subseteq LiveOrders /\ live \subseteq LiveOrders
    BY <1>1, <1>4 DEF LeaseInv, LiveOrders
<1>6. /\ [a EXCEPT !.stage = "refused"] \in CallRecord /\ [a EXCEPT !.stage = "done"] \in CallRecord
      /\ [a EXCEPT !.stage = "refused"].renewed = a.renewed
      /\ [a EXCEPT !.stage = "done"].renewed = a.renewed
      /\ [a EXCEPT !.stage = "renewed", !.renewed = live] \in CallRecord
      /\ [l EXCEPT !.stage = "renewed", !.renewed = live] \in CallRecord
      /\ [a EXCEPT !.stage = "renewed", !.renewed = live].renewed = live
    BY DEF CallRecord, CallStages
<1>7. CASE c = "awaited"
    <2>1. \/ calls' = [awaited |-> [a EXCEPT !.stage = "refused"], late |-> l]
          \/ calls' = [awaited |-> [a EXCEPT !.stage = "renewed", !.renewed = live], late |-> l]
          \/ calls' = [awaited |-> [a EXCEPT !.stage = "done"], late |-> l]
        BY <1>1, <1>4, <1>7 DEF CallStep, HandleCall, ConfirmCall, Ended
    <2> QED
        BY <1>3, <1>5, <1>6, <2>1
<1>8. CASE c = "late"
    <2>1. \/ calls' = [awaited |-> a, late |-> NoCall]
          \/ calls' = [awaited |-> a, late |-> [l EXCEPT !.stage = "renewed", !.renewed = live]]
        BY <1>1, <1>4, <1>8 DEF CallStep, HandleCall, ConfirmCall, Ended
    <2> QED
        BY <1>3, <1>5, <1>6, <2>1, NoCallTyped
<1> QED
    BY <1>7, <1>8

(* A heartbeat goes out: nothing of it is renewed yet.                     *)
LEMMA LeasesAsk ==
    ASSUME LeaseInv, FrameInv, NEW kind \in {"periodic", "retain", "confirm"},
           NEW asked \in SUBSET Orders, Call(kind, asked)
    PROVE  LeaseInv'
<1> USE DEF nodeVars, streamVars, leaseVars
<1>1. PICK a \in CallRecord : a = [stage |-> "sent", kind |-> kind, asked |-> asked,
              added |-> asked \ grants, renewed |-> {}, session |-> reader.session]
    BY DEF FrameInv, ReaderRecord, CallRecord, CallStages
<1>2. calls' = [awaited |-> a, late |-> calls["late"]] /\ a.renewed = {}
    BY <1>1 DEF Call, LeaseInv, CallsTyped
<1>3. CallsTyped' /\ calls'["awaited"] = a
    BY <1>2, CallsChange DEF LeaseInv, CallsTyped
<1>4. /\ grants' = grants \cup asked
      /\ UNCHANGED <<place, staged, confirmed, running>>
    BY DEF Call
<1> QED
    BY <1>2, <1>3, <1>4 DEF LeaseInv, Nested, NotTwice, LiveOrders

LEMMA LeasesAnswered ==
    ASSUME LeaseInv, AnswerStep
    PROVE  LeaseInv'
<1> USE DEF nodeVars, streamVars, leaseVars
<1>1. PICK a \in CallRecord, l \in CallRecord : a = calls["awaited"] /\ l = calls["late"]
                                               /\ calls = [awaited |-> a, late |-> l]
    BY DEF LeaseInv, CallsTyped
<1>2. UNCHANGED <<place, staged>>
    BY DEF AnswerStep, Answered, Refused, CallFails
<1>3. ASSUME NEW y \in CallRecord, calls' = [awaited |-> NoCall, late |-> y]
      PROVE  CallsTyped' /\ calls'["awaited"].renewed = {}
    BY <1>3, NoCallTyped, CallsChange DEF LeaseInv
<1>4. CallsTyped' /\ calls'["awaited"].renewed = {}
    BY <1>1, <1>3 DEF AnswerStep, Answered, Refused, CallFails
<1>5. CASE Answered
    <2>1. PICK lost : /\ lost \subseteq grants
                      /\ grants' = grants \ lost
                      /\ confirmed' = (confirmed \ lost) \cup (a.renewed \cap grants)
                      /\ running' = running \ lost
                      /\ lost \cap a.renewed = {}
        BY <1>1, <1>5 DEF Answered
    <2>2. Nested' /\ NotTwice'
        BY <1>2, <2>1 DEF LeaseInv, Nested, NotTwice
    <2>3. confirmed' \subseteq LiveOrders'
        BY <1>1, <1>2, <2>1 DEF LeaseInv, LiveOrders
    <2> QED
        BY <1>4, <2>2, <2>3 DEF LeaseInv
<1>6. CASE Refused \/ CallFails
    <2>1. \/ UNCHANGED <<grants, confirmed, running>>
          \/ \E kept : kept \subseteq grants /\ KeepOnly(kept)
        BY <1>6 DEF Refused, CallFails
    <2>2. /\ grants' \subseteq grants /\ confirmed' = confirmed \cap grants'
          /\ running' = running \cap grants'
        BY <2>1 DEF KeepOnly, LeaseInv, Nested
    <2> QED
        BY <1>2, <1>4, <2>2 DEF LeaseInv, Nested, NotTwice, LiveOrders
<1> QED
    BY <1>5, <1>6 DEF AnswerStep

LEMMA LeasesFault ==
    ASSUME NodeTypes, LeaseInv, Fault
    PROVE  LeaseInv'
<1> USE DEF nodeVars, streamVars, leaseVars
<1>1. PICK a \in CallRecord, l \in CallRecord : a = calls["awaited"] /\ l = calls["late"]
                                               /\ calls = [awaited |-> a, late |-> l]
    BY DEF LeaseInv, CallsTyped
<1>2. CASE Break
    BY <1>2 DEF Break, LeaseInv, CallsTyped, Nested, NotTwice, LiveOrders
<1>3. ASSUME NEW o \in Orders, Lapse(o) PROVE LeaseInv'
    <2>1. LiveOrders' = LiveOrders \ {o} /\ o \notin confirmed \cup calls["awaited"].renewed
        BY <1>3 DEF Lapse, LiveOrders, NodeTypes
    <2> QED
        BY <1>3, <2>1 DEF Lapse, LeaseInv, CallsTyped, Nested, NotTwice
<1>4. ASSUME NEW o \in Orders, GrantExpires(o) PROVE LeaseInv'
    BY <1>4 DEF GrantExpires, KeepOnly, LeaseInv, CallsTyped, Nested, NotTwice, LiveOrders
<1>5. CASE NodeRestart
    <2>1. [a EXCEPT !.stage = "lost"] \in CallRecord /\ [a EXCEPT !.stage = "lost"].renewed = a.renewed
        BY DEF CallRecord, CallStages
    <2>2. PICK x \in CallRecord : x.renewed = a.renewed /\ calls' = [awaited |-> x, late |-> NoCall]
        BY <1>1, <1>5, <2>1 DEF NodeRestart
    <2>3. CallsTyped' /\ calls'["awaited"].renewed = calls["awaited"].renewed
        BY <1>1, <2>2, NoCallTyped, CallsChange DEF LeaseInv
    <2> QED
        BY <1>5, <2>3 DEF NodeRestart, LeaseInv, Nested, NotTwice, LiveOrders
<1>6. CASE CrawlerRestart
    <2>1. PICK y \in CallRecord : calls' = [awaited |-> NoCall, late |-> y]
        BY <1>1, <1>6 DEF CrawlerRestart
    <2>2. CallsTyped' /\ calls'["awaited"].renewed = {}
        BY <2>1, NoCallTyped, CallsChange DEF LeaseInv
    <2> QED
        BY <1>6, <2>2 DEF CrawlerRestart, KeepOnly, LeaseInv, Nested, NotTwice, LiveOrders
<1> QED
    BY <1>2, <1>3, <1>4, <1>5, <1>6 DEF Fault

LEMMA LeasesStep == NodeTypes /\ FrameInv /\ LeaseInv /\ [Next]_vars => LeaseInv'
<1> SUFFICES ASSUME NodeTypes, FrameInv, LeaseInv, [Next]_vars PROVE LeaseInv'
    OBVIOUS
<1> USE DEF nodeVars, streamVars, leaseVars, OthersUnchanged
<1>1. ASSUME UNCHANGED <<staged, grants, confirmed, running, calls>>,
             LiveOrders \subseteq LiveOrders'
      PROVE  LeaseInv'
    BY <1>1 DEF LeaseInv, CallsTyped, Nested, NotTwice
<1>2. CASE \E o \in Orders : Publish(o)
    <2>1. LiveOrders \subseteq LiveOrders' /\ UNCHANGED <<staged, grants, confirmed, running, calls>>
        BY <1>2 DEF Publish, LiveOrders, NodeTypes
    <2> QED
        BY <1>1, <2>1
<1>3. ASSUME NEW o \in Orders, Finish(o) PROVE LeaseInv'
    BY <1>3 DEF Finish, LeaseInv, CallsTyped, Nested, NotTwice, LiveOrders
<1>4. ASSUME NEW o \in Orders, Settle(o) PROVE LeaseInv'
    <2>1. LiveOrders' = LiveOrders \ {o}
        BY <1>4 DEF Settle, LiveOrders, NodeTypes
    <2> QED
        BY <1>4, <2>1 DEF Settle, KeepOnly, LeaseInv, CallsTyped, Nested, NotTwice
<1>5. CASE Signal
    BY <1>1, <1>5 DEF Signal, LiveOrders
<1>6. CASE Connect
    <2>1. LiveOrders \subseteq LiveOrders'
        BY <1>6 DEF Connect, Leased, LiveOrders, NodeTypes
    <2> QED
        BY <1>1, <1>6, <2>1 DEF Connect
<1>7. CASE HandlerStep
    <2>1. LiveOrders \subseteq LiveOrders'
        <3>1. CASE Claim
            BY <3>1 DEF Claim, LiveOrders, NodeTypes
        <3>2. CASE ~Claim
            BY <1>7, <3>2 DEF HandlerStep, StartBatch, SendRecovered, AwaitConfirmation, Look,
                              Pause, Sleep, ExpectNew, SendNew, Deactivate, LiveOrders
        <3> QED
            BY <3>1, <3>2
    <2>2. UNCHANGED <<staged, grants, confirmed, running, calls>>
        BY <1>7 DEF HandlerStep, StartBatch, SendRecovered, AwaitConfirmation, Look, Claim,
                    Pause, Sleep, ExpectNew, SendNew, Deactivate
    <2> QED
        BY <1>1, <2>1, <2>2
<1>8. CASE Receive \/ StreamEnds
    BY <1>1, <1>8 DEF Receive, StreamEnds, LiveOrders
<1>9. CASE AskNode
    <2>1. reader.retain \in SUBSET Orders /\ reader.ask \in SUBSET Orders
        BY DEF FrameInv, ReaderRecord
    <2>2. \E asked \in SUBSET Orders : Call(reader.stage, asked)
        BY <1>9, <2>1 DEF AskNode, Asked
    <2> QED
        BY <1>9, <2>2, LeasesAsk DEF AskNode
<1>10. CASE PeriodicHeartbeat
    <2>1. grants \in SUBSET Orders
        BY DEF LeaseInv, Nested
    <2> QED
        BY <1>10, <2>1, LeasesAsk DEF PeriodicHeartbeat
<1>11. CASE Deliver
    BY <1>11 DEF Deliver, LeaseInv, CallsTyped, Nested, NotTwice, LiveOrders
<1>12. CASE AnswerStep
    BY <1>12, LeasesAnswered
<1>13. ASSUME NEW c \in {"awaited", "late"}, CallStep(c) PROVE LeaseInv'
    BY <1>13, CallAdvances
<1>14. CASE Fault
    BY <1>14, LeasesFault
<1>15. CASE UNCHANGED vars
    BY <1>1, <1>15 DEF vars, LiveOrders
<1> QED
    BY <1>2, <1>3, <1>4, <1>5, <1>6, <1>7, <1>8, <1>9, <1>10, <1>11, <1>12, <1>13, <1>14,
       <1>15 DEF Next, ReaderStep

LEMMA LeasesHold == Spec => [](NodeTypes /\ FrameInv /\ LeaseInv)
<1>1. Init => NodeTypes /\ FrameInv /\ LeaseInv
    BY TypesInit, FramesInit, LeasesInit
<1>2. NodeTypes /\ FrameInv /\ LeaseInv /\ [Next]_vars => (NodeTypes /\ FrameInv /\ LeaseInv)'
    BY TypesStep, FramesStep, LeasesStep
<1> QED
    BY <1>1, <1>2, PTL DEF Spec

(* The crawler crawls an order only while the node's lease for it is live  *)
(* and no settlement of it waits in the outbox.                            *)
CrawlsUnderLease == running \subseteq LiveOrders \ staged

(* No order is crawled that the node may give to somebody else, has        *)
(* settled, or that the crawler has finished already: not when a recovered *)
(* order is delivered beside its own settlement, nor when the answer to a  *)
(* heartbeat arrives after the settlement of a lease it renewed            *)
(* (GrantRegistry.Renew, deliverOrderWithLeaseSession, confirmDisposition).*)
(* That the crawler's grant ends before the lease lapses is the guard of   *)
(* Lapse, from the time the crawler counts it from.                        *)
THEOREM CrawlsHoldTheirLease == Spec => []CrawlsUnderLease
<1>1. LeaseInv => CrawlsUnderLease
    BY DEF LeaseInv, Nested, NotTwice, CrawlsUnderLease
<1> QED
    BY <1>1, LeasesHold, PTL

-----------------------------------------------------------------------------
(* What the types above leave out: the registry and the faults.            *)
Accounts ==
    /\ registered \in Nat
    /\ credit.expected \subseteq Orders /\ credit = [expected |-> credit.expected,
                                                     confirmed |-> credit.confirmed]
    /\ faults \in 0 .. MaxFaults

LEMMA AccountsStep == NodeTypes /\ FrameInv /\ Accounts /\ [Next]_vars => Accounts'
<1> SUFFICES ASSUME NodeTypes, FrameInv, Accounts, [Next]_vars PROVE Accounts'
    OBVIOUS
<1> USE DEF nodeVars, streamVars, leaseVars, OthersUnchanged, Accounts
<1> USE DeliveryAssumption
<1>1. CASE UNCHANGED <<registered, credit, faults>>
    BY <1>1
<1>2. ASSUME NEW o \in Orders, Publish(o) \/ Finish(o) PROVE Accounts'
    BY <1>1, <1>2 DEF Publish, Finish
<1>3. ASSUME NEW o \in Orders, Settle(o) PROVE Accounts'
    BY <1>3 DEF Settle
<1>4. CASE Signal \/ ReaderStep
    BY <1>1, <1>4 DEF Signal, ReaderStep, Receive, AskNode, Call, Deliver, StreamEnds
<1>5. CASE Connect
    BY <1>5 DEF Connect, FrameInv, ReaderRecord, NoCredit
<1>6. CASE HandlerStep
    <2>1. CASE StartBatch
        <3>1. FirstOf(handler.todo) \subseteq Orders
            BY DEF NodeTypes, HandlerRecord, FirstOf
        <3> QED
            BY <2>1, <3>1 DEF StartBatch
    <2>2. CASE AwaitConfirmation \/ Deactivate
        BY <2>2 DEF AwaitConfirmation, Deactivate, NoCredit
    <2>3. CASE ExpectNew
        <3>1. handler.batch \subseteq Orders
            BY DEF NodeTypes, HandlerRecord
        <3> QED
            BY <2>3, <3>1 DEF ExpectNew
    <2>4. CASE SendRecovered \/ Look \/ Claim \/ Pause \/ Sleep \/ SendNew
        BY <1>1, <2>4 DEF SendRecovered, Look, Claim, Pause, Sleep, SendNew
    <2> QED
        BY <1>6, <2>1, <2>2, <2>3, <2>4 DEF HandlerStep
<1>7. CASE AnswerStep \/ PeriodicHeartbeat
    BY <1>7 DEF AnswerStep, Answered, Refused, CallFails, PeriodicHeartbeat, Call
<1>8. ASSUME NEW c \in {"awaited", "late"}, CallStep(c) PROVE Accounts'
    BY <1>8 DEF CallStep, HandleCall, ConfirmCall
<1>9. CASE Fault
    <2>1. faults' \in 0 .. MaxFaults
        BY <1>9 DEF Fault
    <2>2. UNCHANGED <<registered, credit>> \/ (registered' = 0 /\ credit' = NoCredit)
        BY <1>9 DEF Fault, Break, Lapse, GrantExpires, NodeRestart, CrawlerRestart
    <2> QED
        BY <2>1, <2>2 DEF NoCredit
<1>10. CASE UNCHANGED vars
    BY <1>1, <1>10 DEF vars
<1> QED
    BY <1>2, <1>3, <1>4, <1>5, <1>6, <1>7, <1>8, <1>9, <1>10 DEF Next

(* Every state of the delivery has its type: the stream holds messages of  *)
(* the protocol, and the crawler runs only what it has confirmed of the    *)
(* leases it tracks.                                                       *)
THEOREM DeliveryTypeCorrect == Spec => []TypeOK
<1>1. Init => Accounts
    BY DeliveryAssumption DEF Init, Accounts, NoCredit
<1>2. NodeTypes /\ FrameInv /\ LeaseInv /\ Accounts => TypeOK
    <2> SUFFICES ASSUME NodeTypes, FrameInv, LeaseInv, Accounts PROVE TypeOK
        OBVIOUS
    <2>1. /\ handler.stage \in HandlerStages
          /\ handler.todo \cup handler.manifest \cup handler.header \cup handler.batch
                \subseteq Orders
        BY DEF NodeTypes, HandlerRecord
    <2>2. reader.stage \in ReaderStages
        BY DEF FrameInv, ReaderRecord
    <2>3. \A c \in {"awaited", "late"} : calls[c].stage \in CallStages
        BY DEF LeaseInv, CallsTyped, CallRecord
    <2> QED
        BY <2>1, <2>2, <2>3
        DEF TypeOK, NodeTypes, Places, FrameInv, LeaseInv, Nested, NotTwice, Accounts
<1> QED
    BY <1>1, <1>2, LeasesHold, AccountsStep, PTL DEF Spec

=============================================================================
