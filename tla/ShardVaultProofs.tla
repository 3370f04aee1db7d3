-------------------------- MODULE ShardVaultProofs --------------------------
(***************************************************************************)
(* Theorems about the sharded vault, for every set of keys, updates and    *)
(* transactions and every number of shards.                                *)
(***************************************************************************)
EXTENDS ShardVault, FiniteSetTheorems, WellFoundedInduction, TLAPS

-----------------------------------------------------------------------------
(* The admission.  Updates and sleepers are all it is about: a contended   *)
(* update is admitted alone, and shards are open only between the gate and *)
(* the last commit.                                                        *)

UpdatesShaped ==
    /\ updates = [u \in Updates |-> updates[u]]
    /\ \A u \in Updates :
          /\ updates[u] = [stage |-> updates[u].stage, writes |-> updates[u].writes,
                           open |-> updates[u].open]
          /\ updates[u].stage \in Stages

OpenInGate ==
    \A u \in Updates :
        updates[u].open # {} => updates[u].stage \in {"fast", "slow", "commit", "commitSlow"}

AdmittedAlone == \A u \in Contended : Concurrent = {} /\ Contended = {u}

SleepersWait == asleep \subseteq In({"enter", "contend"})

AdmissionInv ==
    /\ UpdatesShaped /\ OpenInGate /\ AdmittedAlone /\ SleepersWait /\ WaitersWillBeWoken

LEMMA AdmissionInit == Init => AdmissionInv
<1> SUFFICES ASSUME Init PROVE AdmissionInv
    OBVIOUS
<1>1. updates = [u \in Updates |-> Idle] /\ asleep = {}
    BY DEF Init
<1>2. UpdatesShaped /\ OpenInGate
    BY <1>1 DEF UpdatesShaped, OpenInGate, Idle, Stages
<1>3. AdmittedAlone /\ SleepersWait /\ WaitersWillBeWoken
    BY <1>1 DEF AdmittedAlone, SleepersWait, WaitersWillBeWoken, Contended, In, Idle
<1> QED
    BY <1>2, <1>3 DEF AdmissionInv

(* One update changes to a stage, and to a set of open shards.             *)
Moves(u, stage, open) ==
    /\ updates' = [x \in Updates |-> updates'[x]]
    /\ updates'[u] = [stage |-> stage, writes |-> updates'[u].writes, open |-> open]
    /\ \A x \in Updates \ {u} : updates'[x] = updates[x]

LEMMA MovesSets ==
    ASSUME NEW u \in Updates, NEW stage, NEW open, Moves(u, stage, open), NEW S
    PROVE  In(S)' = IF stage \in S THEN In(S) \cup {u} ELSE In(S) \ {u}
BY DEF Moves, In

(* What the move of one update does to the parts of the invariant that do  *)
(* not speak of sleepers.                                                  *)
LEMMA MovesKeep ==
    ASSUME AdmissionInv, NEW u \in Updates, NEW stage \in Stages, NEW open,
           Moves(u, stage, open),
           open # {} => stage \in {"fast", "slow", "commit", "commitSlow"},
           stage \in {"admitted", "fast", "commit"} => u \in Concurrent \/ Contended = {},
           stage \in {"alone", "slow", "commitSlow"} =>
               u \in Contended \/ (Contended = {} /\ Concurrent = {})
    PROVE  UpdatesShaped' /\ OpenInGate' /\ AdmittedAlone'
<1>1. UpdatesShaped'
    BY DEF Moves, AdmissionInv, UpdatesShaped
<1>2. OpenInGate'
    BY DEF Moves, AdmissionInv, OpenInGate
<1>3. AdmittedAlone'
    <2>1. /\ Concurrent' = IF stage \in {"admitted", "fast", "commit"}
                           THEN Concurrent \cup {u} ELSE Concurrent \ {u}
          /\ Contended' = IF stage \in {"alone", "slow", "commitSlow"}
                          THEN Contended \cup {u} ELSE Contended \ {u}
        BY MovesSets DEF Concurrent, Contended
    <2> QED
        BY <2>1 DEF AdmissionInv, AdmittedAlone
<1> QED
    BY <1>1, <1>2, <1>3

(* The steps in the words of the lemma above.                              *)
LEMMA RecordMoves ==
    ASSUME NEW a, NEW b, NEW c, NEW r, r = [stage |-> a, writes |-> b, open |-> c],
           NEW stage, NEW open
    PROVE  /\ [r EXCEPT !.stage = stage] = [stage |-> stage, writes |-> b, open |-> c]
           /\ [r EXCEPT !.open = open] = [stage |-> a, writes |-> b, open |-> open]
OBVIOUS

LEMMA GoMoves ==
    ASSUME UpdatesShaped, NEW u \in Updates, NEW stage, Go(u, stage)
    PROVE  Moves(u, stage, updates[u].open)
<1>1. updates' = [updates EXCEPT ![u] = [updates[u] EXCEPT !.stage = stage]]
    BY DEF Go
<1>2. [updates[u] EXCEPT !.stage = stage] =
          [stage |-> stage, writes |-> updates[u].writes, open |-> updates[u].open]
    BY RecordMoves DEF UpdatesShaped
<1> QED
    BY <1>1, <1>2 DEF Moves, UpdatesShaped

LEMMA OpenMoves ==
    ASSUME UpdatesShaped, NEW u \in Updates, NEW open,
           updates' = [updates EXCEPT ![u].open = open]
    PROVE  Moves(u, updates[u].stage, open)
<1>1. updates' = [updates EXCEPT ![u] = [updates[u] EXCEPT !.open = open]]
    OBVIOUS
<1>2. [updates[u] EXCEPT !.open = open] =
          [stage |-> updates[u].stage, writes |-> updates[u].writes, open |-> open]
    BY RecordMoves DEF UpdatesShaped
<1> QED
    BY <1>1, <1>2 DEF Moves, UpdatesShaped

LEMMA BothMove ==
    ASSUME UpdatesShaped, NEW u \in Updates, NEW stage, NEW open,
           updates' = [updates EXCEPT ![u].open = open, ![u].stage = stage]
    PROVE  Moves(u, stage, open)
<1>1. PICK r : r = [updates[u] EXCEPT !.open = open]
    OBVIOUS
<1>2. PICK writes : writes = updates[u].writes
    OBVIOUS
<1>3. r = [stage |-> updates[u].stage, writes |-> writes, open |-> open]
    BY <1>1, <1>2, RecordMoves DEF UpdatesShaped
<1>4. [r EXCEPT !.stage = stage] = [stage |-> stage, writes |-> writes, open |-> open]
    BY <1>3, RecordMoves
<1>5. updates' = [updates EXCEPT ![u] = [r EXCEPT !.stage = stage]]
    BY <1>1 DEF UpdatesShaped
<1> QED
    BY <1>4, <1>5 DEF Moves, UpdatesShaped

LEMMA IdleMoves ==
    ASSUME UpdatesShaped, NEW u \in Updates, updates' = [updates EXCEPT ![u] = Idle]
    PROVE  Moves(u, "idle", {})
BY DEF Moves, UpdatesShaped, Idle

(* A step that puts nobody to sleep and whose update leaves no set that a  *)
(* sleeper counts on.                                                      *)
LEMMA SleepersKept ==
    ASSUME SleepersWait, WaitersWillBeWoken, NEW u \in Updates, NEW stage, NEW open,
           Moves(u, stage, open), asleep' \subseteq asleep, u \notin asleep',
           \A x \in asleep' : updates[x].stage = "enter" => (Contended \cup Pending)' # {},
           \A x \in asleep' : updates[x].stage = "contend" => (Contended \cup Concurrent)' # {}
    PROVE  SleepersWait' /\ WaitersWillBeWoken'
<1>1. \A x \in asleep' : /\ x \in Updates /\ updates'[x].stage = updates[x].stage
                         /\ updates[x].stage \in {"enter", "contend"}
    BY DEF Moves, SleepersWait, In
<1>2. SleepersWait'
    BY <1>1 DEF SleepersWait, In
<1>3. WaitersWillBeWoken'
    BY <1>1 DEF WaitersWillBeWoken
<1> QED
    BY <1>2, <1>3

(* leaveConcurrent wakes those that want to be alone when the last one     *)
(* leaves: a sleeper it does not wake has another update to wait for.      *)
LEMMA LeavingWakes ==
    ASSUME AdmissionInv, NEW u \in Concurrent, NEW stage \in {"retry", "idle"},
           Moves(u, stage, {}), LeaveConcurrent(u)
    PROVE  AdmissionInv'
<1>1. u \in Updates /\ u \notin asleep /\ stage \in Stages
    BY DEF Concurrent, AdmissionInv, SleepersWait, In, Stages
<1>2. UpdatesShaped' /\ OpenInGate' /\ AdmittedAlone'
    BY <1>1, MovesKeep
<1>3. /\ Concurrent' = Concurrent \ {u} /\ Contended' = Contended \ {u}
      /\ Pending' = Pending \ {u} /\ u \notin Contended /\ u \notin Pending
    <2>1. /\ Concurrent' = Concurrent \ {u} /\ Contended' = Contended \ {u}
          /\ Pending' = Pending \ {u}
        BY <1>1, MovesSets DEF Concurrent, Contended, Pending
    <2>2. u \notin Contended /\ u \notin Pending
        BY DEF Concurrent, Contended, Pending, In
    <2> QED
        BY <2>1, <2>2
<1>4. CASE Concurrent = {u} /\ Pending # {}
    <2>1. asleep' = {}
        BY <1>4 DEF LeaveConcurrent, Notify
    <2> QED
        BY <1>2, <2>1 DEF AdmissionInv, SleepersWait, WaitersWillBeWoken
<1>5. CASE ~(Concurrent = {u} /\ Pending # {})
    <2>1. asleep' = asleep
        BY <1>5 DEF LeaveConcurrent
    <2>2. \A x \in asleep : updates[x].stage = "enter" => (Contended \cup Pending)' # {}
        BY <1>3 DEF AdmissionInv, WaitersWillBeWoken
    <2>3. \A x \in asleep : updates[x].stage = "contend" => (Contended \cup Concurrent)' # {}
        <3> SUFFICES ASSUME NEW x \in asleep, updates[x].stage = "contend"
                     PROVE  Concurrent' # {}
            OBVIOUS
        <3>1. x \in Pending
            BY DEF Pending, In, AdmissionInv, SleepersWait
        <3> QED
            BY <1>3, <1>5, <3>1
    <2>4. SleepersWait' /\ WaitersWillBeWoken'
        BY <1>1, <2>1, <2>2, <2>3, SleepersKept DEF AdmissionInv
    <2> QED
        BY <1>2, <2>4 DEF AdmissionInv
<1> QED
    BY <1>4, <1>5

(* A move within one side of the admission, or outside of it, that leaves  *)
(* the sleepers alone.                                                     *)
LEMMA MovingWithin ==
    ASSUME AdmissionInv, NEW u \in Updates, NEW stage \in Stages, NEW open,
           Moves(u, stage, open), UNCHANGED asleep, u \notin asleep,
           open # {} => stage \in {"fast", "slow", "commit", "commitSlow"},
           stage \in {"admitted", "fast", "commit"} => u \in Concurrent \/ Contended = {},
           stage \in {"alone", "slow", "commitSlow"} =>
               u \in Contended \/ (Contended = {} /\ Concurrent = {}),
           u \in Concurrent => stage \in {"admitted", "fast", "commit"},
           u \in Contended => stage \in {"alone", "slow", "commitSlow"},
           u \in Pending => stage \in {"alone", "contend"}
    PROVE  AdmissionInv'
<1>1. UpdatesShaped' /\ OpenInGate' /\ AdmittedAlone'
    BY MovesKeep
<1>2. /\ Concurrent \subseteq Concurrent' /\ Contended \subseteq Contended'
      /\ Pending \subseteq Pending' \cup Contended'
    BY MovesSets DEF Concurrent, Contended, Pending
<1>3. /\ \A x \in asleep : updates[x].stage = "enter" => (Contended \cup Pending)' # {}
      /\ \A x \in asleep : updates[x].stage = "contend" => (Contended \cup Concurrent)' # {}
    BY <1>2 DEF AdmissionInv, WaitersWillBeWoken
<1>4. SleepersWait' /\ WaitersWillBeWoken'
    BY <1>3, SleepersKept DEF AdmissionInv
<1> QED
    BY <1>1, <1>4 DEF AdmissionInv

(* Everybody is woken.                                                     *)
LEMMA NotifyWakes ==
    ASSUME AdmissionInv, NEW u \in Updates, Moves(u, "idle", {}), Notify
    PROVE  AdmissionInv'
<1>1. UpdatesShaped' /\ OpenInGate' /\ AdmittedAlone'
    BY MovesKeep DEF Stages
<1> QED
    BY <1>1 DEF AdmissionInv, Notify, SleepersWait, WaitersWillBeWoken

LEMMA AdmissionKept ==
    ASSUME AdmissionInv, UNCHANGED <<updates, asleep>>
    PROVE  AdmissionInv'
BY DEF AdmissionInv, UpdatesShaped, OpenInGate, AdmittedAlone, SleepersWait,
       WaitersWillBeWoken, Contended, Concurrent, Pending, In

LEMMA AdmissionUpdateStep ==
    ASSUME AdmissionInv, NEW u \in Updates, UpdateStep(u) \/ Cancel(u)
    PROVE  AdmissionInv'
<1>0. /\ UpdatesShaped /\ updates[u].stage \in Stages
      /\ (u \in asleep => updates[u].stage \in {"enter", "contend"})
      /\ (updates[u].open # {} => updates[u].stage \in {"fast", "slow", "commit", "commitSlow"})
      /\ (u \in Concurrent <=> updates[u].stage \in {"admitted", "fast", "commit"})
      /\ (u \in Contended <=> updates[u].stage \in {"alone", "slow", "commitSlow"})
      /\ (u \in Pending <=> updates[u].stage = "contend")
    BY DEF AdmissionInv, UpdatesShaped, SleepersWait, OpenInGate, Concurrent, Contended,
           Pending, In
<1>1. CASE EnterConcurrent(u)
    <2>1. CASE Contended = {} /\ Pending = {}
        <3>1. Go(u, "admitted") /\ UNCHANGED asleep /\ u \notin asleep
              /\ updates[u].stage = "enter" /\ "admitted" \in Stages
            BY <1>1, <2>1 DEF EnterConcurrent, Stages
        <3>2. Moves(u, "admitted", updates[u].open)
            BY <1>0, <3>1, GoMoves
        <3> QED
            BY <1>0, <2>1, <3>1, <3>2, MovingWithin
    <2>2. CASE ~(Contended = {} /\ Pending = {})
        <3>1. /\ asleep' = asleep \cup {u} /\ UNCHANGED updates
              /\ updates[u].stage = "enter"
            BY <1>1, <2>2 DEF EnterConcurrent
        <3>2. UpdatesShaped' /\ OpenInGate' /\ AdmittedAlone'
            BY <3>1 DEF AdmissionInv, UpdatesShaped, OpenInGate, AdmittedAlone, Contended,
                        Concurrent, In
        <3>3. SleepersWait'
            BY <3>1 DEF AdmissionInv, SleepersWait, In
        <3>4. Contended' = Contended /\ Pending' = Pending /\ Concurrent' = Concurrent
            BY <3>1 DEF Contended, Pending, Concurrent, In
        <3>5. WaitersWillBeWoken'
            BY <2>2, <3>1, <3>4 DEF AdmissionInv, WaitersWillBeWoken
        <3> QED
            BY <3>2, <3>3, <3>5 DEF AdmissionInv
    <2> QED
        BY <2>1, <2>2
<1>2. CASE AcquireGate(u)
    <2>1. PICK stage \in {"fast", "slow"} :
              /\ stage = IF updates[u].stage = "admitted" THEN "fast" ELSE "slow"
              /\ Go(u, stage)
        BY <1>2 DEF AcquireGate
    <2>2. /\ updates[u].stage \in {"admitted", "alone"} /\ UNCHANGED asleep
          /\ stage \in Stages
        BY <1>2 DEF AcquireGate, Stages
    <2>3. Moves(u, stage, updates[u].open)
        BY <1>0, <2>1, GoMoves
    <2> QED
        BY <1>0, <2>1, <2>2, <2>3, MovingWithin
<1>3. CASE StartCommit(u)
    <2>1. PICK stage \in {"commit", "commitSlow"} :
              /\ stage = IF updates[u].stage = "fast" THEN "commit" ELSE "commitSlow"
              /\ Go(u, stage)
        BY <1>3 DEF StartCommit
    <2>2. /\ updates[u].stage \in {"fast", "slow"} /\ UNCHANGED asleep
          /\ stage \in Stages
        BY <1>3 DEF StartCommit, Stages
    <2>3. Moves(u, stage, updates[u].open)
        BY <1>0, <2>1, GoMoves
    <2> QED
        BY <1>0, <2>1, <2>2, <2>3, MovingWithin
<1>4. CASE Finish(u)
    <2>1. Moves(u, "idle", {})
        BY <1>0, <1>4, IdleMoves DEF Finish
    <2>2. CASE updates[u].stage = "commit"
        BY <1>0, <1>4, <2>1, <2>2, LeavingWakes DEF Finish
    <2>3. CASE updates[u].stage = "commitSlow"
        BY <1>4, <2>1, <2>3, NotifyWakes DEF Finish
    <2> QED
        BY <1>4, <2>2, <2>3 DEF Finish
<1>5. CASE WantAlone(u)
    <2>1. /\ updates[u].stage = "retry" /\ Go(u, "contend") /\ UNCHANGED asleep
          /\ "contend" \in Stages
        BY <1>5 DEF WantAlone, Stages
    <2>2. Moves(u, "contend", updates[u].open)
        BY <1>0, <2>1, GoMoves
    <2> QED
        BY <1>0, <2>1, <2>2, MovingWithin
<1>6. CASE EnterContended(u)
    <2>1. CASE Contended = {} /\ Concurrent = {}
        <3>1. Go(u, "alone") /\ UNCHANGED asleep /\ u \notin asleep
              /\ updates[u].stage = "contend" /\ "alone" \in Stages
            BY <1>6, <2>1 DEF EnterContended, Stages
        <3>2. Moves(u, "alone", updates[u].open)
            BY <1>0, <3>1, GoMoves
        <3> QED
            BY <1>0, <2>1, <3>1, <3>2, MovingWithin
    <2>2. CASE ~(Contended = {} /\ Concurrent = {})
        <3>1. /\ asleep' = asleep \cup {u} /\ UNCHANGED updates
              /\ updates[u].stage = "contend"
            BY <1>6, <2>2 DEF EnterContended
        <3>2. UpdatesShaped' /\ OpenInGate' /\ AdmittedAlone'
            BY <3>1 DEF AdmissionInv, UpdatesShaped, OpenInGate, AdmittedAlone, Contended,
                        Concurrent, In
        <3>3. SleepersWait'
            BY <3>1 DEF AdmissionInv, SleepersWait, In
        <3>4. Contended' = Contended /\ Pending' = Pending /\ Concurrent' = Concurrent
            BY <3>1 DEF Contended, Pending, Concurrent, In
        <3>5. WaitersWillBeWoken'
            BY <2>2, <3>1, <3>4 DEF AdmissionInv, WaitersWillBeWoken
        <3> QED
            BY <3>2, <3>3, <3>5 DEF AdmissionInv
    <2> QED
        BY <2>1, <2>2
<1>7. ASSUME NEW k \in Keys, OpenShard(u, k) PROVE AdmissionInv'
    <2>0. updates[u].stage \in {"fast", "slow"}
        BY <1>7 DEF OpenShard
    <2>1. CASE ~OpenedByOther(u, Route(k))
        <3>1. PICK open : open = updates[u].open \cup {Route(k)}
            OBVIOUS
        <3>2. updates' = [updates EXCEPT ![u].open = open] /\ UNCHANGED asleep
            BY <1>7, <2>1, <3>1 DEF OpenShard
        <3>3. Moves(u, updates[u].stage, open)
            BY <1>0, <3>2, OpenMoves
        <3> QED
            BY <1>0, <2>0, <3>2, <3>3, MovingWithin
    <2>2. CASE OpenedByOther(u, Route(k))
        <3>1. /\ updates' = [updates EXCEPT ![u].open = {}, ![u].stage = "retry"]
              /\ LeaveConcurrent(u) /\ updates[u].stage = "fast"
            BY <1>7, <2>2 DEF OpenShard
        <3>2. Moves(u, "retry", {})
            BY <1>0, <3>1, BothMove
        <3> QED
            BY <1>0, <3>1, <3>2, LeavingWakes
    <2> QED
        BY <2>1, <2>2
<1>8. ASSUME NEW i \in Live, CommitShard(u, i) PROVE AdmissionInv'
    <2>1. PICK open : open = updates[u].open \ {i}
        OBVIOUS
    <2>2. /\ updates' = [updates EXCEPT ![u].open = open] /\ UNCHANGED asleep
          /\ updates[u].stage \in {"commit", "commitSlow"}
        BY <1>8, <2>1 DEF CommitShard
    <2>3. Moves(u, updates[u].stage, open)
        BY <1>0, <2>2, OpenMoves
    <2> QED
        BY <1>0, <2>2, <2>3, MovingWithin
<1>9. CASE Cancel(u)
    <2>1. Moves(u, "idle", {})
        BY <1>0, <1>9, IdleMoves DEF Cancel
    <2>2. CASE updates[u].stage = "admitted"
        <3>1. LeaveConcurrent(u)
            BY <1>9, <2>2 DEF Cancel
        <3> QED
            BY <1>0, <2>1, <2>2, <3>1, LeavingWakes
    <2>3. CASE \/ updates[u].stage = "alone"
               \/ updates[u].stage = "contend" /\ Pending = {u} /\ Contended = {}
        <3>1. Notify
            BY <1>9, <2>3 DEF Cancel
        <3> QED
            BY <2>1, <3>1, NotifyWakes
    <2>4. CASE \/ updates[u].stage \in {"enter", "retry"}
               \/ updates[u].stage = "contend" /\ ~(Pending = {u} /\ Contended = {})
        <3>1. asleep' = asleep \ {u}
            BY <1>9, <2>4 DEF Cancel
        <3>2. UpdatesShaped' /\ OpenInGate' /\ AdmittedAlone'
            BY <2>1, MovesKeep DEF Stages
        <3>3. /\ Concurrent' = Concurrent \ {u} /\ Contended' = Contended \ {u}
              /\ Pending' = Pending \ {u}
            BY <2>1, MovesSets DEF Concurrent, Contended, Pending
        <3>4. u \notin Concurrent /\ u \notin Contended
            BY <1>0, <2>4
        <3>5. \A x \in asleep' : updates[x].stage = "enter" => (Contended \cup Pending)' # {}
            <4> SUFFICES ASSUME NEW x \in asleep, updates[x].stage = "enter"
                         PROVE  Contended \cup (Pending \ {u}) # {}
                BY <3>1, <3>3, <3>4
            <4>1. Contended \cup Pending # {}
                BY DEF AdmissionInv, WaitersWillBeWoken
            <4> QED
                BY <1>0, <2>4, <4>1
        <3>6. \A x \in asleep' :
                  updates[x].stage = "contend" => (Contended \cup Concurrent)' # {}
            BY <3>1, <3>3, <3>4 DEF AdmissionInv, WaitersWillBeWoken
        <3>7. SleepersWait' /\ WaitersWillBeWoken'
            BY <2>1, <3>1, <3>5, <3>6, SleepersKept DEF AdmissionInv
        <3> QED
            BY <3>2, <3>7 DEF AdmissionInv
    <2> QED
        BY <1>9, <2>2, <2>3, <2>4 DEF Cancel
<1> QED
    BY <1>1, <1>2, <1>3, <1>4, <1>5, <1>6, <1>7, <1>8, <1>9 DEF UpdateStep

LEMMA AdmissionStep == AdmissionInv /\ [Next]_vars => AdmissionInv'
<1> SUFFICES ASSUME AdmissionInv, [Next]_vars PROVE AdmissionInv'
    OBVIOUS
<1>1. ASSUME NEW u \in Updates, NEW t \in Transactions, Begin(u, t) PROVE AdmissionInv'
    <2>1. Moves(u, "enter", {})
        BY <1>1 DEF Begin, Moves, AdmissionInv, UpdatesShaped, Idle
    <2>2. /\ updates[u].stage = "idle" /\ UNCHANGED asleep /\ "enter" \in Stages
          /\ u \notin asleep /\ u \notin Concurrent /\ u \notin Contended /\ u \notin Pending
        BY <1>1 DEF Begin, Stages, AdmissionInv, SleepersWait, Concurrent, Contended,
                    Pending, In
    <2> QED
        BY <2>1, <2>2, MovingWithin
<1>2. ASSUME NEW u \in Updates, UpdateStep(u) \/ Cancel(u) PROVE AdmissionInv'
    BY <1>2, AdmissionUpdateStep
<1>3. ASSUME NEW name \in {"split", "compact"}, StartTask(name) PROVE AdmissionInv'
    BY <1>3, AdmissionKept DEF StartTask
<1>4. CASE TaskStep \/ TaskEnds
    BY <1>4, AdmissionKept
    DEF TaskStep, TaskEnds, Isolate, Replay, Release, SplitCopy, SplitFlip, SplitClean
<1>5. CASE Crash
    <2>1. updates' = [u \in Updates |-> Idle] /\ asleep' = {}
        BY <1>5 DEF Crash
    <2>2. UpdatesShaped' /\ OpenInGate'
        BY <2>1 DEF UpdatesShaped, OpenInGate, Idle, Stages
    <2>3. AdmittedAlone' /\ SleepersWait' /\ WaitersWillBeWoken'
        BY <2>1 DEF AdmittedAlone, SleepersWait, WaitersWillBeWoken, Contended, In, Idle
    <2> QED
        BY <2>2, <2>3 DEF AdmissionInv
<1>6. ASSUME NEW i \in Live \cap Fragile, ReplaceDamaged(i) PROVE AdmissionInv'
    BY <1>6, AdmissionKept DEF ReplaceDamaged
<1>7. CASE UNCHANGED vars
    BY <1>7, AdmissionKept DEF vars
<1> QED
    BY <1>1, <1>2, <1>3, <1>4, <1>5, <1>6, <1>7 DEF Next

LEMMA Admission == Spec => []AdmissionInv
BY AdmissionInit, AdmissionStep, PTL DEF Spec

(* An update that sleeps in enterConcurrent or enterContended always has   *)
(* another one ahead of it whose leaving wakes it: no order of arrivals,   *)
(* retries and cancelled contexts leaves a caller asleep for good.         *)
THEOREM NobodySleepsForGood == Spec => []WaitersWillBeWoken
<1>1. AdmissionInv => WaitersWillBeWoken
    BY DEF AdmissionInv
<1> QED
    BY <1>1, Admission, PTL

(* The update that retries alone, and blocks in bbolt on every shard it    *)
(* opens, never meets a shard another update has open: contended updates   *)
(* cannot wait for each other in a circle.                                 *)
THEOREM AloneIsAlone == Spec => []AloneMeetsNobody
<1>1. AdmissionInv => AloneMeetsNobody
    BY DEF AdmissionInv, AloneMeetsNobody, OpenInGate, AdmittedAlone, Contended, Concurrent, In
<1> QED
    BY <1>1, Admission, PTL

-----------------------------------------------------------------------------
(* Linear hashing: the arithmetic of one more bit.                         *)

(* One more level, twice the shards. The provers know nothing of powers,   *)
(* and there are 2 ^ n subsets of n things: those without the last thing,  *)
(* and as many with it.                                                    *)
LEMMA PowerDoubles ==
    ASSUME NEW n \in Nat
    PROVE  2 ^ n \in Nat \ {0} /\ 2 ^ (n + 1) = 2 * 2 ^ n
<1> DEFINE S == 1 .. n
           A == SUBSET S
           B == {T \cup {n + 1} : T \in A}
           f == [T \in A |-> T \cup {n + 1}]
<1>1. IsFiniteSet(S) /\ Cardinality(S) = n
    BY FS_Interval
<1>2. IsFiniteSet(1 .. n + 1) /\ Cardinality(1 .. n + 1) = n + 1
    BY FS_Interval
<1>3. IsFiniteSet(A) /\ Cardinality(A) = 2 ^ n
    BY <1>1, FS_SUBSET
<1>4. Cardinality(SUBSET (1 .. n + 1)) = 2 ^ (n + 1)
    BY <1>2, FS_SUBSET
<1>5. 2 ^ n \in Nat \ {0}
    <2>1. A # {}
        OBVIOUS
    <2>2. Cardinality(A) # 0 /\ Cardinality(A) \in Nat
        BY <1>3, <2>1, FS_EmptySet, FS_CardinalityType
    <2> QED
        BY <1>3, <2>2
<1>6. SUBSET (1 .. n + 1) = A \cup B
    <2>1. ASSUME NEW T \in SUBSET (1 .. n + 1) PROVE T \in A \cup B
        <3>1. T \ {n + 1} \in A
            OBVIOUS
        <3>2. CASE n + 1 \in T
            <4>1. T = (T \ {n + 1}) \cup {n + 1}
                BY <3>2
            <4> QED
                BY <3>1, <4>1
        <3>3. CASE n + 1 \notin T
            BY <3>3
        <3> QED
            BY <3>2, <3>3
    <2>2. ASSUME NEW T \in A \cup B PROVE T \in SUBSET (1 .. n + 1)
        OBVIOUS
    <2> QED
        BY <2>1, <2>2
<1>7. A \cap B = {}
    OBVIOUS
<1>8. ExistsBijection(A, B)
    <2>1. f \in [A -> B]
        OBVIOUS
    <2>2. \A T, U \in A : f[T] = f[U] => T = U
        <3> SUFFICES ASSUME NEW T \in A, NEW U \in A, f[T] = f[U] PROVE T = U
            OBVIOUS
        <3>1. n + 1 \notin T /\ n + 1 \notin U
            OBVIOUS
        <3> QED
            BY <3>1
    <2>3. \A T \in B : \E U \in A : f[U] = T
        OBVIOUS
    <2> QED
        BY <2>1, <2>2, <2>3 DEF ExistsBijection, Bijection, Injection, Surjection, IsInjective
<1>9. IsFiniteSet(B) /\ Cardinality(B) = 2 ^ n
    BY <1>3, <1>8, FS_Bijection
<1> HIDE DEF S, A, B, f
<1>10. Cardinality(A \cup B) = Cardinality(A) + Cardinality(B) - Cardinality(A \cap B)
    BY <1>3, <1>9, FS_Union
<1>11. Cardinality(A \cap B) = 0
    BY <1>7, FS_EmptySet
<1>12. 2 ^ (n + 1) = 2 ^ n + 2 ^ n - 0
    BY <1>3, <1>4, <1>6, <1>9, <1>10, <1>11, Zenon
<1>13. ASSUME NEW c \in Nat PROVE c + c - 0 = 2 * c
    OBVIOUS
<1> QED
    BY <1>5, <1>12, <1>13

LEMMA Remainder ==
    ASSUME NEW h \in Nat, NEW m \in Nat \ {0}
    PROVE  /\ h % m \in 0 .. m - 1 /\ h \div m \in Nat
           /\ h = m * (h \div m) + (h % m)
OBVIOUS

(* A remainder below the divisor is the remainder.                         *)
LEMMA RemainderUnique ==
    ASSUME NEW h \in Nat, NEW m \in Nat \ {0}, NEW q \in Nat, NEW r \in 0 .. m - 1,
           h = m * q + r
    PROVE  h % m = r
<1>1. PICK p \in Nat : h = m * p + (h % m) /\ h % m \in 0 .. m - 1
    BY Remainder
<1>2. CASE p = q
    BY <1>1, <1>2
<1>3. CASE p > q
    <2>1. PICK d \in Nat : p = q + d + 1
        BY <1>3
    <2>2. m * p = m * q + m * d + m
        BY <2>1
    <2>3. m * d \in Nat
        OBVIOUS
    <2> QED
        BY <1>1, <2>2, <2>3
<1>4. CASE q > p
    <2>1. PICK d \in Nat : q = p + d + 1
        BY <1>4
    <2>2. m * q = m * p + m * d + m
        BY <2>1
    <2>3. m * d \in Nat
        OBVIOUS
    <2> QED
        BY <1>1, <2>2, <2>3
<1> QED
    BY <1>2, <1>3, <1>4

(* A mask of one more bit keeps the hash or adds the width.                *)
LEMMA WiderMask ==
    ASSUME NEW h \in Nat, NEW m \in Nat \ {0}
    PROVE  h % (2 * m) \in {h % m, (h % m) + m}
<1>1. PICK q \in Nat, r \in 0 .. m - 1 : h = m * q + r /\ r = h % m
    BY Remainder
<1>2. CASE q % 2 = 0
    <2>1. PICK p \in Nat : q = 2 * p
        BY <1>2
    <2>2. PICK n \in Nat \ {0} : n = 2 * m
        OBVIOUS
    <2>3. h = n * p + r /\ r \in 0 .. n - 1
        BY <1>1, <2>1, <2>2
    <2>4. h % n = r
        BY <2>3, RemainderUnique
    <2> QED
        BY <1>1, <2>2, <2>4
<1>3. CASE q % 2 # 0
    <2>1. PICK p \in Nat : q = 2 * p + 1
        BY <1>3
    <2>2. PICK n \in Nat \ {0} : n = 2 * m
        OBVIOUS
    <2>3. h = n * p + (r + m) /\ r + m \in 0 .. n - 1
        BY <1>1, <2>1, <2>2
    <2>4. h % n = r + m
        BY <2>3, RemainderUnique
    <2> QED
        BY <1>1, <2>2, <2>4
<1> QED
    BY <1>2, <1>3

(* locate routes to a shard of the layout.                                 *)
LEMMA LocatedInside ==
    ASSUME NEW h \in Nat, NEW lv \in Nat, NEW sp \in 0 .. 2 ^ lv - 1
    PROVE  Located(h, lv, sp) \in 0 .. (2 ^ lv + sp) - 1
<1>1. PICK m \in Nat \ {0} : m = 2 ^ lv /\ 2 ^ (lv + 1) = 2 * m
    BY PowerDoubles
<1>2. PICK half \in 0 .. m - 1 : half = h % m
    BY Remainder
<1>3. PICK wide \in {half, half + m} : wide = h % (2 * m)
    BY <1>2, WiderMask
<1>4. Located(h, lv, sp) = IF half >= sp THEN half ELSE wide
    BY <1>1, <1>2, <1>3 DEF Located
<1> QED
    BY <1>1, <1>4

(* advanceSplit sends to the new shard what movesTo selects, all of it     *)
(* from the shard that is split, and nothing else anywhere.                *)
LEMMA LocatedAfterSplit ==
    ASSUME NEW h \in Nat, NEW lv \in Nat, NEW sp \in 0 .. 2 ^ lv - 1
    PROVE  LET moves == h % 2 ^ (lv + 1) = 2 ^ lv + sp
               after == IF moves THEN 2 ^ lv + sp ELSE Located(h, lv, sp)
           IN  /\ moves => Located(h, lv, sp) = sp
               /\ sp + 1 < 2 ^ lv => Located(h, lv, sp + 1) = after
               /\ sp + 1 >= 2 ^ lv => Located(h, lv + 1, 0) = after
<1>1. PICK m \in Nat \ {0} : m = 2 ^ lv /\ 2 ^ (lv + 1) = 2 * m
    BY PowerDoubles
<1>2. PICK half \in 0 .. m - 1 : half = h % m
    BY Remainder
<1>3. PICK wide \in {half, half + m} : wide = h % (2 * m)
    BY <1>2, WiderMask
<1>4. /\ Located(h, lv, sp) = IF half >= sp THEN half ELSE wide
      /\ Located(h, lv, sp + 1) = IF half >= sp + 1 THEN half ELSE wide
    BY <1>1, <1>2, <1>3 DEF Located
<1>5. Located(h, lv + 1, 0) = wide
    BY <1>1, <1>3 DEF Located
<1>6. sp \in 0 .. m - 1
    BY <1>1
<1>7. h % 2 ^ (lv + 1) = wide
    BY <1>1, <1>3
<1> QED
    BY <1>1, <1>4, <1>5, <1>6, <1>7

-----------------------------------------------------------------------------
(* Sums over finite sets. A sum is defined by a recursion that takes the   *)
(* members in some order; it exists, is unique and does not depend on the  *)
(* order, each by induction on the set.                                    *)

Pick(s) == CHOOSE x \in s : TRUE
(* The recursion that MapThenSumSet stands for.                            *)
Sums(g, f, S) ==
    g = [s \in SUBSET S |-> IF s = {} THEN 0 ELSE f[Pick(s)] + g[s \ {Pick(s)}]]

LEMMA TotalDef ==
    ASSUME NEW f, NEW S
    PROVE  Total(f, S) = (CHOOSE g : Sums(g, f, S))[S]
BY DEF Total, MapThenSumSet, MapThenFoldSet, Sums, Pick

(* Induction over finite sets: a non-empty set of subsets of a finite set  *)
(* has a least member.                                                     *)
LEMMA LeastSet ==
    ASSUME NEW S, IsFiniteSet(S), NEW Bad, Bad \subseteq SUBSET S, Bad # {}
    PROVE  \E s \in Bad : \A t \in Bad : t \subseteq s => t = s
<1>1. IsWellFoundedOn(StrictSubsetOrdering(S), SUBSET S)
    BY FS_StrictSubsetOrderingWellFounded, FS_FiniteSubsetsOfFinite
<1>2. PICK s \in Bad : \A t \in Bad : ~ (<<t, s>> \in StrictSubsetOrdering(S))
    BY <1>1, WFMin
<1> QED
    BY <1>2 DEF StrictSubsetOrdering

LEMMA PickIn == ASSUME NEW s, s # {} PROVE Pick(s) \in s
BY DEF Pick

(* The recursion on a subset agrees with the one on the set.               *)
LEMMA SumsAgree ==
    ASSUME NEW f, NEW S, NEW R, IsFiniteSet(R), R \subseteq S, NEW g, NEW h,
           Sums(g, f, S), Sums(h, f, R)
    PROVE  \A t \in SUBSET R : g[t] = h[t]
<1> DEFINE Bad == {t \in SUBSET R : g[t] # h[t]}
<1> SUFFICES ASSUME Bad # {} PROVE FALSE
    OBVIOUS
<1>1. PICK s \in Bad : \A t \in Bad : t \subseteq s => t = s
    <2>1. Bad \subseteq SUBSET R /\ Bad # {}
        OBVIOUS
    <2> HIDE DEF Bad
    <2> QED
        BY <2>1, LeastSet
<1>2. CASE s = {}
    BY <1>1, <1>2 DEF Sums
<1>3. CASE s # {}
    <2>1. PICK x \in s : x = Pick(s)
        BY <1>3, PickIn
    <2>2. s \ {x} \notin Bad
        BY <1>1, <2>1
    <2>3. g[s \ {x}] = h[s \ {x}]
        BY <2>2
    <2>4. g[s] = f[x] + g[s \ {x}] /\ h[s] = f[x] + h[s \ {x}]
        BY <1>1, <1>3, <2>1 DEF Sums
    <2> QED
        BY <1>1, <2>3, <2>4
<1> QED
    BY <1>2, <1>3

(* The recursion has a solution: for the least set that had none, one is   *)
(* put together from those of its subsets.                                 *)
LEMMA SumsExist ==
    ASSUME NEW f, NEW S, IsFiniteSet(S)
    PROVE  \E g : Sums(g, f, S)
<1> DEFINE Bad == {t \in SUBSET S : ~\E g : Sums(g, f, t)}
<1> SUFFICES ASSUME Bad # {} PROVE FALSE
    OBVIOUS
<1>1. PICK s \in Bad : \A t \in Bad : t \subseteq s => t = s
    <2>1. Bad \subseteq SUBSET S /\ Bad # {}
        OBVIOUS
    <2> HIDE DEF Bad
    <2> QED
        BY <2>1, LeastSet
<1> DEFINE part(t) == CHOOSE g : Sums(g, f, t)
           whole == [t \in SUBSET s |-> IF t = {} THEN 0
                                        ELSE f[Pick(t)] + part(t \ {Pick(t)})[t \ {Pick(t)}]]
<1>2. ASSUME NEW t \in SUBSET s, t # s PROVE Sums(part(t), f, t)
    <2>1. t \in SUBSET S /\ t \notin Bad
        BY <1>1, <1>2
    <2> QED
        BY <2>1
<1> HIDE DEF part
<1>3. ASSUME NEW t \in SUBSET s, t # s PROVE whole[t] = part(t)[t]
    <2>1. CASE t = {}
        BY <1>2, <2>1 DEF Sums
    <2>2. CASE t # {}
        <3>1. PICK x \in t : x = Pick(t)
            BY <2>2, PickIn
        <3>2. part(t)[t] = f[x] + part(t)[t \ {x}]
            BY <1>2, <1>3, <2>2, <3>1 DEF Sums
        <3>3. Sums(part(t), f, t) /\ Sums(part(t \ {x}), f, t \ {x})
            BY <1>2, <1>3, <3>1
        <3>4. IsFiniteSet(t \ {x})
            BY <1>1, <1>3, FS_Subset
        <3>5. part(t)[t \ {x}] = part(t \ {x})[t \ {x}]
            BY <3>3, <3>4, SumsAgree
        <3> QED
            BY <2>2, <3>1, <3>2, <3>5
    <2> QED
        BY <2>1, <2>2
<1>4. Sums(whole, f, s)
    <2>1. ASSUME NEW t \in SUBSET s, t # {}
          PROVE  whole[t] = f[Pick(t)] + whole[t \ {Pick(t)}]
        <3>1. Pick(t) \in t
            BY <2>1, PickIn
        <3>2. t \ {Pick(t)} \in SUBSET s /\ t \ {Pick(t)} # s
            BY <2>1, <3>1
        <3> QED
            BY <1>3, <2>1, <3>2
    <2> QED
        BY <2>1 DEF Sums
<1> QED
    BY <1>1, <1>4

LEMMA TotalEquation ==
    ASSUME NEW f, NEW S, IsFiniteSet(S)
    PROVE  Total(f, S) = IF S = {} THEN 0 ELSE f[Pick(S)] + Total(f, S \ {Pick(S)})
<1>1. PICK g : g = CHOOSE h : Sums(h, f, S)
    OBVIOUS
<1>2. Sums(g, f, S) /\ Total(f, S) = g[S]
    BY <1>1, SumsExist, TotalDef
<1>3. CASE S = {}
    BY <1>2, <1>3 DEF Sums
<1>4. CASE S # {}
    <2>1. PICK x \in S : x = Pick(S)
        BY <1>4, PickIn
    <2>2. IsFiniteSet(S \ {x})
        BY FS_Subset
    <2>3. PICK h : h = CHOOSE e : Sums(e, f, S \ {x})
        OBVIOUS
    <2>4. Sums(h, f, S \ {x}) /\ Total(f, S \ {x}) = h[S \ {x}]
        BY <2>2, <2>3, SumsExist, TotalDef
    <2>5. g[S \ {x}] = h[S \ {x}]
        BY <1>2, <2>2, <2>4, SumsAgree
    <2>6. g[S] = f[x] + g[S \ {x}]
        BY <1>2, <1>4, <2>1 DEF Sums
    <2> QED
        BY <1>2, <1>4, <2>1, <2>4, <2>5, <2>6
<1> QED
    BY <1>3, <1>4

LEMMA TotalInt ==
    ASSUME NEW f, NEW S, IsFiniteSet(S), \A x \in S : f[x] \in Int
    PROVE  \A s \in SUBSET S : Total(f, s) \in Int
<1> DEFINE Bad == {s \in SUBSET S : Total(f, s) \notin Int}
<1> SUFFICES ASSUME Bad # {} PROVE FALSE
    OBVIOUS
<1>1. PICK s \in Bad : \A t \in Bad : t \subseteq s => t = s
    <2>1. Bad \subseteq SUBSET S /\ Bad # {}
        OBVIOUS
    <2> HIDE DEF Bad
    <2> QED
        BY <2>1, LeastSet
<1>2. IsFiniteSet(s)
    BY <1>1, FS_Subset
<1>3. CASE s = {}
    <2>1. Total(f, s) = 0
        BY <1>2, <1>3, TotalEquation
    <2> QED
        BY <1>1, <2>1
<1>4. CASE s # {}
    <2>1. PICK x \in s : x = Pick(s)
        BY <1>4, PickIn
    <2>2. Total(f, s \ {x}) \in Int /\ f[x] \in Int
        BY <1>1, <2>1
    <2> QED
        BY <1>1, <1>2, <1>4, <2>1, <2>2, TotalEquation
<1> QED
    BY <1>3, <1>4

(* Any member may be taken first.                                          *)
LEMMA TotalAnyOrder ==
    ASSUME NEW f, NEW S, IsFiniteSet(S), \A x \in S : f[x] \in Int
    PROVE  \A s \in SUBSET S : \A x \in s : Total(f, s) = f[x] + Total(f, s \ {x})
<1> DEFINE Bad == {s \in SUBSET S : \E x \in s : Total(f, s) # f[x] + Total(f, s \ {x})}
<1> SUFFICES ASSUME Bad # {} PROVE FALSE
    OBVIOUS
<1>1. PICK s \in Bad : \A t \in Bad : t \subseteq s => t = s
    <2>1. Bad \subseteq SUBSET S /\ Bad # {}
        OBVIOUS
    <2> HIDE DEF Bad
    <2> QED
        BY <2>1, LeastSet
<1>2. PICK x \in s : Total(f, s) # f[x] + Total(f, s \ {x})
    BY <1>1
<1>3. IsFiniteSet(s)
    BY <1>1, FS_Subset
<1>4. PICK y \in s : y = Pick(s)
    BY <1>2, PickIn
<1>5. Total(f, s) = f[y] + Total(f, s \ {y})
    BY <1>3, <1>4, TotalEquation
<1>6. x # y
    BY <1>2, <1>5
<1>7. Total(f, s \ {y}) = f[x] + Total(f, (s \ {y}) \ {x})
    <2>1. s \ {y} \in SUBSET S /\ s \ {y} \notin Bad
        BY <1>1, <1>4
    <2> QED
        BY <1>6, <2>1
<1>8. Total(f, s \ {x}) = f[y] + Total(f, (s \ {x}) \ {y})
    <2>1. s \ {x} \in SUBSET S /\ s \ {x} \notin Bad
        BY <1>1, <1>2
    <2> QED
        BY <1>4, <1>6, <2>1
<1>9. (s \ {y}) \ {x} = (s \ {x}) \ {y}
    OBVIOUS
<1>10. f[x] \in Int /\ f[y] \in Int /\ Total(f, (s \ {x}) \ {y}) \in Int
    BY <1>1, <1>2, <1>4, TotalInt
<1>11. f[y] + (f[x] + Total(f, (s \ {x}) \ {y})) = f[x] + (f[y] + Total(f, (s \ {x}) \ {y}))
    BY <1>10
<1> HIDE DEF Bad
<1> QED
    BY <1>2, <1>5, <1>7, <1>8, <1>9, <1>11

LEMMA TotalAdd ==
    ASSUME NEW f, NEW S, IsFiniteSet(S), NEW x, x \notin S, \A y \in S \cup {x} : f[y] \in Int
    PROVE  Total(f, S \cup {x}) = f[x] + Total(f, S)
<1>1. IsFiniteSet(S \cup {x}) /\ (S \cup {x}) \ {x} = S
    BY FS_AddElement
<1> QED
    BY <1>1, TotalAnyOrder

(* A sum depends only on the terms it has.                                 *)
LEMMA TotalSame ==
    ASSUME NEW f, NEW g, NEW S, IsFiniteSet(S), \A x \in S : f[x] = g[x]
    PROVE  Total(f, S) = Total(g, S)
<1> DEFINE Bad == {s \in SUBSET S : Total(f, s) # Total(g, s)}
<1> SUFFICES ASSUME Bad # {} PROVE FALSE
    OBVIOUS
<1>1. PICK s \in Bad : \A t \in Bad : t \subseteq s => t = s
    <2>1. Bad \subseteq SUBSET S /\ Bad # {}
        OBVIOUS
    <2> HIDE DEF Bad
    <2> QED
        BY <2>1, LeastSet
<1>2. IsFiniteSet(s)
    BY <1>1, FS_Subset
<1>3. CASE s = {}
    BY <1>1, <1>2, <1>3, TotalEquation
<1>4. CASE s # {}
    <2>1. PICK x \in s : x = Pick(s)
        BY <1>4, PickIn
    <2>2. Total(f, s \ {x}) = Total(g, s \ {x}) /\ f[x] = g[x]
        BY <1>1, <2>1
    <2>3. /\ Total(f, s) = f[x] + Total(f, s \ {x})
          /\ Total(g, s) = g[x] + Total(g, s \ {x})
        BY <1>2, <1>4, <2>1, TotalEquation
    <2> QED
        BY <1>1, <2>2, <2>3
<1> QED
    BY <1>3, <1>4

LEMMA TotalZero ==
    ASSUME NEW f, NEW S, IsFiniteSet(S), \A x \in S : f[x] = 0
    PROVE  Total(f, S) = 0
<1> DEFINE Bad == {s \in SUBSET S : Total(f, s) # 0}
<1> SUFFICES ASSUME Bad # {} PROVE FALSE
    OBVIOUS
<1>1. PICK s \in Bad : \A t \in Bad : t \subseteq s => t = s
    <2>1. Bad \subseteq SUBSET S /\ Bad # {}
        OBVIOUS
    <2> HIDE DEF Bad
    <2> QED
        BY <2>1, LeastSet
<1>2. IsFiniteSet(s)
    BY <1>1, FS_Subset
<1>3. CASE s = {}
    BY <1>1, <1>2, <1>3, TotalEquation
<1>4. CASE s # {}
    <2>1. PICK x \in s : x = Pick(s)
        BY <1>4, PickIn
    <2>2. Total(f, s \ {x}) = 0 /\ f[x] = 0
        BY <1>1, <2>1
    <2>3. Total(f, s) = f[x] + Total(f, s \ {x})
        BY <1>2, <1>4, <2>1, TotalEquation
    <2> QED
        BY <1>1, <2>2, <2>3
<1> QED
    BY <1>3, <1>4

(* One term changes, and the sum with it.                                  *)
LEMMA TotalChange ==
    ASSUME NEW f, NEW g, NEW S, IsFiniteSet(S), \A x \in S : f[x] \in Int,
           NEW i \in S, NEW d \in Int, g[i] = f[i] + d, \A x \in S \ {i} : g[x] = f[x]
    PROVE  Total(g, S) = Total(f, S) + d
<1>1. Total(f, S) = f[i] + Total(f, S \ {i}) /\ Total(g, S) = g[i] + Total(g, S \ {i})
    BY TotalAnyOrder
<1>2. Total(f, S \ {i}) = Total(g, S \ {i}) /\ Total(f, S \ {i}) \in Int
    BY TotalSame, TotalInt, FS_Subset
<1> QED
    BY <1>1, <1>2

-----------------------------------------------------------------------------
(* The contents. VaultInv says of the files, the manifest, the task and    *)
(* the history what every step needs of the others.                        *)

Layout == level \in Nat /\ split \in 0 .. 2 ^ level - 1 /\ Count <= MaxShards

(* What the files hold and the history remembers is of its type.           *)
Stored ==
    /\ records \in [Shards -> [Keys -> Values \cup {None}]]
    /\ changes \in [Shards -> Int]
    /\ root \in [Shards -> SUBSET (Keys \X Values)]
    /\ quarantine \in [Shards -> SUBSET (Keys \X Values)]
    /\ committed \in [Keys -> Values \cup {None}]
    /\ held \subseteq Keys \X Values
    /\ damaged \in BOOLEAN

(* Open shards are of the layout, and an update writes a transaction.      *)
WritesSound ==
    \A u \in Updates : /\ updates[u].open \subseteq Live
                       /\ updates[u].writes \in Transactions \cup {<< >>}

(* Only a split comes to the stages of a split.                            *)
TaskShaped ==
    /\ task = [name |-> task.name, stage |-> task.stage, todo |-> task.todo,
               moved |-> task.moved]
    /\ task.name \in Tasks /\ task.stage \in TaskStages /\ task.todo \subseteq Live
    /\ task.stage \in {"copy", "flip", "clean"} => task.name = "split"

(* While a task runs, no update is between the gate and its return.        *)
GateHeld == task.name # "none" => HoldsGate = {}

(* Before the manifest is written, the new file has a copy of what will    *)
(* move to it and no length changes; afterwards, what is still to be       *)
(* deleted from the old shard is routed to, or quarantined in, the new     *)
(* one.                                                                    *)
SplitSound ==
    /\ task.stage \in {"copy", "flip"} => Count < MaxShards
    /\ task.stage = "flip" =>
          /\ records[Count] = Copied /\ changes[Count] = 0
          /\ task.moved \subseteq {k \in Keys : MovesTo(k)} \cup quarantine[Count]
    /\ task.stage = "clean" =>
          /\ \A i \in task.todo : i # Count - 1
          /\ task.moved \subseteq {k \in Keys : Route(k) = Count - 1} \cup quarantine[Count - 1]

(* Every value that is read was stored by a commit or a replay.            *)
StoredIsHeld == \A k \in Keys : committed[k] # None => <<k, committed[k]>> \in held

VaultInv ==
    /\ Layout /\ Stored /\ WritesSound /\ TaskShaped /\ GateHeld /\ SplitSound
    /\ ContentAsCommitted /\ StoredIsHeld /\ RootRecordsKept /\ LengthExact

LEMMA RouteInside ==
    ASSUME Layout, NEW k \in Keys
    PROVE  Route(k) \in Live /\ Route(k) \in Shards
<1>1. Hash[k] \in Nat
    BY VaultAssumption
<1>2. Route(k) \in 0 .. Count - 1
    <2>1. Route(k) \in 0 .. (2 ^ level + split) - 1
        BY <1>1, LocatedInside DEF Layout, Route
    <2> QED
        BY <2>1, Zenon DEF Count
<1>3. Count \in Int /\ Count <= MaxShards /\ MaxShards \in Int /\ Live = 0 .. Count - 1
    BY VaultAssumption, PowerDoubles DEF Layout, Count, Live
<1> QED
    BY <1>2, <1>3 DEF Shards

(* Writing the manifest adds one shard and reroutes what moves to it.      *)
LEMMA FlipRoutes ==
    ASSUME Layout, Count < MaxShards, SplitFlip
    PROVE  /\ Layout' /\ Count \in Nat /\ Count' = Count + 1 /\ Live' = Live \cup {Count}
           /\ split \in Live
           /\ \A k \in Keys : MovesTo(k) => Route(k) = split
           /\ \A k \in Keys : Route(k)' = IF MovesTo(k) THEN Count ELSE Route(k)
<1>1. PICK m \in Nat \ {0} : m = 2 ^ level /\ 2 ^ (level + 1) = 2 * m
    BY PowerDoubles DEF Layout
<1>2. split \in 0 .. m - 1 /\ Count = m + split /\ level \in Nat /\ MaxShards \in Nat
    BY <1>1, VaultAssumption DEF Layout, Count
<1>3. \/ split + 1 >= m /\ level' = level + 1 /\ split' = 0
      \/ split + 1 < m /\ level' = level /\ split' = split + 1
    BY <1>1, <1>2 DEF SplitFlip
<1>4. Layout' /\ Count' = Count + 1
    <2>1. CASE split + 1 >= m /\ level' = level + 1 /\ split' = 0
        <3>1. 2 ^ level' = 2 * m
            BY <1>1, <2>1
        <3> QED
            BY <1>2, <2>1, <3>1 DEF Layout, Count
    <2>2. CASE split + 1 < m /\ level' = level /\ split' = split + 1
        <3>1. 2 ^ level' = m
            BY <1>1, <2>2
        <3> QED
            BY <1>2, <2>2, <3>1 DEF Layout, Count
    <2> QED
        BY <1>3, <2>1, <2>2
<1>5. Live' = Live \cup {Count} /\ Count \in Nat /\ split \in Live
    BY <1>2, <1>4 DEF Live
<1>6. ASSUME NEW k \in Keys
      PROVE  /\ MovesTo(k) => Route(k) = split
             /\ Route(k)' = IF MovesTo(k) THEN Count ELSE Route(k)
    <2>1. Hash[k] \in Nat
        BY VaultAssumption
    <2>2. /\ MovesTo(k) => Located(Hash[k], level, split) = split
          /\ split + 1 < m => Located(Hash[k], level, split + 1)
                 = IF MovesTo(k) THEN Count ELSE Located(Hash[k], level, split)
          /\ split + 1 >= m => Located(Hash[k], level + 1, 0)
                 = IF MovesTo(k) THEN Count ELSE Located(Hash[k], level, split)
        BY <1>1, <2>1, LocatedAfterSplit DEF Layout, MovesTo, Count
    <2>3. Route(k)' = Located(Hash[k], level', split')
        BY DEF Route
    <2> QED
        BY <1>3, <2>2, <2>3 DEF Route
<1> QED
    BY <1>4, <1>5, <1>6

LEMMA LiveFinite ==
    ASSUME Layout
    PROVE  IsFiniteSet(Live) /\ Live \subseteq Shards
<1>1. Count \in Nat /\ Count <= MaxShards /\ MaxShards \in Nat
    BY VaultAssumption, PowerDoubles DEF Layout, Count
<1> QED
    BY <1>1, FS_Interval DEF Live, Shards

LEMMA VaultInit == Init => VaultInv
<1> SUFFICES ASSUME Init PROVE VaultInv
    OBVIOUS
<1>1. Layout
    <2>1. PICK m \in Nat \ {0} : m = 2 ^ InitialLevel /\ InitialLevel \in Nat
        BY PowerDoubles, VaultAssumption
    <2>2. MaxShards \in Nat /\ MaxShards >= m /\ level = InitialLevel /\ split = 0
        BY <2>1, VaultAssumption DEF Init
    <2> QED
        BY <2>1, <2>2 DEF Layout, Count
<1>2. PICK place \in [Roots -> Live] : root = [i \in Shards |-> {r \in Roots : place[r] = i}]
    BY DEF Init
<1>3. /\ records = [i \in Shards |-> NoRecords] /\ changes = [i \in Shards |-> 0]
      /\ quarantine = [i \in Shards |-> {}] /\ task = Recovery("open")
      /\ updates = [u \in Updates |-> Idle] /\ committed = NoRecords /\ held = {}
      /\ damaged = FALSE
    BY DEF Init
<1>4. Stored
    <2>1. \A i \in Shards : root[i] \subseteq Keys \X Values
        BY <1>2, VaultAssumption
    <2>2. root \in [Shards -> SUBSET (Keys \X Values)]
        BY <1>2, <2>1
    <2>3. NoRecords \in [Keys -> Values \cup {None}]
        BY DEF NoRecords
    <2> HIDE DEF NoRecords
    <2>4. records \in [Shards -> [Keys -> Values \cup {None}]] /\ changes \in [Shards -> Int]
        BY <1>3, <2>3
    <2>5. quarantine \in [Shards -> SUBSET (Keys \X Values)]
        BY <1>3
    <2> QED
        BY <1>3, <2>2, <2>3, <2>4, <2>5 DEF Stored
<1>5. WritesSound /\ GateHeld
    BY <1>3 DEF WritesSound, GateHeld, HoldsGate, In, Idle
<1>6. TaskShaped /\ SplitSound
    BY <1>3 DEF TaskShaped, SplitSound, Recovery, Tasks, TaskStages
<1>7. \A k \in Keys : Visible(k) = None
    BY <1>1, <1>3, RouteInside DEF Visible, NoRecords
<1>8. ContentAsCommitted /\ StoredIsHeld
    BY <1>3, <1>7 DEF ContentAsCommitted, StoredIsHeld, NoRecords
<1>9. RootRecordsKept
    <2> SUFFICES ASSUME NEW r \in Roots PROVE \E i \in Live : r \in root[i]
        BY DEF RootRecordsKept
    <2>1. r[1] \in Keys /\ place[r] \in Live
        BY <1>2, VaultAssumption
    <2>2. place[r] \in Shards
        BY <1>1, <2>1, LiveFinite
    <2> QED
        BY <1>2, <2>1, <2>2
<1>10. LengthExact
    <2>1. {k \in Keys : Visible(k) # None} = {}
        BY <1>7
    <2>2. IsFiniteSet(Live) /\ Live \subseteq Shards
        BY <1>1, LiveFinite
    <2>3. Total(changes, Live) = 0
        <3>1. \A i \in Live : changes[i] = 0
            BY <1>3, <2>2
        <3> QED
            BY <2>2, <3>1, TotalZero
    <2> QED
        BY <2>1, <2>3, FS_EmptySet DEF LengthExact
<1> QED
    BY <1>1, <1>4, <1>5, <1>6, <1>8, <1>9, <1>10 DEF VaultInv

(* The parts of the invariant that speak of the files, the manifest, the   *)
(* task and the history.                                                   *)
LEMMA FilesKept ==
    ASSUME VaultInv, UNCHANGED <<level, split, files, task, history>>,
           WritesSound', GateHeld'
    PROVE  VaultInv'
<1>1. Layout' /\ Stored' /\ TaskShaped'
    BY DEF VaultInv, Layout, Stored, TaskShaped, Live, Count, files, history
<1>2. SplitSound'
    BY DEF VaultInv, SplitSound, Count, Copied, MovesTo, Route, files
<1>3. ContentAsCommitted' /\ StoredIsHeld'
    BY DEF VaultInv, ContentAsCommitted, StoredIsHeld, Visible, Route, files, history
<1>4. RootRecordsKept'
    BY DEF VaultInv, RootRecordsKept, Live, Count, files, history
<1>5. LengthExact'
    BY DEF VaultInv, LengthExact, Live, Count, Visible, Route, files, history
<1> QED
    BY <1>1, <1>2, <1>3, <1>4, <1>5 DEF VaultInv

LEMMA GateMoves ==
    ASSUME VaultInv, NEW u \in Updates, NEW stage, NEW open, Moves(u, stage, open),
           UNCHANGED <<level, split, task>>,
           open \subseteq Live, updates'[u].writes \in Transactions \cup {<< >>},
           stage \in {"fast", "commit", "slow", "commitSlow"} => u \in HoldsGate \/ GateFree
    PROVE  WritesSound' /\ GateHeld'
<1>1. WritesSound'
    BY DEF VaultInv, WritesSound, Moves, Live, Count
<1>2. GateHeld'
    <2>1. HoldsGate' = IF stage \in {"fast", "commit", "slow", "commitSlow"}
                       THEN HoldsGate \cup {u} ELSE HoldsGate \ {u}
        <3>1. PICK S : S = {"fast", "commit", "slow", "commitSlow"}
            OBVIOUS
        <3>2. In(S)' = IF stage \in S THEN In(S) \cup {u} ELSE In(S) \ {u}
            BY MovesSets
        <3> QED
            BY <3>1, <3>2 DEF HoldsGate
    <2> QED
        BY <2>1 DEF VaultInv, GateHeld, GateFree
<1> QED
    BY <1>1, <1>2

LEMMA WritesKept ==
    ASSUME UpdatesShaped, NEW u \in Updates, NEW stage, NEW open,
           \/ Go(u, stage)
           \/ updates' = [updates EXCEPT ![u].open = open]
           \/ updates' = [updates EXCEPT ![u].open = open, ![u].stage = stage]
    PROVE  updates'[u].writes = updates[u].writes
<1>0. /\ u \in DOMAIN updates
      /\ updates[u] = [stage |-> updates[u].stage, writes |-> updates[u].writes,
                       open |-> updates[u].open]
    BY DEF UpdatesShaped
<1>1. CASE Go(u, stage)
    BY <1>0, <1>1 DEF Go
<1>2. CASE updates' = [updates EXCEPT ![u].open = open]
    BY <1>0, <1>2
<1>3. CASE updates' = [updates EXCEPT ![u].open = open, ![u].stage = stage]
    <2>1. PICK r : r = [updates[u] EXCEPT !.open = open]
        OBVIOUS
    <2>2. updates'[u] = [r EXCEPT !.stage = stage]
        BY <1>0, <1>3, <2>1
    <2> QED
        BY <1>0, <2>1, <2>2
<1> QED
    BY <1>1, <1>2, <1>3

(* An update takes a step that leaves the files alone.                     *)
LEMMA UpdateMoves ==
    ASSUME VaultInv, NEW u \in Updates, NEW stage, NEW open, Moves(u, stage, open),
           UNCHANGED <<level, split, files, task, history>>,
           open \subseteq Live, updates'[u].writes \in Transactions \cup {<< >>},
           stage \in {"fast", "commit", "slow", "commitSlow"} => u \in HoldsGate \/ GateFree
    PROVE  VaultInv'
BY GateMoves, FilesKept

LEMMA VaultUpdateStep ==
    ASSUME VaultInv, UpdatesShaped, NEW u \in Updates,
           \/ EnterConcurrent(u) \/ AcquireGate(u) \/ StartCommit(u) \/ Finish(u)
           \/ WantAlone(u) \/ EnterContended(u) \/ Cancel(u)
           \/ \E k \in Keys : OpenShard(u, k)
    PROVE  VaultInv'
<1>0. /\ updates[u].open \subseteq Live
      /\ updates[u].writes \in Transactions \cup {<< >>}
      /\ updates[u].stage \in {"fast", "commit", "slow", "commitSlow"} => u \in HoldsGate
      /\ WritesSound /\ GateHeld /\ Layout
    BY DEF VaultInv, WritesSound, HoldsGate, In
<1>1. ASSUME NEW stage, Go(u, stage), UNCHANGED <<level, split, files, task, history>>,
             stage \in {"fast", "commit", "slow", "commitSlow"} => u \in HoldsGate \/ GateFree
      PROVE  VaultInv'
    <2>1. Moves(u, stage, updates[u].open)
        BY <1>1, GoMoves
    <2>2. updates'[u].writes = updates[u].writes
        BY <1>1, WritesKept
    <2> QED
        BY <1>0, <1>1, <2>1, <2>2, UpdateMoves
<1>2. ASSUME UNCHANGED updates, UNCHANGED <<level, split, files, task, history>> PROVE VaultInv'
    <2>1. WritesSound' /\ GateHeld'
        BY <1>0, <1>2 DEF WritesSound, GateHeld, HoldsGate, In, Live, Count
    <2> QED
        BY <1>2, <2>1, FilesKept
<1>3. ASSUME updates' = [updates EXCEPT ![u] = Idle],
             UNCHANGED <<level, split, files, task, history>>
      PROVE  VaultInv'
    <2>1. Moves(u, "idle", {})
        BY <1>3, IdleMoves
    <2>2. updates'[u].writes = << >>
        BY <1>3 DEF UpdatesShaped, Idle
    <2> QED
        BY <1>3, <2>1, <2>2, UpdateMoves
<1>4. CASE EnterConcurrent(u)
    BY <1>1, <1>2, <1>4 DEF EnterConcurrent
<1>5. CASE AcquireGate(u)
    BY <1>1, <1>5 DEF AcquireGate
<1>6. CASE StartCommit(u)
    BY <1>0, <1>1, <1>6 DEF StartCommit
<1>7. CASE Finish(u) \/ Cancel(u)
    BY <1>3, <1>7 DEF Finish, Cancel
<1>8. CASE WantAlone(u)
    BY <1>1, <1>8 DEF WantAlone
<1>9. CASE EnterContended(u)
    BY <1>1, <1>2, <1>9 DEF EnterContended
<1>10. ASSUME NEW k \in Keys, OpenShard(u, k) PROVE VaultInv'
    <2>1. Route(k) \in Live
        BY <1>0, RouteInside
    <2>2. /\ updates[u].stage \in {"fast", "slow"}
          /\ UNCHANGED <<level, split, files, task, history>>
        BY <1>10 DEF OpenShard
    <2>3. CASE ~OpenedByOther(u, Route(k))
        <3>1. PICK open : open = updates[u].open \cup {Route(k)}
            OBVIOUS
        <3>2. updates' = [updates EXCEPT ![u].open = open]
            BY <1>10, <2>3, <3>1 DEF OpenShard
        <3>3. Moves(u, updates[u].stage, open)
            BY <3>2, OpenMoves
        <3>4. updates'[u].writes = updates[u].writes
            BY <3>2, WritesKept
        <3> QED
            BY <1>0, <2>1, <2>2, <3>1, <3>3, <3>4, UpdateMoves
    <2>4. CASE OpenedByOther(u, Route(k))
        <3>1. updates' = [updates EXCEPT ![u].open = {}, ![u].stage = "retry"]
            BY <1>10, <2>4 DEF OpenShard
        <3>2. Moves(u, "retry", {})
            BY <3>1, BothMove
        <3>3. updates'[u].writes = updates[u].writes
            BY <3>1, WritesKept
        <3> QED
            BY <1>0, <2>2, <3>2, <3>3, UpdateMoves
    <2> QED
        BY <2>3, <2>4
<1> QED
    BY <1>4, <1>5, <1>6, <1>7, <1>8, <1>9, <1>10

(* The number of records in terms of what the commits left.                *)
LEMMA LengthOfContent ==
    ASSUME ContentAsCommitted
    PROVE  {k \in Keys : Visible(k) # None} = {k \in Keys : committed[k] # None}
BY DEF ContentAsCommitted

(* Records change under keys that a shard holds, and the length with them. *)
LEMMA LengthFollows ==
    ASSUME Layout, Stored, ContentAsCommitted, LengthExact, ContentAsCommitted',
           UNCHANGED <<level, split, damaged>>, NEW i \in Live,
           NEW added, NEW removed,
           removed \subseteq {k \in Keys : committed[k] # None},
           added \subseteq Keys, added \cap {k \in Keys : committed[k] # None} = {},
           {k \in Keys : committed'[k] # None}
               = ({k \in Keys : committed[k] # None} \ removed) \cup added,
           changes' = [changes EXCEPT ![i] = @ + (Cardinality(added) - Cardinality(removed))]
    PROVE  LengthExact'
<1> SUFFICES ASSUME ~damaged
             PROVE  Total(changes', Live) = Cardinality({k \in Keys : Visible(k)' # None})
    BY DEF LengthExact, Live, Count
<1> DEFINE before == {k \in Keys : committed[k] # None}
           after == {k \in Keys : committed'[k] # None}
<1>1. /\ IsFiniteSet(before) /\ IsFiniteSet(removed) /\ IsFiniteSet(added)
      /\ IsFiniteSet(before \ removed)
    BY VaultAssumption, FS_Subset
<1>2. /\ Cardinality(before) \in Nat /\ Cardinality(removed) \in Nat
      /\ Cardinality(added) \in Nat /\ Cardinality(before \ removed) \in Nat
    BY <1>1, FS_CardinalityType
<1>3. after = (before \ removed) \cup added /\ removed \subseteq before /\ added \cap before = {}
    OBVIOUS
<1>4. Total(changes, Live) = Cardinality(before)
    BY LengthOfContent DEF LengthExact
<1>5. {k \in Keys : Visible(k)' # None} = after
    BY DEF ContentAsCommitted
<1> HIDE DEF before, after
<1>6. Cardinality(before \ removed) = Cardinality(before) - Cardinality(removed)
    <2>1. before \cap removed = removed
        BY <1>3
    <2> QED
        BY <1>1, <2>1, FS_Difference
<1>7. Cardinality(after)
          = (Cardinality(before) - Cardinality(removed)) + Cardinality(added)
    <2>1. (before \ removed) \cap added = {}
        BY <1>3
    <2>2. Cardinality((before \ removed) \cup added)
              = Cardinality(before \ removed) + Cardinality(added) - 0
        BY <1>1, <2>1, FS_Union, FS_EmptySet
    <2> QED
        BY <1>2, <1>3, <1>6, <2>2
<1>8. PICK d \in Int : d = Cardinality(added) - Cardinality(removed)
    BY <1>2
<1>9. IsFiniteSet(Live) /\ Live \subseteq Shards
    BY LiveFinite
<1>10. /\ \A x \in Live : changes[x] \in Int
       /\ changes'[i] = changes[i] + d /\ \A x \in Live \ {i} : changes'[x] = changes[x]
    BY <1>8, <1>9 DEF Stored
<1>11. Total(changes', Live) = Total(changes, Live) + d
    <2>1. PICK S : S = Live
        OBVIOUS
    <2>2. PICK f : f = changes
        OBVIOUS
    <2>3. PICK g : g = changes'
        OBVIOUS
    <2>4. /\ IsFiniteSet(S) /\ i \in S /\ \A x \in S : f[x] \in Int
          /\ g[i] = f[i] + d /\ \A x \in S \ {i} : g[x] = f[x]
        BY <1>9, <1>10, <2>1, <2>2, <2>3
    <2>5. Total(g, S) = Total(f, S) + d
        BY ONLY <2>4, TotalChange, d \in Int
    <2> QED
        BY <2>1, <2>2, <2>3, <2>5
<1>12. Cardinality({k \in Keys : Visible(k)' # None}) = Cardinality(after)
    BY <1>5
<1>13. Cardinality(before) + d = Cardinality(after)
    BY <1>2, <1>7, <1>8
<1> QED
    BY <1>4, <1>11, <1>12, <1>13

(* A commit on one shard: under the shared gate, so that no task runs.     *)
LEMMA VaultCommit ==
    ASSUME VaultInv, UpdatesShaped, NEW u \in Updates, NEW i \in Live, CommitShard(u, i)
    PROVE  VaultInv'
<1> DEFINE w == updates[u].writes
           mine == {k \in DOMAIN w : Route(k) = i}
<1>0. /\ Layout /\ Stored /\ TaskShaped /\ SplitSound /\ ContentAsCommitted /\ StoredIsHeld
      /\ RootRecordsKept /\ LengthExact /\ updates[u].open \subseteq Live
      /\ w \in Transactions \cup {<< >>} /\ u \in HoldsGate
    BY DEF VaultInv, WritesSound, CommitShard, HoldsGate, In
<1>1. WritesSound' /\ GateHeld'
    <2>1. PICK open : open = updates[u].open \ {i}
        OBVIOUS
    <2>2. updates' = [updates EXCEPT ![u].open = open] /\ UNCHANGED <<level, split, task>>
        BY <2>1 DEF CommitShard
    <2>3. Moves(u, updates[u].stage, open)
        BY <2>2, OpenMoves
    <2>4. updates'[u].writes = updates[u].writes
        BY <2>2, WritesKept
    <2> QED
        BY <1>0, <2>1, <2>2, <2>3, <2>4, GateMoves
<1>2. CASE UNCHANGED <<records, changes, committed, held>>
    <2>1. UNCHANGED <<level, split, files, task, history>>
        BY <1>2 DEF CommitShard, files, history
    <2> QED
        BY <1>1, <2>1, FilesKept
<1>3. CASE /\ records' = [records EXCEPT ![i] =
                            [k \in Keys |-> IF k \in mine THEN w[k] ELSE records[i][k]]]
           /\ changes' = [changes EXCEPT ![i] = @ + LengthChange(records[i], w, mine)]
           /\ committed' = [k \in Keys |-> IF k \in mine THEN w[k] ELSE committed[k]]
           /\ held' = held \cup {<<k, w[k]>> : k \in {x \in mine : w[x] # None}}
    <2>1. UNCHANGED <<level, split, root, quarantine, task, damaged>>
        BY DEF CommitShard
    <2>2. mine \subseteq Keys /\ \A k \in mine : w[k] \in Values \cup {None} /\ Route(k) = i
        <3>1. CASE w \in Transactions
            BY <3>1, VaultAssumption
        <3>2. CASE w = << >>
            BY <3>2
        <3> QED
            BY <1>0, <3>1, <3>2
    <2>3. i \in Shards
        BY <1>0, LiveFinite
    <2>4. task.stage \notin {"copy", "flip", "clean"}
        BY <1>0 DEF TaskShaped, VaultInv, GateHeld
    <2> HIDE DEF w, mine
    <2>5. Layout' /\ TaskShaped' /\ SplitSound'
        BY <1>0, <2>1, <2>4 DEF Layout, TaskShaped, SplitSound, Live, Count
    <2>6. IsFiniteSet(mine)
        BY <2>2, VaultAssumption, FS_Subset
    <2> DEFINE added == {k \in mine : records[i][k] = None /\ w[k] # None}
               removed == {k \in mine : records[i][k] # None /\ w[k] = None}
    <2>7. Stored'
        <3>1. /\ Cardinality(added) \in Nat /\ Cardinality(removed) \in Nat
            <4>1. IsFiniteSet(added) /\ IsFiniteSet(removed)
                BY <2>6, FS_Subset
            <4> QED
                BY <4>1, FS_CardinalityType
        <3>2. LengthChange(records[i], w, mine) \in Int
            BY <3>1 DEF LengthChange
        <3>3. changes' \in [Shards -> Int]
            BY <1>0, <1>3, <2>3, <3>2 DEF Stored
        <3>4. records' \in [Shards -> [Keys -> Values \cup {None}]]
            BY <1>0, <1>3, <2>2, <2>3 DEF Stored
        <3>5. committed' \in [Keys -> Values \cup {None}] /\ held' \subseteq Keys \X Values
            BY <1>0, <1>3, <2>2 DEF Stored
        <3> QED
            BY <1>0, <2>1, <3>3, <3>4, <3>5 DEF Stored
    <2>8. ContentAsCommitted'
        <3> SUFFICES ASSUME NEW k \in Keys PROVE Visible(k)' = committed'[k]
            BY DEF ContentAsCommitted
        <3>1. /\ Route(k)' = Route(k) /\ Route(k) \in Shards
              /\ records[Route(k)][k] = committed[k]
            BY <1>0, <2>1, RouteInside DEF Route, ContentAsCommitted, Visible
        <3>2. Visible(k)' = records'[Route(k)][k]
            BY <3>1 DEF Visible
        <3>3. CASE k \in mine
            BY <1>0, <1>3, <2>2, <2>3, <3>2, <3>3 DEF Stored
        <3>4. CASE k \notin mine
            BY <1>0, <1>3, <2>3, <3>1, <3>2, <3>4 DEF Stored
        <3> QED
            BY <3>3, <3>4
    <2>9. StoredIsHeld'
        BY <1>0, <1>3 DEF StoredIsHeld
    <2>10. RootRecordsKept'
        BY <1>0, <1>3, <2>1 DEF RootRecordsKept, Live, Count
    <2>11. LengthExact'
        <3>1. \A k \in mine : records[i][k] = committed[k]
            BY <1>0, <2>2 DEF ContentAsCommitted, Visible
        <3>2. changes' = [changes EXCEPT ![i] = @ + (Cardinality(added) - Cardinality(removed))]
            BY <1>3 DEF LengthChange
        <3>3. /\ removed \subseteq {k \in Keys : committed[k] # None} /\ added \subseteq Keys
              /\ added \cap {k \in Keys : committed[k] # None} = {}
            BY <2>2, <3>1
        <3>4. {k \in Keys : committed'[k] # None}
                  = ({k \in Keys : committed[k] # None} \ removed) \cup added
            BY <1>3, <2>2, <3>1
        <3> HIDE DEF added, removed
        <3> QED
            BY <1>0, <2>1, <2>8, <3>2, <3>3, <3>4, LengthFollows
    <2> QED
        BY <1>1, <2>5, <2>7, <2>8, <2>9, <2>10, <2>11 DEF VaultInv
<1> QED
    BY <1>2, <1>3 DEF CommitShard

-----------------------------------------------------------------------------
(* Tasks.  The exclusive gate keeps updates out of the files.              *)

LEMMA TaskRecord ==
    ASSUME NEW a, NEW b, NEW c, NEW d, NEW t,
           t = [name |-> a, stage |-> b, todo |-> c, moved |-> d], NEW x, NEW y
    PROVE  /\ [t EXCEPT !.todo = x] = [name |-> a, stage |-> b, todo |-> x, moved |-> d]
           /\ [t EXCEPT !.moved = x] = [name |-> a, stage |-> b, todo |-> c, moved |-> x]
           /\ [t EXCEPT !.stage = y, !.todo = x]
                  = [name |-> a, stage |-> y, todo |-> x, moved |-> d]
           /\ [t EXCEPT !.stage = y, !.moved = x]
                  = [name |-> a, stage |-> y, todo |-> c, moved |-> x]
<1>1. /\ [t EXCEPT !.todo = x] = [name |-> a, stage |-> b, todo |-> x, moved |-> d]
      /\ [t EXCEPT !.moved = x] = [name |-> a, stage |-> b, todo |-> c, moved |-> x]
    OBVIOUS
<1>2. PICK s : s = [t EXCEPT !.stage = y]
    OBVIOUS
<1>3. s = [name |-> a, stage |-> y, todo |-> c, moved |-> d]
    BY <1>2
<1>4. /\ [t EXCEPT !.stage = y, !.todo = x] = [s EXCEPT !.todo = x]
      /\ [t EXCEPT !.stage = y, !.moved = x] = [s EXCEPT !.moved = x]
    BY <1>2
<1> QED
    BY <1>1, <1>3, <1>4

(* A step of a recovery, or the start or the end of a task.                *)
LEMMA StepShapes ==
    ASSUME Layout, TaskShaped, NEW i, NEW next \in {"replay", "release", "end"}, Step(i, next),
           task.name # "none", task.stage \in {"isolate", "replay", "release"}
    PROVE  /\ task' = [name |-> task'.name, stage |-> task'.stage, todo |-> task'.todo,
                       moved |-> task'.moved]
           /\ task'.name \in Tasks /\ task'.stage \in TaskStages \ {"flip", "clean"}
           /\ task'.todo \subseteq Live
           /\ task'.stage = "copy" => task'.name = "split" /\ Count < MaxShards
<1>0. task = [name |-> task.name, stage |-> task.stage, todo |-> task.todo,
              moved |-> task.moved]
    BY DEF TaskShaped
<1>1. CASE task.todo # {i}
    <2>1. task' = [task EXCEPT !.todo = task.todo \ {i}]
        BY <1>1 DEF Step
    <2>2. task' = [name |-> task.name, stage |-> task.stage, todo |-> task.todo \ {i},
                   moved |-> task.moved]
        BY <1>0, <2>1, TaskRecord
    <2> QED
        BY <2>2 DEF TaskShaped, TaskStages
<1>2. CASE task.todo = {i} /\ next # "end"
    <2>1. task' = [task EXCEPT !.stage = next, !.todo = Live]
        BY <1>2 DEF Step
    <2>2. task' = [name |-> task.name, stage |-> next, todo |-> Live, moved |-> task.moved]
        BY <1>0, <2>1, TaskRecord
    <2> QED
        BY <1>2, <2>2 DEF TaskShaped, TaskStages
<1>3. CASE task.todo = {i} /\ next = "end" /\ task.name = "split" /\ Count < MaxShards
    <2>1. task' = [task EXCEPT !.stage = "copy", !.todo = {}]
        BY <1>3 DEF Step
    <2>2. task' = [name |-> task.name, stage |-> "copy", todo |-> {}, moved |-> task.moved]
        BY <1>0, <2>1, TaskRecord
    <2> QED
        BY <1>3, <2>2 DEF TaskShaped, TaskStages
<1>4. CASE task.todo = {i} /\ next = "end" /\ ~(task.name = "split" /\ Count < MaxShards)
    <2>1. task' = NoTask
        BY <1>4 DEF Step
    <2> QED
        BY <2>1 DEF NoTask, Tasks, TaskStages
<1> QED
    BY <1>1, <1>2, <1>3, <1>4

(* What a task that stays within the layout leaves alone.                  *)
LEMMA LayoutKept ==
    ASSUME VaultInv, UNCHANGED <<level, split, updates>>,
           task'.name # "none" => HoldsGate = {}
    PROVE  Layout' /\ WritesSound' /\ GateHeld'
<1>1. Layout' /\ WritesSound'
    BY DEF VaultInv, Layout, WritesSound, Live, Count
<1>2. GateHeld'
    BY DEF GateHeld, HoldsGate, In
<1> QED
    BY <1>1, <1>2

LEMMA RecoveryKeeps ==
    ASSUME VaultInv, UNCHANGED <<level, split, updates>>,
           NEW stage \in {"isolate", "replay", "release"}, NEW i, At(stage, i),
           NEW next \in {"replay", "release", "end"}, Step(i, next)
    PROVE  Layout' /\ WritesSound' /\ GateHeld' /\ TaskShaped' /\ SplitSound'
<1>1. Layout /\ TaskShaped /\ task.name # "none" /\ task.stage = stage /\ HoldsGate = {}
    BY DEF VaultInv, At, GateHeld
<1>2. Layout' /\ WritesSound' /\ GateHeld'
    BY <1>1, LayoutKept
<1>3. TaskShaped' /\ SplitSound'
    BY <1>1, StepShapes DEF TaskShaped, SplitSound, Live, Count
<1> QED
    BY <1>2, <1>3

(* The contents do not change when no record does.                         *)
LEMMA ContentKept ==
    ASSUME VaultInv, UNCHANGED <<level, split, records, changes, committed, held, damaged>>
    PROVE  ContentAsCommitted' /\ StoredIsHeld' /\ LengthExact'
<1>1. ContentAsCommitted' /\ StoredIsHeld'
    BY DEF VaultInv, ContentAsCommitted, StoredIsHeld, Visible, Route
<1>2. LengthExact'
    BY DEF VaultInv, LengthExact, Live, Count, Visible, Route
<1> QED
    BY <1>1, <1>2

(* Nothing that the length is made of changes.                             *)
LEMMA LengthKept ==
    ASSUME Layout, LengthExact, UNCHANGED damaged, Live' = Live,
           \A k \in Keys : Visible(k)' = Visible(k),
           \A i \in Live : changes'[i] = changes[i]
    PROVE  LengthExact'
<1>1. PICK S : S = Live
    OBVIOUS
<1>2. PICK f : f = changes
    OBVIOUS
<1>3. PICK g : g = changes'
    OBVIOUS
<1>4. IsFiniteSet(S) /\ \A i \in S : f[i] = g[i]
    BY <1>1, <1>2, <1>3, LiveFinite
<1>5. Total(f, S) = Total(g, S)
    BY ONLY <1>4, TotalSame
<1>6. {k \in Keys : Visible(k)' # None} = {k \in Keys : Visible(k) # None}
    OBVIOUS
<1> QED
    BY <1>1, <1>2, <1>3, <1>5, <1>6 DEF LengthExact

LEMMA VaultIsolate ==
    ASSUME VaultInv, NEW i \in Live, Isolate(i)
    PROVE  VaultInv'
<1>0. Layout /\ Stored /\ RootRecordsKept /\ i \in Shards
    BY LiveFinite DEF VaultInv
<1>1. Layout' /\ WritesSound' /\ GateHeld' /\ TaskShaped' /\ SplitSound'
    BY RecoveryKeeps DEF Isolate
<1>2. ContentAsCommitted' /\ StoredIsHeld' /\ LengthExact'
    BY ContentKept DEF Isolate, history
<1>3. Stored'
    <2>1. /\ root' \in [Shards -> SUBSET (Keys \X Values)]
          /\ quarantine' \in [Shards -> SUBSET (Keys \X Values)]
        BY <1>0 DEF Isolate, Stored
    <2> QED
        BY <1>0, <2>1 DEF Isolate, Stored, history
<1>4. RootRecordsKept'
    <2> SUFFICES ASSUME ~damaged, NEW r \in Roots, r \notin held
                 PROVE  \E j \in Live : r \in root'[j] \cup quarantine'[j]
        BY DEF RootRecordsKept, Isolate, Live, Count, history
    <2>1. PICK j \in Live : r \in root[j] \cup quarantine[j]
        BY <1>0 DEF RootRecordsKept
    <2>2. j \in Shards
        BY <1>0, LiveFinite
    <2> QED
        BY <1>0, <2>1, <2>2 DEF Isolate, Stored
<1> QED
    BY <1>1, <1>2, <1>3, <1>4 DEF VaultInv

(* A replay stores what was quarantined under keys that have no value, and *)
(* counts exactly these.                                                   *)
LEMMA VaultReplay ==
    ASSUME VaultInv, NEW i \in Live, Replay(i)
    PROVE  VaultInv'
<1> DEFINE absent == {r[1] : r \in {q \in Quarantined(i) : records[i][q[1]] = None}}
<1>0. /\ Layout /\ Stored /\ ContentAsCommitted /\ StoredIsHeld /\ RootRecordsKept
      /\ LengthExact /\ i \in Shards
    BY LiveFinite DEF VaultInv
<1>1. Layout' /\ WritesSound' /\ GateHeld' /\ TaskShaped' /\ SplitSound'
    BY RecoveryKeeps DEF Replay
<1>2. UNCHANGED <<level, split, root, quarantine, damaged>>
    BY DEF Replay
<1>3. absent \subseteq Keys /\ \A k \in absent : Route(k) = i /\ records[i][k] = None
    <2>1. \A r \in Quarantined(i) : r[1] \in Keys /\ Route(r[1]) = i
        BY <1>0, LiveFinite DEF Quarantined, Stored
    <2> QED
        BY <2>1
<1>4. PICK choice \in [absent -> Values] :
          LET f == [k \in Keys |-> IF k \in absent THEN choice[k] ELSE records[i][k]] IN
          /\ records' = [records EXCEPT ![i] = f]
          /\ changes' = [changes EXCEPT ![i] = @ + Restored(i, f)]
          /\ committed' = [k \in Keys |-> IF k \in absent THEN f[k] ELSE committed[k]]
          /\ held' = held \cup {<<k, f[k]>> : k \in absent}
    BY DEF Replay
<1> HIDE DEF absent
<1> DEFINE f == [k \in Keys |-> IF k \in absent THEN choice[k] ELSE records[i][k]]
<1>5. /\ records' = [records EXCEPT ![i] = f]
      /\ changes' = [changes EXCEPT ![i] = @ + Restored(i, f)]
      /\ committed' = [k \in Keys |-> IF k \in absent THEN choice[k] ELSE committed[k]]
      /\ held' = held \cup {<<k, choice[k]>> : k \in absent}
    BY <1>3, <1>4
<1>6. f \in [Keys -> Values \cup {None}] /\ None \notin Values
    BY <1>0, VaultAssumption DEF Stored
<1>7. {k \in Keys : f[k] # records[i][k]} = absent
    BY <1>3, <1>6
<1>8. IsFiniteSet(absent) /\ Cardinality(absent) \in Nat
    BY <1>3, VaultAssumption, FS_Subset, FS_CardinalityType
<1>9. changes' = [changes EXCEPT ![i] = @ + Cardinality(absent)]
    BY <1>5, <1>7 DEF Restored
<1>10. Stored'
    <2>1. records' \in [Shards -> [Keys -> Values \cup {None}]]
        BY <1>0, <1>5, <1>6 DEF Stored
    <2>2. changes' \in [Shards -> Int]
        BY <1>0, <1>8, <1>9 DEF Stored
    <2>3. committed' \in [Keys -> Values \cup {None}] /\ held' \subseteq Keys \X Values
        BY <1>0, <1>3, <1>5 DEF Stored
    <2> QED
        BY <1>0, <1>2, <2>1, <2>2, <2>3 DEF Stored
<1>11. ContentAsCommitted'
    <2> SUFFICES ASSUME NEW k \in Keys PROVE Visible(k)' = committed'[k]
        BY DEF ContentAsCommitted
    <2>1. /\ Route(k)' = Route(k) /\ Route(k) \in Shards
          /\ records[Route(k)][k] = committed[k]
        BY <1>0, <1>2, RouteInside DEF Route, ContentAsCommitted, Visible
    <2>2. Visible(k)' = records'[Route(k)][k]
        BY <2>1 DEF Visible
    <2> QED
        BY <1>0, <1>3, <1>5, <2>1, <2>2 DEF Stored
<1>12. StoredIsHeld'
    BY <1>0, <1>5 DEF StoredIsHeld
<1>13. RootRecordsKept'
    BY <1>0, <1>2, <1>5 DEF RootRecordsKept, Live, Count
<1>14. LengthExact'
    <2>1. PICK none : none = {}
        OBVIOUS
    <2>2. Cardinality(none) = 0
        BY <2>1, FS_EmptySet
    <2>3. changes' = [changes EXCEPT ![i] = @ + (Cardinality(absent) - Cardinality(none))]
        <3>1. Cardinality(absent) - Cardinality(none) = Cardinality(absent)
            BY <1>8, <2>2
        <3> HIDE DEF f
        <3> QED
            BY <1>9, <3>1
    <2>4. \A k \in absent : committed[k] = None /\ committed'[k] # None
        BY <1>0, <1>3, <1>5, <1>6 DEF ContentAsCommitted, Visible
    <2>5. /\ none \subseteq {k \in Keys : committed[k] # None}
          /\ absent \cap {k \in Keys : committed[k] # None} = {}
        BY <2>1, <2>4
    <2>6. {k \in Keys : committed'[k] # None}
              = ({k \in Keys : committed[k] # None} \ none) \cup absent
        BY <1>3, <1>5, <2>1, <2>4
    <2> QED
        BY <1>0, <1>2, <1>3, <1>11, <2>3, <2>5, <2>6, LengthFollows
<1> QED
    BY <1>1, <1>10, <1>11, <1>12, <1>13, <1>14 DEF VaultInv

(* What is released has been stored under its key.                         *)
LEMMA VaultRelease ==
    ASSUME VaultInv, NEW i \in Live, Release(i)
    PROVE  VaultInv'
<1>0. /\ Layout /\ Stored /\ RootRecordsKept /\ ContentAsCommitted /\ StoredIsHeld
      /\ i \in Shards
    BY LiveFinite DEF VaultInv
<1>1. Layout' /\ WritesSound' /\ GateHeld' /\ TaskShaped' /\ SplitSound'
    BY RecoveryKeeps DEF Release
<1>2. ContentAsCommitted' /\ StoredIsHeld' /\ LengthExact'
    BY ContentKept DEF Release, history
<1>3. Stored'
    <2>1. quarantine' \in [Shards -> SUBSET (Keys \X Values)]
        BY <1>0 DEF Release, Stored
    <2> QED
        BY <1>0, <2>1 DEF Release, Stored, history
<1>4. RootRecordsKept'
    <2> SUFFICES ASSUME ~damaged, NEW r \in Roots, r \notin held
                 PROVE  \E j \in Live : r \in root[j] \cup quarantine'[j]
        BY DEF RootRecordsKept, Release, Live, Count, history
    <2>1. PICK j \in Live : r \in root[j] \cup quarantine[j]
        BY <1>0 DEF RootRecordsKept
    <2>2. j \in Shards
        BY <1>0, LiveFinite
    <2>3. r = <<r[1], r[2]>> /\ r[1] \in Keys /\ r[2] \in Values /\ None \notin Values
        BY VaultAssumption
    <2>4. Visible(r[1]) # r[2]
        BY <1>0, <2>3 DEF StoredIsHeld, ContentAsCommitted
    <2>5. r \notin Resolved(i)
        BY <2>4 DEF Resolved
    <2> QED
        BY <1>0, <2>1, <2>2, <2>5 DEF Release, Stored
<1> QED
    BY <1>1, <1>2, <1>3, <1>4 DEF VaultInv

(* The new file is not part of the layout yet: nothing shows.              *)
LEMMA VaultSplitCopy ==
    ASSUME VaultInv, SplitCopy
    PROVE  VaultInv'
<1>0. /\ Layout /\ Stored /\ TaskShaped /\ ContentAsCommitted /\ StoredIsHeld
      /\ RootRecordsKept /\ LengthExact /\ HoldsGate = {}
      /\ task.stage = "copy" /\ task.name = "split" /\ Count < MaxShards
    BY DEF VaultInv, SplitCopy, TaskShaped, SplitSound, GateHeld
<1>1. Count \in Shards /\ Count \notin Live /\ split \in Live /\ Live \subseteq Shards
    <2>1. PICK m \in Nat \ {0} : m = 2 ^ level
        BY <1>0, PowerDoubles DEF Layout
    <2>2. Count = m + split /\ split \in 0 .. m - 1 /\ MaxShards \in Nat
        BY <1>0, <2>1, VaultAssumption DEF Count, Layout
    <2> QED
        BY <1>0, <2>2, LiveFinite DEF Live, Shards
<1>2. PICK Q \in SUBSET quarantine[split] :
          /\ quarantine' = [quarantine EXCEPT ![Count] = Q]
          /\ task' = [task EXCEPT !.stage = "flip",
                         !.moved = {k \in Keys : Copied[k] # None} \cup Q]
    BY DEF SplitCopy
<1>3. /\ records' = [records EXCEPT ![Count] = Copied]
      /\ changes' = [changes EXCEPT ![Count] = 0]
      /\ root' = [root EXCEPT ![Count] = {}]
      /\ UNCHANGED <<level, split, updates, committed, held, damaged>>
    BY DEF SplitCopy, history
<1>4. /\ Count' = Count /\ Live' = Live
      /\ \A k \in Keys : Route(k)' = Route(k) /\ MovesTo(k)' = MovesTo(k)
    BY <1>3 DEF Count, Live, Route, MovesTo
<1>5. PICK moved : moved = {k \in Keys : Copied[k] # None} \cup Q
    OBVIOUS
<1>6. task' = [name |-> task.name, stage |-> "flip", todo |-> task.todo, moved |-> moved]
    <2>1. task = [name |-> task.name, stage |-> task.stage, todo |-> task.todo,
                   moved |-> task.moved]
        BY <1>0 DEF TaskShaped
    <2>2. task' = [task EXCEPT !.stage = "flip", !.moved = moved]
        BY <1>2, <1>5
    <2> QED
        BY <2>1, <2>2, TaskRecord
<1>7. Layout' /\ WritesSound' /\ GateHeld'
    BY <1>0, <1>3, LayoutKept
<1>8. TaskShaped'
    BY <1>0, <1>4, <1>6 DEF TaskShaped, Tasks, TaskStages
<1>9. Copied \in [Keys -> Values \cup {None}] /\ \A k \in Keys : Copied[k] # None => MovesTo(k)
    BY <1>0, <1>1 DEF Copied, Stored
<1>10. Copied' = Copied
    <2>1. records'[split] = records[split] /\ split' = split
        BY <1>0, <1>1, <1>3 DEF Stored
    <2> QED
        BY <1>4, <2>1 DEF Copied
<1>11. SplitSound'
    <2>1. records'[Count] = Copied /\ changes'[Count] = 0 /\ quarantine'[Count] = Q
        BY <1>0, <1>1, <1>2, <1>3 DEF Stored
    <2>2. moved \subseteq {k \in Keys : MovesTo(k)} \cup Q
        BY <1>5, <1>9
    <2> QED
        BY <1>0, <1>4, <1>6, <1>10, <2>1, <2>2 DEF SplitSound
<1>12. Stored'
    <2>1. /\ records' \in [Shards -> [Keys -> Values \cup {None}]]
          /\ changes' \in [Shards -> Int]
        BY <1>0, <1>1, <1>3, <1>9 DEF Stored
    <2>2. /\ root' \in [Shards -> SUBSET (Keys \X Values)]
          /\ quarantine' \in [Shards -> SUBSET (Keys \X Values)]
        BY <1>0, <1>1, <1>2, <1>3 DEF Stored
    <2> QED
        BY <1>0, <1>3, <2>1, <2>2 DEF Stored
<1>13. /\ \A k \in Keys : Visible(k)' = Visible(k)
       /\ \A i \in Live : /\ changes'[i] = changes[i] /\ root'[i] = root[i]
                          /\ quarantine'[i] = quarantine[i]
    <2>1. \A i \in Live : /\ records'[i] = records[i] /\ changes'[i] = changes[i]
                          /\ root'[i] = root[i] /\ quarantine'[i] = quarantine[i]
        BY <1>0, <1>1, <1>2, <1>3 DEF Stored
    <2> QED
        BY <1>0, <1>4, <2>1, RouteInside DEF Visible
<1>14. ContentAsCommitted' /\ StoredIsHeld' /\ RootRecordsKept'
    BY <1>0, <1>3, <1>4, <1>13 DEF ContentAsCommitted, StoredIsHeld, RootRecordsKept
<1>15. LengthExact'
    BY <1>0, <1>3, <1>4, <1>13, LengthKept
<1> QED
    BY <1>7, <1>8, <1>11, <1>12, <1>14, <1>15 DEF VaultInv

(* The manifest is written: what moves shows in the new shard, and was     *)
(* copied to it as the old shard has it.                                   *)
LEMMA VaultSplitFlip ==
    ASSUME VaultInv, SplitFlip
    PROVE  VaultInv'
<1>0. /\ Layout /\ Stored /\ TaskShaped /\ WritesSound /\ ContentAsCommitted /\ StoredIsHeld
      /\ RootRecordsKept /\ LengthExact /\ HoldsGate = {}
      /\ task.stage = "flip" /\ task.name = "split" /\ Count < MaxShards
      /\ records[Count] = Copied /\ changes[Count] = 0
      /\ task.moved \subseteq {k \in Keys : MovesTo(k)} \cup quarantine[Count]
    BY DEF VaultInv, SplitFlip, TaskShaped, SplitSound, GateHeld
<1>1. /\ Layout' /\ Count \in Nat /\ Count' = Count + 1 /\ Live' = Live \cup {Count}
      /\ split \in Live
      /\ \A k \in Keys : MovesTo(k) => Route(k) = split
      /\ \A k \in Keys : Route(k)' = IF MovesTo(k) THEN Count ELSE Route(k)
    BY <1>0, FlipRoutes
<1>2. UNCHANGED <<records, changes, root, quarantine, updates, committed, held, damaged>>
    BY DEF SplitFlip, files, history
<1>3. task' = [name |-> task.name, stage |-> "clean", todo |-> {split}, moved |-> task.moved]
    <2>1. task = [name |-> task.name, stage |-> task.stage, todo |-> task.todo,
                   moved |-> task.moved]
        BY <1>0 DEF TaskShaped
    <2>2. task' = [task EXCEPT !.stage = "clean", !.todo = {split}]
        BY DEF SplitFlip
    <2> QED
        BY <2>1, <2>2, TaskRecord
<1>4. WritesSound' /\ GateHeld'
    BY <1>0, <1>1, <1>2 DEF WritesSound, GateHeld, HoldsGate, In
<1>5. TaskShaped'
    BY <1>0, <1>1, <1>3 DEF TaskShaped, Tasks, TaskStages
<1>6. Count \notin Live
    BY <1>1 DEF Live
<1>7. SplitSound'
    <2>1. Count' - 1 = Count /\ split # Count
        BY <1>1, <1>6
    <2>2. task.moved \subseteq {k \in Keys : Route(k)' = Count} \cup quarantine'[Count]
        BY <1>0, <1>1, <1>2
    <2> QED
        BY <1>3, <2>1, <2>2 DEF SplitSound
<1>8. Stored'
    BY <1>0, <1>2 DEF Stored
<1>9. ASSUME NEW k \in Keys PROVE Visible(k)' = Visible(k)
    <2>1. Visible(k)' = records[Route(k)'][k]
        BY <1>2 DEF Visible
    <2>2. CASE MovesTo(k)
        <3>1. Copied[k] = records[split][k]
            BY <2>2 DEF Copied
        <3> QED
            BY <1>0, <1>1, <2>1, <2>2, <3>1 DEF Visible
    <2>3. CASE ~MovesTo(k)
        BY <1>1, <2>1, <2>3 DEF Visible
    <2> QED
        BY <2>2, <2>3
<1>10. ContentAsCommitted' /\ StoredIsHeld' /\ RootRecordsKept'
    BY <1>0, <1>1, <1>2, <1>9 DEF ContentAsCommitted, StoredIsHeld, RootRecordsKept
<1>11. LengthExact'
    <2>1. {k \in Keys : Visible(k)' # None} = {k \in Keys : Visible(k) # None}
        BY <1>9
    <2>2. PICK S : S = Live
        OBVIOUS
    <2>3. PICK f : f = changes
        OBVIOUS
    <2>4. PICK n : n = Count
        OBVIOUS
    <2>5. /\ IsFiniteSet(S) /\ n \notin S /\ \A i \in S \cup {n} : f[i] \in Int
          /\ f[n] = 0
        BY <1>0, <1>6, <2>2, <2>3, <2>4, LiveFinite DEF Stored
    <2>6. Total(f, S \cup {n}) = f[n] + Total(f, S)
        BY ONLY <2>5, TotalAdd
    <2>7. Total(f, S) \in Int
        BY ONLY <2>5, TotalInt
    <2>8. Total(f, S \cup {n}) = Total(f, S)
        BY <2>5, <2>6, <2>7
    <2> QED
        BY <1>0, <1>1, <1>2, <2>1, <2>2, <2>3, <2>4, <2>8 DEF LengthExact
<1> QED
    BY <1>1, <1>4, <1>5, <1>7, <1>8, <1>10, <1>11 DEF VaultInv

(* What is deleted from the old shard is routed to, or kept in, the new.   *)
LEMMA VaultSplitClean ==
    ASSUME VaultInv, SplitClean
    PROVE  VaultInv'
<1>0. /\ Layout /\ Stored /\ TaskShaped /\ ContentAsCommitted /\ StoredIsHeld
      /\ RootRecordsKept /\ LengthExact /\ HoldsGate = {}
      /\ task.stage = "clean" /\ task.name = "split"
      /\ \A i \in task.todo : i # Count - 1 /\ i \in Live
      /\ task.moved \subseteq {k \in Keys : Route(k) = Count - 1} \cup quarantine[Count - 1]
    BY DEF VaultInv, SplitClean, TaskShaped, SplitSound, GateHeld
<1>1. PICK i \in task.todo : \E B \in (SUBSET task.moved) \ {{}} :
          /\ records' = [records EXCEPT ![i] = [k \in Keys |-> IF k \in B THEN None ELSE @[k]]]
          /\ quarantine' = [quarantine EXCEPT ![i] = @ \ B]
          /\ task' = IF B = task.moved THEN NoTask ELSE [task EXCEPT !.moved = @ \ B]
    BY DEF SplitClean
<1>2. PICK B \in (SUBSET task.moved) \ {{}} :
          /\ records' = [records EXCEPT ![i] = [k \in Keys |-> IF k \in B THEN None ELSE @[k]]]
          /\ quarantine' = [quarantine EXCEPT ![i] = @ \ B]
          /\ task' = IF B = task.moved THEN NoTask ELSE [task EXCEPT !.moved = @ \ B]
    BY <1>1
<1>3. UNCHANGED <<level, split, changes, root, updates, committed, held, damaged>>
    BY DEF SplitClean, history
<1>4. Count' = Count /\ Live' = Live /\ \A k \in Keys : Route(k)' = Route(k)
    BY <1>3 DEF Count, Live, Route
<1>5. i \in Shards /\ i # Count - 1 /\ Count - 1 \in Live /\ Live \subseteq Shards
    <2>1. Count \in Nat \ {0}
        BY <1>0, PowerDoubles DEF Layout, Count
    <2> QED
        BY <1>0, <2>1, LiveFinite DEF Live
<1>6. /\ task' = [name |-> task'.name, stage |-> task'.stage, todo |-> task'.todo,
                  moved |-> task'.moved]
      /\ \/ task'.name = "none" /\ task'.stage = "isolate" /\ task'.todo = {}
         \/ /\ task'.name = "split" /\ task'.stage = "clean" /\ task'.todo = task.todo
            /\ task'.moved = task.moved \ B
    <2>1. CASE B = task.moved
        BY <1>2, <2>1 DEF NoTask
    <2>2. CASE B # task.moved
        <3>1. PICK moved : moved = task.moved \ B
            OBVIOUS
        <3>2. task = [name |-> task.name, stage |-> task.stage, todo |-> task.todo,
                   moved |-> task.moved]
            BY <1>0 DEF TaskShaped
        <3>3. task' = [task EXCEPT !.moved = moved]
            BY <1>2, <2>2, <3>1
        <3>4. task' = [name |-> task.name, stage |-> task.stage, todo |-> task.todo,
                       moved |-> moved]
            BY <3>2, <3>3, TaskRecord
        <3> QED
            BY <1>0, <3>1, <3>4
    <2> QED
        BY <2>1, <2>2
<1>7. Layout' /\ WritesSound' /\ GateHeld'
    BY <1>0, <1>3, LayoutKept
<1>8. TaskShaped'
    BY <1>0, <1>4, <1>6 DEF TaskShaped, Tasks, TaskStages
<1>9. quarantine'[Count - 1] = quarantine[Count - 1]
    BY <1>0, <1>2, <1>5 DEF Stored
<1>10. SplitSound'
    <2>1. task'.stage = "clean" =>
              /\ \A j \in task'.todo : j # Count - 1
              /\ task'.moved \subseteq
                     {k \in Keys : Route(k) = Count - 1} \cup quarantine[Count - 1]
        BY <1>0, <1>6
    <2>2. task'.stage \notin {"copy", "flip"}
        BY <1>6
    <2>3. {k \in Keys : Route(k)' = Count - 1} = {k \in Keys : Route(k) = Count - 1}
        BY <1>4
    <2> QED
        BY <1>4, <1>9, <2>1, <2>2, <2>3 DEF SplitSound
<1>11. Stored'
    <2>1. /\ records' \in [Shards -> [Keys -> Values \cup {None}]]
          /\ quarantine' \in [Shards -> SUBSET (Keys \X Values)]
        BY <1>0, <1>2, <1>5 DEF Stored
    <2> QED
        BY <1>0, <1>3, <2>1 DEF Stored
<1>12. ASSUME NEW k \in Keys PROVE Visible(k)' = Visible(k)
    <2>1. Route(k) \in Shards /\ Visible(k)' = records'[Route(k)][k]
        BY <1>0, <1>4, RouteInside DEF Visible
    <2>2. CASE Route(k) = i
        <3>1. k \notin B
            <4>1. k \notin quarantine[Count - 1]
                BY <1>0, <1>5, VaultAssumption DEF Stored
            <4> QED
                BY <1>0, <1>5, <2>2, <4>1
        <3> QED
            BY <1>0, <1>2, <1>5, <2>1, <2>2, <3>1 DEF Visible, Stored
    <2>3. CASE Route(k) # i
        BY <1>0, <1>2, <1>5, <2>1, <2>3 DEF Visible, Stored
    <2> QED
        BY <2>2, <2>3
<1>13. ContentAsCommitted' /\ StoredIsHeld'
    BY <1>0, <1>3, <1>12 DEF ContentAsCommitted, StoredIsHeld
<1>14. RootRecordsKept'
    <2> SUFFICES ASSUME ~damaged, NEW r \in Roots, r \notin held
                 PROVE  \E j \in Live : r \in root[j] \cup quarantine'[j]
        BY <1>3, <1>4 DEF RootRecordsKept
    <2>1. PICK j \in Live : r \in root[j] \cup quarantine[j]
        BY <1>0 DEF RootRecordsKept
    <2>2. j \in Shards
        BY <1>5, <2>1
    <2>3. CASE j = i /\ r \in B
        <3>1. r \notin Keys
            BY VaultAssumption
        <3>2. r \in quarantine[Count - 1]
            BY <1>0, <2>3, <3>1
        <3> QED
            BY <1>5, <1>9, <3>2
    <2>4. CASE ~(j = i /\ r \in B)
        BY <1>0, <1>2, <1>5, <2>1, <2>2, <2>4 DEF Stored
    <2> QED
        BY <2>3, <2>4
<1>15. LengthExact'
    BY <1>0, <1>3, <1>4, <1>12, LengthKept
<1> QED
    BY <1>7, <1>8, <1>10, <1>11, <1>13, <1>14, <1>15 DEF VaultInv

(* A task starts, or ends, or the process stops and recovers: whatever the *)
(* files are left with, they say the same.                                 *)
LEMMA TaskChanges ==
    ASSUME VaultInv, UNCHANGED <<level, split, files, history>>,
           \/ task' = NoTask
           \/ \E name \in Tasks : task' = Recovery(name),
           WritesSound', GateHeld'
    PROVE  VaultInv'
<1>1. TaskShaped' /\ SplitSound'
    <2>1. Live' = Live
        BY DEF Live, Count
    <2>2. CASE task' = NoTask
        BY <2>2 DEF TaskShaped, SplitSound, NoTask, Tasks, TaskStages
    <2>3. ASSUME NEW name \in Tasks, task' = Recovery(name) PROVE TaskShaped' /\ SplitSound'
        BY <2>1, <2>3 DEF TaskShaped, SplitSound, Recovery, TaskStages
    <2> QED
        BY <2>2, <2>3
<1>2. Layout' /\ Stored' /\ RootRecordsKept'
    BY DEF VaultInv, Layout, Stored, RootRecordsKept, Live, Count, files, history
<1>3. ContentAsCommitted' /\ StoredIsHeld' /\ LengthExact'
    BY ContentKept DEF files, history
<1> QED
    BY <1>1, <1>2, <1>3 DEF VaultInv

LEMMA VaultTask ==
    ASSUME VaultInv,
           TaskEnds \/ \E name \in {"split", "compact"} : StartTask(name)
    PROVE  VaultInv'
<1>1. CASE TaskEnds
    <2>1. task' = NoTask /\ UNCHANGED <<level, split, files, history>>
        BY <1>1 DEF TaskEnds
    <2>2. WritesSound' /\ GateHeld'
        BY <1>1, LayoutKept DEF TaskEnds, NoTask
    <2> QED
        BY <2>1, <2>2, TaskChanges
<1>2. ASSUME NEW name \in {"split", "compact"}, StartTask(name) PROVE VaultInv'
    <2>1. /\ task' = Recovery(name) /\ name \in Tasks
          /\ UNCHANGED <<level, split, files, history>>
        BY <1>2 DEF StartTask, Tasks
    <2>2. WritesSound' /\ GateHeld'
        BY <1>2, LayoutKept DEF StartTask
    <2> QED
        BY <2>1, <2>2, TaskChanges
<1> QED
    BY <1>1, <1>2

LEMMA VaultCrash ==
    ASSUME VaultInv, Crash
    PROVE  VaultInv'
<1>1. /\ task' = Recovery("open") /\ "open" \in Tasks
      /\ UNCHANGED <<level, split, files, history>> /\ updates' = [u \in Updates |-> Idle]
    BY DEF Crash, Tasks
<1>2. WritesSound' /\ GateHeld'
    BY <1>1 DEF WritesSound, GateHeld, HoldsGate, In, Idle
<1> QED
    BY <1>1, <1>2, TaskChanges

(* A damaged file takes its records with it, and those of no other shard.  *)
LEMMA VaultDamage ==
    ASSUME VaultInv, NEW i \in Live, ReplaceDamaged(i)
    PROVE  VaultInv'
<1>0. /\ Layout /\ Stored /\ ContentAsCommitted /\ StoredIsHeld /\ i \in Shards
      /\ TaskShaped /\ task.stage = "isolate" /\ task.name = "open" /\ HoldsGate = {}
    BY LiveFinite DEF VaultInv, ReplaceDamaged, Recovery, GateHeld
<1>1. /\ records' = [records EXCEPT ![i] = NoRecords]
      /\ changes' = [changes EXCEPT ![i] = 0]
      /\ root' = [root EXCEPT ![i] = {}]
      /\ quarantine' = [quarantine EXCEPT ![i] = {}]
      /\ committed' = [k \in Keys |-> IF Route(k) = i THEN None ELSE committed[k]]
      /\ UNCHANGED <<level, split, task, updates, held>>
    BY DEF ReplaceDamaged
<1>2. damaged' = TRUE
    BY DEF ReplaceDamaged
<1>3. Layout' /\ WritesSound' /\ GateHeld'
    BY <1>0, <1>1, LayoutKept
<1>4. TaskShaped' /\ SplitSound'
    BY <1>0, <1>1 DEF TaskShaped, SplitSound, Live, Count
<1>5. Stored'
    <2>1. NoRecords \in [Keys -> Values \cup {None}]
        BY DEF NoRecords
    <2>2. /\ records' \in [Shards -> [Keys -> Values \cup {None}]]
          /\ changes' \in [Shards -> Int]
        BY <1>0, <1>1, <2>1 DEF Stored
    <2>3. /\ root' \in [Shards -> SUBSET (Keys \X Values)]
          /\ quarantine' \in [Shards -> SUBSET (Keys \X Values)]
          /\ committed' \in [Keys -> Values \cup {None}] /\ held' \subseteq Keys \X Values
        BY <1>0, <1>1 DEF Stored
    <2> QED
        BY <1>2, <2>2, <2>3 DEF Stored
<1>6. ContentAsCommitted'
    <2> SUFFICES ASSUME NEW k \in Keys PROVE Visible(k)' = committed'[k]
        BY DEF ContentAsCommitted
    <2>1. /\ Route(k)' = Route(k) /\ Route(k) \in Shards
          /\ records[Route(k)][k] = committed[k]
        BY <1>0, <1>1, RouteInside DEF Route, ContentAsCommitted, Visible
    <2>2. Visible(k)' = records'[Route(k)][k]
        BY <2>1 DEF Visible
    <2> QED
        BY <1>0, <1>1, <2>1, <2>2 DEF Stored, NoRecords
<1>7. StoredIsHeld'
    BY <1>0, <1>1 DEF StoredIsHeld
<1>8. RootRecordsKept' /\ LengthExact'
    BY <1>2 DEF RootRecordsKept, LengthExact
<1> QED
    BY <1>3, <1>4, <1>5, <1>6, <1>7, <1>8 DEF VaultInv

LEMMA VaultStep == VaultInv /\ UpdatesShaped /\ [Next]_vars => VaultInv'
<1> SUFFICES ASSUME VaultInv, UpdatesShaped, [Next]_vars PROVE VaultInv'
    OBVIOUS
<1>1. ASSUME NEW u \in Updates, NEW t \in Transactions, Begin(u, t) PROVE VaultInv'
    <2>1. Moves(u, "enter", {})
        BY <1>1 DEF Begin, Moves, UpdatesShaped, Idle
    <2>2. updates'[u].writes = t /\ UNCHANGED <<level, split, files, task, history>>
        BY <1>1 DEF Begin, UpdatesShaped, Idle
    <2> QED
        BY <2>1, <2>2, UpdateMoves
<1>2. ASSUME NEW u \in Updates, UpdateStep(u) \/ Cancel(u) PROVE VaultInv'
    BY <1>2, VaultUpdateStep, VaultCommit DEF UpdateStep
<1>3. CASE TaskEnds \/ \E name \in {"split", "compact"} : StartTask(name)
    BY <1>3, VaultTask
<1>4. CASE TaskStep
    BY <1>4, VaultIsolate, VaultReplay, VaultRelease, VaultSplitCopy, VaultSplitFlip,
       VaultSplitClean DEF TaskStep
<1>5. CASE Crash
    BY <1>5, VaultCrash
<1>6. ASSUME NEW i \in Live \cap Fragile, ReplaceDamaged(i) PROVE VaultInv'
    BY <1>6, VaultDamage
<1>7. CASE UNCHANGED vars
    <2>1. UNCHANGED <<level, split, files, task, history>> /\ UNCHANGED updates
        BY <1>7 DEF vars
    <2>2. WritesSound' /\ GateHeld'
        BY <2>1 DEF VaultInv, WritesSound, GateHeld, HoldsGate, In, Live, Count
    <2> QED
        BY <2>1, <2>2, FilesKept
<1> QED
    BY <1>1, <1>2, <1>3, <1>4, <1>5, <1>6, <1>7 DEF Next

LEMMA Vault == Spec => []VaultInv
<1>1. AdmissionInv => UpdatesShaped
    BY DEF AdmissionInv
<1> QED
    BY <1>1, Admission, VaultInit, VaultStep, PTL DEF Spec

(* The state of the vault stays in its type: the layout within the limit   *)
(* of shards, open shards and the shards a task has to do within the       *)
(* layout.                                                                 *)
THEOREM VaultTypeCorrect == Spec => []TypeOK
<1>1. AdmissionInv /\ VaultInv => TypeOK
    <2> SUFFICES ASSUME AdmissionInv, VaultInv PROVE TypeOK
        OBVIOUS
    <2>1. /\ \A u \in Updates : /\ updates[u].stage \in Stages /\ updates[u].open \subseteq Live
                                /\ updates[u].writes \in Transactions \cup {<< >>}
          /\ asleep \subseteq {u \in Updates : updates[u].stage \in {"enter", "contend"}}
        BY DEF AdmissionInv, UpdatesShaped, SleepersWait, In, VaultInv, WritesSound
    <2>2. Layout /\ Stored /\ TaskShaped
        BY DEF VaultInv
    <2> QED
        BY <2>1, <2>2 DEF TypeOK, Layout, Stored, TaskShaped
<1> QED
    BY <1>1, Admission, Vault, PTL

(* A key reads as the last commit, replay or loss on its shard left it,    *)
(* whatever splits, stops half way and recoveries lie between: the layout  *)
(* never points a reader at a copy that is incomplete, stale or deleted.   *)
THEOREM ContentIsCommitted == Spec => []ContentAsCommitted
<1>1. VaultInv => ContentAsCommitted
    BY DEF VaultInv
<1> QED
    BY <1>1, Vault, PTL

(* A scan delivers a record from the shard its key routes to and from no   *)
(* other, whatever copies a split that stopped has left behind.            *)
THEOREM ScanIsExact == Spec => []ScanDeliversOnce
<1>1. VaultInv => ScanDeliversOnce
    <2> SUFFICES ASSUME VaultInv, NEW k \in Keys
                 PROVE  Cardinality({i \in Live : k \in Scanned(i)})
                            = IF committed[k] = None THEN 0 ELSE 1
        BY DEF ScanDeliversOnce
    <2>1. Route(k) \in Live /\ records[Route(k)][k] = committed[k]
        BY RouteInside DEF VaultInv, ContentAsCommitted, Visible
    <2>2. CASE committed[k] = None
        <3>1. {i \in Live : k \in Scanned(i)} = {}
            BY <2>1, <2>2 DEF Scanned
        <3> QED
            BY <2>2, <3>1, FS_EmptySet
    <2>3. CASE committed[k] # None
        <3>1. {i \in Live : k \in Scanned(i)} = {Route(k)}
            BY <2>1, <2>3 DEF Scanned
        <3> QED
            BY <2>3, <3>1, FS_Singleton
    <2> QED
        BY <2>2, <2>3
<1> QED
    BY <1>1, Vault, PTL

(* Unless a file is lost, the changes counted beside the records add up to *)
(* the number of records, over any number of splits, which leave counts    *)
(* behind, and recoveries, which may repeat.                               *)
THEOREM LengthIsExact == Spec => []LengthExact
<1>1. VaultInv => LengthExact
    BY DEF VaultInv
<1> QED
    BY <1>1, Vault, PTL

(* Unless a file is lost, a record found in a root is in a root or in      *)
(* quarantine until it has been stored under its key: splits that copy the *)
(* quarantine, and stops between isolating, replaying and releasing, lose  *)
(* none.                                                                   *)
THEOREM RootRecordsAreKept == Spec => []RootRecordsKept
<1>1. VaultInv => RootRecordsKept
    BY DEF VaultInv
<1> QED
    BY <1>1, Vault, PTL

(* What is read under a key changes only by a commit, on the key's shard,  *)
(* of an update that writes it, by the replay of a quarantined record for  *)
(* a key that had no value, or with the loss of the file: a split, a       *)
(* compaction, a stop and a recovery that follows do not show.             *)
OnlyWritesShow ==
    [][\A k \in Keys : Visible(k)' # Visible(k) =>
          \/ \E u \in Updates : k \in DOMAIN updates[u].writes /\ CommitShard(u, Route(k))
          \/ Visible(k) = None /\ Replay(Route(k))
          \/ ReplaceDamaged(Route(k))]_vars

(* Readers never see maintenance: it changes where a record is, never what *)
(* is read.                                                                *)
THEOREM MaintenanceNeverShows == Spec => OnlyWritesShow
<1>1. ASSUME VaultInv, VaultInv', Next, NEW k \in Keys, Visible(k)' # Visible(k)
      PROVE  \/ \E u \in Updates : k \in DOMAIN updates[u].writes /\ CommitShard(u, Route(k))
             \/ Visible(k) = None /\ Replay(Route(k))
             \/ ReplaceDamaged(Route(k))
    <2>1. committed'[k] # committed[k] /\ Visible(k) = records[Route(k)][k]
        BY <1>1 DEF VaultInv, ContentAsCommitted, Visible
    <2>2. committed \in [Keys -> Values \cup {None}]
        BY <1>1 DEF VaultInv, Stored
    <2>3. ASSUME NEW u \in Updates, NEW i \in Live, CommitShard(u, i)
          PROVE  k \in DOMAIN updates[u].writes /\ Route(k) = i
        BY <2>1, <2>2, <2>3 DEF CommitShard
    <2>4. ASSUME NEW i \in Live, Replay(i)
          PROVE  Route(k) = i /\ records[i][k] = None
        BY <2>1, <2>2, <2>4 DEF Replay, Quarantined
    <2>5. ASSUME NEW i \in Live, ReplaceDamaged(i) PROVE Route(k) = i
        BY <2>1, <2>2, <2>5 DEF ReplaceDamaged
    <2>6. \/ \E u \in Updates, i \in Live : CommitShard(u, i)
          \/ \E i \in Live : Replay(i)
          \/ \E i \in Live : ReplaceDamaged(i)
          \/ UNCHANGED committed
        BY <1>1 DEF Next, Begin, UpdateStep, EnterConcurrent, AcquireGate, StartCommit, Finish,
                    WantAlone, EnterContended, OpenShard, Cancel, StartTask, TaskStep, Isolate,
                    Release, SplitCopy, SplitFlip, SplitClean, TaskEnds, Crash, history
    <2> QED
        BY <2>1, <2>3, <2>4, <2>5, <2>6
<1>2. VaultInv /\ VaultInv' /\ [Next]_vars =>
          [\A k \in Keys : Visible(k)' # Visible(k) =>
              \/ \E u \in Updates : k \in DOMAIN updates[u].writes /\ CommitShard(u, Route(k))
              \/ Visible(k) = None /\ Replay(Route(k))
              \/ ReplaceDamaged(Route(k))]_vars
    BY <1>1
<1> QED
    BY <1>2, Vault, PTL DEF Spec, OnlyWritesShow
=============================================================================
