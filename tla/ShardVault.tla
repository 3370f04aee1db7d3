------------------------------ MODULE ShardVault ------------------------------
(***************************************************************************)
(* The sharded vault (yagonode/internal/shardvault): records spread by     *)
(* linear hashing over bbolt files, each with transactions of its own.     *)
(*                                                                         *)
(* An update opens a transaction on every shard it touches and commits     *)
(* them one by one; a split, a compaction and the recovery of records left *)
(* in a file's root are several transactions and file operations.  The     *)
(* process may stop between any two of them.                               *)
(*                                                                         *)
(* One collection is modelled, with the bucket of quarantined root records *)
(* and the length changes, which live beside the records they count.       *)
(* Additions and removals are kept as their difference.  A transaction's   *)
(* writes are known from its start; reads, pages and compression are left  *)
(* out.                                                                    *)
(***************************************************************************)
EXTENDS Integers, FiniteSets, FiniteSetsExt

CONSTANTS
    Keys, Values, None,
    Hash,           \* xxhash of bucket and key
    InitialLevel,   \* log2 of minShards
    MaxShards,
    Updates,        \* concurrent callers of Update
    Transactions,   \* what an update may write: functions from keys
    Roots,          \* records an earlier version may have left in a root
    Fragile         \* shards whose file may be found damaged

ASSUME VaultAssumption ==
    /\ None \notin Values
    /\ IsFiniteSet(Keys)
    /\ Keys \cap (Keys \X Values) = {}   \* a key is not a record
    /\ Hash \in [Keys -> Nat]
    /\ InitialLevel \in Nat
    /\ MaxShards \in Nat /\ MaxShards >= 2 ^ InitialLevel
    /\ \A t \in Transactions :
          DOMAIN t \subseteq Keys /\ DOMAIN t # {} /\ t \in [DOMAIN t -> Values \cup {None}]
    /\ Roots \subseteq Keys \X Values
    /\ Fragile \subseteq 0 .. MaxShards - 1

VARIABLES
    level, split,   \* the manifest, and the engine's copy of it
    records,        \* the collection's bucket in each shard file
    changes,        \* additions less removals recorded in each shard file
    root,           \* records in the structural root of each shard file
    quarantine,     \* the quarantine bucket of each shard file
    task,           \* maintenance under the exclusive gate
    updates,        \* the updates in progress
    asleep,         \* updates that wait for the admission to change
    committed,      \* history: what the commits made of each key
    held,           \* history: every record ever stored
    damaged         \* history: a shard file was replaced by an empty one

files == <<records, changes, root, quarantine>>
history == <<committed, held, damaged>>
vars == <<level, split, files, task, updates, asleep, history>>

Shards == 0 .. MaxShards - 1
Count == 2 ^ level + split
Live == 0 .. Count - 1

(* locate: shards before the split pointer are told apart by one more bit. *)
Located(h, lv, sp) ==
    LET half == h % 2 ^ lv IN IF half >= sp THEN half ELSE h % 2 ^ (lv + 1)
Route(k) == Located(Hash[k], level, split)

NoRecords == [k \in Keys |-> None]
Visible(k) == records[Route(k)][k]

(* Wrong: a scan delivers the copies that a split left behind.             *)
ScannedEverywhere(i) == {k \in Keys : records[i][k] # None}

(* advancePastForeignEntries: a scan passes over what a shard no longer    *)
(* owns.                                                                   *)
Scanned(i) == {k \in Keys : records[i][k] # None /\ Route(k) = i}

(* Stages of an update: waiting for the admission as one of many, holding  *)
(* it, holding the gate and opening shards, committing; and the same again *)
(* alone, when a shard was contended.                                      *)
Stages == {"idle", "enter", "admitted", "fast", "commit", "retry", "contend", "alone",
           "slow", "commitSlow"}
Idle == [stage |-> "idle", writes |-> << >>, open |-> {}]

Tasks == {"none", "open", "split", "compact"}
TaskStages == {"isolate", "replay", "release", "copy", "flip", "clean"}
NoTask == [name |-> "none", stage |-> "isolate", todo |-> {}, moved |-> {}]
Recovery(name) == [name |-> name, stage |-> "isolate", todo |-> Live, moved |-> {}]

TypeOK ==
    /\ level \in Nat /\ split \in 0 .. 2 ^ level - 1 /\ Count <= MaxShards
    /\ records \in [Shards -> [Keys -> Values \cup {None}]]
    /\ changes \in [Shards -> Int]
    /\ root \in [Shards -> SUBSET (Keys \X Values)]
    /\ quarantine \in [Shards -> SUBSET (Keys \X Values)]
    /\ task.name \in Tasks /\ task.stage \in TaskStages
    /\ task.todo \subseteq Live
    /\ \A u \in Updates :
          /\ updates[u].stage \in Stages
          /\ updates[u].open \subseteq Live
          /\ updates[u].writes \in Transactions \cup {<< >>}
    /\ asleep \subseteq {u \in Updates : updates[u].stage \in {"enter", "contend"}}
    /\ committed \in [Keys -> Values \cup {None}]
    /\ held \subseteq Keys \X Values
    /\ damaged \in BOOLEAN

(* A store of an earlier version may have records in the root of a file.   *)
Init ==
    /\ level = InitialLevel /\ split = 0
    /\ records = [i \in Shards |-> NoRecords]
    /\ changes = [i \in Shards |-> 0]
    /\ \E place \in [Roots -> Live] :
          /\ \A q, r \in Roots : q # r /\ q[1] = r[1] => place[q] # place[r]
          /\ root = [i \in Shards |-> {r \in Roots : place[r] = i}]
    /\ quarantine = [i \in Shards |-> {}]
    /\ task = Recovery("open")
    /\ updates = [u \in Updates |-> Idle]
    /\ asleep = {}
    /\ committed = NoRecords /\ held = {} /\ damaged = FALSE

-----------------------------------------------------------------------------
(* writeAdmission: many concurrent updates, or one contended update alone. *)

In(stages) == {u \in Updates : updates[u].stage \in stages}
Concurrent == In({"admitted", "fast", "commit"})
Contended == In({"alone", "slow", "commitSlow"})
Pending == In({"contend"})

(* The shared side of globalGate; a task holds the exclusive side.      *)
HoldsGate == In({"fast", "commit", "slow", "commitSlow"})
GateFree == task.name = "none"

Go(u, stage) == updates' = [updates EXCEPT ![u].stage = stage]
Notify == asleep' = {}

Begin(u, t) ==
    /\ updates[u].stage = "idle"
    /\ updates' = [updates EXCEPT ![u] = [Idle EXCEPT !.stage = "enter", !.writes = t]]
    /\ UNCHANGED <<level, split, files, task, asleep, history>>

(* enterConcurrent: waits while a contended update runs or wants to.       *)
EnterConcurrent(u) ==
    /\ updates[u].stage = "enter" /\ u \notin asleep
    /\ IF Contended = {} /\ Pending = {}
       THEN Go(u, "admitted") /\ UNCHANGED asleep
       ELSE asleep' = asleep \cup {u} /\ UNCHANGED updates
    /\ UNCHANGED <<level, split, files, task, history>>

AcquireGate(u) ==
    /\ updates[u].stage \in {"admitted", "alone"}
    /\ GateFree
    /\ Go(u, IF updates[u].stage = "admitted" THEN "fast" ELSE "slow")
    /\ UNCHANGED <<level, split, files, task, asleep, history>>

(* Wrong: the last concurrent update does not wake those that want to be   *)
(* alone.                                                                  *)
LeaveConcurrentQuietly(u) == UNCHANGED asleep

(* leaveConcurrent.                                                        *)
LeaveConcurrent(u) ==
    IF Concurrent = {u} /\ Pending # {} THEN Notify ELSE UNCHANGED asleep

(* shardTxn.shard: a concurrent update opens a shard only if no other one  *)
(* has it, and gives up otherwise; bbolt makes the one that is alone wait. *)
OpenedByOther(u, i) == \E x \in Updates \ {u} : i \in updates[x].open

OpenShard(u, k) ==
    /\ updates[u].stage \in {"fast", "slow"}
    /\ k \in DOMAIN updates[u].writes
    /\ Route(k) \notin updates[u].open
    /\ IF ~OpenedByOther(u, Route(k))
       THEN /\ updates' = [updates EXCEPT ![u].open = @ \cup {Route(k)}]
            /\ UNCHANGED asleep
       ELSE /\ updates[u].stage = "fast"
            /\ updates' = [updates EXCEPT ![u].open = {}, ![u].stage = "retry"]
            /\ LeaveConcurrent(u)
    /\ UNCHANGED <<level, split, files, task, history>>

StartCommit(u) ==
    /\ updates[u].stage \in {"fast", "slow"}
    /\ \A k \in DOMAIN updates[u].writes : Route(k) \in updates[u].open
    /\ Go(u, IF updates[u].stage = "fast" THEN "commit" ELSE "commitSlow")
    /\ UNCHANGED <<level, split, files, task, asleep, history>>

(* Put and Delete of some keys: the length changes only for a record that  *)
(* was not, or was, there.                                                 *)
LengthChange(before, after, keys) ==
    Cardinality({k \in keys : before[k] = None /\ after[k] # None})
        - Cardinality({k \in keys : before[k] # None /\ after[k] = None})

(* commitShardTransaction: the writes of one shard, all or none.           *)
CommitShard(u, i) ==
    LET w == updates[u].writes
        mine == {k \in DOMAIN w : Route(k) = i} IN
    /\ updates[u].stage \in {"commit", "commitSlow"}
    /\ i \in updates[u].open
    /\ updates' = [updates EXCEPT ![u].open = @ \ {i}]
    /\ \/ /\ records' = [records EXCEPT ![i] = [k \in Keys |-> IF k \in mine THEN w[k] ELSE @[k]]]
          /\ changes' = [changes EXCEPT ![i] = @ + LengthChange(records[i], w, mine)]
          /\ committed' = [k \in Keys |-> IF k \in mine THEN w[k] ELSE committed[k]]
          /\ held' = held \cup {<<k, w[k]>> : k \in {x \in mine : w[x] # None}}
       \/ UNCHANGED <<records, changes, committed, held>>
    /\ UNCHANGED <<level, split, root, quarantine, task, asleep, damaged>>

(* Update returns: the locks, the gate and the admission are given back.   *)
Finish(u) ==
    /\ updates[u].stage \in {"commit", "commitSlow"}
    /\ updates[u].open = {}
    /\ updates' = [updates EXCEPT ![u] = Idle]
    /\ IF updates[u].stage = "commit" THEN LeaveConcurrent(u) ELSE Notify
    /\ UNCHANGED <<level, split, files, task, history>>

(* enterContended: counted as pending first, admitted when alone.          *)
WantAlone(u) ==
    /\ updates[u].stage = "retry"
    /\ Go(u, "contend")
    /\ UNCHANGED <<level, split, files, task, asleep, history>>

(* Wrong: it does not wait for the concurrent updates to leave.            *)
EnterContendedEarly(u) ==
    /\ updates[u].stage = "contend" /\ u \notin asleep
    /\ IF Contended = {}
       THEN Go(u, "alone") /\ UNCHANGED asleep
       ELSE asleep' = asleep \cup {u} /\ UNCHANGED updates
    /\ UNCHANGED <<level, split, files, task, history>>

EnterContended(u) ==
    /\ updates[u].stage = "contend" /\ u \notin asleep
    /\ IF Contended = {} /\ Concurrent = {}
       THEN Go(u, "alone") /\ UNCHANGED asleep
       ELSE asleep' = asleep \cup {u} /\ UNCHANGED updates
    /\ UNCHANGED <<level, split, files, task, history>>

(* The caller's context ends while the update waits; cancelContendedWait   *)
(* wakes the others when nobody else wants to be alone.                    *)
Cancel(u) ==
    /\ updates[u].stage \in {"enter", "admitted", "retry", "contend", "alone"}
    /\ updates' = [updates EXCEPT ![u] = Idle]
    /\ CASE updates[u].stage = "admitted" -> LeaveConcurrent(u)
         [] updates[u].stage = "alone" -> Notify
         [] updates[u].stage = "contend" /\ Pending = {u} /\ Contended = {} -> Notify
         [] OTHER -> asleep' = asleep \ {u}
    /\ UNCHANGED <<level, split, files, task, history>>

-----------------------------------------------------------------------------
(* Maintenance, under the exclusive gate.                                  *)

StartTask(name) ==
    /\ task.name = "none"
    /\ HoldsGate = {}
    /\ name \in {"split", "compact"}
    /\ task' = Recovery(name)
    /\ UNCHANGED <<level, split, files, updates, asleep, history>>

(* The stage goes on with the next shard, or the next stage begins.        *)
Step(i, next) ==
    task' = IF task.todo # {i} THEN [task EXCEPT !.todo = @ \ {i}]
            ELSE IF next # "end" THEN [task EXCEPT !.stage = next, !.todo = Live]
            ELSE IF task.name = "split" /\ Count < MaxShards
            THEN [task EXCEPT !.stage = "copy", !.todo = {}]
            ELSE NoTask
At(stage, i) == task.name # "none" /\ task.stage = stage /\ task.todo # {} /\ i = Min(task.todo)

(* isolateRootRecords.                                                     *)
Isolate(i) ==
    /\ At("isolate", i)
    /\ quarantine' = [quarantine EXCEPT ![i] = @ \cup root[i]]
    /\ root' = [root EXCEPT ![i] = {}]
    /\ Step(i, "replay")
    /\ UNCHANGED <<level, split, records, changes, updates, asleep, history>>

Quarantined(i) == {r \in UNION {quarantine[j] : j \in Live} : Route(r[1]) = i}

(* Wrong: a record that is there already is counted again.                 *)
RestoredAgain(i, f) == Cardinality({k \in Keys : \E r \in Quarantined(i) : r = <<k, f[k]>>})

(* Records that replaying added to the shard.                              *)
Restored(i, f) == Cardinality({k \in Keys : f[k] # records[i][k]})

(* replayRootRecords: a quarantined record is put where its key routes to, *)
(* unless that key has a value; of two for one key, the first.             *)
Replay(i) ==
    LET absent == {r[1] : r \in {q \in Quarantined(i) : records[i][q[1]] = None}} IN
    /\ At("replay", i)
    /\ \E choice \in [absent -> Values] :
          LET f == [k \in Keys |-> IF k \in absent THEN choice[k] ELSE records[i][k]] IN
          /\ \A k \in absent : <<k, choice[k]>> \in Quarantined(i)
          /\ records' = [records EXCEPT ![i] = f]
          /\ changes' = [changes EXCEPT ![i] = @ + Restored(i, f)]
          /\ committed' = [k \in Keys |-> IF k \in absent THEN f[k] ELSE committed[k]]
          /\ held' = held \cup {<<k, f[k]>> : k \in absent}
    /\ Step(i, "release")
    /\ UNCHANGED <<level, split, root, quarantine, updates, asleep, damaged>>

(* Wrong: what conflicts with a stored record is released too.             *)
ResolvedByAny(i) == {r \in quarantine[i] : Visible(r[1]) # None}

(* resolvedRootRecords.                                                    *)
Resolved(i) == {r \in quarantine[i] : Visible(r[1]) = r[2]}

Release(i) ==
    /\ At("release", i)
    /\ quarantine' = [quarantine EXCEPT ![i] = @ \ Resolved(i)]
    /\ Step(i, "end")
    /\ UNCHANGED <<level, split, records, changes, root, updates, asleep, history>>

(* Wrong: the mask of the level that is being left.                        *)
MovesToNarrow(k) == Hash[k] % 2 ^ level = split

(* movesTo: the wider mask selects the new shard.                          *)
MovesTo(k) == Hash[k] % 2 ^ (level + 1) = Count

(* copyMovedRecords.                                                       *)
Copied == [k \in Keys |-> IF MovesTo(k) THEN records[split][k] ELSE None]

(* buildSplitShard: a new file for what moves, every bucket but the length *)
(* changes; quarantined records move by a hash of their own.               *)
SplitCopy ==
    /\ task.stage = "copy"
    /\ \E Q \in SUBSET quarantine[split] :
          /\ quarantine' = [quarantine EXCEPT ![Count] = Q]
          /\ task' = [task EXCEPT !.stage = "flip",
                         !.moved = {k \in Keys : Copied[k] # None} \cup Q]
    /\ records' = [records EXCEPT ![Count] = Copied]
    /\ changes' = [changes EXCEPT ![Count] = 0]
    /\ root' = [root EXCEPT ![Count] = {}]
    /\ UNCHANGED <<level, split, updates, asleep, history>>

(* advanceSplit and writeManifest: from here on the new shard is routed to.*)
SplitFlip ==
    /\ task.stage = "flip"
    /\ IF split + 1 >= 2 ^ level
       THEN level' = level + 1 /\ split' = 0
       ELSE split' = split + 1 /\ UNCHANGED level
    /\ task' = [task EXCEPT !.stage = "clean", !.todo = {split}]
    /\ UNCHANGED <<files, updates, asleep, history>>

(* deleteMovedRecords, in batches.                                         *)
SplitClean ==
    /\ task.stage = "clean"
    /\ \E i \in task.todo, B \in (SUBSET task.moved) \ {{}} :
          /\ records' = [records EXCEPT ![i] = [k \in Keys |-> IF k \in B THEN None ELSE @[k]]]
          /\ quarantine' = [quarantine EXCEPT ![i] = @ \ B]
          /\ task' = IF B = task.moved THEN NoTask ELSE [task EXCEPT !.moved = @ \ B]
    /\ UNCHANGED <<level, split, changes, root, updates, asleep, history>>

(* A transaction or a file operation of the task fails, or nothing moved.  *)
(* A vault that cannot be recovered does not open.                         *)
TaskEnds ==
    /\ task.name \in {"split", "compact"}
    /\ task' = NoTask
    /\ UNCHANGED <<level, split, files, updates, asleep, history>>

(* The process stops and opens the vault again.                            *)
Crash ==
    /\ task' = Recovery("open")
    /\ updates' = [u \in Updates |-> Idle]
    /\ asleep' = {}
    /\ UNCHANGED <<level, split, files, history>>

(* openOrQuarantineShard: a file that does not open is set aside.          *)
ReplaceDamaged(i) ==
    /\ task = Recovery("open")
    /\ ~damaged
    /\ records' = [records EXCEPT ![i] = NoRecords]
    /\ changes' = [changes EXCEPT ![i] = 0]
    /\ root' = [root EXCEPT ![i] = {}]
    /\ quarantine' = [quarantine EXCEPT ![i] = {}]
    /\ committed' = [k \in Keys |-> IF Route(k) = i THEN None ELSE committed[k]]
    /\ damaged' = TRUE
    /\ UNCHANGED <<level, split, task, updates, asleep, held>>

-----------------------------------------------------------------------------
UpdateStep(u) ==
    \/ EnterConcurrent(u) \/ AcquireGate(u) \/ StartCommit(u) \/ Finish(u)
    \/ WantAlone(u) \/ EnterContended(u)
    \/ \E k \in Keys : OpenShard(u, k)
    \/ \E i \in Live : CommitShard(u, i)

TaskStep ==
    \/ \E i \in Live : Isolate(i) \/ Replay(i) \/ Release(i)
    \/ SplitCopy \/ SplitFlip \/ SplitClean

Next ==
    \/ \E u \in Updates, t \in Transactions : Begin(u, t)
    \/ \E u \in Updates : UpdateStep(u) \/ Cancel(u)
    \/ \E name \in {"split", "compact"} : StartTask(name)
    \/ TaskStep \/ TaskEnds
    \/ Crash
    \/ \E i \in Live \cap Fragile : ReplaceDamaged(i)

Spec == Init /\ [][Next]_vars

-----------------------------------------------------------------------------
(* Properties.                                                             *)

(* What is read of a key is what the last commit on its shard stored,      *)
(* through splits, commits that fail or stop half way and the loss of      *)
(* another file.                                                           *)
ContentAsCommitted == \A k \in Keys : Visible(k) = committed[k]

(* A scan over all shards delivers every record once, also while copies of *)
(* moved records remain in the shard they came from.                       *)
ScanDeliversOnce ==
    \A k \in Keys :
        Cardinality({i \in Live : k \in Scanned(i)}) = IF committed[k] = None THEN 0 ELSE 1

Total(f, S) == MapThenSumSet(LAMBDA i : f[i], S)

(* The length of the collection is the number of its records: the changes  *)
(* are counted in the shard of the record, stay there when it moves, and   *)
(* are not counted twice by a recovery that is repeated.                   *)
LengthExact ==
    ~damaged =>
        Total(changes, Live) = Cardinality({k \in Keys : Visible(k) # None})

(* A record found in a root is kept until it, and no other value, has been *)
(* stored under its key.                                                   *)
RootRecordsKept ==
    ~damaged =>
        \A r \in Roots : r \in held \/ \E i \in Live : r \in root[i] \cup quarantine[i]

(* Nobody sleeps through his turn: an update that waits for the admission  *)
(* to change waits for another one that will change it when it leaves.     *)
WaitersWillBeWoken ==
    \A u \in asleep :
        IF updates[u].stage = "enter" THEN Contended \cup Pending # {}
        ELSE Contended \cup Concurrent # {}

(* An update that opens shards alone never waits for one of them while     *)
(* another update, which might wait for it, has it open.                   *)
AloneMeetsNobody ==
    \A u \in Contended : \A x \in Updates \ {u} : updates[x].open = {}

=============================================================================
