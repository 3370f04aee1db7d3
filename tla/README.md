# TLA+ specifications of YaGo

YaGo is a peer-to-peer search node with separate crawler processes. This
directory holds TLA+ models of the part of it that coordinates several
processes and survives their crashes, the TLC configurations that check them on
small instances, and TLAPS proofs for every instance. The lines each definition
stands for, the properties' mutants, the findings and the hazards are in
`PROJECT.json`.

## The system

A node (`yagonode`) stores crawl orders and documents, answers searches, and
talks to other peers. Crawlers (`yago-crawler`) open an order stream to the
node, receive orders under leases, crawl, submit what they found, and settle
each order. Crawlers are identified by a stable worker identity and, for each
process, a session identity. Calls between the two are gRPC: they may be lost,
repeated after a timeout, or arrive late; either side may stop at any time.

| Component | State | Operations | Hard because |
|---|---|---|---|
| Crawl order queue (`crawlbroker`) | durable: pending orders, leases, remembered outcomes; in memory: lease catalog | publish, claim, acknowledge, negative acknowledge, renew, sweep, reclaim, clear | lost answers, late requests of a previous session, crashes between claim and delivery, two-phase renewal |
| Worker session registry | in memory: session and stream of each worker | activate, deactivate, forget | reconnects race with the old stream's handler |
| Fetch-start schedule | in memory: next permit time, leases, rotation of waiting sessions | lease, complete, change rate, replace and deactivate sessions | reservations ahead of time, rate changes, restarts that forget reservations |
| Crawler fetch-start admission | permits in use, session gate | wait for a permit, retry | permit windows against transport delay |
| Terminal settlement (node) | durable: prepared settlements, tokens; terminal records of runs | prepare, record, complete, finalize, confirm, expire | five durable steps, each may be the last before a crash |
| Settlement outbox (crawler) | durable: settlement phases, checkpoints | stage, relay, rebind, discard | the run may be leased again while its settlement is relayed |
| Session order delivery | in memory: expected delivery, credits | claim, send, wait for confirmation | confirmation races with the end of the stream |
| Automatic discovery ownership | durable: intents, staged acknowledgments, ownership by URL in five buckets | publish, claim, settle, give back, clear, reconcile | publication and settlement hold different locks and take several transactions each |
| Control directives | durable ledger, delivery with heartbeats | pause, resume, cancel a run; settings | at-least-once delivery, restart, superseding directives |
| Ingest and crawl results | documents, observations | submit, apply | order of observations of one URL |
| Frontier and checkpoint (crawler) | durable pages of a run | append, take, delete in parts | deletion in several transactions |
| DHT exchange, peers | postings, peer roster | select, transfer, delete after transfer | deletion after a transfer whose answer was lost |
| Vaults | transactions over one file or several shards, membership filters | update, view, split, compact, recover | no atomicity across shards; maintenance beside writes |
| Search, portals, parsing, administration | – | – | data processing; not protocol |

The crawler's order consumption calls the queue (stream, acknowledgment,
negative acknowledgment, heartbeat); terminal settlement calls the queue and
the run registry; the fetch-start schedule is called by the same session's
stream handlers and by the rate setting; the queue and the settlement share the
same durable vault.

What makes the core correct: an accepted order is never lost and never worked
on under two leases; settling is idempotent for as long as its outcome is
remembered; a stale session can settle nothing; counts kept in memory agree
with the durable state; what a crawler abandons comes back; the fleet never
starts fetches faster than its rate, whatever is retried or restarted; the
final snapshot of a run reaches the node before the crawler forgets it; a URL
has one automatic order at a time and can be discovered again once it is done;
records survive splits, repeated recoveries and commits that stop half way.

## Modules

| Module | Content |
|---|---|
| `OrderQueue` | the order queue and the session registry; its properties |
| `OrderLifecycle` | what the queue promises, with no leases, sessions or crashes |
| `OrderQueueLifecycle` | the refinement mapping from the first to the second |
| `OrderQueueProofs` | proofs about `OrderQueue` |
| `OrderLifecycleProofs` | the proof that `OrderQueue` implements `OrderLifecycle` |
| `FetchStartSchedule` | the fleet fetch-start schedule; its properties |
| `FetchStartProofs` | proofs about `FetchStartSchedule` |
| `FetchStartFleet` | the crawler's admission, its streams and the changes of the rate |
| `FetchFleetProofs` | proofs about `FetchStartFleet` |
| `SessionDelivery` | the delivery of orders to one crawler over its streams |
| `SessionDeliveryProofs` | proofs about `SessionDelivery` |
| `TerminalSettlement` | the end of a run: the node's transactions and the crawler's outbox |
| `TerminalSettlementProofs` | proofs about `TerminalSettlement` |
| `AutomaticDiscovery` | the ownership of a URL by its automatic-discovery order |
| `AutomaticDiscoveryProofs` | proofs about `AutomaticDiscovery` |
| `ShardVault` | the sharded vault: updates, splits, compaction, recovery of root records |
| `ShardVaultProofs` | proofs about the contents, the scans, the lengths and the admission of `ShardVault` |
| `WordFilter` | the membership filter of a shard and its background builds |
| `MCOrderQueue`, `MCFetchStarts`, `MCTerminalSettlement`, `MCAutomaticDiscovery`, `MCShardVault` | model values and symmetry for TLC |

`OrderQueue` is the centre. `SessionDelivery`, `TerminalSettlement` and
`AutomaticDiscovery` each follow a part of an order's life that the queue takes
as one step, and keep of the queue what changes the leases they see: the first
composes the stream handler with the crawler's reader, the second the node's
settlement with the crawler's outbox and the run registry, the third publication
with settlement. `FetchStartFleet` composes the crawler's admission and the
streams with a schedule that grants or delays; when it may grant is
`FetchStartSchedule`.

Definitions whose comment starts with "Wrong:" are plausible mistakes; each one,
put in the place of the definition after it, makes TLC report the property named
in `PROJECT.json` under `mutants`.

### OrderQueue

A state is the content of the queue's buckets (`orders`, `next`, `accepted`,
`burst`, `leases`, `settlements`), what the node keeps in memory (`catalog`,
`session`, `connected`, `prioritize`, a heartbeat between its two phases in
`renewal`, a clear between two pages in `clearing`) and three history variables.
`Restart` forgets what is in memory and rebuilds the catalog as `Open` does.

An action is one transaction together with the changes to memory made under the
same lock. Two operations of the code release their lock half way and are two
actions here: the heartbeat (`HeartbeatRead`, then `HeartbeatCommit` or
`HeartbeatFail`) and clearing (`ClearBegin`, `ClearPage`s). A worker's connect,
disconnect, claim and heartbeat are serialised by the mutex of its registry
entry, which is the guard `renewal[w] = {}`. Batches of the sweeper are
sequences of single steps.

A transaction is atomic: the queue has a bbolt file of its own, whose path the
configuration always sets (`yagonode/internal/yagonode/node_crawl_config.go`).

Time is a `term` per lease (fresh, due for renewal, expired, abandoned) that
any lease advances on its own, so every relation between deadlines is reached.

Acknowledgments and negative acknowledgments are enabled for every worker,
session and lease, live or not, so late, repeated and misdirected requests are
all present; `AckAnswer` and `NakAnswer` say how each one is answered, and only
an accepted one changes the state.

Left out: the ownership records of keyed automatic discoveries and the terminal
settlement, which have modules of their own, the migration of stores of older
versions and the growth admission gate.

### FetchStartSchedule

An action is one critical section of the schedule's mutex. The dispatch loop
runs under that mutex; it is one step per iteration here, during which
`dispatchAt` holds the time read when the mutex was taken and all other
operations wait while the clock goes on. A lease request that changes nothing
(stale, outstanding, or a repeat of the last granted sequence) is not a step.

`granted` and `previous` record the windows reserved by this and by earlier
processes; `passed` records who was served while a request waited; `since` is
the generation of the last change from unlimited to a finite rate. Time is in
units of which `Second` make a second; the interval is rounded up as in the
code. Which sessions connect, and what they ask for, is left open: any session
may ask for any sequence, number of permits and allowance at any time.

`ActivateSession` is used by tests only and is not modelled. The endpoint, and
the streams that are closed when the rate drops, are in `FetchStartFleet`.

### FetchStartFleet

One crawler process, capable of fetch-start leases or not, with the handlers of
its streams. A stream's handler registers the session, activates it in the
schedule, checks the capability, serves, and on its way out ends the
registration and then the schedule's session: each is a step, because each takes
its own lock. `SetRate` changes the rate and `CloseStreams`, later, closes the
streams that cannot keep it. The crawler's admission asks for a lease
(`AcquireLease`), applies the answer, uses its permits and finishes the lease; a
call that got no answer may be handled after its repetition. The stream of a lease
or a request in the schedule, and the origin of an answer, are history: the code
knows only worker and session, which is why a record can outlive its stream. A
stopped node is not modelled here, nor the fallback to nodes without the call;
using a permit is one step with reading the gate.

### SessionDelivery

One worker. The node's handler replays leases in batches, then looks for an
order, claims, registers the confirmation it expects, sends, and waits;
`Signal` closes the channel on which it sleeps after the transaction that made
the change. The crawler's reader checks the frames, asks for the leases of a
batch to be confirmed, and delivers. A heartbeat is handled in two steps, the
renewal of the leases and the confirmation of the delivery. Faults (a broken
stream, a restart of either side, a lapsed lease, an expired grant, a failed,
late or additional heartbeat) are counted. An order is claimed once, so it is
its lease.

### TerminalSettlement

The node's handler of a terminal acknowledgment is a process: prepare, record
the snapshot, acknowledge the progress, complete run control, finalize and
answer are one transaction or one critical section each, any of them may fail,
and a call whose caller gave up goes on beside its repetition. The crawler's
row moves from `AwaitingAcknowledgment` over the deletion of the checkpoint to
`Confirming` and is erased; it may be refused, or rewritten for the session of
a restarted process. The confirmation token, an HMAC of the request, is the
request. A row limit of 64 and the number of relay workers are left out.

### AutomaticDiscovery

`store` is the content of the queue's buckets that ownership is spread over; a
transaction is an operator from stores to stores. A publication holds
`discoveryAdmission` and walks through recovery of older intents, the read-only
check, the repair, the intent, the order and the release of the intent; a clear
holds the same mutex. Claims, acknowledgments (staged, settled, completed,
released), negative acknowledgments, sweeps and adoptions hold `leaseMutation`.
So a publication interleaves with a settlement between any two transactions, and
`AdmissionFails`, `MutationFails` and `Crash` end either at any of them.
`Crash` can strike the start itself.

Initial states include stores of releases that owned a URL by the sequence of its
first order for ever. Normal orders, the lease catalog and control targets are
left out, the growth gate is a failure that may happen, and moving the expiry
index of a remembered settlement changes nothing the properties see.

### ShardVault

One collection over files that are added by linear hashing. An update is admitted
as one of many, opens shards as it needs them, and when another update has one
open gives up and waits to be alone; commits go shard by shard and may stop or
fail in between. A split copies, switches the manifest and cleans; records found
in the root of a file are moved to quarantine, put back and released, at every
start, split and compaction. `Crash` keeps the files and drops everything else,
and a file in `Fragile` may be found damaged and replaced by an empty one.

Left out: deferred fsync (the loss of commits the operating system had not
written), the quota, the read-only views and their pages, compression.

### WordFilter

One shard. A build reads the terms page by page with the gate released between
the pages, and publishes a static set beside the side set; writes note their
terms in the filter in place before they commit, and a compaction replaces the
filter. The filter is exact here: a false positive costs a seek and hides
nothing.

## Runs

| Run | Configuration | Instance | Shows |
|---|---|---|---|
| `queue` | `MCOrderQueue.cfg` | two orders (one automatic), two workers, two sessions, three leases, every limit 1 | safety of the queue |
| `recovery` | `MCOrderQueueLive.cfg` | two orders and two workers, under `FairSpec` | it implements `OrderLifecycle`; deferred and abandoned orders come back |
| `fetch_windows` | `MCFetchWindows.cfg` | one worker with two sessions, batches of two permits, rates 0, 1 and 2, two rate changes | windows, rate ceiling, quiet period |
| `fetch_rotation` | `MCFetchRotation.cfg` | two workers, two sequences each | retries, rotation, refusals |
| `fetch_fleet` | `MCFetchFleet.cfg` | two streams, three sequences, batches of two, three rates, two changes, one fault | capability fence, accepted decisions, leases keep coming on an undisturbed stream |
| `fleet_reconnect` | `MCFleetReconnect.cfg` | two streams, one fault | a reconnect that is never served again (see Findings) |
| `session_delivery` | `MCSessionDelivery.cfg` | three orders, batches of two, one fault | wake-ups, framing, every order is settled |
| `settlement` | `MCTerminalSettlement.cfg` | one order claimed twice, two snapshots, one call at a time | safety of the settlement |
| `settlement_retry` | `MCSettlementLive.cfg` | one lease with two concurrent calls, or two leases with one call, under `FairSpec` | a retry beside its original; a second snapshot that conflicts; the outbox drains |
| `automatic_discovery` | `MCAutomaticDiscovery.cfg` | two URLs, two lease identities, four orders | ownership and staged acknowledgments |
| `shard_vault` | `MCShardVault.cfg` | two keys, two updates, two shards that become four | content, scans, lengths, root records, admission |
| `word_filter` | `MCWordFilter.cfg` | three terms, pages of two | a filter that hides a stored term (see Findings) |

The properties, by the question they answer:

- `NoOrderLost`, `NoOrderDuplicated`: at-least-once delivery without two
  holders, through crashes, sweeps and clears.
- `AckRepeatsOutcome`: a retried or late acknowledgment is answered with what
  happened to the lease.
- `StaleSessionsFenced`, `ExpiredRevivedOnlyByAdoption`: a previous process of
  a crawler, or a heartbeat that read too early, changes nothing.
- `CatalogMatchesLeases`, `ReplayWithinCapacity`: counts in memory agree with
  the store and a worker never owns more than a reconnect can replay.
- `ClearRemovesExactlyTheBacklog`: clearing page by page, with publications and
  requeues in between, removes what was pending when it began and nothing else.
- `ImplementsLifecycle`: all of it together is a simple lifecycle of an order.
- `DeferredLeaseRequeued`, `AbsentWorkerReclaimed`: nothing stays behind.
- `ReservationsDisjoint`, `OpeningsSpaced`: the fleet's ceiling.
- `QuietCoversWindows`: what the quiet period after a restart is worth.
- `RetryReservesOnce`, `RotationFair`, `RefusalNamesLaterTime`: retries cost
  nothing, no session is overtaken twice by the same one, a refusal always
  names a time to come.
- `IncapableStreamsFenced`: no stream escapes a rate it cannot keep, also when
  it is being opened while the rate changes.
- `DecisionsAccepted`: lost and late answers, and reconnects, never make the node's
  decision on a lease of the crawler's stream look like a violation of the
  protocol. An answer with the lease of an earlier stream may (see Findings).
- `UndisturbedLeasesKeepComing`: nor do they stop the sequence of leases of a stream
  whose session no earlier stream's late release has removed or left its record to.
  Without the condition it is `LeasesKeepComing`, which `fleet_reconnect` violates.
- `NoWakeupLost`, `FramesAccepted`, `OrdersDelivered`: no order published while
  a handler goes to sleep is overlooked, what the node replays after any break is
  what the crawler accepts, and every published order ends settled.
- `OrderInOnePlace`: the three ways in which a settled order is given back give
  it back once.
- `SnapshotNotLost`, `RecordedBeforeDeleting`: until the node has recorded the
  snapshot of an acknowledged order, the crawler keeps the row that will deliver
  it, and its checkpoint.
- `OutboxDrains`: every row is confirmed or refused once faults stop, unless the
  node holds another final snapshot of the row's run. Then the row is sent again
  every round until that snapshot is evicted, which needs other runs.
- `OneOrderPerUrl`, `OwnershipExact`: a URL has at most one pending or leased
  order; a URL with one is answered "duplicate" and one without is not.
- `IntentsCompletable`, `AcknowledgedStaysDone`: a staged acknowledgment can
  always be completed, so the node can open, and its order is never given back.
- `ContentAsCommitted`, `ScanDeliversOnce`, `LengthExact`: a read, a scan and the
  length agree with what was committed, through splits and partial commits.
- `RootRecordsKept`: a record found in a root stays until it, and no other value,
  has been stored.
- `WaitersWillBeWoken`, `AloneMeetsNobody`: updates that contend for shards
  neither sleep for ever nor wait for each other.
- `FilterNeverHides`: violated, see Findings.

Bounds. Two workers and two sessions are what a takeover needs; a third lease
identity lets an order be claimed, given back and claimed again; limits of one
are reached at once. Lease identities are never used twice, so their number
bounds the claims. In the schedule, `MaxTime` is long enough for a lease, its
expiry, a restart and the end of its quiet period; the allowances are nothing
and more than the quiet period covers. `MaxSequence` and `MaxGeneration` bound
requests and rate changes. The proofs below need none of these bounds.

In `settlement` the record of snapshots has capacity 0, which stands for one that
other runs have filled: a confirmed snapshot may be pruned at once. Two leases
with one call reach a second run of the same order, two calls with one lease reach
the races of a retry. `settlement_retry` has both, one or the other: its constraint
`SettlementBound` lets two calls run while one lease was handed out, and with a
second lease calls come one at a time and the crawler does not restart (that is
in `settlement`). Its capacity is 1, so that a recorded snapshot stays and the
second lease of the run can conflict with it. The constraint also fixes which of
the two leases, and of the two snapshots, comes first: their names are
interchangeable, and TLC has no symmetry together with liveness. `session_delivery`
has more orders than a batch and one fault at any point (the periodic heartbeat,
which changes what the others see, is counted as one); the capacity is never
reached there, as that is `ReplayWithinCapacity`. In `fetch_fleet` the crawler
reconnects after a fault or after a change of the rate that closed its stream;
two changes and one fault let a late call of the first stream be handled on the
second, or beside its repetition. In `automatic_discovery` a lease identity is used
again once nothing names it, so two are enough for any number of claims; four
orders let a URL be published, given back, acknowledged and published again;
failures and stops are not bounded. The shards of `shard_vault` grow past the end
of a level; its keys are one that moves and one that stays.

Fairness. In the queue, `FairSpec` assumes only that the sweeper, a ticker that
runs as long as the node is open (`crawlbroker.go`, `sweepLeases`), looks at every
lease again and again, and that time passes. Nothing is assumed of crawlers, and
`AbsentWorkerReclaimed` speaks of workers that stay away. In the settlement,
faults stop at some time, and then handlers, the relay's rounds, the streams and
the sweeper go on. In the delivery, faults are bounded, and the handler, the
reader, the calls, the crawls and the relay go on: each is a goroutine that
nothing but the awaited event stops. In the fleet the same holds for handlers and
admission; that a request repeated for ever is granted in the end (strong fairness
of `LeaseGranted`) is what `RotationFair` and `RefusalNamesLaterTime` say of the
schedule.

`CHECK_DEADLOCK FALSE` is set for both settlement runs, the delivery and both
fleet runs: their bounds let the system come to rest (all orders settled, all
sequences used), which is not a deadlock.

## Proofs

`OrderQueueProofs` proves, for every set of orders, workers, sessions and lease
identities and every limit:

- `TypeCorrect`: `TypeOK`, from `TypeInv`, which adds that a connected worker
  has a registered session;
- `NothingLost` and `NothingDuplicated`, from `Conserved`: sequence numbers in
  use are below `next`, stored leases were issued, and only accepted orders are
  anywhere. Without the first, enqueueing could overwrite an order; without the
  second, a claim could replace a lease;
- `AnswersRepeatOutcome`, from `SettlementsSound`: a lease that is stored and
  has a remembered outcome is deferred and its outcome is "requeued";
- `StaleSessionsAreFenced`, inductive with `TypeInv`;
- `ExpiredStaysExpired`, an action property: it follows from `TypeInv` and the
  verification inside `HeartbeatCommit`;
- `CatalogExact` and `ReplayAlwaysFits`: the counts in memory are cardinalities
  of sets of stored leases, and a claim is counted against the registered
  session, which holds every active lease of its worker. This needs `LeaseIds`
  finite (`LeaseIdsAssumption`);
- `ClearExact`, from `ClearProgress`: while a clear runs, no pending order is
  below the place its pages have come to, since every later order gets a
  sequence past the cutoff.

`OrderLifecycleProofs` proves `QueueImplementsLifecycle`, the refinement
`Spec => ImplementsLifecycle`. By conservation an order is in one place, so its
place alone tells its abstract status and holder (`StatusExact`); every step of
the queue then moves the orders it is about by one step of the lifecycle and
leaves the others where they are. A negative acknowledgment gives the order back
although its lease is still stored, and the sweep that follows is a stutter.

`FetchStartProofs` proves, for every set of workers, sessions and rates and
every policy that `validFleetFetchStartPolicy` accepts:

- `ScheduleTypeCorrect`;
- `WindowsDisjoint` and `RateCeiling`, from `Timeline`: everything reserved
  lies before `nextPermitAt`, by an interval of its own rate and, unless an
  unlimited rate came between, of the present rate; and no opening is later
  than `lastPermitAt`. The arithmetic of one dispatch is the lemma
  `ReservationFits`;
- `QuietPeriodCovers`, from `Quiet`: no window closes more than two horizons
  and its allowance after now;
- `RetriesIdempotent`, from `Rotation`: a session waits with one request, for a
  sequence after the one it was granted last;
- `NobodyOvertakenTwice`, from `Fair`: whoever a waiting session saw pass is not
  ahead of it again, and a session that does not wait has seen nobody pass;
- `RefusalsNameLaterTimes`: a dispatch ends with requests left only when the
  next permit opens after the horizon, and then `RetryAt` is later than now.

The inductive invariants of `FetchStartProofs` were also checked with TLC on
the instance of `fetch_windows`, and `Good` and `Held` of
`AutomaticDiscoveryProofs` on that of `automatic_discovery`, and `VaultInv` of
`ShardVaultProofs` on that of `shard_vault`. So were two that no run of the
project lists: `LeaseInv` of `SessionDeliveryProofs` with three orders, a capacity
and a batch of two and two faults, and the action property `IntentsYieldWork` of
`AutomaticDiscoveryProofs` on the instance of `automatic_discovery` without its
symmetry.

`FetchFleetProofs` proves, for every number of streams, sequences, permits,
changes of the rate and faults:

- `IncapableFenced`, from `OwnHandler`: a stream that is served is the one the
  registry has, so that closing the registered stream closes them all;
- `DecisionsStayAccepted`, from `DecisionInv`: whatever the node holds, or has
  answered, for the stream and the sequence the crawler is at was asked for with
  the permits the crawler decided on. It holds for any number of reconnects. The
  sequences start again with each stream, so the invariant tells the streams
  apart: nothing is asked on a stream before the admission is reset to it, so what
  belongs to another stream belongs to an earlier one, and no number comes back.

`SessionDeliveryProofs` proves, for every number of orders, batch size, capacity
and number of faults:

- `NoWakeupIsLost`: a handler takes the channel before it looks, so whatever
  makes an order claimable after the look has signalled that channel or has
  still to do it;
- `FramesAlwaysAccepted`, from `FrameInv`. The reader's memory is a view, and
  its checks and assignments are functions of the view; the invariant says that
  reading what is in the stream, frame by frame, is accepted and leads to a view
  that expects what the handler will send next;
- `CrawlsHoldTheirLease`, from `LeaseInv`: an order is crawled only while its
  lease is live at the node and no settlement of it is staged. A lease the
  crawler has confirmed is live, and so is each lease that the answer it waits
  for would confirm and that it still tracks; an answer that comes after its
  call was given up, or after the settlement, confirms nothing. That the grant
  of the crawler ends before the lease of the node lapses is not proved: it is
  the guard of `Lapse`, as the crawler counts the time from before its call;
- `DeliveryTypeCorrect`, from these invariants and `Accounts`.

`TerminalSettlementProofs` proves, for every set of orders, crawlers, leases and
snapshots, any number of concurrent calls and any number of restarts (with at
least one session, `MaxSession` in `Nat \ {0}`):

- `OrderAlwaysInOnePlace`, from `HoldInv` (what rows, calls, runs and
  settlements say of a lease is true of it, and a settled lease is spent) and
  `RelayInv` (the relay waits with one call for a lease, whose row is there);
- `RecordedBeforeErasing`, from `RecInv`: marks, the progress of a call and the
  phase of a row say that a snapshot was delivered only when it was;
- `SnapshotNeverLost`, from these with `SessInv` (leases, rows, calls and grants
  follow the worker's session), `OpenInv` (what an open row or call says) and
  `HeldInv` (a settled order whose snapshot is not recorded is still held by
  both sides);
- `SettlementTypeCorrect`, from the types these invariants carry and those of
  the keys of the node's and the crawler's tables.

`AutomaticDiscoveryProofs` proves, for every set of URLs, lease identities and
sessions and every number of orders:

- `NeverTwoOrdersForAUrl`, `OwnershipStaysExact` and `StagedNeverConflicts`,
  each a part or a consequence of the invariant `Inv`;
- `AcknowledgedForGood`, an action property that follows from `Inv` at each
  step;
- `PublicationsNeverLost`, likewise: an intent is deleted only by the call that
  completed it, and when that call comes to the deletion there is an order or a
  lease of the URL (`IntentCompleted`: completing finds the work or enqueues it,
  and what it answers "duplicate" for is there). So no failure, clear or stop
  between the intent and the order loses an accepted publication.

`Good`, the part of `Inv` about the store, is preserved by each transaction on
its own. Its conjuncts need each other: that at most one order or lease exists
needs that work is always found under its URL (`OrdersTracked`,
`LeasesTracked`); that needs that a completed acknowledgment ends its own
ownership and no later one (`StagedSound`); and that needs that sequences are
never used twice (`Shape`). `Held` is the part about the operation that holds
`leaseMutation`, and `Kept` is what a publication, a repair or a clear must leave
alone for it: the two mutexes interleave between any two transactions. The
constants `NoUrl` and `NoSession` are no URL and no session
(`DiscoveryAssumption`). The claims use that the least of a non-empty set of
naturals is a member, from the well-foundedness of `<`.

`ShardVaultProofs` proves, for every finite set of keys, every hash of them, every
initial level and limit of shards, and any number of updates:

- `NobodySleepsForGood` and `AloneIsAlone`, from `AdmissionInv`: a contended
  update is admitted alone, shards are open only between the gate and the last
  commit, and every sleeper waits for an update that is still to leave;
- `VaultTypeCorrect`, type correctness;
- `ContentIsCommitted`, `ScanIsExact`, `LengthIsExact` and `RootRecordsAreKept`,
  parts or consequences of the invariant `VaultInv`;
- `MaintenanceNeverShows`, the action property `OnlyWritesShow`: a step changes
  what is read under a key only if it is a commit that writes the key, the replay
  of a quarantined record for a key without a value, or the loss of the file.

`VaultInv` has the properties themselves and what they need of the maintenance in
between. `SplitSound` carries a split over its stages: until the manifest is
written the new file holds a copy of exactly what will move to it and no length
changes, and afterwards only keys that now route to the new file, or records that
are in its quarantine, are deleted from the old one. `GateHeld` keeps updates from
writing to the old shard after it was copied. `WritesSound` and `TaskShaped` keep
open shards and tasks within the layout, and by `StoredIsHeld` a record that is
released, because its key reads as its value, has really been stored.

Two things about the operators come first. A key moves by a split only from the
split shard to the new one (`LocatedAfterSplit`), at the end of a level too; this
is arithmetic of remainders by `2 ^ n`, where `2 ^ (n + 1) = 2 * 2 ^ n` is itself
proved (`PowerDoubles`), by counting the subsets of a set of `n` elements, since
the provers know nothing of exponents. And `LengthExact` sums over the live
shards: that `MapThenSumSet` is an integer, does not depend on the order and
changes by what one summand changes (`TotalInt`, `TotalAnyOrder`, `TotalChange`)
is proved by taking a least counterexample of the strict subset relation on finite
sets, which is well founded; this needs no induction theorem with an operator
parameter. `VaultAssumption` says that the keys are finite and that no key is a
pair of a key and a value (a deletion list holds both).

Model-checked and not proved: liveness (`DeferredLeaseRequeued`,
`AbsentWorkerReclaimed`, `OutboxDrains`, `OrdersDelivered`,
`UndisturbedLeasesKeepComing`), since fairness and ENABLED are outside of what
this proof system handles. Every other property of a passing run is a theorem.
`FilterNeverHides` and `LeasesKeepComing` are violated.

## Findings

- `word_filter`, a code bug. A compaction between the last page of a filter build
  and its publication drops the side set, and the build publishes a filter without
  the terms committed after their page was read
  (`word_filter_maintenance.go:199`). ADR 0039 says a committed key is never
  absent from both sets. Searches skip the shard for these terms until the next
  build is published.
- `fleet_reconnect`, a code bug. The handler of a broken stream ends its
  registration by generation and then the fetch-start session by identity
  (`order_stream_endpoint.go:67`). When the crawler's new stream is activated in
  between, its session is removed from the schedule: the crawler is connected,
  receives orders, and is refused every lease until its stream breaks again. The
  same late release may also let the new stream's first sequence meet the record
  of the old one: the crawler is answered with a lease it did not ask for on this
  stream, and if that has more permits than it asked for now, `applyDecision` makes
  the fetch fail. `DecisionsAccepted` speaks of leases of the crawler's own stream.

Worth knowing: not a contradiction of what a document promises, or one that a test
confirms, or one of wording only:

- ADR 0017 (line 34) calls the operations idempotent for 24 hours. A negative
  acknowledgment repeated after the sweep is refused
  (`negative_acknowledgment_mutation.go:67`);
  `TestExpiredDeferredLeaseRejectsStaleSettlement` asserts it. Line 139 says a
  lease stays authoritative until its worker settles it; it is reclaimed eight
  lifetimes past its deadline, on purpose.
- `QuietCoversWindows` is limited to windows whose delivery allowance is at most
  the quiet period less two horizons. With the constants in the code (one second,
  250 ms) this is 500 ms, while allowances up to one second are accepted. A window
  with a larger allowance may still be open when a restarted node grants its first
  permit.
- Settlement: a run with a completed checkpoint is requeued only when the write
  that completed it reported a failure and yet reached the disk. A second
  snapshot of such a run conflicts with the recorded one and is retried until
  the first is evicted (`Contested`, the exception in `OutboxDrains`); and a row
  of the first run that is still deleting removes the new checkpoint, which has
  the same provenance.
- Vault: the comment in `split.go` says stale copies are reclaimed "by cleanup or a
  later compaction", but a compaction copies them and the cleanup is not repeated;
  they are never delivered (`ScanDeliversOnce`). The replacement of a damaged file
  also loses the length changes of records that had moved away from it, hence
  `~damaged` in `LengthExact`. `writeManifest` does not call fsync. A record that
  stays in quarantine because of a conflict is put back once its key is deleted.
- Delivery: a confirmation that is handled late may confirm the redelivery of the
  same lease on the next stream before it is read; nothing stalls.
- Fleet: `configuration.md:668` says that enabling or reducing a finite ceiling
  closes the streams "before new-rate permits are issued", and
  `specification.md:501` before one is used. `setFleetPagesPerSecond`
  (`fleet_fetch_start_control.go:20`) changes the schedule's rate first, which
  serves the sessions that wait, and closes the streams afterwards: a permit of
  the new rate may be issued, and used, on a stream about to be closed. The
  ceiling does not depend on it: the new windows are laid after all that were
  reserved, whoever holds them (`ReservationsDisjoint`, `OpeningsSpaced`, over
  changes of the rate at any moment).
- Discovery: when the release of an intent fails, the order it announced may be
  crawled, and the next publication completes the intent and enqueues the URL once
  more. A lease of an older release that a publication tracks between its staging
  and its settlement leaves an ownership without work, which the next publication
  removes; hence the case of `keys` in `OwnershipExact`. A staged acknowledgment
  whose lease is gone waits for a retry, an adoption or a start; the sweep does not
  see it.

## Plan

In this order; each module gets its properties, a run and, where it carries a
durable invariant, proofs.

1. `ControlDirectives`: the ledger and its acknowledgments; property: a run
   ends in the state of the last directive.
2. `FrontierCheckpoint`: the durable pages of a run and their deletion in several
   transactions; property: a resumed run visits every page that was not done.
3. `DhtExchange`: selection, transfer and deletion of postings; property: a
   posting is deleted only when a peer has it.
4. `OrderPriority`: the selection alone over long runs, for starvation.

Each comes with its proofs, in the module that holds those of the component it
belongs to.

## Not modelled

Parsing, fetching, ranking, user interfaces and wire formats transform data and
keep no protocol state; generated code and dictionaries are most of the
repository's lines. Crawl scheduling produces orders, which the queue accepts at
any time. The peer roster, the document store and the crawl pacing keep state of
their own and are candidates for later modules.
