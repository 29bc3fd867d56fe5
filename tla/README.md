# 0xSCADA: TLA+ models, checks and proofs

This project models the parts of 0xSCADA whose correctness depends on the order
in which asynchronous steps happen: what is durable when, what is claimed when,
and what is retried after a failure. The TypeScript server is one process; its
concurrency is that of `async` methods which interleave at every `await`, of
timers, of injected collaborators that fail, of the process dying between two
steps, and of what it talks to: a database shared with other replicas, a chain,
several masters. Every module follows one rule: **the code between two awaits is one
action**.

## 1. Inventory

| Component | State it keeps | Operations | What is hard | What makes it correct |
|---|---|---|---|---|
| Edge store-and-forward (`server/gateway/store-and-forward.ts`, `server/atomic-file.ts`) | `localStore`, the queue file, `isConnected`, one retry timer, the promise chain `operation`, `stopped`/`initialized` | `initialize`, `store`, `runConnectivityCycle`, `synchronizeNow`, `reconcileConflict`, `shutdown` | ambiguous saves, partial acknowledgements, overlapping cycles, crash at every await, shutdown | a committed record stays durable until delivered; the file always loads; a retry is always armed; everything is delivered |
| Blueprint safe state (`server/blueprint/safe-state.ts`, `watchdog.ts`, `safety-host.ts`, `runtime-actuator.ts`, `safe-state-adapters.ts`) | run state, pending audit rows, transition chain, halt latch, miss streak, `ticking`, the audit log | ticks, `enterSafeState`, `resume`, recovery, `start` | ambiguous audit writes, half-failed recoveries, resumes queued behind entries, ticks during a resume, restarts | claim, plant and log agree at every await; a release is authorised and recorded |
| Event batcher (`server/kernel/event-batcher.ts`, routes in `server/routes/events.ts`) | the queue, one timer, a scheduled flush, flushes in flight | `ingest`, threshold/timer/manual flush, `shutdown` | overlapping flushes, failing flushes, throwing listeners | accepted events are neither lost, duplicated nor reordered, and are flushed in time |
| Merkle library (`server/integrity/merkle.ts` and the batcher's proofs) | none | build, prove, verify | odd levels, index bounds | a proof verifies exactly for its leaf |
| Alarm correlation (`server/services/alarm-correlation/`) | an engine per replica (groups, pending alarms, what is hidden); a shared journal and its projection with a watermark | ingest, acknowledge, clear, sweep, policy; pump, project, load | store calls that fail after they committed, replicas that project the same entry, loads in several statements, local fallback | an alarm is hidden only by a healthy replica and can always be shown again; a journaled alarm keeps its row; replicas agree |
| Anchor bridge and switch (`server/bridge/`) | pending events, current batch, active backend | anchor, flush, switch | failed submissions, a switch during a commit | an event is anchored by one backend; none is dropped silently |
| Integrity pipeline and relayer (`server/integrity/`, `contracts/EventAnchor.sol`) | the open window, batches being signed, the relayer's queue and retry timers, open traces; on chain `anchors` and `nextBatchId` | ingest, flush, sign, submit, retry, confirm, stop | answers lost after the send, retries of what succeeded, ids that restart at 1, ingests that overlap a window change | a confirmed trace is on chain, nothing is anchored twice, no event or request is forgotten |
| Scaling (`server/scaling/`) | upgrade plan, shard map, peers | upgrade, rollback, rebalance | failure between two nodes' steps | never below quorum, one owner per shard |
| Blueprint scheduler and tick loop (`server/blueprint/scheduler.ts`, `tick-loop.ts`) | task queues, deadlines | schedule, tick | overruns | deterministic order |
| Protocol servers (`server/protocols/`) | DNP3: class event queues, what was reported, a fragment awaiting its confirm per association, one armed SELECT | update, poll, confirm, unsolicited, select, operate, restart | late confirms, wrap-around of sequence numbers, several masters on one buffer | no event leaves before a master has it; an overflow is announced; an OPERATE runs what was selected |
| Contracts (`contracts/*.sol`) | escrow, anchors | create, claim, approve, refund | call order | money conserved |
| Governance, marketplace, twin, cache, WebSocket, analytics, code generation, client, CLI, deployment | various | - | - | see section 8 |

Interactions: gateway drivers call `storeData`, which calls `store()`;
`server/index.ts` starts the gateway runtime and the safety host; the safety
host ticks the blueprint runtime through the watchdog, which calls the
controller, which writes `blueprint_safe_state_log` through `storage.ts` and
anchors through `bridge/event-anchor.ts`; the event routes feed the batcher,
whose `batch` event goes to its listeners. `bridge/index.ts` starts the anchor
pipeline, which sends to the `EventAnchor` contract; alarm streams call the
correlation service, whose replicas meet only in the database; tag updates feed
the DNP3 outstation.

The hazards found on the way, each at its line, are listed in `PROJECT.json` under
`hazards`, with the properties that catch it going wrong or a note on what keeps a
property from catching it.

## 2. Plan

| Stage | Modules | Composes | Runs | Theorems |
|---|---|---|---|---|
| 1 (done) | `StoreAndForward` | gateway service + queue file + upstream | one for safety and liveness, shutdown | all safety invariants |
| 1 (done) | `SafeState` | controller + watchdog + host + actuator + audit log | one for safety and liveness, claims | all safety invariants |
| 1 (done) | `EventBatcher` | batcher + its callers and listeners | safety and liveness, timer | all safety invariants |
| 2 (done) | `CorrelationEngine`, `AlarmCoordination` | engine + coordinator + shared store, several replicas | safety, claims | all safety invariants |
| 2 (done) | `AnchorPipeline` | pipeline + signer + relayer + contract | safety, dropped | all safety invariants |
| 2 (done) | `Dnp3Outstation`, `Dnp3OutstationProofs` | event buffer + sessions + controls, several masters | safety, confirm | all safety invariants |
| 2 (done) | `DurableQueue` (abstract) | what `StoreAndForward` promises to its callers | in `edge_queue` | the refinement |
| 3 (done) | `EventBatcherProofs`, `AnchorPipelineProofs`, `CorrelationEngineProofs`, `AlarmCoordinationProofs` | lemmas about the engine's operations under the proofs about its replicas | | as listed above |
| 4 | `MerkleProofs`, `AnchorSwitch`, `BountyPayment`, rolling upgrade | pure tree functions against a reference; exclusive backend switch; escrow; upgrade with rollback | one each | - |

## 3. The modules and the code

### StoreAndForward

State: `mem` is `localStore` (the set of queued ids and the subset whose checksum
does not match, `bad`); `disk` is the queue file, in the same shape; `holder`,
`phase` and `waitQ` are the promise chain of `serialized()`; `batch`, `reply` and
`image` are the locals of the task inside it; `timer`, `isConnected`,
`initialized` and `stopped` are the fields of those names. `pc` says where each
call of `store()` (named by its record) and of `runConnectivityCycle()` (named by
a member of `Cycles`) stands. `upstream`, `committed` and `superseded` are what
the other side and an observer know.

| Code | Actions |
|---|---|
| `store` | `StoreCall`, `StoreRefused`, `StoreAdmitted`, `StorePersisted`, `StorePersistFailed`, `StoreProcessed`, `StoreFollowUp` |
| `runConnectivityCycle` | `CycleStart`, `CycleReachable`, `CycleUnreachable`, `CycleStopped`, and the continuations `SyncReturned`, `SyncThrew` |
| `synchronizeNow` | `SyncGranted`, `SyncForward`, `SyncDrained`, `SyncForwardFailed`, `SyncBadReply`, `SyncReplied`, `Reconcile`, `ReconcileThrew`, `SyncApply`, `SyncApplied`, `SyncFailureSaved`, `SyncPersistFailed` |
| `initialize`, `shutdown` | `Initialize`, `ShutdownCall`, `ShutdownPersist`, `ShutdownDone`, `ShutdownFailed` |
| process death | `Crash` |

A failed save leaves either file in place (`SaveFails`), because
`writeFileAtomicDurable` can reject after its rename; so does a crash in the
middle of a save. Abstracted: record contents, attempt counts, delay lengths
(only which of the two delays is armed), the merge of two configurations (its
outcome is "merged in place"), the last-writer rule (its outcome is "kept" or
"superseded"), events and logging.

### SafeState

One armed blueprint. State: the controller's `runState`, `entryAudit`,
`anchorHash`, `pendingEntry`, `pendingExit`; the actuator's `halted` and what the
outputs were last driven by (`plant`: a control tick, the declared safe action,
or unknown after a throwing publication); the watchdog's `misses`; the host's
`ticking`; the promise chain (`tail`) and the await its head is suspended at
(`phase`); the durable `log`, and its length when this process started (`boot`).
An audit row is its transition and an id; the id stands for the anchor hash, which
is unique per event and grows with its timestamp.

| Code | Actions |
|---|---|
| `tickOnce`, `runTick`, `observeTick` | `TickInBudget`, `TickOverBudget`, `TickTrips` |
| `enterSafeState` | `Call`, `EnterAgain`, `EnterHalts`, `EnterThrows`, `EntryAnchored`, `EntryRecorded`, `PendingRecordThrows` |
| `resume` | `Call`, `ResumeRefused`, `ResumeBegins`, `StaleRequestRecorded`, `RequestAnchored`, `RequestRecorded`, `ReleaseThrows`, `ExitAnchored`, `ExitRecorded`, `ExitRecordThrows`, `OutcomeAnchored`, `OutcomeWritten` |
| process restart, `start` | `Restart` |

`Settled` states one fact about the event loop: a transition that is first on the
chain starts in the microtasks after its predecessor's end, so no timer or
request is served in between. `safeAnchor` never throws, so an anchor await has
one outcome. A call with a blank operator name is an input (`nobody`).

### EventBatcher

Events are numbered in the order in which they are offered, so arrival order is
the order of the numbers. State: `queue`, `timer`, the scheduled flush
(`pendingFlush`), flushes that await `createBatch` (`flights`), what the listeners
were handed (`delivered`), and who waits for which flush. `Big` are the events
that alone reach the size threshold. An event that fails validation changes
nothing and is no step.

| Code | Actions |
|---|---|
| `ingest` | `Ingest` (with `ScheduleFlush`), `IngestDrops` |
| `flushBatch` | `RunScheduled`, `TimerFires`, `FlushSucceeds`, `CreateThrows`, `ListenerThrows` |
| `flush`, `shutdown` | `CallFlush`, `CallerResumes` |

`shutdown()` and `flush()` differ only in that `shutdown()` clears the timer
first; a timer is armed only while events are queued (part of `TypeOK`), and then
both take the queue, so one action stands for both.

### DurableQueue

The abstract specification behind `StoreAndForward`: storage may be rewritten
with any contents that keep what is owed (committed, not delivered, not
replaced); a record is promised only together with its place on storage; only
what is on storage is delivered or replaced. `ImplementsDurableQueue` reads
`stored` off the queue file and the other three variables off `committed`,
`upstream` and `superseded`.

### CorrelationEngine and AlarmCoordination

`CorrelationEngine` holds the engine of one replica as a record (`where` is
`alarmIndex`, `state` the life-cycle state of each alarm, `root` and `open` the
groups) and its synchronous operations as functions that return the new record
and what the engine's events named. `AlarmCoordination` runs several of them over
one `journal` and one `projection`.

| Code | Actions |
|---|---|
| `submit*`, `submit`, the catch blocks of the service | `Submit`, `SubmitFails` (with `FallBack`) |
| `pump`, `drain`, `applyEntry` | `Poll`, `ReadNothing`, `ReadPage`, `ReadFails`, `ProjectThenApply`, `ProjectLast`, `ProjectFails` |
| `start`, `rehydrate`, `load` | `LoadState`, `LoadGroups`, `LoadAlarms`, `LoadFails` |
| process death | `Crash` |

`pumps` is the promise chain `pumping`: its first caller drains. `changes` is the
argument of the `project()` being awaited. A failing store call may have committed
(`SubmitFails`, `ProjectFails`). Four history variables keep apart what the properties
must not blame on the journal: `fellBack` (an operation was applied outside it),
`torn` (a load mixed two watermarks), `forgotten` (a sweep dropped the alarm) and
`swept` (the groups and pending alarms a replica found at a sweep entry and which of
them it closed and dropped). A sweep may take any of them, at each replica others: the
idle time it compares is taken from the replica's clock. `DecidedAlike(n)` says that
the replicas decided the sweeps among the first `n` entries alike. Alarms are numbered
by timestamp; which alarms a rule pairs is a constant.

`HiddenIsRestorable` has two halves. That a hidden alarm is below the floor and
hangs on another member of its open group always holds. That this root is not
cleared holds for a replica that never adopted rows on which engines disagree
(`RowsAgree`). The condition is needed: a local fallback, a sweep decided differently
or a torn load can make two engines put an alarm in different
groups; each projects the rows it marked, so the projection mixes the two, and a
replica that restarts on it may find an open group whose root is cleared and hide
an alarm under it, which no clear will show again. Without the
condition TLC finds it in the run's own instance, by a torn load: the group is read
before another replica projects the clear of its root, and the alarms after it.

### AnchorPipeline

Every batch that is cut gets an entry in `batches` with the id `anchorBatch`
claims for it and the number of its process; all later state names batches by
that entry, so two batches with the same id stay apart.

| Code | Actions |
|---|---|
| `ingestEvent`, `flushCurrentBatch`, the flush timer | `Ingest`, `IngestNewWindow`, `CrossWindow`, `FlushTimer` |
| `anchorBatch`, traces | `SignDone`, `SignFails`, `Arm`, `TraceTimeout` (and `Settle` inside the relayer's actions) |
| `processQueue`, `submitToBlockchain`, `handleFailure` | `SendTx`, `Rejected`, `RpcFails`, `SignatureRejected`, `Reverted`, `Confirmed`, `RetryTimer` |
| `EventAnchor.anchor` | `Mine` |
| `stop`, the next process | `Stop`, `Stopped`, `Restart` |

A transaction is a batch and an attempt. One that was sent stays in `mempool`
whatever the relayer hears of it. Roots and signatures are left out: a signature
is good or rejected. `discarded` are the events that `initializeWindow` threw out of
the buffer. `NoEventDropped` says there are none, and fails; `Accounted` says that
only an event pushed while another ingest left its window gets there, and that no
event is in two places.

### Dnp3Outstation

| Code | Actions |
|---|---|
| `updateTag`, the 500 ms timer, `maybeSendUnsolicited` | `UpdateTag`, `UnsolicitedTimer` |
| `handleRead`, `dispatchFragments` | `Read` |
| `handleConfirm` | `Receive` (the master's confirm is processed where it is sent) |
| `handleControlRequest`, `resolveStatuses` | `Select`, `SelectExpires`, `Operate`, `DirectOperate` |
| the early returns of `handleApplicationRequest` and `handleControlRequest` | `Truncated`, `EmptyControl` |
| the other requests | `SetUnsolicited`, `RestartRequest` |
| connections | `LinkDrops`, `Connect` |

The age of an event is not kept: a class with an unreported event may or may not
be due. A fragment carries the overwritten events its overflow bit stands for
(`lost`), so that the model knows what a master has been told. An event confirmed
by a `CONFIRM` that was meant for another fragment with the same number is put in
`misread`. `LeavesOnlyConfirmed` says that no event leaves that way, and fails;
`NothingVanishes` says that it is the only way an event leaves without a master
having it.

Masters number their requests themselves: every request carries any sequence number. A
request whose objects are cut off is answered, or if it wanted no response dropped,
before anything else happens (`Truncated`), and a control function with no object that
can be decoded is answered before `resolveStatuses` (`EmptyControl`). Both leave an
armed SELECT as it is, also when the function is OPERATE, so a complete OPERATE with
the right number still runs afterwards. `docs/protocols/dnp3-outstation.md:265-266`
says that the arm "is consumed whatever the outcome"; that is so for every OPERATE
whose objects are resolved. `OperateIsSelected` says that what runs is what was last
selected, with nothing since that revokes it; refused requests are not among what
revokes it.

### Mutants

Beside some definitions stands a *mutant*: the same definition with a plausible
slip (a dropped guard, a missing reset, a wrong end of a queue). No specification
uses it. Replacing the definition by its mutant must make TLC report the property
that `PROJECT.json` names, which shows that the property can fail.

## 4. Runs

| Run | Config | Shows |
|---|---|---|
| `edge_queue` | `StoreAndForward_queue.cfg` | `NoLoss`, `NoForgottenRecord`, `DurableBeforeUse`, `RestartAcceptsQueue`, `RetryArmed`, `ImplementsDurableQueue`, `Delivered`, `StoreAnswered` hold |
| `edge_queue_shutdown` | `StoreAndForward_shutdown.cfg` | `NoLoss` fails when `shutdown()` overlaps a `store()` |
| `safe_state` | `SafeState_transitions.cfg` | `ClaimIsPhysical`, `EpisodeHoldsPlant`, `ReleaseAuthorised`, `ExitIsRecorded`, `LogInOrder`, `AuditStatusHonest`, `ResumeWorks`, `OverrunHalts`, `TransitionsSettle` hold |
| `safe_state_claims` | `SafeState_claims.cfg` | `NeverAutomatic` and `FailedApplyReported` fail (`SafeStateClaims`) |
| `batcher` | `EventBatcher_safety.cfg` | `Conserved`, `OnePlace`, `OrderedBatches`, `QueueIsTimed`, `AcceptedIsDelivered` hold |
| `batcher_timer` | `EventBatcher_timer.cfg` | `TimeTriggered` fails |
| `alarm_coordination` | `AlarmCoordination_safety.cfg` | `HidesOnlyWhenHealthy`, `HiddenIsRestorable`, `AlarmKept`, `Converged` hold |
| `alarm_claims` | `AlarmCoordination_claims.cfg` | `AlarmHasRow`, `AlarmTracked` and identical sweeps fail (`CoordinationClaims`) |
| `anchor_pipeline` | `AnchorPipeline_safety.cfg` | `ConfirmedIsAnchored`, `AnchoredOnce`, `Accounted`, `RequestHeld` hold |
| `anchor_dropped` | `AnchorPipeline_dropped.cfg` | `NoEventDropped` fails |
| `dnp3_outstation` | `Dnp3Outstation_safety.cfg` | `NothingVanishes`, `OverflowAnnounced`, `OperateIsSelected` hold |
| `dnp3_confirm` | `Dnp3Outstation_confirm.cfg` | `LeavesOnlyConfirmed` fails |

Run one with `tlc -workers 2 -config StoreAndForward_queue.cfg MCStoreAndForward`.

What the six failing runs show. Where one run is about several claims, its invariant
is their disjunction: a state that breaks it breaks every one of them.

* **Shutdown during a store** (`edge_queue_shutdown`). `store()` leaves the chain,
  `shutdown()` takes its place on it, and `store()`'s follow-up synchronization joins
  behind it because it looks only at `isConnected`. `shutdown()` saves and clears
  `localStore` while the follow-up forwards; when the forward fails, the follow-up
  saves the emptied map.
* **Restart during an episode** (`safe_state_claims`). `start()` arms every blueprint
  as `RUNNING` with a released latch and does not read the log: control resumes
  without an operator.
* **Outputs that cannot be applied on entry** (`safe_state_claims`). The exception
  leaves `enterSafeStateLocked` with the loop halted and the status `RUNNING`, so
  nothing is recorded and `resume()` is refused.
* **A failed flush** (`batcher_timer`). Its events are queued again, but the timer is
  armed only by an `ingest()` into an empty queue.
* **An alarm without a row** (`alarm_claims`). A submission whose entry was committed
  fails; the service ingests the alarm directly. When the entry is consumed,
  `beginEntry` has emptied the dirty sets and the engine answers `duplicate` without
  an event, so the watermark moves past an alarm that has no row, and a replica that
  starts later never learns of it.
* **An alarm lost by a load** (`alarm_claims`). A starting replica reads the groups,
  another one projects a correlation, then the first reads the alarms: the row of a
  pending alarm now names a group that was not read, and the restarted engine does not
  track it, although its entry lies below the adopted watermark. `AlarmKept` is both
  of these properties without what was applied outside the journal and without torn
  loads, and holds.
* **A sweep decided differently** (`alarm_claims`). The entry carries the sweep's
  clock, but what it is compared with is when each replica touched the group.
  `Converged` covers sweeps that were decided alike, and holds.
* **A dropped event** (`anchor_dropped`). Two ingests leave the same window; the first
  starts the new one and pushes its event, and the second's `initializeWindow` empties
  the buffer.
* **A misread CONFIRM** (`dnp3_confirm`). An unsolicited fragment is under way, its
  master polls (which abandons it), and the confirm of the unsolicited fragment arrives
  with the number of the poll response: `handleConfirm` looks at the number only.

### Bounds

* `edge_queue`: one telemetry and one configuration record, one cycle beside the
  follow-ups of both `store()` calls, capacity 2 and batch 2 (partial acknowledgement
  of a batch), two faults (an ambiguous save and a failed forward), one crash, one
  shutdown. Two cycles at once and queues at their capacity are left to the proofs,
  which bound neither; `WithinCapacity` is only proved.
* `safe_state`: a limit of two misses (a streak can be broken), two trips, four
  direct calls (a resume behind an entry behind a resume), three faults (a failed
  write followed by a half-failed recovery), one restart.
* `batcher`: batch size 2, hence a cap of 4, and five events, so that backpressure
  happens; one manual caller, two failing flushes (the second is what breaks order).
* `alarm_coordination`: two replicas; alarm 2 is related to 1 and to 3, and 3 is above
  the severity floor, so groups form, are joined, hide one member and spare another; a
  replica's sweep closes any of its open groups; three submissions out of the requests
  each replica may get (ingests of two alarms each, alarm 2 at both; the clear at
  both; the sweep at one, the acknowledgement and the policy change at the other); one
  failing store call and one crash, both of the same replica (the other one projects
  meanwhile); SQLite's rule that an equal watermark writes again.
* `alarm_claims`: four alarms, two of them related, and a sweep, journaled in one
  order (a constraint: the behaviour that breaks all three claims takes 25 steps), one
  failing call, one crash.
* `anchor_pipeline`, `anchor_dropped`: three events, the last two in a later window
  (two ingests can leave the same window), batches of two, two attempts, one fault,
  one restart.
* `dnp3_outstation`: two masters and two classes, both symmetric; a cap of two
  events per class and three events (overwriting), a threshold of one, fragments of
  one event (a poll of three fragments), three requests (one between a SELECT and its
  OPERATE), five events and requests together (`MaxInputs`), two fragments under way,
  one dropped link. `SeqModulus` is 2 instead of 16, so that numbers meet.
  `dnp3_confirm` needs two events and one request.

`CHECK_DEADLOCK FALSE` everywhere: all of these systems may come to rest.
The numbers of calls, faults, crashes and restarts are bounded by constants
(`MaxFaults` and so on) in the guards, and by nothing else.

### Fairness

Weak fairness only. *Awaited promises settle and continuations run*
(one condition for each `store()` call and each cycle, one for `shutdown()`;
`Transition`, `FlushSucceeds`,
`CallerResumes`, `RunScheduled`): the event loop runs every microtask, and the
collaborators settle one way or the other; a failure is allowed each time until
the bound is used up. *Timers fire* (`TimerFires`, the tick driver's
`setInterval`). *A dead gateway is started again* (`Initialize`): the supervisor
restarts the process and `server/index.ts` initializes the runtime. Nothing
assumes that clients call again. Collaborators that never settle are outside the
model; the code has no timeout for them. The modules of stage 2 state no
fairness and no liveness: what must not be forgotten is stated as a place where it
always is (`RequestHeld`, `AlarmKept`, `NothingVanishes`), and whether a database,
a chain or a master answers is not this code's to guarantee.

## 5. Proofs

The `...Proofs` modules prove, for every value of the constants, every invariant that
the passing runs check on the small instances, `WithinCapacity`, and the refinement of
`DurableQueue`. Unless a theorem says otherwise it assumes only the `ASSUME` of its
component's module.

**StoreAndForward.** `NoLoss` is not inductive: whether a save keeps a record
depends on the snapshot being saved and on who else may save. The inductive
invariant is `SafetyInv`. `LockInv`: a task is inside the chain in the phases
that belong to its kind. `CommitInv`: a committed record's `store()` has left its
save behind, so no failed save can take the record out of memory again.
`ImageInv`: a snapshot being written is still what `localStore` holds.
`DurableInv`: everything in `localStore` but the record being stored is in the
file. `ReplyInv`: what is acknowledged is upstream. `SealInv`: no checksum is
stale, in memory or in the file. `StoppedInv` and `ChainInv`: once `shutdown()`
has been called no `store()` is past its refusal and only `store()` calls are
behind shutdown's place in the chain, so nothing saves after `localStore` is
cleared. These last two hold only if callers let their `store()` calls settle
first (`~ShutdownWhileStoring`, an assumption of four theorems); the run
`edge_queue_shutdown` shows that the condition is needed. `RetryAlwaysArmed` rests
on `TimerInv` (with no cycle running, the timer is unarmed only while a `store()`
has a continuation to run that arms it) and `CapacityRespected` on `CapacityInv`
(the file and the snapshots respect the capacity too, because they come back as
`localStore`); neither needs the condition.

`QueueImplemented` proves the refinement for every instance. Most steps map to a
stutter. A step that changes the file must keep what is owed (`RewriteStep`),
which is `DurableInv` and `ImageInv` read for one step; a commit is the end of a
`store()` whose record is in the file it just saved; a delivery forwards what
`localStore` holds, which is in the file (`DeliverStep`). `QueueStep` goes through
the actions; the theorem needs `SafetyInv` and therefore its condition.

**SafeState.** `SafeStateInv` adds four parts to the properties. `PendingInv`: a
row of unknown fate is newer than every row of the log or is its last row, so a
retry lands in order. `PhaseInv`: what each await implies about status, latch and
outputs. `IdInv`: ids in the log are ordered, have been given out, and are older
than the event whose row is still to be written. `EntryInv`: an entry that is not
pending is durable. From these every safety property follows, with no assumption
but that limits and bounds are natural numbers.

**Dnp3Outstation.** `OperateSelected` proves `OperateIsSelected` from
`ControlInv`: an armed SELECT that has not expired is the last one accepted, with
nothing since that revokes it, and is well formed. `Truncated` and `EmptyControl`
keep the arm and what was selected together (`ControlsUntouched`). `SeqSuccessor` is the
arithmetic of the comparison with the number before, wrap-around included.
`EventsKept` proves `NothingVanishes`; `EventInv` adds only the shape of the class
queues, because a matching CONFIRM either answers the fragment it clears, which
its master has then received, or is counted in `misread`. `OutstationTyped` and
`LossAnnounced` rest on `OutInv`. `OverflowAnnounced` says something of a flag; the
invariant has to say what keeps the flag up: while the loss of an event is not
announced, some class that overflowed still holds an event such that every
fragment under way that reports it also carries the loss, so that no confirm
removes it without announcing the loss (`OverflowInv`).

**EventBatcher.** `TypeOK` is inductive, and so are `Conserved` and `QueueIsTimed`
given `TypeOK`. `OnePlace` counts places, so its proof goes through `Separate` (the
same, said of pairwise disjoint sequences without repetition) and `IdInv` (a flush has
an id of its own, so that a delivered batch is not still under way). For
`OrderedBatches`, `OrderInv` adds that until the first failure whatever a flush holds
is older than whatever is queued: a failed flush puts its events back in front, and
the second failure is what may break the order.

**AnchorPipeline.** The invariant `IInv` has a part for each station of an event.
`IngestInv` counts the places an event may be in, and says that an event is thrown
away only after two ingests overlapped. `LineInv` and `BatchInv`: a request is with
the signer, in the relayer's line or on its timer, in one of them only and once,
with an attempt left. `ChainInv`: the contract holds under each id below the next
one a batch that claims this id, and whatever was mined without reverting put it
there; this is what makes a late or repeated transaction harmless, and what
`ConfirmedIsAnchored` needs when ids start again at 1. `HeldInv`: an accepted
request of this process that is not settled is in the line or on its timer.

**CorrelationEngine and AlarmCoordination.** `CorrelationEngineProofs` holds the
lemmas about one engine, one per operation: it keeps the engine *exact* (an alarm
is hidden if and only if the policy, its group, its root and its severity say so),
rooted, and with live roots; what it announces *covers* what it changed; it
depends only on what is shown (`Same`: equal up to what is hidden); and applied a
second time it changes nothing. `AlarmCoordinationProofs` builds three layers on
them.

* `CoreInv`: types, positions (a replica is ahead of its own watermark by at most
  the entry it is applying, and never ahead of the journal), and for each engine
  the facts above; marked rows never name a group without a row. It gives
  `CoordinationTyped` and `HidingIsHealthy`.
* `KeepInv`: an alarm an engine tracks has a row, or its ingest is the very entry
  being applied and its row is marked and will be written, also by the retry after
  a projection that failed. This is where the dirty sets must survive a failure
  (`KeptDirty`). It gives `AlarmsKept`.
* `Agreement`: there is a history `f`, `iv`, the engines and policies that the
  journal's prefixes make of an empty engine, given for each sweep what the replicas
  recorded in `swept`, such that the projected rows are those of the prefix up to the
  watermark, every attached engine is that of its position as long as the sweeps
  before it were decided alike, and what a replica is about to write covers the step
  from the last prefix to the next. Idempotence is needed for the retried entry,
  coverage for the replica that projects rows another one already wrote. The history
  is not a variable of the model: it is a witness that every appended entry extends.
  It gives `ReplicasConverge` and, with `CoreInv`, `HiddenRestorable`.

Each preservation proof has one step per action and, under it, one per conjunct
that the action can disturb.

**Only model-checked.** The liveness properties `Delivered`, `StoreAnswered`,
`ResumeWorks`, `OverrunHalts`, `TransitionsSettle` and `AcceptedIsDelivered` (the
prover does not handle fairness and `ENABLED`), and the properties of the six failing
runs.

## 6. Assumptions about the platform

JavaScript runs to completion between awaits. `rename` is atomic, and after
`writeFileAtomicDurable` has resolved the new file survives a crash. The audit
table ignores a second row with the same anchor hash. Anchor hashes are unique
and timestamps grow. A database transaction is atomic and the store serializes
its own calls; two statements outside a transaction are two steps. Transactions of
one account are mined in nonce order, and a receipt with its confirmations is
final. A TCP connection delivers in order or drops.

## 7. Reading order

`DurableQueue.tla`, `StoreAndForward.tla`, `SafeState.tla`, `EventBatcher.tla`,
`AnchorPipeline.tla`, `CorrelationEngine.tla`, `AlarmCoordination.tla`,
`Dnp3Outstation.tla`; then the `MC` modules and configs; then the proofs, each from
its last theorems upwards (`CorrelationEngineProofs.tla` before
`AlarmCoordinationProofs.tla`).

## 8. Not modelled

* Pure conversions and validators of the modelled files: `flatten`, `unflatten`,
  the JSON checks, the bindings schema, the capability check at registration.
* Of the alarm correlation: rule and topology entries, retention, the caps and age
  limits, shelving, `stop()`, and the path of an entry that the engine cannot apply
  (`coordinator.ts:552-557`: it is skipped and the watermark moves on; the model's
  journal holds only entries that `submit()` makes). Of the integrity code:
  `resilience.ts`, `verifier.ts`, the signer's keys. Of DNP3: secure authentication,
  the restart bit, point maps and wire encodings. GOOSE and Sparkplug B.
* Everything marked stage 4 in the plan, until it is written.
* Most of the server's lines are request handlers, schemas, vendor adapters,
  reports and CRUD over the storage layer. They keep no state of their own between
  two requests, so a model of them would say nothing that their tests do not.
* Analytics (prediction, reporting, queries, geometry): numeric or text processing
  without concurrent state. Code generation and ladder rendering: text. Validator
  monitoring and vendor adapters: I/O. HTTP routing and authentication: stateless.
  Client, CLI, Kubernetes, Helm and Docker: not program logic.
