--------------------------- MODULE StoreAndForward ---------------------------
(***************************************************************************)
(* The edge gateway's durable store-and-forward queue:                     *)
(* StoreAndForwardService of server/gateway/store-and-forward.ts over its  *)
(* JSON queue file (writeFileAtomicDurable of server/atomic-file.ts) and   *)
(* an injected upstream transport.                                         *)
(*                                                                         *)
(* The service is one JavaScript object whose async methods interleave at  *)
(* every await.  A call of store() is a task named by the record it        *)
(* stores; a call of runConnectivityCycle() is a task named by one of      *)
(* Cycles.  The code between two awaits is one action.  serialized() is a  *)
(* FIFO promise chain: holder is the task inside its critical section,     *)
(* waitQ the tasks behind it.                                              *)
(*                                                                         *)
(* Abstracted: a record's contents (only whether its checksum matches      *)
(* them is kept), attempt counts, the length of a delay (only which of the *)
(* two delays is armed), events, logging and the status getters.           *)
(***************************************************************************)
EXTENDS Naturals, Sequences, FiniteSets

CONSTANTS
  Records,             \* the records callers pass to store(), one call each
  Kind,                \* what each holds: telemetry or configuration
  Cycles,              \* names for concurrent runConnectivityCycle() calls
  MaxLocalStorage,     \* config.maxLocalStorage
  BatchSize,           \* config.forwardBatchSize
  MaxFaults,           \* bound: failures of disk, transport and reporter
  MaxCrashes,          \* bound: process deaths
  MaxShutdowns,        \* bound: calls of shutdown()
  ShutdownWhileStoring \* may shutdown() be called with store() calls pending

Tasks == Records \cup Cycles
Down == "shutdown"     \* shutdown()'s place in the promise chain
None == "none"

ASSUME TasksAssumption ==
  /\ IsFiniteSet(Records) /\ Records \cap Cycles = {}
  /\ Down \notin Tasks /\ None \notin Tasks
ASSUME ConfigAssumption ==
  /\ Kind \in [Records -> {"telemetry", "configuration"}]
  /\ MaxLocalStorage \in Nat \ {0} /\ BatchSize \in Nat \ {0}
  /\ MaxFaults \in Nat /\ MaxCrashes \in Nat /\ MaxShutdowns \in Nat
  /\ ShutdownWhileStoring \in BOOLEAN

VARIABLES
  mem,          \* localStore: queued ids, and those whose checksum is stale
  disk,         \* the queue file, same shape
  arrived,      \* position in localStore's insertion order; 0: never inserted
  pc,           \* where each task stands
  holder,       \* the task inside serialized(), or None
  phase,        \* where the holder stands
  waitQ,        \* the tasks waiting on the promise chain, oldest first
  batch,        \* the records the holder is forwarding
  reply,        \* what upstream answered about them
  image,        \* the snapshot the holder is saving
  pcDown,       \* where shutdown() stands
  downImage,    \* the snapshot shutdown() is saving
  timer,        \* the delay the retry timer is armed with
  isConnected, initialized, stopped,   \* the fields of these names
  upstream,     \* records the upstream has accepted
  committed,    \* history: records whose store() persisted them
  superseded,   \* history: records a newer remote value replaced
  faults, crashes, shutdowns           \* how much of each bound is used

queueVars == <<mem, disk, arrived>>
lockVars  == <<holder, phase, waitQ>>
syncVars  == <<batch, reply, image>>
downVars  == <<pcDown, downImage, stopped, initialized, shutdowns>>
linkVars  == <<timer, isConnected>>
worldVars == <<upstream, committed, superseded>>
vars == <<queueVars, pc, lockVars, syncVars, downVars, linkVars, worldVars,
          faults, crashes>>

Image   == [ids : SUBSET Records, bad : SUBSET Records]
Empty   == [ids |-> {}, bad |-> {}]
NoReply == [acked |-> {}, conflicts |-> {}, todo |-> {}]

(***************************************************************************)
(* Records in a localStore image.                                          *)
(***************************************************************************)
Insert(m, r)  == [ids |-> m.ids \cup {r}, bad |-> m.bad \ {r}]
Delete(m, S)  == [ids |-> m.ids \ S, bad |-> m.bad \ S]

\* A field that the checksum covers is written: attempts, or merged contents.
Mutate(m, S)  == [ids |-> m.ids, bad |-> m.bad \cup (S \cap m.ids)]
\* record.checksum = recordChecksum(record)
Reseal(m, S)  == [ids |-> m.ids, bad |-> m.bad \ S]
\* Mutant: attempts grows and the checksum is not recomputed.
TouchUnsealed(m, S) == Mutate(m, S)
Touch(m, S)   == Reseal(Mutate(m, S), S)
\* The first BatchSize records in insertion order.
NextBatch(m)  == {r \in m.ids :
                    Cardinality({s \in m.ids : arrived[s] < arrived[r]})
                      < BatchSize}

Init ==
  /\ mem = Empty /\ disk = Empty
  /\ arrived = [r \in Records |-> 0]
  /\ pc = [t \in Tasks |-> IF t \in Records THEN "new" ELSE "idle"]
  /\ holder = None /\ phase = None /\ waitQ = <<>>
  /\ batch = {} /\ reply = NoReply /\ image = Empty
  /\ pcDown = "idle" /\ downImage = Empty
  /\ timer = None /\ isConnected = FALSE
  /\ initialized = FALSE /\ stopped = TRUE
  /\ upstream = {} /\ committed = {} /\ superseded = {}
  /\ faults = 0 /\ crashes = 0 /\ shutdowns = 0

(***************************************************************************)
(* Shared pieces.                                                          *)
(***************************************************************************)
Fault   == faults < MaxFaults /\ faults' = faults + 1
NoFault == faults' = faults

Goto(t, l)  == pc' = [pc EXCEPT ![t] = l]
\* serialized(): join the promise chain, take its head, resolve it.
Enqueue(t)  == waitQ' = Append(waitQ, t)
Granted(t)  == holder = None /\ waitQ # <<>> /\ Head(waitQ) = t
Acquire(t)  == holder' = t /\ waitQ' = Tail(waitQ)
Release     == holder' = None /\ phase' = None /\ waitQ' = waitQ
\* The locals of a finished critical section.
ClearLocals == batch' = {} /\ reply' = NoReply /\ image' = Empty
\* Mutant: the delay is lost on the way to setTimeout and the retry spins.
ScheduleNow(d) == timer' = IF stopped THEN timer ELSE "immediately"
\* schedule(delay): replaces the armed timer, unless shutting down.
Schedule(d) == timer' = IF stopped THEN timer ELSE d

\* persist(): snapshot localStore, then write it behind an await.
Persist(m, l) == mem' = m /\ image' = m /\ phase' = l

\* The write settles.  It fails before the rename, or after it when the
\* directory fsync fails: then the new file is in place and save() rejects.
SaveOk(img)    == disk' = img /\ NoFault
SaveFails(img) == disk' \in {disk, img} /\ Fault

(***************************************************************************)
(* store()                                                                 *)
(***************************************************************************)
StoreCall(r) ==
  /\ pc[r] = "new"
  /\ \/ initialized /\ Goto(r, "storing") /\ Enqueue(r)
     \/ ~initialized /\ Goto(r, "rejected") /\ UNCHANGED waitQ
  /\ UNCHANGED <<queueVars, holder, phase, syncVars, downVars, linkVars,
                 worldVars, faults, crashes>>

\* Inside the chain: shutting down, or at capacity.
Refused == stopped \/ Cardinality(mem.ids) >= MaxLocalStorage

\* Throws when Refused, and in any state when input validation fails.
StoreRefused(r) ==
  /\ pc[r] = "storing" /\ Granted(r)
  /\ Goto(r, "rejected")
  /\ waitQ' = Tail(waitQ)
  /\ UNCHANGED <<queueVars, holder, phase, syncVars, downVars, linkVars,
                 worldVars, faults, crashes>>

\* Mutant: with the link up, the record is offered upstream before its save.
StoreAdmittedForwarded(r) ==
  /\ pc[r] = "storing" /\ Granted(r) /\ ~Refused
  /\ Acquire(r)
  /\ arrived' = [arrived EXCEPT
       ![r] = 1 + Cardinality({s \in Records : arrived[s] # 0})]
  /\ Persist(Insert(mem, r), "storePersist")
  /\ upstream' = IF isConnected THEN upstream \cup {r} ELSE upstream
  /\ UNCHANGED <<disk, pc, batch, reply, downVars, linkVars, committed,
                 superseded, faults, crashes>>

StoreAdmitted(r) ==
  /\ pc[r] = "storing" /\ Granted(r) /\ ~Refused
  /\ Acquire(r)
  /\ arrived' = [arrived EXCEPT
       ![r] = 1 + Cardinality({s \in Records : arrived[s] # 0})]
  /\ Persist(Insert(mem, r), "storePersist")
  /\ UNCHANGED <<disk, pc, batch, reply, downVars, linkVars, worldVars,
                 faults, crashes>>

StorePersisted(r) ==
  /\ holder = r /\ phase = "storePersist"
  /\ SaveOk(image)
  /\ committed' = committed \cup {r}
  /\ phase' = "process" /\ image' = Empty
  /\ UNCHANGED <<mem, arrived, pc, holder, waitQ, batch, reply, downVars,
                 linkVars, upstream, superseded, crashes>>

\* Mutant: the record stays in localStore although its save failed.
StorePersistFailedKept(r) ==
  /\ holder = r /\ phase = "storePersist"
  /\ SaveFails(image)
  /\ Goto(r, "rejected")
  /\ Release /\ ClearLocals
  /\ UNCHANGED <<mem, arrived, downVars, linkVars, worldVars, crashes>>

\* Mutant: the chain is resolved on success only (no finally).
StorePersistFailedHeld(r) ==
  /\ holder = r /\ phase = "storePersist"
  /\ SaveFails(image)
  /\ mem' = Delete(mem, {r})
  /\ Goto(r, "rejected")
  /\ phase' = None /\ ClearLocals
  /\ UNCHANGED <<arrived, holder, waitQ, downVars, linkVars, worldVars,
                 crashes>>

StorePersistFailed(r) ==
  /\ holder = r /\ phase = "storePersist"
  /\ SaveFails(image)
  /\ mem' = Delete(mem, {r})
  /\ Goto(r, "rejected")
  /\ Release /\ ClearLocals
  /\ UNCHANGED <<arrived, downVars, linkVars, worldVars, crashes>>

\* processLocally(): every processor settles, failures are only reported.
StoreProcessed(r) ==
  /\ holder = r /\ phase = "process"
  /\ Goto(r, "stored")
  /\ Release
  /\ UNCHANGED <<queueVars, syncVars, downVars, linkVars, worldVars, faults,
                 crashes>>

\* After the chain: forward at once when connected.  Only isConnected is
\* looked at here, not stopped.
StoreFollowUp(r) ==
  /\ pc[r] = "stored"
  /\ \/ isConnected /\ Goto(r, "syncing") /\ Enqueue(r)
     \/ ~isConnected /\ Goto(r, "done") /\ UNCHANGED waitQ
  /\ UNCHANGED <<queueVars, holder, phase, syncVars, downVars, linkVars,
                 worldVars, faults, crashes>>

(***************************************************************************)
(* runConnectivityCycle(): from initialize(), the timer, or a caller.      *)
(***************************************************************************)
CycleStart(c) ==
  /\ pc[c] = "idle" /\ ~stopped
  /\ timer' = None
  /\ Goto(c, "reach")
  /\ UNCHANGED <<queueVars, lockVars, syncVars, downVars, isConnected,
                 worldVars, faults, crashes>>

CycleReachable(c) ==
  /\ pc[c] = "reach" /\ ~stopped
  /\ isConnected' = TRUE
  /\ Goto(c, "syncing") /\ Enqueue(c)
  /\ UNCHANGED <<queueVars, holder, phase, syncVars, downVars, timer,
                 worldVars, faults, crashes>>

\* Mutant: an unreachable upstream leaves no retry behind.
CycleUnreachableUnarmed(c) ==
  /\ pc[c] = "reach" /\ ~stopped
  /\ Fault
  /\ isConnected' = FALSE
  /\ Goto(c, "idle")
  /\ UNCHANGED <<queueVars, lockVars, syncVars, downVars, timer, worldVars,
                 crashes>>

CycleUnreachable(c) ==
  /\ pc[c] = "reach" /\ ~stopped
  /\ Fault
  /\ isConnected' = FALSE
  /\ Schedule("backoff")
  /\ Goto(c, "idle")
  /\ UNCHANGED <<queueVars, lockVars, syncVars, downVars, worldVars, crashes>>

\* isReachable() answers false or throws after shutdown(), or answers true:
\* a throw still marks the link down, and schedule() refuses.
CycleStopped(c) ==
  /\ pc[c] = "reach" /\ stopped
  /\ \/ isConnected' = isConnected /\ NoFault
     \/ isConnected' = FALSE /\ Fault
  /\ Goto(c, "idle")
  /\ UNCHANGED <<queueVars, lockVars, syncVars, downVars, timer, worldVars,
                 crashes>>

(***************************************************************************)
(* synchronizeNow(), for a cycle or for store()'s follow-up.               *)
(***************************************************************************)
Syncing(t) == pc[t] = "syncing" /\ holder = t

\* The critical section ends, by return or by exception; the caller's
\* continuation runs later, after the next waiter may have started.
SyncEnds(t, l) == Goto(t, l) /\ Release /\ ClearLocals

SyncGranted(t) ==
  /\ pc[t] = "syncing" /\ Granted(t)
  /\ Acquire(t) /\ phase' = "loop"
  /\ UNCHANGED <<queueVars, pc, syncVars, downVars, linkVars, worldVars,
                 faults, crashes>>

\* while (localStore.size > 0 && isConnected)
MoreToSend == mem.ids # {} /\ isConnected

SyncForward(t) ==
  /\ Syncing(t) /\ phase = "loop" /\ MoreToSend
  /\ batch' = NextBatch(mem) /\ phase' = "forward"
  /\ reply' = NoReply
  /\ UNCHANGED <<queueVars, pc, holder, waitQ, image, downVars, linkVars,
                 worldVars, faults, crashes>>

SyncDrained(t) ==
  /\ Syncing(t) /\ phase = "loop" /\ ~MoreToSend
  /\ SyncEnds(t, "returned")
  /\ UNCHANGED <<queueVars, downVars, linkVars, worldVars, faults, crashes>>

\* forward() rejects, or reports another Merkle root and the divergence
\* reporter takes the report.  Upstream may hold any part of the batch.
SyncForwardFailed(t) ==
  /\ Syncing(t) /\ phase = "forward"
  /\ Fault
  /\ \E S \in SUBSET batch : upstream' = upstream \cup S
  /\ Persist(Touch(mem, batch), "failPersist")
  /\ UNCHANGED <<disk, arrived, pc, holder, waitQ, batch, reply, downVars,
                 linkVars, committed, superseded, crashes>>

\* An acknowledgement of an unknown id, or a root mismatch whose report
\* throws: the exception leaves the loop with nothing written.
SyncBadReply(t) ==
  /\ Syncing(t) /\ phase = "forward"
  /\ Fault
  /\ \E S \in SUBSET batch : upstream' = upstream \cup S
  /\ SyncEnds(t, "threw")
  /\ UNCHANGED <<queueVars, downVars, linkVars, committed, superseded,
                 crashes>>

\* A well-formed reply.  An id both acknowledged and in conflict counts as
\* in conflict.
SyncReplied(t) ==
  /\ Syncing(t) /\ phase = "forward"
  /\ \E A \in SUBSET batch, C \in SUBSET batch :
       /\ IF A = batch /\ C = {} THEN NoFault ELSE Fault
       /\ upstream' = upstream \cup A
       /\ reply' = [acked |-> A \ C, conflicts |-> C, todo |-> C]
  /\ phase' = "reconcile"
  /\ UNCHANGED <<queueVars, pc, holder, waitQ, batch, image, downVars,
                 linkVars, committed, superseded, crashes>>

\* reconcileConflict(): telemetry is last-writer-wins and a losing record
\* leaves the queue; configuration is merged in place and offered again.
Reconcile(t, r) ==
  /\ Syncing(t) /\ phase = "reconcile" /\ r \in reply.todo
  /\ r \in mem.ids
  /\ \/ /\ Kind[r] = "telemetry"
        /\ mem' = Delete(mem, {r})
        /\ superseded' = superseded \cup {r}
     \/ /\ mem' = Touch(mem, {r})
        /\ UNCHANGED superseded
  /\ reply' = [reply EXCEPT !.todo = @ \ {r}]
  /\ UNCHANGED <<disk, arrived, pc, lockVars, batch, image, downVars,
                 linkVars, upstream, committed, faults, crashes>>

\* The reporter throws, the remote value is malformed, the conflict names an
\* unknown record, or the record has left localStore: nothing is persisted.
\* A configuration record is merged and resealed before its report.
ReconcileThrew(t) ==
  /\ Syncing(t) /\ phase = "reconcile" /\ reply.todo # {}
  /\ \E r \in reply.todo :
       /\ (r \notin mem.ids /\ NoFault) \/ Fault
       /\ mem' = IF Kind[r] = "configuration" THEN Touch(mem, {r}) ELSE mem
  /\ SyncEnds(t, "threw")
  /\ UNCHANGED <<disk, arrived, downVars, linkVars, worldVars, crashes>>

\* Mutant: a reply clears the batch, not what it acknowledges.
SyncApplyBatch(t) ==
  /\ Syncing(t) /\ phase = "reconcile" /\ reply.todo = {}
  /\ Persist(Delete(mem, batch \ reply.conflicts), "ackPersist")
  /\ UNCHANGED <<disk, arrived, pc, holder, waitQ, batch, reply, downVars,
                 linkVars, worldVars, faults, crashes>>

SyncApply(t) ==
  /\ Syncing(t) /\ phase = "reconcile" /\ reply.todo = {}
  /\ LET left == Delete(mem, reply.acked)
     IN  Persist(Touch(left, batch \ reply.conflicts), "ackPersist")
  /\ UNCHANGED <<disk, arrived, pc, holder, waitQ, batch, reply, downVars,
                 linkVars, worldVars, faults, crashes>>

\* The persist after a reply: no progress marks the link down; a conflict
\* ends this sync; otherwise the loop goes round.
SyncApplied(t) ==
  /\ Syncing(t) /\ phase = "ackPersist"
  /\ SaveOk(image)
  /\ IF reply.conflicts = {} /\ reply.acked # {}
       THEN /\ phase' = "loop" /\ ClearLocals
            /\ UNCHANGED <<pc, holder, waitQ, isConnected>>
       ELSE /\ SyncEnds(t, "returned")
            /\ isConnected' = (isConnected /\ reply.conflicts # {})
  /\ UNCHANGED <<mem, arrived, downVars, timer, worldVars, crashes>>

\* The persist after a failed forward, then recordConnectionFailure().
SyncFailureSaved(t) ==
  /\ Syncing(t) /\ phase = "failPersist"
  /\ SaveOk(image)
  /\ isConnected' = FALSE
  /\ SyncEnds(t, "returned")
  /\ UNCHANGED <<mem, arrived, downVars, timer, worldVars, crashes>>

SyncPersistFailed(t) ==
  /\ Syncing(t) /\ phase \in {"ackPersist", "failPersist"}
  /\ SaveFails(image)
  /\ SyncEnds(t, "threw")
  /\ UNCHANGED <<mem, arrived, downVars, linkVars, worldVars, crashes>>

\* The caller's continuation after synchronizeNow(): store() arms the
\* backoff when the link went down, a cycle always arms one of the timers.
Finished(t) == Goto(t, IF t \in Records THEN "done" ELSE "idle")

\* Mutant: store() does not arm the backoff when its sync took the link down.
SyncReturnedUnarmed(t) ==
  /\ pc[t] = "returned"
  /\ IF t \in Cycles
       THEN Schedule(IF isConnected THEN "heartbeat" ELSE "backoff")
       ELSE UNCHANGED timer
  /\ Finished(t)
  /\ UNCHANGED <<queueVars, lockVars, syncVars, downVars, isConnected,
                 worldVars, faults, crashes>>

SyncReturned(t) ==
  /\ pc[t] = "returned"
  /\ CASE ~isConnected   -> Schedule("backoff")
       [] t \in Cycles /\ isConnected -> Schedule("heartbeat")
       [] OTHER          -> UNCHANGED timer
  /\ Finished(t)
  /\ UNCHANGED <<queueVars, lockVars, syncVars, downVars, isConnected,
                 worldVars, faults, crashes>>

SyncThrew(t) ==
  /\ pc[t] = "threw"
  /\ isConnected' = FALSE
  /\ Schedule("backoff")
  /\ Finished(t)
  /\ UNCHANGED <<queueVars, lockVars, syncVars, downVars, worldVars, faults,
                 crashes>>

(***************************************************************************)
(* initialize(), shutdown() and the death of the process.                  *)
(***************************************************************************)
\* Mutant: localStore is cleared after the load, not before it is filled.
InitializeCleared(c) ==
  /\ ~initialized /\ pc[c] = "idle" /\ pcDown = "idle"
  /\ disk.bad = {}
  /\ mem' = Empty
  /\ initialized' = TRUE /\ stopped' = FALSE
  /\ timer' = None
  /\ Goto(c, "reach")
  /\ UNCHANGED <<disk, arrived, lockVars, syncVars, pcDown, downImage,
                 shutdowns, isConnected, worldVars, faults, crashes>>

\* Loads the queue file and starts a cycle; a record whose checksum does not
\* match makes it throw (no step).
Initialize(c) ==
  /\ ~initialized /\ pc[c] = "idle" /\ pcDown = "idle"
  /\ disk.bad = {}
  /\ mem' = disk
  /\ initialized' = TRUE /\ stopped' = FALSE
  /\ timer' = None
  /\ Goto(c, "reach")
  /\ UNCHANGED <<disk, arrived, lockVars, syncVars, pcDown, downImage,
                 shutdowns, isConnected, worldVars, faults, crashes>>

StorePending == \E r \in Records : pc[r] \notin {"new", "done", "rejected"}

ShutdownCall ==
  /\ initialized /\ pcDown = "idle" /\ shutdowns < MaxShutdowns
  /\ StorePending => ShutdownWhileStoring
  /\ shutdowns' = shutdowns + 1
  /\ stopped' = TRUE /\ timer' = None
  /\ pcDown' = "wait"
  /\ Enqueue(Down)
  /\ UNCHANGED <<queueVars, pc, holder, phase, syncVars, downImage,
                 initialized, isConnected, worldVars, faults, crashes>>

\* await this.operation: shutdown() waits for the chain as it stood at the
\* call and does not hold it afterwards.
ShutdownPersist ==
  /\ pcDown = "wait" /\ Granted(Down)
  /\ waitQ' = Tail(waitQ)
  /\ pcDown' = "persist" /\ downImage' = mem
  /\ UNCHANGED <<queueVars, pc, holder, phase, syncVars, initialized,
                 stopped, shutdowns, linkVars, worldVars, faults, crashes>>

ShutdownDone ==
  /\ pcDown = "persist"
  /\ SaveOk(downImage)
  /\ mem' = Empty
  /\ isConnected' = FALSE /\ initialized' = FALSE
  /\ pcDown' = "idle" /\ downImage' = Empty
  /\ UNCHANGED <<arrived, pc, lockVars, syncVars, stopped, shutdowns, timer,
                 worldVars, crashes>>

ShutdownFailed ==
  /\ pcDown = "persist"
  /\ SaveFails(downImage)
  /\ pcDown' = "idle" /\ downImage' = Empty
  /\ UNCHANGED <<mem, arrived, pc, lockVars, syncVars, initialized, stopped,
                 shutdowns, linkVars, worldVars, crashes>>

Saving == phase \in {"storePersist", "ackPersist", "failPersist"}

\* Everything in memory goes.  A save in flight may or may not have reached
\* its rename, a batch in flight may or may not have been accepted.
Crash ==
  /\ crashes < MaxCrashes /\ crashes' = crashes + 1
  /\ \/ disk' = disk
     \/ Saving /\ disk' = image
     \/ pcDown = "persist" /\ disk' = downImage
  /\ \E S \in SUBSET (IF phase = "forward" THEN batch ELSE {}) :
       upstream' = upstream \cup S
  /\ mem' = Empty
  /\ pc' = [t \in Tasks |-> CASE t \in Cycles -> "idle"
                              [] pc[t] = "new" -> "new"
                              [] OTHER -> "done"]
  /\ holder' = None /\ phase' = None /\ waitQ' = <<>>
  /\ ClearLocals
  /\ pcDown' = "idle" /\ downImage' = Empty
  /\ timer' = None /\ isConnected' = FALSE
  /\ initialized' = FALSE /\ stopped' = TRUE
  /\ UNCHANGED <<arrived, committed, superseded, faults, shutdowns>>

(***************************************************************************)
(* The specification.                                                      *)
(***************************************************************************)
StoreStep(r) ==
  \/ StoreRefused(r) \/ StoreAdmitted(r)
  \/ StorePersisted(r) \/ StorePersistFailed(r)
  \/ StoreProcessed(r) \/ StoreFollowUp(r)

SyncStep(t) ==
  \/ SyncGranted(t) \/ SyncForward(t) \/ SyncDrained(t)
  \/ SyncForwardFailed(t) \/ SyncBadReply(t) \/ SyncReplied(t)
  \/ (\E r \in Records : Reconcile(t, r)) \/ ReconcileThrew(t)
  \/ SyncApply(t) \/ SyncApplied(t) \/ SyncFailureSaved(t)
  \/ SyncPersistFailed(t) \/ SyncReturned(t) \/ SyncThrew(t)

CycleStep(c) == CycleReachable(c) \/ CycleUnreachable(c) \/ CycleStopped(c)

TimerFires == timer # None /\ \E c \in Cycles : CycleStart(c)

Next ==
  \/ \E r \in Records : StoreCall(r) \/ StoreStep(r)
  \/ \E t \in Tasks : SyncStep(t)
  \/ \E c \in Cycles : CycleStart(c) \/ CycleStep(c) \/ Initialize(c)
  \/ ShutdownCall \/ ShutdownPersist \/ ShutdownDone \/ ShutdownFailed
  \/ Crash

Spec == Init /\ [][Next]_vars

\* Every call under way goes on: its await settles and its microtask runs; the
\* armed timer fires; the supervisor restarts a dead gateway (server/index.ts
\* calls initialize()).
Fairness ==
  /\ \A r \in Records : WF_vars(StoreStep(r) \/ SyncStep(r))
  /\ \A c \in Cycles : WF_vars(CycleStep(c) \/ SyncStep(c))
  /\ WF_vars(ShutdownPersist \/ ShutdownDone \/ ShutdownFailed)
  /\ WF_vars(TimerFires)
  /\ WF_vars(\E c \in Cycles : Initialize(c))

FairSpec == Spec /\ Fairness

(***************************************************************************)
(* Properties.                                                             *)
(***************************************************************************)
PcLabels == {"new", "storing", "stored", "syncing", "returned", "threw",
             "done", "rejected", "idle", "reach"}

\* Type invariant: the values the fields of StoreAndForwardService and the
\* locals of its async methods can hold between two awaits.
TypeOK ==
  /\ mem \in Image /\ disk \in Image
  /\ image \in Image /\ downImage \in Image
  /\ arrived \in [Records -> Nat]
  /\ pc \in [Tasks -> PcLabels]
  /\ holder \in Tasks \cup {None}
  /\ phase \in {None, "storePersist", "process", "loop", "forward",
                "reconcile", "ackPersist", "failPersist"}
  /\ waitQ \in Seq(Tasks \cup {Down})
  /\ batch \in SUBSET Records
  /\ reply \in [acked : SUBSET Records, conflicts : SUBSET Records,
                todo : SUBSET Records]
  /\ pcDown \in {"idle", "wait", "persist"}
  /\ timer \in {None, "backoff", "heartbeat"}
  /\ isConnected \in BOOLEAN /\ initialized \in BOOLEAN /\ stopped \in BOOLEAN
  /\ upstream \in SUBSET Records /\ committed \in SUBSET Records
  /\ superseded \in SUBSET Records
  /\ faults \in 0..MaxFaults /\ crashes \in 0..MaxCrashes
  /\ shutdowns \in 0..MaxShutdowns

\* What the gateway still owes the upstream.
Owed == committed \ (upstream \cup superseded)

\* "Existing industrial data is never evicted": once store() has persisted a
\* record, the record stays in the queue file until the upstream has accepted
\* it or a newer remote value has replaced it - through failed and ambiguous
\* writes, partial acknowledgements, conflicts, crashes, restarts and
\* shutdown().
NoLoss == Owed \subseteq disk.ids

\* A running service also still holds every owed record in memory: none can
\* only come back after a restart.
NoForgottenRecord == initialized => Owed \subseteq mem.ids

\* "Durably commits before local processing or upstream forwarding": what is
\* on its way to the upstream or to a local processor is in the queue file.
DurableBeforeUse ==
  /\ phase = "forward" => batch \subseteq disk.ids
  /\ phase = "process" => holder \in disk.ids

\* initialize() accepts whatever file a crash leaves: no record reaches the
\* file with a checksum that does not match what was changed in it.
RestartAcceptsQueue == disk.bad = {}

\* The queue never grows past its capacity, although store() calls are queued
\* behind each other and a restart loads what the last process left.
WithinCapacity == Cardinality(mem.ids) <= MaxLocalStorage

NoCycle == \A c \in Cycles : pc[c] = "idle"
Quiet == /\ NoCycle
         /\ \A r \in Records : pc[r] \notin {"syncing", "returned", "threw"}

\* A running service is never left without its next attempt: with no cycle
\* and no sync in progress, the retry timer is armed, at the backoff delay
\* exactly when the link is down.
RetryArmed ==
  initialized /\ ~stopped /\ Quiet =>
    timer = IF isConnected THEN "heartbeat" ELSE "backoff"

\* However the bounded faults and crashes fall, the gateway again and again owes
\* nothing: committed records are accepted upstream or superseded, and a
\* shutdown() ends with the service stopped, its queue left for the next process.
\* A shutdown() whose save failed leaves it stopped for good.
Delivered == []<>(Owed = {} \/ (stopped /\ initialized))

\* Every store() call is eventually answered.
StoreAnswered == []<>(\A r \in Records : pc[r] \in {"new", "done", "rejected"})

\* The abstract queue: the file is its storage.
Queue == INSTANCE DurableQueue WITH
  Record <- Records, stored <- disk.ids, promised <- committed,
  delivered <- upstream, replaced <- superseded

\* The service implements DurableQueue: every step of store(), of a sync, of a
\* failed or torn save, of shutdown() and of a crash is a step the abstract
\* queue allows, or changes nothing it shows.
ImplementsDurableQueue == Queue!Spec

(***************************************************************************)
(* The inductive invariant behind NoLoss, for callers that let their       *)
(* store() calls settle before shutdown().                                 *)
(***************************************************************************)
StorePhases == {"storePersist", "process"}
SyncPhases  == {"loop", "forward", "reconcile", "ackPersist", "failPersist"}

\* Who is inside the promise chain, and what it is doing there.
LockInv ==
  /\ holder = None <=> phase = None
  /\ phase \in StorePhases => holder \in Records /\ pc[holder] = "storing"
  /\ phase \in SyncPhases => pc[holder] = "syncing"

\* A committed record's store() has left its critical section, or is about to.
CommitInv ==
  \A r \in committed :
    /\ pc[r] # "new"
    /\ pc[r] = "storing" => holder = r /\ phase = "process"

\* A snapshot being written is still what localStore holds.
ImageInv ==
  /\ Saving => image = mem
  /\ pcDown = "persist" => downImage = mem

\* Everything in localStore but the record being stored is in the file.
DurableInv ==
  /\ \A r \in mem.ids :
       r \in disk.ids \/ (phase = "storePersist" /\ holder = r)
  /\ phase = "storePersist" => holder \in mem.ids

ReplyInv == reply.acked \subseteq upstream

SealInv == mem.bad = {} /\ disk.bad = {}

\* Once stopped no store() is under way, so no sync starts behind shutdown().
StoppedInv ==
  /\ ~initialized => stopped
  /\ pcDown # "idle" => initialized /\ stopped
  /\ stopped => /\ phase \notin StorePhases
                /\ \A r \in Records :
                     pc[r] \in {"new", "storing", "done", "rejected"}

\* Behind shutdown()'s place in the chain there are only store() calls, and
\* nothing else is left in it once shutdown() saves or has finished.
NoDown(q)     == \A i \in 1..Len(q) : q[i] # Down
OnlyStores(q) == \A i \in 1..Len(q) : q[i] \in Records
Marked(q)     == \E i \in 1..Len(q) :
                   /\ q[i] = Down
                   /\ \A j \in 1..(i - 1) : q[j] # Down
                   /\ \A j \in (i + 1)..Len(q) : q[j] \in Records
ChainInv ==
  /\ pcDown = "wait" => Marked(waitQ)
  /\ pcDown # "wait" => NoDown(waitQ)
  /\ ~initialized \/ pcDown = "persist" => holder = None /\ OnlyStores(waitQ)

DataInv ==
  /\ ImageInv /\ DurableInv /\ ReplyInv /\ SealInv
  /\ NoLoss /\ NoForgottenRecord /\ DurableBeforeUse

SafetyInv ==
  TypeOK /\ LockInv /\ StoppedInv /\ ChainInv /\ CommitInv /\ DataInv

(***************************************************************************)
(* The inductive invariants behind RetryArmed and WithinCapacity.          *)
(***************************************************************************)
TimerInv ==
  initialized /\ ~stopped /\ NoCycle =>
    /\ isConnected => timer = "heartbeat"
    /\ ~isConnected /\ (\A r \in Records : pc[r] \notin {"returned", "threw"})
         => timer = "backoff"

CapacityInv ==
  /\ Cardinality(mem.ids) <= MaxLocalStorage
  /\ Cardinality(disk.ids) <= MaxLocalStorage
  /\ Cardinality(image.ids) <= MaxLocalStorage
  /\ Cardinality(downImage.ids) <= MaxLocalStorage
=============================================================================
