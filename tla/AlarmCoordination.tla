------------------------- MODULE AlarmCoordination -------------------------
(***************************************************************************)
(* Replica coordination for alarm correlation                              *)
(* (server/services/alarm-correlation/coordinator.ts, store.ts and the     *)
(* submitting half of index.ts).                                           *)
(*                                                                         *)
(* Replicas append operations to one journal in a shared database and      *)
(* consume it in seq order.  Each entry is applied to the replica's own    *)
(* engine and the rows it changed are projected in one transaction with    *)
(* the watermark, by whichever replica gets there first.  A restarting     *)
(* replica loads the projection in three reads (watermark, groups, alarms) *)
(* and consumes the journal from the watermark it read.  Any store failure *)
(* degrades the replica, which switches suppression off, and the operation *)
(* that met it is applied to the local engine alone.                       *)
(*                                                                         *)
(* Rule and topology entries, retention and the stop() path are not        *)
(* modelled.                                                               *)
(***************************************************************************)
EXTENDS CorrelationEngine, Sequences, SequencesExt

CONSTANTS
    Replica,
    Flaky,         \* replicas whose store calls may fail and that may crash
    Operations,    \* the operations callers may submit to each replica: [op, alarm]
    MaxSubmits,    \* bound: operations submitted, repeats included
    MaxPumps,      \* bound: callers queued on a replica's pump chain
    MaxFaults,     \* bound: store calls that fail
    MaxRestarts,   \* bound: replicas that crash
    SqliteBackend  \* advanceWatermark lets an equal seq write its rows again

\* What is journaled: an operation on an alarm, or a timer or configuration
\* request, which names none.
Operation == [op : {"ingest", "acknowledge", "clear"}, alarm : Alarm]
                 \cup [op : {"sweep", "policy-on", "policy-off"}, alarm : {0}]

ASSUME CoordinationAssumption ==
    /\ Flaky \subseteq Replica
    /\ Operations \in [Replica -> SUBSET Operation]
    /\ MaxSubmits \in Nat /\ MaxPumps \in Nat /\ MaxFaults \in Nat
    /\ MaxRestarts \in Nat /\ SqliteBackend \in BOOLEAN
    /\ GroupId = 1 .. (MaxSubmits + MaxFaults)

VARIABLES
    journal,    \* the shared journal
    projection, \* the projected rows, the watermark and the persisted policy
    mode,       \* "down", "loading", "loadingAlarms", "starting", "up"
    loaded,     \* what a loading replica read so far
    engine, healthy, policyIntent, appliedSeq,
    dirtyGroups, dirtyAlarms, unprojectedSeq,
    pumps,      \* callers waiting on the pump chain; the first one is draining
    pageEnd,    \* last seq of the page being applied, 0 between pages
    changes,    \* the row changes being projected
    submits, faults, restarts, locals, \* bounds: spent so far
    fellBack,   \* history: alarms an operation on which was only applied locally
    forgotten,  \* history: alarms a sweep dropped
    swept,      \* history: what replicas decided for a sweep entry
    torn        \* history: some load saw rows of two different watermarks

storeVars == <<journal, projection>>
dirtyVars == <<dirtyGroups, dirtyAlarms, unprojectedSeq>>
drainVars == <<pumps, pageEnd, changes>>
boundVars == <<submits, faults, restarts, locals>>
historyVars == <<fellBack, forgotten, swept, torn>>
replicaVars == <<mode, loaded, engine, healthy, policyIntent, appliedSeq>>
vars == <<storeVars, replicaVars, dirtyVars, drainVars, boundVars, historyVars>>

\* The rows of an engine: what load() would read after projecting everything.
NoRows == [seq |-> 0, intent |-> TRUE, where |-> EmptyEngine.where,
           state |-> EmptyEngine.state, root |-> EmptyEngine.root, open |-> {}]
NoChanges == [seq |-> 0, eng |-> EmptyEngine, groups |-> {}, alarms |-> {},
              policy |-> {}]
PollCall == [op |-> "poll", alarm |-> 0]
StartCall == [op |-> "start", alarm |-> 0]

\* The journal's seq starts here; suppression was requested earlier.
Init ==
    /\ journal = <<>> /\ projection = NoRows
    /\ mode = [r \in Replica |-> "up"]
    /\ loaded = [r \in Replica |-> NoRows]
    /\ engine = [r \in Replica |-> [EmptyEngine EXCEPT !.enabled = TRUE]]
    /\ healthy = [r \in Replica |-> TRUE]
    /\ policyIntent = [r \in Replica |-> TRUE]
    /\ appliedSeq = [r \in Replica |-> 0]
    /\ dirtyGroups = [r \in Replica |-> {}] /\ dirtyAlarms = [r \in Replica |-> {}]
    /\ unprojectedSeq = [r \in Replica |-> 0]
    /\ pumps = [r \in Replica |-> <<>>] /\ pageEnd = [r \in Replica |-> 0]
    /\ changes = [r \in Replica |-> NoChanges]
    /\ submits = 0 /\ faults = 0 /\ restarts = 0 /\ locals = 0
    /\ fellBack = {} /\ forgotten = {} /\ swept = {} /\ torn = FALSE

Set(f, r, v) == [f EXCEPT ![r] = v]

-----------------------------------------------------------------------------
(* The journal and the projection *)

\* The idempotency key: the operation and its alarm, the sweep's interval (one
\* interval here), or the configuration request's own key, repeated by a retry.
NewKey(op) == \A i \in 1 .. Len(journal) : journal[i] # op

\* store.append
Appended(op) == IF NewKey(op) THEN Append(journal, op) ELSE journal

\* advanceWatermark
Advances(seq) == seq > projection.seq \/ (SqliteBackend /\ seq = projection.seq)

\* store.project: watermark, policy and rows in one transaction.
Projected(c) ==
    IF ~Advances(c.seq) THEN projection
    ELSE [seq |-> c.seq,
          intent |-> IF c.policy = {} THEN projection.intent ELSE TRUE \in c.policy,
          where |-> [a \in Alarm |-> IF a \in c.alarms THEN c.eng.where[a]
                                     ELSE projection.where[a]],
          state |-> [a \in Alarm |-> IF a \in c.alarms THEN c.eng.state[a]
                                     ELSE projection.state[a]],
          root |-> [g \in GroupId |-> IF g \in c.groups THEN c.eng.root[g]
                                      ELSE projection.root[g]],
          open |-> (projection.open \ c.groups) \cup (c.eng.open \cap c.groups)]

-----------------------------------------------------------------------------
(* Health *)

\* syncEnginePolicy: both conditions, the only place suppression is turned on.
SyncEnginePolicy(e, ok, intent) == SetSuppressionPolicy(e, ok /\ intent)

\* Mutant of Degrade: the policy is switched off and the hidden alarms are left.
DegradeLater(r) == NoEffect([engine[r] EXCEPT !.enabled = FALSE])

\* degrade: the first failure shows every hidden alarm.
Degrade(r) == IF healthy[r] THEN SetSuppressionPolicy(engine[r], FALSE)
              ELSE NoEffect(engine[r])

\* markHealthy after a page, or when there is nothing to read.  Its events touch
\* the dirty sets, which the next entry clears.
MarkHealthy(r, e) ==
    /\ healthy' = Set(healthy, r, TRUE)
    /\ engine' = Set(engine, r, IF healthy[r] THEN e
                                ELSE SyncEnginePolicy(e, TRUE, policyIntent[r]).eng)

\* The engine's part of an ingest, acknowledge or clear.
EngineEffect(e, op, newGroup) ==
    CASE op.op = "ingest" -> Ingest(e, op.alarm, newGroup)
      [] op.op = "acknowledge" -> AlarmAcknowledged(e, op.alarm)
      [] op.op = "clear" -> AlarmCleared(e, op.alarm)
      [] OTHER -> NoEffect(e)

\* touchGroup and touchAlarm.  Marks made while no entry is applied or waits to be
\* projected again are cleared by the next beginEntry, unread.
Touch(r, gs, as) ==
    LET kept == changes[r].seq # 0 \/ unprojectedSeq[r] # 0
    IN  /\ dirtyGroups' = Set(dirtyGroups, r,
                              IF kept THEN dirtyGroups[r] \cup gs ELSE {})
        /\ dirtyAlarms' = Set(dirtyAlarms, r,
                              IF kept THEN dirtyAlarms[r] \cup as ELSE {})

\* A store call failed under a caller: degrade, rethrow, and the service applies
\* the caller's operation to this engine, outside the journal.
FallBack(r, call) ==
    LET newGroup == MaxSubmits + locals + 1
        d == Degrade(r)
        l == EngineEffect(d.eng, call, newGroup)
    IN  /\ r \in Flaky /\ faults < MaxFaults /\ faults' = faults + 1
        /\ healthy' = Set(healthy, r, FALSE)
        /\ engine' = Set(engine, r, l.eng)
        /\ Touch(r, d.groups \cup l.groups, d.alarms \cup l.alarms)
        /\ locals' = IF newGroup \in l.groups THEN locals + 1 ELSE locals
        /\ fellBack' = fellBack \cup ({call.alarm} \cap Alarm)

-----------------------------------------------------------------------------
(* Submitting *)

\* submit: append, then join the pump chain.
Submit(r, op) ==
    /\ mode[r] = "up"
    /\ Len(pumps[r]) < MaxPumps
    /\ submits < MaxSubmits /\ submits' = submits + 1
    /\ journal' = Appended(op)
    /\ pumps' = Set(pumps, r, Append(pumps[r], op))
    /\ UNCHANGED <<projection, replicaVars, dirtyVars, pageEnd, changes,
                   faults, restarts, locals, historyVars>>

\* submit when append throws; the entry may have been committed all the same.
SubmitFails(r, op) ==
    /\ mode[r] = "up"
    /\ submits < MaxSubmits /\ submits' = submits + 1
    /\ journal' \in {journal, Appended(op)}
    /\ FallBack(r, op)
    /\ UNCHANGED <<projection, mode, loaded, policyIntent, appliedSeq,
                   unprojectedSeq, drainVars, restarts, forgotten, swept, torn>>

\* The poll timer, one poll at a time.  A poll that finds a healthy replica with
\* nothing to read changes nothing and is left out.
Poll(r) ==
    /\ mode[r] = "up" /\ pumps[r] = <<>>
    /\ appliedSeq[r] < Len(journal) \/ ~healthy[r]
    /\ pumps' = Set(pumps, r, <<PollCall>>)
    /\ UNCHANGED <<storeVars, replicaVars, dirtyVars, pageEnd, changes,
                   boundVars, historyVars>>

-----------------------------------------------------------------------------
(* Consuming: drain and applyEntry *)

Draining(r) == mode[r] \in {"starting", "up"} /\ pumps[r] # <<>>
Reading(r) == Draining(r) /\ pageEnd[r] = 0

\* Mutant of KeptDirty: a retry starts from empty dirty sets.
KeptDirtyNever(r, seq) == [groups |-> {}, alarms |-> {}]

\* beginEntry: the dirty sets survive only for the entry that was not projected.
KeptDirty(r, seq) ==
    IF unprojectedSeq[r] = seq
    THEN [groups |-> dirtyGroups[r], alarms |-> dirtyAlarms[r]]
    ELSE [groups |-> {}, alarms |-> {}]

\* finishEntry: the rows to write, taken before project() is awaited.
TakeChanges(r, seq, eff, policy) ==
    LET gs == KeptDirty(r, seq).groups \cup eff.groups
        as == KeptDirty(r, seq).alarms \cup eff.alarms
    IN  /\ engine' = Set(engine, r, eff.eng)
        /\ dirtyGroups' = Set(dirtyGroups, r, gs)
        /\ dirtyAlarms' = Set(dirtyAlarms, r, as)
        /\ changes' = Set(changes, r, [seq |-> seq, eng |-> eff.eng,
                                       groups |-> gs, alarms |-> as,
                                       policy |-> policy])

\* Mutant of NextGroupId: named after the journal's end when it is applied.
NextGroupIdTail(seq) == Len(journal)

\* nextGroupId, from the entry's seq.
NextGroupId(seq) == seq

\* applyToEngine for ingest, acknowledge and clear.
ApplyAlarmOp(r, seq) ==
    /\ journal[seq].op \in {"ingest", "acknowledge", "clear"}
    /\ TakeChanges(r, seq,
                   EngineEffect(engine[r], journal[seq], NextGroupId(seq)), {})
    /\ UNCHANGED <<policyIntent, forgotten, swept>>

\* applyToEngine for sweep.  A retry finds nothing more to close.
ApplySweep(r, seq) ==
    /\ journal[seq].op = "sweep"
    /\ \E idle \in SUBSET engine[r].open, old \in SUBSET Pending(engine[r]) :
           /\ unprojectedSeq[r] = seq => idle = {} /\ old = {}
           /\ TakeChanges(r, seq, Sweep(engine[r], idle, old), {})
           /\ forgotten' = forgotten \cup old
           /\ swept' = IF unprojectedSeq[r] = seq THEN swept
                       ELSE swept \cup {[seq |-> seq, open |-> engine[r].open,
                                         pending |-> Pending(engine[r]),
                                         idle |-> idle, old |-> old]}
    /\ UNCHANGED policyIntent

\* applyToEngine for policy-set.
ApplyPolicy(r, seq) ==
    LET on == journal[seq].op = "policy-on"
    IN  /\ journal[seq].op \in {"policy-on", "policy-off"}
        /\ policyIntent' = Set(policyIntent, r, on)
        /\ TakeChanges(r, seq, SyncEnginePolicy(engine[r], healthy[r], on), {on})
        /\ UNCHANGED <<forgotten, swept>>

\* applyEntry up to its await.
ApplyEntry(r, seq) ==
    ApplyAlarmOp(r, seq) \/ ApplySweep(r, seq) \/ ApplyPolicy(r, seq)

\* drain reads an empty page: healthy, and the caller is answered; start()
\* returns and its coordinator is attached.
ReadNothing(r) ==
    /\ Reading(r) /\ appliedSeq[r] = Len(journal)
    /\ MarkHealthy(r, engine[r])
    /\ pumps' = Set(pumps, r, Tail(pumps[r]))
    /\ mode' = Set(mode, r, "up")
    /\ UNCHANGED <<storeVars, loaded, policyIntent, appliedSeq, dirtyVars,
                   pageEnd, changes, boundVars, historyVars>>

\* Mutant of ReadPage: the page is taken to be as long as its limit.
ReadPageLimit(r) ==
    /\ Reading(r) /\ appliedSeq[r] < Len(journal)
    /\ pageEnd' = Set(pageEnd, r, MaxSubmits)
    /\ ApplyEntry(r, appliedSeq[r] + 1)
    /\ UNCHANGED <<storeVars, mode, loaded, healthy, appliedSeq, unprojectedSeq,
                   pumps, boundVars, fellBack, torn>>

\* drain reads a page and applies its first entry.
ReadPage(r) ==
    /\ Reading(r) /\ appliedSeq[r] < Len(journal)
    /\ pageEnd' = Set(pageEnd, r, Len(journal))
    /\ ApplyEntry(r, appliedSeq[r] + 1)
    /\ UNCHANGED <<storeVars, mode, loaded, healthy, appliedSeq, unprojectedSeq,
                   pumps, boundVars, fellBack, torn>>

\* The drain of one caller ends in a throw.  start() rejects and its coordinator
\* is dropped; any other caller falls back.
DrainThrows(r) ==
    /\ FallBack(r, Head(pumps[r]))
    /\ pumps' = Set(pumps, r, Tail(pumps[r]))
    /\ pageEnd' = Set(pageEnd, r, 0) /\ changes' = Set(changes, r, NoChanges)
    /\ mode' = IF mode[r] = "starting" THEN Set(mode, r, "down") ELSE mode

ReadFails(r) ==
    /\ Reading(r)
    /\ DrainThrows(r)
    /\ UNCHANGED <<storeVars, loaded, policyIntent, appliedSeq, unprojectedSeq,
                   submits, restarts, forgotten, swept, torn>>

\* project() commits: the replica's own watermark moves.
Commit(r) ==
    /\ Draining(r) /\ changes[r].seq # 0
    /\ projection' = Projected(changes[r])
    /\ appliedSeq' = Set(appliedSeq, r, changes[r].seq)
    /\ unprojectedSeq' = Set(unprojectedSeq, r, 0)

\* applyEntry's end inside a page: the next entry is begun.
ProjectThenApply(r) ==
    /\ changes[r].seq < pageEnd[r]
    /\ Commit(r)
    /\ ApplyEntry(r, changes[r].seq + 1)
    /\ UNCHANGED <<journal, mode, loaded, healthy, pumps, pageEnd, boundVars,
                   fellBack, torn>>

\* applyEntry's end at the end of the page: healthy.  The marks are no longer
\* needed.
ProjectLast(r) ==
    /\ changes[r].seq = pageEnd[r]
    /\ Commit(r)
    /\ MarkHealthy(r, engine[r])
    /\ pageEnd' = Set(pageEnd, r, 0) /\ changes' = Set(changes, r, NoChanges)
    /\ dirtyGroups' = Set(dirtyGroups, r, {})
    /\ dirtyAlarms' = Set(dirtyAlarms, r, {})
    /\ UNCHANGED <<journal, mode, loaded, policyIntent, pumps, boundVars,
                   historyVars>>

\* project() throws; the transaction may have committed all the same.
ProjectFails(r) ==
    /\ Draining(r) /\ changes[r].seq # 0
    /\ projection' \in {projection, Projected(changes[r])}
    /\ unprojectedSeq' = Set(unprojectedSeq, r, changes[r].seq)
    /\ DrainThrows(r)
    /\ UNCHANGED <<journal, loaded, policyIntent, appliedSeq, submits, restarts,
                   forgotten, swept, torn>>

-----------------------------------------------------------------------------
(* Crash and restart *)

\* The process ends with everything it has in memory, its callers included.
Crash(r) ==
    /\ r \in Flaky /\ mode[r] \in {"starting", "up"} /\ restarts < MaxRestarts
    /\ restarts' = restarts + 1
    /\ mode' = Set(mode, r, "down")
    /\ engine' = Set(engine, r, EmptyEngine) /\ healthy' = Set(healthy, r, FALSE)
    /\ policyIntent' = Set(policyIntent, r, FALSE)
    /\ appliedSeq' = Set(appliedSeq, r, 0)
    /\ dirtyGroups' = Set(dirtyGroups, r, {})
    /\ dirtyAlarms' = Set(dirtyAlarms, r, {})
    /\ unprojectedSeq' = Set(unprojectedSeq, r, 0)
    /\ pumps' = Set(pumps, r, <<>>) /\ pageEnd' = Set(pageEnd, r, 0)
    /\ changes' = Set(changes, r, NoChanges)
    /\ UNCHANGED <<storeVars, loaded, submits, faults, locals, historyVars>>

\* start: load() reads the state row ...
LoadState(r) ==
    /\ mode[r] = "down"
    /\ mode' = Set(mode, r, "loading") /\ loaded' = Set(loaded, r, projection)
    /\ UNCHANGED <<storeVars, engine, healthy, policyIntent, appliedSeq,
                   dirtyVars, drainVars, boundVars, historyVars>>

\* ... then the group rows ...
LoadGroups(r) ==
    /\ mode[r] = "loading"
    /\ mode' = Set(mode, r, "loadingAlarms")
    /\ torn' = (torn \/ projection # loaded[r])
    /\ loaded' = Set(loaded, r, [projection EXCEPT !.seq = loaded[r].seq,
                                                  !.intent = loaded[r].intent])
    /\ UNCHANGED <<storeVars, engine, healthy, policyIntent, appliedSeq,
                   dirtyVars, drainVars, boundVars, fellBack, forgotten, swept>>

\* ... then the alarm rows; hydrate, and start consuming.
LoadAlarms(r) ==
    /\ mode[r] = "loadingAlarms"
    /\ mode' = Set(mode, r, "starting")
    /\ loaded' = Set(loaded, r, NoRows)
    /\ torn' = (torn \/ projection # loaded[r])
    /\ policyIntent' = Set(policyIntent, r, loaded[r].intent)
    /\ appliedSeq' = Set(appliedSeq, r, loaded[r].seq)
    /\ healthy' = Set(healthy, r, TRUE)
    /\ engine' = Set(engine, r,
                     SyncEnginePolicy(Hydrate(loaded[r], projection), TRUE,
                                      loaded[r].intent).eng)
    /\ dirtyGroups' = Set(dirtyGroups, r, {})
    /\ dirtyAlarms' = Set(dirtyAlarms, r, {})
    /\ unprojectedSeq' = Set(unprojectedSeq, r, 0)
    /\ pumps' = Set(pumps, r, <<StartCall>>)
    /\ UNCHANGED <<storeVars, pageEnd, changes, boundVars, fellBack, forgotten, swept>>

\* load() throws: start() rejects, and the service runs without a coordinator.
LoadFails(r) ==
    /\ mode[r] \in {"loading", "loadingAlarms"}
    /\ mode' = Set(mode, r, "down") /\ loaded' = Set(loaded, r, NoRows)
    /\ UNCHANGED <<storeVars, engine, healthy, policyIntent, appliedSeq,
                   dirtyVars, drainVars, boundVars, historyVars>>

ReplicaStep(r) ==
    \/ Poll(r) \/ ReadNothing(r) \/ ReadPage(r)
    \/ ProjectThenApply(r) \/ ProjectLast(r)
    \/ LoadGroups(r) \/ LoadAlarms(r)

Next ==
    \E r \in Replica :
        \/ ReplicaStep(r)
        \/ \E op \in Operations[r] : Submit(r, op) \/ SubmitFails(r, op)
        \/ ReadFails(r) \/ ProjectFails(r)
        \/ Crash(r) \/ LoadState(r) \/ LoadFails(r)

Spec == Init /\ [][Next]_vars

-----------------------------------------------------------------------------
(* Properties *)

\* A sweep entry on one replica: the open groups and pending alarms it looked
\* at, those it found idle and closed, and those it found old and forgot.
Decision == [seq : Nat, open : SUBSET GroupId, pending : SUBSET Alarm,
             idle : SUBSET GroupId, old : SUBSET Alarm]

\* The variables have their types; a page never reaches past the journal.
TypeOK ==
    /\ journal \in Seq(Operation) /\ Len(journal) <= submits
    /\ projection.seq \in 0 .. Len(journal)
    /\ mode \in [Replica -> {"down", "loading", "loadingAlarms", "starting", "up"}]
    /\ engine \in [Replica -> Engine]
    /\ healthy \in [Replica -> BOOLEAN] /\ policyIntent \in [Replica -> BOOLEAN]
    /\ dirtyGroups \in [Replica -> SUBSET GroupId]
    /\ dirtyAlarms \in [Replica -> SUBSET Alarm]
    /\ \A r \in Replica : /\ appliedSeq[r] \in 0 .. Len(journal)
                          /\ unprojectedSeq[r] \in 0 .. Len(journal)
                          /\ pageEnd[r] \in 0 .. Len(journal)
    /\ fellBack \subseteq Alarm /\ forgotten \subseteq Alarm
    /\ swept \subseteq Decision /\ torn \in BOOLEAN

Attached(r) == mode[r] \in {"starting", "up"}

\* A replica hides an alarm only while its store calls succeed and the operator's
\* persisted policy asks for it, whatever it applies, retries or falls back to
\* in the meantime (degrade, syncEnginePolicy, markHealthy).
HidesOnlyWhenHealthy ==
    \A r \in Replica : Attached(r) /\ Suppressed(engine[r]) # {} =>
        healthy[r] /\ policyIntent[r]

\* Every replica that applied a sweep entry among the first n decided alike on
\* the groups and alarms they both had.  Sweep compares the entry's clock with
\* the replica's own idle times, so the entry alone does not decide.
DecidedAlike(n) ==
    \A i \in 1 .. n : \A d, e \in swept :
        d.seq = i /\ e.seq = i => /\ d.idle \cap e.open = e.idle \cap d.open
                                 /\ d.old \cap e.pending = e.old \cap d.pending

\* No rows of engines that disagree were adopted by a restart: nobody restarted,
\* or nothing was applied outside the journal, no load mixed two watermarks
\* (load() is not one transaction) and the sweeps so far were decided alike.
RowsAgree(r) == \/ restarts = 0
                \/ fellBack = {} /\ ~torn /\ DecidedAlike(appliedSeq[r])

\* Every hidden alarm is below the severity floor and hangs on another alarm of
\* its open group that is still there, whatever rows a restart adopted
\* (applySuppression looks for the root among the members); and that root is
\* not cleared, so its clear will show the alarm again, unless the rows of
\* engines that disagree were mixed.
HiddenIsRestorable ==
    \A r \in Replica : Attached(r) =>
        \A a \in Suppressed(engine[r]) :
            LET g == engine[r].where[a]
                root == engine[r].root[g]
            IN  /\ a \notin Critical /\ g \in engine[r].open
                /\ root \in Members(engine[r], g) \ {a}
                /\ RowsAgree(r) => engine[r].state[root] # "cleared"

Ingested(n) == {journal[i].alarm : i \in {j \in 1 .. n : journal[j].op = "ingest"}}

\* Every alarm whose ingest is below the watermark has a row: a restarting
\* replica adopts the rows and never replays the entry.
AlarmHasRow ==
    \A a \in Ingested(projection.seq) \ forgotten :
        projection.where[a] # Untracked

\* Every replica tracks the alarms whose ingest it has consumed, leaving out
\* those with an operation applied outside the journal.
AlarmTracked ==
    \A r \in Replica : Attached(r) =>
        Ingested(appliedSeq[r]) \ (forgotten \cup fellBack) \subseteq Tracked(engine[r])

\* An alarm no operation on which was ever applied outside the journal keeps its
\* row, through failed and half-failed projections, retries and restarts; and an
\* engine tracks every such alarm whose ingest it has consumed.  The second half
\* is only claimed while no load mixed the rows of two watermarks: a load that
\* did may leave a pending alarm out of the restarted engine for good.
AlarmKept ==
    /\ \A a \in Ingested(projection.seq) \ (forgotten \cup fellBack) :
           projection.where[a] # Untracked
    /\ ~torn => AlarmTracked

\* Nothing applied and not yet projected.
Settled(r) == Attached(r) /\ changes[r].seq = 0 /\ unprojectedSeq[r] = 0

\* Two replicas that consumed the same prefix have the same groups, with the
\* same ids and roots, and show the same alarm states when equally healthy,
\* whoever projected, failed, restarted or swept: as long as nothing was applied
\* outside the journal, no load was torn and the replicas' clocks decided the
\* sweeps of that prefix alike.
Converged ==
    fellBack = {} /\ ~torn =>
        \A r, s \in Replica :
            /\ Settled(r) /\ Settled(s) /\ appliedSeq[r] = appliedSeq[s]
            /\ DecidedAlike(appliedSeq[r])
            =>
                /\ engine[r].where = engine[s].where
                /\ engine[r].root = engine[s].root
                /\ engine[r].open = engine[s].open
                /\ healthy[r] = healthy[s] => engine[r].state = engine[s].state

\* Three claims the coordinator's comments make: no storage or coordination
\* failure hides an alarm, from the rows (an append that commits and rejects)
\* or from a restarted replica (a load across two watermarks), and every replica
\* makes the identical decision for a sweep entry.  A state that breaks this
\* disjunction breaks all three.
CoordinationClaims ==
    AlarmHasRow \/ AlarmTracked \/ DecidedAlike(Len(journal))

=============================================================================
