------------------------------ MODULE SafeState ------------------------------
(***************************************************************************)
(* The blueprint watchdog and its safe-state controller                    *)
(* (server/blueprint/safe-state.ts, watchdog.ts, safety-host.ts and        *)
(* runtime-actuator.ts), for one armed blueprint.                          *)
(*                                                                         *)
(* A setInterval driver runs control ticks.  The watchdog counts           *)
(* consecutive over-budget ticks and, at Limit, asks the controller to     *)
(* enter the safe state.  Entries and operator resumes are serialised on a *)
(* promise chain (transitionTail); between two awaits of the transition at *)
(* its head, ticks, further calls and a process restart may happen.  Every *)
(* transition writes rows to the durable audit log; a write may fail after *)
(* its row has landed, and the log ignores a second row with the same      *)
(* anchor hash.                                                            *)
(*                                                                         *)
(* An audit row is [transition, id]; id stands for the anchor hash, which  *)
(* is unique per event and grows with the event's timestamp.               *)
(***************************************************************************)
EXTENDS Integers, Sequences, FiniteSets

CONSTANTS
    Limit,        \* config.consecutiveMissesBeforeSafeState
    MaxTrips,     \* bound: trips the tick driver may cause
    MaxCalls,     \* bound: direct enterSafeState and resume calls
    MaxFaults,    \* bound: audit writes and actuator calls that throw
    MaxRestarts   \* bound: process restarts

ASSUME SafeStateAssumption ==
    /\ Limit \in Nat \ {0}
    /\ MaxTrips \in Nat /\ MaxCalls \in Nat
    /\ MaxFaults \in Nat /\ MaxRestarts \in Nat

VARIABLES
    runState,     \* status.runState
    entryAudit,   \* status.entryAuditStatus
    anchorHash,   \* status.anchorHash: id of the active SafeStateEntered event
    pendingEntry, \* pendingEntryAudit, by id
    pendingExit,  \* pendingExitRequestAudit, by id
    halted,       \* BlueprintRuntimeActuator.halted
    plant,        \* what the outputs were last driven by
    misses,       \* Watchdog.consecutiveMisses
    ticking,      \* HostedBlueprint.ticking across an await
    tail,         \* transitions on the promise chain, the running one first
    phase,        \* the await the running transition is suspended at
    outcome,      \* transition argument of recordRecoveryOutcome
    events,       \* ids given out so far
    log,          \* blueprint_safe_state_log, in commit order
    boot,         \* Len(log) when this process started
    trips, calls, faults, restarts

statusVars == <<runState, entryAudit, anchorHash>>
pendingVars == <<pendingEntry, pendingExit>>
plantVars == <<halted, plant>>
budgetVars == <<trips, calls, faults, restarts>>
vars == <<runState, entryAudit, anchorHash, pendingEntry, pendingExit, halted,
          plant, misses, ticking, tail, phase, outcome, events, log, boot,
          trips, calls, faults, restarts>>

-----------------------------------------------------------------------------
None == 0

\* RECOVERING is set and left within recoverToSafeState, which never awaits.
RunStates == {"RUNNING", "SAFE_STATE", "RESUMING", "RECOVERY_FAILED"}

Transitions == {"ENTERED", "EXIT_REQUESTED", "EXITED", "RESUME_FAILED",
                "EXIT_ABORTED", "RECOVERY_FAILED"}

Row(transition, id) == [transition |-> transition, id |-> id]

\* A queued transition and who waits for it: the tick driver, a direct caller
\* of the controller, an authenticated operator, or a call with a blank name.
Requests == {[kind |-> "enter", by |-> "tick"],
             [kind |-> "enter", by |-> "caller"],
             [kind |-> "resume", by |-> "operator"],
             [kind |-> "resume", by |-> "nobody"]}

Phases == {"ready", "entryAnchor", "entryAudit", "staleRequestAudit",
           "requestAnchor", "requestAudit", "exitAnchor", "exitAudit",
           "outcomeAnchor", "outcomeAudit"}

AuditPhases == {"entryAudit", "staleRequestAudit", "requestAudit",
                "exitAudit", "outcomeAudit"}

Init ==
    /\ runState = "RUNNING"
    /\ entryAudit = "none"
    /\ anchorHash = None
    /\ pendingEntry = None
    /\ pendingExit = None
    /\ halted = FALSE
    /\ plant = "loop"
    /\ misses = 0
    /\ ticking = FALSE
    /\ tail = <<>>
    /\ phase = "ready"
    /\ outcome = "RESUME_FAILED"
    /\ events = 0
    /\ log = <<>>
    /\ boot = 0
    /\ trips = 0 /\ calls = 0 /\ faults = 0 /\ restarts = 0

-----------------------------------------------------------------------------
\* A queued transition starts in the microtasks that follow the end of the one
\* before it, so no timer, request or signal is served while one is "ready".
Settled == tail = <<>> \/ phase # "ready"

Running(kind, at) == tail # <<>> /\ Head(tail).kind = kind /\ phase = at

\* runSerializedTransition: the call joins the chain whatever its state.
Enqueue(request) == tail' = Append(tail, request)

\* Mutant of Settle: the running transition ends but stays marked as suspended.
SettleSuspended ==
    /\ tail' = Tail(tail)
    /\ ticking' = (ticking /\ Head(tail).by # "tick")
    /\ UNCHANGED phase

\* Mutant of Settle: tickOnce without its finally block.
SettleTicking == tail' = Tail(tail) /\ phase' = "ready" /\ UNCHANGED ticking

\* The promise of the running transition settles.  Its waiter and the next
\* transition continue; tickOnce clears `ticking` in its finally block.
Settle ==
    /\ tail' = Tail(tail)
    /\ phase' = "ready"
    /\ ticking' = (ticking /\ Head(tail).by # "tick")

Suspend(at) == phase' = at /\ UNCHANGED <<tail, ticking>>

Fault == faults < MaxFaults /\ faults' = faults + 1

-----------------------------------------------------------------------------
\* The audit sink: INSERT OR IGNORE keyed by the anchor hash.
InFlight ==
    CASE phase = "entryAudit" -> Row("ENTERED", pendingEntry)
      [] phase \in {"staleRequestAudit", "requestAudit"} ->
             Row("EXIT_REQUESTED", pendingExit)
      [] phase = "exitAudit" -> Row("EXITED", events)
      [] OTHER -> Row(outcome, events)

Written(row) == \E i \in 1 .. Len(log) : log[i] = row

\* Mutant of Land: a plain INSERT.
LandAgain == log' = Append(log, InFlight)

Land == log' = IF Written(InFlight) THEN log ELSE Append(log, InFlight)

RecordOk == Land /\ UNCHANGED faults

\* record() threw: the row may or may not be in the table.
RecordThrows == Fault /\ (UNCHANGED log \/ Land)

-----------------------------------------------------------------------------
\* The actuator seam.  halt() and resume() of BlueprintRuntimeActuator set
\* their latch; an actuator behind the interface may also throw.  A throwing
\* resume() may have released the loop already.  Outputs are safe once the
\* declared action was published, and unknown when publishing threw.
HaltOk == halted' = TRUE
HaltThrows == UNCHANGED halted

ApplyOk == plant' = "safe"
ApplyThrows == plant' = "unknown"

-----------------------------------------------------------------------------
\* Mutant of TickInBudget: runTick without its isInSafeState check.
TickUnguarded ==
    /\ Settled
    /\ ~halted /\ ~ticking
    /\ plant' = "loop"
    /\ misses' = 0
    /\ UNCHANGED <<statusVars, pendingVars, halted, ticking, tail, phase,
                   outcome, events, log, boot, budgetVars>>

\* safety-host tickOnce -> Watchdog.runTick -> observeTick, for a tick that is
\* not skipped.  An in-budget tick clears the streak.
TickInBudget ==
    /\ Settled
    /\ ~halted /\ ~ticking /\ runState = "RUNNING"
    /\ plant' = "loop"
    /\ misses' = 0
    /\ UNCHANGED <<statusVars, pendingVars, halted, ticking, tail, phase,
                   outcome, events, log, boot, budgetVars>>

\* An over-budget tick below the limit.
TickOverBudget ==
    /\ Settled
    /\ ~halted /\ ~ticking /\ runState = "RUNNING"
    /\ misses + 1 < Limit
    /\ plant' = "loop"
    /\ misses' = misses + 1
    /\ UNCHANGED <<statusVars, pendingVars, halted, ticking, tail, phase,
                   outcome, events, log, boot, budgetVars>>

\* The over-budget tick that reaches the limit: it stays in flight, awaiting
\* enterSafeState.
TickTrips ==
    /\ Settled
    /\ ~halted /\ ~ticking /\ runState = "RUNNING"
    /\ misses + 1 >= Limit
    /\ trips < MaxTrips /\ trips' = trips + 1
    /\ plant' = "loop"
    /\ misses' = misses + 1
    /\ ticking' = TRUE
    /\ Enqueue([kind |-> "enter", by |-> "tick"])
    /\ UNCHANGED <<statusVars, pendingVars, halted, phase, outcome, events,
                   log, boot, calls, faults, restarts>>

\* Controller.enterSafeState called directly, and Watchdog.resume called by the
\* operator's POST /:blueprintId/resume.
Call(request) ==
    /\ Settled
    /\ request.by # "tick"
    /\ calls < MaxCalls /\ calls' = calls + 1
    /\ Enqueue(request)
    /\ UNCHANGED <<statusVars, pendingVars, plantVars, misses, ticking, phase,
                   outcome, events, log, boot, trips, faults, restarts>>

-----------------------------------------------------------------------------
\* Mutant of EnterAgain: the early return of a durable entry is missing.
EnterAgainHangs ==
    /\ Running("enter", "ready")
    /\ runState = "SAFE_STATE"
    /\ pendingEntry # None /\ Suspend("entryAudit")
    /\ UNCHANGED <<statusVars, pendingVars, plantVars, misses, outcome, events,
                   log, boot, budgetVars>>

\* enterSafeStateLocked, already in the safe state: only an entry whose audit
\* is still pending is retried.
EnterAgain ==
    /\ Running("enter", "ready")
    /\ runState = "SAFE_STATE"
    /\ \/ pendingEntry = None /\ Settle
       \/ pendingEntry # None /\ Suspend("entryAudit")
    /\ UNCHANGED <<statusVars, pendingVars, plantVars, misses, outcome, events,
                   log, boot, budgetVars>>

\* enterSafeStateLocked up to the anchor: halt, then the declared outputs.
EnterHalts ==
    /\ Running("enter", "ready")
    /\ runState # "SAFE_STATE"
    /\ HaltOk /\ ApplyOk
    /\ events' = events + 1
    /\ Suspend("entryAnchor")
    /\ UNCHANGED <<statusVars, pendingVars, misses, outcome, log, boot,
                   budgetVars>>

\* halt() or the output action throws: the transition rejects and the status
\* is left as it was.
EnterThrows ==
    /\ Running("enter", "ready")
    /\ runState # "SAFE_STATE"
    /\ Fault
    /\ \/ HaltThrows /\ UNCHANGED plant
       \/ HaltOk /\ ApplyThrows
    /\ Settle
    /\ UNCHANGED <<statusVars, pendingVars, misses, outcome, events, log, boot,
                   trips, calls, restarts>>

\* safeAnchor returned (with the backend's receipt or the local hash): the safe
\* state is claimed and its audit row is pending.
EntryAnchored ==
    /\ phase = "entryAnchor"
    /\ runState' = "SAFE_STATE"
    /\ entryAudit' = "pending"
    /\ anchorHash' = events
    /\ pendingEntry' = events
    /\ Suspend("entryAudit")
    /\ UNCHANGED <<pendingExit, plantVars, misses, outcome, events, log, boot,
                   budgetVars>>

\* resumeLocked once the entry is durable: an exit request left over from an
\* earlier attempt is written first, otherwise the new request is anchored.
BeginRequest ==
    /\ Suspend(IF pendingExit = None THEN "requestAnchor"
                                     ELSE "staleRequestAudit")
    /\ events' = IF pendingExit = None THEN events + 1 ELSE events

\* persistPendingEntryAudit returned: an entry is complete, a resume goes on.
EntryRecorded ==
    /\ phase = "entryAudit"
    /\ RecordOk
    /\ pendingEntry' = None
    /\ entryAudit' = "durable"
    /\ \/ Head(tail).kind = "enter" /\ Settle /\ UNCHANGED events
       \/ Head(tail).kind = "resume" /\ BeginRequest
    /\ UNCHANGED <<runState, anchorHash, pendingExit, plantVars, misses,
                   outcome, boot, trips, calls, restarts>>

\* Mutant of PendingRecordThrows: the pending record is dropped and shown as
\* durable although its write threw.
PendingRecordDropped ==
    /\ phase \in {"entryAudit", "staleRequestAudit", "requestAudit"}
    /\ RecordThrows
    /\ Settle
    /\ pendingEntry' = None /\ pendingExit' = None
    /\ entryAudit' = "durable"
    /\ UNCHANGED <<runState, anchorHash, plantVars, misses, outcome, events,
                   boot, trips, calls, restarts>>

\* A pending record that could not be confirmed stays pending; the transition
\* rejects before it has touched the runtime.
PendingRecordThrows ==
    /\ phase \in {"entryAudit", "staleRequestAudit", "requestAudit"}
    /\ RecordThrows
    /\ Settle
    /\ UNCHANGED <<statusVars, pendingVars, plantVars, misses, outcome, events,
                   boot, trips, calls, restarts>>

-----------------------------------------------------------------------------
\* Mutant of ResumeRefused: a request of unknown fate blocks later resumes.
ResumeRefusedWhilePending ==
    /\ Running("resume", "ready")
    /\ Head(tail).by = "nobody" \/ runState # "SAFE_STATE" \/ pendingExit # None
    /\ Settle
    /\ UNCHANGED <<statusVars, pendingVars, plantVars, misses, outcome, events,
                   log, boot, budgetVars>>

\* resumeLocked's early errors: no operator identity, or not in safe state.
ResumeRefused ==
    /\ Running("resume", "ready")
    /\ Head(tail).by = "nobody" \/ runState # "SAFE_STATE"
    /\ Settle
    /\ UNCHANGED <<statusVars, pendingVars, plantVars, misses, outcome, events,
                   log, boot, budgetVars>>

\* Mutant of ResumeBegins: the pending entry is not persisted first.
ResumeBeginsAtOnce ==
    /\ Running("resume", "ready")
    /\ Head(tail).by # "nobody"
    /\ runState = "SAFE_STATE"
    /\ BeginRequest
    /\ UNCHANGED <<statusVars, pendingVars, plantVars, misses, outcome, log,
                   boot, budgetVars>>

\* resumeLocked starts with whatever is pending: the entry, then an old exit
\* request, then its own request.
ResumeBegins ==
    /\ Running("resume", "ready")
    /\ Head(tail).by # "nobody"
    /\ runState = "SAFE_STATE"
    /\ \/ pendingEntry # None /\ Suspend("entryAudit") /\ UNCHANGED events
       \/ pendingEntry = None /\ BeginRequest
    /\ UNCHANGED <<statusVars, pendingVars, plantVars, misses, outcome, log,
                   boot, budgetVars>>

StaleRequestRecorded ==
    /\ phase = "staleRequestAudit"
    /\ RecordOk
    /\ pendingExit' = None
    /\ events' = events + 1
    /\ Suspend("requestAnchor")
    /\ UNCHANGED <<statusVars, pendingEntry, plantVars, misses, outcome, boot,
                   trips, calls, restarts>>

RequestAnchored ==
    /\ phase = "requestAnchor"
    /\ pendingExit' = events
    /\ Suspend("requestAudit")
    /\ UNCHANGED <<statusVars, pendingEntry, plantVars, misses, outcome, events,
                   log, boot, budgetVars>>

\* Mutant of Recover: errors of the compensation are ignored.
RecoverClaims(released, transition) ==
    \E haltOk, applyOk \in BOOLEAN :
        /\ halted' = (haltOk \/ ~released)
        /\ \/ applyOk /\ ApplyOk
           \/ ~applyOk /\ ApplyThrows
        /\ runState' = "SAFE_STATE"
        /\ outcome' = transition
        /\ faults < MaxFaults /\ faults' = faults + 1
        /\ events' = events + 1
        /\ Suspend("outcomeAnchor")

\* recoverToSafeState followed by the start of recordRecoveryOutcome, in the
\* catch block of resumeLocked.  halt() and the output action are attempted
\* independently; `released` says that the loop is live when they are.  A halt
\* that throws leaves the latch as it is.
Recover(released, transition) ==
    \E haltOk, applyOk \in BOOLEAN :
        /\ halted' = (haltOk \/ ~released)
        /\ \/ applyOk /\ ApplyOk
           \/ ~applyOk /\ ApplyThrows
        /\ \/ /\ haltOk /\ applyOk
              /\ runState' = "SAFE_STATE"
              /\ outcome' = transition
              /\ faults < MaxFaults /\ faults' = faults + 1
           \/ /\ ~(haltOk /\ applyOk)
              /\ runState' = "RECOVERY_FAILED"
              /\ outcome' = "RECOVERY_FAILED"
              /\ faults + 1 < MaxFaults /\ faults' = faults + 2
        /\ events' = events + 1
        /\ Suspend("outcomeAnchor")

\* The exit request is durable: the runtime is released and SAFE_STATE is no
\* longer claimed.
RequestRecorded ==
    /\ phase = "requestAudit"
    /\ RecordOk
    /\ pendingExit' = None
    /\ halted' = FALSE
    /\ runState' = "RESUMING"
    /\ events' = events + 1
    /\ Suspend("exitAnchor")
    /\ UNCHANGED <<entryAudit, anchorHash, pendingEntry, plant, misses, outcome,
                   boot, trips, calls, restarts>>

\* The exit request is durable but actuator.resume() throws, with or without
\* having released the loop.
ReleaseThrows ==
    /\ phase = "requestAudit"
    /\ Land
    /\ pendingExit' = None
    /\ \E released \in BOOLEAN : Recover(released, "RESUME_FAILED")
    /\ UNCHANGED <<entryAudit, anchorHash, pendingEntry, misses, boot, trips,
                   calls, restarts>>

ExitAnchored ==
    /\ phase = "exitAnchor"
    /\ Suspend("exitAudit")
    /\ UNCHANGED <<statusVars, pendingVars, plantVars, misses, outcome, events,
                   log, boot, budgetVars>>

\* Mutant of ExitRecorded: a failed EXITED write is ignored.
ExitAssumed ==
    /\ phase = "exitAudit"
    /\ RecordOk \/ RecordThrows
    /\ runState' = "RUNNING"
    /\ entryAudit' = "none"
    /\ anchorHash' = None
    /\ misses' = 0
    /\ Settle
    /\ UNCHANGED <<pendingVars, plantVars, outcome, events, boot, trips, calls,
                   restarts>>

\* EXITED is durable: RUNNING, with a fresh status; Watchdog.resume clears the
\* streak when the promise resolves.
ExitRecorded ==
    /\ phase = "exitAudit"
    /\ RecordOk
    /\ runState' = "RUNNING"
    /\ entryAudit' = "none"
    /\ anchorHash' = None
    /\ misses' = 0
    /\ Settle
    /\ UNCHANGED <<pendingVars, plantVars, outcome, events, boot, trips, calls,
                   restarts>>

\* EXITED could not be confirmed: the live loop is taken back to safety.
ExitRecordThrows ==
    /\ phase = "exitAudit"
    /\ UNCHANGED log \/ Land
    /\ Recover(TRUE, "EXIT_ABORTED")
    /\ UNCHANGED <<entryAudit, anchorHash, pendingVars, misses, boot, trips,
                   calls, restarts>>

OutcomeAnchored ==
    /\ phase = "outcomeAnchor"
    /\ Suspend("outcomeAudit")
    /\ UNCHANGED <<statusVars, pendingVars, plantVars, misses, outcome, events,
                   log, boot, budgetVars>>

\* The outcome row is written at most once and its failure is swallowed; the
\* resume then rejects with the original error.
OutcomeWritten ==
    /\ phase = "outcomeAudit"
    /\ RecordOk \/ RecordThrows
    /\ Settle
    /\ UNCHANGED <<statusVars, pendingVars, plantVars, misses, outcome, events,
                   boot, trips, calls, restarts>>

-----------------------------------------------------------------------------
\* The process dies and host.start() arms the blueprint again.  The log and the
\* last outputs survive; a row in flight may have landed.
Restart ==
    /\ restarts < MaxRestarts /\ restarts' = restarts + 1
    /\ UNCHANGED log \/ (phase \in AuditPhases /\ Land)
    /\ boot' = Len(log')
    /\ runState' = "RUNNING"
    /\ entryAudit' = "none"
    /\ anchorHash' = None
    /\ pendingEntry' = None
    /\ pendingExit' = None
    /\ halted' = FALSE
    /\ misses' = 0
    /\ ticking' = FALSE
    /\ tail' = <<>>
    /\ phase' = "ready"
    /\ UNCHANGED <<plant, outcome, events, trips, calls, faults>>

Transition ==
    \/ EnterAgain \/ EnterHalts \/ EnterThrows \/ EntryAnchored
    \/ EntryRecorded \/ PendingRecordThrows
    \/ ResumeRefused \/ ResumeBegins \/ StaleRequestRecorded
    \/ RequestAnchored \/ RequestRecorded \/ ReleaseThrows
    \/ ExitAnchored \/ ExitRecorded \/ ExitRecordThrows
    \/ OutcomeAnchored \/ OutcomeWritten

Next ==
    \/ TickInBudget \/ TickOverBudget \/ TickTrips
    \/ \E request \in Requests : Call(request)
    \/ Transition
    \/ Restart

Spec == Init /\ [][Next]_vars

\* Awaited promises settle and the chain runs on; setInterval keeps firing.
FairSpec ==
    /\ Spec
    /\ WF_vars(Transition)
    /\ WF_vars(TickInBudget \/ TickOverBudget \/ TickTrips)

-----------------------------------------------------------------------------
\* Type invariant: the values the fields of safe-state.ts, watchdog.ts and
\* runtime-actuator.ts can hold between two turns of the event loop.
TypeOK ==
    /\ runState \in RunStates
    /\ entryAudit \in {"none", "pending", "durable"}
    /\ anchorHash \in 0 .. events
    /\ pendingEntry \in 0 .. events
    /\ pendingExit \in 0 .. events
    /\ halted \in BOOLEAN
    /\ plant \in {"loop", "safe", "unknown"}
    /\ misses \in Nat
    /\ ticking \in BOOLEAN
    /\ tail \in Seq(Requests)
    /\ phase \in Phases
    /\ phase # "ready" => tail # <<>>
    /\ outcome \in {"RESUME_FAILED", "EXIT_ABORTED", "RECOVERY_FAILED"}
    /\ events \in Nat
    /\ log \in Seq([transition : Transitions, id : Nat])
    /\ boot \in 0 .. Len(log)
    /\ trips \in 0 .. MaxTrips /\ calls \in 0 .. MaxCalls
    /\ faults \in 0 .. MaxFaults /\ restarts \in 0 .. MaxRestarts

\* Whenever the controller's status says SAFE_STATE the loop is halted and the
\* declared outputs were applied, across every failed, retried, aborted and
\* recovered transition (enterSafeStateLocked, recoverToSafeState).
ClaimIsPhysical == runState = "SAFE_STATE" => halted /\ plant = "safe"

\* A log that shows an entry after row `from` and no exit since.
OpenEpisodeSince(from) ==
    \E i \in from + 1 .. Len(log) :
        /\ log[i].transition = "ENTERED"
        /\ \A j \in i + 1 .. Len(log) : log[j].transition # "EXITED"

\* While this process's durable log shows an entry that was not followed by an
\* exit, no control tick drives the outputs (tickOnce, runTick, resumeLocked).
EpisodeHoldsPlant == OpenEpisodeSince(boot) => plant # "loop"

\* The loop is released by a resume only when the log holds the ENTERED row of
\* the very episode being left and, as its latest row, the operator's request
\* (resumeLocked: "persist authorisation before touching the runtime").
ReleaseAuthorised ==
    runState = "RESUMING" =>
        /\ Len(log) > boot
        /\ log[Len(log)].transition = "EXIT_REQUESTED"
        /\ \E i \in boot + 1 .. Len(log) : log[i] = Row("ENTERED", anchorHash)

\* A blueprint that is running and not halted is, in the log of this process,
\* one whose last transition is a durable EXITED (resumeLocked sets RUNNING
\* only after audit.record returned).
ExitIsRecorded ==
    runState = "RUNNING" /\ ~halted /\ Len(log) > boot =>
        log[Len(log)].transition = "EXITED"

\* Rows are committed in the order of their timestamps, by which
\* listBlueprintSafeStateLog sorts, and none twice, although a row of unknown
\* fate is written again (persistPendingEntryAudit,
\* persistPendingExitRequestAudit).
LogInOrder ==
    \A i, j \in 1 .. Len(log) : i < j => log[i].id < log[j].id

\* entryAuditStatus "durable" is only shown when the ENTERED row of the active
\* episode is in the log.
AuditStatusHonest ==
    entryAudit = "durable" => Written(Row("ENTERED", anchorHash))

\* safe-state.ts: "Re-entry to RUNNING is NEVER automatic".  As a property of
\* the durable log: the status is not RUNNING after an entry without an exit.
NeverAutomatic == OpenEpisodeSince(0) => runState # "RUNNING"

\* runtime-actuator.ts, publish: "the controller records a RECOVERY_FAILED
\* transition rather than reporting a safe state that never reached the plant".
\* Outputs whose publication threw are reported as RECOVERY_FAILED once the
\* transition has ended.
FailedApplyReported ==
    plant = "unknown" /\ tail = <<>> => runState = "RECOVERY_FAILED"

\* One of the two claims at least is true.  A state where this fails refutes
\* both at once: start() reads no log, and enterSafeStateLocked calls applyAction
\* outside any try block.
SafeStateClaims == NeverAutomatic \/ FailedApplyReported

\* An operator's resume of a safe state succeeds once nothing fails any more,
\* whatever earlier failures left pending (resumeLocked).
ResumeWorks ==
    (/\ Running("resume", "ready")
     /\ Head(tail).by = "operator"
     /\ runState = "SAFE_STATE"
     /\ faults = MaxFaults) ~> runState = "RUNNING"

\* A sustained overrun halts the loop, or the loop recovers by itself: a trip
\* whose transition rejected is repeated (observeTick, tickOnce's finally).
OverrunHalts ==
    misses >= Limit /\ runState = "RUNNING" ~> halted \/ misses = 0

\* The chain drains: a failed transition never keeps the later ones from
\* running (runSerializedTransition).
TransitionsSettle == tail # <<>> ~> tail = <<>>

-----------------------------------------------------------------------------
\* The inductive strengthening.  A record that awaits a retry is either newer
\* than every row or is the last row, landed by an ambiguous write.
Newest(id) == \A i \in 1 .. Len(log) : log[i].id < id

Unconfirmed(transition, id) ==
    Newest(id) \/ (Len(log) > boot /\ log[Len(log)] = Row(transition, id))

EntryInLog ==
    \E i \in boot + 1 .. Len(log) : log[i] = Row("ENTERED", anchorHash)

PendingInv ==
    /\ pendingEntry # None =>
           /\ runState = "SAFE_STATE" /\ phase \in {"ready", "entryAudit"}
           /\ pendingExit = None /\ anchorHash = pendingEntry
           /\ entryAudit = "pending"
           /\ Unconfirmed("ENTERED", pendingEntry)
    /\ pendingExit # None =>
           /\ runState = "SAFE_STATE"
           /\ phase \in {"ready", "staleRequestAudit", "requestAudit"}
           /\ Unconfirmed("EXIT_REQUESTED", pendingExit)

\* What each await of a transition implies about the status.
PhaseInv ==
    /\ phase = "entryAnchor" => halted /\ plant = "safe"
                                /\ runState # "SAFE_STATE"
    /\ phase = "entryAudit" => pendingEntry # None
    /\ phase \in {"staleRequestAudit", "requestAudit"} => pendingExit # None
    /\ phase = "requestAnchor" => runState = "SAFE_STATE" /\ pendingEntry = None
    /\ phase \in {"exitAnchor", "exitAudit"} <=> runState = "RESUMING"
    /\ phase \in {"outcomeAnchor", "outcomeAudit"} =>
           runState \in {"SAFE_STATE", "RECOVERY_FAILED"}

\* Ids in the log: ordered, given out before, and older than the event whose
\* row is still to be written for the first time.
IdInv ==
    /\ LogInOrder
    /\ \A i \in 1 .. Len(log) : log[i].id <= events
    /\ phase \in {"entryAnchor", "requestAnchor", "exitAnchor", "exitAudit",
                  "outcomeAnchor", "outcomeAudit"} => Newest(events)
    /\ phase \in {"entryAnchor", "requestAnchor"} => events > 0

EntryInv ==
    /\ entryAudit = "durable" => EntryInLog
    /\ runState \in {"SAFE_STATE", "RESUMING"} /\ pendingEntry = None =>
           entryAudit = "durable"

SafeStateInv ==
    /\ PendingInv /\ PhaseInv /\ IdInv /\ EntryInv
    /\ ClaimIsPhysical /\ EpisodeHoldsPlant /\ ReleaseAuthorised
    /\ ExitIsRecorded

=============================================================================
