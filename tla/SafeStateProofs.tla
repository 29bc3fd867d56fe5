-------------------------- MODULE SafeStateProofs --------------------------
(***************************************************************************)
(* Proofs about SafeState for every tick limit and any number of trips,    *)
(* calls, faults and restarts.                                             *)
(*                                                                         *)
(* SafeStateInv is inductive.  Its heart is PendingInv: a record of        *)
(* unknown fate is the last row or newer than every row, because nothing   *)
(* is written before it has been confirmed; so writing it again neither    *)
(* duplicates nor reorders rows, and an episode is only left when its      *)
(* entry and the request are in the log.                                   *)
(***************************************************************************)
EXTENDS SafeState, TLAPS

\* The type of an audit row.
Rows == [transition : Transitions, id : Nat]

\* The row a suspended transition is writing.
LEMMA InFlightType ==
  ASSUME TypeOK, phase \in AuditPhases
  PROVE  InFlight \in Rows
BY DEF TypeOK, AuditPhases, InFlight, Row, Rows, Transitions

\* INSERT OR IGNORE either finds the row or appends it.
LEMMA LandEffect ==
  ASSUME NEW r \in Rows, log \in Seq(Rows),
         log' = IF Written(r) THEN log ELSE Append(log, r)
  PROVE  /\ log' \in Seq(Rows)
         /\ \/ Written(r) /\ log' = log
            \/ /\ Len(log') = Len(log) + 1 /\ log'[Len(log) + 1] = r
               /\ \A i \in 1 .. Len(log) : log'[i] = log[i]
<1>1. CASE Written(r)
  BY <1>1
<1>2. CASE ~Written(r)
  BY <1>2
<1> QED
  BY <1>1, <1>2

\* The log stays well typed when the row in flight lands.
LEMMA LandType ==
  ASSUME TypeOK, phase \in AuditPhases, UNCHANGED log \/ Land
  PROVE  log' \in Seq(Rows) /\ Len(log') \in Nat /\ Len(log') >= Len(log)
<1>1. log \in Seq(Rows) /\ Len(log) \in Nat
  BY DEF TypeOK, Rows
<1>2. CASE UNCHANGED log
  BY <1>1, <1>2
<1>3. CASE Land
  <2>1. log' = IF Written(InFlight) THEN log ELSE Append(log, InFlight)
    BY <1>3 DEF Land
  <2>2. InFlight \in Rows
    BY InFlightType
  <2> QED
    BY <1>1, <2>1, <2>2, LandEffect
<1> QED
  BY <1>2, <1>3

\* A transition that settles leaves the chain.
LEMMA SettleType ==
  ASSUME TypeOK, tail # <<>>, Settle
  PROVE  /\ tail' \in Seq(Requests) /\ ticking' \in BOOLEAN
         /\ phase' = "ready"
BY DEF TypeOK, Settle

\* A transition that awaits keeps its place at the head of the chain.
LEMMA SuspendType ==
  ASSUME TypeOK, tail # <<>>, NEW at \in Phases, Suspend(at)
  PROVE  /\ tail' \in Seq(Requests) /\ ticking' \in BOOLEAN
         /\ phase' \in Phases /\ tail' # <<>>
BY DEF TypeOK, Suspend

\* Joining the chain keeps it well typed.
LEMMA EnqueueType ==
  ASSUME TypeOK, NEW r \in Requests, Enqueue(r)
  PROVE  tail' \in Seq(Requests) /\ tail' # <<>>
BY SMTT(30) DEF TypeOK, Enqueue

\* Every step keeps the state well typed.
LEMMA TypeStep == TypeOK /\ [Next]_vars => TypeOK'
<1> SUFFICES ASSUME TypeOK, [Next]_vars PROVE TypeOK'
  OBVIOUS
<1> USE SafeStateAssumption
<1> USE DEF statusVars, pendingVars, plantVars, budgetVars, None
<1>0. Len(log) \in Nat /\ log \in Seq(Rows)
  BY DEF TypeOK, Rows
<1>1. CASE TickInBudget
  BY <1>1 DEF TickInBudget, TypeOK
<1>2. CASE TickOverBudget
  BY <1>2 DEF TickOverBudget, TypeOK
<1>3. CASE TickTrips
  <2>1. tail' \in Seq(Requests) /\ tail' # <<>>
    BY <1>3, EnqueueType DEF TickTrips, Requests
  <2> QED
    BY <1>3, <2>1, <1>0 DEF TickTrips, TypeOK, RunStates
<1>4. ASSUME NEW r \in Requests, Call(r) PROVE TypeOK'
  <2>1. tail' \in Seq(Requests) /\ tail' # <<>>
    BY <1>4, EnqueueType DEF Call
  <2> QED
    BY <1>4, <2>1 DEF Call, TypeOK
<1>5. CASE EnterAgain
  <2>1. tail # <<>>
    BY <1>5 DEF EnterAgain, Running, TypeOK
  <2>2. /\ tail' \in Seq(Requests) /\ ticking' \in BOOLEAN
        /\ phase' \in Phases /\ (phase' # "ready" => tail' # <<>>)
    BY <1>5, <2>1, SettleType, SuspendType DEF EnterAgain, Phases
  <2> QED
    BY <1>5, <2>1, <2>2, <1>0 DEF EnterAgain, Running, TypeOK, RunStates
<1>6. CASE EnterHalts
  <2>1. tail # <<>>
    BY <1>6 DEF EnterHalts, Running, TypeOK
  <2>2. /\ tail' \in Seq(Requests) /\ ticking' \in BOOLEAN
        /\ phase' \in Phases /\ (phase' # "ready" => tail' # <<>>)
    BY <1>6, <2>1, SettleType, SuspendType DEF EnterHalts, Phases
  <2> QED
    BY <1>6, <2>1, <2>2, <1>0 DEF EnterHalts, Running, HaltOk, ApplyOk,
       TypeOK, RunStates
<1>7. CASE EnterThrows
  <2>1. tail # <<>>
    BY <1>7 DEF EnterThrows, Running, TypeOK
  <2>2. /\ tail' \in Seq(Requests) /\ ticking' \in BOOLEAN
        /\ phase' \in Phases /\ (phase' # "ready" => tail' # <<>>)
    BY <1>7, <2>1, SettleType, SuspendType DEF EnterThrows, Phases
  <2>3. halted' \in BOOLEAN
    BY <1>7 DEF EnterThrows, Running, HaltOk, HaltThrows, ApplyThrows, Fault,
       TypeOK
  <2>4. plant' \in {"loop", "safe", "unknown"}
    BY <1>7 DEF EnterThrows, Running, HaltOk, HaltThrows, ApplyThrows, Fault,
       TypeOK
  <2>5. faults' \in 0 .. MaxFaults
    BY <1>7 DEF EnterThrows, Running, HaltOk, HaltThrows, ApplyThrows, Fault,
       TypeOK
  <2>6. UNCHANGED <<runState, entryAudit, anchorHash, pendingEntry, pendingExit,
                  misses, outcome, events, log, boot, trips, calls, restarts>>
    BY <1>7 DEF EnterThrows
  <2> QED
    BY <1>0, <2>1, <2>2, <2>3, <2>4, <2>5, <2>6 DEF TypeOK
<1>8. CASE EntryAnchored
  <2>1. tail # <<>>
    BY <1>8 DEF EntryAnchored, Running, TypeOK
  <2>2. /\ tail' \in Seq(Requests) /\ ticking' \in BOOLEAN
        /\ phase' \in Phases /\ (phase' # "ready" => tail' # <<>>)
    BY <1>8, <2>1, SettleType, SuspendType DEF EntryAnchored, Phases
  <2> QED
    BY <1>8, <2>1, <2>2, <1>0 DEF EntryAnchored, TypeOK, RunStates
<1>9. CASE EntryRecorded
  <2>1. /\ log' \in Seq([transition : Transitions, id : Nat])
        /\ Len(log') \in Nat /\ Len(log') >= Len(log)
    BY <1>9, LandType DEF EntryRecorded, AuditPhases, RecordOk, RecordThrows,
       Rows
  <2>2. tail # <<>>
    BY <1>9 DEF EntryRecorded, Running, TypeOK
  <2>3. /\ tail' \in Seq(Requests) /\ ticking' \in BOOLEAN
        /\ phase' \in Phases /\ (phase' # "ready" => tail' # <<>>)
    BY <1>9, <2>2, SettleType, SuspendType DEF EntryRecorded, BeginRequest,
       Phases
  <2> QED
    BY <1>9, <2>1, <2>2, <2>3, <1>0 DEF EntryRecorded, RecordOk, BeginRequest,
       TypeOK, RunStates
<1>10. CASE PendingRecordThrows
  <2>1. /\ log' \in Seq([transition : Transitions, id : Nat])
        /\ Len(log') \in Nat /\ Len(log') >= Len(log)
    BY <1>10, LandType DEF PendingRecordThrows, AuditPhases, RecordOk,
       RecordThrows, Rows
  <2>2. tail # <<>>
    BY <1>10 DEF PendingRecordThrows, Running, TypeOK
  <2>3. /\ tail' \in Seq(Requests) /\ ticking' \in BOOLEAN
        /\ phase' \in Phases /\ (phase' # "ready" => tail' # <<>>)
    BY <1>10, <2>2, SettleType, SuspendType DEF PendingRecordThrows, Phases
  <2> QED
    BY <1>10, <2>1, <2>2, <2>3, <1>0 DEF PendingRecordThrows, RecordThrows,
       Fault, TypeOK, RunStates
<1>11. CASE ResumeRefused
  <2>1. tail # <<>>
    BY <1>11 DEF ResumeRefused, Running, TypeOK
  <2>2. /\ tail' \in Seq(Requests) /\ ticking' \in BOOLEAN
        /\ phase' \in Phases /\ (phase' # "ready" => tail' # <<>>)
    BY <1>11, <2>1, SettleType, SuspendType DEF ResumeRefused, Phases
  <2> QED
    BY <1>11, <2>1, <2>2, <1>0 DEF ResumeRefused, Running, TypeOK, RunStates
<1>12. CASE ResumeBegins
  <2>1. tail # <<>>
    BY <1>12 DEF ResumeBegins, Running, TypeOK
  <2>2. /\ tail' \in Seq(Requests) /\ ticking' \in BOOLEAN
        /\ phase' \in Phases /\ (phase' # "ready" => tail' # <<>>)
    BY <1>12, <2>1, SettleType, SuspendType DEF ResumeBegins, BeginRequest,
       Phases
  <2> QED
    BY <1>12, <2>1, <2>2, <1>0 DEF ResumeBegins, Running, BeginRequest,
       TypeOK, RunStates
<1>13. CASE StaleRequestRecorded
  <2>1. /\ log' \in Seq([transition : Transitions, id : Nat])
        /\ Len(log') \in Nat /\ Len(log') >= Len(log)
    BY <1>13, LandType DEF StaleRequestRecorded, AuditPhases, RecordOk,
       RecordThrows, Rows
  <2>2. tail # <<>>
    BY <1>13 DEF StaleRequestRecorded, Running, TypeOK
  <2>3. /\ tail' \in Seq(Requests) /\ ticking' \in BOOLEAN
        /\ phase' \in Phases /\ (phase' # "ready" => tail' # <<>>)
    BY <1>13, <2>2, SettleType, SuspendType DEF StaleRequestRecorded, Phases
  <2> QED
    BY <1>13, <2>1, <2>2, <2>3, <1>0 DEF StaleRequestRecorded, RecordOk,
       TypeOK, RunStates
<1>14. CASE RequestAnchored
  <2>1. tail # <<>>
    BY <1>14 DEF RequestAnchored, Running, TypeOK
  <2>2. /\ tail' \in Seq(Requests) /\ ticking' \in BOOLEAN
        /\ phase' \in Phases /\ (phase' # "ready" => tail' # <<>>)
    BY <1>14, <2>1, SettleType, SuspendType DEF RequestAnchored, Phases
  <2> QED
    BY <1>14, <2>1, <2>2, <1>0 DEF RequestAnchored, TypeOK, RunStates
<1>15. CASE RequestRecorded
  <2>1. /\ log' \in Seq([transition : Transitions, id : Nat])
        /\ Len(log') \in Nat /\ Len(log') >= Len(log)
    BY <1>15, LandType DEF RequestRecorded, AuditPhases, RecordOk,
       RecordThrows, Rows
  <2>2. tail # <<>>
    BY <1>15 DEF RequestRecorded, Running, TypeOK
  <2>3. /\ tail' \in Seq(Requests) /\ ticking' \in BOOLEAN
        /\ phase' \in Phases /\ (phase' # "ready" => tail' # <<>>)
    BY <1>15, <2>2, SettleType, SuspendType DEF RequestRecorded, Phases
  <2>4. /\ anchorHash' \in 0 .. events' /\ pendingEntry' \in 0 .. events'
        /\ pendingExit' \in 0 .. events' /\ events' \in Nat
    BY <1>15, <2>1, <1>0 DEF RequestRecorded, RecordOk, TypeOK, RunStates
  <2>5. halted' \in BOOLEAN /\ runState' \in RunStates
    BY <1>15, <2>1, <1>0 DEF RequestRecorded, RecordOk, TypeOK, RunStates
  <2>6. boot' \in 0 .. Len(log')
    BY <1>15, <2>1, <1>0 DEF RequestRecorded, RecordOk, TypeOK, RunStates
  <2>7. UNCHANGED <<entryAudit, plant, misses, outcome, trips, calls, faults,
                  restarts>>
    BY <1>15 DEF RequestRecorded, RecordOk
  <2> QED
    BY <2>1, <2>2, <2>3, <2>4, <2>5, <2>6, <2>7 DEF TypeOK
<1>16. CASE ReleaseThrows
  <2>1. /\ log' \in Seq([transition : Transitions, id : Nat])
        /\ Len(log') \in Nat /\ Len(log') >= Len(log)
    BY <1>16, LandType DEF ReleaseThrows, AuditPhases, RecordOk, RecordThrows,
       Rows
  <2>2. tail # <<>>
    BY <1>16 DEF ReleaseThrows, Running, TypeOK
  <2>3. /\ tail' \in Seq(Requests) /\ ticking' \in BOOLEAN
        /\ phase' \in Phases /\ (phase' # "ready" => tail' # <<>>)
    BY <1>16, <2>2, SettleType, SuspendType DEF ReleaseThrows, Recover, Phases
  <2> QED
    BY <1>16, <2>1, <2>2, <2>3, <1>0 DEF ReleaseThrows, Recover, ApplyOk,
       ApplyThrows, TypeOK, RunStates
<1>17. CASE ExitAnchored
  <2>1. tail # <<>>
    BY <1>17 DEF ExitAnchored, Running, TypeOK
  <2>2. /\ tail' \in Seq(Requests) /\ ticking' \in BOOLEAN
        /\ phase' \in Phases /\ (phase' # "ready" => tail' # <<>>)
    BY <1>17, <2>1, SettleType, SuspendType DEF ExitAnchored, Phases
  <2> QED
    BY <1>17, <2>1, <2>2, <1>0 DEF ExitAnchored, TypeOK, RunStates
<1>18. CASE ExitRecorded
  <2>1. /\ log' \in Seq([transition : Transitions, id : Nat])
        /\ Len(log') \in Nat /\ Len(log') >= Len(log)
    BY <1>18, LandType DEF ExitRecorded, AuditPhases, RecordOk, RecordThrows,
       Rows
  <2>2. tail # <<>>
    BY <1>18 DEF ExitRecorded, Running, TypeOK
  <2>3. /\ tail' \in Seq(Requests) /\ ticking' \in BOOLEAN
        /\ phase' \in Phases /\ (phase' # "ready" => tail' # <<>>)
    BY <1>18, <2>2, SettleType, SuspendType DEF ExitRecorded, Phases
  <2> QED
    BY <1>18, <2>1, <2>2, <2>3, <1>0 DEF ExitRecorded, RecordOk, TypeOK,
       RunStates
<1>19. CASE ExitRecordThrows
  <2>1. /\ log' \in Seq([transition : Transitions, id : Nat])
        /\ Len(log') \in Nat /\ Len(log') >= Len(log)
    BY <1>19, LandType DEF ExitRecordThrows, AuditPhases, RecordOk,
       RecordThrows, Rows
  <2>2. tail # <<>>
    BY <1>19 DEF ExitRecordThrows, Running, TypeOK
  <2>3. /\ tail' \in Seq(Requests) /\ ticking' \in BOOLEAN
        /\ phase' \in Phases /\ (phase' # "ready" => tail' # <<>>)
    BY <1>19, <2>2, SettleType, SuspendType DEF ExitRecordThrows, Recover,
       Phases
  <2> QED
    BY <1>19, <2>1, <2>2, <2>3, <1>0 DEF ExitRecordThrows, Recover, ApplyOk,
       ApplyThrows, TypeOK, RunStates
<1>20. CASE OutcomeAnchored
  <2>1. tail # <<>>
    BY <1>20 DEF OutcomeAnchored, Running, TypeOK
  <2>2. /\ tail' \in Seq(Requests) /\ ticking' \in BOOLEAN
        /\ phase' \in Phases /\ (phase' # "ready" => tail' # <<>>)
    BY <1>20, <2>1, SettleType, SuspendType DEF OutcomeAnchored, Phases
  <2> QED
    BY <1>20, <2>1, <2>2, <1>0 DEF OutcomeAnchored, TypeOK, RunStates
<1>21. CASE OutcomeWritten
  <2>1. /\ log' \in Seq([transition : Transitions, id : Nat])
        /\ Len(log') \in Nat /\ Len(log') >= Len(log)
    BY <1>21, LandType DEF OutcomeWritten, AuditPhases, RecordOk,
       RecordThrows, Rows
  <2>2. tail # <<>>
    BY <1>21 DEF OutcomeWritten, Running, TypeOK
  <2>3. /\ tail' \in Seq(Requests) /\ ticking' \in BOOLEAN
        /\ phase' \in Phases /\ (phase' # "ready" => tail' # <<>>)
    BY <1>21, <2>2, SettleType, SuspendType DEF OutcomeWritten, Phases
  <2> QED
    BY <1>21, <2>1, <2>2, <2>3, <1>0 DEF OutcomeWritten, RecordOk,
       RecordThrows, Fault, TypeOK, RunStates
<1>22. CASE Restart
  <2>1. log' \in Seq([transition : Transitions, id : Nat]) /\ Len(log') \in Nat
    BY <1>22, <1>0, LandType DEF Restart, Rows
  <2>2. tail' \in Seq(Requests)
    BY <1>22 DEF Restart
  <2>3. boot' \in 0 .. Len(log') /\ restarts' \in 0 .. MaxRestarts
    BY <1>22, <2>1 DEF Restart, TypeOK
  <2>4. halted' \in BOOLEAN /\ ticking' \in BOOLEAN
    BY <1>22 DEF Restart
  <2> QED
    BY <1>22, <1>0, <2>1, <2>2, <2>3, <2>4 DEF Restart, TypeOK, RunStates,
       Phases
<1>23. CASE UNCHANGED vars
  BY <1>23 DEF vars, TypeOK
<1> QED
  BY <1>1, <1>2, <1>3, <1>4, <1>5, <1>6, <1>7, <1>8, <1>9, <1>10, <1>11,
     <1>12, <1>13, <1>14, <1>15, <1>16, <1>17, <1>18, <1>19, <1>20, <1>21,
     <1>22, <1>23 DEF Next, Transition

\* The row in flight is the last row already, or newer than every row.
LEMMA InFlightNewest ==
  ASSUME TypeOK, SafeStateInv, phase \in AuditPhases
  PROVE  /\ InFlight.id \in Nat /\ InFlight.id <= events
         /\ Newest(InFlight.id)
              \/ (Len(log) > boot /\ log[Len(log)] = InFlight)
<1> USE DEF SafeStateInv, PhaseInv, PendingInv, IdInv, InFlight, Row, None,
        Unconfirmed, TypeOK
<1>1. CASE phase = "entryAudit"
  BY <1>1
<1>2. CASE phase \in {"staleRequestAudit", "requestAudit"}
  BY <1>2
<1>3. CASE phase \in {"exitAudit", "outcomeAudit"}
  BY <1>3
<1> QED
  BY <1>1, <1>2, <1>3 DEF AuditPhases

\* What the log looks like once the row in flight has landed.
LEMMA Landed ==
  ASSUME TypeOK, SafeStateInv, phase \in AuditPhases, Land
  PROVE  /\ Len(log') \in Nat /\ Len(log') > boot
         /\ log'[Len(log')] = InFlight
         /\ \A i \in 1 .. Len(log') : log'[i].id \in Nat /\ log'[i].id <= events
         /\ LogInOrder'
         /\ \A r : (\E i \in boot + 1 .. Len(log) : log[i] = r) =>
                       \E i \in boot + 1 .. Len(log') : log'[i] = r
         /\ InFlight.transition # "ENTERED" =>
                \A i \in boot + 1 .. Len(log') :
                    log'[i].transition = "ENTERED"
                      => i <= Len(log) /\ log[i].transition = "ENTERED"
         /\ \A i \in 1 .. Len(log) : i <= Len(log') /\ log'[i] = log[i]
<1> DEFINE r == InFlight
<1>1. log \in Seq(Rows) /\ Len(log) \in Nat /\ boot \in 0 .. Len(log)
      /\ events \in Nat
  BY DEF TypeOK, Rows
<1>2. r \in Rows
  BY InFlightType
<1>3. r.id \in Nat /\ r.id <= events
  BY InFlightNewest
<1>4. /\ LogInOrder
      /\ \A i \in 1 .. Len(log) : log[i].id \in Nat /\ log[i].id <= events
  <2>1. \A i \in 1 .. Len(log) : log[i] \in Rows
    BY <1>1
  <2> QED
    BY <2>1 DEF SafeStateInv, IdInv, Rows
<1>5. CASE log' = log /\ Len(log) > boot /\ log[Len(log)] = r
  BY <1>1, <1>4, <1>5 DEF LogInOrder
<1>6. CASE /\ Newest(r.id)
           /\ Len(log') = Len(log) + 1 /\ log'[Len(log) + 1] = r
           /\ \A i \in 1 .. Len(log) : log'[i] = log[i]
  <2> HIDE DEF r
  <2>1. LogInOrder'
    <3> SUFFICES ASSUME NEW i \in 1 .. Len(log'), NEW j \in 1 .. Len(log'), i < j
                 PROVE  log'[i].id < log'[j].id
      BY DEF LogInOrder
    <3>1. i \in 1 .. Len(log) /\ log'[i] = log[i]
      BY <1>1, <1>6
    <3>2. CASE j \in 1 .. Len(log)
      BY <1>4, <1>6, <3>1, <3>2 DEF LogInOrder
    <3>3. CASE j = Len(log) + 1
      BY <1>6, <3>1, <3>3 DEF Newest
    <3> QED
      BY <1>1, <1>6, <3>2, <3>3
  <2>2. \A i \in 1 .. Len(log') : log'[i].id \in Nat /\ log'[i].id <= events
    BY <1>1, <1>3, <1>4, <1>6
  <2>3. \A a : (\E i \in boot + 1 .. Len(log) : log[i] = a) =>
                   \E i \in boot + 1 .. Len(log') : log'[i] = a
    BY <1>1, <1>6
  <2>4. r.transition # "ENTERED" =>
          \A i \in boot + 1 .. Len(log') :
              log'[i].transition = "ENTERED"
                => i <= Len(log) /\ log[i].transition = "ENTERED"
    BY <1>1, <1>6
  <2>5. Len(log') \in Nat /\ Len(log') > boot /\ log'[Len(log')] = r
    BY <1>1, <1>6
  <2>6. \A i \in 1 .. Len(log) : i <= Len(log') /\ log'[i] = log[i]
    BY <1>1, <1>6
  <2> QED
    BY <2>1, <2>2, <2>3, <2>4, <2>5, <2>6 DEF r
<1>7. Newest(r.id) => ~Written(r)
  BY <1>1, <1>3, <1>4 DEF Newest, Written
<1>8. Newest(r.id) \/ (Len(log) > boot /\ log[Len(log)] = r)
  BY InFlightNewest
<1>9. Len(log) > boot /\ log[Len(log)] = r => Written(r)
  BY <1>1 DEF Written
<1>10. ~Written(r) => log' = Append(log, r)
  BY DEF Land
<1>11. Written(r) => log' = log
  BY DEF Land
<1>12. ~Written(r) => /\ Len(log') = Len(log) + 1 /\ log'[Len(log) + 1] = r
                      /\ \A i \in 1 .. Len(log) : log'[i] = log[i]
  BY <1>1, <1>2, <1>10
<1> HIDE DEF r
<1>13. CASE Newest(r.id)
  BY <1>6, <1>7, <1>12, <1>13 DEF r
<1>14. CASE Len(log) > boot /\ log[Len(log)] = r
  BY <1>5, <1>9, <1>11, <1>14 DEF r
<1> QED
  BY <1>8, <1>13, <1>14

\* A row other than ENTERED opens no episode, and the log of an open one stays
\* open at most.
LEMMA LandedEpisode ==
  ASSUME TypeOK, SafeStateInv, phase \in AuditPhases, Land, boot' = boot,
         InFlight.transition # "ENTERED", OpenEpisodeSince(boot)'
  PROVE  OpenEpisodeSince(boot)
<1>1. PICK i \in boot + 1 .. Len(log') :
        /\ log'[i].transition = "ENTERED"
        /\ \A j \in i + 1 .. Len(log') : log'[j].transition # "EXITED"
  BY DEF OpenEpisodeSince
<1>2. i \in boot + 1 .. Len(log) /\ log[i].transition = "ENTERED"
  BY <1>1, Landed DEF TypeOK
<1>3. ASSUME NEW j \in i + 1 .. Len(log) PROVE log[j].transition # "EXITED"
  <2>1. j \in 1 .. Len(log) /\ j \in i + 1 .. Len(log') /\ log'[j] = log[j]
    BY <1>1, <1>2, <1>3, Landed DEF TypeOK
  <2> QED
    BY <1>1, <2>1
<1> QED
  BY <1>2, <1>3 DEF OpenEpisodeSince

\* A step that leaves the log alone.
LEMMA SameLog ==
  ASSUME log' = log, boot' = boot
  PROVE  /\ LogInOrder' <=> LogInOrder
         /\ OpenEpisodeSince(boot)' <=> OpenEpisodeSince(boot)
         /\ \A x : Newest(x)' <=> Newest(x)
         /\ \A t, x : Unconfirmed(t, x)' <=> Unconfirmed(t, x)
         /\ anchorHash' = anchorHash => (EntryInLog' <=> EntryInLog)
BY DEF LogInOrder, OpenEpisodeSince, Newest, Unconfirmed, EntryInLog, Row

\* A fresh event is newer than every row.
LEMMA FreshId ==
  ASSUME TypeOK, SafeStateInv, log' = log, events' = events + 1
  PROVE  Newest(events)' /\ \A i \in 1 .. Len(log') : log'[i].id <= events'
<1>1. \A i \in 1 .. Len(log) : log[i].id \in Nat /\ log[i].id <= events
  <2>1. log \in Seq(Rows)
    BY DEF TypeOK, Rows
  <2>2. \A i \in 1 .. Len(log) : log[i] \in Rows
    BY <2>1
  <2> QED
    BY <2>2 DEF SafeStateInv, IdInv, Rows
<1>2. events \in Nat
  BY DEF TypeOK
<1> QED
  BY <1>1, <1>2 DEF Newest

\* While the blueprint runs, its log shows no open episode.
LEMMA RunningIsClosed ==
  ASSUME TypeOK, SafeStateInv, runState = "RUNNING", ~halted
  PROVE  ~OpenEpisodeSince(boot)
<1> SUFFICES ASSUME NEW i \in boot + 1 .. Len(log),
                    log[i].transition = "ENTERED",
                    \A j \in i + 1 .. Len(log) : log[j].transition # "EXITED"
             PROVE  FALSE
  BY DEF OpenEpisodeSince
<1>1. Len(log) \in Nat /\ boot \in Nat
  BY DEF TypeOK
<1>2. log[Len(log)].transition = "EXITED"
  BY <1>1 DEF SafeStateInv, ExitIsRecorded
<1>3. CASE i = Len(log)
  BY <1>2, <1>3
<1>4. CASE Len(log) \in i + 1 .. Len(log)
  BY <1>2, <1>4
<1> QED
  BY <1>1, <1>3, <1>4

\* A step that writes, or fails to write, the row in flight.
LEMMA LogStep ==
  ASSUME TypeOK, SafeStateInv, phase \in AuditPhases, UNCHANGED log \/ Land,
         boot' = boot
  PROVE  /\ LogInOrder'
         /\ \A i \in 1 .. Len(log') : log'[i].id \in Nat /\ log'[i].id <= events
         /\ anchorHash' = anchorHash /\ EntryInLog => EntryInLog'
         /\ InFlight.transition # "ENTERED" /\ OpenEpisodeSince(boot)'
              => OpenEpisodeSince(boot)
<1>1. CASE UNCHANGED log
  <2>1. log \in Seq(Rows)
    BY DEF TypeOK, Rows
  <2>2. \A i \in 1 .. Len(log) : log[i] \in Rows
    BY <2>1
  <2> QED
    BY <1>1, <2>2, SameLog DEF SafeStateInv, IdInv, Rows
<1>2. CASE Land
  <2>1. /\ LogInOrder'
        /\ \A i \in 1 .. Len(log') : log'[i].id \in Nat /\ log'[i].id <= events
    BY <1>2, Landed
  <2>2. anchorHash' = anchorHash /\ EntryInLog => EntryInLog'
    BY <1>2, Landed DEF EntryInLog, Row
  <2>3. InFlight.transition # "ENTERED" /\ OpenEpisodeSince(boot)'
          => OpenEpisodeSince(boot)
    BY <1>2, LandedEpisode
  <2> QED
    BY <2>1, <2>2, <2>3
<1> QED
  BY <1>1, <1>2

\* After an audit write the ids stay ordered and given out, and an event that
\* begins then is newer than all of them.
LEMMA IdStep ==
  ASSUME TypeOK, SafeStateInv, phase \in AuditPhases, UNCHANGED log \/ Land,
         boot' = boot,
         \/ events' = events /\ phase' \in {"ready", "staleRequestAudit"}
         \/ events' = events + 1
  PROVE  IdInv'
<1>1. /\ LogInOrder'
      /\ \A i \in 1 .. Len(log') : log'[i].id \in Nat /\ log'[i].id <= events
  BY LogStep
<1>2. events \in Nat
  BY DEF TypeOK
<1>3. CASE events' = events + 1
  BY <1>1, <1>2, <1>3 DEF IdInv, Newest
<1>4. CASE events' = events /\ phase' \in {"ready", "staleRequestAudit"}
  BY <1>1, <1>4 DEF IdInv
<1> QED
  BY <1>3, <1>4

\* Every step keeps the inductive invariant.
LEMMA InvStep == TypeOK /\ SafeStateInv /\ [Next]_vars => SafeStateInv'
<1> SUFFICES ASSUME TypeOK, SafeStateInv, [Next]_vars PROVE SafeStateInv'
  OBVIOUS
<1> USE DEF statusVars, pendingVars, plantVars, budgetVars, None, SafeStateInv
<1>1. CASE TickInBudget
  <2>1. log' = log /\ boot' = boot
    BY <1>1 DEF TickInBudget
  <2>2. PhaseInv' /\ ClaimIsPhysical'
    BY <1>1 DEF TickInBudget, Settle, Suspend, Enqueue, PhaseInv, PendingInv,
       IdInv, ClaimIsPhysical
  <2>3. PendingInv'
    BY <1>1, <2>1, SameLog DEF TickInBudget, Settle, Suspend, Enqueue,
       PhaseInv, PendingInv, IdInv, Unconfirmed
  <2>4. IdInv'
    BY <1>1, <2>1, SameLog DEF TickInBudget, Settle, Suspend, Enqueue, IdInv
  <2>5. EntryInv'
    BY <1>1, <2>1, SameLog DEF TickInBudget, Settle, Suspend, Enqueue,
       EntryInv, PhaseInv, IdInv
  <2>6. EpisodeHoldsPlant'
    <3>1. ~OpenEpisodeSince(boot)
      BY <1>1, RunningIsClosed DEF TickInBudget
    <3> QED
      BY <2>1, <3>1, SameLog DEF EpisodeHoldsPlant
  <2>7. ReleaseAuthorised' /\ ExitIsRecorded'
    BY <1>1, <2>1 DEF TickInBudget, Settle, Suspend, Enqueue,
       ReleaseAuthorised, ExitIsRecorded, PhaseInv, Row
  <2> QED
    BY <2>2, <2>3, <2>4, <2>5, <2>6, <2>7
<1>2. CASE TickOverBudget
  <2>1. log' = log /\ boot' = boot
    BY <1>2 DEF TickOverBudget
  <2>2. PhaseInv' /\ ClaimIsPhysical'
    BY <1>2 DEF TickOverBudget, Settle, Suspend, Enqueue, PhaseInv,
       PendingInv, IdInv, ClaimIsPhysical
  <2>3. PendingInv'
    BY <1>2, <2>1, SameLog DEF TickOverBudget, Settle, Suspend, Enqueue,
       PhaseInv, PendingInv, IdInv, Unconfirmed
  <2>4. IdInv'
    BY <1>2, <2>1, SameLog DEF TickOverBudget, Settle, Suspend, Enqueue, IdInv
  <2>5. EntryInv'
    BY <1>2, <2>1, SameLog DEF TickOverBudget, Settle, Suspend, Enqueue,
       EntryInv, PhaseInv, IdInv
  <2>6. EpisodeHoldsPlant'
    <3>1. ~OpenEpisodeSince(boot)
      BY <1>2, RunningIsClosed DEF TickOverBudget
    <3> QED
      BY <2>1, <3>1, SameLog DEF EpisodeHoldsPlant
  <2>7. ReleaseAuthorised' /\ ExitIsRecorded'
    BY <1>2, <2>1 DEF TickOverBudget, Settle, Suspend, Enqueue,
       ReleaseAuthorised, ExitIsRecorded, PhaseInv, Row
  <2> QED
    BY <2>2, <2>3, <2>4, <2>5, <2>6, <2>7
<1>3. CASE TickTrips
  <2>1. log' = log /\ boot' = boot
    BY <1>3 DEF TickTrips
  <2>2. PhaseInv' /\ ClaimIsPhysical'
    BY <1>3 DEF TickTrips, Settle, Suspend, Enqueue, PhaseInv, PendingInv,
       IdInv, ClaimIsPhysical
  <2>3. PendingInv'
    BY <1>3, <2>1, SameLog DEF TickTrips, Settle, Suspend, Enqueue, PhaseInv,
       PendingInv, IdInv, Unconfirmed
  <2>4. IdInv'
    BY <1>3, <2>1, SameLog DEF TickTrips, Settle, Suspend, Enqueue, IdInv
  <2>5. EntryInv'
    BY <1>3, <2>1, SameLog DEF TickTrips, Settle, Suspend, Enqueue, EntryInv,
       PhaseInv, IdInv
  <2>6. EpisodeHoldsPlant'
    <3>1. ~OpenEpisodeSince(boot)
      BY <1>3, RunningIsClosed DEF TickTrips
    <3> QED
      BY <2>1, <3>1, SameLog DEF EpisodeHoldsPlant
  <2>7. ReleaseAuthorised' /\ ExitIsRecorded'
    BY <1>3, <2>1 DEF TickTrips, Settle, Suspend, Enqueue, ReleaseAuthorised,
       ExitIsRecorded, PhaseInv, Row
  <2> QED
    BY <2>2, <2>3, <2>4, <2>5, <2>6, <2>7
<1>4. ASSUME NEW q \in Requests, Call(q) PROVE SafeStateInv'
  <2>1. log' = log /\ boot' = boot
    BY <1>4 DEF Call
  <2>2. PhaseInv' /\ ClaimIsPhysical'
    BY <1>4 DEF Call, Settle, Suspend, Enqueue, PhaseInv, PendingInv, IdInv,
       ClaimIsPhysical
  <2>3. PendingInv'
    BY <1>4, <2>1, SameLog DEF Call, Settle, Suspend, Enqueue, PhaseInv,
       PendingInv, IdInv, Unconfirmed
  <2>4. IdInv'
    BY <1>4, <2>1, SameLog DEF Call, Settle, Suspend, Enqueue, IdInv
  <2>5. EntryInv'
    BY <1>4, <2>1, SameLog DEF Call, Settle, Suspend, Enqueue, EntryInv,
       PhaseInv, IdInv
  <2>6. EpisodeHoldsPlant'
    BY <1>4, <2>1, SameLog DEF Call, Settle, Suspend, Enqueue,
       EpisodeHoldsPlant
  <2>7. ReleaseAuthorised' /\ ExitIsRecorded'
    BY <1>4, <2>1 DEF Call, Settle, Suspend, Enqueue, ReleaseAuthorised,
       ExitIsRecorded, PhaseInv, Row
  <2> QED
    BY <2>2, <2>3, <2>4, <2>5, <2>6, <2>7
<1>5. CASE EnterAgain
  <2>1. log' = log /\ boot' = boot
    BY <1>5 DEF EnterAgain
  <2>2. PhaseInv' /\ ClaimIsPhysical'
    BY <1>5 DEF EnterAgain, Running, Settle, Suspend, Enqueue, PhaseInv,
       PendingInv, IdInv, ClaimIsPhysical
  <2>3. PendingInv'
    BY <1>5, <2>1, SameLog DEF EnterAgain, Running, Settle, Suspend, Enqueue,
       PhaseInv, PendingInv, IdInv, Unconfirmed
  <2>4. IdInv'
    BY <1>5, <2>1, SameLog DEF EnterAgain, Running, Settle, Suspend, Enqueue,
       IdInv
  <2>5. EntryInv'
    BY <1>5, <2>1, SameLog DEF EnterAgain, Running, Settle, Suspend, Enqueue,
       EntryInv, PhaseInv, IdInv
  <2>6. EpisodeHoldsPlant'
    BY <1>5, <2>1, SameLog DEF EnterAgain, Running, Settle, Suspend, Enqueue,
       EpisodeHoldsPlant
  <2>7. ReleaseAuthorised' /\ ExitIsRecorded'
    BY <1>5, <2>1 DEF EnterAgain, Running, Settle, Suspend, Enqueue,
       ReleaseAuthorised, ExitIsRecorded, PhaseInv, Row
  <2> QED
    BY <2>2, <2>3, <2>4, <2>5, <2>6, <2>7
<1>6. CASE EnterHalts
  <2>1. log' = log /\ boot' = boot
    BY <1>6 DEF EnterHalts
  <2>2. PhaseInv' /\ ClaimIsPhysical'
    BY <1>6 DEF EnterHalts, Running, HaltOk, ApplyOk, Settle, Suspend,
       Enqueue, PhaseInv, PendingInv, IdInv, ClaimIsPhysical
  <2>3. PendingInv'
    BY <1>6, <2>1, SameLog DEF EnterHalts, Running, HaltOk, ApplyOk, Settle,
       Suspend, Enqueue, PhaseInv, PendingInv, IdInv, Unconfirmed
  <2>4. IdInv'
    <3>1. events \in Nat
      BY DEF TypeOK
    <3>2. CASE events' = events + 1
      <4>1. Newest(events)' /\ \A i \in 1 .. Len(log') : log'[i].id <= events'
        BY <2>1, <3>2, FreshId
      <4>2. LogInOrder' /\ events' > 0
        BY <2>1, <3>1, <3>2, SameLog DEF IdInv
      <4> QED
        BY <4>1, <4>2 DEF IdInv
    <3>3. CASE events' = events /\ phase' \in {"entryAudit", "staleRequestAudit"}
      BY <2>1, <3>3, SameLog DEF IdInv
    <3> QED
      BY <1>6, <3>2, <3>3 DEF EnterHalts, Running, HaltOk, ApplyOk, Settle,
         Suspend, Enqueue
  <2>5. EntryInv'
    BY <1>6, <2>1, SameLog DEF EnterHalts, Running, HaltOk, ApplyOk, Settle,
       Suspend, Enqueue, EntryInv, PhaseInv, IdInv
  <2>6. EpisodeHoldsPlant'
    BY <1>6, <2>1, SameLog DEF EnterHalts, Running, HaltOk, ApplyOk, Settle,
       Suspend, Enqueue, EpisodeHoldsPlant
  <2>7. ReleaseAuthorised' /\ ExitIsRecorded'
    BY <1>6, <2>1 DEF EnterHalts, Running, HaltOk, ApplyOk, Settle, Suspend,
       Enqueue, ReleaseAuthorised, ExitIsRecorded, PhaseInv, Row
  <2> QED
    BY <2>2, <2>3, <2>4, <2>5, <2>6, <2>7
<1>7. CASE EnterThrows
  <2>1. log' = log /\ boot' = boot
    BY <1>7 DEF EnterThrows
  <2>2. PhaseInv' /\ ClaimIsPhysical'
    BY <1>7 DEF EnterThrows, Running, HaltOk, HaltThrows, ApplyThrows, Fault,
       Settle, Suspend, Enqueue, PhaseInv, PendingInv, IdInv, ClaimIsPhysical
  <2>3. PendingInv'
    BY <1>7, <2>1, SameLog DEF EnterThrows, Running, HaltOk, HaltThrows,
       ApplyThrows, Fault, Settle, Suspend, Enqueue, PhaseInv, PendingInv,
       IdInv, Unconfirmed
  <2>4. IdInv'
    BY <1>7, <2>1, SameLog DEF EnterThrows, Running, HaltOk, HaltThrows,
       ApplyThrows, Fault, Settle, Suspend, Enqueue, IdInv
  <2>5. EntryInv'
    BY <1>7, <2>1, SameLog DEF EnterThrows, Running, HaltOk, HaltThrows,
       ApplyThrows, Fault, Settle, Suspend, Enqueue, EntryInv, PhaseInv, IdInv
  <2>6. EpisodeHoldsPlant'
    BY <1>7, <2>1, SameLog DEF EnterThrows, Running, HaltOk, HaltThrows,
       ApplyThrows, Fault, Settle, Suspend, Enqueue, EpisodeHoldsPlant
  <2>7. ReleaseAuthorised' /\ ExitIsRecorded'
    BY <1>7, <2>1 DEF EnterThrows, Running, HaltOk, HaltThrows, ApplyThrows,
       Fault, Settle, Suspend, Enqueue, ReleaseAuthorised, ExitIsRecorded,
       PhaseInv, Row
  <2> QED
    BY <2>2, <2>3, <2>4, <2>5, <2>6, <2>7
<1>8. CASE EntryAnchored
  <2>1. log' = log /\ boot' = boot
    BY <1>8 DEF EntryAnchored
  <2>2. PhaseInv' /\ ClaimIsPhysical'
    BY <1>8 DEF EntryAnchored, Settle, Suspend, Enqueue, PhaseInv, PendingInv,
       IdInv, ClaimIsPhysical
  <2>3. PendingInv'
    BY <1>8, <2>1, SameLog DEF EntryAnchored, Settle, Suspend, Enqueue,
       PhaseInv, PendingInv, IdInv, Unconfirmed
  <2>4. IdInv'
    BY <1>8, <2>1, SameLog DEF EntryAnchored, Settle, Suspend, Enqueue, IdInv
  <2>5. EntryInv'
    BY <1>8, <2>1, SameLog DEF EntryAnchored, Settle, Suspend, Enqueue,
       EntryInv, PhaseInv, IdInv
  <2>6. EpisodeHoldsPlant'
    BY <1>8, <2>1, SameLog DEF EntryAnchored, Settle, Suspend, Enqueue,
       EpisodeHoldsPlant
  <2>7. ReleaseAuthorised' /\ ExitIsRecorded'
    BY <1>8, <2>1 DEF EntryAnchored, Settle, Suspend, Enqueue,
       ReleaseAuthorised, ExitIsRecorded, PhaseInv, Row
  <2> QED
    BY <2>2, <2>3, <2>4, <2>5, <2>6, <2>7
<1>9. CASE ResumeRefused
  <2>1. log' = log /\ boot' = boot
    BY <1>9 DEF ResumeRefused
  <2>2. PhaseInv' /\ ClaimIsPhysical'
    BY <1>9 DEF ResumeRefused, Running, Settle, Suspend, Enqueue, PhaseInv,
       PendingInv, IdInv, ClaimIsPhysical
  <2>3. PendingInv'
    BY <1>9, <2>1, SameLog DEF ResumeRefused, Running, Settle, Suspend,
       Enqueue, PhaseInv, PendingInv, IdInv, Unconfirmed
  <2>4. IdInv'
    BY <1>9, <2>1, SameLog DEF ResumeRefused, Running, Settle, Suspend,
       Enqueue, IdInv
  <2>5. EntryInv'
    BY <1>9, <2>1, SameLog DEF ResumeRefused, Running, Settle, Suspend,
       Enqueue, EntryInv, PhaseInv, IdInv
  <2>6. EpisodeHoldsPlant'
    BY <1>9, <2>1, SameLog DEF ResumeRefused, Running, Settle, Suspend,
       Enqueue, EpisodeHoldsPlant
  <2>7. ReleaseAuthorised' /\ ExitIsRecorded'
    BY <1>9, <2>1 DEF ResumeRefused, Running, Settle, Suspend, Enqueue,
       ReleaseAuthorised, ExitIsRecorded, PhaseInv, Row
  <2> QED
    BY <2>2, <2>3, <2>4, <2>5, <2>6, <2>7
<1>10. CASE ResumeBegins
  <2>1. log' = log /\ boot' = boot
    BY <1>10 DEF ResumeBegins
  <2>2. PhaseInv' /\ ClaimIsPhysical'
    BY <1>10 DEF ResumeBegins, Running, BeginRequest, Settle, Suspend,
       Enqueue, PhaseInv, PendingInv, IdInv, ClaimIsPhysical
  <2>3. PendingInv'
    BY <1>10, <2>1, SameLog DEF ResumeBegins, Running, BeginRequest, Settle,
       Suspend, Enqueue, PhaseInv, PendingInv, IdInv, Unconfirmed
  <2>4. IdInv'
    <3>1. events \in Nat
      BY DEF TypeOK
    <3>2. CASE events' = events + 1
      <4>1. Newest(events)' /\ \A i \in 1 .. Len(log') : log'[i].id <= events'
        BY <2>1, <3>2, FreshId
      <4>2. LogInOrder' /\ events' > 0
        BY <2>1, <3>1, <3>2, SameLog DEF IdInv
      <4> QED
        BY <4>1, <4>2 DEF IdInv
    <3>3. CASE events' = events /\ phase' \in {"entryAudit", "staleRequestAudit"}
      BY <2>1, <3>3, SameLog DEF IdInv
    <3> QED
      BY <1>10, <3>2, <3>3 DEF ResumeBegins, Running, BeginRequest, Settle,
         Suspend, Enqueue
  <2>5. EntryInv'
    BY <1>10, <2>1, SameLog DEF ResumeBegins, Running, BeginRequest, Settle,
       Suspend, Enqueue, EntryInv, PhaseInv, IdInv
  <2>6. EpisodeHoldsPlant'
    BY <1>10, <2>1, SameLog DEF ResumeBegins, Running, BeginRequest, Settle,
       Suspend, Enqueue, EpisodeHoldsPlant
  <2>7. ReleaseAuthorised' /\ ExitIsRecorded'
    BY <1>10, <2>1 DEF ResumeBegins, Running, BeginRequest, Settle, Suspend,
       Enqueue, ReleaseAuthorised, ExitIsRecorded, PhaseInv, Row
  <2> QED
    BY <2>2, <2>3, <2>4, <2>5, <2>6, <2>7
<1>11. CASE RequestAnchored
  <2>1. log' = log /\ boot' = boot
    BY <1>11 DEF RequestAnchored
  <2>2. PhaseInv' /\ ClaimIsPhysical'
    BY <1>11 DEF RequestAnchored, Settle, Suspend, Enqueue, PhaseInv,
       PendingInv, IdInv, ClaimIsPhysical
  <2>3. PendingInv'
    BY <1>11, <2>1, SameLog DEF RequestAnchored, Settle, Suspend, Enqueue,
       PhaseInv, PendingInv, IdInv, Unconfirmed
  <2>4. IdInv'
    BY <1>11, <2>1, SameLog DEF RequestAnchored, Settle, Suspend, Enqueue,
       IdInv
  <2>5. EntryInv'
    BY <1>11, <2>1, SameLog DEF RequestAnchored, Settle, Suspend, Enqueue,
       EntryInv, PhaseInv, IdInv
  <2>6. EpisodeHoldsPlant'
    BY <1>11, <2>1, SameLog DEF RequestAnchored, Settle, Suspend, Enqueue,
       EpisodeHoldsPlant
  <2>7. ReleaseAuthorised' /\ ExitIsRecorded'
    BY <1>11, <2>1 DEF RequestAnchored, Settle, Suspend, Enqueue,
       ReleaseAuthorised, ExitIsRecorded, PhaseInv, Row
  <2> QED
    BY <2>2, <2>3, <2>4, <2>5, <2>6, <2>7
<1>12. CASE ExitAnchored
  <2>1. log' = log /\ boot' = boot
    BY <1>12 DEF ExitAnchored
  <2>2. PhaseInv' /\ ClaimIsPhysical'
    BY <1>12 DEF ExitAnchored, Settle, Suspend, Enqueue, PhaseInv, PendingInv,
       IdInv, ClaimIsPhysical
  <2>3. PendingInv'
    BY <1>12, <2>1, SameLog DEF ExitAnchored, Settle, Suspend, Enqueue,
       PhaseInv, PendingInv, IdInv, Unconfirmed
  <2>4. IdInv'
    BY <1>12, <2>1, SameLog DEF ExitAnchored, Settle, Suspend, Enqueue, IdInv
  <2>5. EntryInv'
    BY <1>12, <2>1, SameLog DEF ExitAnchored, Settle, Suspend, Enqueue,
       EntryInv, PhaseInv, IdInv
  <2>6. EpisodeHoldsPlant'
    BY <1>12, <2>1, SameLog DEF ExitAnchored, Settle, Suspend, Enqueue,
       EpisodeHoldsPlant
  <2>7. ReleaseAuthorised' /\ ExitIsRecorded'
    BY <1>12, <2>1 DEF ExitAnchored, Settle, Suspend, Enqueue,
       ReleaseAuthorised, ExitIsRecorded, PhaseInv, Row
  <2> QED
    BY <2>2, <2>3, <2>4, <2>5, <2>6, <2>7
<1>13. CASE OutcomeAnchored
  <2>1. log' = log /\ boot' = boot
    BY <1>13 DEF OutcomeAnchored
  <2>2. PhaseInv' /\ ClaimIsPhysical'
    BY <1>13 DEF OutcomeAnchored, Settle, Suspend, Enqueue, PhaseInv,
       PendingInv, IdInv, ClaimIsPhysical
  <2>3. PendingInv'
    BY <1>13, <2>1, SameLog DEF OutcomeAnchored, Settle, Suspend, Enqueue,
       PhaseInv, PendingInv, IdInv, Unconfirmed
  <2>4. IdInv'
    BY <1>13, <2>1, SameLog DEF OutcomeAnchored, Settle, Suspend, Enqueue,
       IdInv
  <2>5. EntryInv'
    BY <1>13, <2>1, SameLog DEF OutcomeAnchored, Settle, Suspend, Enqueue,
       EntryInv, PhaseInv, IdInv
  <2>6. EpisodeHoldsPlant'
    BY <1>13, <2>1, SameLog DEF OutcomeAnchored, Settle, Suspend, Enqueue,
       EpisodeHoldsPlant
  <2>7. ReleaseAuthorised' /\ ExitIsRecorded'
    BY <1>13, <2>1 DEF OutcomeAnchored, Settle, Suspend, Enqueue,
       ReleaseAuthorised, ExitIsRecorded, PhaseInv, Row
  <2> QED
    BY <2>2, <2>3, <2>4, <2>5, <2>6, <2>7
<1>14. CASE EntryRecorded
  <2>1. phase \in AuditPhases /\ Land /\ boot' = boot
    BY <1>14 DEF EntryRecorded, AuditPhases, RecordOk, RecordThrows
  <2>2. /\ LogInOrder'
        /\ \A i \in 1 .. Len(log') : log'[i].id \in Nat /\ log'[i].id <= events
        /\ anchorHash' = anchorHash /\ EntryInLog => EntryInLog'
        /\ InFlight.transition # "ENTERED" /\ OpenEpisodeSince(boot)'
             => OpenEpisodeSince(boot)
    BY <2>1, LogStep
  <2>3. Land => /\ Len(log') \in Nat /\ Len(log') > boot
                /\ log'[Len(log')] = InFlight
    BY <2>1, Landed
  <2>4. InFlight = Row("ENTERED", pendingEntry)
    BY <1>14 DEF EntryRecorded, InFlight
  <2>5. PhaseInv' /\ ClaimIsPhysical'
    BY <1>14 DEF EntryRecorded, RecordOk, BeginRequest, Settle, Suspend,
       PhaseInv, PendingInv, IdInv, ClaimIsPhysical
  <2>6. PendingInv'
    BY <1>14 DEF EntryRecorded, RecordOk, BeginRequest, Settle, Suspend,
       PhaseInv, PendingInv
  <2>7. IdInv'
    <3>1. \/ events' = events /\ phase' \in {"ready", "staleRequestAudit"}
          \/ events' = events + 1
      BY <1>14 DEF EntryRecorded, RecordOk, BeginRequest, Settle, Suspend
    <3> QED
      BY <2>1, <3>1, IdStep
  <2>8. EntryInv'
    <3>1. EntryInLog'
      BY <1>14, <2>1, <2>3, <2>4 DEF EntryRecorded, PendingInv, PhaseInv,
         EntryInLog, Row, TypeOK
    <3> QED
      BY <1>14, <3>1 DEF EntryRecorded, EntryInv
  <2>9. EpisodeHoldsPlant'
    BY <1>14 DEF EntryRecorded, PhaseInv, PendingInv, ClaimIsPhysical,
       EpisodeHoldsPlant
  <2>10. ReleaseAuthorised'
    BY <1>14 DEF EntryRecorded, RecordOk, BeginRequest, Settle, Suspend,
       PhaseInv, PendingInv, ReleaseAuthorised
  <2>11. ExitIsRecorded'
    BY <1>14 DEF EntryRecorded, RecordOk, BeginRequest, Settle, Suspend,
       PhaseInv, PendingInv, ExitIsRecorded
  <2> QED
    BY <2>5, <2>6, <2>7, <2>8, <2>9, <2>10, <2>11
<1>15. CASE PendingRecordThrows
  <2>1. phase \in AuditPhases /\ (UNCHANGED log \/ Land) /\ boot' = boot
    BY <1>15 DEF PendingRecordThrows, AuditPhases, RecordOk, RecordThrows
  <2>2. /\ LogInOrder'
        /\ \A i \in 1 .. Len(log') : log'[i].id \in Nat /\ log'[i].id <= events
        /\ anchorHash' = anchorHash /\ EntryInLog => EntryInLog'
        /\ InFlight.transition # "ENTERED" /\ OpenEpisodeSince(boot)'
             => OpenEpisodeSince(boot)
    BY <2>1, LogStep
  <2>3. Land => /\ Len(log') \in Nat /\ Len(log') > boot
                /\ log'[Len(log')] = InFlight
    BY <2>1, Landed
  <2>4. /\ phase = "entryAudit" => InFlight = Row("ENTERED", pendingEntry)
        /\ phase # "entryAudit" => InFlight = Row("EXIT_REQUESTED", pendingExit)
    BY <1>15 DEF PendingRecordThrows, InFlight
  <2>5. PhaseInv' /\ ClaimIsPhysical'
    BY <1>15 DEF PendingRecordThrows, RecordThrows, Fault, Settle, PhaseInv,
       PendingInv, IdInv, ClaimIsPhysical
  <2>6. PendingInv'
    <3>1. CASE UNCHANGED log
      BY <1>15, <2>1, <3>1, SameLog DEF PendingRecordThrows, RecordThrows,
         Fault, Settle, PhaseInv, PendingInv
    <3>2. CASE Land
      BY <1>15, <2>1, <2>3, <2>4, <3>2 DEF PendingRecordThrows, RecordThrows,
         Fault, Settle, PhaseInv, PendingInv, Unconfirmed
    <3> QED
      BY <2>1, <3>1, <3>2
  <2>7. IdInv'
    <3>1. \/ events' = events /\ phase' \in {"ready", "staleRequestAudit"}
          \/ events' = events + 1
      BY <1>15 DEF PendingRecordThrows, RecordThrows, Fault, Settle
    <3> QED
      BY <2>1, <3>1, IdStep
  <2>8. EntryInv'
    BY <1>15, <2>2 DEF PendingRecordThrows, RecordThrows, Fault, Settle,
       EntryInv, PhaseInv, PendingInv
  <2>9. EpisodeHoldsPlant'
    BY <1>15 DEF PendingRecordThrows, PhaseInv, PendingInv, ClaimIsPhysical,
       EpisodeHoldsPlant
  <2>10. ReleaseAuthorised'
    BY <1>15 DEF PendingRecordThrows, RecordThrows, Fault, Settle, PhaseInv,
       PendingInv, ReleaseAuthorised
  <2>11. ExitIsRecorded'
    BY <1>15 DEF PendingRecordThrows, RecordThrows, Fault, Settle, PhaseInv,
       PendingInv, ExitIsRecorded
  <2> QED
    BY <2>5, <2>6, <2>7, <2>8, <2>9, <2>10, <2>11
<1>16. CASE StaleRequestRecorded
  <2>1. phase \in AuditPhases /\ Land /\ boot' = boot
    BY <1>16 DEF StaleRequestRecorded, AuditPhases, RecordOk, RecordThrows
  <2>2. /\ LogInOrder'
        /\ \A i \in 1 .. Len(log') : log'[i].id \in Nat /\ log'[i].id <= events
        /\ anchorHash' = anchorHash /\ EntryInLog => EntryInLog'
        /\ InFlight.transition # "ENTERED" /\ OpenEpisodeSince(boot)'
             => OpenEpisodeSince(boot)
    BY <2>1, LogStep
  <2>3. Land => /\ Len(log') \in Nat /\ Len(log') > boot
                /\ log'[Len(log')] = InFlight
    BY <2>1, Landed
  <2>4. InFlight = Row("EXIT_REQUESTED", pendingExit)
    BY <1>16 DEF StaleRequestRecorded, InFlight
  <2>5. PhaseInv' /\ ClaimIsPhysical'
    BY <1>16 DEF StaleRequestRecorded, RecordOk, Suspend, PhaseInv,
       PendingInv, IdInv, ClaimIsPhysical
  <2>6. PendingInv'
    BY <1>16 DEF StaleRequestRecorded, RecordOk, Suspend, PhaseInv, PendingInv
  <2>7. IdInv'
    <3>1. \/ events' = events /\ phase' \in {"ready", "staleRequestAudit"}
          \/ events' = events + 1
      BY <1>16 DEF StaleRequestRecorded, RecordOk, Suspend
    <3> QED
      BY <2>1, <3>1, IdStep
  <2>8. EntryInv'
    BY <1>16, <2>2 DEF StaleRequestRecorded, RecordOk, Suspend, EntryInv,
       PhaseInv, PendingInv
  <2>9. EpisodeHoldsPlant'
    BY <1>16, <2>2, <2>4 DEF StaleRequestRecorded, RecordOk, Suspend,
       EpisodeHoldsPlant, Row
  <2>10. ReleaseAuthorised'
    BY <1>16 DEF StaleRequestRecorded, RecordOk, Suspend, PhaseInv,
       PendingInv, ReleaseAuthorised
  <2>11. ExitIsRecorded'
    BY <1>16 DEF StaleRequestRecorded, RecordOk, Suspend, PhaseInv,
       PendingInv, ExitIsRecorded
  <2> QED
    BY <2>5, <2>6, <2>7, <2>8, <2>9, <2>10, <2>11
<1>17. CASE RequestRecorded
  <2>1. phase \in AuditPhases /\ Land /\ boot' = boot
    BY <1>17 DEF RequestRecorded, AuditPhases, RecordOk, RecordThrows
  <2>2. /\ LogInOrder'
        /\ \A i \in 1 .. Len(log') : log'[i].id \in Nat /\ log'[i].id <= events
        /\ anchorHash' = anchorHash /\ EntryInLog => EntryInLog'
        /\ InFlight.transition # "ENTERED" /\ OpenEpisodeSince(boot)'
             => OpenEpisodeSince(boot)
    BY <2>1, LogStep
  <2>3. Land => /\ Len(log') \in Nat /\ Len(log') > boot
                /\ log'[Len(log')] = InFlight
    BY <2>1, Landed
  <2>4. InFlight = Row("EXIT_REQUESTED", pendingExit)
    BY <1>17 DEF RequestRecorded, InFlight
  <2>5. PhaseInv' /\ ClaimIsPhysical'
    BY <1>17 DEF RequestRecorded, RecordOk, Suspend, PhaseInv, PendingInv,
       IdInv, ClaimIsPhysical
  <2>6. PendingInv'
    BY <1>17 DEF RequestRecorded, RecordOk, Suspend, PhaseInv, PendingInv
  <2>7. IdInv'
    <3>1. \/ events' = events /\ phase' \in {"ready", "staleRequestAudit"}
          \/ events' = events + 1
      BY <1>17 DEF RequestRecorded, RecordOk, Suspend
    <3> QED
      BY <2>1, <3>1, IdStep
  <2>8. EntryInv'
    BY <1>17, <2>2 DEF RequestRecorded, RecordOk, Suspend, EntryInv, PhaseInv,
       PendingInv
  <2>9. EpisodeHoldsPlant'
    BY <1>17, <2>2, <2>4 DEF RequestRecorded, RecordOk, Suspend,
       EpisodeHoldsPlant, Row
  <2>10. ReleaseAuthorised'
    <3>1. EntryInLog
      BY <1>17 DEF RequestRecorded, PhaseInv, PendingInv, EntryInv
    <3>2. EntryInLog' /\ Len(log') > boot'
      BY <1>17, <2>1, <2>2, <2>3, <3>1 DEF RequestRecorded
    <3>3. log'[Len(log')].transition = "EXIT_REQUESTED"
      BY <2>1, <2>3, <2>4 DEF Row
    <3> QED
      BY <3>2, <3>3 DEF ReleaseAuthorised, EntryInLog
  <2>11. ExitIsRecorded'
    BY <1>17 DEF RequestRecorded, RecordOk, Suspend, PhaseInv, PendingInv,
       ExitIsRecorded
  <2> QED
    BY <2>5, <2>6, <2>7, <2>8, <2>9, <2>10, <2>11
<1>18. CASE ReleaseThrows
  <2>1. phase \in AuditPhases /\ Land /\ boot' = boot
    BY <1>18 DEF ReleaseThrows, AuditPhases, RecordOk, RecordThrows
  <2>2. /\ LogInOrder'
        /\ \A i \in 1 .. Len(log') : log'[i].id \in Nat /\ log'[i].id <= events
        /\ anchorHash' = anchorHash /\ EntryInLog => EntryInLog'
        /\ InFlight.transition # "ENTERED" /\ OpenEpisodeSince(boot)'
             => OpenEpisodeSince(boot)
    BY <2>1, LogStep
  <2>3. Land => /\ Len(log') \in Nat /\ Len(log') > boot
                /\ log'[Len(log')] = InFlight
    BY <2>1, Landed
  <2>4. InFlight = Row("EXIT_REQUESTED", pendingExit)
    BY <1>18 DEF ReleaseThrows, InFlight
  <2>5. PhaseInv' /\ ClaimIsPhysical'
    BY <1>18 DEF ReleaseThrows, Recover, ApplyOk, ApplyThrows, Suspend,
       PhaseInv, PendingInv, IdInv, ClaimIsPhysical
  <2>6. PendingInv'
    BY <1>18 DEF ReleaseThrows, Recover, ApplyOk, ApplyThrows, Suspend,
       PhaseInv, PendingInv
  <2>7. IdInv'
    <3>1. \/ events' = events /\ phase' \in {"ready", "staleRequestAudit"}
          \/ events' = events + 1
      BY <1>18 DEF ReleaseThrows, Recover, ApplyOk, ApplyThrows, Suspend
    <3> QED
      BY <2>1, <3>1, IdStep
  <2>8. EntryInv'
    BY <1>18, <2>2 DEF ReleaseThrows, Recover, ApplyOk, ApplyThrows, Suspend,
       EntryInv, PhaseInv, PendingInv
  <2>9. EpisodeHoldsPlant'
    BY <1>18, <2>2, <2>4 DEF ReleaseThrows, Recover, ApplyOk, ApplyThrows,
       Suspend, EpisodeHoldsPlant, Row
  <2>10. ReleaseAuthorised'
    BY <1>18 DEF ReleaseThrows, Recover, ApplyOk, ApplyThrows, Suspend,
       PhaseInv, PendingInv, ReleaseAuthorised
  <2>11. ExitIsRecorded'
    BY <1>18 DEF ReleaseThrows, Recover, ApplyOk, ApplyThrows, Suspend,
       PhaseInv, PendingInv, ExitIsRecorded
  <2> QED
    BY <2>5, <2>6, <2>7, <2>8, <2>9, <2>10, <2>11
<1>19. CASE ExitRecorded
  <2>1. phase \in AuditPhases /\ Land /\ boot' = boot
    BY <1>19 DEF ExitRecorded, AuditPhases, RecordOk, RecordThrows
  <2>2. /\ LogInOrder'
        /\ \A i \in 1 .. Len(log') : log'[i].id \in Nat /\ log'[i].id <= events
        /\ anchorHash' = anchorHash /\ EntryInLog => EntryInLog'
        /\ InFlight.transition # "ENTERED" /\ OpenEpisodeSince(boot)'
             => OpenEpisodeSince(boot)
    BY <2>1, LogStep
  <2>3. Land => /\ Len(log') \in Nat /\ Len(log') > boot
                /\ log'[Len(log')] = InFlight
    BY <2>1, Landed
  <2>4. InFlight = Row("EXITED", events)
    BY <1>19 DEF ExitRecorded, InFlight
  <2>5. PhaseInv' /\ ClaimIsPhysical'
    BY <1>19 DEF ExitRecorded, RecordOk, Settle, PhaseInv, PendingInv, IdInv,
       ClaimIsPhysical
  <2>6. PendingInv'
    BY <1>19 DEF ExitRecorded, RecordOk, Settle, PhaseInv, PendingInv
  <2>7. IdInv'
    <3>1. \/ events' = events /\ phase' \in {"ready", "staleRequestAudit"}
          \/ events' = events + 1
      BY <1>19 DEF ExitRecorded, RecordOk, Settle
    <3> QED
      BY <2>1, <3>1, IdStep
  <2>8. EntryInv'
    BY <1>19, <2>2 DEF ExitRecorded, RecordOk, Settle, EntryInv, PhaseInv,
       PendingInv
  <2>9. EpisodeHoldsPlant'
    BY <1>19, <2>2, <2>4 DEF ExitRecorded, RecordOk, Settle,
       EpisodeHoldsPlant, Row
  <2>10. ReleaseAuthorised'
    BY <1>19 DEF ExitRecorded, RecordOk, Settle, PhaseInv, PendingInv,
       ReleaseAuthorised
  <2>11. ExitIsRecorded'
    BY <2>1, <2>3, <2>4 DEF ExitIsRecorded, Row
  <2> QED
    BY <2>5, <2>6, <2>7, <2>8, <2>9, <2>10, <2>11
<1>20. CASE ExitRecordThrows
  <2>1. phase \in AuditPhases /\ (UNCHANGED log \/ Land) /\ boot' = boot
    BY <1>20 DEF ExitRecordThrows, AuditPhases, RecordOk, RecordThrows
  <2>2. /\ LogInOrder'
        /\ \A i \in 1 .. Len(log') : log'[i].id \in Nat /\ log'[i].id <= events
        /\ anchorHash' = anchorHash /\ EntryInLog => EntryInLog'
        /\ InFlight.transition # "ENTERED" /\ OpenEpisodeSince(boot)'
             => OpenEpisodeSince(boot)
    BY <2>1, LogStep
  <2>3. Land => /\ Len(log') \in Nat /\ Len(log') > boot
                /\ log'[Len(log')] = InFlight
    BY <2>1, Landed
  <2>4. InFlight = Row("EXITED", events)
    BY <1>20 DEF ExitRecordThrows, InFlight
  <2>5. PhaseInv' /\ ClaimIsPhysical'
    BY <1>20 DEF ExitRecordThrows, Recover, ApplyOk, ApplyThrows, Suspend,
       PhaseInv, PendingInv, IdInv, ClaimIsPhysical
  <2>6. PendingInv'
    BY <1>20 DEF ExitRecordThrows, Recover, ApplyOk, ApplyThrows, Suspend,
       PhaseInv, PendingInv
  <2>7. IdInv'
    <3>1. \/ events' = events /\ phase' \in {"ready", "staleRequestAudit"}
          \/ events' = events + 1
      BY <1>20 DEF ExitRecordThrows, Recover, ApplyOk, ApplyThrows, Suspend
    <3> QED
      BY <2>1, <3>1, IdStep
  <2>8. EntryInv'
    BY <1>20, <2>2 DEF ExitRecordThrows, Recover, ApplyOk, ApplyThrows,
       Suspend, EntryInv, PhaseInv, PendingInv
  <2>9. EpisodeHoldsPlant'
    BY <1>20, <2>2, <2>4 DEF ExitRecordThrows, Recover, ApplyOk, ApplyThrows,
       Suspend, EpisodeHoldsPlant, Row
  <2>10. ReleaseAuthorised'
    BY <1>20 DEF ExitRecordThrows, Recover, ApplyOk, ApplyThrows, Suspend,
       PhaseInv, PendingInv, ReleaseAuthorised
  <2>11. ExitIsRecorded'
    BY <1>20 DEF ExitRecordThrows, Recover, ApplyOk, ApplyThrows, Suspend,
       PhaseInv, PendingInv, ExitIsRecorded
  <2> QED
    BY <2>5, <2>6, <2>7, <2>8, <2>9, <2>10, <2>11
<1>21. CASE OutcomeWritten
  <2>1. phase \in AuditPhases /\ (UNCHANGED log \/ Land) /\ boot' = boot
    BY <1>21 DEF OutcomeWritten, AuditPhases, RecordOk, RecordThrows
  <2>2. /\ LogInOrder'
        /\ \A i \in 1 .. Len(log') : log'[i].id \in Nat /\ log'[i].id <= events
        /\ anchorHash' = anchorHash /\ EntryInLog => EntryInLog'
        /\ InFlight.transition # "ENTERED" /\ OpenEpisodeSince(boot)'
             => OpenEpisodeSince(boot)
    BY <2>1, LogStep
  <2>3. Land => /\ Len(log') \in Nat /\ Len(log') > boot
                /\ log'[Len(log')] = InFlight
    BY <2>1, Landed
  <2>4. InFlight = Row(outcome, events)
    BY <1>21 DEF OutcomeWritten, InFlight
  <2>5. PhaseInv' /\ ClaimIsPhysical'
    BY <1>21 DEF OutcomeWritten, RecordOk, RecordThrows, Fault, Settle,
       PhaseInv, PendingInv, IdInv, ClaimIsPhysical
  <2>6. PendingInv'
    BY <1>21 DEF OutcomeWritten, RecordOk, RecordThrows, Fault, Settle,
       PhaseInv, PendingInv
  <2>7. IdInv'
    <3>1. \/ events' = events /\ phase' \in {"ready", "staleRequestAudit"}
          \/ events' = events + 1
      BY <1>21 DEF OutcomeWritten, RecordOk, RecordThrows, Fault, Settle
    <3> QED
      BY <2>1, <3>1, IdStep
  <2>8. EntryInv'
    BY <1>21, <2>2 DEF OutcomeWritten, RecordOk, RecordThrows, Fault, Settle,
       EntryInv, PhaseInv, PendingInv
  <2>9. EpisodeHoldsPlant'
    <3>1. InFlight.transition # "ENTERED"
      BY <2>4 DEF Row, TypeOK
    <3> QED
      BY <1>21, <2>2, <3>1 DEF OutcomeWritten, EpisodeHoldsPlant
  <2>10. ReleaseAuthorised'
    BY <1>21 DEF OutcomeWritten, RecordOk, RecordThrows, Fault, Settle,
       PhaseInv, PendingInv, ReleaseAuthorised
  <2>11. ExitIsRecorded'
    BY <1>21 DEF OutcomeWritten, RecordOk, RecordThrows, Fault, Settle,
       PhaseInv, PendingInv, ExitIsRecorded
  <2> QED
    BY <2>5, <2>6, <2>7, <2>8, <2>9, <2>10, <2>11
<1>22. CASE Restart
  <2>1. boot' = Len(log') /\ Len(log') \in Nat
    BY <1>22, LandType DEF Restart, TypeOK
  <2>2. /\ LogInOrder'
        /\ \A i \in 1 .. Len(log') : log'[i].id \in Nat /\ log'[i].id <= events
    <3>1. CASE phase \in AuditPhases /\ Land
      BY <3>1, Landed
    <3>2. CASE UNCHANGED log
      <4>1. log \in Seq(Rows)
        BY DEF TypeOK, Rows
      <4>2. \A i \in 1 .. Len(log) : log[i] \in Rows
        BY <4>1
      <4> QED
        BY <3>2, <4>2 DEF IdInv, LogInOrder, Rows
    <3> QED
      BY <1>22, <3>1, <3>2 DEF Restart
  <2>3. PhaseInv' /\ ClaimIsPhysical' /\ PendingInv' /\ EntryInv'
    BY <1>22 DEF Restart, PhaseInv, ClaimIsPhysical, PendingInv, EntryInv
  <2>4. IdInv'
    BY <1>22, <2>2 DEF Restart, IdInv
  <2>5. EpisodeHoldsPlant' /\ ReleaseAuthorised' /\ ExitIsRecorded'
    BY <1>22, <2>1 DEF Restart, EpisodeHoldsPlant, OpenEpisodeSince,
       ReleaseAuthorised, ExitIsRecorded
  <2> QED
    BY <2>3, <2>4, <2>5
<1>23. CASE UNCHANGED vars
  <2>1. log' = log /\ boot' = boot
    BY <1>23 DEF vars
  <2> QED
    BY <1>23, <2>1, SameLog DEF vars, PhaseInv, ClaimIsPhysical, PendingInv,
       EntryInv, IdInv, EpisodeHoldsPlant, ReleaseAuthorised, ExitIsRecorded,
       EntryInLog
<1> QED
  BY <1>1, <1>2, <1>3, <1>4, <1>5, <1>6, <1>7, <1>8, <1>9, <1>10, <1>11,
     <1>12, <1>13, <1>14, <1>15, <1>16, <1>17, <1>18, <1>19, <1>20, <1>21,
     <1>22, <1>23 DEF Next, Transition

\* The initial state is well typed and satisfies the inductive invariant.
LEMMA InitInv == Init => TypeOK /\ SafeStateInv
<1> SUFFICES ASSUME Init PROVE TypeOK /\ SafeStateInv
  OBVIOUS
<1> USE DEF Init, None
<1>1. TypeOK
  <2>1. log \in Seq([transition : Transitions, id : Nat]) /\ Len(log) = 0
    OBVIOUS
  <2>2. tail \in Seq(Requests)
    OBVIOUS
  <2>3. halted \in BOOLEAN /\ ticking \in BOOLEAN
    OBVIOUS
  <2> QED
    BY <2>1, <2>2, <2>3, SafeStateAssumption DEF TypeOK, RunStates, Phases
<1>2. PendingInv /\ PhaseInv /\ IdInv /\ EntryInv
  BY DEF PendingInv, PhaseInv, IdInv, EntryInv, LogInOrder
<1>3. /\ ClaimIsPhysical /\ EpisodeHoldsPlant
      /\ ReleaseAuthorised /\ ExitIsRecorded
  BY DEF ClaimIsPhysical, EpisodeHoldsPlant, OpenEpisodeSince,
     ReleaseAuthorised, ExitIsRecorded
<1> QED
  BY <1>1, <1>2, <1>3 DEF SafeStateInv

\* Every reachable state of the controller is well typed.
THEOREM TypeCorrect == Spec => []TypeOK
<1>1. Init => TypeOK
  BY InitInv
<1>2. TypeOK /\ [Next]_vars => TypeOK'
  BY TypeStep
<1> QED
  BY <1>1, <1>2, PTL DEF Spec

\* The inductive invariant holds in every reachable state.
LEMMA Invariant == Spec => [](TypeOK /\ SafeStateInv)
<1> DEFINE I == TypeOK /\ SafeStateInv
<1>1. Init => I
  BY InitInv
<1>2. I /\ [Next]_vars => I'
  BY TypeStep, InvStep
<1> QED
  BY <1>1, <1>2, PTL DEF Spec

\* A reported safe state is a physical one, whatever fails and in whatever
\* order entries, resumes, ticks and restarts interleave.
THEOREM SafeStateIsPhysical == Spec => []ClaimIsPhysical
<1>1. TypeOK /\ SafeStateInv => ClaimIsPhysical
  BY DEF SafeStateInv
<1> QED
  BY <1>1, Invariant, PTL

\* No control tick drives the outputs while the log shows an open episode of
\* this process.
THEOREM PlantHeldDuringEpisode == Spec => []EpisodeHoldsPlant
<1>1. TypeOK /\ SafeStateInv => EpisodeHoldsPlant
  BY DEF SafeStateInv
<1> QED
  BY <1>1, Invariant, PTL

\* The loop is only released after the entry and the operator's request are
\* durable.
THEOREM ReleaseIsAuthorised == Spec => []ReleaseAuthorised
<1>1. TypeOK /\ SafeStateInv => ReleaseAuthorised
  BY DEF SafeStateInv
<1> QED
  BY <1>1, Invariant, PTL

\* A running blueprint that left a safe state has a durable EXITED row.
THEOREM RunningIsRecorded == Spec => []ExitIsRecorded
<1>1. TypeOK /\ SafeStateInv => ExitIsRecorded
  BY DEF SafeStateInv
<1> QED
  BY <1>1, Invariant, PTL

\* Retrying records of unknown fate neither duplicates nor reorders rows.
THEOREM LogIsOrdered == Spec => []LogInOrder
<1>1. TypeOK /\ SafeStateInv => LogInOrder
  BY DEF SafeStateInv, IdInv
<1> QED
  BY <1>1, Invariant, PTL

\* A status that shows its entry as durable has the row in the log.
THEOREM StatusIsHonest == Spec => []AuditStatusHonest
<1>1. TypeOK /\ SafeStateInv => AuditStatusHonest
  BY DEF SafeStateInv, EntryInv, EntryInLog, AuditStatusHonest, Written,
     TypeOK
<1> QED
  BY <1>1, Invariant, PTL

=============================================================================
