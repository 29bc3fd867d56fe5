----------------------- MODULE StoreAndForwardProofs -----------------------
(***************************************************************************)
(* Proofs about StoreAndForward for every value of its constants.          *)
(*                                                                         *)
(* SafetyInv is proved inductive conjunct by conjunct: each ...Step lemma  *)
(* takes the conjuncts its argument needs and one step of Next, one proof  *)
(* step per action.  The argument in one breath: the promise chain gives   *)
(* one writer at a time (LockInv), shutdown() saves only when no sync is   *)
(* left in the chain (StoppedInv, ChainInv), so every snapshot written is  *)
(* localStore itself (ImageInv), which always holds what is owed.          *)
(***************************************************************************)
EXTENDS StoreAndForward, FiniteSetTheorems, TLAPS

\* Writing attempts or merged contents and resealing leaves the ids alone.
LEMMA TouchFact ==
  ASSUME NEW m \in Image, NEW S
  PROVE  Touch(m, S) = [ids |-> m.ids, bad |-> m.bad \ S]
<1>1. (m.bad \cup (S \cap m.ids)) \ S = m.bad \ S
  OBVIOUS
<1> QED
  BY <1>1 DEF Touch, Reseal, Mutate

\* A batch is taken from localStore.
LEMMA NextBatchIn == ASSUME NEW m PROVE NextBatch(m) \subseteq m.ids
BY DEF NextBatch

\* Joining the promise chain keeps it a sequence of tasks.
LEMMA AppendType ==
  ASSUME NEW q \in Seq(Tasks \cup {Down}), NEW t \in Tasks \cup {Down}
  PROVE  Append(q, t) \in Seq(Tasks \cup {Down})
OBVIOUS

\* localStore.set keeps an image well typed.
LEMMA InsertType ==
  ASSUME NEW m \in Image, NEW r \in Records
  PROVE  Insert(m, r) \in Image
BY DEF Insert, Image

\* localStore.delete keeps an image well typed.
LEMMA DeleteType ==
  ASSUME NEW m \in Image, NEW S
  PROVE  Delete(m, S) \in Image
BY DEF Delete, Image

\* Mutating and resealing keeps an image well typed.
LEMMA TouchType ==
  ASSUME NEW m \in Image, NEW S
  PROVE  Touch(m, S) \in Image
BY TouchFact DEF Image

\* Every step keeps the state well typed.
LEMMA TypeStep == TypeOK /\ [Next]_vars => TypeOK'
<1> SUFFICES ASSUME TypeOK, [Next]_vars PROVE TypeOK'
  OBVIOUS
<1> USE DEF TypeOK, PcLabels, Tasks, Goto, queueVars, lockVars, syncVars,
   downVars, linkVars, worldVars
<1>1. ASSUME NEW r \in Records, StoreCall(r) PROVE TypeOK'
  <2>1. waitQ' \in Seq(Tasks \cup {Down})
    <3>1. waitQ' \in {waitQ, Append(waitQ, r)}
      BY <1>1 DEF StoreCall, Enqueue
    <3> QED
      BY <3>1, AppendType, SMTT(30)
  <2>2. pc' \in [Tasks -> PcLabels]
    BY <1>1 DEF StoreCall
  <2> QED
    BY <1>1, <2>1, <2>2 DEF StoreCall
<1>2. ASSUME NEW r \in Records, StoreRefused(r) PROVE TypeOK'
  BY <1>2, TasksAssumption, ConfigAssumption DEF StoreRefused, Granted
<1>3. ASSUME NEW r \in Records, StoreAdmitted(r) PROVE TypeOK'
  <2>1. Cardinality({s \in Records : arrived[s] # 0}) \in Nat
    BY TasksAssumption, FS_Subset, FS_CardinalityType
  <2>2. arrived' \in [Records -> Nat]
    BY <1>3, <2>1 DEF StoreAdmitted
  <2>3. mem' \in Image /\ image' \in Image
    BY <1>3, InsertType DEF StoreAdmitted, Persist
  <2> QED
    BY <1>3, <2>2, <2>3 DEF StoreAdmitted, Granted, Acquire, Persist
<1>4. ASSUME NEW r \in Records, StorePersisted(r) PROVE TypeOK'
  BY <1>4, TasksAssumption, ConfigAssumption DEF StorePersisted, SaveOk,
     NoFault, Empty, Image
<1>5. ASSUME NEW r \in Records, StorePersistFailed(r) PROVE TypeOK'
  BY <1>5, DeleteType, TasksAssumption, ConfigAssumption DEF
     StorePersistFailed, SaveFails, Fault, Release, ClearLocals, Empty,
     NoReply, Image
<1>6. ASSUME NEW r \in Records, StoreProcessed(r) PROVE TypeOK'
  BY <1>6, TasksAssumption, ConfigAssumption DEF StoreProcessed, Release
<1>7. ASSUME NEW r \in Records, StoreFollowUp(r) PROVE TypeOK'
  <2>1. waitQ' \in Seq(Tasks \cup {Down})
    <3>1. waitQ' \in {waitQ, Append(waitQ, r)}
      BY <1>7 DEF StoreFollowUp, Enqueue
    <3> QED
      BY <3>1, AppendType, SMTT(30)
  <2>2. pc' \in [Tasks -> PcLabels]
    BY <1>7 DEF StoreFollowUp
  <2> QED
    BY <1>7, <2>1, <2>2 DEF StoreFollowUp
<1>8. ASSUME NEW t \in Tasks, SyncGranted(t) PROVE TypeOK'
  BY <1>8, TasksAssumption, ConfigAssumption DEF SyncGranted, Granted,
     Acquire
<1>9. ASSUME NEW t \in Tasks, SyncForward(t) PROVE TypeOK'
  BY <1>9, NextBatchIn, TasksAssumption, ConfigAssumption DEF SyncForward,
     Syncing, MoreToSend, NoReply, Image
<1>10. ASSUME NEW t \in Tasks, SyncDrained(t) PROVE TypeOK'
  BY <1>10, TasksAssumption, ConfigAssumption DEF SyncDrained, Syncing,
     MoreToSend, SyncEnds, Release, ClearLocals, Empty, NoReply, Image
<1>11. ASSUME NEW t \in Tasks, SyncForwardFailed(t) PROVE TypeOK'
  BY <1>11, TouchType, TasksAssumption, ConfigAssumption DEF
     SyncForwardFailed, Syncing, Fault, Persist
<1>12. ASSUME NEW t \in Tasks, SyncBadReply(t) PROVE TypeOK'
  BY <1>12, TasksAssumption, ConfigAssumption DEF SyncBadReply, Syncing,
     Fault, SyncEnds, Release, ClearLocals, Empty, NoReply, Image
<1>13. ASSUME NEW t \in Tasks, SyncReplied(t) PROVE TypeOK'
  BY <1>13, TasksAssumption, ConfigAssumption DEF SyncReplied, Syncing,
     Fault, NoFault
<1>14. ASSUME NEW t \in Tasks, NEW r \in Records, Reconcile(t, r) PROVE TypeOK'
  <2>1. mem' \in Image
    BY <1>14, TouchType, DeleteType DEF Reconcile
  <2>2. reply' \in [acked : SUBSET Records, conflicts : SUBSET Records,
                    todo : SUBSET Records]
    BY <1>14 DEF Reconcile
  <2>3. superseded' \in SUBSET Records
    BY <1>14 DEF Reconcile
  <2> QED
    BY <1>14, <2>1, <2>2, <2>3 DEF Reconcile
<1>15. ASSUME NEW t \in Tasks, ReconcileThrew(t) PROVE TypeOK'
  BY <1>15, TouchType, TasksAssumption, ConfigAssumption DEF ReconcileThrew,
     Syncing, Fault, NoFault, SyncEnds, Release, ClearLocals, Empty,
     NoReply, Image
<1>16. ASSUME NEW t \in Tasks, SyncApply(t) PROVE TypeOK'
  BY <1>16, TouchType, DeleteType, TasksAssumption, ConfigAssumption DEF
     SyncApply, Syncing, Persist
<1>17. ASSUME NEW t \in Tasks, SyncApplied(t) PROVE TypeOK'
  <2>1. pc' \in [Tasks -> PcLabels]
    BY <1>17 DEF SyncApplied, SyncEnds
  <2>2. isConnected' \in BOOLEAN
    BY <1>17 DEF SyncApplied
  <2>3. /\ holder' \in Tasks \cup {None} /\ waitQ' = waitQ
        /\ phase' \in {"loop", None}
    BY <1>17 DEF SyncApplied, SyncEnds, Release
  <2>4. batch' = {} /\ reply' = NoReply /\ image' = Empty
    BY <1>17 DEF SyncApplied, SyncEnds, ClearLocals
  <2> QED
    BY <1>17, <2>1, <2>2, <2>3, <2>4 DEF SyncApplied, SaveOk, NoFault, Empty,
       NoReply, Image
<1>18. ASSUME NEW t \in Tasks, SyncFailureSaved(t) PROVE TypeOK'
  BY <1>18, TasksAssumption, ConfigAssumption DEF SyncFailureSaved, Syncing,
     SaveOk, NoFault, SyncEnds, Release, ClearLocals, Empty, NoReply, Image
<1>19. ASSUME NEW t \in Tasks, SyncPersistFailed(t) PROVE TypeOK'
  BY <1>19, TasksAssumption, ConfigAssumption DEF SyncPersistFailed,
     Syncing, SaveFails, Fault, SyncEnds, Release, ClearLocals, Empty,
     NoReply, Image
<1>20. ASSUME NEW t \in Tasks, SyncReturned(t) PROVE TypeOK'
  BY <1>20, TasksAssumption, ConfigAssumption DEF SyncReturned, Finished,
     Schedule
<1>21. ASSUME NEW t \in Tasks, SyncThrew(t) PROVE TypeOK'
  BY <1>21, TasksAssumption, ConfigAssumption DEF SyncThrew, Finished,
     Schedule
<1>22. ASSUME NEW c \in Cycles, CycleStart(c) PROVE TypeOK'
  BY <1>22, TasksAssumption, ConfigAssumption DEF CycleStart
<1>23. ASSUME NEW c \in Cycles, CycleReachable(c) PROVE TypeOK'
  BY <1>23, TasksAssumption, ConfigAssumption DEF CycleReachable, Enqueue
<1>24. ASSUME NEW c \in Cycles, CycleUnreachable(c) PROVE TypeOK'
  <2>1. faults' \in 0..MaxFaults
    BY <1>24, ConfigAssumption DEF CycleUnreachable, Fault
  <2>2. timer' \in {None, "backoff", "heartbeat"}
    BY <1>24 DEF CycleUnreachable, Schedule
  <2> QED
    BY <1>24, <2>1, <2>2 DEF CycleUnreachable
<1>25. ASSUME NEW c \in Cycles, CycleStopped(c) PROVE TypeOK'
  <2>1. faults' \in 0..MaxFaults
    BY <1>25, ConfigAssumption DEF CycleStopped, Fault, NoFault
  <2>2. isConnected' \in BOOLEAN
    BY <1>25 DEF CycleStopped
  <2> QED
    BY <1>25, <2>1, <2>2 DEF CycleStopped
<1>26. ASSUME NEW c \in Cycles, Initialize(c) PROVE TypeOK'
  BY <1>26, TasksAssumption, ConfigAssumption DEF Initialize
<1>27. ASSUME ShutdownCall PROVE TypeOK'
  BY <1>27, TasksAssumption, ConfigAssumption DEF ShutdownCall, Enqueue,
     StorePending
<1>28. ASSUME ShutdownPersist PROVE TypeOK'
  BY <1>28, TasksAssumption, ConfigAssumption DEF ShutdownPersist, Granted
<1>29. ASSUME ShutdownDone PROVE TypeOK'
  BY <1>29, TasksAssumption, ConfigAssumption DEF ShutdownDone, SaveOk,
     NoFault, Empty, Image
<1>30. ASSUME ShutdownFailed PROVE TypeOK'
  BY <1>30, TasksAssumption, ConfigAssumption DEF ShutdownFailed, SaveFails,
     Fault, Empty, Image
<1>31. ASSUME Crash PROVE TypeOK'
  <2>1. pc' \in [Tasks -> PcLabels]
    BY <1>31 DEF Crash
  <2>2. disk' \in Image
    BY <1>31 DEF Crash
  <2>3. upstream' \in SUBSET Records
    BY <1>31 DEF Crash
  <2>4. crashes' \in 0..MaxCrashes
    BY <1>31, ConfigAssumption DEF Crash
  <2>5. waitQ' \in Seq(Tasks \cup {Down})
    BY <1>31 DEF Crash
  <2> QED
    BY <1>31, <2>1, <2>2, <2>3, <2>4, <2>5 DEF Crash, ClearLocals, Empty, NoReply,
       Image
<1>32. ASSUME UNCHANGED vars PROVE TypeOK'
  BY <1>32, TasksAssumption, ConfigAssumption DEF vars
<1> QED
  BY <1>1, <1>2, <1>3, <1>4, <1>5, <1>6, <1>7, <1>8, <1>9, <1>10, <1>11,
     <1>12, <1>13, <1>14, <1>15, <1>16, <1>17, <1>18, <1>19, <1>20, <1>21,
     <1>22, <1>23, <1>24, <1>25, <1>26, <1>27, <1>28, <1>29, <1>30, <1>31,
     <1>32 DEF Next, StoreStep, SyncStep, CycleStep

\* The type of the promise chain.
Q == Seq(Tasks \cup {Down})

\* A task that joins the chain is not shutdown(), and a store() call
\* joining behind shutdown() keeps the tail of the chain free of syncs.
LEMMA AppendChain ==
  ASSUME NEW q \in Q, NEW t \in Tasks
  PROVE  /\ NoDown(q) => NoDown(Append(q, t))
         /\ t \in Records /\ OnlyStores(q) => OnlyStores(Append(q, t))
         /\ t \in Records /\ Marked(q) => Marked(Append(q, t))
<1> USE DEF Q
<1>1. t # Down
  BY TasksAssumption
<1>2. /\ Len(Append(q, t)) = Len(q) + 1 /\ Len(q) \in Nat
      /\ \A i \in 1..Len(q) : Append(q, t)[i] = q[i]
      /\ Append(q, t)[Len(q) + 1] = t
  OBVIOUS
<1>3. NoDown(q) => NoDown(Append(q, t))
  BY <1>1, <1>2 DEF NoDown
<1>4. t \in Records /\ OnlyStores(q) => OnlyStores(Append(q, t))
  BY <1>2 DEF OnlyStores
<1>5. ASSUME t \in Records, Marked(q) PROVE Marked(Append(q, t))
  <2>1. PICK i \in 1..Len(q) :
          /\ q[i] = Down
          /\ \A j \in 1..(i - 1) : q[j] # Down
          /\ \A j \in (i + 1)..Len(q) : q[j] \in Records
    BY <1>5 DEF Marked
  <2>2. i \in 1..Len(Append(q, t)) /\ Append(q, t)[i] = Down
    BY <1>2, <2>1
  <2>3. \A j \in 1..(i - 1) : Append(q, t)[j] # Down
    BY <1>2, <2>1
  <2>4. \A j \in (i + 1)..Len(Append(q, t)) : Append(q, t)[j] \in Records
    <3> SUFFICES ASSUME NEW j \in (i + 1)..Len(Append(q, t))
                 PROVE  Append(q, t)[j] \in Records
      OBVIOUS
    <3>1. CASE j \in (i + 1)..Len(q)
      <4>1. q[j] \in Records
        BY <2>1, <3>1
      <4>2. j \in 1..Len(q)
        BY <1>2, <3>1
      <4> QED
        BY <1>2, <4>1, <4>2
    <3>2. CASE j = Len(q) + 1
      BY <1>2, <1>5, <3>2
    <3> QED
      BY <1>2, <2>1, <3>1, <3>2
  <2> QED
    BY <2>2, <2>3, <2>4 DEF Marked
<1> QED
  BY <1>3, <1>4, <1>5

\* shutdown() joins a chain that holds no other shutdown().
LEMMA DownChain ==
  ASSUME NEW q \in Q, NoDown(q)
  PROVE  Marked(Append(q, Down))
<1> USE DEF Q
<1>1. /\ Len(Append(q, Down)) = Len(q) + 1 /\ Len(q) \in Nat
      /\ \A i \in 1..Len(q) : Append(q, Down)[i] = q[i]
      /\ Append(q, Down)[Len(q) + 1] = Down
  OBVIOUS
<1>2. \A j \in 1..(Len(q) + 1 - 1) : Append(q, Down)[j] # Down
  BY <1>1 DEF NoDown
<1>3. Len(q) + 1 \in 1..Len(Append(q, Down))
  BY <1>1
<1>4. (Len(q) + 1 + 1)..Len(Append(q, Down)) = {}
  BY <1>1
<1> QED
  BY <1>1, <1>2, <1>3, <1>4 DEF Marked

\* Taking the head of the chain; what is left once that head is shutdown().
LEMMA TailChain ==
  ASSUME NEW q \in Q, q # <<>>
  PROVE  /\ NoDown(q) => NoDown(Tail(q))
         /\ OnlyStores(q) => OnlyStores(Tail(q))
         /\ Marked(q) /\ Head(q) # Down => Marked(Tail(q))
         /\ Marked(q) /\ Head(q) = Down => OnlyStores(Tail(q))
<1> USE DEF Q
<1>1. /\ Len(q) \in Nat \ {0} /\ Len(Tail(q)) = Len(q) - 1
      /\ \A i \in 1..Len(Tail(q)) : Tail(q)[i] = q[i + 1]
      /\ Head(q) = q[1]
  OBVIOUS
<1>2. NoDown(q) => NoDown(Tail(q))
  BY <1>1 DEF NoDown
<1>3. OnlyStores(q) => OnlyStores(Tail(q))
  BY <1>1 DEF OnlyStores
<1>4. ASSUME Marked(q)
      PROVE  /\ Head(q) # Down => Marked(Tail(q))
             /\ Head(q) = Down => OnlyStores(Tail(q))
  <2>1. PICK i \in 1..Len(q) :
          /\ q[i] = Down
          /\ \A j \in 1..(i - 1) : q[j] # Down
          /\ \A j \in (i + 1)..Len(q) : q[j] \in Records
    BY <1>4 DEF Marked
  <2>2. CASE Head(q) = Down
    <3>1. i = 1
      BY <1>1, <2>1, <2>2
    <3>2. ASSUME NEW j \in 1..Len(Tail(q)) PROVE Tail(q)[j] \in Records
      <4>1. j + 1 \in (i + 1)..Len(q)
        BY <1>1, <3>1
      <4>2. q[j + 1] \in Records
        BY <2>1, <4>1
      <4> QED
        BY <1>1, <4>2
    <3> QED
      BY <2>2, <3>2 DEF OnlyStores
  <2>3. CASE Head(q) # Down
    <3>1. i - 1 \in 1..Len(Tail(q)) /\ Tail(q)[i - 1] = Down
      BY <1>1, <2>1, <2>3
    <3>2. \A j \in 1..(i - 1 - 1) : Tail(q)[j] # Down
      BY <1>1, <2>1
    <3>3. ASSUME NEW j \in (i - 1 + 1)..Len(Tail(q))
          PROVE  Tail(q)[j] \in Records
      <4>1. j + 1 \in (i + 1)..Len(q) /\ j \in 1..Len(Tail(q))
        BY <1>1, <2>1
      <4>2. q[j + 1] \in Records
        BY <2>1, <4>1
      <4> QED
        BY <1>1, <4>1, <4>2
    <3> QED
      BY <2>3, <3>1, <3>2, <3>3 DEF Marked
  <2> QED
    BY <2>2, <2>3
<1> QED
  BY <1>2, <1>3, <1>4

\* Once shutdown() leaves the chain no shutdown() is in it.
LEMMA MarkedNoDown ==
  ASSUME NEW q \in Q, q # <<>>, Marked(q), Head(q) = Down
  PROVE  NoDown(Tail(q))
BY TailChain, TasksAssumption DEF OnlyStores, NoDown, Tasks

\* Only the task inside serialized() moves its critical section.
LEMMA LockStep == TypeOK /\ LockInv /\ [Next]_vars => LockInv'
<1> SUFFICES ASSUME TypeOK, LockInv, [Next]_vars PROVE LockInv'
  OBVIOUS
<1> USE DEF Tasks, Goto, queueVars, lockVars, syncVars, downVars, linkVars,
   worldVars, None, TypeOK, PcLabels, LockInv, StorePhases, SyncPhases
<1>1. ASSUME NEW r \in Records, StoreCall(r) PROVE LockInv'
  BY <1>1, TasksAssumption DEF StoreCall, Enqueue
<1>2. ASSUME NEW r \in Records, StoreRefused(r) PROVE LockInv'
  BY <1>2, TasksAssumption DEF StoreRefused, Granted
<1>3. ASSUME NEW r \in Records, StoreAdmitted(r) PROVE LockInv'
  BY <1>3, TasksAssumption DEF StoreAdmitted, Granted, Acquire, Persist
<1>4. ASSUME NEW r \in Records, StorePersisted(r) PROVE LockInv'
  BY <1>4, TasksAssumption DEF StorePersisted, SaveOk, NoFault, Empty
<1>5. ASSUME NEW r \in Records, StorePersistFailed(r) PROVE LockInv'
  BY <1>5, TasksAssumption DEF StorePersistFailed, SaveFails, Fault,
     Release, ClearLocals, Empty, NoReply
<1>6. ASSUME NEW r \in Records, StoreProcessed(r) PROVE LockInv'
  BY <1>6, TasksAssumption DEF StoreProcessed, Release
<1>7. ASSUME NEW r \in Records, StoreFollowUp(r) PROVE LockInv'
  BY <1>7, TasksAssumption DEF StoreFollowUp, Enqueue
<1>8. ASSUME NEW t \in Tasks, SyncGranted(t) PROVE LockInv'
  BY <1>8, TasksAssumption DEF SyncGranted, Granted, Acquire
<1>9. ASSUME NEW t \in Tasks, SyncForward(t) PROVE LockInv'
  BY <1>9, TasksAssumption DEF SyncForward, Syncing, MoreToSend, NoReply
<1>10. ASSUME NEW t \in Tasks, SyncDrained(t) PROVE LockInv'
  BY <1>10, TasksAssumption DEF SyncDrained, Syncing, MoreToSend, SyncEnds,
     Release, ClearLocals, Empty, NoReply
<1>11. ASSUME NEW t \in Tasks, SyncForwardFailed(t) PROVE LockInv'
  BY <1>11, TasksAssumption DEF SyncForwardFailed, Syncing, Fault, Persist
<1>12. ASSUME NEW t \in Tasks, SyncBadReply(t) PROVE LockInv'
  BY <1>12, TasksAssumption DEF SyncBadReply, Syncing, Fault, SyncEnds,
     Release, ClearLocals, Empty, NoReply
<1>13. ASSUME NEW t \in Tasks, SyncReplied(t) PROVE LockInv'
  BY <1>13, TasksAssumption DEF SyncReplied, Syncing, Fault, NoFault
<1>14. ASSUME NEW t \in Tasks, NEW r \in Records, Reconcile(t, r) PROVE LockInv'
  BY <1>14, TasksAssumption DEF Reconcile, Syncing
<1>15. ASSUME NEW t \in Tasks, ReconcileThrew(t) PROVE LockInv'
  BY <1>15, TasksAssumption DEF ReconcileThrew, Syncing, Fault, NoFault,
     SyncEnds, Release, ClearLocals, Empty, NoReply
<1>16. ASSUME NEW t \in Tasks, SyncApply(t) PROVE LockInv'
  BY <1>16, TasksAssumption DEF SyncApply, Syncing, Persist
<1>17. ASSUME NEW t \in Tasks, SyncApplied(t) PROVE LockInv'
  BY <1>17, TasksAssumption DEF SyncApplied, Syncing, SaveOk, NoFault,
     SyncEnds, Release, ClearLocals, Empty, NoReply
<1>18. ASSUME NEW t \in Tasks, SyncFailureSaved(t) PROVE LockInv'
  BY <1>18, TasksAssumption DEF SyncFailureSaved, Syncing, SaveOk, NoFault,
     SyncEnds, Release, ClearLocals, Empty, NoReply
<1>19. ASSUME NEW t \in Tasks, SyncPersistFailed(t) PROVE LockInv'
  BY <1>19, TasksAssumption DEF SyncPersistFailed, Syncing, SaveFails,
     Fault, SyncEnds, Release, ClearLocals, Empty, NoReply
<1>20. ASSUME NEW t \in Tasks, SyncReturned(t) PROVE LockInv'
  BY <1>20, TasksAssumption DEF SyncReturned, Finished, Schedule
<1>21. ASSUME NEW t \in Tasks, SyncThrew(t) PROVE LockInv'
  BY <1>21, TasksAssumption DEF SyncThrew, Finished, Schedule
<1>22. ASSUME NEW c \in Cycles, CycleStart(c) PROVE LockInv'
  BY <1>22, TasksAssumption DEF CycleStart
<1>23. ASSUME NEW c \in Cycles, CycleReachable(c) PROVE LockInv'
  BY <1>23, TasksAssumption DEF CycleReachable, Enqueue
<1>24. ASSUME NEW c \in Cycles, CycleUnreachable(c) PROVE LockInv'
  BY <1>24, TasksAssumption DEF CycleUnreachable, Fault, Schedule
<1>25. ASSUME NEW c \in Cycles, CycleStopped(c) PROVE LockInv'
  BY <1>25, TasksAssumption DEF CycleStopped, Fault, NoFault
<1>26. ASSUME NEW c \in Cycles, Initialize(c) PROVE LockInv'
  BY <1>26, TasksAssumption DEF Initialize
<1>27. ASSUME ShutdownCall PROVE LockInv'
  BY <1>27, TasksAssumption DEF ShutdownCall, Enqueue, StorePending
<1>28. ASSUME ShutdownPersist PROVE LockInv'
  BY <1>28, TasksAssumption DEF ShutdownPersist, Granted
<1>29. ASSUME ShutdownDone PROVE LockInv'
  BY <1>29, TasksAssumption DEF ShutdownDone, SaveOk, NoFault, Empty
<1>30. ASSUME ShutdownFailed PROVE LockInv'
  BY <1>30, TasksAssumption DEF ShutdownFailed, SaveFails, Fault, Empty
<1>31. ASSUME Crash PROVE LockInv'
  BY <1>31, TasksAssumption DEF Crash, Saving, ClearLocals, Empty, NoReply
<1>32. ASSUME UNCHANGED vars PROVE LockInv'
  BY <1>32, TasksAssumption DEF vars
<1> QED
  BY <1>1, <1>2, <1>3, <1>4, <1>5, <1>6, <1>7, <1>8, <1>9, <1>10, <1>11,
     <1>12, <1>13, <1>14, <1>15, <1>16, <1>17, <1>18, <1>19, <1>20, <1>21,
     <1>22, <1>23, <1>24, <1>25, <1>26, <1>27, <1>28, <1>29, <1>30, <1>31,
     <1>32 DEF Next, StoreStep, SyncStep, CycleStep

\* A committed record is never stored a second time.
LEMMA CommitStep == TypeOK /\ LockInv /\ CommitInv /\ [Next]_vars => CommitInv'
<1> SUFFICES ASSUME TypeOK, LockInv, CommitInv, [Next]_vars PROVE CommitInv'
  OBVIOUS
<1> USE DEF Tasks, Goto, queueVars, lockVars, syncVars, downVars, linkVars,
   worldVars, None, TypeOK, PcLabels, LockInv, CommitInv, StorePhases,
   SyncPhases
<1>1. ASSUME NEW r \in Records, StoreCall(r) PROVE CommitInv'
  BY <1>1, TasksAssumption DEF StoreCall, Enqueue
<1>2. ASSUME NEW r \in Records, StoreRefused(r) PROVE CommitInv'
  BY <1>2, TasksAssumption DEF StoreRefused, Granted
<1>3. ASSUME NEW r \in Records, StoreAdmitted(r) PROVE CommitInv'
  BY <1>3, TasksAssumption DEF StoreAdmitted, Granted, Acquire, Persist
<1>4. ASSUME NEW r \in Records, StorePersisted(r) PROVE CommitInv'
  BY <1>4, TasksAssumption DEF StorePersisted, SaveOk, NoFault, Empty
<1>5. ASSUME NEW r \in Records, StorePersistFailed(r) PROVE CommitInv'
  BY <1>5, TasksAssumption DEF StorePersistFailed, SaveFails, Fault,
     Release, ClearLocals, Empty, NoReply
<1>6. ASSUME NEW r \in Records, StoreProcessed(r) PROVE CommitInv'
  BY <1>6, TasksAssumption DEF StoreProcessed, Release
<1>7. ASSUME NEW r \in Records, StoreFollowUp(r) PROVE CommitInv'
  BY <1>7, TasksAssumption DEF StoreFollowUp, Enqueue
<1>8. ASSUME NEW t \in Tasks, SyncGranted(t) PROVE CommitInv'
  BY <1>8, TasksAssumption DEF SyncGranted, Granted, Acquire
<1>9. ASSUME NEW t \in Tasks, SyncForward(t) PROVE CommitInv'
  BY <1>9, TasksAssumption DEF SyncForward, Syncing, MoreToSend, NoReply
<1>10. ASSUME NEW t \in Tasks, SyncDrained(t) PROVE CommitInv'
  BY <1>10, TasksAssumption DEF SyncDrained, Syncing, MoreToSend, SyncEnds,
     Release, ClearLocals, Empty, NoReply
<1>11. ASSUME NEW t \in Tasks, SyncForwardFailed(t) PROVE CommitInv'
  BY <1>11, TasksAssumption DEF SyncForwardFailed, Syncing, Fault, Persist
<1>12. ASSUME NEW t \in Tasks, SyncBadReply(t) PROVE CommitInv'
  BY <1>12, TasksAssumption DEF SyncBadReply, Syncing, Fault, SyncEnds,
     Release, ClearLocals, Empty, NoReply
<1>13. ASSUME NEW t \in Tasks, SyncReplied(t) PROVE CommitInv'
  BY <1>13, TasksAssumption DEF SyncReplied, Syncing, Fault, NoFault
<1>14. ASSUME NEW t \in Tasks, NEW r \in Records, Reconcile(t, r) PROVE CommitInv'
  BY <1>14, TasksAssumption DEF Reconcile, Syncing
<1>15. ASSUME NEW t \in Tasks, ReconcileThrew(t) PROVE CommitInv'
  BY <1>15, TasksAssumption DEF ReconcileThrew, Syncing, Fault, NoFault,
     SyncEnds, Release, ClearLocals, Empty, NoReply
<1>16. ASSUME NEW t \in Tasks, SyncApply(t) PROVE CommitInv'
  BY <1>16, TasksAssumption DEF SyncApply, Syncing, Persist
<1>17. ASSUME NEW t \in Tasks, SyncApplied(t) PROVE CommitInv'
  BY <1>17, TasksAssumption DEF SyncApplied, Syncing, SaveOk, NoFault,
     SyncEnds, Release, ClearLocals, Empty, NoReply
<1>18. ASSUME NEW t \in Tasks, SyncFailureSaved(t) PROVE CommitInv'
  BY <1>18, TasksAssumption DEF SyncFailureSaved, Syncing, SaveOk, NoFault,
     SyncEnds, Release, ClearLocals, Empty, NoReply
<1>19. ASSUME NEW t \in Tasks, SyncPersistFailed(t) PROVE CommitInv'
  BY <1>19, TasksAssumption DEF SyncPersistFailed, Syncing, SaveFails,
     Fault, SyncEnds, Release, ClearLocals, Empty, NoReply
<1>20. ASSUME NEW t \in Tasks, SyncReturned(t) PROVE CommitInv'
  BY <1>20, TasksAssumption DEF SyncReturned, Finished, Schedule
<1>21. ASSUME NEW t \in Tasks, SyncThrew(t) PROVE CommitInv'
  BY <1>21, TasksAssumption DEF SyncThrew, Finished, Schedule
<1>22. ASSUME NEW c \in Cycles, CycleStart(c) PROVE CommitInv'
  BY <1>22, TasksAssumption DEF CycleStart
<1>23. ASSUME NEW c \in Cycles, CycleReachable(c) PROVE CommitInv'
  BY <1>23, TasksAssumption DEF CycleReachable, Enqueue
<1>24. ASSUME NEW c \in Cycles, CycleUnreachable(c) PROVE CommitInv'
  BY <1>24, TasksAssumption DEF CycleUnreachable, Fault, Schedule
<1>25. ASSUME NEW c \in Cycles, CycleStopped(c) PROVE CommitInv'
  BY <1>25, TasksAssumption DEF CycleStopped, Fault, NoFault
<1>26. ASSUME NEW c \in Cycles, Initialize(c) PROVE CommitInv'
  BY <1>26, TasksAssumption DEF Initialize
<1>27. ASSUME ShutdownCall PROVE CommitInv'
  BY <1>27, TasksAssumption DEF ShutdownCall, Enqueue, StorePending
<1>28. ASSUME ShutdownPersist PROVE CommitInv'
  BY <1>28, TasksAssumption DEF ShutdownPersist, Granted
<1>29. ASSUME ShutdownDone PROVE CommitInv'
  BY <1>29, TasksAssumption DEF ShutdownDone, SaveOk, NoFault, Empty
<1>30. ASSUME ShutdownFailed PROVE CommitInv'
  BY <1>30, TasksAssumption DEF ShutdownFailed, SaveFails, Fault, Empty
<1>31. ASSUME Crash PROVE CommitInv'
  BY <1>31, TasksAssumption DEF Crash, Saving, ClearLocals, Empty, NoReply
<1>32. ASSUME UNCHANGED vars PROVE CommitInv'
  BY <1>32, TasksAssumption DEF vars
<1> QED
  BY <1>1, <1>2, <1>3, <1>4, <1>5, <1>6, <1>7, <1>8, <1>9, <1>10, <1>11,
     <1>12, <1>13, <1>14, <1>15, <1>16, <1>17, <1>18, <1>19, <1>20, <1>21,
     <1>22, <1>23, <1>24, <1>25, <1>26, <1>27, <1>28, <1>29, <1>30, <1>31,
     <1>32 DEF Next, StoreStep, SyncStep, CycleStep

\* After shutdown() is called no store() call gets past its stopped check.
LEMMA StoppedStep == ~ShutdownWhileStoring /\ TypeOK /\ LockInv /\ StoppedInv /\ [Next]_vars => StoppedInv'
<1> SUFFICES ASSUME ~ShutdownWhileStoring, TypeOK, LockInv, StoppedInv, [Next]_vars PROVE StoppedInv'
  OBVIOUS
<1> USE DEF Tasks, Goto, queueVars, lockVars, syncVars, downVars, linkVars,
   worldVars, None, TypeOK, PcLabels, LockInv, StoppedInv, StorePhases,
   SyncPhases
<1>1. ASSUME NEW r \in Records, StoreCall(r) PROVE StoppedInv'
  BY <1>1, TasksAssumption DEF StoreCall, Enqueue
<1>2. ASSUME NEW r \in Records, StoreRefused(r) PROVE StoppedInv'
  BY <1>2, TasksAssumption DEF StoreRefused, Granted
<1>3. ASSUME NEW r \in Records, StoreAdmitted(r) PROVE StoppedInv'
  BY <1>3, TasksAssumption DEF StoreAdmitted, Granted, Acquire, Persist,
     Refused
<1>4. ASSUME NEW r \in Records, StorePersisted(r) PROVE StoppedInv'
  BY <1>4, TasksAssumption DEF StorePersisted, SaveOk, NoFault, Empty
<1>5. ASSUME NEW r \in Records, StorePersistFailed(r) PROVE StoppedInv'
  BY <1>5, TasksAssumption DEF StorePersistFailed, SaveFails, Fault,
     Release, ClearLocals, Empty, NoReply
<1>6. ASSUME NEW r \in Records, StoreProcessed(r) PROVE StoppedInv'
  BY <1>6, TasksAssumption DEF StoreProcessed, Release
<1>7. ASSUME NEW r \in Records, StoreFollowUp(r) PROVE StoppedInv'
  BY <1>7, TasksAssumption DEF StoreFollowUp, Enqueue
<1>8. ASSUME NEW t \in Tasks, SyncGranted(t) PROVE StoppedInv'
  BY <1>8, TasksAssumption DEF SyncGranted, Granted, Acquire
<1>9. ASSUME NEW t \in Tasks, SyncForward(t) PROVE StoppedInv'
  BY <1>9, TasksAssumption DEF SyncForward, Syncing, MoreToSend, NoReply
<1>10. ASSUME NEW t \in Tasks, SyncDrained(t) PROVE StoppedInv'
  BY <1>10, TasksAssumption DEF SyncDrained, Syncing, MoreToSend, SyncEnds,
     Release, ClearLocals, Empty, NoReply
<1>11. ASSUME NEW t \in Tasks, SyncForwardFailed(t) PROVE StoppedInv'
  BY <1>11, TasksAssumption DEF SyncForwardFailed, Syncing, Fault, Persist
<1>12. ASSUME NEW t \in Tasks, SyncBadReply(t) PROVE StoppedInv'
  BY <1>12, TasksAssumption DEF SyncBadReply, Syncing, Fault, SyncEnds,
     Release, ClearLocals, Empty, NoReply
<1>13. ASSUME NEW t \in Tasks, SyncReplied(t) PROVE StoppedInv'
  BY <1>13, TasksAssumption DEF SyncReplied, Syncing, Fault, NoFault
<1>14. ASSUME NEW t \in Tasks, NEW r \in Records, Reconcile(t, r) PROVE StoppedInv'
  BY <1>14, TasksAssumption DEF Reconcile, Syncing
<1>15. ASSUME NEW t \in Tasks, ReconcileThrew(t) PROVE StoppedInv'
  BY <1>15, TasksAssumption DEF ReconcileThrew, Syncing, Fault, NoFault,
     SyncEnds, Release, ClearLocals, Empty, NoReply
<1>16. ASSUME NEW t \in Tasks, SyncApply(t) PROVE StoppedInv'
  BY <1>16, TasksAssumption DEF SyncApply, Syncing, Persist
<1>17. ASSUME NEW t \in Tasks, SyncApplied(t) PROVE StoppedInv'
  BY <1>17, TasksAssumption DEF SyncApplied, Syncing, SaveOk, NoFault,
     SyncEnds, Release, ClearLocals, Empty, NoReply
<1>18. ASSUME NEW t \in Tasks, SyncFailureSaved(t) PROVE StoppedInv'
  BY <1>18, TasksAssumption DEF SyncFailureSaved, Syncing, SaveOk, NoFault,
     SyncEnds, Release, ClearLocals, Empty, NoReply
<1>19. ASSUME NEW t \in Tasks, SyncPersistFailed(t) PROVE StoppedInv'
  BY <1>19, TasksAssumption DEF SyncPersistFailed, Syncing, SaveFails,
     Fault, SyncEnds, Release, ClearLocals, Empty, NoReply
<1>20. ASSUME NEW t \in Tasks, SyncReturned(t) PROVE StoppedInv'
  BY <1>20, TasksAssumption DEF SyncReturned, Finished, Schedule
<1>21. ASSUME NEW t \in Tasks, SyncThrew(t) PROVE StoppedInv'
  BY <1>21, TasksAssumption DEF SyncThrew, Finished, Schedule
<1>22. ASSUME NEW c \in Cycles, CycleStart(c) PROVE StoppedInv'
  BY <1>22, TasksAssumption DEF CycleStart
<1>23. ASSUME NEW c \in Cycles, CycleReachable(c) PROVE StoppedInv'
  BY <1>23, TasksAssumption DEF CycleReachable, Enqueue
<1>24. ASSUME NEW c \in Cycles, CycleUnreachable(c) PROVE StoppedInv'
  BY <1>24, TasksAssumption DEF CycleUnreachable, Fault, Schedule
<1>25. ASSUME NEW c \in Cycles, CycleStopped(c) PROVE StoppedInv'
  BY <1>25, TasksAssumption DEF CycleStopped, Fault, NoFault
<1>26. ASSUME NEW c \in Cycles, Initialize(c) PROVE StoppedInv'
  BY <1>26, TasksAssumption DEF Initialize
<1>27. ASSUME ShutdownCall PROVE StoppedInv'
  BY <1>27, TasksAssumption DEF ShutdownCall, Enqueue, StorePending
<1>28. ASSUME ShutdownPersist PROVE StoppedInv'
  BY <1>28, TasksAssumption DEF ShutdownPersist, Granted
<1>29. ASSUME ShutdownDone PROVE StoppedInv'
  BY <1>29, TasksAssumption DEF ShutdownDone, SaveOk, NoFault, Empty
<1>30. ASSUME ShutdownFailed PROVE StoppedInv'
  BY <1>30, TasksAssumption DEF ShutdownFailed, SaveFails, Fault, Empty
<1>31. ASSUME Crash PROVE StoppedInv'
  BY <1>31, TasksAssumption DEF Crash, Saving, ClearLocals, Empty, NoReply
<1>32. ASSUME UNCHANGED vars PROVE StoppedInv'
  BY <1>32, TasksAssumption DEF vars
<1> QED
  BY <1>1, <1>2, <1>3, <1>4, <1>5, <1>6, <1>7, <1>8, <1>9, <1>10, <1>11,
     <1>12, <1>13, <1>14, <1>15, <1>16, <1>17, <1>18, <1>19, <1>20, <1>21,
     <1>22, <1>23, <1>24, <1>25, <1>26, <1>27, <1>28, <1>29, <1>30, <1>31,
     <1>32 DEF Next, StoreStep, SyncStep, CycleStep

\* No sync starts behind shutdown(), so none runs while it saves.
LEMMA ChainStep == TypeOK /\ LockInv /\ StoppedInv /\ ChainInv /\ [Next]_vars => ChainInv'
<1> SUFFICES ASSUME TypeOK, LockInv, StoppedInv, ChainInv, [Next]_vars PROVE ChainInv'
  OBVIOUS
<1> USE DEF Tasks, Goto, queueVars, lockVars, syncVars, downVars, linkVars,
   worldVars, None, TypeOK, PcLabels, Q, LockInv, StoppedInv, ChainInv,
   StorePhases, SyncPhases
<1>1. ASSUME NEW r \in Records, StoreCall(r) PROVE ChainInv'
  <2>1. waitQ' \in {waitQ, Append(waitQ, r)}
    BY <1>1 DEF StoreCall, Enqueue
  <2>2. /\ NoDown(waitQ) => NoDown(waitQ')
        /\ OnlyStores(waitQ) => OnlyStores(waitQ')
        /\ Marked(waitQ) => Marked(waitQ')
    <3>1. CASE waitQ' = waitQ
      BY <3>1
    <3>2. CASE waitQ' = Append(waitQ, r)
      BY <3>2, AppendChain
    <3> QED
      BY <2>1, <3>1, <3>2
  <2> QED
    BY <1>1, <2>1, <2>2 DEF StoreCall
<1>2. ASSUME NEW r \in Records, StoreRefused(r) PROVE ChainInv'
  BY <1>2, TailChain, TasksAssumption DEF StoreRefused, Granted
<1>3. ASSUME NEW r \in Records, StoreAdmitted(r) PROVE ChainInv'
  BY <1>3, TailChain, TasksAssumption DEF StoreAdmitted, Granted, Acquire,
     Persist, Refused
<1>4. ASSUME NEW r \in Records, StorePersisted(r) PROVE ChainInv'
  BY <1>4 DEF StorePersisted, SaveOk, NoFault, Empty
<1>5. ASSUME NEW r \in Records, StorePersistFailed(r) PROVE ChainInv'
  BY <1>5 DEF StorePersistFailed, SaveFails, Fault, Release, ClearLocals,
     Empty, NoReply
<1>6. ASSUME NEW r \in Records, StoreProcessed(r) PROVE ChainInv'
  BY <1>6 DEF StoreProcessed, Release
<1>7. ASSUME NEW r \in Records, StoreFollowUp(r) PROVE ChainInv'
  <2>1. ~stopped
    BY <1>7 DEF StoreFollowUp
  <2>2. waitQ' \in {waitQ, Append(waitQ, r)}
    BY <1>7 DEF StoreFollowUp, Enqueue
  <2>3. NoDown(waitQ) => NoDown(waitQ')
    <3>1. CASE waitQ' = waitQ
      BY <3>1
    <3>2. CASE waitQ' = Append(waitQ, r)
      BY <3>2, AppendChain
    <3> QED
      BY <2>2, <3>1, <3>2
  <2> QED
    BY <1>7, <2>1, <2>3 DEF StoreFollowUp
<1>8. ASSUME NEW t \in Tasks, SyncGranted(t) PROVE ChainInv'
  <2>1. waitQ[1] = t /\ waitQ # <<>> /\ t # Down
    BY <1>8, TasksAssumption DEF SyncGranted, Granted
  <2>2. initialized /\ pcDown # "persist"
    BY <1>8, <2>1 DEF SyncGranted, OnlyStores
  <2> QED
    BY <1>8, <2>1, <2>2, TailChain DEF SyncGranted, Granted, Acquire
<1>9. ASSUME NEW t \in Tasks, SyncForward(t) PROVE ChainInv'
  BY <1>9 DEF SyncForward, Syncing, MoreToSend, NoReply
<1>10. ASSUME NEW t \in Tasks, SyncDrained(t) PROVE ChainInv'
  BY <1>10 DEF SyncDrained, Syncing, MoreToSend, SyncEnds, Release,
     ClearLocals, Empty, NoReply
<1>11. ASSUME NEW t \in Tasks, SyncForwardFailed(t) PROVE ChainInv'
  BY <1>11 DEF SyncForwardFailed, Syncing, Fault, Persist
<1>12. ASSUME NEW t \in Tasks, SyncBadReply(t) PROVE ChainInv'
  BY <1>12 DEF SyncBadReply, Syncing, Fault, SyncEnds, Release, ClearLocals,
     Empty, NoReply
<1>13. ASSUME NEW t \in Tasks, SyncReplied(t) PROVE ChainInv'
  BY <1>13 DEF SyncReplied, Syncing, Fault, NoFault
<1>14. ASSUME NEW t \in Tasks, NEW r \in Records, Reconcile(t, r) PROVE ChainInv'
  BY <1>14 DEF Reconcile, Syncing
<1>15. ASSUME NEW t \in Tasks, ReconcileThrew(t) PROVE ChainInv'
  BY <1>15 DEF ReconcileThrew, Syncing, Fault, NoFault, SyncEnds, Release,
     ClearLocals, Empty, NoReply
<1>16. ASSUME NEW t \in Tasks, SyncApply(t) PROVE ChainInv'
  BY <1>16 DEF SyncApply, Syncing, Persist
<1>17. ASSUME NEW t \in Tasks, SyncApplied(t) PROVE ChainInv'
  BY <1>17 DEF SyncApplied, Syncing, SaveOk, NoFault, SyncEnds, Release,
     ClearLocals, Empty, NoReply
<1>18. ASSUME NEW t \in Tasks, SyncFailureSaved(t) PROVE ChainInv'
  BY <1>18 DEF SyncFailureSaved, Syncing, SaveOk, NoFault, SyncEnds,
     Release, ClearLocals, Empty, NoReply
<1>19. ASSUME NEW t \in Tasks, SyncPersistFailed(t) PROVE ChainInv'
  BY <1>19 DEF SyncPersistFailed, Syncing, SaveFails, Fault, SyncEnds,
     Release, ClearLocals, Empty, NoReply
<1>20. ASSUME NEW t \in Tasks, SyncReturned(t) PROVE ChainInv'
  BY <1>20 DEF SyncReturned, Finished, Schedule
<1>21. ASSUME NEW t \in Tasks, SyncThrew(t) PROVE ChainInv'
  BY <1>21 DEF SyncThrew, Finished, Schedule
<1>22. ASSUME NEW c \in Cycles, CycleStart(c) PROVE ChainInv'
  BY <1>22 DEF CycleStart
<1>23. ASSUME NEW c \in Cycles, CycleReachable(c) PROVE ChainInv'
  BY <1>23, AppendChain, TasksAssumption DEF CycleReachable, Enqueue
<1>24. ASSUME NEW c \in Cycles, CycleUnreachable(c) PROVE ChainInv'
  BY <1>24 DEF CycleUnreachable, Fault, Schedule
<1>25. ASSUME NEW c \in Cycles, CycleStopped(c) PROVE ChainInv'
  BY <1>25 DEF CycleStopped, Fault, NoFault
<1>26. ASSUME NEW c \in Cycles, Initialize(c) PROVE ChainInv'
  BY <1>26 DEF Initialize
<1>27. ASSUME ShutdownCall PROVE ChainInv'
  BY <1>27, DownChain DEF ShutdownCall, Enqueue, StorePending
<1>28. ASSUME ShutdownPersist PROVE ChainInv'
  BY <1>28, MarkedNoDown, TailChain, TasksAssumption DEF ShutdownPersist,
     Granted
<1>29. ASSUME ShutdownDone PROVE ChainInv'
  BY <1>29 DEF ShutdownDone, SaveOk, NoFault, Empty
<1>30. ASSUME ShutdownFailed PROVE ChainInv'
  BY <1>30 DEF ShutdownFailed, SaveFails, Fault, Empty
<1>31. ASSUME Crash PROVE ChainInv'
  BY <1>31 DEF Crash, Saving, ClearLocals, Empty, NoReply, NoDown,
     OnlyStores
<1>32. ASSUME UNCHANGED vars PROVE ChainInv'
  BY <1>32 DEF vars
<1> QED
  BY <1>1, <1>2, <1>3, <1>4, <1>5, <1>6, <1>7, <1>8, <1>9, <1>10, <1>11,
     <1>12, <1>13, <1>14, <1>15, <1>16, <1>17, <1>18, <1>19, <1>20, <1>21,
     <1>22, <1>23, <1>24, <1>25, <1>26, <1>27, <1>28, <1>29, <1>30, <1>31,
     <1>32 DEF Next, StoreStep, SyncStep, CycleStep

\* On an image whose checksums all match, mutate-and-reseal is invisible.
LEMMA TouchSealed ==
  ASSUME NEW m \in Image, m.bad = {}, NEW S
  PROVE  Touch(m, S) = m
BY TouchFact DEF Image

\* Deleting records leaves the other checksums matching.
LEMMA DeleteSealed ==
  ASSUME NEW m \in Image, m.bad = {}, NEW S
  PROVE  Delete(m, S).bad = {} /\ Delete(m, S).ids = m.ids \ S
BY DEF Delete, Image

\* The data part of the invariant: what is owed stays in memory, in the
\* snapshot being written and in the file.
LEMMA DataStep == TypeOK /\ LockInv /\ StoppedInv /\ ChainInv /\ CommitInv /\ DataInv /\ [Next]_vars => DataInv'
<1> SUFFICES ASSUME TypeOK, LockInv, StoppedInv, ChainInv, CommitInv, DataInv, [Next]_vars PROVE DataInv'
  OBVIOUS
<1> USE DEF Tasks, Goto, queueVars, lockVars, syncVars, downVars, linkVars,
   worldVars, None, LockInv, ChainInv, DataInv, ImageInv, DurableInv,
   ReplyInv, SealInv, NoLoss, NoForgottenRecord, DurableBeforeUse, Owed,
   Saving, StorePhases, SyncPhases, TypeOK, Image
<1>1. ASSUME NEW r \in Records, StoreCall(r) PROVE DataInv'
  BY <1>1, TasksAssumption DEF StoreCall, Enqueue
<1>2. ASSUME NEW r \in Records, StoreRefused(r) PROVE DataInv'
  BY <1>2, TasksAssumption DEF StoreRefused, Granted
<1>3. ASSUME NEW r \in Records, StoreAdmitted(r) PROVE DataInv'
  BY <1>3, TasksAssumption DEF StoreAdmitted, Granted, Acquire, Persist,
     Refused, Insert, StoppedInv
<1>4. ASSUME NEW r \in Records, StorePersisted(r) PROVE DataInv'
  BY <1>4, TasksAssumption DEF StorePersisted, SaveOk, NoFault, Empty,
     StoppedInv
<1>5. ASSUME NEW r \in Records, StorePersistFailed(r) PROVE DataInv'
  <2>1. r \notin committed /\ pcDown # "persist"
    BY <1>5 DEF StorePersistFailed, CommitInv, StoppedInv
  <2>2. disk' \in {disk, mem}
    BY <1>5 DEF StorePersistFailed, SaveFails
  <2>3. mem'.ids = mem.ids \ {r} /\ mem'.bad = {}
    BY <1>5, DeleteSealed DEF StorePersistFailed
  <2>4. /\ holder' = None /\ phase' = None /\ reply' = NoReply
        /\ UNCHANGED <<committed, superseded, upstream, initialized, pcDown>>
    BY <1>5 DEF StorePersistFailed, Release, ClearLocals
  <2>5. Owed' \subseteq disk'.ids /\ (initialized' => Owed' \subseteq mem'.ids)
    BY <1>5, <2>1, <2>2, <2>3, <2>4 DEF StorePersistFailed
  <2>6. mem'.ids \subseteq disk'.ids
    BY <1>5, <2>2, <2>3 DEF StorePersistFailed
  <2> QED
    BY <2>1, <2>2, <2>3, <2>4, <2>5, <2>6 DEF NoReply
<1>6. ASSUME NEW r \in Records, StoreProcessed(r) PROVE DataInv'
  BY <1>6, TasksAssumption DEF StoreProcessed, Release
<1>7. ASSUME NEW r \in Records, StoreFollowUp(r) PROVE DataInv'
  BY <1>7, TasksAssumption DEF StoreFollowUp, Enqueue
<1>8. ASSUME NEW t \in Tasks, SyncGranted(t) PROVE DataInv'
  BY <1>8, TasksAssumption DEF SyncGranted, Granted, Acquire
<1>9. ASSUME NEW t \in Tasks, SyncForward(t) PROVE DataInv'
  BY <1>9, NextBatchIn, TasksAssumption DEF SyncForward, Syncing,
     MoreToSend, NoReply
<1>10. ASSUME NEW t \in Tasks, SyncDrained(t) PROVE DataInv'
  BY <1>10, TasksAssumption DEF SyncDrained, Syncing, MoreToSend, SyncEnds,
     Release, ClearLocals, Empty, NoReply
<1>11. ASSUME NEW t \in Tasks, SyncForwardFailed(t) PROVE DataInv'
  BY <1>11, TouchSealed, TasksAssumption DEF SyncForwardFailed, Syncing,
     Fault, Persist
<1>12. ASSUME NEW t \in Tasks, SyncBadReply(t) PROVE DataInv'
  BY <1>12, TasksAssumption DEF SyncBadReply, Syncing, Fault, SyncEnds,
     Release, ClearLocals, Empty, NoReply
<1>13. ASSUME NEW t \in Tasks, SyncReplied(t) PROVE DataInv'
  BY <1>13, TasksAssumption DEF SyncReplied, Syncing, Fault, NoFault
<1>14. ASSUME NEW t \in Tasks, NEW r \in Records, Reconcile(t, r) PROVE DataInv'
  <2>1. \/ mem' = mem /\ superseded' = superseded
        \/ /\ mem'.ids = mem.ids \ {r} /\ mem'.bad = {}
           /\ superseded' = superseded \cup {r}
    <3>1. Touch(mem, {r}) = mem
      BY TouchSealed
    <3>2. Delete(mem, {r}).ids = mem.ids \ {r} /\ Delete(mem, {r}).bad = {}
      BY DeleteSealed
    <3> QED
      BY <1>14, <3>1, <3>2 DEF Reconcile
  <2>2. pcDown # "persist"
    BY <1>14, TasksAssumption DEF Reconcile, Syncing
  <2>3. /\ reply'.acked = reply.acked /\ phase' = "reconcile"
        /\ UNCHANGED <<disk, committed, upstream, initialized, pcDown>>
    BY <1>14 DEF Reconcile
  <2> QED
    BY <1>14, <2>1, <2>2, <2>3 DEF Reconcile
<1>15. ASSUME NEW t \in Tasks, ReconcileThrew(t) PROVE DataInv'
  BY <1>15, TouchSealed, TasksAssumption DEF ReconcileThrew, Syncing, Fault,
     NoFault, SyncEnds, Release, ClearLocals, Empty, NoReply
<1>16. ASSUME NEW t \in Tasks, SyncApply(t) PROVE DataInv'
  <2>1. mem'.ids = mem.ids \ reply.acked /\ mem'.bad = {}
    <3> DEFINE left == Delete(mem, reply.acked)
    <3>1. left \in Image /\ left.ids = mem.ids \ reply.acked /\ left.bad = {}
      BY DeleteType, DeleteSealed
    <3>2. Touch(left, batch \ reply.conflicts) = left
      BY <3>1, TouchSealed
    <3> QED
      BY <1>16, <3>1, <3>2 DEF SyncApply, Persist
  <2>2. pcDown # "persist"
    BY <1>16, TasksAssumption DEF SyncApply, Syncing
  <2>3. /\ image' = mem' /\ phase' = "ackPersist"
        /\ UNCHANGED <<disk, reply, committed, superseded, upstream,
                      initialized, pcDown>>
    BY <1>16 DEF SyncApply, Persist
  <2> QED
    BY <1>16, <2>1, <2>2, <2>3 DEF SyncApply
<1>17. ASSUME NEW t \in Tasks, SyncApplied(t) PROVE DataInv'
  BY <1>17, TasksAssumption DEF SyncApplied, Syncing, SaveOk, NoFault,
     SyncEnds, Release, ClearLocals, Empty, NoReply
<1>18. ASSUME NEW t \in Tasks, SyncFailureSaved(t) PROVE DataInv'
  BY <1>18, TasksAssumption DEF SyncFailureSaved, Syncing, SaveOk, NoFault,
     SyncEnds, Release, ClearLocals, Empty, NoReply
<1>19. ASSUME NEW t \in Tasks, SyncPersistFailed(t) PROVE DataInv'
  BY <1>19, TasksAssumption DEF SyncPersistFailed, Syncing, SaveFails,
     Fault, SyncEnds, Release, ClearLocals, Empty, NoReply
<1>20. ASSUME NEW t \in Tasks, SyncReturned(t) PROVE DataInv'
  BY <1>20, TasksAssumption DEF SyncReturned, Finished, Schedule
<1>21. ASSUME NEW t \in Tasks, SyncThrew(t) PROVE DataInv'
  BY <1>21, TasksAssumption DEF SyncThrew, Finished, Schedule
<1>22. ASSUME NEW c \in Cycles, CycleStart(c) PROVE DataInv'
  BY <1>22, TasksAssumption DEF CycleStart
<1>23. ASSUME NEW c \in Cycles, CycleReachable(c) PROVE DataInv'
  BY <1>23, TasksAssumption DEF CycleReachable, Enqueue
<1>24. ASSUME NEW c \in Cycles, CycleUnreachable(c) PROVE DataInv'
  BY <1>24, TasksAssumption DEF CycleUnreachable, Fault, Schedule
<1>25. ASSUME NEW c \in Cycles, CycleStopped(c) PROVE DataInv'
  BY <1>25, TasksAssumption DEF CycleStopped, Fault, NoFault
<1>26. ASSUME NEW c \in Cycles, Initialize(c) PROVE DataInv'
  BY <1>26, TasksAssumption DEF Initialize, StoppedInv
<1>27. ASSUME ShutdownCall PROVE DataInv'
  BY <1>27, TasksAssumption DEF ShutdownCall, Enqueue, StorePending
<1>28. ASSUME ShutdownPersist PROVE DataInv'
  BY <1>28, TasksAssumption DEF ShutdownPersist, Granted, StoppedInv
<1>29. ASSUME ShutdownDone PROVE DataInv'
  BY <1>29, TasksAssumption DEF ShutdownDone, SaveOk, NoFault, Empty,
     StoppedInv
<1>30. ASSUME ShutdownFailed PROVE DataInv'
  BY <1>30, TasksAssumption DEF ShutdownFailed, SaveFails, Fault, Empty,
     StoppedInv
<1>31. ASSUME Crash PROVE DataInv'
  <2>1. disk' \in {disk, mem}
    BY <1>31 DEF Crash
  <2>2. disk'.bad = {} /\ Owed \subseteq disk'.ids
    BY <1>31, <2>1, TasksAssumption DEF Crash, StoppedInv
  <2>3. Owed' \subseteq Owed
    BY <1>31 DEF Crash
  <2> QED
    BY <1>31, <2>2, <2>3 DEF Crash, ClearLocals, Empty, NoReply
<1>32. ASSUME UNCHANGED vars PROVE DataInv'
  BY <1>32, TasksAssumption DEF vars
<1> QED
  BY <1>1, <1>2, <1>3, <1>4, <1>5, <1>6, <1>7, <1>8, <1>9, <1>10, <1>11,
     <1>12, <1>13, <1>14, <1>15, <1>16, <1>17, <1>18, <1>19, <1>20, <1>21,
     <1>22, <1>23, <1>24, <1>25, <1>26, <1>27, <1>28, <1>29, <1>30, <1>31,
     <1>32 DEF Next, StoreStep, SyncStep, CycleStep

\* Whoever changes the link state last also arms the timer that fits it.
LEMMA TimerStep == TypeOK /\ LockInv /\ TimerInv /\ [Next]_vars => TimerInv'
<1> SUFFICES ASSUME TypeOK, LockInv, TimerInv, [Next]_vars PROVE TimerInv'
  OBVIOUS
<1> USE DEF Tasks, Goto, queueVars, lockVars, syncVars, downVars, linkVars,
   worldVars, None, TypeOK, PcLabels, LockInv, StorePhases, SyncPhases,
   TimerInv, NoCycle
<1>1. ASSUME NEW r \in Records, StoreCall(r) PROVE TimerInv'
  BY <1>1, TasksAssumption DEF StoreCall, Enqueue
<1>2. ASSUME NEW r \in Records, StoreRefused(r) PROVE TimerInv'
  BY <1>2, TasksAssumption DEF StoreRefused, Granted
<1>3. ASSUME NEW r \in Records, StoreAdmitted(r) PROVE TimerInv'
  BY <1>3, TasksAssumption DEF StoreAdmitted, Granted, Acquire, Persist
<1>4. ASSUME NEW r \in Records, StorePersisted(r) PROVE TimerInv'
  BY <1>4, TasksAssumption DEF StorePersisted, SaveOk, NoFault, Empty
<1>5. ASSUME NEW r \in Records, StorePersistFailed(r) PROVE TimerInv'
  BY <1>5, TasksAssumption DEF StorePersistFailed, SaveFails, Fault,
     Release, ClearLocals, Empty, NoReply
<1>6. ASSUME NEW r \in Records, StoreProcessed(r) PROVE TimerInv'
  BY <1>6, TasksAssumption DEF StoreProcessed, Release
<1>7. ASSUME NEW r \in Records, StoreFollowUp(r) PROVE TimerInv'
  BY <1>7, TasksAssumption DEF StoreFollowUp, Enqueue
<1>8. ASSUME NEW t \in Tasks, SyncGranted(t) PROVE TimerInv'
  BY <1>8, TasksAssumption DEF SyncGranted, Granted, Acquire
<1>9. ASSUME NEW t \in Tasks, SyncForward(t) PROVE TimerInv'
  BY <1>9, TasksAssumption DEF SyncForward, Syncing, MoreToSend, NoReply
<1>10. ASSUME NEW t \in Tasks, SyncDrained(t) PROVE TimerInv'
  BY <1>10, TasksAssumption DEF SyncDrained, Syncing, MoreToSend, SyncEnds,
     Release, ClearLocals, Empty, NoReply
<1>11. ASSUME NEW t \in Tasks, SyncForwardFailed(t) PROVE TimerInv'
  BY <1>11, TasksAssumption DEF SyncForwardFailed, Syncing, Fault, Persist
<1>12. ASSUME NEW t \in Tasks, SyncBadReply(t) PROVE TimerInv'
  BY <1>12, TasksAssumption DEF SyncBadReply, Syncing, Fault, SyncEnds,
     Release, ClearLocals, Empty, NoReply
<1>13. ASSUME NEW t \in Tasks, SyncReplied(t) PROVE TimerInv'
  BY <1>13, TasksAssumption DEF SyncReplied, Syncing, Fault, NoFault
<1>14. ASSUME NEW t \in Tasks, NEW r \in Records, Reconcile(t, r) PROVE TimerInv'
  BY <1>14, TasksAssumption DEF Reconcile, Syncing
<1>15. ASSUME NEW t \in Tasks, ReconcileThrew(t) PROVE TimerInv'
  BY <1>15, TasksAssumption DEF ReconcileThrew, Syncing, Fault, NoFault,
     SyncEnds, Release, ClearLocals, Empty, NoReply
<1>16. ASSUME NEW t \in Tasks, SyncApply(t) PROVE TimerInv'
  BY <1>16, TasksAssumption DEF SyncApply, Syncing, Persist
<1>17. ASSUME NEW t \in Tasks, SyncApplied(t) PROVE TimerInv'
  BY <1>17, TasksAssumption DEF SyncApplied, Syncing, SaveOk, NoFault,
     SyncEnds, Release, ClearLocals, Empty, NoReply
<1>18. ASSUME NEW t \in Tasks, SyncFailureSaved(t) PROVE TimerInv'
  BY <1>18, TasksAssumption DEF SyncFailureSaved, Syncing, SaveOk, NoFault,
     SyncEnds, Release, ClearLocals, Empty, NoReply
<1>19. ASSUME NEW t \in Tasks, SyncPersistFailed(t) PROVE TimerInv'
  BY <1>19, TasksAssumption DEF SyncPersistFailed, Syncing, SaveFails,
     Fault, SyncEnds, Release, ClearLocals, Empty, NoReply
<1>20. ASSUME NEW t \in Tasks, SyncReturned(t) PROVE TimerInv'
  BY <1>20, TasksAssumption DEF SyncReturned, Finished, Schedule
<1>21. ASSUME NEW t \in Tasks, SyncThrew(t) PROVE TimerInv'
  BY <1>21, TasksAssumption DEF SyncThrew, Finished, Schedule
<1>22. ASSUME NEW c \in Cycles, CycleStart(c) PROVE TimerInv'
  BY <1>22, TasksAssumption DEF CycleStart
<1>23. ASSUME NEW c \in Cycles, CycleReachable(c) PROVE TimerInv'
  BY <1>23, TasksAssumption DEF CycleReachable, Enqueue
<1>24. ASSUME NEW c \in Cycles, CycleUnreachable(c) PROVE TimerInv'
  BY <1>24, TasksAssumption DEF CycleUnreachable, Fault, Schedule
<1>25. ASSUME NEW c \in Cycles, CycleStopped(c) PROVE TimerInv'
  BY <1>25, TasksAssumption DEF CycleStopped, Fault, NoFault
<1>26. ASSUME NEW c \in Cycles, Initialize(c) PROVE TimerInv'
  BY <1>26, TasksAssumption DEF Initialize
<1>27. ASSUME ShutdownCall PROVE TimerInv'
  BY <1>27, TasksAssumption DEF ShutdownCall, Enqueue, StorePending
<1>28. ASSUME ShutdownPersist PROVE TimerInv'
  BY <1>28, TasksAssumption DEF ShutdownPersist, Granted
<1>29. ASSUME ShutdownDone PROVE TimerInv'
  BY <1>29, TasksAssumption DEF ShutdownDone, SaveOk, NoFault, Empty
<1>30. ASSUME ShutdownFailed PROVE TimerInv'
  BY <1>30, TasksAssumption DEF ShutdownFailed, SaveFails, Fault, Empty
<1>31. ASSUME Crash PROVE TimerInv'
  BY <1>31, TasksAssumption DEF Crash, Saving, ClearLocals, Empty, NoReply
<1>32. ASSUME UNCHANGED vars PROVE TimerInv'
  BY <1>32, TasksAssumption DEF vars
<1> QED
  BY <1>1, <1>2, <1>3, <1>4, <1>5, <1>6, <1>7, <1>8, <1>9, <1>10, <1>11,
     <1>12, <1>13, <1>14, <1>15, <1>16, <1>17, <1>18, <1>19, <1>20, <1>21,
     <1>22, <1>23, <1>24, <1>25, <1>26, <1>27, <1>28, <1>29, <1>30, <1>31,
     <1>32 DEF Next, StoreStep, SyncStep, CycleStep

\* Removing records keeps a queue within capacity.
LEMMA CardAtMost ==
  ASSUME NEW S \in SUBSET Records, NEW T, Cardinality(S) <= MaxLocalStorage
  PROVE  Cardinality(S \ T) <= MaxLocalStorage
<1>1. IsFiniteSet(S)
  BY TasksAssumption, FS_Subset
<1>2. Cardinality(S \ T) <= Cardinality(S)
  BY <1>1, FS_Subset
<1>3. Cardinality(S) \in Nat /\ Cardinality(S \ T) \in Nat
  BY <1>1, FS_Subset, FS_CardinalityType
<1> QED
  BY <1>2, <1>3, ConfigAssumption

\* Adding one record to a queue below capacity keeps it within.
LEMMA CardInsert ==
  ASSUME NEW S \in SUBSET Records, NEW r, Cardinality(S) < MaxLocalStorage
  PROVE  Cardinality(S \cup {r}) <= MaxLocalStorage
BY TasksAssumption, ConfigAssumption, FS_Subset, FS_AddElement,
   FS_CardinalityType

\* The empty queue has no records.
LEMMA CardNone == Cardinality({}) = 0
BY FS_EmptySet

\* Memory, file and both snapshots stay within capacity.
LEMMA CapacityStep == TypeOK /\ CapacityInv /\ [Next]_vars => CapacityInv'
<1> SUFFICES ASSUME TypeOK, CapacityInv, [Next]_vars PROVE CapacityInv'
  OBVIOUS
<1> USE DEF Tasks, Goto, queueVars, lockVars, syncVars, downVars, linkVars,
   worldVars, TypeOK, Image, CapacityInv
<1>1. ASSUME NEW r \in Records, StoreCall(r) PROVE CapacityInv'
  BY <1>1, ConfigAssumption, CardNone DEF StoreCall, Enqueue
<1>2. ASSUME NEW r \in Records, StoreRefused(r) PROVE CapacityInv'
  BY <1>2, ConfigAssumption, CardNone DEF StoreRefused, Granted
<1>3. ASSUME NEW r \in Records, StoreAdmitted(r) PROVE CapacityInv'
  <2>1. Cardinality(mem.ids) < MaxLocalStorage
    <3>1. Cardinality(mem.ids) \in Nat
      BY TasksAssumption, FS_Subset, FS_CardinalityType
    <3> QED
      BY <1>3, <3>1, ConfigAssumption DEF StoreAdmitted, Refused
  <2>2. Cardinality(mem.ids \cup {r}) <= MaxLocalStorage
    BY <2>1, CardInsert
  <2> QED
    BY <1>3, <2>2 DEF StoreAdmitted, Persist, Insert
<1>4. ASSUME NEW r \in Records, StorePersisted(r) PROVE CapacityInv'
  BY <1>4, ConfigAssumption, CardNone DEF StorePersisted, SaveOk, NoFault,
     Empty
<1>5. ASSUME NEW r \in Records, StorePersistFailed(r) PROVE CapacityInv'
  <2>1. Cardinality(mem.ids \ {r}) <= MaxLocalStorage
    BY CardAtMost
  <2> QED
    BY <1>5, <2>1, CardNone, ConfigAssumption DEF StorePersistFailed, SaveFails,
       Delete, ClearLocals, Empty
<1>6. ASSUME NEW r \in Records, StoreProcessed(r) PROVE CapacityInv'
  BY <1>6, ConfigAssumption, CardNone DEF StoreProcessed, Release
<1>7. ASSUME NEW r \in Records, StoreFollowUp(r) PROVE CapacityInv'
  BY <1>7, ConfigAssumption, CardNone DEF StoreFollowUp, Enqueue
<1>8. ASSUME NEW t \in Tasks, SyncGranted(t) PROVE CapacityInv'
  BY <1>8, ConfigAssumption, CardNone DEF SyncGranted, Granted, Acquire
<1>9. ASSUME NEW t \in Tasks, SyncForward(t) PROVE CapacityInv'
  BY <1>9, ConfigAssumption, CardNone DEF SyncForward, Syncing, MoreToSend,
     NoReply
<1>10. ASSUME NEW t \in Tasks, SyncDrained(t) PROVE CapacityInv'
  BY <1>10, ConfigAssumption, CardNone DEF SyncDrained, Syncing, MoreToSend,
     SyncEnds, Release, ClearLocals, Empty, NoReply
<1>11. ASSUME NEW t \in Tasks, SyncForwardFailed(t) PROVE CapacityInv'
  BY <1>11, TouchFact DEF SyncForwardFailed, Syncing, Fault, Persist
<1>12. ASSUME NEW t \in Tasks, SyncBadReply(t) PROVE CapacityInv'
  BY <1>12, ConfigAssumption, CardNone DEF SyncBadReply, Syncing, Fault,
     SyncEnds, Release, ClearLocals, Empty, NoReply
<1>13. ASSUME NEW t \in Tasks, SyncReplied(t) PROVE CapacityInv'
  BY <1>13, ConfigAssumption, CardNone DEF SyncReplied, Syncing, Fault,
     NoFault
<1>14. ASSUME NEW t \in Tasks, NEW r \in Records, Reconcile(t, r) PROVE CapacityInv'
  <2>1. Cardinality(mem.ids \ {r}) <= MaxLocalStorage
    BY CardAtMost
  <2>2. mem'.ids \in {mem.ids, mem.ids \ {r}}
    BY <1>14, TouchFact, SMTT(30) DEF Reconcile, Delete
  <2> QED
    BY <1>14, <2>1, <2>2 DEF Reconcile
<1>15. ASSUME NEW t \in Tasks, ReconcileThrew(t) PROVE CapacityInv'
  <2>1. mem'.ids = mem.ids
    BY <1>15, TouchFact DEF ReconcileThrew
  <2> QED
    BY <1>15, <2>1, CardNone, ConfigAssumption DEF ReconcileThrew, SyncEnds,
       ClearLocals, Empty
<1>16. ASSUME NEW t \in Tasks, SyncApply(t) PROVE CapacityInv'
  <2>1. Cardinality(mem.ids \ reply.acked) <= MaxLocalStorage
    BY CardAtMost
  <2>2. Delete(mem, reply.acked) \in Image
    BY DeleteType
  <2>3. mem'.ids = mem.ids \ reply.acked
    BY <1>16, <2>2, TouchFact DEF SyncApply, Persist, Delete
  <2> QED
    BY <1>16, <2>1, <2>3 DEF SyncApply, Persist
<1>17. ASSUME NEW t \in Tasks, SyncApplied(t) PROVE CapacityInv'
  <2>1. image' = Empty
    BY <1>17 DEF SyncApplied, SyncEnds, ClearLocals
  <2> QED
    BY <1>17, <2>1, CardNone, ConfigAssumption DEF SyncApplied, SaveOk, Empty
<1>18. ASSUME NEW t \in Tasks, SyncFailureSaved(t) PROVE CapacityInv'
  BY <1>18, ConfigAssumption, CardNone DEF SyncFailureSaved, Syncing,
     SaveOk, NoFault, SyncEnds, Release, ClearLocals, Empty, NoReply
<1>19. ASSUME NEW t \in Tasks, SyncPersistFailed(t) PROVE CapacityInv'
  BY <1>19, ConfigAssumption, CardNone DEF SyncPersistFailed, Syncing,
     SaveFails, Fault, SyncEnds, Release, ClearLocals, Empty, NoReply
<1>20. ASSUME NEW t \in Tasks, SyncReturned(t) PROVE CapacityInv'
  BY <1>20, ConfigAssumption, CardNone DEF SyncReturned, Finished, Schedule
<1>21. ASSUME NEW t \in Tasks, SyncThrew(t) PROVE CapacityInv'
  BY <1>21, ConfigAssumption, CardNone DEF SyncThrew, Finished, Schedule
<1>22. ASSUME NEW c \in Cycles, CycleStart(c) PROVE CapacityInv'
  BY <1>22, ConfigAssumption, CardNone DEF CycleStart
<1>23. ASSUME NEW c \in Cycles, CycleReachable(c) PROVE CapacityInv'
  BY <1>23, ConfigAssumption, CardNone DEF CycleReachable, Enqueue
<1>24. ASSUME NEW c \in Cycles, CycleUnreachable(c) PROVE CapacityInv'
  BY <1>24, ConfigAssumption, CardNone DEF CycleUnreachable, Fault, Schedule
<1>25. ASSUME NEW c \in Cycles, CycleStopped(c) PROVE CapacityInv'
  BY <1>25, ConfigAssumption, CardNone DEF CycleStopped, Fault, NoFault
<1>26. ASSUME NEW c \in Cycles, Initialize(c) PROVE CapacityInv'
  BY <1>26, ConfigAssumption, CardNone DEF Initialize
<1>27. ASSUME ShutdownCall PROVE CapacityInv'
  BY <1>27, ConfigAssumption, CardNone DEF ShutdownCall, Enqueue,
     StorePending
<1>28. ASSUME ShutdownPersist PROVE CapacityInv'
  BY <1>28, ConfigAssumption, CardNone DEF ShutdownPersist, Granted
<1>29. ASSUME ShutdownDone PROVE CapacityInv'
  BY <1>29, ConfigAssumption, CardNone DEF ShutdownDone, SaveOk, NoFault,
     Empty
<1>30. ASSUME ShutdownFailed PROVE CapacityInv'
  BY <1>30, ConfigAssumption, CardNone DEF ShutdownFailed, SaveFails, Fault,
     Empty
<1>31. ASSUME Crash PROVE CapacityInv'
  BY <1>31, ConfigAssumption, CardNone DEF Crash, Saving, ClearLocals,
     Empty, NoReply
<1>32. ASSUME UNCHANGED vars PROVE CapacityInv'
  BY <1>32, ConfigAssumption, CardNone DEF vars
<1> QED
  BY <1>1, <1>2, <1>3, <1>4, <1>5, <1>6, <1>7, <1>8, <1>9, <1>10, <1>11,
     <1>12, <1>13, <1>14, <1>15, <1>16, <1>17, <1>18, <1>19, <1>20, <1>21,
     <1>22, <1>23, <1>24, <1>25, <1>26, <1>27, <1>28, <1>29, <1>30, <1>31,
     <1>32 DEF Next, StoreStep, SyncStep, CycleStep

-----------------------------------------------------------------------------
(***************************************************************************)
(* The theorems.                                                           *)
(***************************************************************************)

\* The initial state is well typed.
LEMMA InitTypeOK == Init => TypeOK
<1> SUFFICES ASSUME Init PROVE TypeOK
  OBVIOUS
<1> USE DEF Init
<1>1. /\ mem \in Image /\ disk \in Image
      /\ image \in Image /\ downImage \in Image
  BY DEF Image, Empty
<1>2. pc \in [Tasks -> PcLabels] /\ arrived \in [Records -> Nat]
  BY DEF PcLabels
<1>3. waitQ \in Seq(Tasks \cup {Down})
  OBVIOUS
<1>4. /\ faults \in 0..MaxFaults /\ crashes \in 0..MaxCrashes
      /\ shutdowns \in 0..MaxShutdowns
  BY ConfigAssumption
<1>5. /\ batch \in SUBSET Records
      /\ reply \in [acked : SUBSET Records, conflicts : SUBSET Records,
                    todo : SUBSET Records]
      /\ upstream \in SUBSET Records /\ committed \in SUBSET Records
      /\ superseded \in SUBSET Records
  BY DEF NoReply
<1>6. isConnected \in BOOLEAN /\ initialized \in BOOLEAN /\ stopped \in BOOLEAN
  OBVIOUS
<1>7. /\ holder \in Tasks \cup {None} /\ pcDown \in {"idle", "wait", "persist"}
      /\ timer \in {None, "backoff", "heartbeat"}
      /\ phase \in {None, "storePersist", "process", "loop", "forward",
                    "reconcile", "ackPersist", "failPersist"}
  OBVIOUS
<1> QED
  BY <1>1, <1>2, <1>3, <1>4, <1>5, <1>6, <1>7 DEF TypeOK

\* Every reachable state of the queue is well typed.
THEOREM TypeCorrect == Spec => []TypeOK
<1>1. Init => TypeOK
  BY InitTypeOK
<1>2. TypeOK /\ [Next]_vars => TypeOK'
  BY TypeStep
<1> QED
  BY <1>1, <1>2, PTL DEF Spec

\* The initial state satisfies the inductive invariant.
LEMMA InitSafety == Init => SafetyInv
<1> SUFFICES ASSUME Init PROVE SafetyInv
  OBVIOUS
<1> USE DEF Init, Empty, None
<1>1. LockInv /\ StoppedInv /\ CommitInv
  BY DEF LockInv, StoppedInv, CommitInv, StorePhases, SyncPhases, Tasks
<1>2. ChainInv
  BY DEF ChainInv, NoDown, OnlyStores
<1>3. DataInv
  BY DEF DataInv, ImageInv, DurableInv, ReplyInv, SealInv, NoLoss,
     NoForgottenRecord, DurableBeforeUse, Owed, Saving, NoReply
<1> QED
  BY <1>1, <1>2, <1>3, InitTypeOK DEF SafetyInv

\* The inductive invariant holds in every reachable state.
LEMMA SafetyInvariant == ASSUME ~ShutdownWhileStoring PROVE Spec => []SafetyInv
<1>1. Init => SafetyInv
  BY InitSafety
<1>2. SafetyInv /\ [Next]_vars => SafetyInv'
  BY TypeStep, LockStep, StoppedStep, ChainStep, CommitStep, DataStep
     DEF SafetyInv
<1> QED
  BY <1>1, <1>2, PTL DEF Spec

\* When store() calls have settled before shutdown() is called, no record
\* that store() persisted ever leaves the queue file before the upstream has
\* it or a newer remote value has replaced it - for any number of records,
\* cycles, faults, crashes and shutdowns.
THEOREM NothingLost == ASSUME ~ShutdownWhileStoring PROVE Spec => []NoLoss
<1>1. SafetyInv => NoLoss
  BY DEF SafetyInv, DataInv
<1> QED
  BY <1>1, SafetyInvariant, PTL

\* Under the same condition a running service holds every owed record in
\* memory, so the next cycle offers it again without a restart.
THEOREM NothingForgotten ==
  ASSUME ~ShutdownWhileStoring PROVE Spec => []NoForgottenRecord
<1>1. SafetyInv => NoForgottenRecord
  BY DEF SafetyInv, DataInv
<1> QED
  BY <1>1, SafetyInvariant, PTL

\* Under the same condition nothing is forwarded or processed locally before
\* it is in the queue file.
THEOREM CommitPrecedesUse ==
  ASSUME ~ShutdownWhileStoring PROVE Spec => []DurableBeforeUse
<1>1. SafetyInv => DurableBeforeUse
  BY DEF SafetyInv, DataInv
<1> QED
  BY <1>1, SafetyInvariant, PTL

\* Under the same condition every file a crash can leave passes the checksum
\* verification of initialize().
THEOREM QueueFileLoads ==
  ASSUME ~ShutdownWhileStoring PROVE Spec => []RestartAcceptsQueue
<1>1. SafetyInv => RestartAcceptsQueue
  BY DEF SafetyInv, DataInv, SealInv, RestartAcceptsQueue
<1> QED
  BY <1>1, SafetyInvariant, PTL

\* However store(), cycles, timers and shutdown() interleave, a quiet running
\* service has its retry timer armed, with the delay its link state calls for.
THEOREM RetryAlwaysArmed == Spec => []RetryArmed
<1> DEFINE I == TypeOK /\ LockInv /\ TimerInv
<1>1. Init => I
  BY InitTypeOK, InitSafety DEF Init, SafetyInv, TimerInv
<1>2. I /\ [Next]_vars => I'
  BY TypeStep, LockStep, TimerStep
<1>3. I => RetryArmed
  <2> SUFFICES ASSUME I, initialized, ~stopped, Quiet
               PROVE  timer = IF isConnected THEN "heartbeat" ELSE "backoff"
    BY DEF RetryArmed
  <2>1. NoCycle /\ \A r \in Records : pc[r] \notin {"returned", "threw"}
    BY DEF Quiet
  <2> QED
    BY <2>1 DEF TimerInv, TypeOK
<1> QED
  BY <1>1, <1>2, <1>3, PTL DEF Spec

\* The queue never holds more than maxLocalStorage records, in memory or in
\* the file it is restarted from.
THEOREM CapacityRespected == Spec => []WithinCapacity
<1> DEFINE I == TypeOK /\ CapacityInv
<1>1. Init => I
  BY InitTypeOK, CardNone, ConfigAssumption DEF Init, CapacityInv, Empty
<1>2. I /\ [Next]_vars => I'
  BY TypeStep, CapacityStep
<1>3. I => WithinCapacity
  BY DEF CapacityInv, WithinCapacity
<1> QED
  BY <1>1, <1>2, <1>3, PTL DEF Spec
\* A step that only rewrites the file is a Rewrite: the invariant holds after
\* it, so the new contents keep what is owed.
LEMMA RewriteStep ==
  ASSUME SafetyInv, SafetyInv', UNCHANGED worldVars
  PROVE  Queue!Rewrite
<1>1. disk'.ids \in SUBSET Records
  BY DEF SafetyInv, TypeOK, Image
<1>2. Owed' \subseteq disk'.ids
  BY DEF SafetyInv, DataInv, NoLoss
<1>3. Owed = Owed' /\ Owed = Queue!Owed
  BY DEF worldVars, Owed, Queue!Owed
<1> QED
  BY <1>1, <1>2, <1>3 DEF Queue!Rewrite, worldVars

\* Accepting records that are in the file is a Deliver.
LEMMA DeliverStep ==
  ASSUME TypeOK, NEW S \in SUBSET disk.ids, upstream' = upstream \cup S,
         UNCHANGED <<disk, committed, superseded>>
  PROVE  Queue!Next
<1>1. S \in SUBSET Records
  BY DEF TypeOK, Image
<1>2. Queue!Deliver(S)
  BY DEF Queue!Deliver
<1> QED
  BY <1>1, <1>2 DEF Queue!Next

\* Every step of the service is a step of the abstract queue or leaves what it
\* shows unchanged.
LEMMA QueueStep ==
  ASSUME SafetyInv, SafetyInv', [Next]_vars
  PROVE  [Queue!Next]_(Queue!vars)
<1> USE DEF queueVars, lockVars, syncVars, downVars, linkVars, worldVars
<1> DEFINE Same == UNCHANGED <<disk, worldVars>>
           World == UNCHANGED worldVars
<1>s. Same => UNCHANGED Queue!vars
  BY DEF Queue!vars
<1>w. World => Queue!Next
  BY RewriteStep DEF Queue!Next
<1>1. ASSUME NEW r \in Records, StoreCall(r) \/ StoreStep(r)
      PROVE  [Queue!Next]_(Queue!vars)
  <2>1. CASE StoreCall(r) \/ StoreRefused(r) \/ StoreAdmitted(r)
             \/ StoreProcessed(r) \/ StoreFollowUp(r)
    <3>1. Same
      BY <2>1 DEF StoreCall, StoreRefused, StoreAdmitted, StoreProcessed,
                  StoreFollowUp
    <3> QED
      BY <3>1, <1>s
  <2>2. CASE StorePersistFailed(r)
    BY <2>2, <1>w DEF StorePersistFailed
  <2>3. CASE StorePersisted(r)
    <3>1. r \notin committed
      BY <2>3 DEF StorePersisted, SafetyInv, LockInv, CommitInv, StorePhases
    <3>2. disk'.ids \in SUBSET Records
      BY DEF SafetyInv, TypeOK, Image
    <3>3. r \in disk'.ids
      BY <2>3 DEF StorePersisted, SaveOk, SafetyInv, DataInv, ImageInv,
                  DurableInv, Saving
    <3>4. Owed' \subseteq disk'.ids
      BY DEF SafetyInv, DataInv, NoLoss
    <3>5. Queue!Owed \subseteq Owed'
      BY <2>3 DEF StorePersisted, Owed, Queue!Owed
    <3>6. Queue!Commit(r)
      BY <2>3, <3>1, <3>2, <3>3, <3>4, <3>5 DEF StorePersisted, Queue!Commit
    <3> QED
      BY <3>6 DEF Queue!Next
  <2> QED
    BY <1>1, <2>1, <2>2, <2>3 DEF StoreStep
<1>2. ASSUME NEW t \in Tasks, SyncStep(t)
      PROVE  [Queue!Next]_(Queue!vars)
  <2>1. CASE SyncGranted(t) \/ SyncForward(t) \/ SyncDrained(t)
             \/ ReconcileThrew(t) \/ SyncApply(t) \/ SyncReturned(t)
             \/ SyncThrew(t)
    <3>1. Same
      BY <2>1 DEF SyncGranted, SyncForward, SyncDrained, ReconcileThrew,
                  SyncApply, SyncReturned, SyncThrew
    <3> QED
      BY <3>1, <1>s
  <2>2. CASE SyncApplied(t) \/ SyncFailureSaved(t) \/ SyncPersistFailed(t)
    <3>1. World
      BY <2>2 DEF SyncApplied, SyncFailureSaved, SyncPersistFailed
    <3> QED
      BY <3>1, <1>w
  <2>3. CASE SyncForwardFailed(t) \/ SyncBadReply(t) \/ SyncReplied(t)
    <3>1. PICK S \in SUBSET batch : upstream' = upstream \cup S
      BY <2>3 DEF SyncForwardFailed, SyncBadReply, SyncReplied
    <3>2. batch \subseteq disk.ids
      BY <2>3 DEF SyncForwardFailed, SyncBadReply, SyncReplied, SafetyInv,
                  DataInv, DurableBeforeUse
    <3>3. UNCHANGED <<disk, committed, superseded>>
      BY <2>3 DEF SyncForwardFailed, SyncBadReply, SyncReplied
    <3>4. S \in SUBSET disk.ids
      BY <3>1, <3>2
    <3>5. TypeOK
      BY DEF SafetyInv
    <3> QED
      BY <3>1, <3>3, <3>4, <3>5, DeliverStep
  <2>4. ASSUME NEW r \in Records, Reconcile(t, r)
        PROVE  [Queue!Next]_(Queue!vars)
    <3>1. r \in disk.ids
      BY <2>4 DEF Reconcile, SafetyInv, DataInv, DurableInv
    <3>2. CASE UNCHANGED superseded
      BY <2>4, <3>2, <1>s DEF Reconcile
    <3>3. CASE superseded' = superseded \cup {r}
      <4>1. Queue!Replace(r)
        BY <2>4, <3>1, <3>3 DEF Reconcile, Queue!Replace
      <4> QED
        BY <4>1 DEF Queue!Next
    <3> QED
      BY <2>4, <3>2, <3>3 DEF Reconcile
  <2> QED
    BY <1>2, <2>1, <2>2, <2>3, <2>4 DEF SyncStep
<1>3. ASSUME NEW c \in Cycles, CycleStart(c) \/ CycleStep(c) \/ Initialize(c)
      PROVE  [Queue!Next]_(Queue!vars)
  <2>1. Same
    BY <1>3 DEF CycleStart, CycleStep, CycleReachable, CycleUnreachable,
                CycleStopped, Initialize
  <2> QED
    BY <2>1, <1>s
<1>4. CASE ShutdownCall \/ ShutdownPersist
  <2>1. Same
    BY <1>4 DEF ShutdownCall, ShutdownPersist
  <2> QED
    BY <2>1, <1>s
<1>5. CASE ShutdownDone \/ ShutdownFailed
  <2>1. World
    BY <1>5 DEF ShutdownDone, ShutdownFailed
  <2> QED
    BY <2>1, <1>w
<1>6. CASE Crash
  <2>1. CASE phase = "forward"
    <3>1. PICK S \in SUBSET batch : upstream' = upstream \cup S
      BY <1>6, <2>1 DEF Crash
    <3>2. batch \subseteq disk.ids
      BY <2>1 DEF SafetyInv, DataInv, DurableBeforeUse
    <3>3. pcDown # "persist" /\ ~Saving
      BY <2>1 DEF SafetyInv, ChainInv, LockInv, Saving, None
    <3>4. UNCHANGED <<disk, committed, superseded>>
      BY <1>6, <3>3 DEF Crash
    <3>5. S \in SUBSET disk.ids /\ TypeOK
      BY <3>1, <3>2 DEF SafetyInv
    <3> QED
      BY <3>1, <3>4, <3>5, DeliverStep
  <2>2. CASE phase # "forward"
    <3>1. World
      BY <1>6, <2>2 DEF Crash
    <3> QED
      BY <3>1, <1>w
  <2> QED
    BY <2>1, <2>2
<1>7. CASE UNCHANGED vars
  BY <1>7, <1>s DEF vars
<1> QED
  BY <1>1, <1>2, <1>3, <1>4, <1>5, <1>6, <1>7 DEF Next

\* The service implements the abstract queue, for callers that let their
\* store() calls settle before shutdown(): no save, sync, shutdown or crash
\* takes a record that is owed off storage or delivers one that was not on it.
THEOREM QueueImplemented ==
  ASSUME ~ShutdownWhileStoring PROVE Spec => ImplementsDurableQueue
<1>1. Init => Queue!Init
  BY DEF Init, Empty, Queue!Init
<1>2. SafetyInv /\ SafetyInv' /\ [Next]_vars => [Queue!Next]_(Queue!vars)
  BY QueueStep
<1> QED
  BY <1>1, <1>2, SafetyInvariant, PTL DEF Spec, ImplementsDurableQueue,
     Queue!Spec
=============================================================================
