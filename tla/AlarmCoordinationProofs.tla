---------------------- MODULE AlarmCoordinationProofs ----------------------
(***************************************************************************)
(* Proofs about replica coordination for alarm correlation, for any set of *)
(* replicas and alarms, any rules and operations, both kinds of store, and *)
(* any number of failing calls and restarts.                               *)
(***************************************************************************)
EXTENDS AlarmCoordination, CorrelationEngineProofs, SequenceTheorems

-----------------------------------------------------------------------------
(* The inductive invariant, part by part *)

Mode == {"down", "loading", "loadingAlarms", "starting", "up"}

Rows == [seq : Nat, intent : BOOLEAN,
         where : [Alarm -> {Untracked, Ungrouped} \cup GroupId],
         state : [Alarm -> AlarmState],
         root : [GroupId -> Alarm \cup {Nobody}], open : SUBSET GroupId]

\* No row names a group that has no row.
GoodRows(p) ==
    /\ p \in Rows
    /\ \A g \in p.open : p.root[g] # Nobody
    /\ \A a \in Alarm : p.where[a] \in GroupId => p.root[p.where[a]] # Nobody

Changes == [seq : Nat, eng : Engine, groups : SUBSET GroupId, alarms : SUBSET Alarm,
            policy : SUBSET BOOLEAN]

Call == Operation \cup {PollCall, StartCall}

\* The store, the bounds and the histories.
StoreInv ==
    /\ journal \in Seq(Operation) /\ Len(journal) <= submits
    /\ submits \in Nat /\ submits <= MaxSubmits
    /\ faults \in Nat /\ faults <= MaxFaults
    /\ locals \in Nat /\ locals <= faults /\ restarts \in Nat
    /\ GoodRows(projection) /\ projection.seq <= Len(journal)
    /\ fellBack \in SUBSET Alarm /\ forgotten \in SUBSET Alarm /\ torn \in BOOLEAN
    /\ swept \in SUBSET Decision

ReplicaTypes ==
    /\ mode \in [Replica -> Mode] /\ loaded \in [Replica -> Rows]
    /\ engine \in [Replica -> Engine]
    /\ healthy \in [Replica -> BOOLEAN] /\ policyIntent \in [Replica -> BOOLEAN]
    /\ appliedSeq \in [Replica -> Nat] /\ unprojectedSeq \in [Replica -> Nat]
    /\ dirtyGroups \in [Replica -> SUBSET GroupId]
    /\ dirtyAlarms \in [Replica -> SUBSET Alarm]
    /\ pumps \in [Replica -> Seq(Call)] /\ pageEnd \in [Replica -> Nat]
    /\ changes \in [Replica -> Changes]

\* The marks wait for an entry that is being projected or must be again.
Kept(r) == changes[r].seq # 0 \/ unprojectedSeq[r] # 0

\* Positions: a replica is never ahead of the projection by more than the entry
\* it is applying.
PositionInv(r) ==
    /\ GoodRows(loaded[r]) /\ loaded[r].seq <= projection.seq
    /\ appliedSeq[r] <= projection.seq
    /\ unprojectedSeq[r] \in {0, appliedSeq[r] + 1}
    /\ unprojectedSeq[r] <= Len(journal)
    /\ changes[r].seq \in {0, appliedSeq[r] + 1}
    /\ changes[r].seq <= pageEnd[r] /\ pageEnd[r] <= Len(journal)
    /\ changes[r].seq = 0 <=> pageEnd[r] = 0
    /\ ~Attached(r) => changes[r].seq = 0

\* Engines, and what is marked or about to be written of them.
EngineInv(r) ==
    /\ GoodEngine(engine[r]) /\ GoodEngine(changes[r].eng)
    /\ Marked(changes[r].eng, changes[r].groups, changes[r].alarms)
    /\ Kept(r) => Marked(engine[r], dirtyGroups[r], dirtyAlarms[r])
    /\ Attached(r) => (engine[r].enabled <=> healthy[r] /\ policyIntent[r])
    /\ restarts = 0 => mode[r] = "up" /\ RootLive(engine[r])

CoreInv ==
    /\ StoreInv /\ ReplicaTypes
    /\ \A r \in Replica : PositionInv(r) /\ EngineInv(r)

\* Alarms that left the journal's care: a sweep forgot them, or an operation on
\* them was applied outside it.
Excused == forgotten \cup fellBack

IngestEntry(a) == [op |-> "ingest", alarm |-> a]

\* An alarm an engine tracks has a row, or its ingest is the entry being applied
\* and its row is marked.
TrackInv(r) ==
    /\ Kept(r) => dirtyAlarms[r] \ Excused \subseteq Tracked(engine[r])
    /\ changes[r].seq # 0 =>
           changes[r].alarms \ Excused \subseteq Tracked(changes[r].eng)
    /\ Attached(r) =>
           \A a \in Tracked(engine[r]) \ Excused :
               \/ projection.where[a] # Untracked
               \/ /\ Kept(r) /\ a \in dirtyAlarms[r]
                  /\ journal[appliedSeq[r] + 1] = IngestEntry(a)
                  /\ changes[r].seq # 0 => a \in changes[r].alarms
    /\ ~torn /\ Attached(r) =>
           Ingested(appliedSeq[r]) \ Excused \subseteq Tracked(engine[r])
    /\ \A a \in Alarm \ Excused :
           changes[r].seq # 0 /\ journal[changes[r].seq] = IngestEntry(a)
               => a \in Tracked(engine[r])

RowKept == \A a \in Ingested(projection.seq) \ Excused : projection.where[a] # Untracked

KeepInv == RowKept /\ \A r \in Replica : TrackInv(r)

\* What the journal's entries make of an empty engine, and of the policy.
EntryIntent(op, before) == IF op.op = "policy-on" THEN TRUE
                           ELSE IF op.op = "policy-off" THEN FALSE ELSE before

\* Entry i makes y of the engine x.  A sweep entry does what some replica decided
\* that had the groups and pending alarms of x.
EntryMakes(i, x, y) ==
    IF journal[i].op = "sweep"
    THEN \E d \in swept : /\ d.seq = i /\ d.open = x.open /\ d.pending = Pending(x)
                          /\ d.idle \subseteq d.open /\ d.old \subseteq d.pending
                          /\ y = Sweep(x, d.idle, d.old).eng
    ELSE y = EngineEffect(x, journal[i], i).eng

\* The engines f and policies iv after each entry some replica got to.
IsHistory(f, iv) ==
    /\ \E k \in 0 .. Len(journal) :
           f \in [0 .. k -> Engine] /\ iv \in [0 .. k -> BOOLEAN]
    /\ f[0] = EmptyEngine /\ iv[0] = TRUE
    /\ \A i \in DOMAIN f \ {0} :
           /\ EntryMakes(i, f[i - 1], f[i])
           /\ iv[i] = EntryIntent(journal[i], iv[i - 1])

\* An alarm that is not tracked is active.
UntrackedActive(e) ==
    \A a \in Alarm : e.where[a] = Untracked => Restored(e.state[a]) = "active"

GoodHistory(f, iv) ==
    /\ IsHistory(f, iv)
    /\ \A i \in DOMAIN f :
           GoodEngine(f[i]) /\ RootLive(f[i]) /\ UntrackedActive(f[i])

Undisturbed == fellBack = {} /\ ~torn

\* The position a replica's engine stands for.
Position(r) == IF Kept(r) THEN appliedSeq[r] + 1 ELSE appliedSeq[r]

RowsAre(p, e) == /\ p.where = e.where /\ p.root = e.root /\ p.open = e.open
                 /\ \A a \in Alarm : Restored(p.state[a]) = Restored(e.state[a])

ConvergeInv(f, iv, r) ==
    /\ Attached(r) /\ DecidedAlike(Position(r)) =>
           /\ Position(r) \in DOMAIN f /\ Same(engine[r], f[Position(r)])
           /\ policyIntent[r] = iv[Position(r)]
    /\ Attached(r) /\ Kept(r) /\ DecidedAlike(Position(r)) =>
           Covers(f[appliedSeq[r]], f[appliedSeq[r] + 1], dirtyGroups[r], dirtyAlarms[r])
    /\ changes[r].seq # 0 /\ DecidedAlike(changes[r].seq) =>
           /\ changes[r].seq \in DOMAIN f /\ Same(changes[r].eng, f[changes[r].seq])
           /\ Covers(f[appliedSeq[r]], f[appliedSeq[r] + 1],
                     changes[r].groups, changes[r].alarms)
           /\ changes[r].policy = {} => iv[appliedSeq[r] + 1] = iv[appliedSeq[r]]
           /\ changes[r].policy # {} => changes[r].policy = {iv[appliedSeq[r] + 1]}
    /\ Attached(r) /\ DecidedAlike(appliedSeq[r]) => RootLive(engine[r])

\* The rows are those of the journal's prefix up to the watermark.
RowsConverge(f, iv) ==
    DecidedAlike(projection.seq) =>
        /\ projection.seq \in DOMAIN f /\ RowsAre(projection, f[projection.seq])
        /\ projection.intent = iv[projection.seq]

AgreeInv(f, iv) ==
    /\ GoodHistory(f, iv)
    /\ Undisturbed => /\ RowsConverge(f, iv)
                      /\ \A r \in Replica : ConvergeInv(f, iv, r)

\* Some history explains the rows and the engines.
Agreement == \E f, iv : AgreeInv(f, iv)

-----------------------------------------------------------------------------
(* What a call does to an engine *)

LEMMA ZeroIsNoAlarm == 0 \notin Alarm
BY EngineAssumption

LEMMA CallKinds ==
    ASSUME NEW c \in Call
    PROVE  \/ c.op \in {"ingest", "acknowledge", "clear"} /\ c.alarm \in Alarm
           \/ /\ c.op \in {"sweep", "policy-on", "policy-off", "poll", "start"}
              /\ c.alarm = 0 /\ c.alarm \notin Alarm
BY ZeroIsNoAlarm DEF Call, Operation, PollCall, StartCall

CallSound(e, c, eff) ==
    /\ SoundEffect(e, eff, {})
    /\ Tracked(eff.eng) \subseteq Tracked(e) \cup ({c.alarm} \cap Alarm)
    /\ c.op = "ingest" => IngestSound(e, c.alarm, eff)
    /\ c.alarm \notin Alarm => eff = NoEffect(e)

LEMMA CallIsSound ==
    ASSUME NEW e, GoodEngine(e), NEW c \in Call, NEW n \in GroupId
    PROVE  CallSound(e, c, EngineEffect(e, c, n))
<1>1. PICK eff : eff = EngineEffect(e, c, n)
    OBVIOUS
<1>2. CASE c.op = "ingest"
    <2>1. c.alarm \in Alarm
        BY <1>2, CallKinds
    <2>2. eff = Ingest(e, c.alarm, n)
        BY <1>1, <1>2 DEF EngineEffect
    <2>3. IngestSound(e, c.alarm, eff)
        BY <2>1, <2>2, IngestIsSound
    <2> QED BY <1>1, <2>1, <2>3 DEF CallSound, IngestSound
<1>3. CASE c.op = "acknowledge"
    <2>1. c.alarm \in Alarm
        BY <1>3, CallKinds
    <2>2. eff = AlarmAcknowledged(e, c.alarm)
        BY <1>1, <1>3 DEF EngineEffect
    <2>3. SoundEffect(e, eff, {}) /\ eff.eng.where = e.where
        BY <2>1, <2>2, AcknowledgeSound, OneAlarmWhere
    <2> QED BY <1>1, <1>3, <2>1, <2>3 DEF CallSound, Tracked
<1>4. CASE c.op = "clear"
    <2>1. c.alarm \in Alarm
        BY <1>4, CallKinds
    <2>2. eff = AlarmCleared(e, c.alarm)
        BY <1>1, <1>4 DEF EngineEffect
    <2>3. SoundEffect(e, eff, {}) /\ eff.eng.where = e.where
        BY <2>1, <2>2, ClearSound, OneAlarmWhere
    <2> QED BY <1>1, <1>4, <2>1, <2>3 DEF CallSound, Tracked
<1>5. CASE c.op \notin {"ingest", "acknowledge", "clear"}
    <2>1. eff = NoEffect(e)
        BY <1>1, <1>5 DEF EngineEffect
    <2>2. SoundEffect(e, eff, {}) /\ eff.eng = e
        BY <2>1, NoEffectSound, NoEffectFields
    <2> QED BY <1>1, <1>5, <2>1, <2>2 DEF CallSound
<1> QED BY <1>2, <1>3, <1>4, <1>5

LEMMA CallTwice ==
    ASSUME NEW e, GoodEngine(e), NEW c \in Call, NEW n \in GroupId
    PROVE  EngineEffect(EngineEffect(e, c, n).eng, c, n).eng = EngineEffect(e, c, n).eng
<1>1. PICK x : x = EngineEffect(e, c, n).eng
    OBVIOUS
<1>2. CASE c.op = "ingest"
    <2>1. c.alarm \in Alarm
        BY <1>2, CallKinds
    <2>2. CallSound(e, c, EngineEffect(e, c, n))
        BY CallIsSound
    <2>3. c.alarm \in Tracked(x)
        BY <1>1, <1>2, <2>1, <2>2 DEF CallSound, IngestSound
    <2>4. EngineEffect(x, c, n) = Ingest(x, c.alarm, n)
        BY <1>2 DEF EngineEffect
    <2>5. EngineEffect(x, c, n) = NoEffect(x)
        BY <2>1, <2>3, <2>4, IngestTwice
    <2> QED BY <1>1, <2>5, NoEffectFields
<1>3. CASE c.op = "acknowledge"
    <2>1. c.alarm \in Alarm
        BY <1>3, CallKinds
    <2>2. x = AlarmAcknowledged(e, c.alarm).eng
          /\ EngineEffect(x, c, n) = AlarmAcknowledged(x, c.alarm)
        BY <1>1, <1>3 DEF EngineEffect
    <2>3. EngineEffect(x, c, n) = NoEffect(x)
        BY <2>1, <2>2, AcknowledgeTwice
    <2> QED BY <1>1, <2>3, NoEffectFields
<1>4. CASE c.op = "clear"
    <2>1. c.alarm \in Alarm
        BY <1>4, CallKinds
    <2>2. x = AlarmCleared(e, c.alarm).eng
          /\ EngineEffect(x, c, n) = AlarmCleared(x, c.alarm)
        BY <1>1, <1>4 DEF EngineEffect
    <2>3. EngineEffect(x, c, n) = NoEffect(x)
        BY <2>1, <2>2, ClearTwice
    <2> QED BY <1>1, <2>3, NoEffectFields
<1>5. CASE c.op \notin {"ingest", "acknowledge", "clear"}
    <2>1. EngineEffect(x, c, n) = NoEffect(x)
        BY <1>5 DEF EngineEffect
    <2> QED BY <1>1, <2>1, NoEffectFields
<1> QED BY <1>2, <1>3, <1>4, <1>5

LEMMA SameCall ==
    ASSUME NEW e, NEW f, GoodEngine(e), GoodEngine(f), Same(e, f),
           NEW c \in Call, NEW n \in GroupId
    PROVE  Same(EngineEffect(e, c, n).eng, EngineEffect(f, c, n).eng)
<1>1. CASE c.op = "ingest"
    <2>1. c.alarm \in Alarm
        BY <1>1, CallKinds
    <2>2. EngineEffect(e, c, n) = Ingest(e, c.alarm, n)
          /\ EngineEffect(f, c, n) = Ingest(f, c.alarm, n)
        BY <1>1 DEF EngineEffect
    <2> QED BY <2>1, <2>2, SameIngest
<1>2. CASE c.op = "acknowledge"
    <2>1. c.alarm \in Alarm
        BY <1>2, CallKinds
    <2>2. EngineEffect(e, c, n) = AlarmAcknowledged(e, c.alarm)
          /\ EngineEffect(f, c, n) = AlarmAcknowledged(f, c.alarm)
        BY <1>2 DEF EngineEffect
    <2> QED BY <2>1, <2>2, SameAcknowledge
<1>3. CASE c.op = "clear"
    <2>1. c.alarm \in Alarm
        BY <1>3, CallKinds
    <2>2. EngineEffect(e, c, n) = AlarmCleared(e, c.alarm)
          /\ EngineEffect(f, c, n) = AlarmCleared(f, c.alarm)
        BY <1>3 DEF EngineEffect
    <2> QED BY <2>1, <2>2, SameClear
<1>4. CASE c.op \notin {"ingest", "acknowledge", "clear"}
    <2>1. EngineEffect(e, c, n) = NoEffect(e) /\ EngineEffect(f, c, n) = NoEffect(f)
        BY <1>4 DEF EngineEffect
    <2> QED BY <2>1, NoEffectFields
<1> QED BY <1>1, <1>2, <1>3, <1>4

-----------------------------------------------------------------------------
(* What the parts of an action do *)

\* An operation eff on replica r's engine, made outside the journal for a caller:
\* it is announced, shows every hidden alarm and touches only the caller's alarm.
FellBack(r, call, eff) ==
    /\ Announced(engine[r], eff, {})
    /\ Tracked(eff.eng) \subseteq Tracked(engine[r]) \cup ({call.alarm} \cap Alarm)
    /\ Attached(r) => ~eff.eng.enabled
    /\ call.alarm \notin Alarm => Same(eff.eng, engine[r])
    /\ engine' = Set(engine, r, eff.eng) /\ Touch(r, eff.groups, eff.alarms)

LEMMA DegradeSound ==
    ASSUME CoreInv, NEW r \in Replica
    PROVE  /\ Announced(engine[r], Degrade(r), {})
           /\ Same(Degrade(r).eng, engine[r])
           /\ Attached(r) => ~Degrade(r).eng.enabled
<1>1. GoodEngine(engine[r]) /\ (Attached(r) => (engine[r].enabled <=> healthy[r] /\ policyIntent[r]))
    BY DEF CoreInv, EngineInv
<1>2. CASE healthy[r]
    <2>1. PICK on \in BOOLEAN : on = FALSE
        OBVIOUS
    <2>2. Degrade(r) = SetSuppressionPolicy(engine[r], on)
        BY <1>2, <2>1 DEF Degrade
    <2>3. /\ Announced(engine[r], SetSuppressionPolicy(engine[r], on), {})
          /\ PolicyTo(engine[r], on, SetSuppressionPolicy(engine[r], on).eng)
        BY <1>1, PolicyAnnounced
    <2> QED BY <2>1, <2>2, <2>3 DEF PolicyTo
<1>3. CASE ~healthy[r]
    <2>1. Degrade(r) = NoEffect(engine[r])
        BY <1>3 DEF Degrade
    <2>2. SoundEffect(engine[r], Degrade(r), {}) /\ Degrade(r).eng = engine[r]
        BY <1>1, <2>1, NoEffectSound, NoEffectFields
    <2> QED BY <1>1, <1>3, <2>2 DEF SoundEffect, Same
<1> QED BY <1>2, <1>3

LEMMA FallBackFacts ==
    ASSUME CoreInv, NEW r \in Replica, NEW call \in Call, FallBack(r, call)
    PROVE  /\ \E eff : FellBack(r, call, eff)
           /\ faults' = faults + 1 /\ faults' <= MaxFaults
           /\ locals' \in Nat /\ locals' <= faults'
           /\ healthy' = Set(healthy, r, FALSE)
           /\ fellBack' = fellBack \cup ({call.alarm} \cap Alarm)
<1>1. PICK n, d, l : /\ n = MaxSubmits + locals + 1 /\ d = Degrade(r)
                     /\ l = EngineEffect(d.eng, call, n)
    OBVIOUS
<1>2. n \in GroupId /\ faults' = faults + 1 /\ faults' <= MaxFaults
    BY <1>1, CoordinationAssumption DEF FallBack, CoreInv, StoreInv
<1>3. locals' \in {locals, locals + 1}
    BY DEF FallBack
<1>4. locals' \in Nat /\ locals' <= faults'
    BY <1>2, <1>3 DEF CoreInv, StoreInv
<1>5. /\ Announced(engine[r], d, {}) /\ Same(d.eng, engine[r])
      /\ (Attached(r) => ~d.eng.enabled) /\ GoodEngine(d.eng)
    BY <1>1, DegradeSound DEF Announced
<1>6. CallSound(d.eng, call, l)
    BY <1>1, <1>2, <1>5, CallIsSound
<1>7. PICK eff : eff = Effect(l.eng, d.groups \cup l.groups, d.alarms \cup l.alarms)
    OBVIOUS
<1>8. eff.eng = l.eng /\ eff.groups = d.groups \cup l.groups
      /\ eff.alarms = d.alarms \cup l.alarms
    BY <1>7, EffectFields
<1>9. Announced(d.eng, l, {}) /\ l.eng.enabled = d.eng.enabled
    BY <1>6 DEF CallSound, SoundEffect
<1>10. Announced(engine[r], eff, {})
    BY <1>5, <1>8, <1>9, AnnouncedTwice
<1>11. Tracked(d.eng) = Tracked(engine[r])
    BY <1>5, SameBasics
<1>12. Tracked(eff.eng) \subseteq Tracked(engine[r]) \cup ({call.alarm} \cap Alarm)
    BY <1>6, <1>8, <1>11 DEF CallSound
<1>13. call.alarm \notin Alarm => Same(eff.eng, engine[r])
    BY <1>5, <1>6, <1>8, NoEffectFields DEF CallSound
<1>14. engine' = Set(engine, r, eff.eng) /\ Touch(r, eff.groups, eff.alarms)
    BY <1>1, <1>8 DEF FallBack
<1>15. FellBack(r, call, eff)
    BY <1>5, <1>8, <1>9, <1>10, <1>12, <1>13, <1>14 DEF FellBack
<1> QED BY <1>2, <1>4, <1>15 DEF FallBack

\* A sweep: its first application is recorded, a retry finds nothing more.
Swept(r, seq, eff) ==
    \E idle \in SUBSET engine[r].open, gone \in SUBSET Pending(engine[r]) :
        /\ eff = Sweep(engine[r], idle, gone)
        /\ unprojectedSeq[r] = seq => idle = {} /\ gone = {}
        /\ unprojectedSeq[r] # seq =>
               [seq |-> seq, open |-> engine[r].open, pending |-> Pending(engine[r]),
                idle |-> idle, old |-> gone] \in swept'

\* An operation eff on replica r's engine, made for entry seq of the journal: it
\* forgets the alarms old and sets the policies pol.
Applied(r, seq, eff, old, pol) ==
    /\ Announced(engine[r], eff, old) /\ old \in SUBSET Alarm /\ pol \in SUBSET BOOLEAN
    /\ TakeChanges(r, seq, eff, pol)
    /\ forgotten' = forgotten \cup old
    /\ policyIntent' \in [Replica -> BOOLEAN]
    /\ \A s \in Replica \ {r} : policyIntent'[s] = policyIntent[s]
    /\ eff.eng.enabled <=> healthy[r] /\ policyIntent'[r]
    /\ Tracked(eff.eng) \subseteq Tracked(engine[r]) \cup ({journal[seq].alarm} \cap Alarm)
    /\ journal[seq].op # "ingest" => Tracked(eff.eng) \subseteq Tracked(engine[r])
    /\ journal[seq].op = "ingest" =>
           IngestSound(engine[r], journal[seq].alarm, eff) /\ old = {}
    /\ journal[seq].op # "sweep" =>
           Same(eff.eng, EngineEffect(engine[r], journal[seq], seq).eng)
    /\ journal[seq].op = "sweep" => Swept(r, seq, eff)
    /\ swept \subseteq swept' /\ swept' \in SUBSET Decision
    /\ policyIntent'[r] = EntryIntent(journal[seq], policyIntent[r])
    /\ pol = {} => journal[seq].op \notin {"policy-on", "policy-off"}
    /\ pol # {} => pol = {policyIntent'[r]}

LEMMA EntryIsOperation ==
    ASSUME CoreInv, NEW seq \in 1 .. Len(journal)
    PROVE  /\ journal[seq] \in Operation /\ journal[seq] \in Call /\ seq \in GroupId
           /\ seq \in Nat
<1>1. journal[seq] \in Operation
    BY DEF CoreInv, StoreInv
<1>2. Len(journal) \in Nat /\ Len(journal) <= MaxSubmits
    BY CoordinationAssumption DEF CoreInv, StoreInv
<1>3. seq \in GroupId /\ seq \in Nat
    BY <1>2, CoordinationAssumption
<1> QED BY <1>1, <1>3 DEF Call

LEMMA ApplyFacts ==
    ASSUME CoreInv, NEW r \in Replica, Attached(r), NEW seq \in 1 .. Len(journal),
           ApplyEntry(r, seq)
    PROVE  \E eff, old, pol : Applied(r, seq, eff, old, pol)
<1>1. PICK op \in Operation : op = journal[seq]
    BY EntryIsOperation
<1>2. /\ GoodEngine(engine[r]) /\ op \in Call /\ seq \in GroupId
      /\ (engine[r].enabled <=> healthy[r] /\ policyIntent[r])
      /\ policyIntent \in [Replica -> BOOLEAN] /\ healthy[r] \in BOOLEAN
      /\ swept \in SUBSET Decision
    BY <1>1, EntryIsOperation DEF CoreInv, EngineInv, ReplicaTypes, StoreInv
<1>3. CASE ApplyAlarmOp(r, seq)
    <2>1. PICK eff : eff = EngineEffect(engine[r], op, seq)
        OBVIOUS
    <2>2. op.op \in {"ingest", "acknowledge", "clear"} /\ TakeChanges(r, seq, eff, {})
          /\ policyIntent' = policyIntent /\ forgotten' = forgotten /\ swept' = swept
        BY <1>1, <1>3, <2>1 DEF ApplyAlarmOp, NextGroupId
    <2>3. CallSound(engine[r], op, eff)
        BY <1>2, <2>1, CallIsSound
    <2>4. Announced(engine[r], eff, {}) /\ eff.eng.enabled = engine[r].enabled
        BY <2>3 DEF CallSound, SoundEffect
    <2>5. op.op # "ingest" => Tracked(eff.eng) \subseteq Tracked(engine[r])
        <3>1. ASSUME op.op # "ingest" PROVE eff.eng.where = engine[r].where
            <4>1. op.alarm \in Alarm
                BY <2>2, CallKinds, <1>2
            <4>2. CASE op.op = "acknowledge"
                BY <1>2, <2>1, <4>1, <4>2, OneAlarmWhere DEF EngineEffect
            <4>3. CASE op.op = "clear"
                BY <1>2, <2>1, <4>1, <4>3, OneAlarmWhere DEF EngineEffect
            <4> QED BY <2>2, <3>1, <4>2, <4>3
        <3> QED BY <3>1 DEF Tracked
    <2>6. Tracked(eff.eng) \subseteq Tracked(engine[r]) \cup ({op.alarm} \cap Alarm)
          /\ (op.op = "ingest" => IngestSound(engine[r], op.alarm, eff))
        BY <2>3 DEF CallSound
    <2>7. Same(eff.eng, EngineEffect(engine[r], op, seq).eng)
        BY <2>1 DEF Same
    <2>8. policyIntent'[r] = EntryIntent(op, policyIntent[r])
        BY <2>2 DEF EntryIntent
    <2>9. Applied(r, seq, eff, {}, {})
        BY <1>1, <1>2, <2>2, <2>4, <2>5, <2>6, <2>7, <2>8 DEF Applied
    <2> QED BY <2>9
<1>4. CASE ApplySweep(r, seq)
    <2>1. PICK idle \in SUBSET engine[r].open, old \in SUBSET Pending(engine[r]) :
              /\ unprojectedSeq[r] = seq => idle = {} /\ old = {}
              /\ TakeChanges(r, seq, Sweep(engine[r], idle, old), {})
              /\ forgotten' = forgotten \cup old
              /\ swept' = IF unprojectedSeq[r] = seq THEN swept
                          ELSE swept \cup {[seq |-> seq, open |-> engine[r].open,
                                            pending |-> Pending(engine[r]),
                                            idle |-> idle, old |-> old]}
        BY <1>4 DEF ApplySweep
    <2>2. PICK eff : eff = Sweep(engine[r], idle, old)
        OBVIOUS
    <2>3. op.op = "sweep" /\ policyIntent' = policyIntent
        BY <1>1, <1>4 DEF ApplySweep
    <2>4. SoundEffect(engine[r], eff, old) /\ Tracked(eff.eng) \subseteq Tracked(engine[r])
        BY <1>2, <2>2, SweepSound, SweepTracked
    <2>5. Announced(engine[r], eff, old) /\ eff.eng.enabled = engine[r].enabled
        BY <2>4 DEF SoundEffect
    <2>6. old \in SUBSET Alarm
        BY DEF Pending
    <2>7. policyIntent'[r] = EntryIntent(op, policyIntent[r])
        BY <2>3 DEF EntryIntent
    <2>8. TakeChanges(r, seq, eff, {})
        BY <2>1, <2>2
    <2>9. PICK d : d = [seq |-> seq, open |-> engine[r].open, pending |-> Pending(engine[r]),
                        idle |-> idle, old |-> old]
        OBVIOUS
    <2>10. d \in Decision
        <3>1. seq \in Nat /\ engine[r].open \in SUBSET GroupId /\ Pending(engine[r]) \in SUBSET Alarm
            BY <1>2, EntryIsOperation DEF GoodEngine, Engine, Pending
        <3>2. idle \in SUBSET GroupId
            BY <3>1
        <3> QED BY <2>6, <2>9, <3>1, <3>2 DEF Decision
    <2>11. swept' = (IF unprojectedSeq[r] = seq THEN swept ELSE swept \cup {d})
        BY <2>1, <2>9
    <2>12. swept \subseteq swept' /\ swept' \in SUBSET Decision
        BY <1>2, <2>10, <2>11
    <2>13. Swept(r, seq, eff)
        <3>1. unprojectedSeq[r] # seq => d \in swept'
            BY <2>11
        <3> QED BY <2>1, <2>2, <2>9, <3>1 DEF Swept
    <2>14. Applied(r, seq, eff, old, {})
        BY <1>1, <1>2, <2>1, <2>3, <2>4, <2>5, <2>6, <2>7, <2>8, <2>12, <2>13 DEF Applied
    <2> QED BY <2>14
<1>5. CASE ApplyPolicy(r, seq)
    <2>1. PICK on \in BOOLEAN : on = (op.op = "policy-on")
        OBVIOUS
    <2>2. PICK set \in BOOLEAN : set = (healthy[r] /\ on)
        OBVIOUS
    <2>3. PICK eff : eff = SetSuppressionPolicy(engine[r], set)
        OBVIOUS
    <2>4. /\ op.op \in {"policy-on", "policy-off"} /\ forgotten' = forgotten /\ swept' = swept
          /\ policyIntent' = Set(policyIntent, r, on) /\ TakeChanges(r, seq, eff, {on})
        BY <1>1, <1>5, <2>1, <2>2, <2>3 DEF ApplyPolicy, SyncEnginePolicy
    <2>5. Announced(engine[r], eff, {}) /\ PolicyTo(engine[r], set, eff.eng)
        BY <1>2, <2>3, PolicyAnnounced
    <2>6. eff.eng.enabled = set /\ Same(eff.eng, engine[r])
        BY <2>5 DEF PolicyTo
    <2>7. Tracked(eff.eng) = Tracked(engine[r])
        BY <2>6, SameBasics
    <2>8. EngineEffect(engine[r], op, seq).eng = engine[r]
        BY <2>4, NoEffectFields DEF EngineEffect
    <2>9. /\ policyIntent' \in [Replica -> BOOLEAN] /\ policyIntent'[r] = on
          /\ \A s \in Replica \ {r} : policyIntent'[s] = policyIntent[s]
        BY <1>2, <2>4 DEF Set
    <2>10. on = EntryIntent(op, policyIntent[r])
        BY <2>1, <2>4 DEF EntryIntent
    <2>11. eff.eng.enabled <=> healthy[r] /\ policyIntent'[r]
        BY <2>2, <2>6, <2>9
    <2>12. Applied(r, seq, eff, {}, {on})
        BY <1>1, <1>2, <2>4, <2>5, <2>6, <2>7, <2>8, <2>9, <2>10, <2>11 DEF Applied
    <2> QED BY <2>12
<1> QED BY <1>3, <1>4, <1>5 DEF ApplyEntry

LEMMA AppendedFacts ==
    ASSUME CoreInv, NEW op \in Operation
    PROVE  /\ Appended(op) \in Seq(Operation)
           /\ Len(Appended(op)) \in {Len(journal), Len(journal) + 1}
           /\ \A i \in 1 .. Len(journal) : Appended(op)[i] = journal[i]
<1>1. journal \in Seq(Operation)
    BY DEF CoreInv, StoreInv
<1>2. Append(journal, op) \in Seq(Operation) /\ Len(Append(journal, op)) = Len(journal) + 1
      /\ \A i \in 1 .. Len(journal) : Append(journal, op)[i] = journal[i]
    BY <1>1
<1> QED BY <1>1, <1>2 DEF Appended

\* Projecting the changes of a replica writes no row that names a missing group.
LEMMA ProjectedFacts ==
    ASSUME CoreInv, NEW r \in Replica, changes[r].seq # 0
    PROVE  /\ GoodRows(Projected(changes[r]))
           /\ Projected(changes[r]).seq \in Nat
           /\ Projected(changes[r]).seq <= Len(journal)
           /\ Projected(changes[r]).seq >= projection.seq
           /\ Projected(changes[r]).seq >= changes[r].seq
           /\ Projected(changes[r]).seq \in {projection.seq, changes[r].seq}
<1>1. PICK c \in Changes : c = changes[r]
    BY DEF CoreInv, ReplicaTypes
<1>2. /\ c.seq \in Nat /\ c.eng \in Engine /\ c.groups \in SUBSET GroupId
      /\ c.alarms \in SUBSET Alarm /\ c.policy \in SUBSET BOOLEAN
    BY DEF Changes
<1>3. GoodEngine(c.eng) /\ Marked(c.eng, c.groups, c.alarms)
    BY <1>1 DEF CoreInv, EngineInv
<1>4. GoodRows(projection) /\ projection \in Rows
    BY DEF CoreInv, StoreInv, GoodRows
<1>5. c.seq <= Len(journal) /\ projection.seq <= Len(journal)
      /\ Len(journal) \in Nat /\ projection.seq \in Nat
    BY <1>1, <1>2, <1>4 DEF CoreInv, StoreInv, PositionInv, ReplicaTypes, Rows
<1>6. CASE ~Advances(c.seq)
    <2>1. Projected(c) = projection
        BY <1>6 DEF Projected
    <2>2. projection.seq >= c.seq
        BY <1>2, <1>5, <1>6 DEF Advances
    <2> QED BY <1>1, <1>4, <1>5, <2>1, <2>2
<1>7. CASE Advances(c.seq)
    <2>1. PICK p : p = Projected(c)
        OBVIOUS
    <2>2. /\ p.seq = c.seq /\ p.seq >= projection.seq
          /\ p.intent = (IF c.policy = {} THEN projection.intent ELSE TRUE \in c.policy)
          /\ p.where = [a \in Alarm |-> IF a \in c.alarms THEN c.eng.where[a]
                                        ELSE projection.where[a]]
          /\ p.state = [a \in Alarm |-> IF a \in c.alarms THEN c.eng.state[a]
                                        ELSE projection.state[a]]
          /\ p.root = [g \in GroupId |-> IF g \in c.groups THEN c.eng.root[g]
                                         ELSE projection.root[g]]
          /\ p.open = (projection.open \ c.groups) \cup (c.eng.open \cap c.groups)
        BY <1>2, <1>5, <1>7, <2>1 DEF Projected, Advances
    <2>3. p \in Rows
        <3>1. p.seq \in Nat /\ p.intent \in BOOLEAN
            <4>1. p.seq \in Nat /\ projection.intent \in BOOLEAN
                BY <1>2, <1>4, <2>2 DEF Rows
            <4>2. (TRUE \in c.policy) \in BOOLEAN
                OBVIOUS
            <4>3. p.intent = projection.intent \/ p.intent = (TRUE \in c.policy)
                BY <2>2, Zenon
            <4>4. CASE p.intent = projection.intent
                BY <4>1, <4>4
            <4>5. CASE p.intent = (TRUE \in c.policy)
                BY <4>1, <4>2, <4>5, Zenon
            <4> QED BY <4>3, <4>4, <4>5
        <3>2. p.where \in [Alarm -> {Untracked, Ungrouped} \cup GroupId]
            BY <1>2, <1>4, <2>2 DEF Rows, Engine
        <3>3. p.state \in [Alarm -> AlarmState]
            BY <1>2, <1>4, <2>2 DEF Rows, Engine
        <3>4. p.root \in [GroupId -> Alarm \cup {Nobody}]
            BY <1>2, <1>4, <2>2 DEF Rows, Engine
        <3>5. p.open \in SUBSET GroupId
            BY <1>2, <1>4, <2>2 DEF Rows, Engine
        <3>6. p = [seq |-> p.seq, intent |-> p.intent, where |-> p.where,
                   state |-> p.state, root |-> p.root, open |-> p.open]
            BY <1>7, <2>1 DEF Projected
        <3> QED BY <3>1, <3>2, <3>3, <3>4, <3>5, <3>6 DEF Rows
    <2>4. ASSUME NEW g \in p.open PROVE p.root[g] # Nobody
        BY <1>2, <1>3, <1>4, <2>2, <2>3 DEF Marked, GoodRows, Rows
    <2>5. ASSUME NEW a \in Alarm, p.where[a] \in GroupId PROVE p.root[p.where[a]] # Nobody
        <3>1. CASE a \in c.alarms
            <4>1. p.where[a] = c.eng.where[a] /\ c.eng.where[a] \in c.groups
                BY <1>3, <2>2, <2>5, <3>1 DEF Marked
            <4> QED BY <1>2, <1>3, <2>2, <4>1 DEF Marked
        <3>2. CASE a \notin c.alarms
            <4>1. p.where[a] = projection.where[a]
                BY <2>2, <3>2
            <4>2. projection.root[p.where[a]] # Nobody
                BY <1>4, <2>5, <4>1 DEF GoodRows
            <4> QED BY <1>2, <1>3, <2>2, <2>5, <4>2 DEF Marked
        <3> QED BY <3>1, <3>2
    <2>6. GoodRows(p)
        BY <2>3, <2>4, <2>5 DEF GoodRows
    <2>7. p.seq = c.seq /\ p.seq >= projection.seq
        BY <2>2
    <2> QED BY <1>1, <1>2, <1>5, <2>1, <2>6, <2>7
<1> QED BY <1>6, <1>7

\* What an action of replica r leaves of another replica.
Untouched(s) ==
    /\ mode'[s] = mode[s] /\ loaded'[s] = loaded[s] /\ engine'[s] = engine[s]
    /\ healthy'[s] = healthy[s] /\ policyIntent'[s] = policyIntent[s]
    /\ appliedSeq'[s] = appliedSeq[s] /\ unprojectedSeq'[s] = unprojectedSeq[s]
    /\ dirtyGroups'[s] = dirtyGroups[s] /\ dirtyAlarms'[s] = dirtyAlarms[s]
    /\ pumps'[s] = pumps[s] /\ pageEnd'[s] = pageEnd[s] /\ changes'[s] = changes[s]

Others(r) == \A s \in Replica \ {r} : Untouched(s)

\* The store and the restart count only move forward.
Grows == /\ Len(journal') >= Len(journal) /\ projection'.seq >= projection.seq
         /\ restarts' = 0 => restarts = 0

LEMMA CoreOthers ==
    ASSUME CoreInv, StoreInv', Grows, NEW s \in Replica, Untouched(s)
    PROVE  PositionInv(s)' /\ EngineInv(s)'
<1>1. /\ PositionInv(s) /\ EngineInv(s) /\ appliedSeq[s] \in Nat /\ unprojectedSeq[s] \in Nat
      /\ pageEnd[s] \in Nat /\ projection.seq \in Nat /\ loaded[s].seq \in Nat
      /\ Len(journal) \in Nat
    BY DEF CoreInv, ReplicaTypes, StoreInv, GoodRows, Rows
<1>2. projection'.seq \in Nat /\ Len(journal') \in Nat
    BY DEF StoreInv, GoodRows, Rows
<1>3. PositionInv(s)'
    BY <1>1, <1>2 DEF PositionInv, Grows, Untouched, Attached
<1>4. EngineInv(s)'
    BY <1>1 DEF EngineInv, Grows, Untouched, Attached, Kept
<1> QED BY <1>3, <1>4

LEMMA CoreStep ==
    ASSUME CoreInv, NEW r \in Replica, StoreInv', ReplicaTypes', Grows, Others(r),
           PositionInv(r)', EngineInv(r)'
    PROVE  CoreInv'
<1>1. \A s \in Replica \ {r} : PositionInv(s)' /\ EngineInv(s)'
    BY CoreOthers DEF Others
<1> QED BY <1>1 DEF CoreInv

-----------------------------------------------------------------------------
(* Every action preserves the core invariant *)

LEMMA CoreTypes ==
    ASSUME CoreInv, NEW r \in Replica
    PROVE  /\ appliedSeq[r] \in Nat /\ unprojectedSeq[r] \in Nat /\ pageEnd[r] \in Nat
           /\ changes[r].seq \in Nat /\ loaded[r].seq \in Nat
           /\ projection.seq \in Nat /\ Len(journal) \in Nat
           /\ projection.seq <= Len(journal)
           /\ PositionInv(r) /\ EngineInv(r) /\ StoreInv /\ ReplicaTypes
<1>1. PositionInv(r) /\ EngineInv(r) /\ StoreInv /\ ReplicaTypes
    BY DEF CoreInv
<1>2. /\ projection \in Rows /\ Len(journal) \in Nat /\ projection.seq <= Len(journal)
    BY <1>1 DEF StoreInv, GoodRows
<1>3. /\ appliedSeq[r] \in Nat /\ unprojectedSeq[r] \in Nat /\ pageEnd[r] \in Nat
      /\ changes[r] \in Changes /\ loaded[r] \in Rows
    BY <1>1 DEF ReplicaTypes
<1>4. changes[r].seq \in Nat /\ loaded[r].seq \in Nat /\ projection.seq \in Nat
    BY <1>2, <1>3 DEF Changes, Rows
<1> QED BY <1>1, <1>2, <1>3, <1>4

LEMMA InitCore == Init => CoreInv
<1> SUFFICES ASSUME Init PROVE CoreInv
    OBVIOUS
<1>1. PICK e : e = [EmptyEngine EXCEPT !.enabled = TRUE]
    OBVIOUS
<1>2. GoodEngine(EmptyEngine) /\ EmptyEngine \in Engine
    BY EmptyGood DEF GoodEngine
<1>3. /\ e \in Engine /\ e.where = EmptyEngine.where /\ e.state = EmptyEngine.state
      /\ e.root = EmptyEngine.root /\ e.open = EmptyEngine.open /\ e.enabled = TRUE
    BY <1>1, <1>2 DEF Engine
<1>4. /\ \A a \in Alarm : e.where[a] = Untracked /\ e.state[a] = "active"
      /\ e.open = {}
    BY <1>3 DEF EmptyEngine
<1>5. GoodEngine(e) /\ RootLive(e)
    <2>1. Untracked \notin GroupId
        BY EngineAssumption DEF Untracked
    <2>2. Exact(e)
        BY <1>4 DEF Exact, Hides
    <2>3. Rooted(e) /\ RootLive(e)
        BY <1>4, <2>1 DEF Rooted, RootLive
    <2> QED BY <1>3, <2>2, <2>3 DEF GoodEngine
<1>6. NoRows \in Rows /\ NoRows.seq = 0
    BY <1>2 DEF NoRows, Rows, Engine
<1>7. GoodRows(NoRows)
    <2>1. \A a \in Alarm : NoRows.where[a] = Untracked
        BY DEF NoRows, EmptyEngine
    <2>2. NoRows.open = {} /\ Untracked \notin GroupId
        BY EngineAssumption DEF NoRows, Untracked
    <2> QED BY <1>6, <2>1, <2>2 DEF GoodRows
<1>8. NoChanges \in Changes
    BY <1>2 DEF NoChanges, Changes
<1>9. /\ NoChanges.seq = 0 /\ NoChanges.eng = EmptyEngine /\ NoChanges.groups = {}
      /\ NoChanges.alarms = {}
    BY DEF NoChanges
<1>10. StoreInv
    <2>1. journal \in Seq(Operation) /\ Len(journal) = 0
        BY DEF Init
    <2>2. torn \in BOOLEAN
        BY DEF Init
    <2> QED BY <1>6, <1>7, <2>1, <2>2, CoordinationAssumption DEF Init, StoreInv
<1>11. ReplicaTypes
    BY <1>1, <1>3, <1>6, <1>8 DEF Init, ReplicaTypes, Mode
<1>12. ASSUME NEW r \in Replica PROVE PositionInv(r)
    BY <1>6, <1>7, <1>9 DEF Init, PositionInv, Attached
<1>13. ASSUME NEW r \in Replica PROVE EngineInv(r)
    BY <1>1, <1>2, <1>3, <1>5, <1>9 DEF Init, EngineInv, Marked, Kept
<1> QED BY <1>10, <1>11, <1>12, <1>13 DEF CoreInv

LEMMA SubmitCore ==
    ASSUME CoreInv, NEW r \in Replica, NEW op \in Operation, Submit(r, op)
    PROVE  CoreInv'
<1>1. Appended(op) \in Seq(Operation) /\ Len(Appended(op)) \in {Len(journal), Len(journal) + 1}
    BY AppendedFacts
<1> USE DEF Submit, replicaVars, dirtyVars, historyVars
<1>2. StoreInv'
    <2>1. journal' \in Seq(Operation) /\ Len(journal') <= Len(journal) + 1
          /\ Len(journal) <= Len(journal') /\ Len(journal') \in Nat
        BY <1>1, CoreTypes
    <2>2. submits' = submits + 1 /\ submits < MaxSubmits /\ MaxSubmits \in Nat
          /\ Len(journal) <= submits /\ submits \in Nat
        BY CoreTypes, CoordinationAssumption DEF StoreInv
    <2> QED BY <2>1, <2>2, CoreTypes DEF StoreInv
<1>3. ReplicaTypes'
    <2>1. Append(pumps[r], op) \in Seq(Call)
        BY CoreTypes DEF ReplicaTypes, Call
    <2> QED BY <2>1, CoreTypes DEF ReplicaTypes, Set
<1>4. Others(r) /\ Grows
    BY <1>1, CoreTypes DEF Others, Untouched, Grows, Set, ReplicaTypes
<1>5. PositionInv(r)'
    BY <1>1, CoreTypes DEF PositionInv, Attached
<1>6. EngineInv(r)'
    BY CoreTypes DEF EngineInv, Kept, Attached
<1> QED BY <1>2, <1>3, <1>4, <1>5, <1>6, CoreStep

LEMMA PollCore ==
    ASSUME CoreInv, NEW r \in Replica, Poll(r)
    PROVE  CoreInv'
<1> USE DEF Poll, storeVars, replicaVars, dirtyVars, boundVars, historyVars
<1>1. StoreInv'
    BY CoreTypes DEF StoreInv
<1>2. ReplicaTypes'
    <2>1. <<PollCall>> \in Seq(Call)
        BY DEF Call
    <2> QED BY <2>1, CoreTypes DEF ReplicaTypes, Set
<1>3. Others(r) /\ Grows
    BY CoreTypes DEF Others, Untouched, Grows, Set, ReplicaTypes
<1>4. PositionInv(r)'
    BY CoreTypes DEF PositionInv, Attached
<1>5. EngineInv(r)'
    BY CoreTypes DEF EngineInv, Kept, Attached
<1> QED BY <1>1, <1>2, <1>3, <1>4, <1>5, CoreStep

\* markHealthy leaves a good engine with the policy both conditions ask for.
LEMMA MarkHealthyFacts ==
    ASSUME CoreInv, NEW r \in Replica, Attached(r), MarkHealthy(r, engine[r])
    PROVE  /\ engine'[r] \in Engine /\ GoodEngine(engine'[r]) /\ Same(engine'[r], engine[r])
           /\ engine'[r].enabled <=> policyIntent[r]
           /\ RootLive(engine[r]) => RootLive(engine'[r])
           /\ healthy'[r] = TRUE
           /\ engine' = Set(engine, r, engine'[r]) /\ healthy' = Set(healthy, r, TRUE)
<1>1. PICK on \in BOOLEAN : on = policyIntent[r]
    BY CoreTypes DEF ReplicaTypes
<1>2. PICK x : x = IF healthy[r] THEN engine[r] ELSE SetSuppressionPolicy(engine[r], on).eng
    OBVIOUS
<1>3. engine' = Set(engine, r, x) /\ healthy' = Set(healthy, r, TRUE)
    <2>1. SyncEnginePolicy(engine[r], TRUE, policyIntent[r]) = SetSuppressionPolicy(engine[r], on)
        <3>1. (TRUE /\ on) = on
            OBVIOUS
        <3> QED BY <1>1, <3>1, Zenon DEF SyncEnginePolicy
    <2> QED BY <1>2, <2>1 DEF MarkHealthy
<1>4. GoodEngine(engine[r]) /\ (engine[r].enabled <=> healthy[r] /\ policyIntent[r])
    BY CoreTypes DEF EngineInv
<1>5. GoodEngine(x) /\ Same(x, engine[r]) /\ (x.enabled <=> policyIntent[r])
      /\ (RootLive(engine[r]) => RootLive(x))
    <2>1. CASE healthy[r]
        BY <1>2, <1>4, <2>1 DEF Same
    <2>2. CASE ~healthy[r]
        <3>1. PolicyTo(engine[r], on, x)
            BY <1>2, <1>4, <2>2, PolicyAnnounced
        <3> QED BY <1>1, <3>1 DEF PolicyTo
    <2> QED BY <2>1, <2>2
<1>6. x \in Engine
    BY <1>5 DEF GoodEngine
<1>7. engine'[r] = x /\ healthy'[r] = TRUE
    BY <1>3, CoreTypes DEF Set, ReplicaTypes
<1> QED BY <1>3, <1>5, <1>6, <1>7

LEMMA ReadNothingCore ==
    ASSUME CoreInv, NEW r \in Replica, ReadNothing(r)
    PROVE  CoreInv'
<1>1. Attached(r) /\ MarkHealthy(r, engine[r]) /\ pumps[r] # <<>>
    BY DEF ReadNothing, Reading, Draining, Attached
<1>2. /\ engine'[r] \in Engine /\ GoodEngine(engine'[r])
      /\ (engine'[r].enabled <=> policyIntent[r])
      /\ (RootLive(engine[r]) => RootLive(engine'[r]))
      /\ healthy'[r] = TRUE
      /\ engine' = Set(engine, r, engine'[r]) /\ healthy' = Set(healthy, r, TRUE)
      /\ Same(engine'[r], engine[r])
    BY <1>1, MarkHealthyFacts
<1> USE DEF ReadNothing, storeVars, dirtyVars, boundVars, historyVars
<1>3. StoreInv'
    BY CoreTypes DEF StoreInv
<1>4. ReplicaTypes'
    <2>1. Tail(pumps[r]) \in Seq(Call)
        BY <1>1, CoreTypes DEF ReplicaTypes
    <2>2. engine' \in [Replica -> Engine] /\ healthy' \in [Replica -> BOOLEAN]
        BY <1>2, CoreTypes DEF ReplicaTypes, Set
    <2> QED BY <2>1, <2>2, CoreTypes DEF ReplicaTypes, Set, Mode
<1>5. Others(r) /\ Grows
    BY <1>2, CoreTypes DEF Others, Untouched, Grows, Set, ReplicaTypes
<1>6. mode'[r] = "up"
    BY CoreTypes DEF ReplicaTypes, Set
<1>7. PositionInv(r)'
    BY <1>6, CoreTypes DEF PositionInv, Attached
<1>8. Marked(engine'[r], dirtyGroups[r], dirtyAlarms[r]) \/ ~Kept(r)
    BY <1>2, CoreTypes DEF EngineInv, Marked, Same
<1>9. EngineInv(r)'
    BY <1>2, <1>6, <1>8, CoreTypes DEF EngineInv, Kept
<1> QED BY <1>3, <1>4, <1>5, <1>7, <1>9, CoreStep

\* What finishEntry leaves behind: engine, marks and changes agree, and every row
\* to write names a group that exists.
AppliedTo(r, seq, eff, pol) ==
    /\ engine' \in [Replica -> Engine] /\ engine'[r] = eff.eng
    /\ dirtyGroups' \in [Replica -> SUBSET GroupId]
    /\ dirtyAlarms' \in [Replica -> SUBSET Alarm]
    /\ changes' \in [Replica -> Changes]
    /\ changes'[r].seq = seq /\ changes'[r].eng = eff.eng /\ changes'[r].policy = pol
    /\ changes'[r].groups = dirtyGroups'[r] /\ changes'[r].alarms = dirtyAlarms'[r]
    /\ dirtyGroups'[r] = eff.groups \cup IF unprojectedSeq[r] = seq THEN dirtyGroups[r] ELSE {}
    /\ dirtyAlarms'[r] = eff.alarms \cup IF unprojectedSeq[r] = seq THEN dirtyAlarms[r] ELSE {}
    /\ Marked(eff.eng, dirtyGroups'[r], dirtyAlarms'[r])
    /\ \A s \in Replica \ {r} :
           /\ engine'[s] = engine[s] /\ dirtyGroups'[s] = dirtyGroups[s]
           /\ dirtyAlarms'[s] = dirtyAlarms[s] /\ changes'[s] = changes[s]

LEMMA AppliedFacts ==
    ASSUME CoreInv, NEW r \in Replica, NEW seq \in Nat \ {0}, NEW eff, NEW old, NEW pol,
           Applied(r, seq, eff, old, pol)
    PROVE  AppliedTo(r, seq, eff, pol)
<1>1. /\ Announced(engine[r], eff, old) /\ pol \in SUBSET BOOLEAN
      /\ TakeChanges(r, seq, eff, pol)
    BY DEF Applied
<1>2. eff.eng \in Engine /\ eff.groups \in SUBSET GroupId /\ eff.alarms \in SUBSET Alarm
      /\ Marked(eff.eng, eff.groups, eff.alarms)
    BY <1>1 DEF Announced, GoodEngine
<1>3. PICK kg, ka : /\ kg = IF unprojectedSeq[r] = seq THEN dirtyGroups[r] ELSE {}
                    /\ ka = IF unprojectedSeq[r] = seq THEN dirtyAlarms[r] ELSE {}
    OBVIOUS
<1>4. kg \in SUBSET GroupId /\ ka \in SUBSET Alarm /\ Marked(engine[r], kg, ka)
    <2>1. kg \in SUBSET GroupId /\ ka \in SUBSET Alarm
        BY <1>3, CoreTypes DEF ReplicaTypes
    <2>2. CASE unprojectedSeq[r] = seq
        <3>1. Kept(r)
            BY <2>2 DEF Kept
        <3>2. Marked(engine[r], dirtyGroups[r], dirtyAlarms[r])
            BY <3>1, CoreTypes DEF EngineInv
        <3> QED BY <1>3, <2>1, <2>2, <3>2
    <2>3. CASE unprojectedSeq[r] # seq
        BY <1>3, <2>3 DEF Marked
    <2> QED BY <2>1, <2>2, <2>3
<1>5. PICK gs, as : gs = kg \cup eff.groups /\ as = ka \cup eff.alarms
    OBVIOUS
<1>6. gs \in SUBSET GroupId /\ as \in SUBSET Alarm
    BY <1>2, <1>4, <1>5
<1>7. Marked(eff.eng, gs, as)
    <2>1. Marked(eff.eng, kg \cup eff.groups, ka \cup eff.alarms)
        BY <1>1, <1>4, MarkedMore
    <2> QED BY <1>5, <2>1
<1>8. KeptDirty(r, seq).groups = kg /\ KeptDirty(r, seq).alarms = ka
    BY <1>3 DEF KeptDirty
<1>9. PICK c : c = [seq |-> seq, eng |-> eff.eng, groups |-> gs, alarms |-> as, policy |-> pol]
    OBVIOUS
<1>10. c \in Changes /\ c.seq = seq /\ c.eng = eff.eng /\ c.groups = gs /\ c.alarms = as
       /\ c.policy = pol
    BY <1>1, <1>2, <1>6, <1>9 DEF Changes
<1>11. /\ engine' = Set(engine, r, eff.eng) /\ dirtyGroups' = Set(dirtyGroups, r, gs)
       /\ dirtyAlarms' = Set(dirtyAlarms, r, as) /\ changes' = Set(changes, r, c)
    BY <1>1, <1>5, <1>8, <1>9 DEF TakeChanges
<1>12. /\ engine' \in [Replica -> Engine] /\ engine'[r] = eff.eng
       /\ \A s \in Replica \ {r} : engine'[s] = engine[s]
    BY <1>2, <1>11, CoreTypes DEF Set, ReplicaTypes
<1>13. /\ dirtyGroups' \in [Replica -> SUBSET GroupId] /\ dirtyGroups'[r] = gs
       /\ dirtyAlarms' \in [Replica -> SUBSET Alarm] /\ dirtyAlarms'[r] = as
       /\ \A s \in Replica \ {r} : /\ dirtyGroups'[s] = dirtyGroups[s]
                                   /\ dirtyAlarms'[s] = dirtyAlarms[s]
    BY <1>6, <1>11, CoreTypes DEF Set, ReplicaTypes
<1>14. /\ changes' \in [Replica -> Changes] /\ changes'[r] = c
       /\ \A s \in Replica \ {r} : changes'[s] = changes[s]
    BY <1>10, <1>11, CoreTypes DEF Set, ReplicaTypes
<1>15. /\ dirtyGroups'[r] = eff.groups \cup IF unprojectedSeq[r] = seq THEN dirtyGroups[r] ELSE {}
       /\ dirtyAlarms'[r] = eff.alarms \cup IF unprojectedSeq[r] = seq THEN dirtyAlarms[r] ELSE {}
    BY <1>3, <1>5, <1>13
<1> QED BY <1>7, <1>10, <1>12, <1>13, <1>14, <1>15 DEF AppliedTo

LEMMA ReadPageCore ==
    ASSUME CoreInv, NEW r \in Replica, ReadPage(r)
    PROVE  CoreInv'
<1>1. /\ Attached(r) /\ pumps[r] # <<>> /\ pageEnd[r] = 0
      /\ appliedSeq[r] < Len(journal)
    BY DEF ReadPage, Reading, Draining, Attached
<1>2. PICK seq \in Nat \ {0} : seq = appliedSeq[r] + 1 /\ seq \in 1 .. Len(journal)
    BY <1>1, CoreTypes
<1>3. PICK eff, old, pol : Applied(r, seq, eff, old, pol)
    BY <1>1, <1>2, ApplyFacts DEF ReadPage
<1>4. AppliedTo(r, seq, eff, pol)
    BY <1>3, AppliedFacts
<1>5. /\ old \in SUBSET Alarm /\ forgotten' = forgotten \cup old /\ swept' \in SUBSET Decision
      /\ policyIntent' \in [Replica -> BOOLEAN]
      /\ \A s \in Replica \ {r} : policyIntent'[s] = policyIntent[s]
      /\ (eff.eng.enabled <=> healthy[r] /\ policyIntent'[r])
      /\ GoodEngine(eff.eng) /\ (RootLive(engine[r]) => RootLive(eff.eng))
    BY <1>3 DEF Applied, Announced
<1> USE DEF ReadPage, storeVars, boundVars
<1>6. StoreInv'
    BY <1>5, CoreTypes DEF StoreInv
<1>7. ReplicaTypes'
    <2>1. pageEnd' \in [Replica -> Nat]
        BY CoreTypes DEF ReplicaTypes, Set
    <2> QED BY <1>4, <1>5, <2>1, CoreTypes DEF ReplicaTypes, AppliedTo
<1>8. Others(r) /\ Grows
    BY <1>4, <1>5, CoreTypes DEF Others, Untouched, Grows, Set, ReplicaTypes, AppliedTo
<1>9. PositionInv(r)'
    <2>1. pageEnd'[r] = Len(journal) /\ changes'[r].seq = seq
        BY <1>4, CoreTypes DEF ReplicaTypes, Set, AppliedTo
    <2> QED BY <1>1, <1>2, <2>1, CoreTypes DEF PositionInv, Attached
<1>10. EngineInv(r)'
    BY <1>4, <1>5, CoreTypes DEF EngineInv, Kept, Attached, AppliedTo
<1> QED BY <1>6, <1>7, <1>8, <1>9, <1>10, CoreStep

LEMMA ProjectThenApplyCore ==
    ASSUME CoreInv, NEW r \in Replica, ProjectThenApply(r)
    PROVE  CoreInv'
<1>1. /\ Attached(r) /\ changes[r].seq # 0 /\ changes[r].seq < pageEnd[r]
      /\ projection' = Projected(changes[r])
      /\ appliedSeq' = Set(appliedSeq, r, changes[r].seq)
      /\ unprojectedSeq' = Set(unprojectedSeq, r, 0)
    BY DEF ProjectThenApply, Commit, Draining, Attached
<1>2. PICK seq \in Nat \ {0} : seq = changes[r].seq + 1 /\ seq \in 1 .. Len(journal)
    BY <1>1, CoreTypes DEF PositionInv
<1>3. PICK eff, old, pol : Applied(r, seq, eff, old, pol)
    BY <1>1, <1>2, ApplyFacts DEF ProjectThenApply
<1>4. AppliedTo(r, seq, eff, pol)
    BY <1>3, AppliedFacts
<1>5. /\ old \in SUBSET Alarm /\ forgotten' = forgotten \cup old /\ swept' \in SUBSET Decision
      /\ policyIntent' \in [Replica -> BOOLEAN]
      /\ \A s \in Replica \ {r} : policyIntent'[s] = policyIntent[s]
      /\ (eff.eng.enabled <=> healthy[r] /\ policyIntent'[r])
      /\ GoodEngine(eff.eng) /\ (RootLive(engine[r]) => RootLive(eff.eng))
    BY <1>3 DEF Applied, Announced
<1>6. /\ GoodRows(projection') /\ projection'.seq \in Nat
      /\ projection'.seq <= Len(journal)
      /\ projection'.seq >= projection.seq /\ projection'.seq >= changes[r].seq
    BY <1>1, ProjectedFacts
<1> USE DEF ProjectThenApply, boundVars
<1>7. StoreInv'
    BY <1>5, <1>6, CoreTypes DEF StoreInv
<1>8. appliedSeq' \in [Replica -> Nat] /\ unprojectedSeq' \in [Replica -> Nat]
      /\ appliedSeq'[r] = changes[r].seq /\ unprojectedSeq'[r] = 0
    BY <1>1, CoreTypes DEF ReplicaTypes, Set
<1>9. ReplicaTypes'
    BY <1>4, <1>5, <1>8, CoreTypes DEF ReplicaTypes, AppliedTo
<1>10. Others(r) /\ Grows
    BY <1>1, <1>4, <1>5, <1>6, CoreTypes
    DEF Others, Untouched, Grows, Set, ReplicaTypes, AppliedTo
<1>11. PositionInv(r)'
    <2>1. changes'[r].seq = seq
        BY <1>4 DEF AppliedTo
    <2>2. seq <= pageEnd[r]
        BY <1>1, <1>2, CoreTypes
    <2>3. loaded[r].seq <= projection'.seq
        BY <1>6, CoreTypes DEF PositionInv
    <2> QED BY <1>1, <1>2, <1>6, <1>8, <2>1, <2>2, <2>3, CoreTypes DEF PositionInv, Attached
<1>12. EngineInv(r)'
    BY <1>4, <1>5, CoreTypes DEF EngineInv, Kept, Attached, AppliedTo
<1> QED BY <1>7, <1>9, <1>10, <1>11, <1>12, CoreStep

LEMMA NoChangesFacts ==
    /\ NoChanges \in Changes /\ NoChanges.seq = 0 /\ GoodEngine(NoChanges.eng)
    /\ Marked(NoChanges.eng, NoChanges.groups, NoChanges.alarms)
<1>1. GoodEngine(EmptyEngine) /\ EmptyEngine \in Engine
    BY EmptyGood DEF GoodEngine
<1> QED BY <1>1 DEF NoChanges, Changes, Marked

LEMMA ProjectLastCore ==
    ASSUME CoreInv, NEW r \in Replica, ProjectLast(r)
    PROVE  CoreInv'
<1>1. /\ Attached(r) /\ changes[r].seq # 0 /\ changes[r].seq = pageEnd[r]
      /\ projection' = Projected(changes[r])
      /\ appliedSeq' = Set(appliedSeq, r, changes[r].seq)
      /\ unprojectedSeq' = Set(unprojectedSeq, r, 0)
      /\ MarkHealthy(r, engine[r])
    BY DEF ProjectLast, Commit, Draining, Attached
<1>2. /\ engine'[r] \in Engine /\ GoodEngine(engine'[r])
      /\ (engine'[r].enabled <=> policyIntent[r])
      /\ (RootLive(engine[r]) => RootLive(engine'[r]))
      /\ healthy'[r] = TRUE
      /\ engine' = Set(engine, r, engine'[r]) /\ healthy' = Set(healthy, r, TRUE)
    BY <1>1, MarkHealthyFacts
<1>3. /\ GoodRows(projection') /\ projection'.seq \in Nat
      /\ projection'.seq <= Len(journal)
      /\ projection'.seq >= projection.seq /\ projection'.seq >= changes[r].seq
    BY <1>1, ProjectedFacts
<1> USE DEF ProjectLast, boundVars, historyVars
<1>4. StoreInv'
    BY <1>3, CoreTypes DEF StoreInv
<1>5. appliedSeq' \in [Replica -> Nat] /\ unprojectedSeq' \in [Replica -> Nat]
      /\ appliedSeq'[r] = changes[r].seq /\ unprojectedSeq'[r] = 0
    BY <1>1, CoreTypes DEF ReplicaTypes, Set
<1>6. /\ pageEnd' \in [Replica -> Nat] /\ pageEnd'[r] = 0
      /\ changes' \in [Replica -> Changes] /\ changes'[r] = NoChanges
    BY NoChangesFacts, CoreTypes DEF ReplicaTypes, Set
<1>7. ReplicaTypes'
    <2>1. engine' \in [Replica -> Engine] /\ healthy' \in [Replica -> BOOLEAN]
        BY <1>2, CoreTypes DEF ReplicaTypes, Set
    <2>2. dirtyGroups' \in [Replica -> SUBSET GroupId]
          /\ dirtyAlarms' \in [Replica -> SUBSET Alarm]
        BY CoreTypes DEF ReplicaTypes, Set
    <2> QED BY <1>5, <1>6, <2>1, <2>2, CoreTypes DEF ReplicaTypes
<1>8. Others(r) /\ Grows
    BY <1>1, <1>2, <1>3, CoreTypes DEF Others, Untouched, Grows, Set, ReplicaTypes
<1>9. PositionInv(r)'
    <2>1. loaded[r].seq <= projection'.seq
        BY <1>3, CoreTypes DEF PositionInv
    <2> QED BY <1>1, <1>3, <1>5, <1>6, <2>1, NoChangesFacts, CoreTypes DEF PositionInv, Attached
<1>10. EngineInv(r)'
    BY <1>2, <1>5, <1>6, NoChangesFacts, CoreTypes DEF EngineInv, Kept, Attached
<1> QED BY <1>4, <1>7, <1>8, <1>9, <1>10, CoreStep

\* touchGroup and touchAlarm keep every row to write tied to a group that exists.
LEMMA FellBackFacts ==
    ASSUME CoreInv, NEW r \in Replica, NEW call, NEW eff, FellBack(r, call, eff)
    PROVE  /\ engine' \in [Replica -> Engine] /\ engine'[r] = eff.eng
           /\ GoodEngine(engine'[r]) /\ (Attached(r) => ~engine'[r].enabled)
           /\ dirtyGroups' \in [Replica -> SUBSET GroupId]
           /\ dirtyAlarms' \in [Replica -> SUBSET Alarm]
           /\ dirtyGroups'[r] = IF Kept(r) THEN dirtyGroups[r] \cup eff.groups ELSE {}
           /\ dirtyAlarms'[r] = IF Kept(r) THEN dirtyAlarms[r] \cup eff.alarms ELSE {}
           /\ Marked(engine'[r], dirtyGroups'[r], dirtyAlarms'[r])
           /\ RootLive(engine[r]) => RootLive(engine'[r])
           /\ \A s \in Replica \ {r} : /\ engine'[s] = engine[s]
                                       /\ dirtyGroups'[s] = dirtyGroups[s]
                                       /\ dirtyAlarms'[s] = dirtyAlarms[s]
<1>1. /\ Announced(engine[r], eff, {}) /\ (Attached(r) => ~eff.eng.enabled)
      /\ engine' = Set(engine, r, eff.eng) /\ Touch(r, eff.groups, eff.alarms)
    BY DEF FellBack
<1>2. /\ GoodEngine(eff.eng) /\ eff.eng \in Engine
      /\ (RootLive(engine[r]) => RootLive(eff.eng))
      /\ eff.groups \in SUBSET GroupId /\ eff.alarms \in SUBSET Alarm
    BY <1>1 DEF Announced, GoodEngine
<1>3. engine' \in [Replica -> Engine] /\ engine'[r] = eff.eng
      /\ \A s \in Replica \ {r} : engine'[s] = engine[s]
    BY <1>1, <1>2, CoreTypes DEF Set, ReplicaTypes
<1>4. PICK gs, as : /\ gs = IF Kept(r) THEN dirtyGroups[r] \cup eff.groups ELSE {}
                    /\ as = IF Kept(r) THEN dirtyAlarms[r] \cup eff.alarms ELSE {}
    OBVIOUS
<1>5. dirtyGroups' = Set(dirtyGroups, r, gs) /\ dirtyAlarms' = Set(dirtyAlarms, r, as)
    BY <1>1, <1>4 DEF Touch, Kept
<1>6. gs \in SUBSET GroupId /\ as \in SUBSET Alarm /\ Marked(eff.eng, gs, as)
    <2>1. CASE Kept(r)
        <3>1. Marked(engine[r], dirtyGroups[r], dirtyAlarms[r])
              /\ dirtyGroups[r] \in SUBSET GroupId /\ dirtyAlarms[r] \in SUBSET Alarm
            BY <2>1, CoreTypes DEF EngineInv, ReplicaTypes
        <3>2. Marked(eff.eng, dirtyGroups[r] \cup eff.groups, dirtyAlarms[r] \cup eff.alarms)
            BY <1>1, <3>1, MarkedMore
        <3> QED BY <1>2, <1>4, <2>1, <3>1, <3>2
    <2>2. CASE ~Kept(r)
        BY <1>4, <2>2 DEF Marked
    <2> QED BY <2>1, <2>2
<1>7. /\ dirtyGroups' \in [Replica -> SUBSET GroupId] /\ dirtyGroups'[r] = gs
      /\ dirtyAlarms' \in [Replica -> SUBSET Alarm] /\ dirtyAlarms'[r] = as
      /\ \A s \in Replica \ {r} : /\ dirtyGroups'[s] = dirtyGroups[s]
                                  /\ dirtyAlarms'[s] = dirtyAlarms[s]
    BY <1>5, <1>6, CoreTypes DEF Set, ReplicaTypes
<1> QED BY <1>1, <1>2, <1>3, <1>4, <1>6, <1>7

LEMMA SubmitFailsCore ==
    ASSUME CoreInv, NEW r \in Replica, NEW op \in Operation, SubmitFails(r, op)
    PROVE  CoreInv'
<1>1. op \in Call /\ FallBack(r, op) /\ Attached(r)
    BY DEF Call, SubmitFails, Attached
<1>2. PICK eff : FellBack(r, op, eff)
    BY <1>1, FallBackFacts
<1>3. /\ faults' = faults + 1 /\ faults' <= MaxFaults /\ locals' \in Nat /\ locals' <= faults'
      /\ healthy' = Set(healthy, r, FALSE)
      /\ fellBack' = fellBack \cup ({op.alarm} \cap Alarm)
    BY <1>1, FallBackFacts
<1>4. /\ engine' \in [Replica -> Engine]
      /\ GoodEngine(engine'[r]) /\ ~engine'[r].enabled
      /\ dirtyGroups' \in [Replica -> SUBSET GroupId]
      /\ dirtyAlarms' \in [Replica -> SUBSET Alarm]
      /\ Marked(engine'[r], dirtyGroups'[r], dirtyAlarms'[r])
      /\ (RootLive(engine[r]) => RootLive(engine'[r]))
      /\ \A s \in Replica \ {r} : /\ engine'[s] = engine[s]
                                  /\ dirtyGroups'[s] = dirtyGroups[s]
                                  /\ dirtyAlarms'[s] = dirtyAlarms[s]
    BY <1>1, <1>2, FellBackFacts
<1>5. /\ journal' \in Seq(Operation) /\ Len(journal') <= Len(journal) + 1
      /\ Len(journal) <= Len(journal') /\ Len(journal') \in Nat
    <2>1. Appended(op) \in Seq(Operation) /\ Len(Appended(op)) \in {Len(journal), Len(journal) + 1}
        BY AppendedFacts
    <2>2. journal' \in {journal, Appended(op)} /\ journal \in Seq(Operation)
        BY CoreTypes DEF SubmitFails, StoreInv
    <2> QED BY <2>1, <2>2, CoreTypes
<1> USE DEF SubmitFails, drainVars
<1>6. StoreInv'
    <2>1. submits' = submits + 1 /\ submits < MaxSubmits /\ MaxSubmits \in Nat
          /\ Len(journal) <= submits /\ submits \in Nat /\ faults \in Nat
        BY CoreTypes, CoordinationAssumption DEF StoreInv
    <2> QED BY <1>3, <1>5, <2>1, CoreTypes DEF StoreInv
<1>7. ReplicaTypes'
    <2>1. healthy' \in [Replica -> BOOLEAN]
        BY <1>3, CoreTypes DEF ReplicaTypes, Set
    <2> QED BY <1>4, <2>1, CoreTypes DEF ReplicaTypes
<1>8. Others(r) /\ Grows
    BY <1>3, <1>4, <1>5, CoreTypes DEF Others, Untouched, Grows, Set, ReplicaTypes
<1>9. PositionInv(r)'
    BY <1>5, CoreTypes DEF PositionInv, Attached
<1>10. healthy'[r] = FALSE
    BY <1>3, CoreTypes DEF ReplicaTypes, Set
<1>11. EngineInv(r)'
    BY <1>4, <1>10, CoreTypes DEF EngineInv, Kept, Attached
<1> QED BY <1>6, <1>7, <1>8, <1>9, <1>11, CoreStep

\* A throw out of drain, wherever it comes from: what is left of the replica.
LEMMA ThrowCore ==
    ASSUME CoreInv, NEW r \in Replica, Draining(r), DrainThrows(r),
           journal' = journal, loaded' = loaded, policyIntent' = policyIntent,
           appliedSeq' = appliedSeq, submits' = submits, restarts' = restarts,
           forgotten' = forgotten, swept' = swept, torn' = torn,
           NEW u \in {0, appliedSeq[r] + 1}, u <= Len(journal),
           unprojectedSeq' = Set(unprojectedSeq, r, u), unprojectedSeq[r] = u \/ changes[r].seq = u,
           GoodRows(projection'), projection'.seq >= projection.seq,
           projection'.seq <= Len(journal)
    PROVE  CoreInv'
<1>1. /\ Attached(r) /\ pumps[r] # <<>> /\ FallBack(r, Head(pumps[r]))
      /\ pumps' = Set(pumps, r, Tail(pumps[r]))
      /\ pageEnd' = Set(pageEnd, r, 0) /\ changes' = Set(changes, r, NoChanges)
      /\ mode' = IF mode[r] = "starting" THEN Set(mode, r, "down") ELSE mode
    BY DEF DrainThrows, Draining, Attached
<1>2. Head(pumps[r]) \in Call /\ Tail(pumps[r]) \in Seq(Call)
    BY <1>1, CoreTypes DEF ReplicaTypes
<1>3. PICK call \in Call : call = Head(pumps[r])
    BY <1>2
<1>4. PICK eff : FellBack(r, call, eff)
    BY <1>1, <1>3, FallBackFacts
<1>5. /\ faults' = faults + 1 /\ faults' <= MaxFaults /\ locals' \in Nat /\ locals' <= faults'
      /\ healthy' = Set(healthy, r, FALSE)
      /\ fellBack' = fellBack \cup ({call.alarm} \cap Alarm)
    BY <1>1, <1>3, FallBackFacts
<1>6. /\ engine' \in [Replica -> Engine]
      /\ GoodEngine(engine'[r]) /\ ~engine'[r].enabled
      /\ dirtyGroups' \in [Replica -> SUBSET GroupId]
      /\ dirtyAlarms' \in [Replica -> SUBSET Alarm]
      /\ Marked(engine'[r], dirtyGroups'[r], dirtyAlarms'[r])
      /\ (RootLive(engine[r]) => RootLive(engine'[r]))
      /\ \A s \in Replica \ {r} : /\ engine'[s] = engine[s]
                                  /\ dirtyGroups'[s] = dirtyGroups[s]
                                  /\ dirtyAlarms'[s] = dirtyAlarms[s]
    BY <1>1, <1>4, FellBackFacts
<1>7. StoreInv'
    <2>1. faults \in Nat
        BY CoreTypes DEF StoreInv
    <2> QED BY <1>5, <2>1, CoreTypes DEF StoreInv
<1>8. /\ mode' \in [Replica -> Mode] /\ mode'[r] \in {mode[r], "down"}
      /\ (mode[r] # "starting" => mode'[r] = mode[r])
      /\ \A s \in Replica \ {r} : mode'[s] = mode[s]
    BY <1>1, CoreTypes DEF ReplicaTypes, Set, Mode
<1>9. /\ pumps' \in [Replica -> Seq(Call)] /\ pageEnd' \in [Replica -> Nat]
      /\ changes' \in [Replica -> Changes] /\ unprojectedSeq' \in [Replica -> Nat]
      /\ pageEnd'[r] = 0 /\ changes'[r] = NoChanges /\ unprojectedSeq'[r] = u
    BY <1>1, <1>2, NoChangesFacts, CoreTypes DEF ReplicaTypes, Set
<1>10. ReplicaTypes'
    <2>1. healthy' \in [Replica -> BOOLEAN]
        BY <1>5, CoreTypes DEF ReplicaTypes, Set
    <2> QED BY <1>6, <1>8, <1>9, <2>1, CoreTypes DEF ReplicaTypes
<1>11. Grows
    BY CoreTypes DEF Grows
<1>12. Others(r)
    BY <1>1, <1>5, <1>6, <1>8, CoreTypes DEF Others, Untouched, Set, ReplicaTypes
<1>13. PositionInv(r)'
    <2>1. loaded[r].seq <= projection'.seq /\ appliedSeq[r] <= projection'.seq
        <3>1. projection'.seq \in Nat
            BY DEF GoodRows, Rows
        <3> QED BY <3>1, CoreTypes DEF PositionInv
    <2> QED BY <1>9, <2>1, NoChangesFacts, CoreTypes DEF PositionInv, Attached
<1>14. healthy'[r] = FALSE
    BY <1>5, CoreTypes DEF ReplicaTypes, Set
<1>15. EngineInv(r)'
    <2>1. restarts = 0 => mode'[r] = "up"
        BY <1>8, CoreTypes DEF EngineInv
    <2> QED BY <1>6, <1>9, <1>14, <2>1, NoChangesFacts, CoreTypes DEF EngineInv, Kept
<1> QED BY <1>7, <1>10, <1>11, <1>12, <1>13, <1>15, CoreStep

LEMMA ReadFailsCore ==
    ASSUME CoreInv, NEW r \in Replica, ReadFails(r)
    PROVE  CoreInv'
<1>1. PICK u : u = unprojectedSeq[r]
    OBVIOUS
<1>2. u \in {0, appliedSeq[r] + 1} /\ u <= Len(journal)
    BY <1>1, CoreTypes DEF PositionInv
<1>3. unprojectedSeq' = Set(unprojectedSeq, r, u)
    BY <1>1, CoreTypes DEF ReadFails, Set, ReplicaTypes
<1>4. GoodRows(projection) /\ projection' = projection
    BY CoreTypes DEF ReadFails, StoreInv, storeVars
<1> QED BY <1>1, <1>2, <1>3, <1>4, ThrowCore, CoreTypes DEF ReadFails, Reading, storeVars

LEMMA ProjectFailsCore ==
    ASSUME CoreInv, NEW r \in Replica, ProjectFails(r)
    PROVE  CoreInv'
<1>1. PICK u : u = changes[r].seq
    OBVIOUS
<1>2. u \in {0, appliedSeq[r] + 1} /\ u <= Len(journal)
    BY <1>1, CoreTypes DEF PositionInv
<1>3. unprojectedSeq' = Set(unprojectedSeq, r, u)
    BY <1>1 DEF ProjectFails
<1>4. /\ GoodRows(projection') /\ projection'.seq >= projection.seq
      /\ projection'.seq <= Len(journal)
    <2>1. projection' \in {projection, Projected(changes[r])} /\ GoodRows(projection)
          /\ changes[r].seq # 0
        BY CoreTypes DEF ProjectFails, StoreInv
    <2> QED BY <2>1, ProjectedFacts, CoreTypes
<1> QED BY <1>1, <1>2, <1>3, <1>4, ThrowCore DEF ProjectFails

LEMMA CrashCore ==
    ASSUME CoreInv, NEW r \in Replica, Crash(r)
    PROVE  CoreInv'
<1>1. GoodEngine(EmptyEngine) /\ EmptyEngine \in Engine
    BY EmptyGood DEF GoodEngine
<1> USE DEF Crash, storeVars, historyVars
<1>2. StoreInv'
    BY CoreTypes DEF StoreInv
<1>3. /\ mode' \in [Replica -> Mode] /\ mode'[r] = "down"
      /\ appliedSeq' \in [Replica -> Nat] /\ appliedSeq'[r] = 0
      /\ unprojectedSeq' \in [Replica -> Nat] /\ unprojectedSeq'[r] = 0
      /\ pageEnd' \in [Replica -> Nat] /\ pageEnd'[r] = 0
    BY CoreTypes DEF ReplicaTypes, Set, Mode
<1>4. /\ engine' \in [Replica -> Engine] /\ engine'[r] = EmptyEngine
      /\ changes' \in [Replica -> Changes] /\ changes'[r] = NoChanges
      /\ pumps' \in [Replica -> Seq(Call)]
    BY <1>1, NoChangesFacts, CoreTypes DEF ReplicaTypes, Set
<1>5. /\ healthy' \in [Replica -> BOOLEAN] /\ policyIntent' \in [Replica -> BOOLEAN]
      /\ dirtyGroups' \in [Replica -> SUBSET GroupId]
      /\ dirtyAlarms' \in [Replica -> SUBSET Alarm]
    BY CoreTypes DEF ReplicaTypes, Set
<1>6. ReplicaTypes'
    BY <1>3, <1>4, <1>5, CoreTypes DEF ReplicaTypes
<1>7. Others(r) /\ Grows
    BY CoreTypes DEF Others, Untouched, Grows, Set, ReplicaTypes, StoreInv
<1>8. PositionInv(r)'
    BY <1>3, <1>4, NoChangesFacts, CoreTypes DEF PositionInv
<1>9. restarts' # 0
    BY CoreTypes DEF StoreInv
<1>10. EngineInv(r)'
    BY <1>1, <1>3, <1>4, <1>9, NoChangesFacts DEF EngineInv, Kept, Attached
<1> QED BY <1>2, <1>6, <1>7, <1>8, <1>10, CoreStep

\* A step of load() that only reads rows.
LEMMA LoadCore ==
    ASSUME CoreInv, NEW r \in Replica, ~Attached(r), NEW m \in Mode, NEW p,
           m \notin {"starting", "up"}, GoodRows(p), p.seq <= projection.seq,
           mode' = Set(mode, r, m), loaded' = Set(loaded, r, p), torn' \in BOOLEAN,
           UNCHANGED <<storeVars, engine, healthy, policyIntent, appliedSeq,
                       dirtyVars, drainVars, boundVars, fellBack, forgotten, swept>>
    PROVE  CoreInv'
<1> USE DEF storeVars, dirtyVars, drainVars, boundVars
<1>1. p \in Rows /\ p.seq \in Nat
    BY DEF GoodRows, Rows
<1>2. StoreInv'
    BY CoreTypes DEF StoreInv
<1>3. /\ mode' \in [Replica -> Mode] /\ mode'[r] = m
      /\ loaded' \in [Replica -> Rows] /\ loaded'[r] = p
    BY <1>1, CoreTypes DEF ReplicaTypes, Set
<1>4. ReplicaTypes'
    BY <1>3, CoreTypes DEF ReplicaTypes
<1>5. Others(r) /\ Grows
    BY CoreTypes DEF Others, Untouched, Grows, Set, ReplicaTypes
<1>6. PositionInv(r)'
    BY <1>3, CoreTypes DEF PositionInv, Attached
<1>7. restarts # 0
    BY CoreTypes DEF EngineInv, Attached
<1>8. EngineInv(r)'
    BY <1>3, <1>7, CoreTypes DEF EngineInv, Kept, Attached
<1> QED BY <1>2, <1>4, <1>5, <1>6, <1>8, CoreStep

LEMMA LoadStateCore ==
    ASSUME CoreInv, NEW r \in Replica, LoadState(r)
    PROVE  CoreInv'
<1>1. ~Attached(r) /\ "loading" \in Mode /\ torn' \in BOOLEAN
    BY CoreTypes DEF LoadState, Attached, Mode, StoreInv, historyVars
<1>2. GoodRows(projection) /\ projection.seq <= projection.seq
    BY CoreTypes DEF StoreInv
<1> QED BY <1>1, <1>2, LoadCore DEF LoadState, historyVars

LEMMA LoadGroupsCore ==
    ASSUME CoreInv, NEW r \in Replica, LoadGroups(r)
    PROVE  CoreInv'
<1>1. ~Attached(r) /\ "loadingAlarms" \in Mode
    BY DEF LoadGroups, Attached, Mode
<1>2. torn' \in BOOLEAN
    BY DEF LoadGroups
<1>3. PICK n, i : n = loaded[r].seq /\ i = loaded[r].intent
    OBVIOUS
<1>4. PICK p : p = [projection EXCEPT !.seq = n, !.intent = i]
    OBVIOUS
<1>5. projection \in Rows /\ n \in Nat /\ i \in BOOLEAN /\ n <= projection.seq
    BY <1>3, CoreTypes DEF StoreInv, GoodRows, ReplicaTypes, PositionInv, Rows
<1>6. p = [seq |-> n, intent |-> i, where |-> projection.where, state |-> projection.state,
           root |-> projection.root, open |-> projection.open]
    BY <1>4, <1>5 DEF Rows
<1>7. GoodRows(p) /\ p.seq <= projection.seq
    <2>1. p \in Rows
        BY <1>5, <1>6 DEF Rows
    <2> QED BY <1>5, <1>6, <2>1, CoreTypes DEF GoodRows, StoreInv
<1>8. loaded' = Set(loaded, r, p)
    BY <1>3, <1>4 DEF LoadGroups
<1> QED BY <1>1, <1>2, <1>7, <1>8, LoadCore DEF LoadGroups

LEMMA NoRowsGood == GoodRows(NoRows) /\ NoRows.seq = 0
<1>1. EmptyEngine \in Engine
    BY EmptyGood DEF GoodEngine
<1>2. NoRows \in Rows /\ NoRows.seq = 0
    BY <1>1 DEF NoRows, Rows, Engine
<1>3. \A a \in Alarm : NoRows.where[a] = Untracked
    BY DEF NoRows, EmptyEngine
<1>4. NoRows.open = {} /\ Untracked \notin GroupId
    BY EngineAssumption DEF NoRows, Untracked
<1> QED BY <1>2, <1>3, <1>4 DEF GoodRows

LEMMA LoadFailsCore ==
    ASSUME CoreInv, NEW r \in Replica, LoadFails(r)
    PROVE  CoreInv'
<1>1. ~Attached(r) /\ "down" \in Mode /\ torn' \in BOOLEAN
    BY CoreTypes DEF LoadFails, Attached, Mode, StoreInv, historyVars
<1>2. GoodRows(NoRows) /\ NoRows.seq <= projection.seq
    BY NoRowsGood, CoreTypes
<1> QED BY <1>1, <1>2, LoadCore DEF LoadFails, historyVars

\* The engine a restarting replica adopts.
LEMMA LoadAlarmsFacts ==
    ASSUME CoreInv, NEW r \in Replica, LoadAlarms(r)
    PROVE  \E h, x : /\ HydratedTo(loaded[r], projection, h)
                     /\ PolicyTo(h, loaded[r].intent, x)
                     /\ engine' = Set(engine, r, x)
<1>1. PICK on \in BOOLEAN : on = loaded[r].intent
    BY CoreTypes DEF ReplicaTypes, Rows
<1>2. PICK h : h = Hydrate(loaded[r], projection)
    OBVIOUS
<1>3. PICK x : x = SetSuppressionPolicy(h, on).eng
    OBVIOUS
<1>4. engine' = Set(engine, r, x)
    <2>1. (TRUE /\ on) = on
        OBVIOUS
    <2>2. SyncEnginePolicy(h, TRUE, on) = SetSuppressionPolicy(h, on)
        BY <2>1, Zenon DEF SyncEnginePolicy
    <2> QED BY <1>1, <1>2, <1>3, <2>2 DEF LoadAlarms
<1>5. HydratedTo(loaded[r], projection, h)
    BY <1>2, HydrateShape, CoreTypes DEF PositionInv, StoreInv, GoodRows, Rows
<1>6. PolicyTo(h, on, x)
    BY <1>3, <1>5, PolicyShape DEF HydratedTo
<1> QED BY <1>1, <1>4, <1>5, <1>6

LEMMA LoadAlarmsCore ==
    ASSUME CoreInv, NEW r \in Replica, LoadAlarms(r)
    PROVE  CoreInv'
<1>1. PICK h, x : PolicyTo(h, loaded[r].intent, x) /\ engine' = Set(engine, r, x)
    BY LoadAlarmsFacts
<1>2. GoodEngine(x) /\ x \in Engine /\ x.enabled = loaded[r].intent
    BY <1>1 DEF PolicyTo, GoodEngine
<1>3. ~Attached(r) /\ changes[r].seq = 0 /\ pageEnd[r] = 0 /\ restarts # 0
    <2>1. ~Attached(r)
        BY DEF LoadAlarms, Attached
    <2> QED BY <2>1, CoreTypes DEF PositionInv, EngineInv, Attached
<1>4. loaded[r].intent \in BOOLEAN /\ loaded[r].seq <= projection.seq
    BY CoreTypes DEF ReplicaTypes, Rows, PositionInv
<1> USE DEF LoadAlarms, storeVars, boundVars
<1>5. torn' \in BOOLEAN
    OBVIOUS
<1>6. StoreInv'
    BY <1>5, CoreTypes DEF StoreInv
<1>7. /\ mode' \in [Replica -> Mode] /\ mode'[r] = "starting"
      /\ appliedSeq' \in [Replica -> Nat] /\ appliedSeq'[r] = loaded[r].seq
      /\ unprojectedSeq' \in [Replica -> Nat] /\ unprojectedSeq'[r] = 0
    BY CoreTypes DEF ReplicaTypes, Set, Mode
<1>8. /\ loaded' \in [Replica -> Rows] /\ loaded'[r] = NoRows
      /\ engine' \in [Replica -> Engine] /\ engine'[r] = x
    <2>1. NoRows \in Rows /\ loaded' = Set(loaded, r, NoRows)
        BY NoRowsGood DEF GoodRows
    <2>2. loaded' \in [Replica -> Rows] /\ loaded'[r] = NoRows
        BY <2>1, CoreTypes DEF ReplicaTypes, Set
    <2>3. engine' \in [Replica -> Engine] /\ engine'[r] = x
        BY <1>1, <1>2, CoreTypes DEF ReplicaTypes, Set
    <2> QED BY <2>2, <2>3
<1>9. pumps' \in [Replica -> Seq(Call)]
    <2>1. StartCall \in Call
        BY DEF Call
    <2>2. <<StartCall>> \in Seq(Call)
        BY <2>1
    <2> QED BY <2>2, CoreTypes DEF ReplicaTypes, Set
<1>10. /\ healthy' \in [Replica -> BOOLEAN] /\ healthy'[r] = TRUE
       /\ policyIntent' \in [Replica -> BOOLEAN] /\ policyIntent'[r] = loaded[r].intent
    BY <1>4, CoreTypes DEF ReplicaTypes, Set
<1>11. /\ dirtyGroups' \in [Replica -> SUBSET GroupId]
       /\ dirtyAlarms' \in [Replica -> SUBSET Alarm]
    BY CoreTypes DEF ReplicaTypes, Set
<1>12. ReplicaTypes'
    BY <1>7, <1>8, <1>9, <1>10, <1>11, CoreTypes DEF ReplicaTypes
<1>13. Others(r) /\ Grows
    BY <1>1, CoreTypes DEF Others, Untouched, Grows, Set, ReplicaTypes
<1>14. PositionInv(r)'
    <2>1. NoRows.seq <= projection.seq /\ GoodRows(NoRows)
        BY NoRowsGood, CoreTypes
    <2> QED BY <1>3, <1>4, <1>7, <1>8, <2>1, CoreTypes DEF PositionInv, Attached
<1>15. EngineInv(r)'
    BY <1>2, <1>3, <1>7, <1>8, <1>10, CoreTypes DEF EngineInv, Kept
<1> QED BY <1>6, <1>12, <1>13, <1>14, <1>15, CoreStep

LEMMA CoreUnchanged == CoreInv /\ UNCHANGED vars => CoreInv'
<1> SUFFICES ASSUME CoreInv, UNCHANGED vars PROVE CoreInv'
    OBVIOUS
<1> USE DEF vars, storeVars, replicaVars, dirtyVars, drainVars, boundVars, historyVars
<1>1. StoreInv'
    BY DEF CoreInv, StoreInv
<1>2. ReplicaTypes'
    BY DEF CoreInv, ReplicaTypes
<1>3. ASSUME NEW r \in Replica PROVE PositionInv(r)'
    BY DEF CoreInv, PositionInv, Attached
<1>4. ASSUME NEW r \in Replica PROVE EngineInv(r)'
    BY DEF CoreInv, EngineInv, Attached, Kept
<1> QED BY <1>1, <1>2, <1>3, <1>4 DEF CoreInv

LEMMA CoreNext == CoreInv /\ [Next]_vars => CoreInv'
<1> SUFFICES ASSUME CoreInv, [Next]_vars PROVE CoreInv'
    OBVIOUS
<1>1. CASE UNCHANGED vars
    BY <1>1, CoreUnchanged
<1>2. CASE Next
    <2>1. PICK r \in Replica :
              \/ ReplicaStep(r)
              \/ \E op \in Operations[r] : Submit(r, op) \/ SubmitFails(r, op)
              \/ ReadFails(r) \/ ProjectFails(r)
              \/ Crash(r) \/ LoadState(r) \/ LoadFails(r)
        BY <1>2 DEF Next
    <2>2. Operations[r] \subseteq Operation
        BY CoordinationAssumption
    <2>3. CASE ReplicaStep(r)
        BY <2>3, PollCore, ReadNothingCore, ReadPageCore, ProjectThenApplyCore,
           ProjectLastCore, LoadGroupsCore, LoadAlarmsCore DEF ReplicaStep
    <2>4. CASE \E op \in Operations[r] : Submit(r, op) \/ SubmitFails(r, op)
        BY <2>2, <2>4, SubmitCore, SubmitFailsCore
    <2>5. CASE ReadFails(r) \/ ProjectFails(r)
        BY <2>5, ReadFailsCore, ProjectFailsCore
    <2>6. CASE Crash(r) \/ LoadState(r) \/ LoadFails(r)
        BY <2>6, CrashCore, LoadStateCore, LoadFailsCore
    <2> QED BY <2>1, <2>3, <2>4, <2>5, <2>6
<1> QED BY <1>1, <1>2

LEMMA CoreAlways == Spec => []CoreInv
<1>1. Init => CoreInv
    BY InitCore
<1>2. CoreInv /\ [Next]_vars => CoreInv'
    BY CoreNext
<1> QED BY <1>1, <1>2, PTL DEF Spec

\* The variables keep their types, and no page, watermark or unprojected entry
\* lies past the journal, however many calls fail and replicas restart.
THEOREM CoordinationTyped == Spec => []TypeOK
<1>1. CoreInv => TypeOK
    <2> SUFFICES ASSUME CoreInv PROVE TypeOK
        OBVIOUS
    <2>1. ASSUME NEW r \in Replica
          PROVE  /\ appliedSeq[r] \in 0 .. Len(journal)
                 /\ unprojectedSeq[r] \in 0 .. Len(journal)
                 /\ pageEnd[r] \in 0 .. Len(journal)
        BY CoreTypes DEF PositionInv
    <2>2. projection.seq \in 0 .. Len(journal)
        <3>1. projection.seq \in Nat
            BY DEF CoreInv, StoreInv, GoodRows, Rows
        <3> QED BY <3>1 DEF CoreInv, StoreInv
    <2> QED BY <2>1, <2>2 DEF CoreInv, StoreInv, ReplicaTypes, Mode, TypeOK
<1> QED BY <1>1, CoreAlways, PTL

\* A replica that hides an alarm is healthy and was asked to hide it: degrade(),
\* applied outside the journal's order, and the local fallback that follows it
\* never leave a hidden alarm behind.
THEOREM HidingIsHealthy == Spec => []HidesOnlyWhenHealthy
<1>1. CoreInv => HidesOnlyWhenHealthy
    <2> SUFFICES ASSUME CoreInv, NEW r \in Replica, Attached(r), NEW a \in Suppressed(engine[r])
                 PROVE  healthy[r] /\ policyIntent[r]
        BY DEF HidesOnlyWhenHealthy
    <2>1. Exact(engine[r]) /\ (engine[r].enabled <=> healthy[r] /\ policyIntent[r])
        BY DEF CoreInv, EngineInv, GoodEngine
    <2>2. engine[r].enabled
        BY <2>1 DEF Exact, Hides, Suppressed, Tracked
    <2> QED BY <2>1, <2>2
<1> QED BY <1>1, CoreAlways, PTL

-----------------------------------------------------------------------------
(* No alarm is lost: rows, marks and engines *)

LEMMA IngestedFacts ==
    ASSUME CoreInv, NEW n \in Nat, n <= Len(journal), NEW a
    PROVE  /\ a \in Ingested(n) <=> \E i \in 1 .. n : journal[i] = IngestEntry(a)
           /\ a \in Ingested(n) => a \in Alarm
<1>1. ASSUME NEW i \in 1 .. n
      PROVE  /\ journal[i].op = "ingest" /\ journal[i].alarm = a
                    <=> journal[i] = IngestEntry(a)
             /\ journal[i].op = "ingest" => journal[i].alarm \in Alarm
    <2>1. i \in 1 .. Len(journal)
        BY CoreTypes DEF CoreInv, StoreInv
    <2>2. PICK op \in Operation : op = journal[i]
        BY <2>1, EntryIsOperation
    <2>3. op.op = "ingest" => op.alarm \in Alarm /\ op = [op |-> op.op, alarm |-> op.alarm]
        BY DEF Operation
    <2> QED BY <2>2, <2>3 DEF IngestEntry
<1>2. a \in Ingested(n) <=> \E i \in 1 .. n : journal[i].op = "ingest" /\ journal[i].alarm = a
    BY DEF Ingested
<1> QED BY <1>1, <1>2

\* What no action undoes.
KeepGrows ==
    /\ \A i \in 1 .. Len(journal) : journal'[i] = journal[i]
    /\ forgotten \subseteq forgotten' /\ fellBack \subseteq fellBack' /\ (torn => torn')
    /\ \A a \in Alarm : a \in Excused' \/ projection.where[a] = Untracked
                            \/ projection'.where[a] # Untracked

\* The ingests of a prefix do not change when the journal grows.
LEMMA IngestedStays ==
    ASSUME CoreInv, KeepGrows, NEW n \in Nat, n <= Len(journal)
    PROVE  Ingested(n)' = Ingested(n)
<1>1. \A i \in 1 .. n : journal'[i] = journal[i]
    BY CoreTypes DEF KeepGrows, CoreInv, StoreInv
<1> QED BY <1>1 DEF Ingested

\* A replica whose engine, marks and position an action leaves alone.
Still(s) ==
    /\ engine'[s] = engine[s] /\ policyIntent'[s] = policyIntent[s]
    /\ appliedSeq'[s] = appliedSeq[s] /\ unprojectedSeq'[s] = unprojectedSeq[s]
    /\ dirtyGroups'[s] = dirtyGroups[s] /\ dirtyAlarms'[s] = dirtyAlarms[s]
    /\ changes'[s] = changes[s] /\ (Attached(s)' <=> Attached(s))

LEMMA UntouchedStill ==
    ASSUME NEW s \in Replica, Untouched(s)
    PROVE  Still(s)
BY DEF Untouched, Still, Attached

LEMMA KeepOthers ==
    ASSUME CoreInv, KeepInv, KeepGrows, NEW s \in Replica, Still(s)
    PROVE  TrackInv(s)'
<1>1. TrackInv(s) /\ Excused \subseteq Excused'
    BY DEF KeepInv, KeepGrows, Excused
<1>2. (Kept(s)' <=> Kept(s)) /\ (Attached(s)' <=> Attached(s))
    BY DEF Still, Kept
<1>3. Tracked(engine[s])' = Tracked(engine[s])
      /\ Tracked(changes[s].eng)' = Tracked(changes[s].eng)
    BY DEF Still, Tracked
<1>4. ASSUME Kept(s)
      PROVE  appliedSeq[s] + 1 \in 1 .. Len(journal)
    BY <1>4, CoreTypes DEF Kept, PositionInv
<1>5. (Kept(s) => dirtyAlarms[s] \ Excused \subseteq Tracked(engine[s]))'
    BY <1>1, <1>2, <1>3 DEF TrackInv, Still
<1>6. (changes[s].seq # 0 =>
          changes[s].alarms \ Excused \subseteq Tracked(changes[s].eng))'
    BY <1>1, <1>3 DEF TrackInv, Still
<1>7. (Attached(s) =>
           \A a \in Tracked(engine[s]) \ Excused :
               \/ projection.where[a] # Untracked
               \/ /\ Kept(s) /\ a \in dirtyAlarms[s]
                  /\ journal[appliedSeq[s] + 1] = IngestEntry(a)
                  /\ changes[s].seq # 0 => a \in changes[s].alarms)'
    <2> SUFFICES ASSUME Attached(s), NEW a \in Tracked(engine[s]) \ Excused',
                        ~(projection'.where[a] # Untracked)
                 PROVE  /\ Kept(s) /\ a \in dirtyAlarms[s]
                        /\ journal'[appliedSeq[s] + 1] = IngestEntry(a)
                        /\ changes[s].seq # 0 => a \in changes[s].alarms
        BY <1>2, <1>3 DEF Still, IngestEntry
    <2>1. a \in Tracked(engine[s]) \ Excused /\ a \in Alarm
        BY <1>1 DEF Tracked
    <2>2. projection.where[a] = Untracked
        BY <2>1 DEF KeepGrows
    <2>3. /\ Kept(s) /\ a \in dirtyAlarms[s]
          /\ journal[appliedSeq[s] + 1] = IngestEntry(a)
          /\ changes[s].seq # 0 => a \in changes[s].alarms
        BY <1>1, <2>1, <2>2 DEF TrackInv
    <2> QED BY <1>4, <2>3 DEF KeepGrows
<1>8. (~torn /\ Attached(s) => Ingested(appliedSeq[s]) \ Excused \subseteq Tracked(engine[s]))'
    <2>1. PICK n \in Nat : n = appliedSeq[s] /\ n <= Len(journal)
        BY CoreTypes DEF PositionInv
    <2>2. Ingested(n)' = Ingested(n)
        BY <2>1, IngestedStays
    <2>3. Ingested(appliedSeq[s])' = Ingested(appliedSeq[s])
        BY <2>1, <2>2 DEF Still, Ingested
    <2> QED BY <1>1, <1>2, <1>3, <2>3 DEF TrackInv, KeepGrows
<1>9. (\A a \in Alarm \ Excused :
           changes[s].seq # 0 /\ journal[changes[s].seq] = IngestEntry(a)
               => a \in Tracked(engine[s]))'
    <2> SUFFICES ASSUME NEW a \in Alarm \ Excused', changes[s].seq # 0,
                        journal'[changes[s].seq] = IngestEntry(a)
                 PROVE  a \in Tracked(engine[s])
        BY <1>3 DEF Still, IngestEntry
    <2>1. changes[s].seq \in 1 .. Len(journal)
        BY <1>4, CoreTypes DEF PositionInv, Kept
    <2>2. journal[changes[s].seq] = IngestEntry(a)
        BY <2>1 DEF KeepGrows
    <2> QED BY <1>1, <2>2 DEF TrackInv
<1> QED BY <1>5, <1>6, <1>7, <1>8, <1>9 DEF TrackInv

LEMMA KeepStep ==
    ASSUME CoreInv, KeepInv, NEW r \in Replica, KeepGrows, Others(r), TrackInv(r)', RowKept'
    PROVE  KeepInv'
<1>1. \A s \in Replica \ {r} : TrackInv(s)'
    BY KeepOthers, UntouchedStill DEF Others
<1> QED BY <1>1 DEF KeepInv

\* The rows stay complete while the projection does not move.
LEMMA RowKeptStays ==
    ASSUME CoreInv, KeepInv, KeepGrows, projection' = projection
    PROVE  RowKept'
<1>1. PICK n \in Nat : n = projection.seq /\ n <= Len(journal)
    BY DEF CoreInv, StoreInv, GoodRows, Rows
<1>2. Ingested(n)' = Ingested(n)
    BY <1>1, IngestedStays
<1>3. Ingested(projection.seq)' = Ingested(projection.seq)
    BY <1>1, <1>2 DEF Ingested
<1>4. Excused \subseteq Excused'
    BY DEF KeepGrows, Excused
<1> QED BY <1>3, <1>4 DEF RowKept, KeepInv

\* What a projection that commits, with or without its answer, leaves of the rows.
LEMMA ProjectedKeeps ==
    ASSUME CoreInv, KeepInv, NEW r \in Replica, changes[r].seq # 0, Attached(r),
           NEW p, p = Projected(changes[r])
    PROVE  /\ \A a \in Alarm \ Excused : projection.where[a] # Untracked
                                             => p.where[a] # Untracked
           /\ \A a \in Ingested(p.seq) \ Excused : p.where[a] # Untracked
           /\ \A a \in Tracked(engine[r]) \ Excused : p.where[a] # Untracked
           /\ ~torn => Ingested(changes[r].seq) \ Excused \subseteq Tracked(engine[r])
<1>1. PICK c \in Changes : c = changes[r]
    BY CoreTypes DEF ReplicaTypes
<1>2. TrackInv(r) /\ RowKept
    BY DEF KeepInv
<1>3. /\ c.seq \in Nat /\ c.seq = appliedSeq[r] + 1 /\ appliedSeq[r] <= projection.seq
      /\ c.seq <= Len(journal) /\ c.seq \in 1 .. Len(journal) /\ appliedSeq[r] \in Nat
      /\ projection.seq \in Nat /\ projection.seq <= Len(journal) /\ Kept(r)
      /\ Len(journal) \in Nat /\ appliedSeq[r] <= Len(journal)
    BY <1>1, CoreTypes DEF PositionInv, Kept
<1>4. \A a \in c.alarms \ Excused : c.eng.where[a] # Untracked /\ a \in Alarm
    BY <1>1, <1>2 DEF TrackInv, Tracked
<1>5. ASSUME Advances(c.seq)
      PROVE  /\ p.seq = c.seq
             /\ \A a \in Alarm : p.where[a] = IF a \in c.alarms THEN c.eng.where[a]
                                              ELSE projection.where[a]
    BY <1>1, <1>5 DEF Projected
<1>6. ASSUME ~Advances(c.seq)
      PROVE  p = projection /\ projection.seq >= c.seq
    BY <1>1, <1>3, <1>6 DEF Projected, Advances
<1>7. \A a \in Alarm \ Excused : projection.where[a] # Untracked => p.where[a] # Untracked
    BY <1>4, <1>5, <1>6
<1>8. ASSUME NEW a \in Tracked(engine[r]) \ Excused PROVE p.where[a] # Untracked
    <2>1. a \in Alarm
        BY DEF Tracked
    <2>2. CASE projection.where[a] # Untracked
        BY <1>7, <2>1, <2>2
    <2>3. CASE projection.where[a] = Untracked
        <3>1. a \in c.alarms /\ journal[c.seq] = IngestEntry(a)
            BY <1>1, <1>2, <1>3, <2>3 DEF TrackInv
        <3>2. CASE Advances(c.seq)
            BY <1>4, <1>5, <2>1, <3>1, <3>2
        <3>3. CASE ~Advances(c.seq)
            <4>1. c.seq \in 1 .. projection.seq
                BY <1>3, <1>6, <3>3
            <4>2. a \in Ingested(projection.seq)
                BY <1>3, <3>1, <4>1, IngestedFacts
            <4> QED BY <1>2, <1>6, <3>3, <4>2 DEF RowKept
        <3> QED BY <3>2, <3>3
    <2> QED BY <2>2, <2>3
<1>9. ASSUME NEW a \in Ingested(c.seq) \ Excused
      PROVE  a \in Ingested(appliedSeq[r]) \/ (journal[c.seq] = IngestEntry(a) /\ a \in Tracked(engine[r]))
    <2>1. PICK i \in 1 .. c.seq : journal[i] = IngestEntry(a)
        BY <1>3, IngestedFacts
    <2>2. a \in Alarm
        BY <1>3, IngestedFacts
    <2>3. CASE i = c.seq
        <3>1. journal[changes[r].seq] = IngestEntry(a) /\ a \in Alarm \ Excused
            BY <1>1, <2>1, <2>2, <2>3
        <3> QED BY <1>1, <1>2, <3>1 DEF TrackInv
    <2>4. CASE i # c.seq
        <3>1. i \in 1 .. appliedSeq[r]
            BY <1>3, <2>4
        <3> QED BY <1>3, <2>1, <3>1, IngestedFacts
    <2> QED BY <2>3, <2>4
<1>10. ASSUME NEW a \in Ingested(p.seq) \ Excused PROVE p.where[a] # Untracked
    <2>1. CASE ~Advances(c.seq)
        BY <1>2, <1>6, <1>10, <2>1 DEF RowKept
    <2>2. CASE Advances(c.seq)
        <3>1. a \in Ingested(c.seq) \ Excused
            BY <1>5, <1>10, <2>2
        <3>2. CASE a \in Tracked(engine[r])
            BY <1>8, <3>1, <3>2
        <3>3. CASE a \in Ingested(appliedSeq[r])
            <4>1. PICK i \in 1 .. appliedSeq[r] : journal[i] = IngestEntry(a)
                BY <1>3, <3>3, IngestedFacts
            <4>2. i \in 1 .. projection.seq
                BY <1>3
            <4>3. a \in Ingested(projection.seq) /\ a \in Alarm
                BY <1>3, <4>1, <4>2, IngestedFacts
            <4> QED BY <1>2, <1>7, <3>1, <4>3 DEF RowKept
        <3> QED BY <1>9, <3>1, <3>2, <3>3
    <2> QED BY <2>1, <2>2
<1>11. ~torn => Ingested(changes[r].seq) \ Excused \subseteq Tracked(engine[r])
    <2> SUFFICES ASSUME ~torn, NEW a \in Ingested(c.seq) \ Excused
                 PROVE  a \in Tracked(engine[r])
        BY <1>1
    <2> QED BY <1>2, <1>9 DEF TrackInv
<1> QED BY <1>7, <1>8, <1>10, <1>11

\* Applying an entry marks every alarm it starts to track.
LEMMA AppliedKeeps ==
    ASSUME CoreInv, NEW r \in Replica, NEW seq \in 1 .. Len(journal), NEW eff, NEW old, NEW pol,
           Applied(r, seq, eff, old, pol), AppliedTo(r, seq, eff, pol),
           journal' = journal, fellBack' = fellBack, torn' = torn,
           appliedSeq'[r] + 1 = seq, appliedSeq'[r] \in Nat,
           unprojectedSeq[r] = seq => dirtyAlarms[r] \ Excused \subseteq Tracked(engine[r]),
           \A a \in Tracked(engine[r]) \ Excused :
               \/ projection'.where[a] # Untracked
               \/ unprojectedSeq[r] = seq /\ a \in dirtyAlarms[r] /\ journal[seq] = IngestEntry(a),
           ~torn => Ingested(appliedSeq'[r]) \ Excused \subseteq Tracked(engine[r])
    PROVE  TrackInv(r)'
<1>1. Excused' = Excused \cup old
    BY DEF Applied, Excused
<1>2. /\ Tracked(engine[r]) \ old \subseteq Tracked(eff.eng)
      /\ eff.alarms \ old \subseteq Tracked(eff.eng)
    BY DEF Applied, Announced
<1>3. /\ engine'[r] = eff.eng /\ changes'[r].eng = eff.eng /\ changes'[r].seq = seq
      /\ changes'[r].alarms = dirtyAlarms'[r]
      /\ dirtyAlarms'[r] = eff.alarms \cup IF unprojectedSeq[r] = seq THEN dirtyAlarms[r] ELSE {}
    BY DEF AppliedTo
<1>4. seq \in Nat /\ seq # 0 /\ journal[seq] \in Operation
    BY EntryIsOperation
<1>5. dirtyAlarms'[r] \ Excused' \subseteq Tracked(eff.eng)
    BY <1>1, <1>2, <1>3
<1>6. Kept(r)' /\ Tracked(engine[r])' = Tracked(eff.eng)
      /\ Tracked(changes[r].eng)' = Tracked(eff.eng)
    BY <1>3, <1>4 DEF Kept, Tracked
<1>7. ASSUME NEW a \in Tracked(eff.eng) \ Excused'
      PROVE  \/ projection'.where[a] # Untracked
             \/ a \in dirtyAlarms'[r] /\ journal'[seq] = IngestEntry(a)
    <2>1. a \in Alarm /\ a \notin Excused
        BY <1>1 DEF Tracked
    <2>2. CASE a \in Tracked(engine[r])
        BY <1>3, <2>1, <2>2
    <2>3. CASE a \notin Tracked(engine[r])
        <3>1. journal[seq].op = "ingest" /\ journal[seq].alarm = a
            BY <2>3 DEF Applied
        <3>2. IngestSound(engine[r], a, eff)
            BY <3>1 DEF Applied
        <3>3. a \in eff.alarms
            BY <2>3, <3>2 DEF IngestSound
        <3>4. PICK op \in Operation : op = journal[seq]
            BY <1>4
        <3>5. op = IngestEntry(a)
            BY <3>1, <3>4 DEF Operation, IngestEntry
        <3> QED BY <1>3, <3>3, <3>4, <3>5
    <2> QED BY <2>2, <2>3
<1>8. ASSUME ~torn PROVE Ingested(appliedSeq[r])' \ Excused' \subseteq Tracked(eff.eng)
    <2>1. Ingested(appliedSeq[r])' = Ingested(appliedSeq'[r])
        BY DEF Ingested
    <2> QED BY <1>1, <1>2, <1>8, <2>1
<1>9. ASSUME NEW a \in Alarm \ Excused', journal'[seq] = IngestEntry(a)
      PROVE  a \in Tracked(eff.eng)
    <2>1. journal[seq].op = "ingest" /\ journal[seq].alarm = a
        BY <1>9 DEF IngestEntry
    <2>2. IngestSound(engine[r], a, eff)
        BY <2>1 DEF Applied
    <2> QED BY <2>2 DEF IngestSound
<1>10. (Kept(r) => dirtyAlarms[r] \ Excused \subseteq Tracked(engine[r]))'
    BY <1>5, <1>6
<1>11. (changes[r].seq # 0 => changes[r].alarms \ Excused \subseteq Tracked(changes[r].eng))'
    BY <1>3, <1>5, <1>6
<1>12. (Attached(r) =>
           \A a \in Tracked(engine[r]) \ Excused :
               \/ projection.where[a] # Untracked
               \/ /\ Kept(r) /\ a \in dirtyAlarms[r]
                  /\ journal[appliedSeq[r] + 1] = IngestEntry(a)
                  /\ changes[r].seq # 0 => a \in changes[r].alarms)'
    BY <1>3, <1>6, <1>7 DEF IngestEntry
<1>13. (~torn /\ Attached(r) => Ingested(appliedSeq[r]) \ Excused \subseteq Tracked(engine[r]))'
    BY <1>6, <1>8
<1>14. (\A a \in Alarm \ Excused :
           changes[r].seq # 0 /\ journal[changes[r].seq] = IngestEntry(a)
               => a \in Tracked(engine[r]))'
    BY <1>3, <1>6, <1>9 DEF IngestEntry
<1> QED BY <1>10, <1>11, <1>12, <1>13, <1>14 DEF TrackInv

\* An action of one replica leaves the others' memory alone.
LEMMA StepOthers ==
    ASSUME CoreInv, NEW r \in Replica,
           \/ ReplicaStep(r)
           \/ \E op \in Operations[r] : Submit(r, op) \/ SubmitFails(r, op)
           \/ ReadFails(r) \/ ProjectFails(r)
           \/ Crash(r) \/ LoadState(r) \/ LoadFails(r)
    PROVE  Others(r)
<1> SUFFICES ASSUME NEW s \in Replica \ {r} PROVE Untouched(s)
    BY DEF Others
<1>1. ReplicaTypes
    BY CoreTypes
<1> USE DEF Untouched, ReplicaTypes, Set, storeVars, replicaVars, dirtyVars, drainVars,
            boundVars, historyVars
<1>2. CASE Poll(r) \/ \E op \in Operations[r] : Submit(r, op)
    BY <1>1, <1>2 DEF Poll, Submit
<1>3. CASE ReadNothing(r)
    BY <1>1, <1>3 DEF ReadNothing, MarkHealthy
<1>4. ASSUME NEW seq, ApplyEntry(r, seq)
      PROVE  /\ engine'[s] = engine[s] /\ dirtyGroups'[s] = dirtyGroups[s]
             /\ dirtyAlarms'[s] = dirtyAlarms[s] /\ changes'[s] = changes[s]
             /\ policyIntent'[s] = policyIntent[s]
    <2>1. CASE ApplyAlarmOp(r, seq)
        BY <1>1, <2>1 DEF ApplyAlarmOp, TakeChanges
    <2>2. CASE ApplySweep(r, seq)
        BY <1>1, <2>2 DEF ApplySweep, TakeChanges
    <2>3. CASE ApplyPolicy(r, seq)
        BY <1>1, <2>3 DEF ApplyPolicy, TakeChanges
    <2> QED BY <1>4, <2>1, <2>2, <2>3 DEF ApplyEntry
<1>5. CASE ReadPage(r)
    BY <1>1, <1>4, <1>5 DEF ReadPage
<1>6. CASE ProjectThenApply(r)
    BY <1>1, <1>4, <1>6 DEF ProjectThenApply, Commit
<1>7. CASE ProjectLast(r)
    BY <1>1, <1>7 DEF ProjectLast, Commit, MarkHealthy
<1>8. CASE LoadGroups(r) \/ LoadAlarms(r)
    BY <1>1, <1>8 DEF LoadGroups, LoadAlarms
<1>9. ASSUME NEW call, FallBack(r, call)
      PROVE  /\ engine'[s] = engine[s] /\ dirtyGroups'[s] = dirtyGroups[s]
             /\ dirtyAlarms'[s] = dirtyAlarms[s] /\ healthy'[s] = healthy[s]
    BY <1>1, <1>9 DEF FallBack, Touch
<1>10. CASE \E op \in Operations[r] : SubmitFails(r, op)
    BY <1>1, <1>9, <1>10 DEF SubmitFails
<1>11. CASE ReadFails(r)
    BY <1>1, <1>9, <1>11 DEF ReadFails, DrainThrows
<1>12. CASE ProjectFails(r)
    BY <1>1, <1>9, <1>12 DEF ProjectFails, DrainThrows
<1>13. CASE Crash(r) \/ LoadState(r) \/ LoadFails(r)
    BY <1>1, <1>13 DEF Crash, LoadState, LoadFails
<1> QED BY <1>2, <1>3, <1>5, <1>6, <1>7, <1>8, <1>10, <1>11, <1>12, <1>13 DEF ReplicaStep

LEMMA FellBackKeeps ==
    ASSUME CoreInv, KeepInv, KeepGrows, NEW r \in Replica, Attached(r),
           NEW call \in Call, NEW eff, FellBack(r, call, eff),
           fellBack' = fellBack \cup ({call.alarm} \cap Alarm), torn' = torn,
           appliedSeq'[r] = appliedSeq[r], changes'[r] \in {changes[r], NoChanges},
           Kept(r)' <=> Kept(r)
    PROVE  TrackInv(r)'
<1>1. TrackInv(r) /\ Excused \subseteq Excused' /\ {call.alarm} \cap Alarm \subseteq Excused'
    BY DEF KeepInv, KeepGrows, Excused
<1>2. /\ Tracked(engine[r]) \subseteq Tracked(eff.eng) /\ eff.alarms \subseteq Tracked(eff.eng)
      /\ Tracked(eff.eng) \subseteq Tracked(engine[r]) \cup ({call.alarm} \cap Alarm)
    BY DEF FellBack, Announced
<1>3. /\ engine'[r] = eff.eng
      /\ dirtyAlarms'[r] = IF Kept(r) THEN dirtyAlarms[r] \cup eff.alarms ELSE {}
    BY CoreTypes DEF FellBack, Touch, Kept, Set, ReplicaTypes
<1>4. Tracked(engine[r])' = Tracked(eff.eng)
    BY <1>3 DEF Tracked
<1>5. NoChanges.seq = 0
    BY DEF NoChanges
<1>6. Kept(r) => appliedSeq[r] + 1 \in 1 .. Len(journal)
    BY CoreTypes DEF Kept, PositionInv
<1>7. (Kept(r) => dirtyAlarms[r] \ Excused \subseteq Tracked(engine[r]))'
    BY <1>1, <1>2, <1>3, <1>4 DEF TrackInv
<1>8. (changes[r].seq # 0 => changes[r].alarms \ Excused \subseteq Tracked(changes[r].eng))'
    BY <1>1, <1>5 DEF TrackInv, Tracked
<1>9. (Attached(r) =>
           \A a \in Tracked(engine[r]) \ Excused :
               \/ projection.where[a] # Untracked
               \/ /\ Kept(r) /\ a \in dirtyAlarms[r]
                  /\ journal[appliedSeq[r] + 1] = IngestEntry(a)
                  /\ changes[r].seq # 0 => a \in changes[r].alarms)'
    <2> SUFFICES ASSUME NEW a \in Tracked(eff.eng) \ Excused',
                        ~(projection'.where[a] # Untracked)
                 PROVE  /\ Kept(r) /\ a \in dirtyAlarms'[r]
                        /\ journal'[appliedSeq[r] + 1] = IngestEntry(a)
                        /\ changes'[r].seq # 0 => a \in changes'[r].alarms
        BY <1>4 DEF IngestEntry
    <2>1. a \in Tracked(engine[r]) \ Excused /\ a \in Alarm
        BY <1>1, <1>2 DEF Tracked
    <2>2. projection.where[a] = Untracked
        BY <2>1 DEF KeepGrows
    <2>3. /\ Kept(r) /\ a \in dirtyAlarms[r]
          /\ journal[appliedSeq[r] + 1] = IngestEntry(a)
          /\ changes[r].seq # 0 => a \in changes[r].alarms
        BY <1>1, <2>1, <2>2 DEF TrackInv
    <2> QED BY <1>3, <1>5, <1>6, <2>3 DEF KeepGrows
<1>10. (~torn /\ Attached(r) => Ingested(appliedSeq[r]) \ Excused \subseteq Tracked(engine[r]))'
    <2>1. PICK n \in Nat : n = appliedSeq[r] /\ n <= Len(journal)
        BY CoreTypes DEF PositionInv
    <2>2. Ingested(n)' = Ingested(n)
        BY <2>1, IngestedStays
    <2>3. Ingested(appliedSeq[r])' = Ingested(appliedSeq[r])
        BY <2>1, <2>2 DEF Ingested
    <2> QED BY <1>1, <1>2, <1>4, <2>3 DEF TrackInv
<1>11. (\A a \in Alarm \ Excused :
           changes[r].seq # 0 /\ journal[changes[r].seq] = IngestEntry(a)
               => a \in Tracked(engine[r]))'
    <2> SUFFICES ASSUME NEW a \in Alarm \ Excused', changes'[r].seq # 0,
                        journal'[changes'[r].seq] = IngestEntry(a)
                 PROVE  a \in Tracked(eff.eng)
        BY <1>4 DEF IngestEntry
    <2>1. changes'[r] = changes[r] /\ changes[r].seq # 0
        BY <1>5
    <2>2. changes[r].seq \in 1 .. Len(journal)
        BY <1>6, <2>1, CoreTypes DEF PositionInv, Kept
    <2>3. journal[changes[r].seq] = IngestEntry(a)
        BY <2>1, <2>2 DEF KeepGrows
    <2> QED BY <1>1, <1>2, <2>1, <2>3 DEF TrackInv
<1> QED BY <1>7, <1>8, <1>9, <1>10, <1>11 DEF TrackInv

LEMMA InitKeep == Init => KeepInv
<1> SUFFICES ASSUME Init PROVE KeepInv
    OBVIOUS
<1>1. Ingested(0) = {}
    BY DEF Ingested
<1>2. NoRows.seq = 0 /\ NoChanges.seq = 0
    BY DEF NoRows, NoChanges
<1>3. RowKept
    BY <1>1, <1>2 DEF RowKept, Init
<1>4. ASSUME NEW r \in Replica PROVE TrackInv(r)
    <2>1. PICK e : e = [EmptyEngine EXCEPT !.enabled = TRUE]
        OBVIOUS
    <2>2. EmptyEngine \in Engine
        BY EmptyGood DEF GoodEngine
    <2>3. e.where = EmptyEngine.where
        BY <2>1, <2>2 DEF Engine
    <2>4. engine[r] = e
        BY <2>1 DEF Init
    <2>5. Tracked(engine[r]) = {}
        BY <2>3, <2>4 DEF EmptyEngine, Tracked
    <2>6. ~Kept(r) /\ changes[r].seq = 0 /\ appliedSeq[r] = 0
        BY <1>2 DEF Init, Kept
    <2> QED BY <1>1, <2>5, <2>6 DEF TrackInv
<1> QED BY <1>3, <1>4 DEF KeepInv

\* Actions that leave the projection and the acting replica's engine alone.
LEMMA StillKeeps ==
    ASSUME CoreInv, KeepInv, KeepGrows, NEW r \in Replica, Others(r), Still(r),
           projection' = projection
    PROVE  KeepInv'
BY KeepOthers, RowKeptStays, KeepStep

LEMMA SubmitKeep ==
    ASSUME CoreInv, KeepInv, NEW r \in Replica, Others(r), NEW op \in Operation, Submit(r, op)
    PROVE  KeepInv'
<1>1. \A i \in 1 .. Len(journal) : Appended(op)[i] = journal[i]
    BY AppendedFacts
<1>2. KeepGrows
    BY <1>1 DEF Submit, KeepGrows, historyVars, Excused
<1>3. Still(r) /\ projection' = projection
    BY DEF Submit, Still, replicaVars, dirtyVars, Attached
<1> QED BY <1>2, <1>3, StillKeeps

LEMMA PollKeep ==
    ASSUME CoreInv, KeepInv, NEW r \in Replica, Others(r), Poll(r)
    PROVE  KeepInv'
<1>1. KeepGrows
    BY DEF Poll, KeepGrows, historyVars, storeVars, Excused
<1>2. Still(r) /\ projection' = projection
    BY DEF Poll, Still, replicaVars, dirtyVars, storeVars, Attached
<1> QED BY <1>1, <1>2, StillKeeps

LEMMA LoadKeep ==
    ASSUME CoreInv, KeepInv, NEW r \in Replica, Others(r),
           LoadState(r) \/ LoadGroups(r) \/ LoadFails(r)
    PROVE  KeepInv'
<1>1. KeepGrows
    <2>1. torn => torn'
        <3>1. CASE LoadGroups(r)
            BY <3>1 DEF LoadGroups
        <3>2. CASE LoadState(r) \/ LoadFails(r)
            BY <3>2 DEF LoadState, LoadFails, historyVars
        <3> QED BY <3>1, <3>2
    <2>2. /\ journal' = journal /\ projection' = projection
          /\ fellBack' = fellBack /\ forgotten' = forgotten
        BY DEF LoadState, LoadGroups, LoadFails, historyVars, storeVars
    <2> QED BY <2>1, <2>2 DEF KeepGrows, Excused
<1>2. mode \in [Replica -> Mode]
    BY CoreTypes DEF ReplicaTypes
<1>3. Still(r) /\ projection' = projection
    BY <1>2 DEF LoadState, LoadGroups, LoadFails, Still, dirtyVars, storeVars, drainVars, Attached, Set
<1> QED BY <1>1, <1>3, StillKeeps

LEMMA ReadNothingKeep ==
    ASSUME CoreInv, KeepInv, NEW r \in Replica, Others(r), ReadNothing(r)
    PROVE  KeepInv'
<1>1. KeepGrows
    BY DEF ReadNothing, KeepGrows, historyVars, storeVars, Excused
<1>2. Attached(r) /\ MarkHealthy(r, engine[r])
    BY DEF ReadNothing, Reading, Draining, Attached
<1>3. Same(engine'[r], engine[r])
    BY <1>2, MarkHealthyFacts
<1>4. Tracked(engine[r])' = Tracked(engine[r])
    <2>1. Tracked(engine'[r]) = Tracked(engine[r])
        BY <1>3, SameBasics
    <2> QED BY <2>1 DEF Tracked
<1>5. Kept(r)' <=> Kept(r)
    BY DEF ReadNothing, dirtyVars, Kept
<1>6. TrackInv(r)'
    BY <1>2, <1>4, <1>5
    DEF KeepInv, TrackInv, ReadNothing, dirtyVars, storeVars, historyVars, Excused, Ingested,
        IngestEntry, Tracked
<1>7. RowKept'
    BY <1>1, RowKeptStays DEF ReadNothing, storeVars
<1> QED BY <1>1, <1>6, <1>7, KeepStep

LEMMA ReadPageKeep ==
    ASSUME CoreInv, KeepInv, NEW r \in Replica, Others(r), ReadPage(r)
    PROVE  KeepInv'
<1>1. /\ Attached(r) /\ pageEnd[r] = 0 /\ appliedSeq[r] < Len(journal)
      /\ changes[r].seq = 0 /\ appliedSeq[r] \in Nat
    BY CoreTypes DEF ReadPage, Reading, Draining, Attached, PositionInv
<1>2. PICK seq \in 1 .. Len(journal) : seq = appliedSeq[r] + 1 /\ seq \in Nat \ {0}
    BY <1>1, CoreTypes
<1>3. PICK eff, old, pol : Applied(r, seq, eff, old, pol)
    BY <1>1, <1>2, ApplyFacts DEF ReadPage
<1>4. AppliedTo(r, seq, eff, pol)
    BY <1>2, <1>3, AppliedFacts
<1>5. /\ journal' = journal /\ projection' = projection /\ fellBack' = fellBack
      /\ torn' = torn /\ appliedSeq' = appliedSeq /\ forgotten' = forgotten \cup old
    BY <1>3 DEF ReadPage, storeVars, Applied
<1>6. KeepGrows
    BY <1>5 DEF KeepGrows, Excused
<1>7. Kept(r) => unprojectedSeq[r] = seq
    BY <1>1, <1>2, CoreTypes DEF Kept, PositionInv
<1>8. unprojectedSeq[r] = seq => Kept(r)
    BY <1>2 DEF Kept
<1>9. TrackInv(r)
    BY DEF KeepInv
<1>10. unprojectedSeq[r] = seq => dirtyAlarms[r] \ Excused \subseteq Tracked(engine[r])
    BY <1>8, <1>9 DEF TrackInv
<1>11. \A a \in Tracked(engine[r]) \ Excused :
               \/ projection'.where[a] # Untracked
               \/ unprojectedSeq[r] = seq /\ a \in dirtyAlarms[r] /\ journal[seq] = IngestEntry(a)
    BY <1>1, <1>2, <1>5, <1>7, <1>9 DEF TrackInv
<1>12. ~torn => Ingested(appliedSeq'[r]) \ Excused \subseteq Tracked(engine[r])
    BY <1>1, <1>5, <1>9 DEF TrackInv
<1>13. TrackInv(r)'
    BY <1>1, <1>2, <1>3, <1>4, <1>5, <1>10, <1>11, <1>12, AppliedKeeps
<1>14. RowKept'
    BY <1>5, <1>6, RowKeptStays
<1> QED BY <1>6, <1>13, <1>14, KeepStep

LEMMA ProjectThenApplyKeep ==
    ASSUME CoreInv, KeepInv, NEW r \in Replica, Others(r), ProjectThenApply(r)
    PROVE  KeepInv'
<1>1. /\ Attached(r) /\ changes[r].seq # 0 /\ changes[r].seq < pageEnd[r]
      /\ projection' = Projected(changes[r])
      /\ appliedSeq' = Set(appliedSeq, r, changes[r].seq)
    BY DEF ProjectThenApply, Commit, Draining, Attached
<1>2. PICK seq \in 1 .. Len(journal) : seq = changes[r].seq + 1 /\ seq \in Nat \ {0}
    BY <1>1, CoreTypes DEF PositionInv
<1>3. PICK eff, old, pol : Applied(r, seq, eff, old, pol)
    BY <1>1, <1>2, ApplyFacts DEF ProjectThenApply
<1>4. AppliedTo(r, seq, eff, pol)
    BY <1>2, <1>3, AppliedFacts
<1>5. /\ journal' = journal /\ fellBack' = fellBack
      /\ torn' = torn /\ forgotten' = forgotten \cup old
    BY <1>3 DEF ProjectThenApply, Applied
<1>6. appliedSeq'[r] = changes[r].seq /\ changes[r].seq \in Nat
    BY <1>1, CoreTypes DEF Set, ReplicaTypes
<1>7. unprojectedSeq[r] # seq
    BY <1>1, <1>2, CoreTypes DEF PositionInv
<1>8. /\ \A a \in Alarm \ Excused : projection.where[a] # Untracked
                                        => projection'.where[a] # Untracked
      /\ \A a \in Ingested(projection'.seq) \ Excused : projection'.where[a] # Untracked
      /\ \A a \in Tracked(engine[r]) \ Excused : projection'.where[a] # Untracked
      /\ ~torn => Ingested(changes[r].seq) \ Excused \subseteq Tracked(engine[r])
    BY <1>1, ProjectedKeeps
<1>9. Excused \subseteq Excused'
    BY <1>5 DEF Excused
<1>10. KeepGrows
    BY <1>5, <1>8, <1>9 DEF KeepGrows
<1>11. TrackInv(r)'
    BY <1>2, <1>3, <1>4, <1>5, <1>6, <1>7, <1>8, AppliedKeeps
<1>12. RowKept'
    <2>1. Ingested(projection.seq)' = Ingested(projection'.seq)
        BY <1>5 DEF Ingested
    <2> QED BY <1>8, <1>9, <2>1 DEF RowKept
<1> QED BY <1>10, <1>11, <1>12, KeepStep

LEMMA ProjectLastKeep ==
    ASSUME CoreInv, KeepInv, NEW r \in Replica, Others(r), ProjectLast(r)
    PROVE  KeepInv'
<1>1. /\ Attached(r) /\ changes[r].seq # 0
      /\ projection' = Projected(changes[r])
      /\ appliedSeq' = Set(appliedSeq, r, changes[r].seq)
      /\ unprojectedSeq' = Set(unprojectedSeq, r, 0)
      /\ changes' = Set(changes, r, NoChanges)
      /\ MarkHealthy(r, engine[r])
    BY DEF ProjectLast, Commit, Draining, Attached
<1>2. /\ journal' = journal /\ fellBack' = fellBack
      /\ torn' = torn /\ forgotten' = forgotten /\ Excused' = Excused
    BY DEF ProjectLast, historyVars, Excused
<1>3. /\ appliedSeq'[r] = changes[r].seq /\ changes'[r].seq = 0 /\ unprojectedSeq'[r] = 0
    BY <1>1, NoChangesFacts, CoreTypes DEF Set, ReplicaTypes
<1>4. ~Kept(r)'
    BY <1>3 DEF Kept
<1>5. /\ \A a \in Alarm \ Excused : projection.where[a] # Untracked
                                        => projection'.where[a] # Untracked
      /\ \A a \in Ingested(projection'.seq) \ Excused : projection'.where[a] # Untracked
      /\ \A a \in Tracked(engine[r]) \ Excused : projection'.where[a] # Untracked
      /\ ~torn => Ingested(changes[r].seq) \ Excused \subseteq Tracked(engine[r])
    BY <1>1, ProjectedKeeps
<1>6. KeepGrows
    BY <1>2, <1>5 DEF KeepGrows
<1>7. Tracked(engine[r])' = Tracked(engine[r])
    <2>1. Same(engine'[r], engine[r])
        BY <1>1, MarkHealthyFacts
    <2>2. Tracked(engine'[r]) = Tracked(engine[r])
        BY <2>1, SameBasics
    <2> QED BY <2>2 DEF Tracked
<1>8. Ingested(projection.seq)' = Ingested(projection'.seq)
      /\ Ingested(appliedSeq[r])' = Ingested(changes[r].seq)
    BY <1>2, <1>3 DEF Ingested
<1>9. TrackInv(r)'
    BY <1>2, <1>3, <1>4, <1>5, <1>7, <1>8 DEF TrackInv
<1>10. RowKept'
    BY <1>2, <1>5, <1>8 DEF RowKept
<1> QED BY <1>6, <1>9, <1>10, KeepStep

LEMMA SubmitFailsKeep ==
    ASSUME CoreInv, KeepInv, NEW r \in Replica, Others(r), NEW op \in Operation,
           SubmitFails(r, op)
    PROVE  KeepInv'
<1>1. op \in Call /\ FallBack(r, op) /\ Attached(r)
    BY DEF Call, SubmitFails, Attached
<1>2. PICK eff : FellBack(r, op, eff)
    BY <1>1, FallBackFacts
<1>3. fellBack' = fellBack \cup ({op.alarm} \cap Alarm)
    BY <1>1, FallBackFacts
<1>4. /\ projection' = projection /\ forgotten' = forgotten /\ torn' = torn
      /\ appliedSeq' = appliedSeq /\ changes' = changes /\ unprojectedSeq' = unprojectedSeq
      /\ journal' \in {journal, Appended(op)}
    BY DEF SubmitFails, drainVars
<1>5. KeepGrows
    <2>1. \A i \in 1 .. Len(journal) : Appended(op)[i] = journal[i]
        BY AppendedFacts
    <2> QED BY <1>3, <1>4, <2>1 DEF KeepGrows
<1>6. (Kept(r)' <=> Kept(r)) /\ changes'[r] \in {changes[r], NoChanges}
      /\ appliedSeq'[r] = appliedSeq[r]
    BY <1>4 DEF Kept
<1>7. TrackInv(r)'
    BY <1>1, <1>2, <1>3, <1>4, <1>5, <1>6, FellBackKeeps
<1>8. RowKept'
    BY <1>4, <1>5, RowKeptStays
<1> QED BY <1>5, <1>7, <1>8, KeepStep

\* The throwing caller of drain() and what it leaves.
LEMMA ThrowFacts ==
    ASSUME CoreInv, NEW r \in Replica, Draining(r), DrainThrows(r)
    PROVE  /\ Attached(r) /\ changes'[r] = NoChanges
           /\ \E call, eff :
                  /\ call \in Call /\ FellBack(r, call, eff)
                  /\ fellBack' = fellBack \cup ({call.alarm} \cap Alarm)
<1>1. /\ Attached(r) /\ pumps[r] # <<>> /\ FallBack(r, Head(pumps[r]))
      /\ changes' = Set(changes, r, NoChanges)
    BY DEF DrainThrows, Draining, Attached
<1>2. PICK call \in Call : call = Head(pumps[r])
    BY <1>1, CoreTypes DEF ReplicaTypes
<1>3. /\ \E eff : FellBack(r, call, eff)
      /\ fellBack' = fellBack \cup ({call.alarm} \cap Alarm)
    BY <1>1, <1>2, FallBackFacts
<1>4. changes'[r] = NoChanges
    BY <1>1, CoreTypes DEF Set, ReplicaTypes
<1> QED BY <1>1, <1>3, <1>4

LEMMA ReadFailsKeep ==
    ASSUME CoreInv, KeepInv, NEW r \in Replica, Others(r), ReadFails(r)
    PROVE  KeepInv'
<1>1. Draining(r) /\ DrainThrows(r)
    BY DEF ReadFails, Reading
<1>2. Attached(r) /\ changes'[r] = NoChanges
    BY <1>1, ThrowFacts
<1>3. PICK call, eff : /\ call \in Call /\ FellBack(r, call, eff)
                       /\ fellBack' = fellBack \cup ({call.alarm} \cap Alarm)
    BY <1>1, ThrowFacts
<1>4. /\ projection' = projection /\ forgotten' = forgotten /\ torn' = torn
      /\ appliedSeq'[r] = appliedSeq[r] /\ unprojectedSeq'[r] = unprojectedSeq[r]
      /\ journal' = journal
    BY DEF ReadFails, storeVars
<1>5. KeepGrows
    BY <1>3, <1>4 DEF KeepGrows
<1>6. changes[r].seq = 0
    BY CoreTypes DEF ReadFails, Reading, PositionInv
<1>7. Kept(r)' <=> Kept(r)
    BY <1>2, <1>4, <1>6, NoChangesFacts DEF Kept
<1>8. TrackInv(r)'
    BY <1>2, <1>3, <1>4, <1>5, <1>7, FellBackKeeps
<1>9. RowKept'
    BY <1>4, <1>5, RowKeptStays
<1> QED BY <1>5, <1>8, <1>9, KeepStep

LEMMA ProjectFailsKeep ==
    ASSUME CoreInv, KeepInv, NEW r \in Replica, Others(r), ProjectFails(r)
    PROVE  KeepInv'
<1>1. Draining(r) /\ DrainThrows(r) /\ changes[r].seq # 0
    BY DEF ProjectFails
<1>2. Attached(r) /\ changes'[r] = NoChanges
    BY <1>1, ThrowFacts
<1>3. PICK call, eff : /\ call \in Call /\ FellBack(r, call, eff)
                       /\ fellBack' = fellBack \cup ({call.alarm} \cap Alarm)
    BY <1>1, ThrowFacts
<1>4. /\ projection' \in {projection, Projected(changes[r])} /\ forgotten' = forgotten
      /\ torn' = torn /\ appliedSeq'[r] = appliedSeq[r] /\ journal' = journal
      /\ unprojectedSeq' = Set(unprojectedSeq, r, changes[r].seq)
    BY DEF ProjectFails
<1>5. /\ \A a \in Alarm \ Excused : projection.where[a] # Untracked
                                        => projection'.where[a] # Untracked
      /\ \A a \in Ingested(projection'.seq) \ Excused : projection'.where[a] # Untracked
    <2>1. CASE projection' = Projected(changes[r])
        BY <1>1, <1>2, <2>1, ProjectedKeeps
    <2>2. CASE projection' = projection
        BY <2>2 DEF KeepInv, RowKept
    <2> QED BY <1>4, <2>1, <2>2
<1>6. Excused \subseteq Excused'
    BY <1>3, <1>4 DEF Excused
<1>7. KeepGrows
    BY <1>3, <1>4, <1>5, <1>6 DEF KeepGrows
<1>8. Kept(r)' /\ Kept(r)
    <2>1. unprojectedSeq'[r] = changes[r].seq
        BY <1>4, CoreTypes DEF Set, ReplicaTypes
    <2> QED BY <1>1, <2>1 DEF Kept
<1>9. TrackInv(r)'
    BY <1>2, <1>3, <1>4, <1>7, <1>8, FellBackKeeps
<1>10. RowKept'
    <2>1. Ingested(projection.seq)' = Ingested(projection'.seq)
        BY <1>4 DEF Ingested
    <2> QED BY <1>5, <1>6, <2>1 DEF RowKept
<1> QED BY <1>7, <1>9, <1>10, KeepStep

LEMMA CrashKeep ==
    ASSUME CoreInv, KeepInv, NEW r \in Replica, Others(r), Crash(r)
    PROVE  KeepInv'
<1>1. KeepGrows /\ projection' = projection
    BY DEF Crash, KeepGrows, storeVars, historyVars, Excused
<1>2. /\ mode'[r] = "down" /\ unprojectedSeq'[r] = 0 /\ changes'[r].seq = 0
    BY NoChangesFacts, CoreTypes DEF Crash, Set, ReplicaTypes
<1>3. ~Kept(r)' /\ ~Attached(r)'
    BY <1>2 DEF Kept, Attached
<1>4. TrackInv(r)'
    BY <1>2, <1>3 DEF TrackInv
<1> QED BY <1>1, <1>4, RowKeptStays, KeepStep

LEMMA LoadAlarmsKeep ==
    ASSUME CoreInv, KeepInv, NEW r \in Replica, Others(r), LoadAlarms(r)
    PROVE  KeepInv'
<1>1. PICK h, x : /\ HydratedTo(loaded[r], projection, h) /\ PolicyTo(h, loaded[r].intent, x)
                  /\ engine' = Set(engine, r, x)
    BY LoadAlarmsFacts
<1>2. /\ projection' = projection /\ journal' = journal /\ fellBack' = fellBack
      /\ forgotten' = forgotten /\ Excused' = Excused /\ changes' = changes
      /\ appliedSeq' = Set(appliedSeq, r, loaded[r].seq)
      /\ unprojectedSeq' = Set(unprojectedSeq, r, 0)
    BY DEF LoadAlarms, storeVars, Excused
<1>3. (torn => torn') /\ (~torn' => projection = loaded[r])
    BY DEF LoadAlarms
<1>4. KeepGrows
    BY <1>2, <1>3 DEF KeepGrows
<1>5. /\ engine'[r] = x /\ unprojectedSeq'[r] = 0 /\ appliedSeq'[r] = loaded[r].seq
    BY <1>1, <1>2, CoreTypes DEF Set, ReplicaTypes
<1>6. changes'[r].seq = 0
    BY <1>2, CoreTypes DEF PositionInv, LoadAlarms, Attached
<1>7. ~Kept(r)'
    BY <1>5, <1>6 DEF Kept
<1>8. Tracked(engine[r])' = Tracked(h)
    <2>1. Tracked(x) = Tracked(h)
        BY <1>1, SameBasics DEF PolicyTo
    <2> QED BY <1>5, <2>1 DEF Tracked
<1>9. \A a \in Tracked(h) : projection.where[a] # Untracked
    BY <1>1 DEF HydratedTo, Tracked
<1>10. ASSUME ~torn' PROVE Ingested(loaded[r].seq) \ Excused \subseteq Tracked(h)
    <2> SUFFICES ASSUME NEW a \in Ingested(projection.seq) \ Excused PROVE a \in Tracked(h)
        BY <1>3, <1>10
    <2>1. a \in Alarm /\ projection.where[a] # Untracked
        BY CoreTypes, IngestedFacts DEF KeepInv, RowKept
    <2>2. projection.where[a] \in GroupId => projection.root[projection.where[a]] # Nobody
        BY <2>1, CoreTypes DEF StoreInv, GoodRows
    <2>3. h.where[a] = projection.where[a]
        BY <1>1, <1>3, <1>10, <2>1, <2>2 DEF HydratedTo
    <2> QED BY <2>1, <2>3 DEF Tracked
<1>11. Ingested(appliedSeq[r])' = Ingested(loaded[r].seq)
    BY <1>2, <1>5 DEF Ingested
<1>12. TrackInv(r)'
    BY <1>2, <1>6, <1>7, <1>8, <1>9, <1>10, <1>11 DEF TrackInv
<1> QED BY <1>2, <1>4, <1>12, RowKeptStays, KeepStep

LEMMA KeepNext == CoreInv /\ KeepInv /\ [Next]_vars => KeepInv'
<1> SUFFICES ASSUME CoreInv, KeepInv, [Next]_vars PROVE KeepInv'
    OBVIOUS
<1>1. CASE UNCHANGED vars
    <2>1. ASSUME NEW s \in Replica PROVE Still(s)
        BY <1>1 DEF vars, replicaVars, dirtyVars, drainVars, Still, Attached
    <2>2. KeepGrows /\ projection' = projection
        BY <1>1 DEF vars, storeVars, historyVars, KeepGrows, Excused
    <2>3. \A s \in Replica : TrackInv(s)'
        BY <2>1, <2>2, KeepOthers
    <2>4. RowKept'
        BY <2>2, RowKeptStays
    <2> QED BY <2>3, <2>4 DEF KeepInv
<1>2. CASE Next
    <2>1. PICK r \in Replica :
              \/ ReplicaStep(r)
              \/ \E op \in Operations[r] : Submit(r, op) \/ SubmitFails(r, op)
              \/ ReadFails(r) \/ ProjectFails(r)
              \/ Crash(r) \/ LoadState(r) \/ LoadFails(r)
        BY <1>2 DEF Next
    <2>2. Operations[r] \subseteq Operation
        BY CoordinationAssumption
    <2>3. Others(r)
        BY <2>1, StepOthers
    <2>4. CASE ReplicaStep(r)
        BY <2>3, <2>4, PollKeep, ReadNothingKeep, ReadPageKeep, ProjectThenApplyKeep,
           ProjectLastKeep, LoadKeep, LoadAlarmsKeep DEF ReplicaStep
    <2>5. CASE \E op \in Operations[r] : Submit(r, op) \/ SubmitFails(r, op)
        BY <2>2, <2>3, <2>5, SubmitKeep, SubmitFailsKeep
    <2>6. CASE ReadFails(r) \/ ProjectFails(r)
        BY <2>3, <2>6, ReadFailsKeep, ProjectFailsKeep
    <2>7. CASE Crash(r) \/ LoadState(r) \/ LoadFails(r)
        BY <2>3, <2>7, CrashKeep, LoadKeep
    <2> QED BY <2>1, <2>4, <2>5, <2>6, <2>7
<1> QED BY <1>1, <1>2

\* An alarm whose ingest is journaled keeps its row and stays tracked by every
\* replica that consumed the entry, through half-failed projections, retries and
\* restarts, unless a sweep forgot it or an operation on it fell back.
THEOREM AlarmsKept == Spec => []AlarmKept
<1>1. Init => KeepInv
    BY InitKeep
<1>2. CoreInv /\ KeepInv /\ [Next]_vars => KeepInv'
    BY KeepNext
<1>3. KeepInv => AlarmKept
    BY DEF KeepInv, RowKept, TrackInv, AlarmKept, AlarmTracked, Excused
<1> QED BY <1>1, <1>2, <1>3, CoreAlways, PTL DEF Spec

-----------------------------------------------------------------------------
(* Replicas agree: every engine is that of a prefix of the journal *)

LEMMA SameRootLive ==
    ASSUME NEW e, NEW x, Same(e, x), RootLive(e)
    PROVE  RootLive(x)
<1>1. /\ \A g : Members(e, g) = Members(x, g)
      /\ \A a \in Alarm : e.state[a] = "cleared" <=> x.state[a] = "cleared"
    BY SameBasics
<1>2. x.open = e.open /\ x.root = e.root
    BY DEF Same
<1>3. ASSUME NEW g \in x.open, NEW a \in Members(x, g), a = x.root[g]
      PROVE  x.state[a] # "cleared"
    <2>1. g \in e.open /\ a \in Members(e, g) /\ a = e.root[g]
        BY <1>1, <1>2, <1>3
    <2>2. e.state[a] # "cleared" /\ a \in Alarm
        BY <2>1 DEF RootLive, Members
    <2> QED BY <1>1, <2>2
<1> QED BY <1>3 DEF RootLive

LEMMA SameCovers ==
    ASSUME NEW e, NEW x, NEW f, NEW y, NEW gs, NEW as, Covers(e, x, gs, as),
           Same(e, f), Same(x, y)
    PROVE  Covers(f, y, gs, as)
BY DEF Same, Covers

LEMMA CoversMore ==
    ASSUME NEW e, NEW x, NEW gs, NEW as, NEW hs, NEW bs, Covers(e, x, gs, as),
           gs \subseteq hs, as \subseteq bs
    PROVE  Covers(e, x, hs, bs)
BY DEF Covers

LEMMA IntentTwice ==
    ASSUME NEW op, NEW b
    PROVE  EntryIntent(op, EntryIntent(op, b)) = EntryIntent(op, b)
BY DEF EntryIntent

\* What no operation announced is still active.
LEMMA AnnouncedUntracked ==
    ASSUME NEW e, NEW eff, Announced(e, eff, {}), UntrackedActive(e)
    PROVE  UntrackedActive(eff.eng)
<1> SUFFICES ASSUME NEW a \in Alarm, eff.eng.where[a] = Untracked
             PROVE  Restored(eff.eng.state[a]) = "active"
    BY DEF UntrackedActive
<1>1. a \notin Tracked(eff.eng) /\ a \notin eff.alarms
    BY DEF Tracked, Announced
<1>2. eff.eng.where[a] = e.where[a] /\ Restored(eff.eng.state[a]) = Restored(e.state[a])
    BY <1>1 DEF Announced, Covers
<1> QED BY <1>2 DEF UntrackedActive

\* One more entry, one more engine.
LEMMA CallGood ==
    ASSUME NEW e, GoodEngine(e), RootLive(e), UntrackedActive(e),
           NEW op \in Operation, NEW n \in GroupId
    PROVE  /\ GoodEngine(EngineEffect(e, op, n).eng) /\ RootLive(EngineEffect(e, op, n).eng)
           /\ UntrackedActive(EngineEffect(e, op, n).eng)
<1>1. PICK eff : eff = EngineEffect(e, op, n)
    OBVIOUS
<1>2. op \in Call
    BY DEF Call
<1>3. CallSound(e, op, eff)
    BY <1>1, <1>2, CallIsSound
<1>4. Announced(e, eff, {})
    BY <1>3 DEF CallSound, SoundEffect
<1>5. UntrackedActive(eff.eng)
    BY <1>4, AnnouncedUntracked
<1> QED BY <1>1, <1>4, <1>5 DEF Announced

LEMMA SweepGood ==
    ASSUME NEW e, GoodEngine(e), RootLive(e), UntrackedActive(e),
           NEW idle \in SUBSET e.open, NEW old \in SUBSET Pending(e)
    PROVE  /\ GoodEngine(Sweep(e, idle, old).eng) /\ RootLive(Sweep(e, idle, old).eng)
           /\ UntrackedActive(Sweep(e, idle, old).eng)
<1>1. PICK eff : eff = Sweep(e, idle, old)
    OBVIOUS
<1>2. GoodEngine(eff.eng) /\ RootLive(eff.eng)
    BY <1>1, SweepSound DEF SoundEffect, Announced
<1>3. SweptTo(e, idle, old, eff.eng)
    BY <1>1, SweepShape
<1>4. ASSUME NEW a \in Alarm, eff.eng.where[a] = Untracked
      PROVE  Restored(eff.eng.state[a]) = "active"
    <2>1. a \in old \/ e.where[a] = Untracked
        BY <1>3, <1>4 DEF SweptTo
    <2>2. a \notin old => Restored(e.state[a]) = "active"
        BY <2>1 DEF UntrackedActive
    <2> QED BY <1>3, <2>2 DEF SweptTo, Restored
<1> QED BY <1>1, <1>2, <1>4 DEF UntrackedActive

LEMMA EntryGood ==
    ASSUME CoreInv, NEW i \in 1 .. Len(journal), NEW x, NEW y, EntryMakes(i, x, y),
           GoodEngine(x), RootLive(x), UntrackedActive(x)
    PROVE  GoodEngine(y) /\ RootLive(y) /\ UntrackedActive(y)
<1>1. CASE journal[i].op = "sweep"
    <2>1. PICK d \in swept : /\ d.idle \in SUBSET x.open /\ d.old \in SUBSET Pending(x)
                             /\ y = Sweep(x, d.idle, d.old).eng
        BY <1>1 DEF EntryMakes
    <2> QED BY <2>1, SweepGood
<1>2. CASE journal[i].op # "sweep"
    <2>1. y = EngineEffect(x, journal[i], i).eng
        BY <1>2 DEF EntryMakes
    <2>2. journal[i] \in Operation /\ i \in GroupId
        BY EntryIsOperation
    <2> QED BY <2>1, <2>2, CallGood
<1> QED BY <1>1, <1>2

\* Sweeps decided alike later were decided alike before, and in shorter prefixes.
LEMMA AlikeBefore ==
    ASSUME swept \subseteq swept', NEW n
    PROVE  DecidedAlike(n)' => DecidedAlike(n)
BY DEF DecidedAlike

LEMMA AlikeShorter ==
    ASSUME NEW m \in Nat, NEW n \in Nat, m <= n, DecidedAlike(n)
    PROVE  DecidedAlike(m)
<1>1. \A i \in 1 .. m : i \in 1 .. n
    OBVIOUS
<1> QED BY <1>1 DEF DecidedAlike

\* An entry that was decided alike makes one engine of another.
LEMMA EntryDetermined ==
    ASSUME NEW i \in Nat \ {0}, NEW x, NEW y, NEW z, EntryMakes(i, x, y)', EntryMakes(i, x, z),
           journal' = journal, swept \subseteq swept', DecidedAlike(i)'
    PROVE  y = z
<1>1. CASE journal[i].op = "sweep"
    <2>1. PICK d \in swept' : /\ d.seq = i /\ d.open = x.open /\ d.pending = Pending(x)
                              /\ d.idle \subseteq d.open /\ d.old \subseteq d.pending
                              /\ y = Sweep(x, d.idle, d.old).eng
        BY <1>1 DEF EntryMakes, Pending, Sweep, CloseGroups, Effect, Members, Restored
    <2>2. PICK e \in swept : /\ e.seq = i /\ e.open = x.open /\ e.pending = Pending(x)
                             /\ e.idle \subseteq e.open /\ e.old \subseteq e.pending
                             /\ z = Sweep(x, e.idle, e.old).eng
        BY <1>1 DEF EntryMakes
    <2>3. i \in 1 .. i /\ e \in swept'
        BY <2>2
    <2>4. d.idle \cap e.open = e.idle \cap d.open /\ d.old \cap e.pending = e.old \cap d.pending
        BY <2>1, <2>2, <2>3 DEF DecidedAlike
    <2>5. d.idle = e.idle /\ d.old = e.old
        BY <2>1, <2>2, <2>4
    <2> QED BY <2>1, <2>2, <2>5
<1>2. CASE journal[i].op # "sweep"
    BY <1>2 DEF EntryMakes
<1> QED BY <1>1, <1>2

-----------------------------------------------------------------------------
(* Histories *)

LEMMA HistoryShape ==
    ASSUME CoreInv, NEW f, NEW iv, GoodHistory(f, iv)
    PROVE  \E k \in Nat : /\ k <= Len(journal) /\ DOMAIN f = 0 .. k
                          /\ f \in [0 .. k -> Engine] /\ iv \in [0 .. k -> BOOLEAN]
<1>1. Len(journal) \in Nat
    BY DEF CoreInv, StoreInv
<1>2. PICK k \in 0 .. Len(journal) : f \in [0 .. k -> Engine] /\ iv \in [0 .. k -> BOOLEAN]
    BY DEF GoodHistory, IsHistory
<1>3. k \in Nat /\ k <= Len(journal) /\ DOMAIN f = 0 .. k
    BY <1>1, <1>2
<1> QED BY <1>2, <1>3

LEMMA HistoryDown ==
    ASSUME CoreInv, NEW f, NEW iv, GoodHistory(f, iv), NEW n \in Nat, n + 1 \in DOMAIN f
    PROVE  n \in DOMAIN f
BY HistoryShape

\* The history g, jv of the next state continues f, iv.
Continues(f, iv, g, jv) ==
    /\ GoodHistory(g, jv)'
    /\ \A i \in DOMAIN f : i \in DOMAIN g /\ g[i] = f[i] /\ jv[i] = iv[i]
    /\ swept \subseteq swept'
    /\ Undisturbed' => Undisturbed

\* What every action does to the journal and the histories.
Forward ==
    /\ Len(journal') \in Nat /\ Len(journal') >= Len(journal)
    /\ \A i \in 1 .. Len(journal) : journal'[i] = journal[i]
    /\ swept \subseteq swept' /\ (Undisturbed' => Undisturbed)

LEMMA EntryStays ==
    ASSUME Forward, NEW i \in 1 .. Len(journal), NEW x, NEW y, EntryMakes(i, x, y)
    PROVE  EntryMakes(i, x, y)'
<1>1. journal'[i] = journal[i] /\ swept \subseteq swept'
    BY DEF Forward
<1>2. CASE journal[i].op = "sweep"
    <2>1. PICK d \in swept : /\ d.seq = i /\ d.open = x.open /\ d.pending = Pending(x)
                             /\ d.idle \subseteq d.open /\ d.old \subseteq d.pending
                             /\ y = Sweep(x, d.idle, d.old).eng
        BY <1>2 DEF EntryMakes
    <2>2. d \in swept'
        BY <1>1
    <2> QED BY <1>1, <1>2, <2>1, <2>2
        DEF EntryMakes
<1>3. CASE journal[i].op # "sweep"
    BY <1>1, <1>3 DEF EntryMakes
<1> QED BY <1>2, <1>3

LEMMA HistoryStays ==
    ASSUME CoreInv, NEW f, NEW iv, GoodHistory(f, iv), Forward
    PROVE  Continues(f, iv, f, iv)
<1>1. PICK k \in Nat : /\ k <= Len(journal) /\ DOMAIN f = 0 .. k
                       /\ f \in [0 .. k -> Engine] /\ iv \in [0 .. k -> BOOLEAN]
    BY HistoryShape
<1>2. Len(journal) \in Nat
    BY DEF CoreInv, StoreInv
<1>3. k \in 0 .. Len(journal') /\ \A i \in DOMAIN f \ {0} : i \in 1 .. Len(journal)
    BY <1>1, <1>2 DEF Forward
<1>4. \A i \in DOMAIN f \ {0} : /\ EntryMakes(i, f[i - 1], f[i])'
                                /\ iv[i] = EntryIntent(journal'[i], iv[i - 1])
    <2>1. ASSUME NEW i \in DOMAIN f \ {0} PROVE EntryMakes(i, f[i - 1], f[i])'
        <3>1. EntryMakes(i, f[i - 1], f[i])
            BY DEF GoodHistory, IsHistory
        <3> QED BY <1>3, <3>1, EntryStays
    <2>2. ASSUME NEW i \in DOMAIN f \ {0} PROVE iv[i] = EntryIntent(journal'[i], iv[i - 1])
        BY <1>3 DEF GoodHistory, IsHistory, Forward
    <2> QED BY <2>1, <2>2
<1>5. IsHistory(f, iv)'
    BY <1>1, <1>3, <1>4 DEF GoodHistory, IsHistory
<1>6. GoodHistory(f, iv)'
    BY <1>5 DEF GoodHistory
<1> QED BY <1>6 DEF Continues, Forward

LEMMA HistoryGrows ==
    ASSUME CoreInv, NEW f, NEW iv, GoodHistory(f, iv), Forward, journal' = journal,
           NEW n \in Nat, n \in DOMAIN f, NEW seq \in 1 .. Len(journal), seq = n + 1,
           seq \notin DOMAIN f, NEW y, EntryMakes(seq, f[n], y)',
           GoodEngine(y), RootLive(y), UntrackedActive(y)
    PROVE  \E g, jv : Continues(f, iv, g, jv) /\ seq \in DOMAIN g /\ g[seq] = y
<1>1. /\ DOMAIN f = 0 .. n /\ f \in [0 .. n -> Engine] /\ iv \in [0 .. n -> BOOLEAN]
    <2>1. PICK k \in Nat : /\ DOMAIN f = 0 .. k
                           /\ f \in [0 .. k -> Engine] /\ iv \in [0 .. k -> BOOLEAN]
        BY HistoryShape
    <2>2. k = n
        BY <2>1
    <2> QED BY <2>1, <2>2
<1>2. Continues(f, iv, f, iv)
    BY HistoryStays
<1>3. PICK b : b = EntryIntent(journal[seq], iv[n])
    OBVIOUS
<1>4. b \in BOOLEAN
    BY <1>1, <1>3 DEF EntryIntent
<1>5. PICK g, jv : /\ g = [i \in 0 .. n + 1 |-> IF i <= n THEN f[i] ELSE y]
                   /\ jv = [i \in 0 .. n + 1 |-> IF i <= n THEN iv[i] ELSE b]
    OBVIOUS
<1>6. /\ DOMAIN g = 0 .. n + 1 /\ g[n + 1] = y /\ jv[n + 1] = b
      /\ \A i \in 0 .. n : i \in 0 .. n + 1 /\ g[i] = f[i] /\ jv[i] = iv[i]
    BY <1>5
<1>7. g \in [0 .. n + 1 -> Engine] /\ jv \in [0 .. n + 1 -> BOOLEAN]
    <2>1. \A i \in 0 .. n + 1 : i <= n => i \in 0 .. n
        OBVIOUS
    <2>2. y \in Engine
        BY DEF GoodEngine
    <2> QED BY <1>1, <1>4, <1>5, <2>1, <2>2
<1>8. /\ \A i \in DOMAIN f \ {0} : EntryMakes(i, f[i - 1], f[i])'
      /\ \A i \in DOMAIN f \ {0} : iv[i] = EntryIntent(journal'[i], iv[i - 1])
      /\ \A i \in DOMAIN f : GoodEngine(f[i]) /\ RootLive(f[i]) /\ UntrackedActive(f[i])
    BY <1>2 DEF Continues, GoodHistory, IsHistory
<1>9. ASSUME NEW i \in 1 .. n + 1
       PROVE  /\ EntryMakes(i, g[i - 1], g[i])'
              /\ jv[i] = EntryIntent(journal'[i], jv[i - 1])
    <2>1. CASE i = n + 1
        <3>1. i - 1 = n /\ n \in 0 .. n /\ seq = i
            BY <2>1
        <3>2. g[i - 1] = f[n] /\ g[i] = y /\ jv[i - 1] = iv[n] /\ jv[i] = b
            BY <1>6, <2>1, <3>1
        <3>3. EntryMakes(seq, f[n], y)'
            OBVIOUS
        <3> QED BY <1>3, <3>1, <3>2, <3>3
    <2>2. CASE i # n + 1
        <3>1. i \in 0 .. n /\ i # 0 /\ i - 1 \in 0 .. n
            BY <2>2
        <3>2. g[i] = f[i] /\ g[i - 1] = f[i - 1] /\ jv[i] = iv[i] /\ jv[i - 1] = iv[i - 1]
            BY <1>6, <3>1
        <3> QED BY <1>1, <1>8, <3>1, <3>2
    <2> QED BY <2>1, <2>2
<1>10. ASSUME NEW i \in 0 .. n + 1
       PROVE  GoodEngine(g[i]) /\ RootLive(g[i]) /\ UntrackedActive(g[i])
    <2>1. CASE i = n + 1
        BY <1>6, <2>1
    <2>2. CASE i # n + 1
        <3>1. i \in 0 .. n
            BY <2>2
        <3> QED BY <1>1, <1>6, <1>8, <3>1
    <2> QED BY <2>1, <2>2
<1>11. g[0] = EmptyEngine /\ jv[0] = TRUE
    <2>1. 0 \in 0 .. n
        OBVIOUS
    <2>2. f[0] = EmptyEngine /\ iv[0] = TRUE
        BY DEF GoodHistory, IsHistory
    <2> QED BY <1>6, <2>1, <2>2
<1>12. n + 1 \in 0 .. Len(journal')
    BY CoreTypes DEF CoreInv, StoreInv
<1>13. IsHistory(g, jv)'
    <2>1. \A i \in DOMAIN g \ {0} : i \in 1 .. n + 1
        BY <1>6
    <2> QED BY <1>7, <1>9, <1>11, <1>12, <2>1 DEF IsHistory, EmptyEngine
<1>14. GoodHistory(g, jv)'
    BY <1>6, <1>10, <1>13 DEF GoodHistory
<1>15. Continues(f, iv, g, jv) /\ seq \in DOMAIN g /\ g[seq] = y
    BY <1>1, <1>6, <1>14 DEF Continues, Forward
<1> QED BY <1>15

LEMMA PositionFacts ==
    ASSUME CoreInv, NEW r \in Replica
    PROVE  /\ Position(r) \in Nat /\ Position(r) \in 0 .. Len(journal)
           /\ appliedSeq[r] \in 0 .. Len(journal) /\ projection.seq \in 0 .. Len(journal)
           /\ Kept(r) => appliedSeq[r] + 1 \in 0 .. Len(journal)
           /\ changes[r].seq # 0 =>
                  Kept(r) /\ changes[r].seq = appliedSeq[r] + 1 /\ Position(r) = changes[r].seq
BY CoreTypes DEF PositionInv, Kept, Position

LEMMA AgreeOthers ==
    ASSUME CoreInv, NEW f, NEW iv, GoodHistory(f, iv), NEW g, NEW jv, Continues(f, iv, g, jv),
           NEW s \in Replica, Still(s), ConvergeInv(f, iv, s)
    PROVE  ConvergeInv(g, jv, s)'
<1>1. PICK n, m : n = Position(s) /\ m = appliedSeq[s]
    OBVIOUS
<1>2. /\ n \in Nat /\ m \in Nat /\ (Kept(s) => n = m + 1)
      /\ (changes[s].seq # 0 => Kept(s) /\ changes[s].seq = m + 1 /\ n = changes[s].seq)
    BY <1>1, PositionFacts, CoreTypes DEF Position
<1>3. /\ Position(s)' = n /\ appliedSeq'[s] = m /\ (Kept(s)' <=> Kept(s))
      /\ (Attached(s)' <=> Attached(s)) /\ changes'[s] = changes[s]
      /\ engine'[s] = engine[s] /\ policyIntent'[s] = policyIntent[s]
      /\ dirtyGroups'[s] = dirtyGroups[s] /\ dirtyAlarms'[s] = dirtyAlarms[s]
    BY <1>1 DEF Still, Position, Kept
<1>4. (DecidedAlike(n)' => DecidedAlike(n)) /\ (DecidedAlike(m)' => DecidedAlike(m))
    BY AlikeBefore DEF Continues
<1>5. n \in DOMAIN f => /\ n \in DOMAIN g /\ g[n] = f[n] /\ jv[n] = iv[n]
                        /\ (Kept(s) => g[m] = f[m] /\ jv[m] = iv[m])
    <2>1. n \in DOMAIN f /\ Kept(s) => m \in DOMAIN f
        BY <1>2, HistoryDown
    <2> QED BY <2>1 DEF Continues
<1>6. DecidedAlike(Position(s))' => DecidedAlike(n)
    <2>1. DecidedAlike(Position(s))' <=> DecidedAlike(n)'
        BY <1>3 DEF DecidedAlike
    <2> QED BY <1>4, <2>1
<1>7. DecidedAlike(appliedSeq[s])' => DecidedAlike(m)
    <2>1. DecidedAlike(appliedSeq[s])' <=> DecidedAlike(m)'
        BY <1>3 DEF DecidedAlike
    <2> QED BY <1>4, <2>1
<1>8. changes[s].seq # 0 => (DecidedAlike(changes[s].seq)' => DecidedAlike(n))
    <2>1. changes[s].seq # 0 => (DecidedAlike(changes[s].seq)' <=> DecidedAlike(n)')
        BY <1>2, <1>3 DEF DecidedAlike
    <2> QED BY <1>4, <2>1
<1>9. (Attached(s) /\ DecidedAlike(Position(s)) =>
           /\ Position(s) \in DOMAIN g /\ Same(engine[s], g[Position(s)])
           /\ policyIntent[s] = jv[Position(s)])'
    BY <1>1, <1>3, <1>5, <1>6 DEF ConvergeInv
<1>10. (Attached(s) /\ Kept(s) /\ DecidedAlike(Position(s)) =>
           Covers(g[appliedSeq[s]], g[appliedSeq[s] + 1], dirtyGroups[s], dirtyAlarms[s]))'
    <2>1. ASSUME Attached(s), Kept(s), DecidedAlike(n)
          PROVE  Covers(g[m], g[m + 1], dirtyGroups[s], dirtyAlarms[s])
        <3>1. n \in DOMAIN f /\ Covers(f[m], f[m + 1], dirtyGroups[s], dirtyAlarms[s])
            BY <1>1, <2>1 DEF ConvergeInv
        <3> QED BY <1>2, <1>5, <2>1, <3>1
    <2> QED BY <1>3, <1>6, <2>1
<1>11. (changes[s].seq # 0 /\ DecidedAlike(changes[s].seq) =>
           /\ changes[s].seq \in DOMAIN g /\ Same(changes[s].eng, g[changes[s].seq])
           /\ Covers(g[appliedSeq[s]], g[appliedSeq[s] + 1],
                     changes[s].groups, changes[s].alarms)
           /\ changes[s].policy = {} => jv[appliedSeq[s] + 1] = jv[appliedSeq[s]]
           /\ changes[s].policy # {} => changes[s].policy = {jv[appliedSeq[s] + 1]})'
    <2>1. ASSUME changes[s].seq # 0, DecidedAlike(n)
          PROVE  /\ n \in DOMAIN f /\ Same(changes[s].eng, f[n])
                 /\ Covers(f[m], f[n], changes[s].groups, changes[s].alarms)
                 /\ changes[s].policy = {} => iv[n] = iv[m]
                 /\ changes[s].policy # {} => changes[s].policy = {iv[n]}
        BY <1>1, <1>2, <2>1 DEF ConvergeInv
    <2>2. ASSUME changes[s].seq # 0, DecidedAlike(n)
          PROVE  /\ n \in DOMAIN g /\ Same(changes[s].eng, g[n])
                 /\ Covers(g[m], g[n], changes[s].groups, changes[s].alarms)
                 /\ changes[s].policy = {} => jv[n] = jv[m]
                 /\ changes[s].policy # {} => changes[s].policy = {jv[n]}
        <3>1. g[n] = f[n] /\ jv[n] = iv[n] /\ g[m] = f[m] /\ jv[m] = iv[m] /\ n \in DOMAIN g
            BY <1>2, <1>5, <2>1, <2>2
        <3> QED BY <2>1, <2>2, <3>1
    <2> QED BY <1>2, <1>3, <1>8, <2>2
<1>12. (Attached(s) /\ DecidedAlike(appliedSeq[s]) => RootLive(engine[s]))'
    BY <1>1, <1>3, <1>7 DEF ConvergeInv
<1> QED BY <1>9, <1>10, <1>11, <1>12 DEF ConvergeInv

LEMMA AgreeStep ==
    ASSUME CoreInv, NEW f, NEW iv, AgreeInv(f, iv), NEW g, NEW jv, Continues(f, iv, g, jv),
           NEW r \in Replica, Others(r),
           Undisturbed' => RowsConverge(g, jv)' /\ ConvergeInv(g, jv, r)'
    PROVE  AgreeInv(g, jv)'
<1>1. GoodHistory(g, jv)' /\ (Undisturbed' => Undisturbed) /\ GoodHistory(f, iv)
    BY DEF Continues, AgreeInv
<1>2. ASSUME Undisturbed', NEW s \in Replica \ {r} PROVE ConvergeInv(g, jv, s)'
    <2>1. Still(s)
        BY UntouchedStill DEF Others
    <2>2. ConvergeInv(f, iv, s)
        BY <1>1, <1>2 DEF AgreeInv
    <2> QED BY <1>1, <2>1, <2>2, AgreeOthers
<1> QED BY <1>1, <1>2 DEF AgreeInv

LEMMA RowsConvergeStays ==
    ASSUME NEW f, NEW iv, NEW g, NEW jv, RowsConverge(f, iv),
           Continues(f, iv, g, jv), projection' = projection
    PROVE  RowsConverge(g, jv)'
<1>1. PICK n : n = projection.seq
    OBVIOUS
<1>2. DecidedAlike(n)' => DecidedAlike(n)
    BY AlikeBefore DEF Continues
<1>3. DecidedAlike(projection.seq)' => DecidedAlike(projection.seq)
    <2>1. DecidedAlike(projection.seq)' <=> DecidedAlike(n)'
        BY <1>1 DEF DecidedAlike
    <2> QED BY <1>1, <1>2, <2>1
<1>4. n \in DOMAIN f => n \in DOMAIN g /\ g[n] = f[n] /\ jv[n] = iv[n]
    BY DEF Continues
<1> QED BY <1>1, <1>3, <1>4 DEF RowsConverge, RowsAre

\* A projection that commits moves the rows along the history.
LEMMA ProjectedConverges ==
    ASSUME CoreInv, NEW f, NEW iv, AgreeInv(f, iv), Undisturbed, NEW r \in Replica,
           changes[r].seq # 0, NEW p, p = Projected(changes[r]), DecidedAlike(p.seq)
    PROVE  p.seq \in DOMAIN f /\ RowsAre(p, f[p.seq]) /\ p.intent = iv[p.seq]
<1>1. PICK c \in Changes : c = changes[r]
    BY CoreTypes DEF ReplicaTypes
<1>2. PICK m \in Nat, n \in Nat : m = appliedSeq[r] /\ n = projection.seq
    BY CoreTypes
<1>3. /\ c.seq = m + 1 /\ m <= n /\ n \in 0 .. Len(journal) /\ m \in 0 .. Len(journal)
      /\ c.seq \in 0 .. Len(journal) /\ c.seq \in Nat
    BY <1>1, <1>2, PositionFacts, CoreTypes DEF PositionInv
<1>4. RowsConverge(f, iv) /\ ConvergeInv(f, iv, r) /\ GoodHistory(f, iv)
    BY DEF AgreeInv
<1>5. CASE ~Advances(c.seq)
    <2>1. p = projection
        BY <1>1, <1>5 DEF Projected
    <2> QED BY <1>4, <2>1 DEF RowsConverge
<1>6. CASE Advances(c.seq)
    <2>1. p.seq = c.seq
        BY <1>1, <1>6 DEF Projected
    <2>2. /\ p.where = [a \in Alarm |-> IF a \in c.alarms THEN c.eng.where[a]
                                        ELSE projection.where[a]]
          /\ p.state = [a \in Alarm |-> IF a \in c.alarms THEN c.eng.state[a]
                                        ELSE projection.state[a]]
          /\ p.root = [g \in GroupId |-> IF g \in c.groups THEN c.eng.root[g]
                                         ELSE projection.root[g]]
          /\ p.open = (projection.open \ c.groups) \cup (c.eng.open \cap c.groups)
        BY <1>1, <1>6 DEF Projected
    <2>3. n \in {m, m + 1}
        BY <1>2, <1>3, <1>6 DEF Advances
    <2>4. DecidedAlike(c.seq) /\ DecidedAlike(n)
        <3>1. n <= c.seq
            BY <1>3, <2>3
        <3> QED BY <1>3, <2>1, <3>1, AlikeShorter
    <2>5. PICK x, y : x = f[m] /\ y = f[m + 1]
        OBVIOUS
    <2>6. x \in Engine /\ y \in Engine /\ m \in DOMAIN f /\ m + 1 \in DOMAIN f
          /\ iv[m + 1] \in BOOLEAN
        <3>1. m + 1 \in DOMAIN f
            BY <1>1, <1>3, <1>4, <2>4 DEF ConvergeInv
        <3> QED BY <1>4, <2>5, <3>1, HistoryShape
    <2>7. Same(c.eng, y) /\ Covers(x, y, c.groups, c.alarms)
        BY <1>1, <1>2, <1>3, <1>4, <2>4, <2>5 DEF ConvergeInv
    <2>8. RowsAre(projection, f[n]) /\ projection.intent = iv[n]
        BY <1>2, <1>4, <2>4 DEF RowsConverge
    <2>9. /\ \A a \in Alarm \ c.alarms : /\ projection.where[a] = y.where[a]
                                         /\ Restored(projection.state[a]) = Restored(y.state[a])
          /\ \A g \in GroupId \ c.groups : /\ projection.root[g] = y.root[g]
                                           /\ g \in projection.open <=> g \in y.open
        <3>1. CASE n = m
            BY <2>5, <2>7, <2>8, <3>1 DEF RowsAre, Covers
        <3>2. CASE n = m + 1
            BY <2>5, <2>8, <3>2 DEF RowsAre
        <3> QED BY <2>3, <3>1, <3>2
    <2>10. /\ \A a \in Alarm : /\ c.eng.where[a] = y.where[a]
                               /\ Restored(c.eng.state[a]) = Restored(y.state[a])
           /\ c.eng.root = y.root /\ c.eng.open = y.open
        BY <2>7 DEF Same
    <2>11. p.where = y.where
        BY <2>2, <2>6, <2>9, <2>10 DEF Engine
    <2>12. p.root = y.root
        BY <2>2, <2>6, <2>9, <2>10 DEF Engine
    <2>13. p.open = y.open
        <3>1. projection.open \in SUBSET GroupId /\ y.open \in SUBSET GroupId
            BY <2>6, CoreTypes DEF Engine, StoreInv, GoodRows, Rows
        <3>2. ASSUME NEW g PROVE g \in p.open <=> g \in y.open
            BY <2>2, <2>9, <2>10, <3>1
        <3> QED BY <3>2
    <2>14. \A a \in Alarm : Restored(p.state[a]) = Restored(y.state[a])
        BY <2>2, <2>9, <2>10
    <2>15. RowsAre(p, f[p.seq])
        BY <1>3, <2>1, <2>5, <2>11, <2>12, <2>13, <2>14 DEF RowsAre
    <2>16. p.intent = iv[p.seq]
        <3>1. PICK b \in BOOLEAN : b = iv[m + 1]
            BY <2>6
        <3>2. CASE c.policy = {}
            <4>1. p.intent = projection.intent
                BY <1>1, <1>6, <3>2 DEF Projected
            <4>2. iv[m + 1] = iv[m]
                BY <1>1, <1>2, <1>3, <1>4, <2>4, <3>2 DEF ConvergeInv
            <4> QED BY <1>3, <2>1, <2>3, <2>8, <4>1, <4>2
        <3>3. CASE c.policy # {}
            <4>1. c.policy = {b}
                BY <1>1, <1>2, <1>3, <1>4, <2>4, <3>1, <3>3 DEF ConvergeInv
            <4>2. p.intent = (TRUE \in c.policy)
                BY <1>1, <1>6, <3>3 DEF Projected
            <4>3. p.intent = b
                <5>1. CASE b = TRUE
                    <6>1. TRUE \in c.policy
                        BY <4>1, <5>1
                    <6> QED BY <4>2, <5>1, <6>1, Zenon
                <5>2. CASE b = FALSE
                    <6>1. TRUE \notin c.policy
                        BY <4>1, <5>2, Zenon
                    <6>2. p.intent \in BOOLEAN
                        BY ProjectedFacts DEF GoodRows, Rows
                    <6>3. ~p.intent
                        BY <4>2, <6>1, Zenon
                    <6> QED BY <5>2, <6>2, <6>3
                <5> QED BY <3>1, <5>1, <5>2
            <4> QED BY <1>3, <2>1, <3>1, <4>3
        <3> QED BY <3>2, <3>3
    <2> QED BY <1>3, <2>1, <2>6, <2>15, <2>16
<1> QED BY <1>5, <1>6

LEMMA RowsProjected ==
    ASSUME CoreInv, NEW f, NEW iv, AgreeInv(f, iv), Undisturbed, NEW g, NEW jv,
           Continues(f, iv, g, jv), NEW r \in Replica,
           changes[r].seq # 0, projection' = Projected(changes[r])
    PROVE  RowsConverge(g, jv)'
<1>1. PICK p : p = projection'
    OBVIOUS
<1>2. DecidedAlike(p.seq) => /\ p.seq \in DOMAIN f /\ RowsAre(p, f[p.seq])
                             /\ p.intent = iv[p.seq]
    BY <1>1, ProjectedConverges
<1>3. DecidedAlike(projection.seq)' => DecidedAlike(p.seq)
    <2>1. DecidedAlike(projection.seq)' <=> DecidedAlike(p.seq)'
        BY <1>1 DEF DecidedAlike
    <2>2. DecidedAlike(p.seq)' => DecidedAlike(p.seq)
        <3>1. PICK n : n = p.seq
            OBVIOUS
        <3>2. DecidedAlike(n)' => DecidedAlike(n)
            BY AlikeBefore DEF Continues
        <3> QED BY <1>1, <3>1, <3>2 DEF DecidedAlike
    <2> QED BY <2>1, <2>2
<1>4. p.seq \in DOMAIN f => /\ p.seq \in DOMAIN g /\ g[p.seq] = f[p.seq]
                            /\ jv[p.seq] = iv[p.seq]
    BY DEF Continues
<1> QED BY <1>1, <1>2, <1>3, <1>4 DEF RowsConverge, RowsAre

\* The first application of an entry on a replica: what it makes of the engine is
\* the history's next engine, which exists already or is added.
LEMMA AppliedHistory ==
    ASSUME CoreInv, NEW f, NEW iv, GoodHistory(f, iv), Forward, journal' = journal,
           NEW r \in Replica, NEW n \in Nat, NEW seq \in 1 .. Len(journal), seq = n + 1,
           NEW eff, NEW old, NEW pol, Applied(r, seq, eff, old, pol),
           unprojectedSeq[r] # seq, DecidedAlike(seq)',
           n \in DOMAIN f, Same(engine[r], f[n])
    PROVE  \E g, jv : /\ Continues(f, iv, g, jv) /\ seq \in DOMAIN g
                      /\ Same(eff.eng, g[seq])
<1>1. PICK op \in Operation : op = journal[seq]
    BY EntryIsOperation
<1>2. op \in Call /\ seq \in GroupId /\ seq \in Nat \ {0}
    BY <1>1, EntryIsOperation
<1>3. PICK x : x = f[n]
    OBVIOUS
<1>4. GoodEngine(x) /\ RootLive(x) /\ UntrackedActive(x) /\ GoodEngine(engine[r])
      /\ Same(engine[r], x)
    BY <1>3, CoreTypes DEF GoodHistory, EngineInv
<1>5. \E y : EntryMakes(seq, x, y)' /\ Same(eff.eng, y) /\ GoodEngine(y) /\ RootLive(y)
             /\ UntrackedActive(y)
    <2>1. CASE op.op # "sweep"
        <3>1. PICK y, z : /\ y = EngineEffect(x, op, seq).eng
                          /\ z = EngineEffect(engine[r], op, seq).eng
            OBVIOUS
        <3>2. Same(eff.eng, z) /\ Same(z, y)
            BY <1>1, <1>2, <1>4, <2>1, <3>1, SameCall DEF Applied
        <3>3. Same(eff.eng, y)
            BY <3>2, SameIsEquivalence
        <3>4. EntryMakes(seq, x, y)'
            BY <1>1, <2>1, <3>1 DEF EntryMakes
        <3>5. GoodEngine(y) /\ RootLive(y) /\ UntrackedActive(y)
            BY <1>2, <1>4, <3>1, CallGood
        <3> QED BY <3>3, <3>4, <3>5
    <2>2. CASE op.op = "sweep"
        <3>1. PICK idle \in SUBSET engine[r].open, gone \in SUBSET Pending(engine[r]) :
                  /\ eff = Sweep(engine[r], idle, gone)
                  /\ [seq |-> seq, open |-> engine[r].open, pending |-> Pending(engine[r]),
                      idle |-> idle, old |-> gone] \in swept'
            BY <1>1, <2>2 DEF Applied, Swept
        <3>2. PICK d : d = [seq |-> seq, open |-> engine[r].open,
                            pending |-> Pending(engine[r]), idle |-> idle, old |-> gone]
            OBVIOUS
        <3>3. /\ d \in swept' /\ d.seq = seq /\ d.idle = idle /\ d.old = gone
              /\ d.open = engine[r].open /\ d.pending = Pending(engine[r])
            BY <3>1, <3>2
        <3>4. engine[r].open = x.open /\ Pending(engine[r]) = Pending(x)
            BY <1>4, SameBasics DEF Same
        <3>5. PICK y : y = Sweep(x, idle, gone).eng
            OBVIOUS
        <3>6. Same(eff.eng, y)
            BY <1>4, <3>1, <3>5, SameSweep
        <3>7. GoodEngine(y) /\ RootLive(y) /\ UntrackedActive(y)
            BY <1>4, <3>1, <3>4, <3>5, SweepGood
        <3>8. EntryMakes(seq, x, y)'
            BY <1>1, <2>2, <3>1, <3>3, <3>4, <3>5 DEF EntryMakes
        <3> QED BY <3>6, <3>7, <3>8
    <2> QED BY <2>1, <2>2
<1>6. PICK y : EntryMakes(seq, x, y)' /\ Same(eff.eng, y) /\ GoodEngine(y) /\ RootLive(y)
               /\ UntrackedActive(y)
    BY <1>5
<1>7. CASE seq \notin DOMAIN f
    <2>1. EntryMakes(seq, f[n], y)'
        BY <1>3, <1>6
    <2>2. PICK g, jv : Continues(f, iv, g, jv) /\ seq \in DOMAIN g /\ g[seq] = y
        BY <1>6, <1>7, <2>1, HistoryGrows
    <2> QED BY <1>6, <2>2
<1>8. CASE seq \in DOMAIN f
    <2>1. seq - 1 = n
        BY <1>2
    <2>2. EntryMakes(seq, x, f[seq])
        BY <1>2, <1>3, <1>8, <2>1 DEF GoodHistory, IsHistory
    <2>3. y = f[seq]
        BY <1>2, <1>6, <2>2, EntryDetermined DEF Forward
    <2>4. Continues(f, iv, f, iv)
        BY HistoryStays
    <2> QED BY <1>6, <1>8, <2>3, <2>4
<1> QED BY <1>7, <1>8

\* A replica that applied an entry is at its place in the history.
LEMMA AppliedConverges ==
    ASSUME CoreInv, NEW f, NEW iv, NEW g, NEW jv, Continues(f, iv, g, jv), NEW r \in Replica,
           NEW seq \in 1 .. Len(journal), NEW n \in Nat, n + 1 = seq,
           NEW eff, NEW old, NEW pol,
           Applied(r, seq, eff, old, pol), AppliedTo(r, seq, eff, pol),
           journal' = journal, appliedSeq'[r] = n,
           DecidedAlike(seq)' =>
               /\ seq \in DOMAIN g /\ Same(eff.eng, g[seq]) /\ policyIntent'[r] = jv[seq]
               /\ Covers(g[n], g[seq], dirtyGroups'[r], dirtyAlarms'[r]),
           DecidedAlike(n)' => RootLive(engine[r])
    PROVE  ConvergeInv(g, jv, r)'
<1>1. PICK op \in Operation : op = journal[seq]
    BY EntryIsOperation
<1>2. seq \in Nat \ {0} /\ seq - 1 = n
    BY EntryIsOperation
<1>3. seq \in DOMAIN g => jv[seq] = EntryIntent(op, jv[n])
    BY <1>1, <1>2 DEF Continues, GoodHistory, IsHistory
<1>4. /\ engine'[r] = eff.eng /\ changes'[r].seq = seq /\ changes'[r].eng = eff.eng
      /\ changes'[r].policy = pol /\ changes'[r].groups = dirtyGroups'[r]
      /\ changes'[r].alarms = dirtyAlarms'[r]
    BY DEF AppliedTo
<1>5. Kept(r)' /\ Position(r)' = seq
    BY <1>2, <1>4 DEF Kept, Position
<1>6. /\ DecidedAlike(Position(r))' <=> DecidedAlike(seq)'
      /\ DecidedAlike(changes[r].seq)' <=> DecidedAlike(seq)'
      /\ DecidedAlike(appliedSeq[r])' <=> DecidedAlike(n)'
    BY <1>4, <1>5 DEF DecidedAlike
<1>7. (Attached(r) /\ DecidedAlike(Position(r)) =>
           /\ Position(r) \in DOMAIN g /\ Same(engine[r], g[Position(r)])
           /\ policyIntent[r] = jv[Position(r)])'
    BY <1>4, <1>5, <1>6
<1>8. (Attached(r) /\ Kept(r) /\ DecidedAlike(Position(r)) =>
           Covers(g[appliedSeq[r]], g[appliedSeq[r] + 1], dirtyGroups[r], dirtyAlarms[r]))'
    BY <1>5, <1>6
<1>9. (changes[r].seq # 0 /\ DecidedAlike(changes[r].seq) =>
           /\ changes[r].seq \in DOMAIN g /\ Same(changes[r].eng, g[changes[r].seq])
           /\ Covers(g[appliedSeq[r]], g[appliedSeq[r] + 1],
                     changes[r].groups, changes[r].alarms)
           /\ changes[r].policy = {} => jv[appliedSeq[r] + 1] = jv[appliedSeq[r]]
           /\ changes[r].policy # {} => changes[r].policy = {jv[appliedSeq[r] + 1]})'
    <2>1. seq \in DOMAIN g /\ pol = {} => jv[seq] = jv[n]
        BY <1>1, <1>3 DEF Applied, EntryIntent
    <2>2. pol # {} => pol = {policyIntent'[r]}
        BY DEF Applied
    <2> QED BY <1>4, <1>6, <2>1, <2>2
<1>10. (Attached(r) /\ DecidedAlike(appliedSeq[r]) => RootLive(engine[r]))'
    BY <1>4, <1>6 DEF Applied, Announced
<1> QED BY <1>7, <1>8, <1>9, <1>10 DEF ConvergeInv

\* Applying an entry, for the first time or again, moves the engine along the
\* history.
LEMMA ApplyAgrees ==
    ASSUME CoreInv, NEW f, NEW iv, GoodHistory(f, iv), Forward, journal' = journal,
           NEW r \in Replica, NEW n \in Nat, NEW seq \in 1 .. Len(journal), seq = n + 1,
           NEW eff, NEW old, NEW pol,
           Applied(r, seq, eff, old, pol), AppliedTo(r, seq, eff, pol), appliedSeq'[r] = n,
           DecidedAlike(seq)' =>
               \/ /\ n \in DOMAIN f /\ Same(engine[r], f[n]) /\ policyIntent[r] = iv[n]
                  /\ unprojectedSeq[r] # seq
               \/ /\ seq \in DOMAIN f /\ Same(engine[r], f[seq]) /\ policyIntent[r] = iv[seq]
                  /\ unprojectedSeq[r] = seq
                  /\ Covers(f[n], f[seq], dirtyGroups[r], dirtyAlarms[r]),
           DecidedAlike(n)' => RootLive(engine[r])
    PROVE  \E g, jv : Continues(f, iv, g, jv) /\ ConvergeInv(g, jv, r)'
<1>1. PICK op \in Operation : op = journal[seq]
    BY EntryIsOperation
<1>2. op \in Call /\ seq \in GroupId /\ seq \in Nat \ {0} /\ seq - 1 = n
    BY <1>1, EntryIsOperation
<1>3. Continues(f, iv, f, iv)
    BY HistoryStays
<1>4. /\ eff.groups \subseteq dirtyGroups'[r] /\ eff.alarms \subseteq dirtyAlarms'[r]
      /\ (unprojectedSeq[r] = seq => /\ dirtyGroups[r] \subseteq dirtyGroups'[r]
                                     /\ dirtyAlarms[r] \subseteq dirtyAlarms'[r])
    BY DEF AppliedTo
<1>5. policyIntent'[r] = EntryIntent(op, policyIntent[r])
      /\ Covers(engine[r], eff.eng, eff.groups, eff.alarms)
    BY <1>1 DEF Applied, Announced
<1>6. CASE ~DecidedAlike(seq)'
    <2>1. ConvergeInv(f, iv, r)'
        BY <1>3, <1>6, AppliedConverges
    <2> QED BY <1>3, <2>1
<1>7. CASE /\ DecidedAlike(seq)' /\ n \in DOMAIN f /\ Same(engine[r], f[n])
           /\ policyIntent[r] = iv[n] /\ unprojectedSeq[r] # seq
    <2>1. PICK g, jv : Continues(f, iv, g, jv) /\ seq \in DOMAIN g /\ Same(eff.eng, g[seq])
        BY <1>7, AppliedHistory
    <2>2. g[n] = f[n] /\ jv[n] = iv[n]
        BY <1>7, <2>1 DEF Continues
    <2>3. jv[seq] = EntryIntent(op, jv[n])
        BY <1>1, <1>2, <2>1 DEF Continues, GoodHistory, IsHistory
    <2>4. policyIntent'[r] = jv[seq]
        BY <1>5, <1>7, <2>2, <2>3
    <2>5. Covers(g[n], g[seq], dirtyGroups'[r], dirtyAlarms'[r])
        <3>1. Covers(g[n], g[seq], eff.groups, eff.alarms)
            BY <1>5, <1>7, <2>1, <2>2, SameCovers
        <3> QED BY <1>4, <3>1, CoversMore
    <2>6. ConvergeInv(g, jv, r)'
        BY <2>1, <2>4, <2>5, AppliedConverges
    <2> QED BY <2>1, <2>6
<1>8. CASE /\ DecidedAlike(seq)' /\ seq \in DOMAIN f /\ Same(engine[r], f[seq])
           /\ policyIntent[r] = iv[seq] /\ unprojectedSeq[r] = seq
           /\ Covers(f[n], f[seq], dirtyGroups[r], dirtyAlarms[r])
    <2>1. n \in DOMAIN f
        BY <1>8, HistoryDown
    <2>2. PICK x, y : x = f[n] /\ y = f[seq]
        OBVIOUS
    <2>3. /\ GoodEngine(x) /\ GoodEngine(y) /\ GoodEngine(engine[r]) /\ EntryMakes(seq, x, y)
          /\ iv[seq] = EntryIntent(op, iv[n])
        BY <1>1, <1>2, <1>8, <2>1, <2>2, CoreTypes DEF GoodHistory, IsHistory, EngineInv
    <2>4. Same(eff.eng, y)
        <3>1. CASE op.op # "sweep"
            <4>1. PICK z : z = EngineEffect(engine[r], op, seq).eng
                OBVIOUS
            <4>2. y = EngineEffect(x, op, seq).eng
                BY <1>1, <2>3, <3>1 DEF EntryMakes
            <4>3. Same(z, EngineEffect(y, op, seq).eng)
                BY <1>2, <1>8, <2>2, <2>3, <4>1, SameCall
            <4>4. EngineEffect(y, op, seq).eng = y
                BY <1>2, <2>3, <4>2, CallTwice
            <4>5. Same(eff.eng, z)
                BY <1>1, <3>1, <4>1 DEF Applied
            <4> QED BY <4>3, <4>4, <4>5, SameIsEquivalence
        <3>2. CASE op.op = "sweep"
            <4>1. eff = Sweep(engine[r], {}, {})
                BY <1>1, <1>8, <3>2 DEF Applied, Swept
            <4>2. Same(eff.eng, engine[r]) /\ Same(engine[r], y)
                BY <1>8, <2>2, <2>3, <4>1, SweepNothing
            <4> QED BY <4>2, SameIsEquivalence
        <3> QED BY <3>1, <3>2
    <2>5. policyIntent'[r] = iv[seq]
        BY <1>5, <1>8, <2>3, IntentTwice
    <2>6. Covers(f[n], f[seq], dirtyGroups'[r], dirtyAlarms'[r])
        BY <1>4, <1>8, CoversMore
    <2>7. ConvergeInv(f, iv, r)'
        BY <1>3, <1>8, <2>2, <2>4, <2>5, <2>6, AppliedConverges
    <2> QED BY <1>3, <2>7
<1> QED BY <1>6, <1>7, <1>8

LEMMA UnmovedHistory ==
    ASSUME CoreInv, NEW f, NEW iv, AgreeInv(f, iv), journal' = journal,
           swept \subseteq swept', Undisturbed' => Undisturbed
    PROVE  Forward /\ Continues(f, iv, f, iv)
<1>1. Len(journal) \in Nat
    BY DEF CoreInv, StoreInv
<1>2. Forward
    BY <1>1 DEF Forward
<1> QED BY <1>2, HistoryStays DEF AgreeInv

LEMMA AppendedHistory ==
    ASSUME CoreInv, NEW f, NEW iv, AgreeInv(f, iv), NEW op \in Operation,
           journal' \in {journal, Appended(op)},
           swept \subseteq swept', Undisturbed' => Undisturbed
    PROVE  Continues(f, iv, f, iv)
<1>1. Len(journal) \in Nat
    BY DEF CoreInv, StoreInv
<1>2. /\ Len(journal') \in {Len(journal), Len(journal) + 1}
      /\ \A i \in 1 .. Len(journal) : journal'[i] = journal[i]
    BY AppendedFacts
<1>3. Forward
    BY <1>1, <1>2 DEF Forward
<1> QED BY <1>3, HistoryStays DEF AgreeInv

LEMMA StillAgrees ==
    ASSUME CoreInv, NEW f, NEW iv, AgreeInv(f, iv), NEW g, NEW jv, Continues(f, iv, g, jv),
           NEW r \in Replica, Others(r), Still(r), projection' = projection
    PROVE  AgreeInv(g, jv)'
<1>1. ASSUME Undisturbed' PROVE RowsConverge(g, jv)' /\ ConvergeInv(g, jv, r)'
    <2>1. RowsConverge(f, iv) /\ ConvergeInv(f, iv, r) /\ GoodHistory(f, iv)
        BY <1>1 DEF AgreeInv, Continues
    <2> QED BY <2>1, RowsConvergeStays, AgreeOthers
<1> QED BY <1>1, AgreeStep

LEMMA SubmitAgree ==
    ASSUME CoreInv, NEW f, NEW iv, AgreeInv(f, iv), NEW r \in Replica, Others(r),
           NEW op \in Operation, Submit(r, op)
    PROVE  AgreeInv(f, iv)'
<1>1. Still(r) /\ projection' = projection
    BY DEF Submit, Still, replicaVars, dirtyVars, Attached
<1>2. /\ journal' \in {journal, Appended(op)} /\ swept \subseteq swept'
      /\ (Undisturbed' => Undisturbed)
    BY DEF Submit, historyVars, Undisturbed
<1>3. Continues(f, iv, f, iv)
    BY <1>2, AppendedHistory
<1> QED BY <1>1, <1>3, StillAgrees

LEMMA PollAgree ==
    ASSUME CoreInv, NEW f, NEW iv, AgreeInv(f, iv), NEW r \in Replica, Others(r), Poll(r)
    PROVE  AgreeInv(f, iv)'
<1>1. Still(r) /\ projection' = projection /\ journal' = journal
    BY DEF Poll, Still, replicaVars, dirtyVars, storeVars, Attached
<1>2. swept \subseteq swept' /\ (Undisturbed' => Undisturbed)
    BY DEF Poll, historyVars, Undisturbed
<1>3. Continues(f, iv, f, iv)
    BY <1>1, <1>2, UnmovedHistory
<1> QED BY <1>1, <1>3, StillAgrees

\* A replica that is not attached is at no position.
LEMMA DetachedAgrees ==
    ASSUME CoreInv, NEW f, NEW iv, AgreeInv(f, iv), NEW r \in Replica, Others(r),
           journal' = journal, projection' = projection, swept \subseteq swept',
           Undisturbed' => Undisturbed, ~Attached(r)', changes'[r].seq = 0
    PROVE  AgreeInv(f, iv)'
<1>1. Continues(f, iv, f, iv)
    BY UnmovedHistory
<1>2. ConvergeInv(f, iv, r)'
    BY DEF ConvergeInv
<1>3. Undisturbed' => RowsConverge(f, iv)'
    BY <1>1, RowsConvergeStays DEF AgreeInv, Continues
<1> QED BY <1>1, <1>2, <1>3, AgreeStep

LEMMA CrashAgree ==
    ASSUME CoreInv, NEW f, NEW iv, AgreeInv(f, iv), NEW r \in Replica, Others(r), Crash(r)
    PROVE  AgreeInv(f, iv)'
<1>1. mode'[r] = "down" /\ changes'[r].seq = 0
    BY NoChangesFacts, CoreTypes DEF Crash, Set, ReplicaTypes
<1>2. ~Attached(r)'
    BY <1>1 DEF Attached
<1>3. /\ journal' = journal /\ projection' = projection /\ swept \subseteq swept'
      /\ (Undisturbed' => Undisturbed)
    BY DEF Crash, storeVars, historyVars, Undisturbed
<1> QED BY <1>1, <1>2, <1>3, DetachedAgrees

LEMMA LoadAgree ==
    ASSUME CoreInv, NEW f, NEW iv, AgreeInv(f, iv), NEW r \in Replica, Others(r),
           LoadState(r) \/ LoadGroups(r) \/ LoadFails(r)
    PROVE  AgreeInv(f, iv)'
<1>1. mode'[r] \in {"loading", "loadingAlarms", "down"}
    BY CoreTypes DEF LoadState, LoadGroups, LoadFails, Set, ReplicaTypes
<1>2. ~Attached(r)' /\ ~Attached(r)
    BY <1>1 DEF Attached, LoadState, LoadGroups, LoadFails
<1>3. changes'[r].seq = 0
    BY <1>2, CoreTypes DEF LoadState, LoadGroups, LoadFails, drainVars, PositionInv
<1>4. (Undisturbed' => Undisturbed) /\ swept \subseteq swept'
    <2>1. CASE LoadGroups(r)
        BY <2>1 DEF LoadGroups, Undisturbed
    <2>2. CASE LoadState(r) \/ LoadFails(r)
        BY <2>2 DEF LoadState, LoadFails, historyVars, Undisturbed
    <2> QED BY <2>1, <2>2
<1>5. journal' = journal /\ projection' = projection
    BY DEF LoadState, LoadGroups, LoadFails, storeVars
<1> QED BY <1>2, <1>3, <1>4, <1>5, DetachedAgrees

\* A replica whose engine only changed in what it hides.
LEMMA SameAgrees ==
    ASSUME CoreInv, NEW f, NEW iv, GoodHistory(f, iv), NEW g, NEW jv, Continues(f, iv, g, jv),
           NEW r \in Replica, Attached(r), ConvergeInv(f, iv, r),
           Same(engine'[r], engine[r]), RootLive(engine[r]) => RootLive(engine'[r]),
           policyIntent'[r] = policyIntent[r], appliedSeq'[r] = appliedSeq[r],
           changes'[r] \in {changes[r], NoChanges}, Kept(r)' <=> Kept(r),
           Kept(r) => /\ dirtyGroups[r] \subseteq dirtyGroups'[r]
                      /\ dirtyAlarms[r] \subseteq dirtyAlarms'[r]
    PROVE  ConvergeInv(g, jv, r)'
<1>1. PICK n, m : n = Position(r) /\ m = appliedSeq[r]
    OBVIOUS
<1>2. /\ n \in Nat /\ m \in Nat /\ (Kept(r) => n = m + 1)
      /\ (changes[r].seq # 0 => Kept(r) /\ changes[r].seq = m + 1 /\ n = changes[r].seq)
    BY <1>1, PositionFacts, CoreTypes DEF Position
<1>3. Position(r)' = n /\ appliedSeq'[r] = m
    BY <1>1 DEF Position
<1>4. (DecidedAlike(n)' => DecidedAlike(n)) /\ (DecidedAlike(m)' => DecidedAlike(m))
    BY AlikeBefore DEF Continues
<1>5. n \in DOMAIN f => /\ n \in DOMAIN g /\ g[n] = f[n] /\ jv[n] = iv[n]
                        /\ (Kept(r) => g[m] = f[m] /\ jv[m] = iv[m])
    <2>1. n \in DOMAIN f /\ Kept(r) => m \in DOMAIN f
        BY <1>2, HistoryDown
    <2> QED BY <2>1 DEF Continues
<1>6. DecidedAlike(Position(r))' => DecidedAlike(n)
    <2>1. DecidedAlike(Position(r))' <=> DecidedAlike(n)'
        BY <1>3 DEF DecidedAlike
    <2> QED BY <1>4, <2>1
<1>7. DecidedAlike(appliedSeq[r])' => DecidedAlike(m)
    <2>1. DecidedAlike(appliedSeq[r])' <=> DecidedAlike(m)'
        BY <1>3 DEF DecidedAlike
    <2> QED BY <1>4, <2>1
<1>8. changes'[r].seq # 0 =>
          changes'[r] = changes[r] /\ (DecidedAlike(changes[r].seq)' => DecidedAlike(n))
    <2>1. changes'[r].seq # 0 => changes'[r] = changes[r]
        BY NoChangesFacts
    <2>2. changes'[r].seq # 0 => (DecidedAlike(changes[r].seq)' <=> DecidedAlike(n)')
        BY <1>2, <2>1 DEF DecidedAlike
    <2> QED BY <1>4, <2>1, <2>2
<1>9. (Attached(r) /\ DecidedAlike(Position(r)) =>
           /\ Position(r) \in DOMAIN g /\ Same(engine[r], g[Position(r)])
           /\ policyIntent[r] = jv[Position(r)])'
    <2>1. ASSUME DecidedAlike(n)
          PROVE  n \in DOMAIN g /\ Same(engine'[r], g[n]) /\ policyIntent'[r] = jv[n]
        <3>1. n \in DOMAIN f /\ Same(engine[r], f[n]) /\ policyIntent[r] = iv[n]
            BY <1>1, <2>1 DEF ConvergeInv
        <3> QED BY <1>5, <3>1, SameIsEquivalence
    <2> QED BY <1>3, <1>6, <2>1
<1>10. (Attached(r) /\ Kept(r) /\ DecidedAlike(Position(r)) =>
           Covers(g[appliedSeq[r]], g[appliedSeq[r] + 1], dirtyGroups[r], dirtyAlarms[r]))'
    <2>1. ASSUME Kept(r), DecidedAlike(n)
          PROVE  Covers(g[m], g[m + 1], dirtyGroups'[r], dirtyAlarms'[r])
        <3>1. n \in DOMAIN f /\ Covers(f[m], f[m + 1], dirtyGroups[r], dirtyAlarms[r])
            BY <1>1, <2>1 DEF ConvergeInv
        <3>2. Covers(g[m], g[m + 1], dirtyGroups[r], dirtyAlarms[r])
            BY <1>2, <1>5, <2>1, <3>1
        <3> QED BY <2>1, <3>2, CoversMore
    <2> QED BY <1>3, <1>6, <2>1
<1>11. (changes[r].seq # 0 /\ DecidedAlike(changes[r].seq) =>
           /\ changes[r].seq \in DOMAIN g /\ Same(changes[r].eng, g[changes[r].seq])
           /\ Covers(g[appliedSeq[r]], g[appliedSeq[r] + 1],
                     changes[r].groups, changes[r].alarms)
           /\ changes[r].policy = {} => jv[appliedSeq[r] + 1] = jv[appliedSeq[r]]
           /\ changes[r].policy # {} => changes[r].policy = {jv[appliedSeq[r] + 1]})'
    <2>1. ASSUME changes[r].seq # 0, DecidedAlike(n)
          PROVE  /\ n \in DOMAIN f /\ Same(changes[r].eng, f[n])
                 /\ Covers(f[m], f[n], changes[r].groups, changes[r].alarms)
                 /\ changes[r].policy = {} => iv[n] = iv[m]
                 /\ changes[r].policy # {} => changes[r].policy = {iv[n]}
        BY <1>1, <1>2, <2>1 DEF ConvergeInv
    <2>2. ASSUME changes[r].seq # 0, DecidedAlike(n)
          PROVE  /\ n \in DOMAIN g /\ Same(changes[r].eng, g[n])
                 /\ Covers(g[m], g[n], changes[r].groups, changes[r].alarms)
                 /\ changes[r].policy = {} => jv[n] = jv[m]
                 /\ changes[r].policy # {} => changes[r].policy = {jv[n]}
        <3>1. g[n] = f[n] /\ jv[n] = iv[n] /\ g[m] = f[m] /\ jv[m] = iv[m] /\ n \in DOMAIN g
            BY <1>2, <1>5, <2>1, <2>2
        <3> QED BY <2>1, <2>2, <3>1
    <2> QED BY <1>2, <1>3, <1>8, <2>2
<1>12. (Attached(r) /\ DecidedAlike(appliedSeq[r]) => RootLive(engine[r]))'
    BY <1>1, <1>7 DEF ConvergeInv
<1> QED BY <1>9, <1>10, <1>11, <1>12 DEF ConvergeInv

LEMMA ReadNothingAgree ==
    ASSUME CoreInv, NEW f, NEW iv, AgreeInv(f, iv), NEW r \in Replica, Others(r), ReadNothing(r)
    PROVE  AgreeInv(f, iv)'
<1>1. Attached(r) /\ MarkHealthy(r, engine[r])
    BY DEF ReadNothing, Reading, Draining, Attached
<1>2. Same(engine'[r], engine[r]) /\ (RootLive(engine[r]) => RootLive(engine'[r]))
    BY <1>1, MarkHealthyFacts
<1>3. /\ journal' = journal /\ projection' = projection /\ policyIntent' = policyIntent
      /\ appliedSeq' = appliedSeq /\ changes' = changes /\ dirtyGroups' = dirtyGroups
      /\ dirtyAlarms' = dirtyAlarms /\ unprojectedSeq' = unprojectedSeq
    BY DEF ReadNothing, storeVars, dirtyVars
<1>4. Kept(r)' <=> Kept(r)
    BY <1>3 DEF Kept
<1>5. (Undisturbed' <=> Undisturbed) /\ swept \subseteq swept'
    BY DEF ReadNothing, historyVars, Undisturbed
<1>6. Continues(f, iv, f, iv)
    BY <1>3, <1>5, UnmovedHistory
<1>7. ASSUME Undisturbed' PROVE RowsConverge(f, iv)' /\ ConvergeInv(f, iv, r)'
    <2>1. RowsConverge(f, iv) /\ ConvergeInv(f, iv, r) /\ GoodHistory(f, iv)
        BY <1>5, <1>7 DEF AgreeInv
    <2>2. RowsConverge(f, iv)'
        BY <1>3, <1>6, <2>1, RowsConvergeStays
    <2>3. /\ policyIntent'[r] = policyIntent[r] /\ appliedSeq'[r] = appliedSeq[r]
          /\ changes'[r] \in {changes[r], NoChanges}
          /\ dirtyGroups[r] \subseteq dirtyGroups'[r] /\ dirtyAlarms[r] \subseteq dirtyAlarms'[r]
        BY <1>3
    <2> QED BY <1>1, <1>2, <1>4, <1>6, <2>1, <2>2, <2>3, SameAgrees
<1> QED BY <1>6, <1>7, AgreeStep

\* A fall-back for a caller that brought no alarm only changes what is hidden.
LEMMA FellBackSame ==
    ASSUME CoreInv, NEW r \in Replica, NEW call \in Call, NEW eff, FellBack(r, call, eff),
           fellBack' = fellBack \cup ({call.alarm} \cap Alarm), Undisturbed'
    PROVE  /\ Same(engine'[r], engine[r]) /\ (RootLive(engine[r]) => RootLive(engine'[r]))
           /\ Kept(r) => /\ dirtyGroups[r] \subseteq dirtyGroups'[r]
                         /\ dirtyAlarms[r] \subseteq dirtyAlarms'[r]
<1>1. call.alarm \notin Alarm
    BY DEF Undisturbed
<1>2. engine'[r] = eff.eng /\ (RootLive(engine[r]) => RootLive(engine'[r]))
      /\ dirtyGroups'[r] = (IF Kept(r) THEN dirtyGroups[r] \cup eff.groups ELSE {})
      /\ dirtyAlarms'[r] = (IF Kept(r) THEN dirtyAlarms[r] \cup eff.alarms ELSE {})
    BY FellBackFacts
<1>3. Same(eff.eng, engine[r])
    BY <1>1 DEF FellBack
<1> QED BY <1>2, <1>3

LEMMA SubmitFailsAgree ==
    ASSUME CoreInv, NEW f, NEW iv, AgreeInv(f, iv), NEW r \in Replica, Others(r),
           NEW op \in Operation, SubmitFails(r, op)
    PROVE  AgreeInv(f, iv)'
<1>1. op \in Call /\ FallBack(r, op) /\ Attached(r)
    BY DEF Call, SubmitFails, Attached
<1>2. PICK eff : FellBack(r, op, eff)
    BY <1>1, FallBackFacts
<1>3. fellBack' = fellBack \cup ({op.alarm} \cap Alarm)
    BY <1>1, FallBackFacts
<1>4. /\ projection' = projection /\ torn' = torn /\ policyIntent' = policyIntent
      /\ appliedSeq' = appliedSeq /\ changes' = changes /\ unprojectedSeq' = unprojectedSeq
      /\ journal' \in {journal, Appended(op)} /\ swept \subseteq swept'
    BY DEF SubmitFails, drainVars
<1>5. (Kept(r)' <=> Kept(r)) /\ changes'[r] \in {changes[r], NoChanges}
      /\ appliedSeq'[r] = appliedSeq[r] /\ policyIntent'[r] = policyIntent[r]
    BY <1>4 DEF Kept
<1>6. Undisturbed' => Undisturbed
    BY <1>3, <1>4 DEF Undisturbed
<1>7. Continues(f, iv, f, iv)
    BY <1>4, <1>6, AppendedHistory
<1>8. ASSUME Undisturbed' PROVE RowsConverge(f, iv)' /\ ConvergeInv(f, iv, r)'
    <2>1. RowsConverge(f, iv) /\ ConvergeInv(f, iv, r) /\ GoodHistory(f, iv)
        BY <1>6, <1>8 DEF AgreeInv
    <2>2. RowsConverge(f, iv)'
        BY <1>4, <1>7, <2>1, RowsConvergeStays
    <2>3. /\ Same(engine'[r], engine[r]) /\ (RootLive(engine[r]) => RootLive(engine'[r]))
          /\ Kept(r) => /\ dirtyGroups[r] \subseteq dirtyGroups'[r]
                        /\ dirtyAlarms[r] \subseteq dirtyAlarms'[r]
        BY <1>1, <1>2, <1>3, <1>8, FellBackSame
    <2> QED BY <1>1, <1>5, <1>7, <2>1, <2>2, <2>3, SameAgrees
<1> QED BY <1>7, <1>8, AgreeStep

LEMMA ReadFailsAgree ==
    ASSUME CoreInv, NEW f, NEW iv, AgreeInv(f, iv), NEW r \in Replica, Others(r), ReadFails(r)
    PROVE  AgreeInv(f, iv)'
<1>1. Draining(r) /\ DrainThrows(r)
    BY DEF ReadFails, Reading
<1>2. Attached(r) /\ changes'[r] = NoChanges
    BY <1>1, ThrowFacts
<1>3. PICK call, eff : /\ call \in Call /\ FellBack(r, call, eff)
                       /\ fellBack' = fellBack \cup ({call.alarm} \cap Alarm)
    BY <1>1, ThrowFacts
<1>4. /\ projection' = projection /\ torn' = torn /\ policyIntent'[r] = policyIntent[r]
      /\ appliedSeq'[r] = appliedSeq[r] /\ unprojectedSeq'[r] = unprojectedSeq[r]
      /\ journal' = journal /\ swept \subseteq swept'
    BY DEF ReadFails, storeVars
<1>5. changes[r].seq = 0
    BY CoreTypes DEF ReadFails, Reading, PositionInv
<1>6. Kept(r)' <=> Kept(r)
    BY <1>2, <1>4, <1>5, NoChangesFacts DEF Kept
<1>7. Undisturbed' => Undisturbed
    BY <1>3, <1>4 DEF Undisturbed
<1>8. Continues(f, iv, f, iv)
    BY <1>4, <1>7, UnmovedHistory
<1>9. ASSUME Undisturbed' PROVE RowsConverge(f, iv)' /\ ConvergeInv(f, iv, r)'
    <2>1. RowsConverge(f, iv) /\ ConvergeInv(f, iv, r) /\ GoodHistory(f, iv)
        BY <1>7, <1>9 DEF AgreeInv
    <2>2. RowsConverge(f, iv)'
        BY <1>4, <1>8, <2>1, RowsConvergeStays
    <2>3. /\ Same(engine'[r], engine[r]) /\ (RootLive(engine[r]) => RootLive(engine'[r]))
          /\ Kept(r) => /\ dirtyGroups[r] \subseteq dirtyGroups'[r]
                        /\ dirtyAlarms[r] \subseteq dirtyAlarms'[r]
        BY <1>3, <1>9, FellBackSame
    <2> QED BY <1>2, <1>4, <1>6, <1>8, <2>1, <2>2, <2>3, SameAgrees
<1> QED BY <1>8, <1>9, AgreeStep

LEMMA ProjectFailsAgree ==
    ASSUME CoreInv, NEW f, NEW iv, AgreeInv(f, iv), NEW r \in Replica, Others(r), ProjectFails(r)
    PROVE  AgreeInv(f, iv)'
<1>1. Draining(r) /\ DrainThrows(r) /\ changes[r].seq # 0
    BY DEF ProjectFails
<1>2. Attached(r) /\ changes'[r] = NoChanges
    BY <1>1, ThrowFacts
<1>3. PICK call, eff : /\ call \in Call /\ FellBack(r, call, eff)
                       /\ fellBack' = fellBack \cup ({call.alarm} \cap Alarm)
    BY <1>1, ThrowFacts
<1>4. /\ projection' \in {projection, Projected(changes[r])} /\ torn' = torn
      /\ appliedSeq'[r] = appliedSeq[r] /\ journal' = journal
      /\ unprojectedSeq' = Set(unprojectedSeq, r, changes[r].seq)
      /\ policyIntent'[r] = policyIntent[r] /\ swept \subseteq swept'
    BY DEF ProjectFails
<1>5. Kept(r)' /\ Kept(r)
    <2>1. unprojectedSeq'[r] = changes[r].seq
        BY <1>4, CoreTypes DEF Set, ReplicaTypes
    <2> QED BY <1>1, <2>1 DEF Kept
<1>6. Undisturbed' => Undisturbed
    BY <1>3, <1>4 DEF Undisturbed
<1>7. Continues(f, iv, f, iv)
    BY <1>4, <1>6, UnmovedHistory
<1>8. ASSUME Undisturbed' PROVE RowsConverge(f, iv)' /\ ConvergeInv(f, iv, r)'
    <2>1. RowsConverge(f, iv) /\ ConvergeInv(f, iv, r) /\ GoodHistory(f, iv)
        BY <1>6, <1>8 DEF AgreeInv
    <2>2. RowsConverge(f, iv)'
        <3>1. CASE projection' = projection
            BY <1>7, <2>1, <3>1, RowsConvergeStays
        <3>2. CASE projection' = Projected(changes[r])
            BY <1>1, <1>6, <1>7, <1>8, <3>2, RowsProjected
        <3> QED BY <1>4, <3>1, <3>2
    <2>3. /\ Same(engine'[r], engine[r]) /\ (RootLive(engine[r]) => RootLive(engine'[r]))
          /\ Kept(r) => /\ dirtyGroups[r] \subseteq dirtyGroups'[r]
                        /\ dirtyAlarms[r] \subseteq dirtyAlarms'[r]
        BY <1>3, <1>8, FellBackSame
    <2> QED BY <1>2, <1>4, <1>5, <1>7, <2>1, <2>2, <2>3, SameAgrees
<1> QED BY <1>7, <1>8, AgreeStep

LEMMA ReadPageAgree ==
    ASSUME CoreInv, NEW f, NEW iv, AgreeInv(f, iv), NEW r \in Replica, Others(r), ReadPage(r)
    PROVE  \E g, jv : AgreeInv(g, jv)'
<1>1. /\ Attached(r) /\ pageEnd[r] = 0 /\ appliedSeq[r] < Len(journal)
      /\ changes[r].seq = 0 /\ appliedSeq[r] \in Nat
    BY CoreTypes DEF ReadPage, Reading, Draining, Attached, PositionInv
<1>2. PICK n \in Nat : n = appliedSeq[r]
    BY <1>1
<1>3. PICK seq \in 1 .. Len(journal) : seq = n + 1 /\ seq \in Nat \ {0}
    BY <1>1, <1>2, CoreTypes
<1>4. PICK eff, old, pol : Applied(r, seq, eff, old, pol)
    BY <1>1, <1>2, <1>3, ApplyFacts DEF ReadPage
<1>5. AppliedTo(r, seq, eff, pol)
    BY <1>3, <1>4, AppliedFacts
<1>6. /\ journal' = journal /\ projection' = projection /\ fellBack' = fellBack
      /\ torn' = torn /\ appliedSeq' = appliedSeq
    BY DEF ReadPage, storeVars
<1>7. (Undisturbed' <=> Undisturbed) /\ swept \subseteq swept'
    BY <1>4, <1>6 DEF Undisturbed, Applied
<1>8. Forward /\ Continues(f, iv, f, iv)
    BY <1>6, <1>7, UnmovedHistory
<1>9. CASE ~Undisturbed'
    <2>1. AgreeInv(f, iv)'
        BY <1>8, <1>9, AgreeStep
    <2> QED BY <2>1
<1>10. CASE Undisturbed'
    <2>1. RowsConverge(f, iv) /\ ConvergeInv(f, iv, r) /\ GoodHistory(f, iv)
        BY <1>7, <1>10 DEF AgreeInv
    <2>2. (DecidedAlike(seq)' => DecidedAlike(seq)) /\ (DecidedAlike(n)' => DecidedAlike(n))
        BY <1>7, AlikeBefore
    <2>3. DecidedAlike(seq) => DecidedAlike(n)
        BY <1>3, AlikeShorter
    <2>4. DecidedAlike(seq)' =>
               \/ /\ n \in DOMAIN f /\ Same(engine[r], f[n]) /\ policyIntent[r] = iv[n]
                  /\ unprojectedSeq[r] # seq
               \/ /\ seq \in DOMAIN f /\ Same(engine[r], f[seq]) /\ policyIntent[r] = iv[seq]
                  /\ unprojectedSeq[r] = seq
                  /\ Covers(f[n], f[seq], dirtyGroups[r], dirtyAlarms[r])
        <3>1. CASE ~Kept(r)
            <4>1. Position(r) = n /\ unprojectedSeq[r] # seq
                BY <1>2, <1>3, <3>1 DEF Position, Kept
            <4> QED BY <1>1, <2>1, <2>2, <2>3, <4>1 DEF ConvergeInv
        <3>2. CASE Kept(r)
            <4>1. Position(r) = seq /\ unprojectedSeq[r] = seq
                BY <1>1, <1>2, <1>3, <3>2, CoreTypes DEF Position, Kept, PositionInv
            <4> QED BY <1>1, <1>2, <1>3, <2>1, <2>2, <3>2, <4>1 DEF ConvergeInv
        <3> QED BY <3>1, <3>2
    <2>5. DecidedAlike(n)' => RootLive(engine[r])
        BY <1>1, <1>2, <2>1, <2>2 DEF ConvergeInv
    <2>6. appliedSeq'[r] = n
        BY <1>2, <1>6
    <2>7. PICK g, jv : Continues(f, iv, g, jv) /\ ConvergeInv(g, jv, r)'
        BY <1>3, <1>4, <1>5, <1>6, <1>8, <2>1, <2>4, <2>5, <2>6, ApplyAgrees
    <2>8. RowsConverge(g, jv)'
        BY <1>6, <2>1, <2>7, RowsConvergeStays
    <2>9. AgreeInv(g, jv)'
        BY <2>7, <2>8, AgreeStep
    <2> QED BY <2>9
<1> QED BY <1>9, <1>10

LEMMA ProjectThenApplyAgree ==
    ASSUME CoreInv, NEW f, NEW iv, AgreeInv(f, iv), NEW r \in Replica, Others(r),
           ProjectThenApply(r)
    PROVE  \E g, jv : AgreeInv(g, jv)'
<1>1. /\ Attached(r) /\ changes[r].seq # 0 /\ changes[r].seq < pageEnd[r]
      /\ projection' = Projected(changes[r])
      /\ appliedSeq' = Set(appliedSeq, r, changes[r].seq)
    BY DEF ProjectThenApply, Commit, Draining, Attached
<1>2. PICK n \in Nat : n = changes[r].seq
    BY CoreTypes
<1>3. PICK seq \in 1 .. Len(journal) : seq = n + 1 /\ seq \in Nat \ {0}
    BY <1>1, <1>2, CoreTypes DEF PositionInv
<1>4. PICK eff, old, pol : Applied(r, seq, eff, old, pol)
    BY <1>1, <1>2, <1>3, ApplyFacts DEF ProjectThenApply
<1>5. AppliedTo(r, seq, eff, pol)
    BY <1>3, <1>4, AppliedFacts
<1>6. journal' = journal /\ fellBack' = fellBack /\ torn' = torn /\ appliedSeq'[r] = n
    BY <1>1, <1>2, CoreTypes DEF ProjectThenApply, Set, ReplicaTypes
<1>7. (Undisturbed' <=> Undisturbed) /\ swept \subseteq swept'
    BY <1>4, <1>6 DEF Undisturbed, Applied
<1>8. Forward /\ Continues(f, iv, f, iv)
    BY <1>6, <1>7, UnmovedHistory
<1>9. CASE ~Undisturbed'
    <2>1. AgreeInv(f, iv)'
        BY <1>8, <1>9, AgreeStep
    <2> QED BY <2>1
<1>10. CASE Undisturbed'
    <2>1. ConvergeInv(f, iv, r) /\ GoodHistory(f, iv)
        BY <1>7, <1>10 DEF AgreeInv
    <2>2. /\ Position(r) = n /\ appliedSeq[r] \in Nat /\ appliedSeq[r] <= n
          /\ unprojectedSeq[r] # seq
        BY <1>1, <1>2, <1>3, PositionFacts, CoreTypes DEF PositionInv
    <2>3. (DecidedAlike(seq)' => DecidedAlike(seq)) /\ (DecidedAlike(n)' => DecidedAlike(n))
        BY <1>7, AlikeBefore
    <2>4. DecidedAlike(seq) => DecidedAlike(n)
        BY <1>3, AlikeShorter
    <2>5. DecidedAlike(n) => DecidedAlike(appliedSeq[r])
        BY <2>2, AlikeShorter
    <2>6. DecidedAlike(seq)' => /\ n \in DOMAIN f /\ Same(engine[r], f[n])
                                /\ policyIntent[r] = iv[n]
        BY <1>1, <2>1, <2>2, <2>3, <2>4 DEF ConvergeInv
    <2>7. DecidedAlike(n)' => RootLive(engine[r])
        BY <1>1, <2>1, <2>3, <2>5 DEF ConvergeInv
    <2>8. PICK g, jv : Continues(f, iv, g, jv) /\ ConvergeInv(g, jv, r)'
        BY <1>3, <1>4, <1>5, <1>6, <1>8, <2>1, <2>2, <2>6, <2>7, ApplyAgrees
    <2>9. RowsConverge(g, jv)'
        BY <1>1, <1>7, <1>10, <2>8, RowsProjected
    <2>10. AgreeInv(g, jv)'
        BY <2>8, <2>9, AgreeStep
    <2> QED BY <2>10
<1> QED BY <1>9, <1>10

\* A replica with nothing left to project.
LEMMA SettledConverges ==
    ASSUME NEW f, NEW iv, NEW r \in Replica, NEW n, ~Kept(r)', appliedSeq'[r] = n,
           swept \subseteq swept',
           DecidedAlike(n) => /\ n \in DOMAIN f /\ Same(engine'[r], f[n])
                              /\ policyIntent'[r] = iv[n] /\ RootLive(engine'[r])
    PROVE  ConvergeInv(f, iv, r)'
<1>1. Position(r)' = n /\ changes'[r].seq = 0
    BY DEF Position, Kept
<1>2. /\ DecidedAlike(Position(r))' => DecidedAlike(n)
      /\ DecidedAlike(appliedSeq[r])' => DecidedAlike(n)
    <2>1. /\ DecidedAlike(Position(r))' <=> DecidedAlike(n)'
          /\ DecidedAlike(appliedSeq[r])' <=> DecidedAlike(n)'
        BY <1>1 DEF DecidedAlike
    <2> QED BY <2>1, AlikeBefore
<1> QED BY <1>1, <1>2 DEF ConvergeInv

LEMMA ProjectLastAgree ==
    ASSUME CoreInv, NEW f, NEW iv, AgreeInv(f, iv), NEW r \in Replica, Others(r),
           ProjectLast(r)
    PROVE  AgreeInv(f, iv)'
<1>1. /\ Attached(r) /\ changes[r].seq # 0 /\ MarkHealthy(r, engine[r])
      /\ projection' = Projected(changes[r])
      /\ appliedSeq' = Set(appliedSeq, r, changes[r].seq)
      /\ unprojectedSeq' = Set(unprojectedSeq, r, 0)
      /\ changes' = Set(changes, r, NoChanges)
    BY DEF ProjectLast, Commit, Draining, Attached
<1>2. PICK n \in Nat : n = changes[r].seq
    BY CoreTypes
<1>3. Same(engine'[r], engine[r]) /\ (RootLive(engine[r]) => RootLive(engine'[r]))
    BY <1>1, MarkHealthyFacts
<1>4. /\ appliedSeq'[r] = n /\ unprojectedSeq'[r] = 0 /\ changes'[r] = NoChanges
    BY <1>1, <1>2, CoreTypes DEF Set, ReplicaTypes
<1>5. ~Kept(r)'
    BY <1>4, NoChangesFacts DEF Kept
<1>6. /\ journal' = journal /\ policyIntent'[r] = policyIntent[r] /\ swept \subseteq swept'
      /\ (Undisturbed' <=> Undisturbed)
    BY DEF ProjectLast, historyVars, Undisturbed
<1>7. Continues(f, iv, f, iv)
    BY <1>6, UnmovedHistory
<1>8. ASSUME Undisturbed' PROVE RowsConverge(f, iv)' /\ ConvergeInv(f, iv, r)'
    <2>1. ConvergeInv(f, iv, r)
        BY <1>6, <1>8 DEF AgreeInv
    <2>2. RowsConverge(f, iv)'
        BY <1>1, <1>6, <1>7, <1>8, RowsProjected
    <2>3. Position(r) = n /\ appliedSeq[r] \in Nat /\ appliedSeq[r] <= n
        BY <1>1, <1>2, PositionFacts, CoreTypes
    <2>4. DecidedAlike(n) => DecidedAlike(appliedSeq[r])
        BY <2>3, AlikeShorter
    <2>5. DecidedAlike(n) => /\ n \in DOMAIN f /\ Same(engine[r], f[n])
                             /\ policyIntent[r] = iv[n] /\ RootLive(engine[r])
        BY <1>1, <2>1, <2>3, <2>4 DEF ConvergeInv
    <2>6. DecidedAlike(n) => /\ n \in DOMAIN f /\ Same(engine'[r], f[n])
                             /\ policyIntent'[r] = iv[n] /\ RootLive(engine'[r])
        BY <1>3, <1>6, <2>5, SameIsEquivalence
    <2> QED BY <1>4, <1>5, <1>6, <2>2, <2>6, SettledConverges
<1> QED BY <1>7, <1>8, AgreeStep

\* A load that read rows of one watermark adopts the engine of its prefix.
LEMMA LoadAlarmsAgree ==
    ASSUME CoreInv, NEW f, NEW iv, AgreeInv(f, iv), NEW r \in Replica, Others(r),
           LoadAlarms(r)
    PROVE  AgreeInv(f, iv)'
<1>1. PICK h, x : /\ HydratedTo(loaded[r], projection, h)
                  /\ PolicyTo(h, loaded[r].intent, x) /\ engine' = Set(engine, r, x)
    BY LoadAlarmsFacts
<1>2. ~Attached(r) /\ changes[r].seq = 0
    BY CoreTypes DEF LoadAlarms, Attached, PositionInv
<1>3. /\ engine'[r] = x /\ appliedSeq'[r] = loaded[r].seq /\ unprojectedSeq'[r] = 0
      /\ policyIntent'[r] = loaded[r].intent /\ changes'[r] = changes[r]
    BY <1>1, CoreTypes DEF LoadAlarms, Set, ReplicaTypes
<1>4. ~Kept(r)'
    BY <1>2, <1>3 DEF Kept
<1>5. /\ journal' = journal /\ projection' = projection /\ swept \subseteq swept'
      /\ (Undisturbed' => Undisturbed /\ projection = loaded[r])
    BY DEF LoadAlarms, storeVars, Undisturbed
<1>6. Continues(f, iv, f, iv)
    BY <1>5, UnmovedHistory
<1>7. ASSUME Undisturbed' PROVE RowsConverge(f, iv)' /\ ConvergeInv(f, iv, r)'
    <2>1. RowsConverge(f, iv) /\ GoodHistory(f, iv)
        BY <1>5, <1>7 DEF AgreeInv
    <2>2. RowsConverge(f, iv)'
        BY <1>5, <1>6, <2>1, RowsConvergeStays
    <2>3. PICK n : n = projection.seq /\ n \in 0 .. Len(journal)
        BY PositionFacts
    <2>4. PICK e : e = f[n]
        OBVIOUS
    <2>5. n \in DOMAIN f => GoodEngine(e) /\ RootLive(e) /\ UntrackedActive(e)
        BY <2>1, <2>4 DEF GoodHistory
    <2>6. ASSUME DecidedAlike(n)
          PROVE  n \in DOMAIN f /\ Same(x, e) /\ loaded[r].intent = iv[n] /\ RootLive(x)
        <3>1. n \in DOMAIN f /\ RowsAre(projection, e) /\ projection.intent = iv[n]
            BY <2>1, <2>3, <2>4, <2>6 DEF RowsConverge
        <3>2. projection = loaded[r] /\ GoodRows(projection)
            BY <1>5, <1>7, CoreTypes DEF StoreInv
        <3>3. \A a \in Alarm : h.where[a] = e.where[a]
            BY <1>1, <3>1, <3>2 DEF HydratedTo, GoodRows, RowsAre
        <3>4. h.where = e.where
            BY <1>1, <2>5, <3>1, <3>3 DEF HydratedTo, GoodEngine, Engine
        <3>5. h.root = e.root /\ h.open = e.open
            BY <1>1, <3>1, <3>2 DEF HydratedTo, RowsAre
        <3>6. ASSUME NEW a \in Alarm PROVE Restored(h.state[a]) = Restored(e.state[a])
            <4>1. CASE h.where[a] = Untracked
                BY <1>1, <2>5, <3>1, <3>3, <4>1 DEF HydratedTo, UntrackedActive
            <4>2. CASE h.where[a] # Untracked
                BY <1>1, <3>1, <4>2 DEF HydratedTo, RowsAre
            <4> QED BY <4>1, <4>2
        <3>7. Same(h, e)
            BY <3>4, <3>5, <3>6 DEF Same
        <3>8. Same(x, h)
            BY <1>1 DEF PolicyTo
        <3>9. Same(x, e) /\ Same(e, x)
            BY <3>7, <3>8, SameIsEquivalence
        <3>10. RootLive(x)
            BY <2>5, <3>1, <3>9, SameRootLive
        <3> QED BY <3>1, <3>2, <3>9, <3>10
    <2>7. appliedSeq'[r] = n
        BY <1>3, <1>5, <1>7, <2>3
    <2>8. ConvergeInv(f, iv, r)'
        BY <1>3, <1>4, <1>5, <2>4, <2>6, <2>7, SettledConverges
    <2> QED BY <2>2, <2>8
<1> QED BY <1>6, <1>7, AgreeStep

LEMMA InitAgree == Init => Agreement
<1> SUFFICES ASSUME Init PROVE Agreement
    OBVIOUS
<1>1. Len(journal) = 0 /\ NoRows.seq = 0 /\ projection.seq = 0
    BY DEF Init, NoRows
<1>2. PICK f, iv : f = [i \in 0 .. 0 |-> EmptyEngine] /\ iv = [i \in 0 .. 0 |-> TRUE]
    OBVIOUS
<1>3. GoodEngine(EmptyEngine) /\ RootLive(EmptyEngine) /\ EmptyEngine \in Engine
    BY EmptyGood DEF GoodEngine
<1>4. UntrackedActive(EmptyEngine)
    BY DEF UntrackedActive, EmptyEngine, Restored
<1>5. f[0] = EmptyEngine /\ iv[0] = TRUE /\ \A i \in 0 .. 0 : f[i] = EmptyEngine
    BY <1>2
<1>6. 0 \in DOMAIN f
    BY <1>2
<1>7. IsHistory(f, iv)
    <2>1. f \in [0 .. 0 -> Engine] /\ iv \in [0 .. 0 -> BOOLEAN] /\ DOMAIN f \ {0} = {}
        BY <1>2, <1>3
    <2>2. 0 \in 0 .. Len(journal)
        BY <1>1
    <2> QED BY <1>5, <2>1, <2>2 DEF IsHistory
<1>8. GoodHistory(f, iv)
    <2>1. DOMAIN f = 0 .. 0
        BY <1>2
    <2> QED BY <1>3, <1>4, <1>5, <1>7, <2>1 DEF GoodHistory
<1>9. RowsConverge(f, iv)
    <2>1. RowsAre(NoRows, EmptyEngine)
        BY DEF RowsAre, NoRows, EmptyEngine
    <2>2. NoRows.intent = TRUE
        BY DEF NoRows
    <2> QED BY <1>1, <1>5, <1>6, <2>1, <2>2 DEF RowsConverge, Init
<1>10. ASSUME NEW r \in Replica PROVE ConvergeInv(f, iv, r)
    <2>1. PICK e : e = [EmptyEngine EXCEPT !.enabled = TRUE]
        OBVIOUS
    <2>2. /\ e.where = EmptyEngine.where /\ e.state = EmptyEngine.state
          /\ e.root = EmptyEngine.root /\ e.open = EmptyEngine.open
        BY <1>3, <2>1 DEF Engine
    <2>3. engine[r] = e /\ policyIntent[r] = TRUE /\ appliedSeq[r] = 0
        BY <2>1 DEF Init
    <2>4. ~Kept(r) /\ changes[r].seq = 0 /\ Position(r) = 0
        BY <2>3 DEF Init, Kept, NoChanges, Position
    <2>5. Same(e, EmptyEngine) /\ Same(EmptyEngine, e)
        BY <2>2 DEF Same
    <2>6. RootLive(e)
        BY <1>3, <2>5, SameRootLive
    <2> QED BY <1>5, <1>6, <2>3, <2>4, <2>5, <2>6 DEF ConvergeInv
<1>11. AgreeInv(f, iv)
    BY <1>8, <1>9, <1>10 DEF AgreeInv
<1> QED BY <1>11 DEF Agreement

LEMMA AgreeUnchanged ==
    ASSUME CoreInv, NEW f, NEW iv, AgreeInv(f, iv), UNCHANGED vars
    PROVE  AgreeInv(f, iv)'
<1>1. ASSUME NEW s \in Replica PROVE Still(s)
    BY DEF vars, replicaVars, dirtyVars, drainVars, Still, Attached
<1>2. /\ journal' = journal /\ projection' = projection /\ swept \subseteq swept'
      /\ (Undisturbed' <=> Undisturbed)
    BY DEF vars, storeVars, historyVars, Undisturbed
<1>3. Continues(f, iv, f, iv)
    BY <1>2, UnmovedHistory
<1>4. ASSUME Undisturbed'
      PROVE  RowsConverge(f, iv)' /\ \A s \in Replica : ConvergeInv(f, iv, s)'
    <2>1. /\ RowsConverge(f, iv) /\ GoodHistory(f, iv)
          /\ \A s \in Replica : ConvergeInv(f, iv, s)
        BY <1>2, <1>4 DEF AgreeInv
    <2>2. RowsConverge(f, iv)'
        BY <1>2, <1>3, <2>1, RowsConvergeStays
    <2>3. \A s \in Replica : ConvergeInv(f, iv, s)'
        BY <1>1, <1>3, <2>1, AgreeOthers
    <2> QED BY <2>2, <2>3
<1> QED BY <1>3, <1>4 DEF Continues, AgreeInv

LEMMA AgreeNext == CoreInv /\ Agreement /\ [Next]_vars => Agreement'
<1> SUFFICES ASSUME CoreInv, Agreement, [Next]_vars PROVE Agreement'
    OBVIOUS
<1>1. PICK f, iv : AgreeInv(f, iv)
    BY DEF Agreement
<1>2. SUFFICES \E g, jv : AgreeInv(g, jv)'
    BY DEF Agreement
<1>3. CASE UNCHANGED vars
    BY <1>1, <1>3, AgreeUnchanged
<1>4. CASE Next
    <2>1. PICK r \in Replica :
              \/ ReplicaStep(r)
              \/ \E op \in Operations[r] : Submit(r, op) \/ SubmitFails(r, op)
              \/ ReadFails(r) \/ ProjectFails(r)
              \/ Crash(r) \/ LoadState(r) \/ LoadFails(r)
        BY <1>4 DEF Next
    <2>2. Operations[r] \subseteq Operation
        BY CoordinationAssumption
    <2>3. Others(r)
        BY <2>1, StepOthers
    <2>4. CASE ReadPage(r) \/ ProjectThenApply(r)
        BY <1>1, <2>3, <2>4, ReadPageAgree, ProjectThenApplyAgree
    <2>5. CASE \/ Poll(r) \/ ReadNothing(r) \/ ProjectLast(r) \/ LoadGroups(r) \/ LoadAlarms(r)
               \/ ReadFails(r) \/ ProjectFails(r)
               \/ Crash(r) \/ LoadState(r) \/ LoadFails(r)
        <3>1. AgreeInv(f, iv)'
            BY <1>1, <2>3, <2>5, PollAgree, ReadNothingAgree, ProjectLastAgree, LoadAgree,
               LoadAlarmsAgree, ReadFailsAgree, ProjectFailsAgree, CrashAgree
        <3> QED BY <3>1
    <2>6. CASE \E op \in Operations[r] : Submit(r, op) \/ SubmitFails(r, op)
        <3>1. AgreeInv(f, iv)'
            BY <1>1, <2>2, <2>3, <2>6, SubmitAgree, SubmitFailsAgree
        <3> QED BY <3>1
    <2> QED BY <2>1, <2>4, <2>5, <2>6 DEF ReplicaStep
<1> QED BY <1>3, <1>4

LEMMA AgreeAlways == Spec => []Agreement
<1>1. Init => Agreement
    BY InitAgree
<1>2. CoreInv /\ Agreement /\ [Next]_vars => Agreement'
    BY AgreeNext
<1> QED BY <1>1, <1>2, CoreAlways, PTL DEF Spec

\* Replicas that consumed the same prefix of the journal and have nothing left to
\* project hold the same groups, roots and, when equally healthy, the same alarm
\* states, sweeps included: seq-derived group ids, watermarked projection, retried
\* entries and hydration all lead to the engine that the prefix and the decisions
\* taken for its sweeps determine, as long as the replicas' clocks decided alike.
THEOREM ReplicasConverge == Spec => []Converged
<1>1. CoreInv /\ Agreement => Converged
    <2> SUFFICES ASSUME CoreInv, Agreement, Undisturbed, NEW r \in Replica, NEW s \in Replica,
                        Settled(r), Settled(s), appliedSeq[r] = appliedSeq[s],
                        DecidedAlike(appliedSeq[r])
                 PROVE  /\ engine[r].where = engine[s].where
                        /\ engine[r].root = engine[s].root
                        /\ engine[r].open = engine[s].open
                        /\ healthy[r] = healthy[s] => engine[r].state = engine[s].state
        BY DEF Converged, Undisturbed
    <2>1. PICK f, iv : AgreeInv(f, iv)
        BY DEF Agreement
    <2>2. ConvergeInv(f, iv, r) /\ ConvergeInv(f, iv, s)
        BY <2>1 DEF AgreeInv
    <2>3. PICK n : n = appliedSeq[r]
        OBVIOUS
    <2>4. /\ Attached(r) /\ Attached(s) /\ Position(r) = n /\ Position(s) = n
        BY <2>3 DEF Settled, Position, Kept
    <2>5. /\ Same(engine[r], f[n]) /\ policyIntent[r] = iv[n]
          /\ Same(engine[s], f[n]) /\ policyIntent[s] = iv[n]
        BY <2>2, <2>3, <2>4 DEF ConvergeInv
    <2>6. Same(engine[r], engine[s])
        BY <2>5, SameIsEquivalence
    <2>7. /\ GoodEngine(engine[r]) /\ (engine[r].enabled <=> healthy[r] /\ policyIntent[r])
          /\ GoodEngine(engine[s]) /\ (engine[s].enabled <=> healthy[s] /\ policyIntent[s])
        BY <2>4, CoreTypes DEF EngineInv
    <2>8. ASSUME healthy[r] = healthy[s] PROVE engine[r].state = engine[s].state
        <3>1. engine[r].enabled \in BOOLEAN /\ engine[s].enabled \in BOOLEAN
            BY <2>7 DEF GoodEngine, Engine
        <3>2. engine[r].enabled <=> engine[s].enabled
            BY <2>5, <2>7, <2>8
        <3>3. engine[r].enabled = engine[s].enabled
            BY <3>1, <3>2
        <3> QED BY <2>6, <2>7, <3>3, SameState DEF GoodEngine
    <2> QED BY <2>6, <2>8 DEF Same
<1> QED BY <1>1, CoreAlways, AgreeAlways, PTL

\* A hidden alarm is below the severity floor and hangs on another member of its
\* open group, whatever rows applySuppression was run over; and unless the rows
\* of disagreeing engines were adopted, that root is not cleared, so the clear
\* that closes the group is still to come and will show the alarm.
THEOREM HiddenRestorable == Spec => []HiddenIsRestorable
<1>1. CoreInv /\ Agreement => HiddenIsRestorable
    <2> SUFFICES ASSUME CoreInv, Agreement, NEW r \in Replica, Attached(r),
                        NEW a \in Suppressed(engine[r]), NEW g, g = engine[r].where[a],
                        NEW root, root = engine[r].root[g]
                 PROVE  /\ a \notin Critical /\ g \in engine[r].open
                        /\ root \in Members(engine[r], g) \ {a}
                        /\ RowsAgree(r) => engine[r].state[root] # "cleared"
        BY DEF HiddenIsRestorable
    <2>1. GoodEngine(engine[r]) /\ (restarts = 0 => RootLive(engine[r]))
        BY CoreTypes DEF EngineInv
    <2>2. Hides(engine[r], a)
        BY <2>1 DEF GoodEngine, Exact, Suppressed, Tracked
    <2>3. /\ a \notin Critical /\ g \in engine[r].open
          /\ root \in Members(engine[r], g) \ {a}
        BY <2>2 DEF Hides
    <2>4. ASSUME RowsAgree(r) PROVE RootLive(engine[r])
        <3>1. CASE restarts = 0
            BY <2>1, <3>1
        <3>2. CASE Undisturbed /\ DecidedAlike(appliedSeq[r])
            <4>1. PICK f, iv : AgreeInv(f, iv)
                BY DEF Agreement
            <4> QED BY <3>2, <4>1 DEF AgreeInv, ConvergeInv
        <3> QED BY <2>4, <3>1, <3>2 DEF RowsAgree, Undisturbed
    <2>5. RowsAgree(r) => engine[r].state[root] # "cleared"
        BY <2>3, <2>4 DEF RootLive
    <2> QED BY <2>3, <2>5
<1> QED BY <1>1, CoreAlways, AgreeAlways, PTL

=============================================================================
