------------------------- MODULE CorrelationEngine -------------------------
(***************************************************************************)
(* The alarm correlation engine                                            *)
(* (server/services/alarm-correlation/engine.ts, rules.ts): the in-memory  *)
(* state of one replica and its synchronous operations, as functions from  *)
(* an engine state to the next one.                                        *)
(*                                                                         *)
(* Alarms are numbered by timestamp, one root-election bucket apart, so    *)
(* the elected root is the earliest eligible member.  The enabled rules,   *)
(* the topology and the sites are constant: two alarms are related when    *)
(* some rule pairs them.  The caps on groups, members and pending alarms   *)
(* and the age limits between alarm timestamps are not reached; shelved    *)
(* alarms and counters are left out.                                       *)
(***************************************************************************)
EXTENDS Integers, FiniteSets, FiniteSetsExt

CONSTANTS
    Alarm,     \* alarm ids, ordered by timestamp
    Related,   \* pairs {a, b} of alarms some enabled rule matches
    Critical,  \* alarms at or above neverSuppressAtOrAbove
    GroupId    \* ids a group may get

ASSUME EngineAssumption ==
    /\ Alarm \subseteq Nat \ {0} /\ IsFiniteSet(Alarm)
    /\ GroupId \subseteq Nat \ {0}
    /\ Related \subseteq SUBSET Alarm /\ Critical \subseteq Alarm

\* alarmIndex: undefined, null (pending), or the alarm's group.
Untracked == -1
Ungrouped == 0
Nobody == 0

AlarmState == {"active", "acknowledged", "cleared", "suppressed"}

Engine == [where   : [Alarm -> {Untracked, Ungrouped} \cup GroupId],
           state   : [Alarm -> AlarmState],
           root    : [GroupId -> Alarm \cup {Nobody}], \* Nobody: no such group
           open    : SUBSET GroupId,
           enabled : BOOLEAN]                          \* suppressionPolicy

EmptyEngine ==
    [where |-> [a \in Alarm |-> Untracked], state |-> [a \in Alarm |-> "active"],
     root |-> [g \in GroupId |-> Nobody], open |-> {}, enabled |-> FALSE]

Tracked(e) == {a \in Alarm : e.where[a] # Untracked}
Pending(e) == {a \in Alarm : e.where[a] = Ungrouped}
Members(e, g) == {a \in Alarm : e.where[a] = g}
Suppressed(e) == {a \in Tracked(e) : e.state[a] = "suppressed"}

\* What an operation did: the new engine, and the groups and alarms its events
\* named, which the coordinator marks dirty.
Effect(e, gs, as) == [eng |-> e, groups |-> gs, alarms |-> as]
GroupEffect(e, gs) == Effect(e, gs, UNION {Members(e, g) : g \in gs})
NoEffect(e) == Effect(e, {}, {})

-----------------------------------------------------------------------------
\* electRootCause: cleared members are not eligible; nobody eligible keeps the
\* root.
ElectRootCause(e, g) ==
    LET eligible == {a \in Members(e, g) : e.state[a] # "cleared"}
    IN  IF eligible = {} THEN e ELSE [e EXCEPT !.root[g] = Min(eligible)]

Restored(s) == IF s = "suppressed" THEN "active" ELSE s

\* applySuppression (with unsuppressActiveMembers when the policy is off): hide
\* the active members other than the root and below the severity floor.
ApplySuppression(e, g) ==
    [e EXCEPT !.state = [a \in Alarm |->
        IF a \notin Members(e, g) THEN @[a]
        ELSE IF /\ e.enabled /\ a # e.root[g] /\ e.root[g] \in Members(e, g)
                /\ a \notin Critical /\ @[a] \in {"active", "suppressed"}
             THEN "suppressed" ELSE Restored(@[a])]]

\* reconcilePending: the uncleared pending alarms reachable from a group's
\* members through the rules, in as many passes as it takes.
Admitted(e, g) ==
    LET candidates == {b \in Pending(e) : e.state[b] # "cleared"}
        closed(S) == \A b \in candidates \ S :
                         \A m \in Members(e, g) \cup S : {b, m} \notin Related
    IN  {b \in candidates : \A S \in SUBSET candidates : closed(S) => b \in S}

\* joinGroup and formGroup after the new members are chosen, then the pending
\* alarms they bring in; election and suppression look at the result.
Grouped(e, g, as) ==
    LET seeded == [e EXCEPT !.where = [b \in Alarm |->
                                           IF b \in as THEN g ELSE @[b]]]
        more == Admitted(seeded, g)
        joined == [seeded EXCEPT
                      !.where = [b \in Alarm |-> IF b \in more THEN g ELSE @[b]],
                      !.open = @ \cup {g}]
    IN  ApplySuppression(ElectRootCause(joined, g), g)

\* ingest: a known id changes nothing; else join the most recently active open
\* group a rule matches, else form one with a pending alarm, else wait.  The
\* peer is the newest pending one; reconcilePending then admits the other peers.
Ingest(e, a, newGroup) ==
    LET fresh == [e EXCEPT !.state[a] = "active"]
        matching == {g \in e.open : \E m \in Members(e, g) : {a, m} \in Related}
        peers == {b \in Pending(e) : e.state[b] # "cleared" /\ {a, b} \in Related}
        latest == CHOOSE g \in matching : \A h \in matching :
                      Max(Members(e, g)) >= Max(Members(e, h))
    IN  IF e.where[a] # Untracked THEN NoEffect(e)
        ELSE IF matching # {}
             THEN GroupEffect(Grouped(fresh, latest, {a}), {latest})
        ELSE IF peers # {}
             THEN GroupEffect(Grouped(fresh, newGroup, {a} \cup peers), {newGroup})
        ELSE Effect([fresh EXCEPT !.where[a] = Ungrouped], {}, {a})

\* closeGroup: everything the group hid is shown again.
CloseGroups(e, gs) ==
    [e EXCEPT !.open = @ \ gs,
              !.state = [a \in Alarm |-> IF e.where[a] \in gs
                                         THEN Restored(@[a]) ELSE @[a]]]

\* Mutant of AlarmCleared: the root's clear does not close the group.
AlarmClearedOpen(e, a) ==
    LET g == e.where[a]
        cleared == [e EXCEPT !.state[a] = "cleared"]
    IN  IF g = Untracked \/ e.state[a] = "cleared" THEN NoEffect(e)
        ELSE IF g = Ungrouped THEN Effect(cleared, {}, {a})
        ELSE GroupEffect(cleared, {g})

\* alarmCleared: the clear of an open group's root closes the group.
AlarmCleared(e, a) ==
    LET g == e.where[a]
        cleared == [e EXCEPT !.state[a] = "cleared"]
    IN  IF g = Untracked \/ e.state[a] = "cleared" THEN NoEffect(e)
        ELSE IF g = Ungrouped THEN Effect(cleared, {}, {a})
        ELSE IF g \in e.open /\ e.root[g] = a
             THEN GroupEffect(CloseGroups(cleared, {g}), {g})
        ELSE GroupEffect(cleared, {g})

\* alarmAcknowledged: from active or suppressed only.
AlarmAcknowledged(e, a) ==
    LET g == e.where[a]
        acked == [e EXCEPT !.state[a] = "acknowledged"]
    IN  IF g = Untracked \/ e.state[a] \notin {"active", "suppressed"}
        THEN NoEffect(e)
        ELSE IF g = Ungrouped THEN Effect(acked, {}, {a})
        ELSE GroupEffect(acked, {g})

\* sweep: idle groups are closed and old pending alarms forgotten.  Idleness is
\* measured from the time this process last touched the group or the alarm.
Sweep(e, idle, old) ==
    LET closed == CloseGroups(e, idle)
        gone == [closed EXCEPT
                    !.where = [a \in Alarm |-> IF a \in old THEN Untracked
                                               ELSE @[a]],
                    !.state = [a \in Alarm |-> IF a \in old THEN "active"
                                               ELSE @[a]]]
    IN  Effect(gone, idle, (UNION {Members(e, g) : g \in idle}) \cup old)

\* setSuppressionPolicy: every open group is suppressed anew and announced.
SetSuppressionPolicy(e, on) ==
    LET set == [e EXCEPT !.enabled = on]
    IN  GroupEffect(
            [set EXCEPT !.state = [a \in Alarm |->
                IF e.where[a] \in e.open
                THEN ApplySuppression(set, e.where[a]).state[a] ELSE @[a]]],
            e.open)

\* hydrate, from group rows and alarm rows: an alarm whose group row is missing
\* is in no snapshot group and is not pending; what no open group hides is shown.
Hydrate(groups, alarms) ==
    LET where == [a \in Alarm |->
                     IF alarms.where[a] \in GroupId
                        /\ groups.root[alarms.where[a]] = Nobody
                     THEN Untracked ELSE alarms.where[a]]
    IN  [where |-> where, root |-> groups.root, open |-> groups.open,
         enabled |-> FALSE,
         state |-> [a \in Alarm |->
                       IF where[a] = Untracked THEN "active"
                       ELSE IF where[a] \in groups.open THEN alarms.state[a]
                       ELSE Restored(alarms.state[a])]]

=============================================================================
