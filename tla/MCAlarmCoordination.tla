------------------------ MODULE MCAlarmCoordination ------------------------
(* Finite instances of AlarmCoordination: alarm 2 belongs with both others,  *)
(* the third one is above the severity floor.                                *)
EXTENDS AlarmCoordination

CONSTANTS r1, r2

MCReplica == {r1, r2}
MCFlaky == {r1}
MCAlarm == 1 .. 3
MCRelated == {{1, 2}, {2, 3}}
MCCritical == {3}
MCGroupId == 1 .. (MaxSubmits + MaxFaults)

Ingests(as) == {[op |-> "ingest", alarm |-> a] : a \in as}
Clear1 == [op |-> "clear", alarm |-> 1]
Acknowledge2 == [op |-> "acknowledge", alarm |-> 2]
SweepNow == [op |-> "sweep", alarm |-> 0]
PolicyOff == [op |-> "policy-off", alarm |-> 0]

\* Alarm 2 is reported to both replicas; each replica gets its own configuration
\* and timer requests.
MCOperations ==
    [r \in Replica |->
        IF r \in Flaky THEN Ingests({2, 3}) \cup {Clear1, SweepNow}
                       ELSE Ingests({1, 2}) \cup {Clear1, Acknowledge2, PolicyOff}]

\* For the claims that fail: four alarms and then a sweep, journaled in one order.
MCFour == 1 .. 4
MCOnePair == {{1, 2}}
MCAlarmsAndSweep ==
    [r \in Replica |-> IF r \in Flaky THEN Ingests({3})
                                      ELSE Ingests({1, 2, 4}) \cup {SweepNow}]
MCInOrder ==
    IsPrefix(journal, [i \in 1 .. 4 |-> [op |-> "ingest", alarm |-> <<3, 4, 1, 2>>[i]]]
                          \o <<SweepNow>>)

=============================================================================
