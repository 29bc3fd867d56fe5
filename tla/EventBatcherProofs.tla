------------------------- MODULE EventBatcherProofs -------------------------
(***************************************************************************)
(* Proofs about the event batcher, for every batch size, every number of   *)
(* events, callers and failing flushes.                                    *)
(***************************************************************************)
EXTENDS EventBatcher, SequenceTheorems, TLAPS

-----------------------------------------------------------------------------
(* Sequences of events *)

\* Membership, injectivity and order of a concatenation, in terms of its parts.
LEMMA ConcatContains ==
    ASSUME NEW S, NEW s \in Seq(S), NEW t \in Seq(S), NEW e
    PROVE  Contains(s \o t, e) <=> Contains(s, e) \/ Contains(t, e)
<1>1. /\ Len(s) \in Nat /\ Len(t) \in Nat
      /\ Len(s \o t) = Len(s) + Len(t)
      /\ \A i \in 1 .. Len(s) + Len(t) :
            (s \o t)[i] = IF i <= Len(s) THEN s[i] ELSE t[i - Len(s)]
    BY ConcatProperties, LenProperties
<1>2. ASSUME Contains(s \o t, e) PROVE Contains(s, e) \/ Contains(t, e)
    <2>1. PICK i \in 1 .. Len(s) + Len(t) : (s \o t)[i] = e
        BY <1>1, <1>2 DEF Contains
    <2>2. CASE i <= Len(s)
        BY <1>1, <2>1, <2>2 DEF Contains
    <2>3. CASE i > Len(s)
        <3>1. i - Len(s) \in 1 .. Len(t) /\ t[i - Len(s)] = e
            BY <1>1, <2>1, <2>3
        <3> QED BY <3>1 DEF Contains
    <2> QED BY <1>1, <2>1, <2>2, <2>3
<1>3. ASSUME Contains(s, e) PROVE Contains(s \o t, e)
    <2>1. PICK i \in 1 .. Len(s) : s[i] = e
        BY <1>3 DEF Contains
    <2>2. i \in 1 .. Len(s) + Len(t) /\ (s \o t)[i] = e
        BY <1>1, <2>1
    <2> QED BY <1>1, <2>2 DEF Contains
<1>4. ASSUME Contains(t, e) PROVE Contains(s \o t, e)
    <2>1. PICK j \in 1 .. Len(t) : t[j] = e
        BY <1>4 DEF Contains
    <2>2. /\ Len(s) + j \in 1 .. Len(s) + Len(t)
          /\ (s \o t)[Len(s) + j] = e
        BY <1>1, <2>1
    <2> QED BY <1>1, <2>2 DEF Contains
<1> QED BY <1>2, <1>3, <1>4

LEMMA AppendContains ==
    ASSUME NEW S, NEW s \in Seq(S), NEW x \in S, NEW e
    PROVE  Contains(Append(s, x), e) <=> Contains(s, e) \/ e = x
<1>1. /\ Len(s) \in Nat /\ Len(Append(s, x)) = Len(s) + 1
      /\ \A i \in 1 .. Len(s) : Append(s, x)[i] = s[i]
      /\ Append(s, x)[Len(s) + 1] = x
    BY AppendProperties, LenProperties
<1> QED BY <1>1 DEF Contains

\* No element of s is one of t.
Apart(s, t) ==
    \A i \in 1 .. Len(s), j \in 1 .. Len(t) : s[i] # t[j]

LEMMA ConcatInjective ==
    ASSUME NEW S, NEW s \in Seq(S), NEW t \in Seq(S)
    PROVE  IsInjective(s \o t) <=>
               IsInjective(s) /\ IsInjective(t) /\ Apart(s, t)
<1>1. /\ Len(s) \in Nat /\ Len(t) \in Nat
      /\ DOMAIN s = 1 .. Len(s) /\ DOMAIN t = 1 .. Len(t)
      /\ DOMAIN (s \o t) = 1 .. Len(s) + Len(t)
      /\ \A i \in 1 .. Len(s) + Len(t) :
            (s \o t)[i] = IF i <= Len(s) THEN s[i] ELSE t[i - Len(s)]
    BY ConcatProperties, LenProperties
<1>a. \A i \in 1 .. Len(s) : i \in 1 .. Len(s) + Len(t) /\ (s \o t)[i] = s[i]
    BY <1>1
<1>b. \A j \in 1 .. Len(t) : /\ Len(s) + j \in 1 .. Len(s) + Len(t)
                             /\ (s \o t)[Len(s) + j] = t[j]
    BY <1>1
<1>2. ASSUME IsInjective(s \o t) PROVE IsInjective(s)
    BY <1>1, <1>2, <1>a DEF IsInjective
<1>3. ASSUME IsInjective(s \o t) PROVE IsInjective(t)
    <2> SUFFICES ASSUME NEW i \in 1 .. Len(t), NEW j \in 1 .. Len(t), t[i] = t[j]
                 PROVE  i = j
        BY <1>1 DEF IsInjective
    <2>1. Len(s) + i = Len(s) + j
        BY <1>1, <1>3, <1>b DEF IsInjective
    <2> QED BY <1>1, <2>1
<1>4. ASSUME IsInjective(s \o t) PROVE Apart(s, t)
    <2> SUFFICES ASSUME NEW i \in 1 .. Len(s), NEW j \in 1 .. Len(t), s[i] = t[j]
                 PROVE  FALSE
        BY DEF Apart
    <2>1. i = Len(s) + j
        BY <1>1, <1>4, <1>a, <1>b DEF IsInjective
    <2> QED BY <1>1, <2>1
<1>5. ASSUME IsInjective(s), IsInjective(t), Apart(s, t)
      PROVE  IsInjective(s \o t)
    <2> SUFFICES ASSUME NEW i \in 1 .. Len(s) + Len(t),
                        NEW j \in 1 .. Len(s) + Len(t), (s \o t)[i] = (s \o t)[j]
                 PROVE  i = j
        BY <1>1 DEF IsInjective
    <2>1. CASE i <= Len(s) /\ j <= Len(s)
        BY <1>1, <1>5, <2>1 DEF IsInjective
    <2>2. CASE i <= Len(s) /\ j > Len(s)
        BY <1>1, <1>5, <2>2 DEF Apart
    <2>3. CASE i > Len(s) /\ j <= Len(s)
        BY <1>1, <1>5, <2>3 DEF Apart
    <2>4. CASE i > Len(s) /\ j > Len(s)
        <3>1. /\ i - Len(s) \in 1 .. Len(t) /\ j - Len(s) \in 1 .. Len(t)
              /\ t[i - Len(s)] = t[j - Len(s)]
            BY <1>1, <2>4
        <3>2. i - Len(s) = j - Len(s)
            BY <1>1, <1>5, <3>1 DEF IsInjective
        <3> QED BY <1>1, <3>2
    <2> QED BY <1>1, <2>1, <2>2, <2>3, <2>4
<1> QED BY <1>2, <1>3, <1>4, <1>5

\* Every element of s is below every element of t.
Below(s, t) ==
    \A i \in 1 .. Len(s), j \in 1 .. Len(t) : s[i] < t[j]

LEMMA ConcatIncreasing ==
    ASSUME NEW s \in Seq(Nat), NEW t \in Seq(Nat),
           Increasing(s), Increasing(t), Below(s, t)
    PROVE  Increasing(s \o t)
<1>1. /\ Len(s) \in Nat /\ Len(t) \in Nat
      /\ DOMAIN s = 1 .. Len(s) /\ DOMAIN t = 1 .. Len(t)
      /\ DOMAIN (s \o t) = 1 .. Len(s) + Len(t)
      /\ \A i \in 1 .. Len(s) + Len(t) :
            (s \o t)[i] = IF i <= Len(s) THEN s[i] ELSE t[i - Len(s)]
    BY ConcatProperties, LenProperties
<1> SUFFICES ASSUME NEW i \in 1 .. Len(s) + Len(t),
                    NEW j \in 1 .. Len(s) + Len(t), i < j
             PROVE  (s \o t)[i] < (s \o t)[j]
    BY <1>1 DEF Increasing
<1>2. CASE j <= Len(s)
    <2>1. i \in 1 .. Len(s) /\ j \in 1 .. Len(s)
        BY <1>1, <1>2
    <2>2. s[i] < s[j]
        BY <1>1, <2>1 DEF Increasing
    <2> QED BY <1>1, <1>2, <2>2
<1>3. CASE i <= Len(s) /\ j > Len(s)
    BY <1>1, <1>3 DEF Below
<1>4. CASE i > Len(s)
    <2>1. /\ i - Len(s) \in 1 .. Len(t) /\ j - Len(s) \in 1 .. Len(t)
          /\ i - Len(s) < j - Len(s)
        BY <1>1, <1>4
    <2>2. t[i - Len(s)] < t[j - Len(s)]
        BY <1>1, <2>1 DEF Increasing
    <2> QED BY <1>1, <1>4, <2>2
<1> QED BY <1>1, <1>2, <1>3, <1>4

LEMMA AppendIncreasing ==
    ASSUME NEW s \in Seq(Nat), NEW x \in Nat, Increasing(s),
           \A i \in 1 .. Len(s) : s[i] < x
    PROVE  Increasing(Append(s, x))
<1>1. /\ Len(s) \in Nat /\ DOMAIN s = 1 .. Len(s)
      /\ DOMAIN Append(s, x) = 1 .. Len(s) + 1
      /\ \A i \in 1 .. Len(s) : Append(s, x)[i] = s[i]
      /\ Append(s, x)[Len(s) + 1] = x
    BY AppendProperties, LenProperties
<1> SUFFICES ASSUME NEW i \in 1 .. Len(s) + 1, NEW j \in 1 .. Len(s) + 1, i < j
             PROVE  Append(s, x)[i] < Append(s, x)[j]
    BY <1>1 DEF Increasing
<1>2. CASE j <= Len(s)
    <2>1. i \in 1 .. Len(s) /\ j \in 1 .. Len(s)
        BY <1>1, <1>2
    <2>2. s[i] < s[j]
        BY <1>1, <2>1 DEF Increasing
    <2> QED BY <1>1, <2>1, <2>2
<1>3. CASE j = Len(s) + 1
    BY <1>1, <1>3
<1> QED BY <1>1, <1>2, <1>3

LEMMA AppendKeepsInjective ==
    ASSUME NEW S, NEW s \in Seq(S), NEW x \in S, IsInjective(s),
           \A i \in 1 .. Len(s) : s[i] # x
    PROVE  IsInjective(Append(s, x))
<1>1. /\ Len(s) \in Nat /\ DOMAIN s = 1 .. Len(s)
      /\ DOMAIN Append(s, x) = 1 .. Len(s) + 1
      /\ \A i \in 1 .. Len(s) : Append(s, x)[i] = s[i]
      /\ Append(s, x)[Len(s) + 1] = x
    BY AppendProperties, LenProperties
<1> QED BY <1>1 DEF IsInjective

-----------------------------------------------------------------------------
(* Types *)

\* A queue over the events offered so far stays one when more are offered.
LEMMA EventsGrow ==
    ASSUME TypeOK, offered' = offered + 1, NEW s \in Seq(Events)
    PROVE  s \in Seq(Events')
<1>1. Events \subseteq Events'
    BY DEF TypeOK, Events
<1> QED BY <1>1, SeqMonotonic

\* A flush takes the queue into the flights.
LEMMA StartFlushType ==
    ASSUME TypeOK, NEW id \in 1 .. flushes', StartFlush(id), flushes' \in Nat,
           flushes' >= flushes, UNCHANGED <<delivered, offered>>
    PROVE  /\ queue' \in Seq(Events')
           /\ timer' \in BOOLEAN /\ (timer' => queue' # <<>>)
           /\ \A f \in flights' \cup delivered' :
                  f.id \in 1 .. flushes' /\ f.events \in Seq(Events')
<1>1. Events' = Events
    BY DEF Events
<1>2. queue' \in Seq(Events')
    BY <1>1 DEF StartFlush
<1>4. timer' \in BOOLEAN /\ (timer' => queue' # <<>>)
    BY DEF StartFlush
<1>3. ASSUME NEW f \in flights' \cup delivered'
      PROVE  f.id \in 1 .. flushes' /\ f.events \in Seq(Events')
    <2>1. CASE f = [id |-> id, events |-> queue]
        BY <1>1, <2>1 DEF TypeOK
    <2>2. CASE f \in flights \cup delivered
        BY <1>1, <2>2 DEF TypeOK
    <2> QED BY <1>3, <2>1, <2>2 DEF StartFlush
<1> QED BY <1>2, <1>3, <1>4

\* A batch goes to the listeners, or back to the queue, or both.
LEMMA FinishType ==
    ASSUME TypeOK, NEW f \in flights,
           FlushSucceeds(f) \/ CreateThrows(f) \/ ListenerThrows(f)
    PROVE  /\ queue' \in Seq(Events')
           /\ timer => queue' # <<>>
           /\ \A g \in flights' \cup delivered' :
                  g.id \in 1 .. flushes' /\ g.events \in Seq(Events')
<1>1. /\ UNCHANGED <<offered, flushes>> /\ Events' = Events
      /\ queue' \in {queue, f.events \o queue}
      /\ flights' \cup delivered' \subseteq flights \cup delivered
    BY DEF FlushSucceeds, CreateThrows, ListenerThrows, Requeue, Deliver, Events
<1>2. queue \in Seq(Events) /\ f.events \in Seq(Events)
    BY DEF TypeOK
<1>3. f.events \o queue \in Seq(Events) /\ (queue # <<>> => f.events \o queue # <<>>)
    BY <1>2, ConcatProperties, ConcatEqualIffEmpty
<1> QED BY <1>1, <1>2, <1>3 DEF TypeOK

\* Type correctness is inductive by itself.
LEMMA TypeStep == TypeOK /\ [Next]_vars => TypeOK'
<1> SUFFICES ASSUME TypeOK, [Next]_vars PROVE TypeOK'
    OBVIOUS
<1> USE BatcherAssumption
<1>1. CASE Ingest
    <2>1. /\ offered' \in 0 .. MaxOffered /\ offered' = offered + 1
          /\ offered' \in Events' /\ dropped \subseteq Events'
        BY <1>1 DEF TypeOK, Ingest, Events
    <2>2. queue \in Seq(Events')
        BY <2>1, EventsGrow DEF TypeOK
    <2>3. queue' \in Seq(Events') /\ queue' # <<>>
        BY <1>1, <2>1, <2>2, AppendProperties DEF Ingest
    <2>4. \A f \in flights' \cup delivered' :
              f.id \in 1 .. flushes /\ f.events \in Seq(Events')
        BY <1>1, <2>1, EventsGrow DEF Ingest, TypeOK
    <2>5. /\ flushes' \in Nat /\ flushes' >= flushes
          /\ pendingFlush' \in 0 .. flushes'
        BY <1>1 DEF TypeOK, Ingest, ScheduleFlush
    <2>6. waiting' \in [Callers -> 0 .. flushes']
        BY <1>1, <2>5 DEF TypeOK, Ingest
    <2> QED BY <1>1, <2>1, <2>3, <2>4, <2>5, <2>6 DEF TypeOK, Ingest, Failures
<1>2. CASE IngestDrops
    <2>1. /\ offered' \in 0 .. MaxOffered /\ offered' = offered + 1
          /\ dropped' \subseteq Events'
        BY <1>2 DEF TypeOK, IngestDrops, Events
    <2>2. queue' \in Seq(Events')
        BY <1>2, <2>1, EventsGrow DEF TypeOK, IngestDrops
    <2>3. \A f \in flights' \cup delivered' :
              f.id \in 1 .. flushes' /\ f.events \in Seq(Events')
        BY <1>2, <2>1, EventsGrow DEF IngestDrops, TypeOK
    <2> QED BY <1>2, <2>1, <2>2, <2>3 DEF TypeOK, IngestDrops, Failures
<1>3. CASE RunScheduled
    <2>1. /\ UNCHANGED <<delivered, offered, dropped, waiting, called, flushes,
                         creates, throws>>
          /\ pendingFlush' = 0 /\ pendingFlush \in 1 .. flushes'
          /\ flushes' \in Nat /\ flushes' >= flushes
        BY <1>3 DEF RunScheduled, None, TypeOK
    <2>2. CASE StartFlush(pendingFlush)
        <3>1. PICK id \in 1 .. flushes' : id = pendingFlush
            BY <2>1
        <3>2. StartFlush(id)
            BY <2>2, <3>1 DEF StartFlush
        <3> QED BY <2>1, <3>2, StartFlushType DEF TypeOK, Events, Failures
    <2>3. CASE NothingToFlush
        BY <2>1, <2>3 DEF NothingToFlush, TypeOK, Events, Failures
    <2> QED BY <1>3, <2>2, <2>3 DEF RunScheduled
<1>4. CASE TimerFires
    <2>1. /\ UNCHANGED <<delivered, offered, dropped, waiting, called,
                         pendingFlush, creates, throws>>
          /\ flushes' = flushes + 1 /\ StartFlush(flushes')
          /\ flushes' \in 1 .. flushes' /\ flushes' \in Nat
          /\ flushes' >= flushes
        BY <1>4 DEF TimerFires, TypeOK
    <2>2. /\ queue' \in Seq(Events')
          /\ timer' \in BOOLEAN /\ (timer' => queue' # <<>>)
          /\ \A f \in flights' \cup delivered' :
                 f.id \in 1 .. flushes' /\ f.events \in Seq(Events')
        <3>1. PICK id \in 1 .. flushes' : id = flushes'
            BY <2>1
        <3>2. StartFlush(id)
            BY <2>1, <3>1 DEF StartFlush
        <3> QED BY <2>1, <3>2, StartFlushType
    <2>3. waiting' \in [Callers -> 0 .. flushes']
        BY <2>1 DEF TypeOK
    <2> QED BY <2>1, <2>2, <2>3 DEF TypeOK, Events, Failures
<1>5. ASSUME NEW c \in Callers, FlushNow(c) PROVE TypeOK'
    <2>1. /\ UNCHANGED <<delivered, offered, dropped, pendingFlush, creates,
                         throws>>
          /\ flushes' = flushes + 1 /\ flushes' \in 1 .. flushes'
          /\ flushes' \in Nat /\ flushes' >= flushes
        BY <1>5 DEF FlushNow, TypeOK
    <2>2. /\ queue' \in Seq(Events') /\ timer' \in BOOLEAN
          /\ timer' => queue' # <<>>
          /\ \A f \in flights' \cup delivered' :
                 f.id \in 1 .. flushes' /\ f.events \in Seq(Events')
        <3>1. CASE StartFlush(flushes')
            <4>1. PICK id \in 1 .. flushes' : id = flushes'
                BY <2>1
            <4>2. StartFlush(id)
                BY <3>1, <4>1 DEF StartFlush
            <4> QED BY <2>1, <4>2, StartFlushType
        <3>2. CASE NothingToFlush
            BY <2>1, <3>2 DEF NothingToFlush, TypeOK, Events
        <3> QED BY <1>5, <3>1, <3>2 DEF FlushNow
    <2>3. waiting' \in [Callers -> 0 .. flushes']
        BY <1>5, <2>1 DEF TypeOK, FlushNow, None
    <2> QED BY <1>5, <2>1, <2>2, <2>3 DEF TypeOK, FlushNow, Events, Failures
<1>6. ASSUME NEW c \in Callers, CallFlush(c) PROVE TypeOK'
    <2>1. CASE FlushNow(c)
        BY <1>5, <2>1
    <2>2. CASE ~FlushNow(c)
        <3>1. /\ UNCHANGED <<queue, timer, pendingFlush, flights, delivered,
                             offered, dropped, flushes, creates, throws>>
              /\ called' = called \cup {c}
              /\ waiting' = [waiting EXCEPT ![c] = pendingFlush]
            BY <1>6, <2>2 DEF CallFlush
        <3>2. waiting' \in [Callers -> 0 .. flushes']
            BY <3>1 DEF TypeOK
        <3> QED BY <3>1, <3>2 DEF TypeOK, Events, Failures
    <2> QED BY <2>1, <2>2
<1>7. ASSUME NEW c \in Callers, CallerResumes(c) PROVE TypeOK'
    BY <1>5, <1>7 DEF CallerResumes
<1>8. ASSUME NEW f \in flights,
             FlushSucceeds(f) \/ CreateThrows(f) \/ ListenerThrows(f)
      PROVE  TypeOK'
    <2>1. /\ UNCHANGED <<timer, offered, dropped, pendingFlush, waiting, called,
                         flushes>>
          /\ creates' \in Nat /\ throws' \in Nat /\ Failures' <= MaxFaults
        BY <1>8 DEF FlushSucceeds, CreateThrows, ListenerThrows, Failures, TypeOK
    <2> QED BY <1>8, <2>1, FinishType DEF TypeOK, Events
<1>9. CASE UNCHANGED vars
    BY <1>9 DEF vars, TypeOK, Events, Failures
<1> QED BY <1>1, <1>2, <1>3, <1>4, <1>6, <1>7, <1>8, <1>9 DEF Next

\* The fields of EventBatcher keep their types, and shutdown() may clear the timer
\* before it flushes: one is armed only while events are queued.
THEOREM BatcherTyped == Spec => []TypeOK
<1>1. Init => TypeOK
    <2> SUFFICES ASSUME Init PROVE TypeOK
        OBVIOUS
    <2>1. queue \in Seq(Events) /\ waiting \in [Callers -> 0 .. flushes]
        BY EmptySeq DEF Init, None
    <2>2. timer \in BOOLEAN /\ (timer => queue # <<>>)
        BY DEF Init
    <2> QED BY <2>1, <2>2, BatcherAssumption DEF Init, TypeOK, Events, None, Failures
<1> QED BY <1>1, TypeStep, PTL DEF Spec

-----------------------------------------------------------------------------
(* The shapes of a step, as the queue sees it *)

\* The queue is taken by a flush with an id of its own.
Takes(id) ==
    /\ StartFlush(id)
    /\ id = pendingFlush \/ id = flushes + 1
    /\ id # None /\ id # pendingFlush'
    /\ pendingFlush' \in {None, pendingFlush}
    /\ UNCHANGED <<delivered, offered, dropped, creates, throws>>

\* Events stay where they are.
Stays ==
    /\ UNCHANGED <<queue, timer, flights, delivered, offered, dropped, creates,
                   throws>>
    /\ pendingFlush' \in {None, pendingFlush}

LEMMA StepShapes ==
    ASSUME TypeOK, [Next]_vars
    PROVE  \/ Ingest \/ IngestDrops \/ Stays
           \/ \E id : Takes(id)
           \/ \E f \in flights :
                  FlushSucceeds(f) \/ CreateThrows(f) \/ ListenerThrows(f)
<1>1. CASE RunScheduled
    <2>1. CASE StartFlush(pendingFlush)
        <3>1. Takes(pendingFlush)
            BY <1>1, <2>1 DEF RunScheduled, Takes, None, TypeOK
        <3> QED BY <3>1
    <2>2. CASE NothingToFlush
        BY <1>1, <2>2 DEF RunScheduled, NothingToFlush, Stays
    <2> QED BY <1>1, <2>1, <2>2 DEF RunScheduled
<1>2. CASE TimerFires
    <2>1. PICK id : id = flushes + 1
        OBVIOUS
    <2>2. Takes(id)
        BY <1>2, <2>1 DEF TimerFires, StartFlush, Takes, None, TypeOK
    <2> QED BY <2>2
<1>3. ASSUME NEW c \in Callers, FlushNow(c)
      PROVE  Stays \/ \E id : Takes(id)
    <2>1. PICK id : id = flushes + 1
        OBVIOUS
    <2>2. CASE StartFlush(flushes')
        <3>1. Takes(id)
            BY <1>3, <2>1, <2>2 DEF FlushNow, StartFlush, Takes, None, TypeOK
        <3> QED BY <3>1
    <2>3. CASE NothingToFlush
        BY <1>3, <2>3 DEF FlushNow, NothingToFlush, Stays
    <2> QED BY <1>3, <2>2, <2>3 DEF FlushNow
<1>4. ASSUME NEW c \in Callers, CallFlush(c)
      PROVE  Stays \/ \E id : Takes(id)
    <2>1. CASE FlushNow(c)
        BY <1>3, <2>1
    <2>2. CASE ~FlushNow(c)
        BY <1>4, <2>2 DEF CallFlush, Stays
    <2> QED BY <2>1, <2>2
<1>5. ASSUME NEW c \in Callers, CallerResumes(c)
      PROVE  Stays \/ \E id : Takes(id)
    BY <1>3, <1>5 DEF CallerResumes
<1>6. CASE UNCHANGED vars
    BY <1>6 DEF vars, Stays
<1> QED BY <1>1, <1>2, <1>4, <1>5, <1>6 DEF Next

-----------------------------------------------------------------------------
(* No accepted event is lost *)

\* Where an event may be.
Held(e) ==
    \/ Contains(queue, e)
    \/ \E f \in flights \cup delivered : Contains(f.events, e)

LEMMA ConservedStep == TypeOK /\ Conserved /\ [Next]_vars => Conserved'
<1> SUFFICES ASSUME TypeOK, Conserved, [Next]_vars, NEW e \in Accepted'
             PROVE  Held(e)'
    BY DEF Conserved, Held
<1>0. queue \in Seq(Events) /\ \A f \in flights : f.events \in Seq(Events)
    BY DEF TypeOK
<1>1. ASSUME e \in Accepted PROVE Held(e)
    BY <1>1 DEF Conserved, Held
<1>2. CASE Ingest
    <2>1. queue \in Seq(Events') /\ offered' \in Events'
        BY <1>2, EventsGrow DEF Ingest, TypeOK, Events
    <2>2. Contains(queue', e) <=> Contains(queue, e) \/ e = offered'
        BY <1>2, <2>1, AppendContains DEF Ingest
    <2>3. e \in Accepted \/ e = offered'
        BY <1>2 DEF Ingest, Accepted, Events, TypeOK
    <2> QED BY <1>1, <1>2, <2>2, <2>3 DEF Held, Ingest
<1>3. CASE IngestDrops
    <2>1. e \in Accepted
        BY <1>3 DEF IngestDrops, Accepted, Events, TypeOK
    <2> QED BY <1>1, <1>3, <2>1 DEF Held, IngestDrops
<1>4. ASSUME UNCHANGED <<offered, dropped>> PROVE Held(e)
    BY <1>1, <1>4 DEF Accepted, Events
<1>5. CASE Stays
    BY <1>4, <1>5 DEF Stays, Held
<1>6. ASSUME NEW id, Takes(id) PROVE Held(e)'
    <2>1. /\ Held(e) /\ UNCHANGED delivered
          /\ flights' = flights \cup {[id |-> id, events |-> queue]}
        BY <1>4, <1>6 DEF Takes, StartFlush
    <2>2. CASE Contains(queue, e)
        <3>1. [id |-> id, events |-> queue] \in flights' \cup delivered'
            BY <2>1
        <3> QED BY <2>2, <3>1 DEF Held
    <2>3. CASE \E f \in flights \cup delivered : Contains(f.events, e)
        BY <2>1, <2>3 DEF Held
    <2> QED BY <2>1, <2>2, <2>3 DEF Held
<1>7. ASSUME NEW f \in flights, FlushSucceeds(f) PROVE Held(e)'
    <2>1. /\ Held(e) /\ UNCHANGED queue
          /\ flights' \cup delivered' = flights \cup delivered
        BY <1>4, <1>7 DEF FlushSucceeds, Deliver
    <2> QED BY <2>1 DEF Held
<1>8. ASSUME NEW f \in flights, CreateThrows(f) \/ ListenerThrows(f)
      PROVE  Held(e)'
    <2>1. /\ Held(e) /\ queue' = f.events \o queue
          /\ (flights \cup delivered) \ {f} \subseteq flights' \cup delivered'
        BY <1>4, <1>8 DEF CreateThrows, ListenerThrows, Deliver, Requeue
    <2>2. Contains(queue', e) <=> Contains(f.events, e) \/ Contains(queue, e)
        BY <1>0, <2>1, ConcatContains
    <2> QED BY <2>1, <2>2 DEF Held
<1> QED BY <1>2, <1>3, <1>5, <1>6, <1>7, <1>8, StepShapes

\* An event for which ingest() answered true is queued, in a flush that is under
\* way, or delivered, however flushes overlap and fail.
THEOREM EventsConserved == Spec => []Conserved
<1>1. Init => Conserved
    BY DEF Init, Conserved, Accepted, Events
<1> QED BY <1>1, ConservedStep, BatcherTyped, PTL DEF Spec

-----------------------------------------------------------------------------
(* Queued events have a timer *)

LEMMA TimedStep == TypeOK /\ QueueIsTimed /\ [Next]_vars => QueueIsTimed'
<1> SUFFICES ASSUME TypeOK, QueueIsTimed, [Next]_vars, Failures' = 0,
                    queue' # <<>>
             PROVE  timer'
    BY DEF QueueIsTimed
<1>1. CASE Ingest
    <2>1. timer \/ queue = <<>>
        BY <1>1 DEF QueueIsTimed, Ingest, Failures
    <2> QED BY <1>1, <2>1 DEF Ingest
<1>2. CASE IngestDrops
    BY <1>2 DEF IngestDrops, QueueIsTimed, Failures
<1>3. CASE Stays
    BY <1>3 DEF Stays, QueueIsTimed, Failures
<1>4. ASSUME NEW id, Takes(id) PROVE FALSE
    BY <1>4 DEF Takes, StartFlush
<1>5. ASSUME NEW f \in flights, FlushSucceeds(f) PROVE timer'
    BY <1>5 DEF FlushSucceeds, QueueIsTimed, Failures
<1>6. ASSUME NEW f \in flights, CreateThrows(f) \/ ListenerThrows(f) PROVE FALSE
    BY <1>6 DEF CreateThrows, ListenerThrows, Failures, TypeOK
<1> QED BY <1>1, <1>2, <1>3, <1>4, <1>5, <1>6, StepShapes

\* While no flush has failed, queued events have a timer that will flush them,
\* whatever manual and threshold flushes came in between.
THEOREM QueueTimed == Spec => []QueueIsTimed
<1>1. Init => QueueIsTimed
    BY DEF Init, QueueIsTimed
<1> QED BY <1>1, TimedStep, BatcherTyped, PTL DEF Spec

-----------------------------------------------------------------------------
(* An event is in one place *)

\* A flush has an id of its own, so a delivered batch is not under way any more.
IdInv ==
    /\ flights \cap delivered = {}
    /\ \A f \in flights \cup delivered : f.id # pendingFlush

LEMMA IdStep == TypeOK /\ IdInv /\ [Next]_vars => IdInv'
<1> SUFFICES ASSUME TypeOK, IdInv, [Next]_vars PROVE IdInv'
    OBVIOUS
<1>0. \A f \in flights \cup delivered :
          /\ f.id \in 1 .. flushes /\ f.id # None /\ f.id # pendingFlush
          /\ f.id # flushes + 1
    BY DEF TypeOK, IdInv, None
<1>1. CASE Ingest
    <2>1. /\ UNCHANGED <<flights, delivered>>
          /\ pendingFlush' \in {pendingFlush, flushes + 1}
        BY <1>1 DEF Ingest, ScheduleFlush
    <2> QED BY <1>0, <2>1 DEF IdInv
<1>2. CASE IngestDrops
    BY <1>2 DEF IngestDrops, IdInv
<1>3. CASE Stays
    BY <1>0, <1>3 DEF Stays, IdInv
<1>4. ASSUME NEW id, Takes(id) PROVE IdInv'
    <2>1. /\ flights' = flights \cup {[id |-> id, events |-> queue]}
          /\ UNCHANGED delivered /\ id # pendingFlush'
          /\ pendingFlush' \in {None, pendingFlush}
          /\ \A f \in flights \cup delivered : f.id # id
        BY <1>0, <1>4 DEF Takes, StartFlush
    <2>2. [id |-> id, events |-> queue] \notin delivered
        BY <2>1
    <2> QED BY <1>0, <2>1, <2>2 DEF IdInv
<1>5. ASSUME NEW f \in flights,
             FlushSucceeds(f) \/ CreateThrows(f) \/ ListenerThrows(f)
      PROVE  IdInv'
    <2>1. /\ flights' = flights \ {f} /\ delivered' \in {delivered, delivered \cup {f}}
          /\ UNCHANGED pendingFlush
        BY <1>5 DEF FlushSucceeds, CreateThrows, ListenerThrows, Deliver
    <2> QED BY <2>1 DEF IdInv
<1> QED BY <1>1, <1>2, <1>3, <1>4, <1>5, StepShapes

LEMMA IdsInvariant == Spec => []IdInv
<1>1. Init => IdInv
    BY DEF Init, IdInv
<1> QED BY <1>1, IdStep, BatcherTyped, PTL DEF Spec

\* The property in terms of disjoint sequences.
Separate ==
    /\ IsInjective(queue)
    /\ \A f \in flights \cup delivered :
           /\ IsInjective(f.events) /\ Apart(f.events, queue)
           /\ \A g \in flights \cup delivered : f # g => Apart(f.events, g.events)

LEMMA ApartSymmetric ==
    ASSUME NEW s, NEW t, Apart(s, t)
    PROVE  Apart(t, s)
BY DEF Apart

LEMMA ApartConcat ==
    ASSUME NEW S, NEW s \in Seq(S), NEW t \in Seq(S), NEW u \in Seq(S),
           Apart(s, t), Apart(s, u)
    PROVE  Apart(s, t \o u)
<1>1. /\ Len(t) \in Nat /\ Len(u) \in Nat /\ Len(t \o u) = Len(t) + Len(u)
      /\ \A i \in 1 .. Len(t) + Len(u) :
            (t \o u)[i] = IF i <= Len(t) THEN t[i] ELSE u[i - Len(t)]
    BY ConcatProperties, LenProperties
<1> SUFFICES ASSUME NEW i \in 1 .. Len(s), NEW j \in 1 .. Len(t) + Len(u)
             PROVE  s[i] # (t \o u)[j]
    BY <1>1 DEF Apart
<1>2. CASE j <= Len(t)
    <2>1. j \in 1 .. Len(t) /\ (t \o u)[j] = t[j]
        BY <1>1, <1>2
    <2> QED BY <2>1 DEF Apart
<1>3. CASE j > Len(t)
    <2>1. j - Len(t) \in 1 .. Len(u) /\ (t \o u)[j] = u[j - Len(t)]
        BY <1>1, <1>3
    <2> QED BY <2>1 DEF Apart
<1> QED BY <1>1, <1>2, <1>3

LEMMA ApartAppend ==
    ASSUME NEW S, NEW s \in Seq(S), NEW t \in Seq(S), NEW x \in S,
           Apart(s, t), \A i \in 1 .. Len(s) : s[i] # x
    PROVE  Apart(s, Append(t, x))
<1>1. /\ Len(t) \in Nat /\ Len(Append(t, x)) = Len(t) + 1
      /\ \A i \in 1 .. Len(t) : Append(t, x)[i] = t[i]
      /\ Append(t, x)[Len(t) + 1] = x
    BY AppendProperties, LenProperties
<1> QED BY <1>1 DEF Apart

LEMMA SeparateIsOnePlace == TypeOK => (OnePlace <=> (throws = 0 => Separate))
<1> SUFFICES ASSUME TypeOK PROVE OnePlace <=> (throws = 0 => Separate)
    OBVIOUS
<1>1. /\ queue \in Seq(Events)
      /\ \A f \in flights \cup delivered : f.events \in Seq(Events)
    BY DEF TypeOK
<1>2. \A f \in flights \cup delivered :
          /\ IsInjective(f.events \o queue) <=>
                 IsInjective(f.events) /\ IsInjective(queue) /\ Apart(f.events, queue)
          /\ \A g \in flights \cup delivered :
                 IsInjective(f.events \o g.events) <=>
                     /\ IsInjective(f.events) /\ IsInjective(g.events)
                     /\ Apart(f.events, g.events)
    BY <1>1, ConcatInjective
<1> QED BY <1>2 DEF OnePlace, Separate

\* An event that is only now offered is nowhere yet.
LEMMA NewEvent ==
    ASSUME TypeOK, NEW s \in Seq(Events), NEW i \in 1 .. Len(s)
    PROVE  s[i] \in Nat /\ s[i] < offered + 1 /\ s[i] # offered + 1
<1>1. s[i] \in Events
    BY ElementOfSeq
<1> QED BY <1>1 DEF TypeOK, Events

LEMMA SeparateStep ==
    ASSUME TypeOK, IdInv, throws = 0 => Separate, [Next]_vars, throws' = 0
    PROVE  Separate'
<1>0. /\ queue \in Seq(Events)
      /\ \A f \in flights \cup delivered : f.events \in Seq(Events)
    BY DEF TypeOK
<1>1. CASE Ingest
    <2>1. /\ UNCHANGED <<flights, delivered, throws>> /\ offered' = offered + 1
          /\ queue' = Append(queue, offered') /\ offered' \in Events'
        BY <1>1 DEF Ingest, Events, TypeOK
    <2>2. Separate
        BY <2>1
    <2>3. /\ queue \in Seq(Events')
          /\ \A f \in flights \cup delivered : f.events \in Seq(Events')
        BY <1>0, <2>1, EventsGrow
    <2>4. IsInjective(queue')
        BY <1>0, <2>1, <2>2, <2>3, NewEvent, AppendKeepsInjective DEF Separate
    <2>5. \A f \in flights \cup delivered : Apart(f.events, queue')
        BY <1>0, <2>1, <2>2, <2>3, NewEvent, ApartAppend DEF Separate
    <2> QED BY <2>1, <2>2, <2>4, <2>5 DEF Separate
<1>2. CASE IngestDrops
    BY <1>2 DEF IngestDrops, Separate
<1>3. CASE Stays
    BY <1>3 DEF Stays, Separate
<1>4. ASSUME NEW id, Takes(id) PROVE Separate'
    <2> DEFINE new == [id |-> id, events |-> queue]
    <2>1. /\ flights' = flights \cup {new} /\ UNCHANGED delivered
          /\ queue' = <<>> /\ Separate
        BY <1>4 DEF Takes, StartFlush
    <2>2. IsInjective(queue') /\ \A s : Apart(s, queue')
        BY <2>1 DEF IsInjective, Apart
    <2>3. \A f \in flights \cup delivered :
              Apart(f.events, queue) /\ Apart(queue, f.events)
        BY <2>1, ApartSymmetric DEF Separate
    <2>4. new.events = queue /\ IsInjective(queue)
        BY <2>1 DEF Separate
    <2> QED BY <2>1, <2>2, <2>3, <2>4 DEF Separate
<1>5. ASSUME NEW f \in flights, FlushSucceeds(f) PROVE Separate'
    <2>1. /\ flights' \cup delivered' = flights \cup delivered
          /\ UNCHANGED queue /\ Separate
        BY <1>5 DEF FlushSucceeds, Deliver
    <2> QED BY <2>1 DEF Separate
<1>6. ASSUME NEW f \in flights, CreateThrows(f) PROVE Separate'
    <2>1. /\ flights' = flights \ {f} /\ UNCHANGED delivered
          /\ queue' = f.events \o queue /\ Separate
        BY <1>6 DEF CreateThrows, Requeue
    <2>2. f \notin flights' \cup delivered'
        BY <2>1 DEF IdInv
    <2>3. IsInjective(queue')
        BY <1>0, <2>1, ConcatInjective DEF Separate
    <2>4. \A g \in flights' \cup delivered' : Apart(g.events, queue')
        BY <1>0, <2>1, <2>2, ApartConcat DEF Separate
    <2> QED BY <2>1, <2>3, <2>4 DEF Separate
<1>7. ASSUME NEW f \in flights, ListenerThrows(f) PROVE FALSE
    BY <1>7 DEF ListenerThrows, TypeOK
<1> QED BY <1>1, <1>2, <1>3, <1>4, <1>5, <1>6, <1>7, StepShapes

\* Unless a listener threw, an accepted event is in one of these places and only
\* once, so it is anchored in at most one batch.
THEOREM EventsInOnePlace == Spec => []OnePlace
<1>1. Init => OnePlace
    BY DEF Init, OnePlace, IsInjective
<1>2. TypeOK /\ TypeOK' /\ IdInv /\ OnePlace /\ [Next]_vars => OnePlace'
    <2>1. (TypeOK => (OnePlace <=> (throws = 0 => Separate)))'
        BY SeparateIsOnePlace, PTL
    <2> QED BY <2>1, SeparateIsOnePlace, SeparateStep
<1> QED BY <1>1, <1>2, BatcherTyped, IdsInvariant, PTL DEF Spec

-----------------------------------------------------------------------------
(* Batches are ordered *)

\* Until a second flush fails every place is ordered; until the first one does,
\* what a flush under way holds comes before what is queued, so that putting it
\* back in front keeps the order.
OrderInv ==
    /\ Failures <= 1 =>
           /\ Increasing(queue)
           /\ \A f \in flights \cup delivered : Increasing(f.events)
    /\ Failures = 0 => \A f \in flights : Below(f.events, queue)

LEMMA OrderStep == TypeOK /\ OrderInv /\ [Next]_vars => OrderInv'
<1> SUFFICES ASSUME TypeOK, OrderInv, [Next]_vars PROVE OrderInv'
    OBVIOUS
<1>0. /\ queue \in Seq(Events) /\ Events \subseteq Nat
      /\ \A f \in flights \cup delivered : f.events \in Seq(Events)
      /\ Failures \in Nat
    BY DEF TypeOK, Events, Failures
<1>a. /\ queue \in Seq(Nat)
      /\ \A f \in flights \cup delivered : f.events \in Seq(Nat)
    BY <1>0, SeqMonotonic
<1>1. CASE Ingest
    <2>1. /\ UNCHANGED <<flights, delivered, Failures>> /\ offered' = offered + 1
          /\ queue' = Append(queue, offered') /\ offered' \in Nat
        BY <1>1 DEF Ingest, Failures, TypeOK
    <2>2. Failures <= 1 => Increasing(queue')
        BY <1>0, <1>a, <2>1, NewEvent, AppendIncreasing DEF OrderInv
    <2>3. ASSUME Failures = 0, NEW f \in flights PROVE Below(f.events, queue')
        <3>1. /\ Len(queue) \in Nat /\ Len(queue') = Len(queue) + 1
              /\ \A i \in 1 .. Len(queue) : queue'[i] = queue[i]
              /\ queue'[Len(queue) + 1] = offered + 1
            BY <1>a, <2>1, AppendProperties, LenProperties
        <3>2. Below(f.events, queue)
            BY <2>3 DEF OrderInv
        <3>3. \A i \in 1 .. Len(f.events) : f.events[i] < offered + 1
            BY <1>0, NewEvent
        <3> QED BY <3>1, <3>2, <3>3 DEF Below
    <2> QED BY <2>1, <2>2, <2>3 DEF OrderInv
<1>2. CASE IngestDrops
    BY <1>2 DEF IngestDrops, OrderInv, Failures
<1>3. CASE Stays
    BY <1>3 DEF Stays, OrderInv, Failures
<1>4. ASSUME NEW id, Takes(id) PROVE OrderInv'
    <2> DEFINE new == [id |-> id, events |-> queue]
    <2>1. /\ flights' = flights \cup {new} /\ UNCHANGED <<delivered, Failures>>
          /\ queue' = <<>> /\ new.events = queue
        BY <1>4 DEF Takes, StartFlush, Failures
    <2>2. Increasing(queue') /\ \A s : Below(s, queue')
        BY <2>1 DEF Increasing, Below
    <2> QED BY <2>1, <2>2 DEF OrderInv
<1>5. ASSUME NEW f \in flights, FlushSucceeds(f) PROVE OrderInv'
    <2>1. /\ flights' \cup delivered' = flights \cup delivered
          /\ flights' \subseteq flights /\ UNCHANGED <<queue, Failures>>
        BY <1>5 DEF FlushSucceeds, Deliver, Failures
    <2> QED BY <2>1 DEF OrderInv
<1>6. ASSUME NEW f \in flights, CreateThrows(f) \/ ListenerThrows(f)
      PROVE  OrderInv'
    <2>1. /\ flights' \cup delivered' \subseteq flights \cup delivered
          /\ queue' = f.events \o queue /\ Failures' = Failures + 1
        BY <1>6 DEF CreateThrows, ListenerThrows, Requeue, Deliver, Failures, TypeOK
    <2>2. Failures' # 0 /\ (Failures' <= 1 => Failures = 0)
        BY <1>0, <2>1
    <2>3. Failures = 0 => Increasing(queue')
        BY <1>a, <2>1, ConcatIncreasing DEF OrderInv
    <2> QED BY <1>0, <2>1, <2>2, <2>3 DEF OrderInv
<1> QED BY <1>1, <1>2, <1>3, <1>4, <1>5, <1>6, StepShapes

\* Every batch lists its events in the order ingest() accepted them, as long as
\* no second flush fails.
THEOREM BatchesOrdered == Spec => []OrderedBatches
<1>1. Init => OrderInv
    BY DEF Init, OrderInv, Increasing
<1>2. OrderInv => OrderedBatches
    BY DEF OrderInv, OrderedBatches
<1> QED BY <1>1, <1>2, OrderStep, BatcherTyped, PTL DEF Spec

=============================================================================
