---------------------------- MODULE EventBatcher ----------------------------
(***************************************************************************)
(* The event batcher of the integrity pipeline                             *)
(* (server/kernel/event-batcher.ts), reached through the /ingest, /bulk    *)
(* and /flush routes of server/routes/events.ts.                           *)
(*                                                                         *)
(* ingest() appends to a bounded queue and returns; a count or size        *)
(* threshold schedules one flush on a microtask, the first event of a      *)
(* queue arms a timer, and flush() or shutdown() wait for a scheduled      *)
(* flush before they start their own.  flushBatch takes the whole queue,   *)
(* awaits createBatch and hands the batch to its listeners; several        *)
(* flushes may await at once.  When createBatch or a listener throws, the  *)
(* events go back to the front of the queue.                               *)
(***************************************************************************)
EXTENDS Integers, Sequences, FiniteSets, SequencesExt

CONSTANTS
    MaxOffered,  \* bound: events offered to ingest(), numbered in call order
    Big,         \* events that alone reach max_batch_size_bytes
    MaxEvents,   \* config.max_events_per_batch
    Callers,     \* callers of flush() and shutdown(), each once
    MaxFaults    \* bound: flushes that throw

ASSUME BatcherAssumption ==
    /\ MaxOffered \in Nat /\ Big \subseteq Nat
    /\ MaxEvents \in Nat \ {0} /\ MaxFaults \in Nat

VARIABLES
    queue,        \* eventQueue
    timer,        \* flushTimer # null
    pendingFlush, \* the scheduled flush whose microtask has not run, or None
    flights,      \* flushes awaiting createBatch: [id, events]
    delivered,    \* flushes whose batch went to the "batch" listeners
    offered,      \* events offered to ingest() so far
    dropped,      \* events refused with backpressure
    waiting,      \* flush id each caller of flush()/shutdown() awaits
    called,       \* callers that have called
    flushes,      \* flush ids given out
    creates,      \* flushes whose createBatch threw
    throws        \* flushes with a throwing listener

vars == <<queue, timer, pendingFlush, flights, delivered, offered, dropped,
          waiting, called, flushes, creates, throws>>

None == 0
Failures == creates + throws

Init ==
    /\ queue = <<>> /\ timer = FALSE /\ pendingFlush = None
    /\ flights = {} /\ delivered = {}
    /\ offered = 0 /\ dropped = {}
    /\ waiting = [c \in Callers |-> None] /\ called = {}
    /\ flushes = 0 /\ creates = 0 /\ throws = 0

-----------------------------------------------------------------------------
Events == 1 .. offered

Accepted == Events \ dropped

\* ingest at the cap of twice the batch size.
IngestDrops ==
    /\ offered < MaxOffered
    /\ Len(queue) >= MaxEvents * 2
    /\ offered' = offered + 1
    /\ dropped' = dropped \cup {offered'}
    /\ UNCHANGED <<queue, timer, pendingFlush, flights, delivered, waiting,
                   called, flushes, creates, throws>>

\* The count threshold, else the estimated size of the queue.
ThresholdReached(q) ==
    Len(q) >= MaxEvents \/ \E i \in 1 .. Len(q) : q[i] \in Big

\* scheduleFlush coalesces the triggers of one burst into one flush.
ScheduleFlush ==
    \/ /\ pendingFlush = None
       /\ pendingFlush' = flushes + 1 /\ flushes' = flushes + 1
    \/ pendingFlush # None /\ UNCHANGED <<pendingFlush, flushes>>

\* Mutant of Ingest: no timer is armed while a flush is under way.
IngestUntimed ==
    /\ offered < MaxOffered
    /\ Len(queue) < MaxEvents * 2
    /\ offered' = offered + 1
    /\ queue' = Append(queue, offered')
    /\ timer' = (timer \/ (queue = <<>> /\ flights = {}))
    /\ \/ ThresholdReached(queue') /\ ScheduleFlush
       \/ ~ThresholdReached(queue') /\ UNCHANGED <<pendingFlush, flushes>>
    /\ UNCHANGED <<flights, delivered, dropped, waiting, called, creates,
                   throws>>

\* ingest: queue the event; the first one arms the timer.
Ingest ==
    /\ offered < MaxOffered
    /\ Len(queue) < MaxEvents * 2
    /\ offered' = offered + 1
    /\ queue' = Append(queue, offered')
    /\ timer' = (timer \/ queue = <<>>)
    /\ \/ ThresholdReached(queue') /\ ScheduleFlush
       \/ ~ThresholdReached(queue') /\ UNCHANGED <<pendingFlush, flushes>>
    /\ UNCHANGED <<flights, delivered, dropped, waiting, called, creates,
                   throws>>

-----------------------------------------------------------------------------
\* Mutants of StartFlush: the queue is copied and not cleared; the timer is left
\* armed.
StartFlushCopies(id) ==
    /\ queue # <<>>
    /\ flights' = flights \cup {[id |-> id, events |-> queue]}
    /\ queue' = queue
    /\ timer' = FALSE

StartFlushTimed(id) ==
    /\ queue # <<>>
    /\ flights' = flights \cup {[id |-> id, events |-> queue]}
    /\ queue' = <<>>
    /\ timer' = timer

\* flushBatch up to its await: the queue is taken and the timer cleared.
StartFlush(id) ==
    /\ queue # <<>>
    /\ flights' = flights \cup {[id |-> id, events |-> queue]}
    /\ queue' = <<>>
    /\ timer' = FALSE

\* flushBatch on an empty queue returns null.
NothingToFlush == queue = <<>> /\ UNCHANGED <<queue, timer, flights>>

\* The microtask of the scheduled flush.
RunScheduled ==
    /\ pendingFlush # None
    /\ pendingFlush' = None
    /\ StartFlush(pendingFlush) \/ NothingToFlush
    /\ UNCHANGED <<delivered, offered, dropped, waiting, called, flushes,
                   creates, throws>>

\* Mutant of TimerFires: the callback gives up when a flush is under way.
TimerFiresIdle ==
    /\ timer /\ pendingFlush = None
    /\ flushes' = flushes + 1
    /\ \/ flights = {} /\ StartFlush(flushes')
       \/ flights # {} /\ timer' = FALSE /\ UNCHANGED <<queue, flights>>
    /\ UNCHANGED <<pendingFlush, delivered, offered, dropped, waiting, called,
                   creates, throws>>

\* The timer callback; a macrotask, so no microtask is left to run.
TimerFires ==
    /\ timer /\ pendingFlush = None
    /\ flushes' = flushes + 1
    /\ StartFlush(flushes')
    /\ UNCHANGED <<pendingFlush, delivered, offered, dropped, waiting, called,
                   creates, throws>>

Settled(id) == id # pendingFlush /\ \A f \in flights : f.id # id

\* flush() or shutdown() without a scheduled flush.  shutdown() also clears the
\* timer, which is armed only while events are queued, so both take the queue.
FlushNow(c) ==
    /\ flushes' = flushes + 1
    /\ StartFlush(flushes') \/ NothingToFlush
    /\ called' = called \cup {c}
    /\ waiting' = [waiting EXCEPT ![c] = None]
    /\ UNCHANGED <<pendingFlush, delivered, offered, dropped, creates, throws>>

CallFlush(c) ==
    /\ c \notin called
    /\ \/ pendingFlush = None /\ FlushNow(c)
       \/ /\ pendingFlush # None
          /\ waiting' = [waiting EXCEPT ![c] = pendingFlush]
          /\ called' = called \cup {c}
          /\ UNCHANGED <<queue, timer, pendingFlush, flights, delivered,
                         offered, dropped, flushes, creates, throws>>

\* The awaited flush has settled, whether it failed or not: its caller goes on.
CallerResumes(c) ==
    /\ waiting[c] # None /\ Settled(waiting[c])
    /\ FlushNow(c)

-----------------------------------------------------------------------------
Deliver(f) == delivered' = delivered \cup {f}

\* Mutants of Requeue: the events are lost; they go to the back (push).
RequeueNothing(f) == queue' = queue

RequeueAtBack(f) == queue' = queue \o f.events

\* The catch block: unshift(...events).
Requeue(f) == queue' = f.events \o queue

FlushSucceeds(f) ==
    /\ Deliver(f)
    /\ flights' = flights \ {f}
    /\ UNCHANGED <<queue, timer, pendingFlush, offered, dropped, waiting,
                   called, flushes, creates, throws>>

\* createBatch rejects before the batch exists.
CreateThrows(f) ==
    /\ Failures < MaxFaults /\ creates' = creates + 1
    /\ Requeue(f)
    /\ flights' = flights \ {f}
    /\ UNCHANGED <<timer, pendingFlush, delivered, offered, dropped, waiting,
                   called, flushes, throws>>

\* A listener of emit("batch") throws inside the same try block.
ListenerThrows(f) ==
    /\ Failures < MaxFaults /\ throws' = throws + 1
    /\ Deliver(f)
    /\ Requeue(f)
    /\ flights' = flights \ {f}
    /\ UNCHANGED <<timer, pendingFlush, offered, dropped, waiting, called,
                   flushes, creates>>

Next ==
    \/ Ingest \/ IngestDrops
    \/ RunScheduled
    \/ TimerFires
    \/ \E c \in Callers : CallFlush(c) \/ CallerResumes(c)
    \/ \E f \in flights : FlushSucceeds(f) \/ CreateThrows(f) \/ ListenerThrows(f)

Spec == Init /\ [][Next]_vars

\* Microtasks and timers run, and createBatch settles.
FairSpec ==
    /\ Spec
    /\ WF_vars(RunScheduled)
    /\ WF_vars(TimerFires)
    /\ WF_vars(\E f \in flights : FlushSucceeds(f))
    /\ WF_vars(\E c \in Callers : CallerResumes(c))

-----------------------------------------------------------------------------
\* Type invariant: the fields of EventBatcher between two turns of the event
\* loop; a timer is armed only while there are events for it to flush, which
\* is why shutdown() may clear it before it flushes.
TypeOK ==
    /\ offered \in 0 .. MaxOffered
    /\ queue \in Seq(Events)
    /\ timer \in BOOLEAN /\ (timer => queue # <<>>)
    /\ flushes \in Nat
    /\ pendingFlush \in 0 .. flushes
    /\ \A f \in flights \cup delivered :
           f.id \in 1 .. flushes /\ f.events \in Seq(Events)
    /\ dropped \subseteq Events
    /\ waiting \in [Callers -> 0 .. flushes]
    /\ called \subseteq Callers
    /\ creates \in Nat /\ throws \in Nat /\ Failures <= MaxFaults

IsDelivered(e) == \E b \in delivered : Contains(b.events, e)

\* An event for which ingest() answered true is queued, in a flush that is under
\* way, or delivered, however flushes overlap and fail.
Conserved ==
    \A e \in Accepted :
        \/ Contains(queue, e)
        \/ \E f \in flights \cup delivered : Contains(f.events, e)

\* Unless a listener threw, an accepted event is in one of these places and only
\* once, so it is anchored in at most one batch.
OnePlace ==
    throws = 0 =>
        /\ \A f \in flights \cup delivered :
               /\ IsInjective(f.events \o queue)
               /\ \A g \in flights \cup delivered :
                      f # g => IsInjective(f.events \o g.events)
        /\ IsInjective(queue)

Increasing(s) == \A i, j \in DOMAIN s : i < j => s[i] < s[j]

\* Every batch lists its events in the order ingest() accepted them, as long as
\* no second flush fails.
OrderedBatches ==
    Failures <= 1 => \A b \in delivered : Increasing(b.events)

\* While no flush has failed, queued events have a timer that will flush them,
\* whatever manual and threshold flushes came in between.
QueueIsTimed == Failures = 0 /\ queue # <<>> => timer

\* While no flush fails, every accepted event is delivered.
AcceptedIsDelivered ==
    \A e \in 1 .. MaxOffered :
        e \in Accepted ~> IsDelivered(e) \/ Failures > 0

\* max_batch_time_ms, "Maximum time in ms before time-triggered flush": every
\* accepted event is delivered, without further traffic, even if one flush
\* failed and put it back.
TimeTriggered ==
    \A e \in 1 .. MaxOffered : e \in Accepted ~> IsDelivered(e)

=============================================================================
