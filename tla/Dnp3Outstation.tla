--------------------------- MODULE Dnp3Outstation ---------------------------
(***************************************************************************)
(* The DNP3 outstation (server/protocols/dnp3-outstation/): the class       *)
(* event buffer (event-buffer.ts), solicited and unsolicited responses with *)
(* application confirms (index.ts, server.ts) and SELECT before OPERATE     *)
(* (controls.ts).  Several masters share one buffer and one armed SELECT.   *)
(*                                                                         *)
(* A master is external.  Each has an ordered channel of fragments on their *)
(* way to it, which a dropped link empties; it may send a request before    *)
(* the fragments already under way reach it.  What it sends is processed    *)
(* where it is sent: a later arrival is a later send.                       *)
(***************************************************************************)
EXTENDS Integers, Sequences, FiniteSets, FiniteSetsExt

CONSTANTS
    Master,          \* associations
    Class,           \* event classes
    Command,         \* control requests, told apart by canonicalDigest
    Malformed,       \* those with an object the outstation rejects
    MaxEvents,       \* config maxEvents of a class
    Threshold,       \* config unsolicitedThreshold of a class
    FragmentSize,    \* events that fit in a fragment
    SeqModulus,      \* 16 in the code: APP_CTRL_SEQ_MASK + 1
    MaxUpdates,      \* bound: events
    MaxRequests,     \* bound: requests other than CONFIRM
    MaxInputs,       \* bound: events and requests together
    MaxInFlight,     \* bound: fragments under way when a request is sent
    MaxDrops         \* bound: links dropped

ASSUME OutstationAssumption ==
    /\ IsFiniteSet(Class) /\ Malformed \subseteq Command
    /\ MaxEvents \in Nat \ {0} /\ Threshold \in Nat \ {0}
    /\ FragmentSize \in Nat \ {0} /\ SeqModulus \in Nat \ {0, 1}
    /\ MaxUpdates \in Nat /\ MaxRequests \in Nat /\ MaxDrops \in Nat
    /\ MaxInFlight \in Nat /\ MaxInputs \in Nat

VARIABLES
    seqCounter,      \* number of the last event
    events,          \* queues[c].events, as the numbers it holds
    reported,        \* the events of the queues' reported sets
    overflowed,      \* queues[c].overflowed
    overflowFlag,
    unsolicitedEnabled,
    unsolicitedSeq,
    awaiting,        \* session.awaitingConfirm of each association
    pending,         \* session.pendingFragments
    connected,
    channel,         \* fragments on their way to each master
    armed,           \* the armed SELECT, or None
    requests,        \* requests other than CONFIRM
    drops,           \* links dropped
    got,             \* history: events some master received
    dropped,         \* history: events overwritten at the cap
    announced,       \* history: those a master heard of by EVENT_BUFFER_OVERFLOW
    cleared,         \* history: events dropped up to or by a restart request
    misread,         \* history: events confirmed by a CONFIRM of another
                     \* fragment with the same sequence number
    select,          \* history: the last SELECT accepted, until something
                     \* that must revoke it happens
    operated         \* history: what the last executed OPERATE ran, for which
                     \* SELECT

bufferVars == <<seqCounter, events, reported, overflowed, overflowFlag>>
sessionVars == <<awaiting, pending, connected, channel>>
controlVars == <<armed, select, operated>>
historyVars == <<got, dropped, announced, cleared, misread>>
vars == <<bufferVars, unsolicitedEnabled, unsolicitedSeq, sessionVars,
          controlVars, requests, drops, historyVars>>

None == [none |-> TRUE]
Seqs == 0 .. (SeqModulus - 1)
Buffered == UNION {events[c] : c \in Class}

Init ==
    /\ seqCounter = 0 /\ events = [c \in Class |-> {}] /\ reported = {}
    /\ overflowed = [c \in Class |-> FALSE] /\ overflowFlag = FALSE
    /\ unsolicitedEnabled = TRUE /\ unsolicitedSeq = 0
    /\ awaiting = [m \in Master |-> None] /\ pending = [m \in Master |-> <<>>]
    /\ connected = [m \in Master |-> TRUE]
    /\ channel = [m \in Master |-> <<>>]
    /\ armed = None /\ select = None /\ operated = None
    /\ requests = 0 /\ drops = 0
    /\ got = {} /\ dropped = {} /\ announced = {} /\ cleared = {}
    /\ misread = {}

-----------------------------------------------------------------------------
(* Responses *)

\* A fragment; what its overflow indication stands for goes with it.
Fragment(seq, uns, con, evs, flag, lost) ==
    [seq |-> seq, uns |-> uns, con |-> con, events |-> evs,
     lost |-> IF flag THEN lost ELSE {}]

\* handleRead's packing of the events evs: FragmentSize to a fragment, oldest
\* first, numbered from the request's sequence number.  An answer without
\* events is one fragment that asks for no confirm.
Packed(seq, evs) ==
    LET Rank(e) == Cardinality({x \in evs : x < e})
        count == IF evs = {} THEN 1
                 ELSE 1 + (Cardinality(evs) - 1) \div FragmentSize
    IN  [i \in 1 .. count |->
            Fragment((seq + i - 1) % SeqModulus, FALSE, evs # {},
                     {e \in evs : Rank(e) \div FragmentSize = i - 1},
                     overflowFlag, dropped)]

\* A master sends a request.  It numbers its requests itself and may repeat a
\* number: the actions below take any sequence number q.
Request(m) ==
    /\ connected[m] /\ Len(channel[m]) < MaxInFlight
    /\ requests < MaxRequests /\ requests + seqCounter < MaxInputs
    /\ requests' = requests + 1

\* A fragment that asks for no confirm and indicates no overflow tells a master
\* nothing the model keeps: it is not put in the channel.
Send(m, f) ==
    channel' = IF f.con \/ f.lost # {}
               THEN [channel EXCEPT ![m] = Append(@, f)] ELSE channel

\* The response to a request other than READ.
Reply(m, q, flag) ==
    Send(m, Fragment(q, FALSE, FALSE, {}, flag, dropped))

\* Any request but CONFIRM abandons the fragments of its association.
Abandon(m) ==
    /\ awaiting' = [awaiting EXCEPT ![m] = None]
    /\ pending' = [pending EXCEPT ![m] = <<>>]

\* READ of the classes cs; the empty set is a read of static data.
Read(m, q, cs) ==
    LET evs == UNION {events[c] : c \in cs}
        fragments == Packed(q, evs)
    IN  /\ Request(m)
        /\ Send(m, fragments[1])
        /\ pending' = [pending EXCEPT ![m] = Tail(fragments)]
        /\ awaiting' = [awaiting EXCEPT ![m] =
                           IF fragments[1].con THEN fragments[1] ELSE None]
        /\ reported' = reported \cup evs
        /\ UNCHANGED <<seqCounter, events, overflowed, overflowFlag,
                       unsolicitedEnabled, unsolicitedSeq, connected,
                       controlVars, drops, historyVars>>

-----------------------------------------------------------------------------
(* Events *)

Unreported(evs, rep) == evs \ rep

\* evaluateUnsolicited: a class at its threshold is due; one with an unreported
\* event may be, by its age.
Due(evs, rep) == {c \in Class : Cardinality(Unreported(evs[c], rep)) >= Threshold}
MayBeDue(evs, rep) == {c \in Class : Unreported(evs[c], rep) # {}}

\* maybeSendUnsolicited for the classes cs, and broadcastUnsolicited.
SendUnsolicited(cs, evs, rep, flag, lost) ==
    LET all == UNION {evs[c] : c \in cs}
        first == {e \in all : Cardinality({x \in all : x < e}) < FragmentSize}
        fragment == Fragment(unsolicitedSeq, TRUE, TRUE, first, flag, lost)
        targets == {m \in Master : connected[m] /\ awaiting[m] = None}
    IN  /\ unsolicitedSeq' = (unsolicitedSeq + 1) % SeqModulus
        /\ awaiting' = [m \in Master |-> IF m \in targets THEN fragment
                                         ELSE awaiting[m]]
        /\ channel' = [m \in Master |-> IF m \in targets
                                        THEN Append(channel[m], fragment)
                                        ELSE channel[m]]
        /\ reported' = IF targets = {} THEN rep ELSE rep \cup first

MaybeSendUnsolicited(evs, rep, flag, lost) ==
    \/ /\ ~unsolicitedEnabled \/ Due(evs, rep) = {}
       /\ reported' = rep /\ UNCHANGED <<unsolicitedSeq, awaiting, channel>>
    \/ /\ unsolicitedEnabled
       /\ \E cs \in SUBSET MayBeDue(evs, rep) \ {{}} :
              Due(evs, rep) \subseteq cs
              /\ SendUnsolicited(cs, evs, rep, flag, lost)

\* Mutant of AtCap: the queue takes one event more.
PastCap(c) == Cardinality(events[c]) > MaxEvents

\* enqueue() drops the oldest event of a class at its cap.
AtCap(c) == Cardinality(events[c]) >= MaxEvents

\* updateTag: enqueue an event of class c, drop the oldest at the cap, and see
\* whether to send.
UpdateTag(c) ==
    LET full == AtCap(c)
        gone == IF full THEN {Min(events[c])} ELSE {}
    IN  /\ seqCounter < MaxUpdates /\ requests + seqCounter < MaxInputs
        /\ seqCounter' = seqCounter + 1
        /\ events' = [events EXCEPT ![c] = (@ \ gone) \cup {seqCounter'}]
        /\ overflowed' = [overflowed EXCEPT ![c] = @ \/ full]
        /\ overflowFlag' = (overflowFlag \/ full)
        /\ dropped' = dropped \cup gone
        /\ MaybeSendUnsolicited(events', reported \ gone, overflowFlag', dropped')
        /\ UNCHANGED <<unsolicitedEnabled, pending, connected, controlVars,
                       requests, drops, got, announced, cleared, misread>>

\* The 500 ms timer.
UnsolicitedTimer ==
    /\ unsolicitedEnabled /\ MayBeDue(events, reported) # {}
    /\ MaybeSendUnsolicited(events, reported, overflowFlag, dropped)
    /\ UNCHANGED <<seqCounter, events, overflowed, overflowFlag,
                   unsolicitedEnabled, pending, connected, controlVars,
                   requests, drops, historyVars>>

-----------------------------------------------------------------------------
(* Delivery and confirms *)

\* Mutant of Confirm: any class drained ends the overflow indication.
ConfirmAny(evs) ==
    /\ events' = [c \in Class |-> events[c] \ evs]
    /\ reported' = reported \ evs
    /\ overflowed' = [c \in Class |-> overflowed[c] /\ events'[c] # {}]
    /\ overflowFlag' = (overflowFlag /\ \A c \in Class : overflowed'[c])

\* Dnp3EventBuffer.confirm.
Confirm(evs) ==
    /\ events' = [c \in Class |-> events[c] \ evs]
    /\ reported' = reported \ evs
    /\ overflowed' = [c \in Class |-> overflowed[c] /\ events'[c] # {}]
    /\ overflowFlag' = (overflowFlag /\ \E c \in Class : overflowed'[c])

\* Mutant of Matches: any CONFIRM is for the fragment in flight.
MatchesAny(m, f) == awaiting[m] # None

\* A CONFIRM is matched by its sequence number alone.
Matches(m, f) == awaiting[m] # None /\ awaiting[m].seq = f.seq

\* handleConfirm of the CONFIRM that m sends for f.
HandleConfirm(m, f) ==
    \/ /\ ~Matches(m, f)
       /\ channel' = [channel EXCEPT ![m] = Tail(@)]
       /\ UNCHANGED <<bufferVars, awaiting, pending, misread>>
    \/ /\ Matches(m, f)
       /\ LET waiting == awaiting[m]
              more == pending[m] # <<>>
              next == Head(pending[m])
          IN  /\ Confirm(waiting.events)
              /\ awaiting' = [awaiting EXCEPT ![m] =
                                 IF more /\ next.con THEN next ELSE None]
              /\ pending' = [pending EXCEPT ![m] = IF more THEN Tail(@) ELSE @]
              /\ channel' = [channel EXCEPT ![m] =
                                IF more THEN Append(Tail(@), next) ELSE Tail(@)]
              /\ misread' = IF waiting # f /\ waiting.seq = f.seq
                            THEN misread \cup waiting.events ELSE misread
       /\ UNCHANGED seqCounter

\* A fragment reaches its master, which confirms it if asked to, or does not
\* get to.
Receive(m) ==
    /\ channel[m] # <<>>
    /\ LET f == Head(channel[m]) IN
        /\ got' = got \cup f.events
        /\ announced' = announced \cup f.lost
        /\ \/ f.con /\ HandleConfirm(m, f)
           \/ /\ channel' = [channel EXCEPT ![m] = Tail(@)]
              /\ UNCHANGED <<bufferVars, awaiting, pending, misread>>
    /\ UNCHANGED <<unsolicitedEnabled, unsolicitedSeq, connected, controlVars,
                   requests, drops, dropped, cleared>>

-----------------------------------------------------------------------------
(* Controls: one with an object to resolve ends the selection before it *)

\* A critical function whose objects do not parse to the end is refused before
\* anything else is done; DIRECT_OPERATE_NR without a response.  What the
\* association awaits stays, and so does an armed SELECT.
Truncated(m, q) ==
    /\ Request(m)
    /\ Reply(m, q, overflowFlag) \/ UNCHANGED channel
    /\ UNCHANGED <<bufferVars, unsolicitedEnabled, unsolicitedSeq, awaiting,
                   pending, connected, controlVars, drops, historyVars>>

\* A control function without a control object, or with none that could be
\* decoded, is answered before resolveStatuses: an armed SELECT stays.
EmptyControl(m, q) ==
    /\ Request(m) /\ Abandon(m)
    /\ Reply(m, q, overflowFlag) \/ UNCHANGED channel
    /\ UNCHANGED <<bufferVars, unsolicitedEnabled, unsolicitedSeq, connected,
                   controlVars, drops, historyVars>>

\* A control request that reaches resolveStatuses, up to what it does to the
\* selection.
Control(m, q) ==
    /\ Request(m) /\ Abandon(m) /\ Reply(m, q, overflowFlag)
    /\ UNCHANGED <<bufferVars, unsolicitedEnabled, unsolicitedSeq, connected,
                   drops, historyVars>>

\* SELECT arms when every object is valid.
Select(m, q, cmd) ==
    /\ Control(m, q)
    /\ IF cmd \in Malformed
       THEN armed' = None /\ select' = None
       ELSE /\ armed' = [seq |-> q, cmd |-> cmd, expired |-> FALSE]
            /\ select' = [seq |-> q, cmd |-> cmd]
    /\ UNCHANGED operated

\* selectTimeoutMs passes.
SelectExpires ==
    /\ armed # None /\ ~armed.expired
    /\ armed' = [armed EXCEPT !.expired = TRUE]
    /\ select' = None
    /\ UNCHANGED <<bufferVars, unsolicitedEnabled, unsolicitedSeq, sessionVars,
                   operated, requests, drops, historyVars>>

\* OPERATE with an object consumes the selection whatever comes of it, and runs
\* the command if it is the one selected, one sequence number later, and in time.
Operate(m, q, cmd) ==
    /\ Control(m, q)
    /\ armed' = None /\ select' = None
    /\ operated' = IF /\ armed # None /\ armed.cmd = cmd
                      /\ armed.seq = (q - 1 + SeqModulus) % SeqModulus
                      /\ ~armed.expired
                   THEN [cmd |-> cmd, seq |-> q, select |-> select]
                   ELSE operated

\* DIRECT_OPERATE, with or without response.
DirectOperate(m, q) ==
    /\ \/ Control(m, q)
       \/ /\ Request(m) /\ Abandon(m)
          /\ UNCHANGED <<bufferVars, unsolicitedEnabled, unsolicitedSeq,
                         connected, channel, drops, historyVars>>
    /\ armed' = None /\ select' = None /\ UNCHANGED operated

\* ENABLE_UNSOLICITED and DISABLE_UNSOLICITED.
SetUnsolicited(m, q, on) ==
    /\ Request(m) /\ Abandon(m) /\ Reply(m, q, overflowFlag)
    /\ unsolicitedEnabled' = on
    /\ UNCHANGED <<bufferVars, unsolicitedSeq, connected, controlVars, drops,
                   historyVars>>

\* COLD_RESTART and WARM_RESTART: clear the buffer, disarm.
RestartRequest(m, q) ==
    /\ Request(m) /\ Abandon(m) /\ Reply(m, q, FALSE)
    /\ events' = [c \in Class |-> {}] /\ reported' = {}
    /\ overflowed' = [c \in Class |-> FALSE] /\ overflowFlag' = FALSE
    /\ cleared' = cleared \cup Buffered \cup dropped
    /\ armed' = None /\ select' = None
    /\ UNCHANGED <<seqCounter, unsolicitedEnabled, unsolicitedSeq, connected,
                   operated, drops, got, dropped, announced, misread>>

\* Mutant of LinkDrops: the selection outlives the association.
LinkDropsArmed(m) ==
    /\ connected[m] /\ drops < MaxDrops
    /\ drops' = drops + 1
    /\ connected' = [connected EXCEPT ![m] = FALSE]
    /\ channel' = [channel EXCEPT ![m] = <<>>]
    /\ Abandon(m)
    /\ select' = None /\ UNCHANGED <<armed, operated>>
    /\ UNCHANGED <<bufferVars, unsolicitedEnabled, unsolicitedSeq, requests,
                   historyVars>>

\* The connection closes: its session goes, and onAssociationClosed disarms.
LinkDrops(m) ==
    /\ connected[m] /\ drops < MaxDrops
    /\ drops' = drops + 1
    /\ connected' = [connected EXCEPT ![m] = FALSE]
    /\ channel' = [channel EXCEPT ![m] = <<>>]
    /\ Abandon(m)
    /\ armed' = None /\ select' = None /\ UNCHANGED operated
    /\ UNCHANGED <<bufferVars, unsolicitedEnabled, unsolicitedSeq, requests,
                   historyVars>>

\* A connection is accepted, with a new session.
Connect(m) ==
    /\ ~connected[m]
    /\ connected' = [connected EXCEPT ![m] = TRUE]
    /\ UNCHANGED <<bufferVars, unsolicitedEnabled, unsolicitedSeq, awaiting,
                   pending, channel, controlVars, requests, drops, historyVars>>

-----------------------------------------------------------------------------
Next ==
    \/ \E c \in Class : UpdateTag(c)
    \/ UnsolicitedTimer
    \/ SelectExpires
    \/ \E m \in Master : Receive(m) \/ LinkDrops(m) \/ Connect(m)
    \/ \E m \in Master, q \in Seqs :
        \/ \E cs \in SUBSET Class : Read(m, q, cs)
        \/ \E cmd \in Command : Select(m, q, cmd) \/ Operate(m, q, cmd)
        \/ DirectOperate(m, q) \/ Truncated(m, q) \/ EmptyControl(m, q)
        \/ \E on \in BOOLEAN : SetUnsolicited(m, q, on)
        \/ RestartRequest(m, q)

Spec == Init /\ [][Next]_vars

-----------------------------------------------------------------------------
(* Properties *)

FragmentType ==
    [seq : Seqs, uns : BOOLEAN, con : BOOLEAN, events : SUBSET (1 .. seqCounter),
     lost : SUBSET (1 .. seqCounter)]

\* The buffer keeps to its caps, only events it holds count as reported, and an
\* association never owes fragments that nothing will send: while some are
\* pending, one awaits its confirm (event-buffer.ts, session.ts).
TypeOK ==
    /\ seqCounter \in 0 .. MaxUpdates
    /\ \A c \in Class : /\ events[c] \subseteq 1 .. seqCounter
                        /\ Cardinality(events[c]) <= MaxEvents
    /\ reported \subseteq Buffered
    /\ overflowed \in [Class -> BOOLEAN]
    /\ overflowFlag \in BOOLEAN
    /\ unsolicitedEnabled \in BOOLEAN /\ unsolicitedSeq \in Seqs
    /\ connected \in [Master -> BOOLEAN]
    /\ \A m \in Master :
        /\ awaiting[m] \in {None} \cup FragmentType
        /\ awaiting[m] # None => awaiting[m].con
        /\ \A i \in DOMAIN pending[m] : pending[m][i] \in FragmentType
        /\ \A i \in DOMAIN channel[m] : channel[m][i] \in FragmentType
        /\ pending[m] # <<>> => awaiting[m] # None
    /\ armed \in {None} \cup [seq : Seqs, cmd : Command, expired : BOOLEAN]
    /\ requests \in 0 .. MaxRequests /\ drops \in 0 .. MaxDrops

\* Every event is buffered, was received by a master, was overwritten at the cap
\* or was cleared by a restart request: one that was reported leaves the buffer
\* only once the master confirms the fragment that carries it (the comments on
\* confirm and handleConfirm).  handleConfirm does not keep this promise: a
\* CONFIRM of an earlier fragment may have the number of the one in flight.
LeavesOnlyConfirmed ==
    1 .. seqCounter \subseteq Buffered \cup got \cup dropped \cup cleared

\* What does hold: such a misread CONFIRM is the only way an event leaves
\* unseen.  No abandoned response, dropped link, overlapping poll of another
\* master, overflow of its class or unsolicited retry loses one.
NothingVanishes ==
    1 .. seqCounter \subseteq Buffered \cup got \cup dropped \cup cleared
                              \cup misread

\* An event overwritten at the cap is never kept from the masters: until one of
\* them has heard EVENT_BUFFER_OVERFLOW in a response sent after the loss, the
\* outstation goes on saying so, whatever else is confirmed, in whatever class
\* (hasOverflow, confirm, currentIin).  Excepted as above.
OverflowAnnounced ==
    dropped \subseteq announced \cup cleared \/ overflowFlag \/ misread # {}

\* An OPERATE runs only the command of the last SELECT that was accepted, with
\* the sequence number after its, and only if nothing that revokes a selection
\* came between, from this master or another: a control request with an object
\* to resolve, a restart request, the timeout or a closed association
\* (resolveStatuses, onAssociationClosed).  Polls, confirms and the control
\* requests that are refused before their objects are resolved may.
OperateIsSelected ==
    operated # None =>
        /\ operated.select # None
        /\ operated.select.cmd = operated.cmd /\ operated.cmd \notin Malformed
        /\ (operated.select.seq + 1) % SeqModulus = operated.seq

=============================================================================
