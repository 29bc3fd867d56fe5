----------------------- MODULE Dnp3OutstationProofs -----------------------
(***************************************************************************)
(* Proofs about the DNP3 outstation, for every number of masters, classes  *)
(* and commands, every cap and every sequence-number width.                *)
(***************************************************************************)
EXTENDS Dnp3Outstation, SequenceTheorems, FiniteSetTheorems,
        WellFoundedInduction, TLAPS

-----------------------------------------------------------------------------
(* SELECT before OPERATE *)

\* Sequence numbers wrap: the successor of the number before s is s.
LEMMA SeqSuccessor ==
    ASSUME NEW n \in Nat, n > 1, NEW s \in 0 .. (n - 1)
    PROVE  (((s - 1 + n) % n) + 1) % n = s
<1>1. CASE s = 0
    <2>1. (s - 1 + n) % n = n - 1
        BY <1>1
    <2>2. ((n - 1) + 1) % n = 0
        OBVIOUS
    <2> QED BY <1>1, <2>1, <2>2
<1>2. CASE s # 0
    <2>1. (s - 1 + n) % n = s - 1
        BY <1>2
    <2>2. ((s - 1) + 1) % n = s
        OBVIOUS
    <2> QED BY <2>1, <2>2
<1> QED BY <1>1, <1>2

ArmedType == [seq : Seqs, cmd : Command, expired : BOOLEAN]

\* The inductive invariant: an armed SELECT that has not expired is the last one
\* accepted, nothing that revokes it has happened since, and it is well formed.
ControlInv ==
    /\ requests \in 0 .. MaxRequests
    /\ armed \in {None} \cup ArmedType
    /\ armed # None /\ ~armed.expired =>
           /\ select = [seq |-> armed.seq, cmd |-> armed.cmd]
           /\ armed.cmd \notin Malformed
    /\ OperateIsSelected

\* A selection is not the absence of one.
LEMMA SelectionIsSome ==
    ASSUME NEW q, NEW c
    PROVE  [seq |-> q, cmd |-> c] # None
BY DEF None

\* Steps that leave the controls alone.
LEMMA ControlsUntouched ==
    ASSUME ControlInv, UNCHANGED controlVars,
           requests' \in 0 .. MaxRequests
    PROVE  ControlInv'
BY DEF ControlInv, controlVars, OperateIsSelected, ArmedType, None, Seqs

\* Steps that disarm and run nothing.
LEMMA Disarmed ==
    ASSUME ControlInv, armed' = None, UNCHANGED operated,
           requests' \in 0 .. MaxRequests
    PROVE  ControlInv'
BY DEF ControlInv, OperateIsSelected, ArmedType, None, Seqs

LEMMA RequestCounts ==
    ASSUME ControlInv, NEW m \in Master, Request(m)
    PROVE  requests' \in 0 .. MaxRequests
BY OutstationAssumption DEF ControlInv, Request

LEMMA SelectStep ==
    ASSUME ControlInv, NEW m \in Master, NEW q \in Seqs, NEW cmd \in Command,
           Select(m, q, cmd)
    PROVE  ControlInv'
<1>1. requests' \in 0 .. MaxRequests
    BY RequestCounts DEF Select, Control
<1>2. CASE cmd \in Malformed
    BY <1>1, <1>2, Disarmed DEF Select
<1>3. CASE cmd \notin Malformed
    <2>1. /\ armed' = [seq |-> q, cmd |-> cmd, expired |-> FALSE]
          /\ select' = [seq |-> q, cmd |-> cmd]
          /\ UNCHANGED operated
        BY <1>3 DEF Select
    <2>2. armed' \in ArmedType
        BY <1>1, <2>1 DEF ArmedType
    <2>3. OperateIsSelected'
        BY <2>1 DEF ControlInv, OperateIsSelected, None
    <2>4. /\ select' = [seq |-> armed'.seq, cmd |-> armed'.cmd]
          /\ armed'.cmd \notin Malformed
        BY <1>3, <2>1
    <2> QED BY <1>1, <2>2, <2>3, <2>4 DEF ControlInv, ArmedType, None, Seqs
<1> QED BY <1>2, <1>3

\* What an OPERATE runs is what the armed SELECT named, and the armed SELECT is
\* the last one accepted.
LEMMA OperateStep ==
    ASSUME ControlInv, NEW m \in Master, NEW q \in Seqs, NEW cmd \in Command,
           Operate(m, q, cmd)
    PROVE  ControlInv'
<1> DEFINE Runs == /\ armed # None /\ armed.cmd = cmd
                   /\ armed.seq = (q - 1 + SeqModulus) % SeqModulus
                   /\ ~armed.expired
<1>1. requests' \in 0 .. MaxRequests
    BY RequestCounts DEF Operate, Control
<1>2. armed' = None
    BY DEF Operate
<1>3. CASE ~Runs
    <2>1. UNCHANGED operated
        BY <1>3 DEF Operate
    <2> QED BY <1>1, <1>2, <2>1, Disarmed
<1>4. CASE Runs
    <2>1. operated' = [cmd |-> cmd, seq |-> q, select |-> select]
        BY <1>4 DEF Operate
    <2>2. select = [seq |-> armed.seq, cmd |-> cmd] /\ cmd \notin Malformed
        BY <1>4 DEF ControlInv
    <2>3. select # None
        BY <2>2, SelectionIsSome
    <2>4. (armed.seq + 1) % SeqModulus = q
        <3>1. SeqModulus \in Nat /\ SeqModulus > 1
            BY OutstationAssumption
        <3> QED BY <1>1, <1>4, <3>1, SeqSuccessor DEF Seqs
    <2>5. OperateIsSelected'
        BY <2>1, <2>2, <2>3, <2>4 DEF OperateIsSelected, None
    <2> QED BY <1>1, <1>2, <2>5 DEF ControlInv, ArmedType, None, Seqs
<1> QED BY <1>3, <1>4

\* Every step of the outstation keeps the inductive invariant.
LEMMA ControlStep ==
    ASSUME ControlInv, [Next]_vars
    PROVE  ControlInv'
<1>1. CASE \E c \in Class : UpdateTag(c)
    BY <1>1, ControlsUntouched DEF UpdateTag, ControlInv
<1>2. CASE UnsolicitedTimer
    BY <1>2, ControlsUntouched DEF UnsolicitedTimer, ControlInv
<1>3. CASE SelectExpires
    <2>1. armed \in ArmedType /\ armed' = [armed EXCEPT !.expired = TRUE]
        BY <1>3 DEF SelectExpires, ControlInv
    <2>2. armed' \in ArmedType /\ armed'.expired
        BY <2>1 DEF ArmedType
    <2>3. OperateIsSelected' /\ UNCHANGED requests
        BY <1>3 DEF SelectExpires, ControlInv, OperateIsSelected, None
    <2> QED BY <2>2, <2>3 DEF ControlInv, ArmedType, None, Seqs
<1>4. ASSUME NEW m \in Master,
             Receive(m) \/ Connect(m) \/ LinkDrops(m)
      PROVE  ControlInv'
    <2>1. UNCHANGED requests
        BY <1>4 DEF Receive, Connect, LinkDrops
    <2>2. CASE Receive(m) \/ Connect(m)
        BY <2>1, <2>2, ControlsUntouched DEF Receive, Connect, ControlInv
    <2>3. CASE LinkDrops(m)
        BY <2>1, <2>3, Disarmed DEF LinkDrops, ControlInv
    <2> QED BY <1>4, <2>2, <2>3
<1>5. ASSUME NEW m \in Master, NEW q \in Seqs, NEW cs \in SUBSET Class,
             Read(m, q, cs)
      PROVE  ControlInv'
    BY <1>5, RequestCounts, ControlsUntouched DEF Read
<1>6. ASSUME NEW m \in Master, NEW q \in Seqs, NEW cmd \in Command,
             Select(m, q, cmd) \/ Operate(m, q, cmd)
      PROVE  ControlInv'
    BY <1>6, SelectStep, OperateStep
<1>7. ASSUME NEW m \in Master, NEW q \in Seqs,
             DirectOperate(m, q) \/ RestartRequest(m, q)
      PROVE  ControlInv'
    BY <1>7, RequestCounts, Disarmed DEF DirectOperate, RestartRequest, Control
<1>8. ASSUME NEW m \in Master, NEW q \in Seqs, NEW on \in BOOLEAN,
             SetUnsolicited(m, q, on)
      PROVE  ControlInv'
    BY <1>8, RequestCounts, ControlsUntouched DEF SetUnsolicited
<1>9. ASSUME NEW m \in Master, NEW q \in Seqs,
             Truncated(m, q) \/ EmptyControl(m, q)
      PROVE  ControlInv'
    BY <1>9, RequestCounts, ControlsUntouched DEF Truncated, EmptyControl
<1>10. CASE UNCHANGED vars
    BY <1>10, ControlsUntouched DEF vars, controlVars, ControlInv
<1> QED BY <1>1, <1>2, <1>3, <1>4, <1>5, <1>6, <1>7, <1>8, <1>9, <1>10 DEF Next

\* Whatever sequence numbers the masters use, the outstation runs an OPERATE only
\* if it repeats the last accepted SELECT with the next sequence number, and no
\* control request that was resolved, restart request, timeout or closed
\* association has come between (resolveStatuses, disarm, onAssociationClosed).
\* A control request refused before its objects are resolved may have: the code
\* leaves the SELECT armed then.
THEOREM OperateSelected == Spec => []OperateIsSelected
<1>1. Init => ControlInv
    BY OutstationAssumption DEF Init, ControlInv, OperateIsSelected, None
<1>2. ControlInv /\ [Next]_vars => ControlInv'
    BY ControlStep
<1>3. ControlInv => OperateIsSelected
    BY DEF ControlInv
<1> QED BY <1>1, <1>2, <1>3, PTL DEF Spec

-----------------------------------------------------------------------------
(* No event vanishes *)

\* The inductive invariant adds only the shape of the class queues.
EventInv ==
    /\ seqCounter \in Nat
    /\ events \in [Class -> SUBSET Nat]
    /\ NothingVanishes

\* Steps that leave the queues and the histories of the events alone.
LEMMA EventsUntouched ==
    ASSUME EventInv, UNCHANGED <<seqCounter, events, historyVars>>
    PROVE  EventInv'
BY DEF EventInv, NothingVanishes, Buffered, historyVars

\* A new event is buffered; the one it displaces is counted as overwritten.
LEMMA UpdateStep ==
    ASSUME EventInv, NEW c \in Class, UpdateTag(c)
    PROVE  EventInv'
<1> DEFINE gone == IF AtCap(c) THEN {Min(events[c])} ELSE {}
<1>1. /\ seqCounter' = seqCounter + 1
      /\ events' = [events EXCEPT ![c] = (@ \ gone) \cup {seqCounter'}]
      /\ dropped' = dropped \cup gone
      /\ UNCHANGED <<got, cleared, misread>>
    BY DEF UpdateTag
<1> HIDE DEF gone
<1>2. seqCounter' \in Nat /\ events' \in [Class -> SUBSET Nat]
    BY <1>1 DEF EventInv
<1>3. Buffered \subseteq Buffered' \cup dropped' /\ seqCounter' \in Buffered'
    BY <1>1 DEF EventInv, Buffered
<1>4. 1 .. seqCounter' = (1 .. seqCounter) \cup {seqCounter'}
    BY <1>1 DEF EventInv
<1> QED BY <1>1, <1>2, <1>3, <1>4 DEF EventInv, NothingVanishes

\* A CONFIRM removes the events of the fragment in flight: the master that sends
\* it has them, or it was meant for another fragment.
LEMMA ReceiveStep ==
    ASSUME EventInv, NEW m \in Master, Receive(m)
    PROVE  EventInv'
<1> DEFINE f == Head(channel[m])
<1>1. got' = got \cup f.events /\ UNCHANGED <<dropped, cleared>>
    BY DEF Receive
<1>2. CASE UNCHANGED <<bufferVars, misread>>
    BY <1>1, <1>2 DEF EventInv, NothingVanishes, Buffered, bufferVars
<1>3. CASE /\ f.con /\ HandleConfirm(m, f)
           /\ ~UNCHANGED <<bufferVars, misread>>
    <2> DEFINE w == awaiting[m]
    <2>1. /\ Matches(m, f) /\ UNCHANGED seqCounter
          /\ events' = [c \in Class |-> events[c] \ w.events]
          /\ misread' = IF w # f /\ w.seq = f.seq
                        THEN misread \cup w.events ELSE misread
        BY <1>3 DEF HandleConfirm, Confirm
    <2> HIDE DEF f, w
    <2>2. w.events \subseteq got' \cup misread' /\ misread \subseteq misread'
        BY <1>1, <2>1 DEF Matches, w
    <2>3. Buffered \subseteq Buffered' \cup w.events
        BY <2>1 DEF Buffered, EventInv
    <2>4. events' \in [Class -> SUBSET Nat]
        BY <2>1 DEF EventInv
    <2> QED BY <1>1, <2>1, <2>2, <2>3, <2>4 DEF EventInv, NothingVanishes
<1> QED BY <1>2, <1>3 DEF Receive

\* A restart request empties the buffer into the history of what it cleared.
LEMMA RestartStep ==
    ASSUME EventInv, NEW m \in Master, NEW q \in Seqs, RestartRequest(m, q)
    PROVE  EventInv'
<1>1. /\ events' = [c \in Class |-> {}] /\ Buffered \subseteq cleared'
      /\ cleared \subseteq cleared' /\ UNCHANGED <<seqCounter, got, dropped, misread>>
    BY DEF RestartRequest
<1> QED BY <1>1 DEF EventInv, NothingVanishes

\* Every step of the outstation keeps the inductive invariant.
LEMMA EventStep ==
    ASSUME EventInv, [Next]_vars
    PROVE  EventInv'
<1>1. CASE \E c \in Class : UpdateTag(c)
    BY <1>1, UpdateStep
<1>2. CASE UnsolicitedTimer \/ SelectExpires
    BY <1>2, EventsUntouched DEF UnsolicitedTimer, SelectExpires, bufferVars
<1>3. ASSUME NEW m \in Master, Receive(m) \/ Connect(m) \/ LinkDrops(m)
      PROVE  EventInv'
    BY <1>3, ReceiveStep, EventsUntouched DEF Connect, LinkDrops, bufferVars
<1>4. ASSUME NEW m \in Master, NEW q \in Seqs,
             \/ DirectOperate(m, q) \/ RestartRequest(m, q)
             \/ Truncated(m, q) \/ EmptyControl(m, q)
      PROVE  EventInv'
    BY <1>4, RestartStep, EventsUntouched
       DEF DirectOperate, Truncated, EmptyControl, Control, bufferVars
<1>5. ASSUME NEW m \in Master, NEW q \in Seqs, NEW cs \in SUBSET Class,
             Read(m, q, cs)
      PROVE  EventInv'
    BY <1>5, EventsUntouched DEF Read
<1>6. ASSUME NEW m \in Master, NEW q \in Seqs, NEW cmd \in Command,
             Select(m, q, cmd) \/ Operate(m, q, cmd)
      PROVE  EventInv'
    BY <1>6, EventsUntouched DEF Select, Operate, Control, bufferVars
<1>7. ASSUME NEW m \in Master, NEW q \in Seqs, NEW on \in BOOLEAN,
             SetUnsolicited(m, q, on)
      PROVE  EventInv'
    BY <1>7, EventsUntouched DEF SetUnsolicited, bufferVars
<1>8. CASE UNCHANGED vars
    BY <1>8, EventsUntouched DEF vars, bufferVars
<1> QED BY <1>1, <1>2, <1>3, <1>4, <1>5, <1>6, <1>7, <1>8 DEF Next

\* An event leaves the outstation only to a master that has it, at the cap, by a
\* restart request, or by a CONFIRM of another fragment with the same sequence
\* number: that defect, which LeavesOnlyConfirmed exhibits, is the only one
\* (handleConfirm, Dnp3EventBuffer.confirm, enqueue and clear).
THEOREM EventsKept == Spec => []NothingVanishes
<1>1. Init => EventInv
    BY DEF Init, EventInv, NothingVanishes, Buffered
<1>2. EventInv /\ [Next]_vars => EventInv'
    BY EventStep
<1>3. EventInv => NothingVanishes
    BY DEF EventInv
<1> QED BY <1>1, <1>2, <1>3, PTL DEF Spec

-----------------------------------------------------------------------------
(* Types, and how fragments travel *)

\* The oldest event of a queue is in it.
LEMMA MinMember ==
    ASSUME NEW S \in SUBSET Nat, S # {}
    PROVE  Min(S) \in S
<1> DEFINE R == {ss \in Nat \X Nat : ss[1] < ss[2]}
<1>1. IsWellFoundedOn(R, Nat)
    BY NatLessThanWellFounded DEF OpToRel
<1>2. \A x, y \in Nat : <<y, x>> \in R <=> y < x
    OBVIOUS
<1> HIDE DEF R
<1>3. PICK x \in S : \A y \in S : ~(<<y, x>> \in R)
    BY <1>1, WFMin
<1>4. ASSUME NEW y \in S PROVE x <= y
    <2>1. x \in Nat /\ y \in Nat
        OBVIOUS
    <2>2. ~(y < x)
        BY <1>2, <1>3, <2>1
    <2> QED BY <2>1, <2>2
<1> QED BY <1>4 DEF Min

LEMMA AppendRange ==
    ASSUME NEW S, NEW s \in Seq(S), NEW x \in S
    PROVE  Append(s, x) \in Seq(S) /\ Range(Append(s, x)) = Range(s) \cup {x}
<1>1. /\ Len(s) \in Nat /\ DOMAIN s = 1 .. Len(s) /\ Append(s, x) \in Seq(S)
      /\ DOMAIN Append(s, x) = 1 .. Len(s) + 1
      /\ \A i \in 1 .. Len(s) : Append(s, x)[i] = s[i]
      /\ Append(s, x)[Len(s) + 1] = x
    BY AppendProperties, LenProperties
<1> QED BY <1>1 DEF Range

LEMMA TailRange ==
    ASSUME NEW S, NEW s \in Seq(S), s # <<>>
    PROVE  /\ Head(s) \in S /\ Head(s) \in Range(s)
           /\ Tail(s) \in Seq(S) /\ Range(Tail(s)) \subseteq Range(s)
<1>1. /\ Len(s) \in Nat \ {0} /\ DOMAIN s = 1 .. Len(s)
      /\ Head(s) \in S /\ Tail(s) \in Seq(S)
      /\ DOMAIN Tail(s) = 1 .. Len(s) - 1 /\ Head(s) = s[1]
      /\ \A i \in 1 .. Len(s) - 1 : Tail(s)[i] = s[i + 1]
    BY HeadTailProperties, LenProperties, EmptySeq
<1>2. 1 \in 1 .. Len(s) /\ \A i \in 1 .. Len(s) - 1 : i + 1 \in 1 .. Len(s)
    BY <1>1
<1> QED BY <1>1, <1>2 DEF Range

LEMMA EmptyRange == ASSUME NEW S PROVE <<>> \in Seq(S) /\ Range(<<>>) = {}
BY DEF Range

\* Fragments over the events 1 .. n, and those that ask for a confirm.
FragmentOf(n) ==
    [seq : Seqs, uns : BOOLEAN, con : BOOLEAN, events : SUBSET (1 .. n),
     lost : SUBSET (1 .. n)]
Confirmable(n) == {f \in FragmentOf(n) : f.con}

LEMMA FragmentsGrow ==
    ASSUME NEW n \in Nat, NEW k \in Nat, n <= k
    PROVE  FragmentOf(n) \subseteq FragmentOf(k) /\ Confirmable(n) \subseteq Confirmable(k)
<1>1. 1 .. n \subseteq 1 .. k
    OBVIOUS
<1>2. FragmentOf(n) \subseteq FragmentOf(k)
    BY <1>1 DEF FragmentOf
<1> QED BY <1>2 DEF Confirmable

LEMMA FragmentIsSome ==
    ASSUME NEW n, NEW f \in FragmentOf(n)
    PROVE  f # None
BY DEF FragmentOf, None

\* Every session fragment is one; what is pending asks for a confirm; nothing is
\* pending unless a confirm is awaited.
SessionType(n) ==
    /\ awaiting \in [Master -> {None} \cup Confirmable(n)]
    /\ pending \in [Master -> Seq(Confirmable(n))]
    /\ channel \in [Master -> Seq(FragmentOf(n))]
    /\ \A m \in Master : pending[m] # <<>> => awaiting[m] # None

LEMMA SessionsGrow ==
    ASSUME NEW n \in Nat, NEW k \in Nat, n <= k, SessionType(n)
    PROVE  SessionType(k)
<1>1. FragmentOf(n) \subseteq FragmentOf(k) /\ Confirmable(n) \subseteq Confirmable(k)
    BY FragmentsGrow
<1>2. /\ Seq(FragmentOf(n)) \subseteq Seq(FragmentOf(k))
      /\ Seq(Confirmable(n)) \subseteq Seq(Confirmable(k))
    BY <1>1, SeqMonotonic
<1> QED BY <1>1, <1>2 DEF SessionType

\* The fragments of an association: awaited, pending and under way.
Flying(m) == ({awaiting[m]} \ {None}) \cup Range(pending[m]) \cup Range(channel[m])

LEMMA FlyingType ==
    ASSUME NEW n, SessionType(n), NEW m \in Master, NEW f \in Flying(m)
    PROVE  f \in FragmentOf(n)
<1>1. /\ awaiting[m] \in {None} \cup Confirmable(n)
      /\ pending[m] \in Seq(Confirmable(n)) /\ channel[m] \in Seq(FragmentOf(n))
    BY DEF SessionType
<1>2. /\ Range(pending[m]) \subseteq Confirmable(n)
      /\ Range(channel[m]) \subseteq FragmentOf(n)
    BY <1>1, LenProperties, ElementOfSeq DEF Range
<1> QED BY <1>1, <1>2 DEF Flying, Confirmable

\* A fragment as it is built now: with events it reports every loss so far, if
\* the flag is up.
Built(f, flag, lost) == f.events # {} /\ flag => f.lost = lost

\* The sessions and the queue of unsolicited responses after
\* maybeSendUnsolicited.
LEMMA UnsolicitedSessions ==
    ASSUME NEW n \in Nat, NEW evs \in [Class -> SUBSET (1 .. n)], NEW rep,
           NEW flag \in BOOLEAN, NEW lost \in SUBSET (1 .. n),
           SessionType(n), unsolicitedSeq \in Seqs,
           MaybeSendUnsolicited(evs, rep, flag, lost), UNCHANGED pending
    PROVE  /\ SessionType(n)' /\ unsolicitedSeq' \in Seqs
           /\ reported' \subseteq rep \cup UNION {evs[c] : c \in Class}
           /\ \A m \in Master : \A f \in Flying(m)' :
                  f \in Flying(m) \/ Built(f, flag, lost)
<1>1. CASE reported' = rep /\ UNCHANGED <<unsolicitedSeq, awaiting, channel>>
    BY <1>1 DEF SessionType, Flying
<1>2. ASSUME NEW cs \in SUBSET MayBeDue(evs, rep),
             SendUnsolicited(cs, evs, rep, flag, lost)
      PROVE  /\ SessionType(n)' /\ unsolicitedSeq' \in Seqs
             /\ reported' \subseteq rep \cup UNION {evs[c] : c \in Class}
             /\ \A m \in Master : \A f \in Flying(m)' :
                    f \in Flying(m) \/ Built(f, flag, lost)
    <2> DEFINE all == UNION {evs[c] : c \in cs}
               first == {e \in all : Cardinality({x \in all : x < e}) < FragmentSize}
               fragment == Fragment(unsolicitedSeq, TRUE, TRUE, first, flag, lost)
               targets == {m \in Master : connected[m] /\ awaiting[m] = None}
    <2>1. /\ unsolicitedSeq' = (unsolicitedSeq + 1) % SeqModulus
          /\ awaiting' = [m \in Master |-> IF m \in targets THEN fragment
                                           ELSE awaiting[m]]
          /\ channel' = [m \in Master |-> IF m \in targets
                                          THEN Append(channel[m], fragment)
                                          ELSE channel[m]]
          /\ reported' = IF targets = {} THEN rep ELSE rep \cup first
        BY <1>2 DEF SendUnsolicited
    <2>2. cs \subseteq Class /\ first \in SUBSET (1 .. n)
          /\ first \subseteq UNION {evs[c] : c \in Class}
        BY DEF MayBeDue
    <2> HIDE DEF first
    <2>3. fragment \in Confirmable(n) /\ Built(fragment, flag, lost)
        <3> DEFINE l == IF flag THEN lost ELSE {}
        <3>1. fragment = [seq |-> unsolicitedSeq, uns |-> TRUE, con |-> TRUE,
                          events |-> first, lost |-> l]
            BY DEF Fragment
        <3>2. l \in SUBSET (1 .. n) /\ (flag => l = lost)
            OBVIOUS
        <3> HIDE DEF l, fragment
        <3>3. fragment \in FragmentOf(n) /\ fragment.con
            BY <2>2, <3>1, <3>2 DEF FragmentOf
        <3>4. fragment.lost = l
            BY <3>1
        <3> QED BY <3>2, <3>3, <3>4 DEF Confirmable, Built
    <2> HIDE DEF fragment
    <2>4. fragment \in FragmentOf(n) /\ fragment # None
        BY <2>3, FragmentIsSome DEF Confirmable
    <2>5. unsolicitedSeq' \in Seqs
        BY <2>1, OutstationAssumption DEF Seqs
    <2> HIDE DEF targets
    <2>6. \A m \in Master : channel[m] \in Seq(FragmentOf(n))
        BY DEF SessionType
    <2>7. \A m \in Master :
              /\ Append(channel[m], fragment) \in Seq(FragmentOf(n))
              /\ Range(Append(channel[m], fragment)) = Range(channel[m]) \cup {fragment}
        BY <2>4, <2>6, AppendRange
    <2>8. SessionType(n)'
        BY <2>1, <2>3, <2>4, <2>7 DEF SessionType
    <2>9. \A m \in Master : Flying(m)' \subseteq Flying(m) \cup {fragment}
        BY <2>1, <2>7 DEF Flying
    <2> QED BY <2>1, <2>2, <2>3, <2>5, <2>8, <2>9
<1> QED BY <1>1, <1>2 DEF MaybeSendUnsolicited

\* The fragments of a response: at least one, each over the events asked for, and
\* more than one only if they ask for confirms.
LEMMA PackedFragments ==
    ASSUME NEW n \in Nat, NEW seq \in Seqs, NEW evs \in SUBSET (1 .. n),
           dropped \subseteq 1 .. n, overflowFlag \in BOOLEAN,
           NEW fs, fs = Packed(seq, evs)
    PROVE  /\ fs \in Seq(FragmentOf(n)) /\ fs # <<>>
           /\ \A i \in DOMAIN fs : Built(fs[i], overflowFlag, dropped)
           /\ \/ fs \in Seq(Confirmable(n))
              \/ Tail(fs) = <<>> /\ fs[1].con = FALSE
<1> DEFINE Rank(e) == Cardinality({x \in evs : x < e})
           count == IF evs = {} THEN 1
                    ELSE 1 + (Cardinality(evs) - 1) \div FragmentSize
           l == IF overflowFlag THEN dropped ELSE {}
           con == evs # {}
           ev(i) == {e \in evs : Rank(e) \div FragmentSize = i - 1}
           rec(i) == [seq |-> (seq + i - 1) % SeqModulus, uns |-> FALSE,
                      con |-> con, events |-> ev(i), lost |-> l]
<1>1. fs = [i \in 1 .. count |-> rec(i)]
    BY DEF Packed, Fragment
<1>2. count \in Nat \ {0} /\ (evs = {} => count = 1)
    <2>1. CASE evs = {}
        BY <2>1
    <2>2. CASE evs # {}
        <3>1. IsFiniteSet(evs)
            <4>1. 1 \in Int /\ n \in Int
                OBVIOUS
            <4>2. IsFiniteSet(1 .. n)
                BY <4>1, FS_Interval
            <4> QED BY <4>2, FS_Subset
        <3>2. Cardinality(evs) \in Nat /\ Cardinality(evs) # 0
            BY <2>2, <3>1, FS_CardinalityType, FS_EmptySet
        <3>3. Cardinality(evs) - 1 \in Nat
            BY <3>2
        <3>4. (Cardinality(evs) - 1) \div FragmentSize \in Nat
            BY <3>3, OutstationAssumption
        <3> QED BY <2>2, <3>4
    <2> QED BY <2>1, <2>2
<1> HIDE DEF count
<1>3. l \in SUBSET (1 .. n) /\ (overflowFlag => l = dropped)
    OBVIOUS
<1>4. \A i \in Nat : ev(i) \in SUBSET (1 .. n)
    OBVIOUS
<1>5. \A i \in Nat \ {0} : (seq + i - 1) % SeqModulus \in Seqs
    BY OutstationAssumption DEF Seqs
<1> HIDE DEF l, ev
<1>6. \A i \in 1 .. count : rec(i) \in FragmentOf(n)
    <2> TAKE i \in 1 .. count
    <2>1. ev(i) \in SUBSET (1 .. n) /\ (seq + i - 1) % SeqModulus \in Seqs
        BY <1>2, <1>4, <1>5
    <2> QED BY <1>3, <2>1 DEF FragmentOf
<1>7. \A i \in 1 .. count : rec(i).lost = l
    OBVIOUS
<1>8. evs # {} => \A i \in 1 .. count : rec(i).con
    OBVIOUS
<1>9. evs = {} => rec(1).con = FALSE
    OBVIOUS
<1> HIDE DEF rec
<1>10. /\ fs \in Seq(FragmentOf(n)) /\ Len(fs) = count /\ DOMAIN fs = 1 .. count
       /\ \A i \in 1 .. count : fs[i] = rec(i)
    BY <1>1, <1>2, <1>6
<1>11. fs # <<>>
    BY <1>2, <1>10, EmptySeq
<1>12. \A i \in DOMAIN fs : Built(fs[i], overflowFlag, dropped)
    BY <1>3, <1>7, <1>10 DEF Built
<1>13. CASE evs # {}
    <2>1. \A i \in 1 .. count : rec(i) \in Confirmable(n)
        BY <1>6, <1>8, <1>13 DEF Confirmable
    <2>2. fs \in Seq(Confirmable(n))
        BY <1>1, <1>2, <2>1
    <2> QED BY <1>10, <1>11, <1>12, <2>2
<1>14. CASE evs = {}
    <2>1. Len(fs) = 1 /\ fs[1].con = FALSE
        BY <1>2, <1>9, <1>10, <1>14
    <2>2. Tail(fs) = <<>>
        <3>1. Tail(fs) \in Seq(FragmentOf(n)) /\ Len(Tail(fs)) = 0
            BY <1>10, <1>11, <2>1, HeadTailProperties
        <3> QED BY <3>1, EmptySeq
    <2> QED BY <1>10, <1>11, <1>12, <2>1, <2>2
<1> QED BY <1>13, <1>14

-----------------------------------------------------------------------------
(* The buffer, the sessions and the overflow indication *)

BufferType ==
    /\ seqCounter \in Nat /\ seqCounter <= MaxUpdates
    /\ events \in [Class -> SUBSET (1 .. seqCounter)]
    /\ \A c \in Class : Cardinality(events[c]) <= MaxEvents
    /\ reported \subseteq Buffered /\ dropped \subseteq 1 .. seqCounter
    /\ overflowed \in [Class -> BOOLEAN] /\ overflowFlag \in BOOLEAN

OtherType ==
    /\ unsolicitedEnabled \in BOOLEAN /\ unsolicitedSeq \in Seqs
    /\ connected \in [Master -> BOOLEAN] /\ drops \in 0 .. MaxDrops

\* Every fragment that reports the event s also announces the loss of d.
Carries(s, d) ==
    \A m \in Master : \A f \in Flying(m) : s \in f.events => d \in f.lost

\* While the loss of d is not announced, a class that overflowed holds an event
\* that no confirm can remove without announcing it.
OverflowInv ==
    /\ (\E c \in Class : overflowed[c]) => overflowFlag
    /\ misread = {} =>
           \A d \in dropped \ (announced \cup cleared) :
               \E c \in Class : overflowed[c] /\ \E s \in events[c] : Carries(s, d)

OutInv == /\ BufferType /\ SessionType(seqCounter) /\ OtherType /\ ControlInv
          /\ OverflowInv

\* Steps that build fragments, or lose some, and leave the buffer alone.
LEMMA QuietOverflow ==
    ASSUME OverflowInv, UNCHANGED <<events, overflowed, overflowFlag, dropped>>,
           misread \subseteq misread', announced \subseteq announced',
           cleared \subseteq cleared',
           \A m \in Master : \A f \in Flying(m)' :
               f \in Flying(m) \/ Built(f, overflowFlag, dropped)
    PROVE  OverflowInv'
<1>1. (\E c \in Class : overflowed'[c]) => overflowFlag'
    BY DEF OverflowInv
<1>2. ASSUME misread' = {}, NEW d \in dropped' \ (announced' \cup cleared')
      PROVE  \E c \in Class : overflowed'[c] /\ \E s \in events'[c] : Carries(s, d)'
    <2>1. misread = {} /\ d \in dropped \ (announced \cup cleared)
        BY <1>2
    <2>2. PICK c \in Class : overflowed[c] /\ \E s \in events[c] : Carries(s, d)
        BY <2>1 DEF OverflowInv
    <2>3. PICK s \in events[c] : Carries(s, d)
        BY <2>2
    <2>4. overflowFlag
        BY <2>2 DEF OverflowInv
    <2>5. ASSUME NEW m \in Master, NEW f \in Flying(m)', s \in f.events
          PROVE  d \in f.lost
        <3>1. CASE f \in Flying(m)
            BY <2>3, <2>5, <3>1 DEF Carries
        <3>2. CASE Built(f, overflowFlag, dropped)
            BY <2>1, <2>4, <2>5, <3>2 DEF Built
        <3> QED BY <3>1, <3>2
    <2>6. Carries(s, d)'
        BY <2>5 DEF Carries
    <2> QED BY <2>2, <2>6
<1> QED BY <1>1, <1>2 DEF OverflowInv

LEMMA QuietBuffer ==
    ASSUME BufferType, UNCHANGED <<bufferVars, dropped>>
    PROVE  BufferType'
BY DEF BufferType, Buffered, bufferVars

LEMMA SendChannel ==
    ASSUME NEW n, SessionType(n), NEW m \in Master, NEW f \in FragmentOf(n),
           Send(m, f)
    PROVE  /\ channel' \in [Master -> Seq(FragmentOf(n))]
           /\ \A k \in Master : Range(channel'[k]) \subseteq Range(channel[k]) \cup {f}
<1>1. channel \in [Master -> Seq(FragmentOf(n))]
    BY DEF SessionType
<1>2. CASE channel' = channel
    BY <1>1, <1>2
<1>3. CASE channel' = [channel EXCEPT ![m] = Append(@, f)]
    <2>1. /\ Append(channel[m], f) \in Seq(FragmentOf(n))
          /\ Range(Append(channel[m], f)) = Range(channel[m]) \cup {f}
        BY <1>1, AppendRange
    <2> QED BY <1>1, <1>3, <2>1
<1> QED BY <1>2, <1>3 DEF Send

\* A request that abandons the fragments of its association or is refused before
\* that, answered or not.
LEMMA AbandonSessions ==
    ASSUME NEW n \in Nat, SessionType(n), NEW m \in Master,
           Abandon(m) \/ UNCHANGED <<awaiting, pending>>,
           NEW flag \in BOOLEAN, dropped \subseteq 1 .. n,
           \/ \E q \in Seqs : Reply(m, q, flag)
           \/ UNCHANGED channel
           \/ channel' = [channel EXCEPT ![m] = <<>>]
    PROVE  /\ SessionType(n)'
           /\ \A k \in Master : \A f \in Flying(k)' :
                  f \in Flying(k) \/ Built(f, overflowFlag, dropped)
<1>1. /\ awaiting' \in [Master -> {None} \cup Confirmable(n)]
      /\ pending' \in [Master -> Seq(Confirmable(n))]
      /\ \A k \in Master : pending'[k] # <<>> => awaiting'[k] # None
      /\ \A k \in Master : {awaiting'[k]} \ {None} \subseteq {awaiting[k]} \ {None}
      /\ \A k \in Master : Range(pending'[k]) \subseteq Range(pending[k])
    <2>1. CASE Abandon(m)
        BY <2>1, EmptyRange DEF Abandon, SessionType
    <2>2. CASE UNCHANGED <<awaiting, pending>>
        BY <2>2 DEF SessionType
    <2> QED BY <2>1, <2>2
<1>2. \/ /\ channel' \in [Master -> Seq(FragmentOf(n))]
         /\ \A k \in Master : Range(channel'[k]) \subseteq Range(channel[k])
      \/ \E f : /\ f.events = {}
                /\ channel' \in [Master -> Seq(FragmentOf(n))]
                /\ \A k \in Master :
                       Range(channel'[k]) \subseteq Range(channel[k]) \cup {f}
    <2>1. CASE UNCHANGED channel \/ channel' = [channel EXCEPT ![m] = <<>>]
        BY <2>1, EmptyRange DEF SessionType
    <2>2. ASSUME NEW q \in Seqs, Reply(m, q, flag)
          PROVE  \E f : /\ f.events = {}
                        /\ channel' \in [Master -> Seq(FragmentOf(n))]
                        /\ \A k \in Master :
                               Range(channel'[k]) \subseteq Range(channel[k]) \cup {f}
        <3> DEFINE l == IF flag THEN dropped ELSE {}
                   f == [seq |-> q, uns |-> FALSE, con |-> FALSE,
                         events |-> {}, lost |-> l]
        <3>1. l \in SUBSET (1 .. n)
            OBVIOUS
        <3>2. Send(m, f)
            BY <2>2 DEF Reply, Fragment
        <3> HIDE DEF l
        <3>3. f \in FragmentOf(n) /\ f.events = {}
            BY <3>1 DEF FragmentOf
        <3> HIDE DEF f
        <3> QED BY <3>2, <3>3, SendChannel
    <2> QED BY <2>1, <2>2
<1>3. SessionType(n)'
    BY <1>1, <1>2 DEF SessionType
<1>4. \A k \in Master : \A f \in Flying(k)' : f \in Flying(k) \/ f.events = {}
    <2> SUFFICES ASSUME NEW k \in Master, NEW f \in Flying(k)'
                 PROVE  f \in Flying(k) \/ f.events = {}
        OBVIOUS
    <2> QED BY <1>1, <1>2 DEF Flying
<1> QED BY <1>3, <1>4 DEF Built

LEMMA OutFacts ==
    ASSUME OutInv
    PROVE  /\ BufferType /\ SessionType(seqCounter) /\ OverflowInv /\ OtherType
           /\ ControlInv /\ seqCounter \in Nat /\ dropped \subseteq 1 .. seqCounter
           /\ overflowFlag \in BOOLEAN /\ unsolicitedSeq \in Seqs
BY DEF OutInv, BufferType, OtherType

\* Steps that leave the sessions alone.
LEMMA IdleStep ==
    ASSUME OutInv, UNCHANGED <<bufferVars, awaiting, pending, channel, historyVars>>
    PROVE  BufferType' /\ SessionType(seqCounter)' /\ OverflowInv'
<1>1. BufferType'
    BY OutFacts, QuietBuffer DEF historyVars
<1>2. SessionType(seqCounter)'
    BY OutFacts DEF SessionType, bufferVars
<1>3. \A m \in Master : Flying(m)' = Flying(m)
    BY DEF Flying
<1>4. OverflowInv'
    BY <1>3, OutFacts, QuietOverflow DEF bufferVars, historyVars
<1> QED BY <1>1, <1>2, <1>4

\* A control request, ENABLE or DISABLE_UNSOLICITED, a dropped link.
LEMMA AbandonStep ==
    ASSUME OutInv, NEW m \in Master, Abandon(m) \/ UNCHANGED <<awaiting, pending>>,
           \/ \E q \in Seqs : Reply(m, q, overflowFlag)
           \/ UNCHANGED channel
           \/ channel' = [channel EXCEPT ![m] = <<>>],
           UNCHANGED <<bufferVars, historyVars>>
    PROVE  BufferType' /\ SessionType(seqCounter)' /\ OverflowInv'
<1>1. BufferType'
    BY OutFacts, QuietBuffer DEF historyVars
<1>2. PICK n \in Nat : n = seqCounter
    BY OutFacts
<1>3. SessionType(n) /\ dropped \subseteq 1 .. n
    BY <1>2, OutFacts
<1>4. /\ SessionType(n)'
      /\ \A k \in Master : \A f \in Flying(k)' :
             f \in Flying(k) \/ Built(f, overflowFlag, dropped)
    BY <1>3, OutFacts, AbandonSessions
<1>5. SessionType(seqCounter)'
    BY <1>2, <1>4 DEF SessionType, bufferVars
<1>6. OverflowInv'
    BY <1>4, OutFacts, QuietOverflow DEF bufferVars, historyVars
<1> QED BY <1>1, <1>5, <1>6

LEMMA ReadStep ==
    ASSUME OutInv, NEW m \in Master, NEW q \in Seqs, NEW cs \in SUBSET Class,
           Read(m, q, cs)
    PROVE  BufferType' /\ SessionType(seqCounter)' /\ OverflowInv'
<1> DEFINE evs == UNION {events[c] : c \in cs}
<1>1. PICK n \in Nat : n = seqCounter
    BY OutFacts
<1>2. SessionType(n) /\ dropped \subseteq 1 .. n /\ overflowFlag \in BOOLEAN
    BY <1>1, OutFacts
<1>3. PICK fs : fs = Packed(q, evs)
    OBVIOUS
<1>4. /\ Send(m, fs[1])
      /\ pending' = [pending EXCEPT ![m] = Tail(fs)]
      /\ awaiting' = [awaiting EXCEPT ![m] = IF fs[1].con THEN fs[1] ELSE None]
      /\ reported' = reported \cup evs
      /\ UNCHANGED <<seqCounter, events, overflowed, overflowFlag, historyVars>>
    BY <1>3 DEF Read
<1>5. evs \subseteq Buffered /\ evs \in SUBSET (1 .. n)
    BY <1>1, OutFacts DEF Buffered, BufferType
<1> HIDE DEF evs
<1>6. /\ fs \in Seq(FragmentOf(n)) /\ fs # <<>>
      /\ \A i \in DOMAIN fs : Built(fs[i], overflowFlag, dropped)
      /\ \/ fs \in Seq(Confirmable(n))
         \/ Tail(fs) = <<>> /\ fs[1].con = FALSE
    BY <1>2, <1>3, <1>5, PackedFragments
<1>7. fs[1] = Head(fs) /\ fs[1] \in FragmentOf(n) /\ fs[1] \in Range(fs) /\ fs[1] # None
    BY <1>6, HeadTailProperties, TailRange, FragmentIsSome
<1>8. /\ Range(Tail(fs)) \subseteq Range(fs)
      /\ \A f \in Range(fs) : Built(f, overflowFlag, dropped)
    BY <1>6, TailRange DEF Range
<1>9. /\ channel' \in [Master -> Seq(FragmentOf(n))]
      /\ \A k \in Master :
             Range(channel'[k]) \subseteq Range(channel[k]) \cup {fs[1]}
    BY <1>2, <1>4, <1>7, SendChannel
<1>10. /\ pending' \in [Master -> Seq(Confirmable(n))]
       /\ awaiting' \in [Master -> {None} \cup Confirmable(n)]
       /\ \A k \in Master : pending'[k] # <<>> => awaiting'[k] # None
    <2>1. CASE fs \in Seq(Confirmable(n))
        <3>1. Tail(fs) \in Seq(Confirmable(n)) /\ fs[1] \in Confirmable(n)
            BY <1>6, <1>7, <2>1, TailRange
        <3>2. fs[1].con
            BY <3>1 DEF Confirmable
        <3> QED BY <1>2, <1>4, <1>7, <3>1, <3>2 DEF SessionType
    <2>2. CASE Tail(fs) = <<>> /\ fs[1].con = FALSE
        <3>1. awaiting' = [awaiting EXCEPT ![m] = None]
            BY <1>4, <2>2
        <3>2. pending' = [pending EXCEPT ![m] = <<>>]
            BY <1>4, <2>2
        <3> QED BY <1>2, <3>1, <3>2, EmptyRange DEF SessionType
    <2> QED BY <1>6, <2>1, <2>2
<1>11. SessionType(seqCounter)'
    BY <1>1, <1>4, <1>9, <1>10 DEF SessionType
<1>12. ASSUME NEW k \in Master, NEW f \in Flying(k)'
       PROVE  f \in Flying(k) \/ f \in Range(fs)
    <2>1. CASE f \in Range(channel'[k])
        BY <1>7, <1>9, <2>1 DEF Flying
    <2>2. CASE f \in Range(pending'[k])
        <3>1. pending'[k] \in {pending[k], Tail(fs)}
            BY <1>2, <1>4 DEF SessionType
        <3> QED BY <1>8, <2>2, <3>1 DEF Flying
    <2>3. CASE f = awaiting'[k] /\ f # None
        <3>1. awaiting'[k] \in {awaiting[k], fs[1], None}
            BY <1>2, <1>4 DEF SessionType
        <3> QED BY <1>7, <2>3, <3>1 DEF Flying
    <2> QED BY <2>1, <2>2, <2>3 DEF Flying
<1>13. OverflowInv'
    BY <1>4, <1>8, <1>12, OutFacts, QuietOverflow DEF historyVars
<1>14. BufferType'
    BY <1>4, <1>5, OutFacts DEF BufferType, Buffered, historyVars
<1> QED BY <1>11, <1>13, <1>14

LEMMA TimerStep ==
    ASSUME OutInv, UnsolicitedTimer
    PROVE  /\ BufferType' /\ SessionType(seqCounter)' /\ OverflowInv'
           /\ unsolicitedSeq' \in Seqs
<1>1. PICK n \in Nat : n = seqCounter
    BY OutFacts
<1>2. /\ SessionType(n) /\ dropped \in SUBSET (1 .. n) /\ overflowFlag \in BOOLEAN
      /\ unsolicitedSeq \in Seqs /\ events \in [Class -> SUBSET (1 .. n)]
    BY <1>1, OutFacts DEF BufferType
<1>3. /\ MaybeSendUnsolicited(events, reported, overflowFlag, dropped)
      /\ UNCHANGED <<seqCounter, events, overflowed, overflowFlag, historyVars>>
      /\ UNCHANGED pending
    BY DEF UnsolicitedTimer
<1>4. /\ SessionType(n)' /\ unsolicitedSeq' \in Seqs
      /\ reported' \subseteq reported \cup Buffered
      /\ \A m \in Master : \A f \in Flying(m)' :
             f \in Flying(m) \/ Built(f, overflowFlag, dropped)
    BY <1>2, <1>3, UnsolicitedSessions DEF Buffered
<1>5. SessionType(seqCounter)'
    BY <1>1, <1>3, <1>4 DEF SessionType
<1>6. OverflowInv'
    BY <1>3, <1>4, OutFacts, QuietOverflow DEF historyVars
<1>7. BufferType'
    BY <1>3, <1>4, OutFacts DEF BufferType, Buffered, historyVars
<1> QED BY <1>4, <1>5, <1>6, <1>7

LEMMA ClearStep ==
    ASSUME OutInv, NEW m \in Master, NEW q \in Seqs, RestartRequest(m, q)
    PROVE  BufferType' /\ SessionType(seqCounter)' /\ OverflowInv'
<1>1. /\ Abandon(m) /\ Reply(m, q, FALSE)
      /\ events' = [c \in Class |-> {}] /\ reported' = {}
      /\ overflowed' = [c \in Class |-> FALSE] /\ overflowFlag' = FALSE
      /\ dropped \subseteq cleared' /\ UNCHANGED <<seqCounter, dropped>>
    BY DEF RestartRequest
<1>2. PICK n \in Nat : n = seqCounter
    BY OutFacts
<1>3. SessionType(n) /\ dropped \subseteq 1 .. n
    BY <1>2, OutFacts
<1>4. PICK flag \in BOOLEAN : Reply(m, q, flag)
    BY <1>1
<1>5. SessionType(n)'
    BY <1>1, <1>3, <1>4, OutFacts, AbandonSessions
<1>6. SessionType(seqCounter)'
    BY <1>1, <1>2, <1>5 DEF SessionType
<1>7. OverflowInv'
    BY <1>1 DEF OverflowInv
<1>8. BufferType'
    <2>1. \A c \in Class : Cardinality(events'[c]) <= MaxEvents
        BY <1>1, FS_EmptySet, OutstationAssumption
    <2>2. overflowed' \in [Class -> BOOLEAN] /\ overflowFlag' \in BOOLEAN
        BY <1>1
    <2> QED BY <1>1, <2>1, <2>2, OutFacts DEF BufferType
<1> QED BY <1>6, <1>7, <1>8

\* A new event: whatever was lost so far, no fragment but those built now, which
\* announce it, holds the event.
LEMMA UpdateTagStep ==
    ASSUME OutInv, NEW c \in Class, UpdateTag(c)
    PROVE  /\ BufferType' /\ SessionType(seqCounter)' /\ OverflowInv'
           /\ unsolicitedSeq' \in Seqs
<1> DEFINE full == AtCap(c)
           gone == IF full THEN {Min(events[c])} ELSE {}
<1>1. /\ seqCounter < MaxUpdates /\ seqCounter' = seqCounter + 1
      /\ events' = [events EXCEPT ![c] = (@ \ gone) \cup {seqCounter'}]
      /\ overflowed' = [overflowed EXCEPT ![c] = @ \/ full]
      /\ overflowFlag' = (overflowFlag \/ full)
      /\ dropped' = dropped \cup gone
      /\ MaybeSendUnsolicited(events', reported \ gone, overflowFlag', dropped')
      /\ UNCHANGED <<pending, announced, cleared, misread>>
    BY DEF UpdateTag
<1>2. /\ seqCounter \in Nat /\ events \in [Class -> SUBSET (1 .. seqCounter)]
      /\ Cardinality(events[c]) <= MaxEvents /\ events[c] \subseteq 1 .. seqCounter
      /\ reported \subseteq Buffered /\ dropped \subseteq 1 .. seqCounter
    BY OutFacts DEF BufferType
<1>3. /\ IsFiniteSet(events[c]) /\ Cardinality(events[c]) \in Nat
    <2>1. 1 \in Int /\ seqCounter \in Int
        BY <1>2
    <2>2. IsFiniteSet(1 .. seqCounter)
        BY <2>1, FS_Interval
    <2> QED BY <1>2, <2>2, FS_Subset, FS_CardinalityType
<1>4. /\ gone \subseteq events[c]
      /\ IsFiniteSet(events[c] \ gone) /\ Cardinality(events[c] \ gone) \in Nat
      /\ Cardinality(events[c] \ gone) < MaxEvents
    <2>1. CASE full
        <3>1. events[c] # {} /\ Cardinality(events[c]) = MaxEvents
            BY <1>2, <1>3, <2>1, FS_EmptySet, OutstationAssumption DEF AtCap
        <3>2. Min(events[c]) \in events[c]
            BY <1>2, <3>1, MinMember
        <3>3. gone = {Min(events[c])}
            BY <2>1
        <3> HIDE DEF gone
        <3>4. /\ IsFiniteSet(events[c] \ gone)
              /\ Cardinality(events[c] \ gone) = Cardinality(events[c]) - 1
            BY <1>3, <3>2, <3>3, FS_RemoveElement
        <3>5. Cardinality(events[c] \ gone) \in Nat
            BY <3>4, FS_CardinalityType
        <3> QED BY <3>1, <3>2, <3>3, <3>4, <3>5, OutstationAssumption
    <2>2. CASE ~full
        <3>1. gone = {} /\ Cardinality(events[c]) < MaxEvents
            BY <1>3, <2>2, OutstationAssumption DEF AtCap
        <3>2. events[c] \ gone = events[c]
            BY <3>1
        <3> QED BY <1>3, <3>1, <3>2
    <2> QED BY <2>1, <2>2
<1> HIDE DEF gone, full
<1>5. PICK n \in Nat : n = seqCounter'
    BY <1>1, <1>2
<1>6. seqCounter <= n /\ 1 .. seqCounter \subseteq 1 .. n /\ n \in 1 .. n
      /\ n \notin 1 .. seqCounter
    BY <1>1, <1>2, <1>5
<1>7. /\ events' \in [Class -> SUBSET (1 .. n)] /\ dropped' \in SUBSET (1 .. n)
      /\ events'[c] = (events[c] \ gone) \cup {n}
      /\ \A k \in Class : k # c => events'[k] = events[k]
    BY <1>1, <1>2, <1>4, <1>5, <1>6
<1>8. \A k \in Class : Cardinality(events'[k]) <= MaxEvents
    <2>1. Cardinality(events'[c]) <= MaxEvents
        <3>1. PICK S : S = events[c] \ gone
            OBVIOUS
        <3>2. IsFiniteSet(S) /\ Cardinality(S) \in Nat /\ Cardinality(S) < MaxEvents
            BY <1>4, <3>1
        <3>3. Cardinality(S \cup {n}) = IF n \in S THEN Cardinality(S)
                                        ELSE Cardinality(S) + 1
            BY <3>2, FS_AddElement
        <3>4. Cardinality(S \cup {n}) <= MaxEvents
            BY <3>2, <3>3, OutstationAssumption
        <3> QED BY <1>7, <3>1, <3>4
    <2> QED BY <1>7, <2>1, OutFacts DEF BufferType
<1>9. reported \ gone \subseteq Buffered'
    BY <1>2, <1>7 DEF Buffered
<1>10. /\ overflowFlag \in BOOLEAN /\ overflowed \in [Class -> BOOLEAN]
       /\ full \in BOOLEAN
    BY OutFacts DEF BufferType, full, AtCap
<1>11. overflowFlag' \in BOOLEAN /\ overflowed' \in [Class -> BOOLEAN]
    BY <1>1, <1>10
<1>12. PICK evs \in [Class -> SUBSET (1 .. n)], flag \in BOOLEAN,
            lost \in SUBSET (1 .. n) :
            evs = events' /\ flag = overflowFlag' /\ lost = dropped'
    BY <1>7, <1>11
<1>13. MaybeSendUnsolicited(evs, reported \ gone, flag, lost)
    BY <1>1, <1>12
<1>14. SessionType(n)
    BY <1>2, <1>6, OutFacts, SessionsGrow
<1>15. /\ SessionType(n)' /\ unsolicitedSeq' \in Seqs
       /\ reported' \subseteq (reported \ gone) \cup UNION {evs[k] : k \in Class}
       /\ \A m \in Master : \A f \in Flying(m)' :
              f \in Flying(m) \/ Built(f, flag, lost)
    BY <1>1, <1>13, <1>14, OutFacts, UnsolicitedSessions
<1>16. SessionType(seqCounter)'
    BY <1>5, <1>15 DEF SessionType
<1>17. reported' \subseteq Buffered'
    BY <1>9, <1>12, <1>15 DEF Buffered
<1>18. BufferType'
    <2>1. seqCounter' \in Nat /\ seqCounter' <= MaxUpdates
        BY <1>1, <1>2, OutstationAssumption
    <2>2. /\ events' \in [Class -> SUBSET (1 .. seqCounter')]
          /\ dropped' \subseteq 1 .. seqCounter'
        BY <1>5, <1>7
    <2> QED BY <1>8, <1>11, <1>17, <2>1, <2>2 DEF BufferType
<1>19. (\E k \in Class : overflowed'[k]) => overflowFlag'
    BY <1>1, <1>10, OutFacts DEF OverflowInv
<1>20. ASSUME misread' = {}, NEW d \in dropped' \ (announced' \cup cleared')
       PROVE  \E k \in Class : overflowed'[k] /\ \E s \in events'[k] : Carries(s, d)'
    <2>1. ASSUME NEW k \in Class, NEW s \in events'[k], overflowed'[k],
                 \A m \in Master : \A f \in Flying(m) : s \in f.events => d \in f.lost
          PROVE  \E j \in Class : overflowed'[j] /\ \E t \in events'[j] : Carries(t, d)'
        <3>1. flag
            BY <1>12, <1>19, <2>1
        <3>2. ASSUME NEW m \in Master, NEW f \in Flying(m)', s \in f.events
              PROVE  d \in f.lost
            <4>1. CASE f \in Flying(m)
                BY <2>1, <3>2, <4>1
            <4>2. CASE Built(f, flag, lost)
                BY <1>12, <1>20, <3>1, <3>2, <4>2 DEF Built
            <4> QED BY <1>15, <4>1, <4>2
        <3>3. Carries(s, d)'
            BY <3>2 DEF Carries
        <3> QED BY <2>1, <3>3
    <2>2. CASE full
        <3>1. overflowed'[c] /\ n \in events'[c]
            BY <1>1, <1>7, <1>10, <2>2
        <3>2. ASSUME NEW m \in Master, NEW f \in Flying(m) PROVE n \notin f.events
            <4>1. f \in FragmentOf(seqCounter)
                BY OutFacts, FlyingType
            <4> QED BY <1>6, <4>1 DEF FragmentOf
        <3> QED BY <2>1, <3>1, <3>2
    <2>3. CASE ~full
        <3>1. gone = {} /\ misread = {} /\ d \in dropped \ (announced \cup cleared)
            BY <1>1, <1>20, <2>3 DEF gone
        <3>2. PICK k \in Class : overflowed[k] /\ \E s \in events[k] : Carries(s, d)
            BY <3>1, OutFacts DEF OverflowInv
        <3>3. PICK s \in events[k] : Carries(s, d)
            BY <3>2
        <3>4. s \in events'[k]
            BY <1>7, <3>1
        <3>5. overflowed'[k]
            BY <1>1, <1>10, <3>2
        <3> QED BY <2>1, <3>3, <3>4, <3>5 DEF Carries
    <2> QED BY <2>2, <2>3
<1>21. OverflowInv'
    BY <1>19, <1>20 DEF OverflowInv
<1> QED BY <1>15, <1>16, <1>18, <1>21

\* Dnp3EventBuffer.confirm keeps the buffer within its caps.
LEMMA ConfirmBuffer ==
    ASSUME BufferType, NEW evs, Confirm(evs), UNCHANGED <<seqCounter, dropped>>
    PROVE  BufferType'
<1>1. /\ events' = [c \in Class |-> events[c] \ evs]
      /\ reported' = reported \ evs
      /\ overflowed' = [c \in Class |-> overflowed[c] /\ events'[c] # {}]
      /\ overflowFlag' = (overflowFlag /\ \E c \in Class : overflowed'[c])
    BY DEF Confirm
<1>2. events' \in [Class -> SUBSET (1 .. seqCounter')]
    BY <1>1 DEF BufferType
<1>3. ASSUME NEW c \in Class PROVE Cardinality(events'[c]) <= MaxEvents
    <2>1. 1 \in Int /\ seqCounter \in Int
        BY DEF BufferType
    <2>2. IsFiniteSet(1 .. seqCounter)
        BY <2>1, FS_Interval
    <2>3. IsFiniteSet(events[c]) /\ Cardinality(events[c]) \in Nat
        BY <2>2, FS_Subset, FS_CardinalityType DEF BufferType
    <2>4. events'[c] \in SUBSET events[c]
        BY <1>1
    <2>5. /\ Cardinality(events'[c]) <= Cardinality(events[c])
          /\ Cardinality(events'[c]) \in Nat
        BY <2>3, <2>4, FS_Subset, FS_CardinalityType
    <2>6. Cardinality(events[c]) <= MaxEvents
        BY DEF BufferType
    <2> QED BY <2>3, <2>5, <2>6, OutstationAssumption
<1>4. reported' \subseteq Buffered'
    BY <1>1 DEF BufferType, Buffered
<1>5. overflowed' \in [Class -> BOOLEAN]
    BY <1>1
<1>6. overflowFlag' \in BOOLEAN
    BY <1>1
<1> QED BY <1>2, <1>3, <1>4, <1>5, <1>6 DEF BufferType

\* A class whose last event a confirm removes has had its losses announced by the
\* fragment confirmed.
LEMMA ConfirmOverflow ==
    ASSUME OverflowInv, NEW m \in Master, NEW w, w = awaiting[m], w # None,
           Confirm(w.events), UNCHANGED <<dropped, cleared>>,
           misread \subseteq misread', announced \subseteq announced',
           w.events \subseteq misread' \/ w.lost \subseteq announced',
           \A k \in Master : Flying(k)' \subseteq Flying(k)
    PROVE  OverflowInv'
<1>1. /\ events' = [c \in Class |-> events[c] \ w.events]
      /\ overflowed' = [c \in Class |-> overflowed[c] /\ events'[c] # {}]
      /\ overflowFlag' = (overflowFlag /\ \E c \in Class : overflowed'[c])
    BY DEF Confirm
<1>2. (\E c \in Class : overflowed'[c]) => overflowFlag'
    <2>1. ASSUME NEW c \in Class, overflowed'[c] PROVE overflowFlag'
        <3>1. overflowed[c]
            BY <1>1, <2>1
        <3>2. overflowFlag
            BY <3>1 DEF OverflowInv
        <3> QED BY <1>1, <2>1, <3>2
    <2> QED BY <2>1
<1>3. ASSUME misread' = {}, NEW d \in dropped' \ (announced' \cup cleared')
      PROVE  \E c \in Class : overflowed'[c] /\ \E s \in events'[c] : Carries(s, d)'
    <2>1. misread = {} /\ d \in dropped \ (announced \cup cleared)
        BY <1>3
    <2>2. PICK c \in Class : overflowed[c] /\ \E s \in events[c] : Carries(s, d)
        BY <2>1 DEF OverflowInv
    <2>3. PICK s \in events[c] : Carries(s, d)
        BY <2>2
    <2>4. w \in Flying(m)
        BY DEF Flying
    <2>5. s \notin w.events
        BY <1>3, <2>3, <2>4 DEF Carries
    <2>6. s \in events'[c]
        BY <1>1, <2>3, <2>5
    <2>7. overflowed'[c]
        BY <1>1, <2>2, <2>6
    <2>8. Carries(s, d)'
        BY <2>3 DEF Carries
    <2> QED BY <2>6, <2>7, <2>8
<1> QED BY <1>2, <1>3 DEF OverflowInv

LEMMA DeliverStep ==
    ASSUME OutInv, NEW m \in Master, Receive(m)
    PROVE  BufferType' /\ SessionType(seqCounter)' /\ OverflowInv'
<1>1. PICK n \in Nat : n = seqCounter
    BY OutFacts
<1>2. SessionType(n)
    BY <1>1, OutFacts
<1>3. PICK f : f = Head(channel[m])
    OBVIOUS
<1>4. /\ channel[m] # <<>> /\ got' = got \cup f.events
      /\ announced' = announced \cup f.lost /\ UNCHANGED <<dropped, cleared>>
    BY <1>3 DEF Receive
<1>5. /\ channel[m] \in Seq(FragmentOf(n)) /\ Tail(channel[m]) \in Seq(FragmentOf(n))
      /\ Range(Tail(channel[m])) \subseteq Range(channel[m])
    BY <1>2, <1>4, TailRange DEF SessionType
<1>6. CASE /\ channel' = [channel EXCEPT ![m] = Tail(@)]
           /\ UNCHANGED <<bufferVars, awaiting, pending, misread>>
    <2>1. SessionType(n)'
        BY <1>2, <1>5, <1>6 DEF SessionType
    <2>2. \A k \in Master : Flying(k)' \subseteq Flying(k)
        BY <1>2, <1>5, <1>6 DEF Flying, SessionType
    <2>3. SessionType(seqCounter)'
        BY <1>1, <1>6, <2>1 DEF SessionType, bufferVars
    <2>4. OverflowInv'
        BY <1>4, <1>6, <2>2, OutFacts, QuietOverflow DEF bufferVars
    <2>5. BufferType'
        BY <1>4, <1>6, OutFacts, QuietBuffer
    <2> QED BY <2>3, <2>4, <2>5
<1>7. CASE Matches(m, f) /\ HandleConfirm(m, f)
           /\ ~(/\ channel' = [channel EXCEPT ![m] = Tail(@)]
                /\ UNCHANGED <<bufferVars, awaiting, pending, misread>>)
    <2> DEFINE more == pending[m] # <<>>
               next == Head(pending[m])
    <2>1. PICK w : w = awaiting[m]
        OBVIOUS
    <2>2. /\ w # None /\ w.seq = f.seq /\ Confirm(w.events)
          /\ awaiting' = [awaiting EXCEPT ![m] = IF more /\ next.con THEN next ELSE None]
          /\ pending' = [pending EXCEPT ![m] = IF more THEN Tail(@) ELSE @]
          /\ channel' = [channel EXCEPT ![m] =
                            IF more THEN Append(Tail(@), next) ELSE Tail(@)]
          /\ misread' = IF w # f /\ w.seq = f.seq
                        THEN misread \cup w.events ELSE misread
          /\ UNCHANGED seqCounter
        BY <1>7, <2>1 DEF HandleConfirm, Matches
    <2>3. /\ awaiting \in [Master -> {None} \cup Confirmable(n)]
          /\ pending \in [Master -> Seq(Confirmable(n))]
          /\ channel \in [Master -> Seq(FragmentOf(n))]
        BY <1>2 DEF SessionType
    <2>4. SessionType(n)' /\ \A k \in Master : Flying(k)' \subseteq Flying(k)
        <3>1. CASE more
            <4>1. /\ next \in Confirmable(n) /\ next \in Range(pending[m])
                  /\ Tail(pending[m]) \in Seq(Confirmable(n))
                  /\ Range(Tail(pending[m])) \subseteq Range(pending[m])
                BY <2>3, <3>1, TailRange
            <4>2. next \in FragmentOf(n) /\ next.con
                BY <4>1 DEF Confirmable
            <4>3. next # None
                BY <4>2, FragmentIsSome
            <4> HIDE DEF next
            <4>4. /\ Append(Tail(channel[m]), next) \in Seq(FragmentOf(n))
                  /\ Range(Append(Tail(channel[m]), next))
                         = Range(Tail(channel[m])) \cup {next}
                <5>1. PICK q \in Seq(FragmentOf(n)) : q = Tail(channel[m])
                    BY <1>5
                <5>2. next \in FragmentOf(n)
                    BY <4>2
                <5>3. /\ Append(q, next) \in Seq(FragmentOf(n))
                      /\ Range(Append(q, next)) = Range(q) \cup {next}
                    BY <5>2, AppendRange
                <5> QED BY <5>1, <5>3
            <4>5. /\ awaiting' = [awaiting EXCEPT ![m] = next]
                  /\ pending' = [pending EXCEPT ![m] = Tail(@)]
                  /\ channel' = [channel EXCEPT ![m] = Append(Tail(@), next)]
                BY <2>2, <3>1, <4>2
            <4>6. SessionType(n)'
                BY <1>2, <2>3, <4>1, <4>3, <4>4, <4>5 DEF SessionType
            <4>7. \A k \in Master : Flying(k)' \subseteq Flying(k)
                BY <1>5, <2>3, <4>1, <4>4, <4>5 DEF Flying
            <4> QED BY <4>6, <4>7
        <3>2. CASE ~more
            <4>1. /\ awaiting' = [awaiting EXCEPT ![m] = None]
                  /\ pending' = pending
                  /\ channel' = [channel EXCEPT ![m] = Tail(@)]
                BY <2>2, <2>3, <3>2
            <4>2. SessionType(n)'
                BY <1>2, <1>5, <2>3, <3>2, <4>1 DEF SessionType
            <4>3. \A k \in Master : Flying(k)' \subseteq Flying(k)
                BY <1>5, <2>3, <4>1 DEF Flying
            <4> QED BY <4>2, <4>3
        <3> QED BY <3>1, <3>2
    <2>5. SessionType(seqCounter)'
        BY <1>1, <2>2, <2>4 DEF SessionType
    <2>6. /\ misread \subseteq misread'
          /\ w.events \subseteq misread' \/ w.lost \subseteq announced'
        BY <1>4, <2>2
    <2>7. OverflowInv'
        BY <1>4, <2>1, <2>2, <2>4, <2>6, OutFacts, ConfirmOverflow
    <2>8. BufferType'
        BY <1>4, <2>2, OutFacts, ConfirmBuffer
    <2> QED BY <2>5, <2>7, <2>8
<1> QED BY <1>3, <1>6, <1>7 DEF Receive, HandleConfirm

\* Every step of the outstation keeps the inductive invariant.
LEMMA OutStep ==
    ASSUME OutInv, [Next]_vars
    PROVE  OutInv'
<1>1. ControlInv'
    BY OutFacts, ControlStep
<1>2. ASSUME NEW c \in Class, UpdateTag(c) PROVE OutInv'
    <2>1. UNCHANGED <<unsolicitedEnabled, connected, drops>>
        BY <1>2 DEF UpdateTag
    <2> QED BY <1>1, <1>2, <2>1, OutFacts, UpdateTagStep DEF OutInv, OtherType
<1>3. CASE UnsolicitedTimer
    <2>1. UNCHANGED <<unsolicitedEnabled, connected, drops>>
        BY <1>3 DEF UnsolicitedTimer
    <2> QED BY <1>1, <1>3, <2>1, OutFacts, TimerStep DEF OutInv, OtherType
<1>4. CASE SelectExpires
    <2>1. /\ UNCHANGED <<unsolicitedEnabled, unsolicitedSeq, connected, drops>>
          /\ UNCHANGED <<bufferVars, awaiting, pending, channel, historyVars>>
        BY <1>4 DEF SelectExpires, sessionVars
    <2> QED BY <1>1, <2>1, OutFacts, IdleStep DEF OutInv, OtherType
<1>5. ASSUME NEW m \in Master, Receive(m) PROVE OutInv'
    <2>1. UNCHANGED <<unsolicitedEnabled, unsolicitedSeq, connected, drops>>
        BY <1>5 DEF Receive
    <2> QED BY <1>1, <1>5, <2>1, OutFacts, DeliverStep DEF OutInv, OtherType
<1>6. ASSUME NEW m \in Master, LinkDrops(m) PROVE OutInv'
    <2>1. /\ Abandon(m) /\ channel' = [channel EXCEPT ![m] = <<>>]
          /\ UNCHANGED <<bufferVars, historyVars>>
        BY <1>6 DEF LinkDrops
    <2>2. BufferType' /\ SessionType(seqCounter)' /\ OverflowInv'
        BY <2>1, AbandonStep
    <2>3. /\ UNCHANGED <<unsolicitedEnabled, unsolicitedSeq>>
          /\ connected' = [connected EXCEPT ![m] = FALSE]
        BY <1>6 DEF LinkDrops
    <2>4. drops' \in 0 .. MaxDrops
        BY <1>6, OutFacts, OutstationAssumption DEF LinkDrops, OtherType
    <2>5. connected' \in [Master -> BOOLEAN]
        BY <2>3, OutFacts DEF OtherType
    <2> QED BY <1>1, <2>2, <2>3, <2>4, <2>5, OutFacts DEF OutInv, OtherType
<1>7. ASSUME NEW m \in Master, Connect(m) PROVE OutInv'
    <2>1. /\ UNCHANGED <<unsolicitedEnabled, unsolicitedSeq, drops>>
          /\ connected' = [connected EXCEPT ![m] = TRUE]
          /\ UNCHANGED <<bufferVars, awaiting, pending, channel, historyVars>>
        BY <1>7 DEF Connect
    <2>2. connected' \in [Master -> BOOLEAN]
        BY <2>1, OutFacts DEF OtherType
    <2> QED BY <1>1, <2>1, <2>2, OutFacts, IdleStep DEF OutInv, OtherType
<1>8. ASSUME NEW m \in Master, NEW q \in Seqs, NEW cs \in SUBSET Class,
             Read(m, q, cs)
      PROVE  OutInv'
    <2>1. UNCHANGED <<unsolicitedEnabled, unsolicitedSeq, connected, drops>>
        BY <1>8 DEF Read
    <2> QED BY <1>1, <1>8, <2>1, OutFacts, ReadStep DEF OutInv, OtherType
<1>9. ASSUME NEW m \in Master, NEW q \in Seqs, NEW cmd \in Command,
             Select(m, q, cmd) \/ Operate(m, q, cmd)
      PROVE  OutInv'
    <2>1. /\ Abandon(m) /\ Reply(m, q, overflowFlag)
          /\ UNCHANGED <<bufferVars, historyVars>>
          /\ UNCHANGED <<unsolicitedEnabled, unsolicitedSeq, connected, drops>>
        BY <1>9 DEF Select, Operate, Control
    <2>2. BufferType' /\ SessionType(seqCounter)' /\ OverflowInv'
        BY <2>1, AbandonStep
    <2> QED BY <1>1, <2>1, <2>2, OutFacts DEF OutInv, OtherType
<1>10. ASSUME NEW m \in Master, NEW q \in Seqs,
              DirectOperate(m, q) \/ EmptyControl(m, q) \/ Truncated(m, q)
      PROVE  OutInv'
    <2>1. /\ Abandon(m) \/ UNCHANGED <<awaiting, pending>>
          /\ Reply(m, q, overflowFlag) \/ UNCHANGED channel
          /\ UNCHANGED <<bufferVars, historyVars>>
          /\ UNCHANGED <<unsolicitedEnabled, unsolicitedSeq, connected, drops>>
        BY <1>10 DEF DirectOperate, EmptyControl, Truncated, Control
    <2>2. BufferType' /\ SessionType(seqCounter)' /\ OverflowInv'
        BY <2>1, AbandonStep
    <2> QED BY <1>1, <2>1, <2>2, OutFacts DEF OutInv, OtherType
<1>11. ASSUME NEW m \in Master, NEW q \in Seqs, NEW on \in BOOLEAN,
              SetUnsolicited(m, q, on)
       PROVE  OutInv'
    <2>1. /\ Abandon(m) /\ Reply(m, q, overflowFlag)
          /\ UNCHANGED <<bufferVars, historyVars>>
          /\ UNCHANGED <<unsolicitedSeq, connected, drops>>
        BY <1>11 DEF SetUnsolicited
    <2>2. BufferType' /\ SessionType(seqCounter)' /\ OverflowInv'
        BY <2>1, AbandonStep
    <2>3. unsolicitedEnabled' \in BOOLEAN
        BY <1>11 DEF SetUnsolicited
    <2> QED BY <1>1, <2>1, <2>2, <2>3, OutFacts DEF OutInv, OtherType
<1>12. ASSUME NEW m \in Master, NEW q \in Seqs, RestartRequest(m, q) PROVE OutInv'
    <2>1. UNCHANGED <<unsolicitedEnabled, unsolicitedSeq, connected, drops>>
        BY <1>12 DEF RestartRequest
    <2> QED BY <1>1, <1>12, <2>1, OutFacts, ClearStep DEF OutInv, OtherType
<1>13. CASE UNCHANGED vars
    <2>1. /\ UNCHANGED <<unsolicitedEnabled, unsolicitedSeq, connected, drops>>
          /\ UNCHANGED <<bufferVars, awaiting, pending, channel, historyVars>>
        BY <1>13 DEF vars, sessionVars
    <2> QED BY <1>1, <2>1, OutFacts, IdleStep DEF OutInv, OtherType
<1> QED BY <1>2, <1>3, <1>4, <1>5, <1>6, <1>7, <1>8, <1>9, <1>10, <1>11, <1>12,
           <1>13 DEF Next

LEMMA OutInit == ASSUME Init PROVE OutInv
<1>1. BufferType
    <2>1. Cardinality({}) = 0
        BY FS_EmptySet
    <2>2. overflowed \in [Class -> BOOLEAN] /\ overflowFlag \in BOOLEAN
        BY DEF Init
    <2> QED BY <2>1, <2>2, OutstationAssumption DEF Init, BufferType, Buffered
<1>2. SessionType(seqCounter)
    BY DEF Init, SessionType
<1>3. OtherType
    <2>1. connected \in [Master -> BOOLEAN] /\ unsolicitedEnabled \in BOOLEAN
        BY DEF Init
    <2> QED BY <2>1, OutstationAssumption DEF Init, OtherType, Seqs
<1>4. ControlInv
    BY OutstationAssumption DEF Init, ControlInv, OperateIsSelected, None
<1>5. OverflowInv
    BY DEF Init, OverflowInv
<1> QED BY <1>1, <1>2, <1>3, <1>4, <1>5 DEF OutInv

LEMMA OutInvHolds == Spec => []OutInv
BY OutInit, OutStep, PTL DEF Spec

LEMMA TypesFromInv == ASSUME OutInv PROVE TypeOK
<1>1. FragmentType = FragmentOf(seqCounter)
    BY DEF FragmentType, FragmentOf
<1>2. ASSUME NEW m \in Master
      PROVE  /\ awaiting[m] \in {None} \cup FragmentType
             /\ awaiting[m] # None => awaiting[m].con
             /\ \A i \in DOMAIN pending[m] : pending[m][i] \in FragmentType
             /\ \A i \in DOMAIN channel[m] : channel[m][i] \in FragmentType
             /\ pending[m] # <<>> => awaiting[m] # None
    <2>1. /\ awaiting[m] \in {None} \cup Confirmable(seqCounter)
          /\ pending[m] # <<>> => awaiting[m] # None
        BY OutFacts DEF SessionType
    <2>2. Range(pending[m]) \cup Range(channel[m]) \subseteq FragmentOf(seqCounter)
        BY OutFacts, FlyingType DEF Flying
    <2> QED BY <1>1, <2>1, <2>2 DEF Confirmable, Range
<1>3. armed \in {None} \cup [seq : Seqs, cmd : Command, expired : BOOLEAN]
      /\ requests \in 0 .. MaxRequests
    BY OutFacts DEF ControlInv, ArmedType
<1>4. seqCounter \in 0 .. MaxUpdates
    BY OutFacts, OutstationAssumption DEF BufferType
<1>5. /\ \A c \in Class : /\ events[c] \subseteq 1 .. seqCounter
                          /\ Cardinality(events[c]) <= MaxEvents
      /\ reported \subseteq Buffered
    BY OutFacts DEF BufferType
<1>6. overflowed \in [Class -> BOOLEAN] /\ overflowFlag \in BOOLEAN
    BY OutFacts DEF BufferType
<1> QED BY <1>2, <1>3, <1>4, <1>5, <1>6, OutFacts DEF TypeOK, OtherType

\* The buffer keeps to its caps, only buffered events count as reported, and an
\* association with fragments pending awaits a confirm, for every cap, threshold
\* and fragment size (event-buffer.ts, session.ts).
THEOREM OutstationTyped == Spec => []TypeOK
BY TypesFromInv, OutInvHolds, PTL

\* Until a master has heard of the loss of an event, the outstation goes on
\* indicating EVENT_BUFFER_OVERFLOW, whatever is confirmed in whatever class, save
\* for a CONFIRM taken for another fragment (confirm, hasOverflow, currentIin).
THEOREM LossAnnounced == Spec => []OverflowAnnounced
<1>1. ASSUME OutInv PROVE OverflowAnnounced
    BY <1>1, OutFacts DEF OverflowInv, OverflowAnnounced
<1> QED BY <1>1, OutInvHolds, PTL

=============================================================================
