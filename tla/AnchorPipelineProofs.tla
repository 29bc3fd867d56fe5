------------------------ MODULE AnchorPipelineProofs ------------------------
(***************************************************************************)
(* Proofs about the anchor pipeline, for every set of events, every batch  *)
(* and window size, and every number of retries, faults and restarts.      *)
(***************************************************************************)
EXTENDS AnchorPipeline, SequenceTheorems, FiniteSetTheorems, TLAPS

-----------------------------------------------------------------------------
(* Sequences as queues *)

LEMMA AppendToSet ==
    ASSUME NEW S, NEW s \in Seq(S), NEW x \in S
    PROVE  ToSet(Append(s, x)) = ToSet(s) \cup {x}
<1>1. /\ Len(s) \in Nat /\ DOMAIN s = 1 .. Len(s)
      /\ DOMAIN Append(s, x) = 1 .. Len(s) + 1
      /\ \A i \in 1 .. Len(s) : Append(s, x)[i] = s[i]
      /\ Append(s, x)[Len(s) + 1] = x
    BY AppendProperties, LenProperties
<1> QED BY <1>1 DEF ToSet

LEMMA PushToSet ==
    ASSUME NEW S, NEW s \in Seq(S), NEW x \in S
    PROVE  /\ <<x>> \o s \in Seq(S) /\ <<x>> \o s # <<>>
           /\ ToSet(<<x>> \o s) = {x} \cup ToSet(s)
<1>1. <<x>> \in Seq(S) /\ Len(<<x>>) = 1 /\ <<x>>[1] = x
    OBVIOUS
<1>2. /\ Len(s) \in Nat /\ DOMAIN s = 1 .. Len(s)
      /\ <<x>> \o s \in Seq(S) /\ DOMAIN (<<x>> \o s) = 1 .. 1 + Len(s)
      /\ \A i \in 1 .. 1 + Len(s) :
            (<<x>> \o s)[i] = IF i <= 1 THEN x ELSE s[i - 1]
    BY <1>1, ConcatProperties, LenProperties
<1>3. \A i \in 1 .. Len(s) : /\ i + 1 \in 1 .. 1 + Len(s)
                             /\ (<<x>> \o s)[i + 1] = s[i]
    BY <1>2
<1>4. 1 \in 1 .. 1 + Len(s) /\ (<<x>> \o s)[1] = x
    BY <1>2
<1>5. ToSet(<<x>> \o s) \subseteq {x} \cup ToSet(s)
    <2> SUFFICES ASSUME NEW i \in 1 .. 1 + Len(s), i > 1
                 PROVE  (<<x>> \o s)[i] \in ToSet(s)
        BY <1>2 DEF ToSet
    <2>1. i - 1 \in 1 .. Len(s) /\ (<<x>> \o s)[i] = s[i - 1]
        BY <1>2
    <2> QED BY <1>2, <2>1 DEF ToSet
<1>6. {x} \cup ToSet(s) \subseteq ToSet(<<x>> \o s)
    <2>1. x \in ToSet(<<x>> \o s)
        BY <1>2, <1>4 DEF ToSet
    <2>2. ASSUME NEW i \in 1 .. Len(s) PROVE s[i] \in ToSet(<<x>> \o s)
        BY <1>2, <1>3 DEF ToSet
    <2> QED BY <1>2, <2>1, <2>2 DEF ToSet
<1>7. <<x>> \o s # <<>>
    BY <1>1, ConcatEqualIffEmpty
<1> QED BY <1>2, <1>5, <1>6, <1>7

LEMMA PopToSet ==
    ASSUME NEW S, NEW s \in Seq(S), s # <<>>
    PROVE  /\ Head(s) \in S /\ Tail(s) \in Seq(S)
           /\ Head(s) \in ToSet(s)
           /\ ToSet(s) = {Head(s)} \cup ToSet(Tail(s))
<1>1. /\ Len(s) \in Nat \ {0} /\ DOMAIN s = 1 .. Len(s)
      /\ Head(s) \in S /\ Tail(s) \in Seq(S)
      /\ DOMAIN Tail(s) = 1 .. Len(s) - 1 /\ Head(s) = s[1]
      /\ \A i \in 1 .. Len(s) - 1 : Tail(s)[i] = s[i + 1]
    BY HeadTailProperties, LenProperties, EmptySeq
<1>2. \A i \in 1 .. Len(s) : i = 1 \/ (i - 1 \in 1 .. Len(s) - 1 /\ Tail(s)[i - 1] = s[i])
    BY <1>1
<1>3. \A i \in 1 .. Len(s) - 1 : i + 1 \in 1 .. Len(s) /\ Tail(s)[i] = s[i + 1]
    BY <1>1
<1>4. ToSet(s) \subseteq {Head(s)} \cup ToSet(Tail(s))
    <2> SUFFICES ASSUME NEW i \in 1 .. Len(s)
                 PROVE  s[i] \in {Head(s)} \cup ToSet(Tail(s))
        BY <1>1 DEF ToSet
    <2>1. CASE i = 1
        BY <1>1, <2>1
    <2>2. CASE i # 1
        <3>1. i - 1 \in DOMAIN Tail(s) /\ Tail(s)[i - 1] = s[i]
            BY <1>1, <1>2, <2>2
        <3> QED BY <3>1 DEF ToSet
    <2> QED BY <2>1, <2>2
<1>5. 1 \in 1 .. Len(s)
    BY <1>1
<1>6. {Head(s)} \cup ToSet(Tail(s)) \subseteq ToSet(s)
    BY <1>1, <1>3, <1>5 DEF ToSet
<1> QED BY <1>1, <1>4, <1>6

\* No element twice.
LEMMA AppendInjects ==
    ASSUME NEW S, NEW s \in Seq(S), NEW x \in S, IsInjective(s), x \notin ToSet(s)
    PROVE  IsInjective(Append(s, x))
<1>1. /\ Len(s) \in Nat /\ DOMAIN s = 1 .. Len(s)
      /\ DOMAIN Append(s, x) = 1 .. Len(s) + 1
      /\ \A i \in 1 .. Len(s) : Append(s, x)[i] = s[i]
      /\ Append(s, x)[Len(s) + 1] = x
    BY AppendProperties, LenProperties
<1> QED BY <1>1 DEF IsInjective, ToSet

LEMMA PushInjects ==
    ASSUME NEW S, NEW s \in Seq(S), NEW x \in S, IsInjective(s), x \notin ToSet(s)
    PROVE  IsInjective(<<x>> \o s)
<1>1. <<x>> \in Seq(S) /\ Len(<<x>>) = 1 /\ <<x>>[1] = x
    OBVIOUS
<1>2. /\ Len(s) \in Nat /\ DOMAIN s = 1 .. Len(s)
      /\ DOMAIN (<<x>> \o s) = 1 .. 1 + Len(s)
      /\ \A i \in 1 .. 1 + Len(s) :
            (<<x>> \o s)[i] = IF i <= 1 THEN x ELSE s[i - 1]
    BY <1>1, ConcatProperties, LenProperties
<1> SUFFICES ASSUME NEW i \in 1 .. 1 + Len(s), NEW j \in 1 .. 1 + Len(s),
                    (<<x>> \o s)[i] = (<<x>> \o s)[j]
             PROVE  i = j
    BY <1>2 DEF IsInjective
<1>3. \A k \in 1 .. 1 + Len(s) : k = 1 \/ k - 1 \in 1 .. Len(s)
    BY <1>2
<1>4. CASE i = 1 /\ j # 1
    BY <1>2, <1>3, <1>4 DEF ToSet
<1>5. CASE i # 1 /\ j = 1
    BY <1>2, <1>3, <1>5 DEF ToSet
<1>6. CASE i # 1 /\ j # 1
    <2>1. i - 1 = j - 1
        BY <1>2, <1>3, <1>6 DEF IsInjective
    <2> QED BY <2>1, <1>2
<1> QED BY <1>4, <1>5, <1>6

LEMMA PopInjects ==
    ASSUME NEW S, NEW s \in Seq(S), s # <<>>, IsInjective(s)
    PROVE  IsInjective(Tail(s)) /\ Head(s) \notin ToSet(Tail(s))
<1>1. /\ Len(s) \in Nat \ {0} /\ DOMAIN s = 1 .. Len(s)
      /\ DOMAIN Tail(s) = 1 .. Len(s) - 1 /\ Head(s) = s[1]
      /\ \A i \in 1 .. Len(s) - 1 : Tail(s)[i] = s[i + 1]
    BY HeadTailProperties, LenProperties, EmptySeq
<1>2. \A i \in 1 .. Len(s) - 1 : i + 1 \in 1 .. Len(s) /\ i + 1 # 1
    BY <1>1
<1>3. ASSUME NEW i \in 1 .. Len(s) - 1, NEW j \in 1 .. Len(s) - 1,
             Tail(s)[i] = Tail(s)[j]
      PROVE  i = j
    <2>1. i + 1 = j + 1
        BY <1>1, <1>2, <1>3 DEF IsInjective
    <2> QED BY <1>1, <2>1
<1>4. IsInjective(Tail(s))
    BY <1>1, <1>3 DEF IsInjective
<1>5. 1 \in 1 .. Len(s)
    BY <1>1
<1>6. Head(s) \notin ToSet(Tail(s))
    BY <1>1, <1>2, <1>5 DEF IsInjective, ToSet
<1> QED BY <1>4, <1>6

LEMMA EmptyToSet == ToSet(<<>>) = {} /\ IsInjective(<<>>)
BY DEF ToSet, IsInjective

-----------------------------------------------------------------------------
(* The inductive invariant *)

\* Requests in the relayer's queue, the one being tried included.
Line == ToSet(queue) \cup ({current} \ {None})

\* A request is in line once, and a relayer without a current request has an
\* empty queue.
LineInv ==
    /\ queue \in Seq(Batch) /\ current \in {None} \cup Batch /\ sent \in BOOLEAN
    /\ IsInjective(queue) /\ current \notin ToSet(queue)
    /\ current = None => queue = <<>>

\* A batch is with the signer, in line or on its timer, in one of these only, and
\* has an attempt left while it is; batches not yet cut have no history.
BatchInv ==
    /\ signing \subseteq Batch /\ backoff \subseteq Batch
    /\ retries \in [1 .. MaxBatches -> 0 .. MaxRetries]
    /\ trace \in [1 .. MaxBatches -> {"none", "open", "armed"} \cup Closed]
    /\ settled \in [1 .. MaxBatches -> {"none", "confirmed", "failed"}]
    /\ signing \cap Line = {} /\ signing \cap backoff = {} /\ backoff \cap Line = {}
    /\ \A n \in signing \cup Line \cup backoff : retries[n] < MaxRetries
    /\ \A n \in (1 .. MaxBatches) \ Batch :
           retries[n] = 0 /\ trace[n] = "none" /\ settled[n] = "none"

\* What RequestHeld says, with the line as one set.
HeldInv ==
    \A n \in Batch :
        batches[n].process = process /\ trace[n] # "none" /\ settled[n] = "none"
        => n \in Line \cup backoff

\* Batches are not empty, so there are no more of them than events.
CountInv ==
    Len(batches) + Cardinality(buffer) + Len(crossing) <= Cardinality(offered)

Batched == UNION {batches[n].events : n \in Batch}

\* The sets b, c, d, x and t are disjoint and together hold o.
Places(o, b, c, d, x, t) ==
    /\ o = b \cup c \cup d \cup x \cup t
    /\ b \cap c = {} /\ b \cap d = {} /\ b \cap x = {} /\ b \cap t = {}
    /\ c \cap d = {} /\ c \cap x = {} /\ c \cap t = {}
    /\ d \cap x = {} /\ d \cap t = {} /\ x \cap t = {}

\* The places of an event are disjoint and together hold every one offered.
PlaceInv ==
    /\ IsInjective(crossing)
    /\ Places(offered, buffer, ToSet(crossing), discarded, crashed, Batched)
    /\ \A m, n \in Batch :
           m # n => batches[m].events \cap batches[n].events = {}

\* A buffer that a crossing ingest would empty was filled behind its back.
RaceInv ==
    /\ crossing # <<>> /\ buffer # {} => raced
    /\ Len(crossing) > 1 => raced
    /\ discarded # {} => raced

Attempts == Batch \X (0 .. MaxRetries - 1)

\* The contract holds under each id below the next one a batch that claims that
\* id, and every transaction that was mined without reverting put one there.
ChainInv ==
    /\ mempool \in Seq(Attempts)
    /\ mined \in [ok : SUBSET Attempts, reverted : SUBSET Attempts]
    /\ chain \in [1 .. MaxBatches -> {None} \cup Batch]
    /\ nextBatchId \in 1 .. (MaxBatches + 1)
    /\ \A i \in 1 .. MaxBatches :
           IF i < nextBatchId THEN chain[i] \in Batch /\ Id(chain[i]) = i
                              ELSE chain[i] = None
    /\ \A tx \in mined.ok :
           Id(tx[1]) < nextBatchId /\ chain[Id(tx[1])] = tx[1]

PhaseInv == running \in {"yes", "stopping", "no"} /\ faults \in 0 .. MaxFaults

-----------------------------------------------------------------------------
(* Cutting a batch *)

BatchRecord == [events : (SUBSET offered) \ {{}}, id : 1 .. MaxBatches,
                process : 1 .. process]

\* The ingest side of TypeOK.
IngestType ==
    /\ offered \subseteq Event /\ windowStart \in {0} \cup Nat
    /\ buffer \subseteq offered /\ crossing \in Seq(offered)
    /\ Cardinality(buffer) < MaxBatchSize
    /\ Len(batches) <= MaxBatches /\ batches \in Seq(BatchRecord)
    /\ process \in 1 .. (MaxRestarts + 1)
    /\ discarded \subseteq offered /\ raced \in BOOLEAN
    /\ crashed \subseteq offered

LEMMA TypeParts ==
    IngestType /\ LineInv /\ BatchInv /\ ChainInv /\ PhaseInv => TypeOK
BY DEF TypeOK, IngestType, LineInv, BatchInv, ChainInv, PhaseInv, BatchRecord,
       Attempts

LEMMA FiniteEvents ==
    ASSUME NEW S \in SUBSET Event
    PROVE  /\ IsFiniteSet(S) /\ Cardinality(S) \in Nat
           /\ Cardinality(S) <= MaxBatches /\ MaxBatches \in Nat
BY AnchorAssumption, FS_Subset, FS_CardinalityType DEF MaxBatches

\* Batches as indices.
LEMMA BatchIndices ==
    ASSUME IngestType
    PROVE  /\ Batch \subseteq 1 .. MaxBatches /\ None \notin Batch
           /\ MaxBatches \in Nat
           /\ \A n \in Batch : /\ Id(n) \in 1 .. MaxBatches
                               /\ batches[n].process \in 1 .. process
                               /\ batches[n].events \subseteq offered
<1>1. MaxBatches \in Nat /\ Len(batches) \in Nat /\ Len(batches) <= MaxBatches
    BY FiniteEvents, LenProperties DEF IngestType
<1>2. \A n \in Batch : batches[n] \in BatchRecord
    BY ElementOfSeq DEF IngestType, Batch
<1>3. \A n \in Batch : /\ Id(n) \in 1 .. MaxBatches
                       /\ batches[n].process \in 1 .. process
                       /\ batches[n].events \subseteq offered
    BY <1>2 DEF BatchRecord, Id
<1> QED BY <1>1, <1>3 DEF Batch, None

\* The events b are cut into a batch.
Cut(b) ==
    /\ b # {}
    /\ batches' = Append(batches, [events |-> b, id |-> NextId,
                                   process |-> process])
    /\ signing' = signing \cup {Len(batches')}

\* The events b become the buffer, or are cut.
Gather(b) ==
    \/ buffer' = b /\ UNCHANGED <<batches, signing>>
    \/ buffer' = {} /\ Cut(b)

LEMMA FlushGathers ==
    ASSUME NEW b, Flush(b)
    PROVE  Gather(b) /\ buffer' = {}
BY DEF Flush, Gather, Cut

LEMMA PushGathers ==
    ASSUME NEW b \in SUBSET Event, NEW e \in Event, Push(b, e)
    PROVE  Gather(b \cup {e}) /\ Cardinality(buffer') < MaxBatchSize
<1>1. CASE Flush(b \cup {e})
    <2>1. Gather(b \cup {e}) /\ buffer' = {}
        BY <1>1, FlushGathers
    <2> QED BY <2>1, FS_EmptySet, AnchorAssumption
<1>2. CASE ~Flush(b \cup {e})
    BY <1>2 DEF Push, Gather
<1> QED BY <1>1, <1>2

\* What is left of the counting argument once the pile b is known.
LEMMA GatherCounts ==
    ASSUME IngestType, NEW b \in SUBSET Event, Gather(b), Len(crossing') \in Nat,
           offered' \subseteq Event,
           Len(batches) + Cardinality(b) + Len(crossing') <= Cardinality(offered')
    PROVE  /\ CountInv' /\ Len(batches') <= MaxBatches
           /\ Cut(b) => Len(batches) + 1 <= MaxBatches
<1>1. /\ Cardinality(b) \in Nat /\ Cardinality(offered') \in Nat
      /\ Cardinality(offered') <= MaxBatches /\ MaxBatches \in Nat
      /\ b # {} => Cardinality(b) # 0
    BY FiniteEvents, FS_EmptySet
<1>2. Len(batches) \in Nat
    BY LenProperties DEF IngestType
<1>3. Cut(b) => Cardinality(b) >= 1
    BY <1>1 DEF Cut
<1>4. Cut(b) => Len(batches) + 1 <= MaxBatches
    BY <1>1, <1>2, <1>3
<1>5. CASE buffer' = b /\ UNCHANGED <<batches, signing>>
    <2>1. Len(batches') <= MaxBatches
        BY <1>5 DEF IngestType
    <2> QED BY <1>4, <1>5, <2>1 DEF CountInv
<1>6. CASE buffer' = {} /\ Cut(b)
    <2>1. Len(batches') = Len(batches) + 1
        <3> DEFINE r == [events |-> b, id |-> NextId, process |-> process]
        <3>1. batches \in Seq(BatchRecord \cup {r})
            BY SeqMonotonic DEF IngestType
        <3> QED BY <1>6, <3>1, AppendProperties DEF Cut
    <2>2. Cardinality(buffer') = 0
        BY <1>6, FS_EmptySet
    <2>3. /\ Len(batches') + 0 + Len(crossing') <= Cardinality(offered')
          /\ Len(batches') <= MaxBatches
        BY <1>1, <1>2, <1>3, <1>6, <2>1
    <2> QED BY <1>4, <2>2, <2>3 DEF CountInv
<1> QED BY <1>5, <1>6 DEF Gather

\* The batches after a step that gathers b.
LEMMA GatherBatches ==
    ASSUME IngestType, NEW b \in SUBSET offered', Gather(b), process' = process,
           offered \subseteq offered',
           Cut(b) => Len(batches) + 1 <= MaxBatches
    PROVE  /\ batches' \in Seq(BatchRecord')
           /\ Batch \subseteq Batch' /\ \A n \in Batch : batches'[n] = batches[n]
           /\ \/ UNCHANGED <<batches, signing>> /\ Batch' = Batch
              \/ /\ Cut(b) /\ Batch' = Batch \cup {Len(batches) + 1}
                 /\ Len(batches) + 1 \notin Batch
                 /\ signing' = signing \cup {Len(batches) + 1}
                 /\ batches'[Len(batches) + 1].events = b
                 /\ batches'[Len(batches) + 1].process = process
<1>1. /\ Len(batches) \in Nat /\ batches \in Seq(BatchRecord)
      /\ BatchRecord \subseteq BatchRecord'
    BY LenProperties DEF IngestType, BatchRecord
<1>2. batches \in Seq(BatchRecord')
    BY <1>1, SeqMonotonic
<1>3. CASE UNCHANGED <<batches, signing>>
    BY <1>2, <1>3 DEF Batch
<1>4. CASE Cut(b)
    <2> DEFINE r == [events |-> b, id |-> NextId, process |-> process]
    <2>1. NextId \in 1 .. MaxBatches
        <3> DEFINE own == {n \in Batch : batches[n].process = process}
        <3>1. IsFiniteSet(Batch) /\ Cardinality(Batch) = Len(batches)
            <4>1. /\ 1 \in Int /\ Len(batches) \in Int /\ Batch = 1 .. Len(batches)
                  /\ 1 > Len(batches) => Len(batches) = 0
                  /\ Len(batches) - 1 + 1 = Len(batches)
                BY <1>1 DEF Batch
            <4>2. /\ IsFiniteSet(1 .. Len(batches))
                  /\ Cardinality(1 .. Len(batches))
                         = IF 1 > Len(batches) THEN 0 ELSE Len(batches) - 1 + 1
                BY <4>1, FS_Interval
            <4> QED BY <4>1, <4>2
        <3>2. Cardinality(own) \in Nat /\ Cardinality(own) <= Len(batches)
            BY <3>1, FS_Subset, FS_CardinalityType
        <3>3. NextId = 1 + Cardinality(own)
            BY DEF NextId
        <3>4. Len(batches) + 1 <= MaxBatches /\ MaxBatches \in Nat
            BY <1>4, FiniteEvents
        <3> HIDE DEF own
        <3> QED BY <1>1, <3>2, <3>3, <3>4
    <2>2. r \in BatchRecord'
        BY <1>4, <2>1 DEF BatchRecord, Cut, IngestType, MaxBatches
    <2>3. batches' = Append(batches, r)
        BY <1>4 DEF Cut
    <2> HIDE DEF r
    <2>4. /\ batches' \in Seq(BatchRecord') /\ Len(batches') = Len(batches) + 1
          /\ \A i \in 1 .. Len(batches) : batches'[i] = batches[i]
          /\ batches'[Len(batches) + 1] = r
        BY <1>2, <2>2, <2>3, AppendProperties
    <2>5. signing' = signing \cup {Len(batches) + 1}
        BY <1>4, <2>4 DEF Cut
    <2>6. /\ Batch' = Batch \cup {Len(batches) + 1} /\ Len(batches) + 1 \notin Batch
          /\ Batch \subseteq Batch'
        BY <1>1, <2>4 DEF Batch
    <2>7. r.events = b /\ r.process = process
        BY DEF r
    <2> QED BY <1>4, <2>4, <2>5, <2>6, <2>7 DEF Batch
<1> QED BY <1>3, <1>4 DEF Gather

-----------------------------------------------------------------------------
(* The relayer's line *)

\* ProcessQueue keeps everyone in line.
LEMMA ProcessQueueLine ==
    ASSUME IngestType, NEW q \in Seq(Batch), IsInjective(q), ProcessQueue(q),
           UNCHANGED batches
    PROVE  LineInv' /\ Line' = ToSet(q)
<1>1. Batch' = Batch /\ None \notin Batch
    BY BatchIndices DEF Batch
<1>2. CASE q = <<>>
    BY <1>1, <1>2, EmptyToSet DEF ProcessQueue, LineInv, Line
<1>3. CASE q # <<>>
    <2>1. /\ Head(q) \in Batch /\ Tail(q) \in Seq(Batch)
          /\ ToSet(q) = {Head(q)} \cup ToSet(Tail(q))
        BY <1>3, PopToSet
    <2>2. IsInjective(Tail(q)) /\ Head(q) \notin ToSet(Tail(q))
        BY <1>3, PopInjects
    <2>3. current' = Head(q) /\ queue' = Tail(q) /\ sent' = FALSE
        BY <1>3 DEF ProcessQueue
    <2> QED BY <1>1, <2>1, <2>2, <2>3 DEF LineInv, Line
<1> QED BY <1>2, <1>3

LEMMA EnqueueLine ==
    ASSUME IngestType, LineInv, NEW q \in Seq(Batch), IsInjective(q), Enqueue(q),
           current \notin ToSet(q), UNCHANGED batches
    PROVE  LineInv' /\ Line' = ToSet(q) \cup ({current} \ {None})
<1>1. Batch' = Batch
    BY DEF Batch
<1>2. CASE current = None
    BY <1>2, ProcessQueueLine DEF Enqueue
<1>3. CASE current # None
    BY <1>1, <1>3 DEF Enqueue, LineInv, Line
<1> QED BY <1>2, <1>3

\* A new request at either end.
LEMMA EnqueueOne ==
    ASSUME IngestType, LineInv, NEW n \in Batch, n \notin Line,
           Enqueue(Append(queue, n)) \/ Enqueue(<<n>> \o queue),
           UNCHANGED batches
    PROVE  LineInv' /\ Line' = Line \cup {n}
<1>1. queue \in Seq(Batch) /\ IsInjective(queue) /\ n \notin ToSet(queue)
    BY DEF LineInv, Line
<1>2. current \notin ToSet(queue) \cup {n}
    BY BatchIndices DEF LineInv, Line
<1>3. CASE Enqueue(Append(queue, n))
    <2> DEFINE q == Append(queue, n)
    <2>1. q \in Seq(Batch) /\ ToSet(q) = ToSet(queue) \cup {n} /\ IsInjective(q)
        BY <1>1, AppendProperties, AppendToSet, AppendInjects
    <2> HIDE DEF q
    <2>2. Enqueue(q)
        BY <1>3 DEF q
    <2>3. LineInv' /\ Line' = ToSet(q) \cup ({current} \ {None})
        BY <1>2, <2>1, <2>2, EnqueueLine
    <2> QED BY <2>1, <2>3 DEF Line
<1>4. CASE Enqueue(<<n>> \o queue)
    <2> DEFINE q == <<n>> \o queue
    <2>1. q \in Seq(Batch) /\ ToSet(q) = ToSet(queue) \cup {n} /\ IsInjective(q)
        BY <1>1, PushToSet, PushInjects
    <2> HIDE DEF q
    <2>2. Enqueue(q)
        BY <1>4 DEF q
    <2>3. LineInv' /\ Line' = ToSet(q) \cup ({current} \ {None})
        BY <1>2, <2>1, <2>2, EnqueueLine
    <2> QED BY <2>1, <2>3 DEF Line
<1> QED BY <1>3, <1>4

\* The current request leaves the line.
LEMMA NextInLine ==
    ASSUME IngestType, LineInv, current # None, ProcessQueue(queue),
           UNCHANGED batches
    PROVE  LineInv' /\ Line' = Line \ {current} /\ current \in Line \cap Batch
<1>1. queue \in Seq(Batch) /\ IsInjective(queue) /\ current \notin ToSet(queue)
    BY DEF LineInv
<1>2. LineInv' /\ Line' = ToSet(queue)
    BY <1>1, ProcessQueueLine
<1> QED BY <1>1, <1>2 DEF Line, LineInv

LEMMA LineIsBatches == ASSUME LineInv PROVE Line \subseteq Batch
<1>1. queue \in Seq(Batch)
    BY DEF LineInv
<1>2. ToSet(queue) \subseteq Batch
    BY <1>1, LenProperties, ElementOfSeq DEF ToSet
<1> QED BY <1>2 DEF Line, LineInv

-----------------------------------------------------------------------------
(* What the steps leave alone *)

\* Steps of the relayer, the traces and the chain leave the ingest side alone.
IngestInv == IngestType /\ CountInv /\ PlaceInv /\ RaceInv

LEMMA IngestKept ==
    ASSUME IngestInv, UNCHANGED <<ingestVars, batches, process, historyVars>>
    PROVE  IngestInv'
<1>1. IngestType' /\ CountInv' /\ RaceInv'
    BY DEF IngestInv, IngestType, CountInv, RaceInv, BatchRecord, ingestVars,
           historyVars
<1>2. PlaceInv'
    BY DEF IngestInv, PlaceInv, Batched, Batch, ingestVars, historyVars
<1> QED BY <1>1, <1>2 DEF IngestInv

LEMMA ChainKept ==
    ASSUME ChainInv, UNCHANGED <<batches, chainVars>>
    PROVE  ChainInv'
BY DEF ChainInv, Attempts, Batch, Id, chainVars

LEMMA LineKept ==
    ASSUME LineInv, UNCHANGED <<batches, queue, current>>, sent' \in BOOLEAN
    PROVE  LineInv' /\ Line' = Line
BY DEF LineInv, Line, Batch

\* Together.
IInv == /\ IngestInv /\ LineInv /\ BatchInv /\ ChainInv /\ PhaseInv
        /\ ConfirmedIsAnchored /\ HeldInv

-----------------------------------------------------------------------------
(* Signing and traces *)

LEMMA SignDoneInv ==
    ASSUME IInv, NEW n \in Batch, SignDone(n)
    PROVE  IInv'
<1>1. /\ n \in signing /\ signing' = signing \ {n}
      /\ trace' = [trace EXCEPT ![n] = "open"]
      /\ Enqueue(Append(queue, n))
      /\ UNCHANGED <<batches, backoff, retries, settled, running, chainVars,
                     process, faults>>
      /\ UNCHANGED <<ingestVars, batches, process, historyVars>>
    BY DEF SignDone
<1>2. IngestInv' /\ ChainInv' /\ Batch' = Batch
    BY <1>1, IngestKept, ChainKept DEF IInv, Batch
<1>3. IngestType /\ LineInv /\ BatchInv
    BY DEF IInv, IngestInv
<1>4. LineInv' /\ Line' = Line \cup {n}
    BY <1>1, <1>3, EnqueueOne DEF BatchInv
<1>5. Batch \subseteq 1 .. MaxBatches
    BY <1>3, BatchIndices
<1>6. BatchInv'
    BY <1>1, <1>2, <1>3, <1>4, <1>5 DEF BatchInv
<1>7. ConfirmedIsAnchored'
    BY <1>1, <1>2, <1>3, <1>5 DEF IInv, ConfirmedIsAnchored, Id, chainVars, BatchInv
<1>8. HeldInv'
    BY <1>1, <1>2, <1>3, <1>4, <1>5 DEF IInv, HeldInv, BatchInv
<1>9. PhaseInv'
    BY <1>1 DEF IInv, PhaseInv
<1> QED BY <1>2, <1>4, <1>6, <1>7, <1>8, <1>9 DEF IInv

LEMMA SignFailsInv ==
    ASSUME IInv, NEW n \in Batch, SignFails(n)
    PROVE  IInv'
<1>1. /\ signing' = signing \ {n}
      /\ UNCHANGED <<batches, queue, current, sent, backoff, retries, trace,
                     settled, running, chainVars, process>>
      /\ UNCHANGED <<ingestVars, batches, process, historyVars>>
    BY DEF SignFails, relayVars
<1>2. IngestInv' /\ ChainInv' /\ Batch' = Batch
    BY <1>1, IngestKept, ChainKept DEF IInv, Batch
<1>3. LineInv' /\ Line' = Line
    BY <1>1, LineKept DEF IInv, LineInv
<1>4. BatchInv'
    BY <1>1, <1>2, <1>3 DEF IInv, BatchInv
<1>5. ConfirmedIsAnchored' /\ HeldInv'
    BY <1>1, <1>2, <1>3 DEF IInv, ConfirmedIsAnchored, HeldInv, Id, chainVars
<1>6. PhaseInv'
    BY AnchorAssumption DEF IInv, PhaseInv, SignFails
<1> QED BY <1>2, <1>3, <1>4, <1>5, <1>6 DEF IInv

\* A step that only closes or arms traces that are open.
LEMMA TraceStep ==
    ASSUME IInv, PhaseInv',
           UNCHANGED <<ingestVars, batches, signing, relayVars, settled, chainVars,
                       process, historyVars>>,
           trace' \in [1 .. MaxBatches -> {"none", "open", "armed"} \cup Closed],
           \A n \in 1 .. MaxBatches :
               \/ trace'[n] = trace[n]
               \/ /\ trace[n] # "none"
                  /\ trace'[n] # "confirmed" \/ settled[n] = "confirmed"
    PROVE  IInv'
<1>1. IngestInv' /\ ChainInv' /\ Batch' = Batch
    BY IngestKept, ChainKept DEF IInv, Batch
<1>2. LineInv' /\ Line' = Line
    BY LineKept DEF IInv, LineInv, relayVars
<1>3. Batch \subseteq 1 .. MaxBatches
    BY BatchIndices DEF IInv, IngestInv
<1>4. BatchInv'
    BY <1>1, <1>2 DEF IInv, BatchInv, relayVars
<1>5. ConfirmedIsAnchored'
    BY <1>1, <1>3 DEF IInv, ConfirmedIsAnchored, Id, chainVars
<1>6. HeldInv'
    BY <1>1, <1>2, <1>3 DEF IInv, HeldInv, relayVars
<1> QED BY <1>1, <1>2, <1>4, <1>5, <1>6 DEF IInv

LEMMA ArmInv ==
    ASSUME IInv, NEW n \in Batch, Arm(n) \/ TraceTimeout(n)
    PROVE  IInv'
<1>1. n \in 1 .. MaxBatches /\ PhaseInv /\ BatchInv
    BY BatchIndices DEF IInv, IngestInv
<1>2. /\ UNCHANGED <<ingestVars, batches, signing, relayVars, settled, chainVars,
                     process, historyVars>>
      /\ UNCHANGED <<running, faults>>
    BY DEF Arm, TraceTimeout
<1>3. PhaseInv'
    BY <1>1, <1>2 DEF PhaseInv
<1>4. PICK x \in {"none", "open", "armed"} \cup Closed :
          /\ trace' = [trace EXCEPT ![n] = x] /\ trace[n] # "none"
          /\ x # "confirmed" \/ settled[n] = "confirmed"
    BY <1>1 DEF Arm, TraceTimeout, Pending, BatchInv, Closed
<1>5. trace' \in [1 .. MaxBatches -> {"none", "open", "armed"} \cup Closed]
    BY <1>1, <1>4 DEF BatchInv
<1>6. \A m \in 1 .. MaxBatches :
          \/ trace'[m] = trace[m]
          \/ /\ trace[m] # "none"
             /\ trace'[m] # "confirmed" \/ settled[m] = "confirmed"
    BY <1>1, <1>4 DEF BatchInv
<1> QED BY <1>2, <1>3, <1>5, <1>6, TraceStep

LEMMA StoppedInv == ASSUME IInv, Stopped PROVE IInv'
<1>1. PhaseInv' /\ BatchInv
    BY DEF Stopped, IInv, PhaseInv
<1>2. UNCHANGED <<ingestVars, batches, signing, relayVars, settled, chainVars,
                  process, historyVars>>
    BY DEF Stopped
<1>3. trace' \in [1 .. MaxBatches -> {"none", "open", "armed"} \cup Closed]
    BY <1>1 DEF BatchInv, Stopped, Closed
<1>4. \A m \in 1 .. MaxBatches :
          \/ trace'[m] = trace[m]
          \/ trace[m] # "none" /\ trace'[m] # "confirmed"
    BY <1>1 DEF BatchInv, Stopped, Pending
<1> QED BY <1>1, <1>2, <1>3, <1>4, TraceStep

-----------------------------------------------------------------------------
(* The relayer and the contract *)

\* A request that is tried has an attempt left.
LEMMA CurrentAttempt ==
    ASSUME IInv, current # None
    PROVE  current \in Batch /\ current \in Line /\ Tx(current) \in Attempts
<1>1. current \in Batch /\ current \in Line
    BY DEF IInv, LineInv, Line
<1>2. current \in 1 .. MaxBatches
    BY <1>1, BatchIndices DEF IInv, IngestInv
<1>3. retries[current] \in 0 .. MaxRetries /\ retries[current] < MaxRetries
    BY <1>1, <1>2 DEF IInv, BatchInv
<1>4. retries[current] \in 0 .. MaxRetries - 1
    BY <1>3, AnchorAssumption
<1> QED BY <1>1, <1>4 DEF Tx, Attempts

LEMMA SendTxInv == ASSUME IInv, SendTx PROVE IInv'
<1>1. /\ mempool' = Append(mempool, Tx(current)) /\ sent' = TRUE /\ current # None
      /\ UNCHANGED <<batches, signing, queue, current, backoff, retries, trace,
                     settled, running, mined, chain, nextBatchId, process, faults>>
      /\ UNCHANGED <<ingestVars, batches, process, historyVars>>
    BY DEF SendTx
<1>2. IngestInv' /\ Batch' = Batch
    BY <1>1, IngestKept DEF IInv, Batch
<1>3. LineInv' /\ Line' = Line
    BY <1>1, LineKept DEF IInv, LineInv
<1>4. mempool' \in Seq(Attempts)
    BY <1>1, CurrentAttempt, AppendProperties DEF IInv, ChainInv
<1>5. ChainInv'
    BY <1>1, <1>2, <1>4 DEF IInv, ChainInv, Attempts, Id
<1>6. BatchInv' /\ PhaseInv'
    BY <1>1, <1>2, <1>3 DEF IInv, BatchInv, PhaseInv
<1>7. ConfirmedIsAnchored' /\ HeldInv'
    BY <1>1, <1>2, <1>3 DEF IInv, ConfirmedIsAnchored, HeldInv, Id
<1> QED BY <1>2, <1>3, <1>5, <1>6, <1>7 DEF IInv

\* A failed attempt: the request is settled, or its timer runs.
LEMMA HandleFailureInv ==
    ASSUME IInv, NEW permanent \in BOOLEAN, current # None,
           HandleFailure(permanent), faults' \in 0 .. MaxFaults
    PROVE  IInv'
<1>1. /\ retries' = [retries EXCEPT ![current] = @ + 1]
      /\ \/ Settle(current, "failed") /\ UNCHANGED backoff
         \/ /\ retries'[current] < MaxRetries
            /\ backoff' = backoff \cup {current} /\ UNCHANGED <<trace, settled>>
      /\ ProcessQueue(queue)
      /\ UNCHANGED <<batches, signing, running, chainVars, process>>
      /\ UNCHANGED <<ingestVars, batches, process, historyVars>>
    BY DEF HandleFailure
<1>2. IngestInv' /\ ChainInv' /\ Batch' = Batch
    BY <1>1, IngestKept, ChainKept DEF IInv, Batch
<1>3. IngestType /\ LineInv /\ BatchInv /\ Batch \subseteq 1 .. MaxBatches
    BY BatchIndices DEF IInv, IngestInv
<1>4. LineInv' /\ Line' = Line \ {current} /\ current \in Line \cap Batch
    BY <1>1, <1>3, NextInLine
<1>5. current \in 1 .. MaxBatches /\ Line \subseteq Batch
    BY <1>3, <1>4, LineIsBatches
<1>6. /\ retries' \in [1 .. MaxBatches -> 0 .. MaxRetries]
      /\ \A n \in 1 .. MaxBatches : n # current => retries'[n] = retries[n]
    <2>1. retries[current] \in 0 .. MaxRetries /\ retries[current] < MaxRetries
        BY <1>3, <1>4, <1>5 DEF BatchInv
    <2>2. retries[current] + 1 \in 0 .. MaxRetries
        BY <2>1, AnchorAssumption
    <2> QED BY <1>1, <1>3, <1>5, <2>2 DEF BatchInv
<1>7. /\ settled' \in [1 .. MaxBatches -> {"none", "confirmed", "failed"}]
      /\ trace' \in [1 .. MaxBatches -> {"none", "open", "armed"} \cup Closed]
      /\ \A n \in 1 .. MaxBatches : n # current =>
             trace'[n] = trace[n] /\ settled'[n] = settled[n]
      /\ settled'[current] = "confirmed" => settled[current] = "confirmed"
      /\ trace'[current] = "confirmed" => trace[current] = "confirmed"
    BY <1>1, <1>3, <1>5 DEF Settle, BatchInv, Closed
<1>8. \/ backoff' = backoff /\ settled'[current] = "failed"
      \/ backoff' = backoff \cup {current} /\ retries'[current] < MaxRetries
    BY <1>1, <1>3, <1>5 DEF Settle, BatchInv
<1>9. BatchInv'
    <2>1. signing' \subseteq Batch' /\ backoff' \subseteq Batch'
        BY <1>1, <1>2, <1>3, <1>4, <1>8 DEF BatchInv
    <2>2. /\ signing' \cap Line' = {} /\ signing' \cap backoff' = {}
          /\ backoff' \cap Line' = {}
        BY <1>1, <1>3, <1>4, <1>8 DEF BatchInv
    <2>3. \A n \in (signing \cup Line \cup backoff)' : retries'[n] < MaxRetries
        <3> SUFFICES ASSUME NEW n \in (signing \cup Line \cup backoff)'
                     PROVE  retries'[n] < MaxRetries
            OBVIOUS
        <3>1. CASE n = current
            BY <1>1, <1>3, <1>4, <1>8, <3>1 DEF BatchInv
        <3>2. CASE n # current
            <4>1. n \in signing \cup Line \cup backoff /\ n \in 1 .. MaxBatches
                BY <1>1, <1>3, <1>4, <1>5, <1>8, <3>2 DEF BatchInv
            <4> QED BY <1>3, <1>6, <3>2, <4>1 DEF BatchInv
        <3> QED BY <3>1, <3>2
    <2>4. \A n \in (1 .. MaxBatches) \ Batch' :
              retries'[n] = 0 /\ trace'[n] = "none" /\ settled'[n] = "none"
        BY <1>2, <1>3, <1>4, <1>6, <1>7 DEF BatchInv
    <2> QED BY <1>6, <1>7, <2>1, <2>2, <2>3, <2>4 DEF BatchInv
<1>10. ConfirmedIsAnchored'
    BY <1>1, <1>2, <1>3, <1>7 DEF IInv, ConfirmedIsAnchored, Id, chainVars
<1>11. HeldInv'
    BY <1>1, <1>2, <1>3, <1>4, <1>7, <1>8 DEF IInv, HeldInv
<1>12. PhaseInv'
    BY <1>1 DEF IInv, PhaseInv
<1> QED BY <1>2, <1>4, <1>9, <1>10, <1>11, <1>12 DEF IInv

LEMMA FailureInv ==
    ASSUME IInv, Rejected \/ RpcFails \/ SignatureRejected \/ Reverted
    PROVE  IInv'
<1>1. /\ current # None /\ (HandleFailure(TRUE) \/ HandleFailure(FALSE))
      /\ faults' = faults \/ (faults < MaxFaults /\ faults' = faults + 1)
    BY DEF Rejected, RpcFails, SignatureRejected, Reverted
<1>2. faults' \in 0 .. MaxFaults
    BY <1>1, AnchorAssumption DEF IInv, PhaseInv
<1> QED BY <1>1, <1>2, HandleFailureInv

\* The receipt is of a transaction that put the batch on the chain.
LEMMA ConfirmedInv == ASSUME IInv, Confirmed PROVE IInv'
<1>1. /\ current # None /\ Tx(current) \in mined.ok
      /\ Settle(current, "confirmed") /\ ProcessQueue(queue)
      /\ UNCHANGED <<batches, signing, backoff, retries, running, chainVars,
                     process, faults>>
      /\ UNCHANGED <<ingestVars, batches, process, historyVars>>
    BY DEF Confirmed
<1>2. IngestInv' /\ ChainInv' /\ Batch' = Batch
    BY <1>1, IngestKept, ChainKept DEF IInv, Batch
<1>3. IngestType /\ LineInv /\ BatchInv /\ Batch \subseteq 1 .. MaxBatches
    BY BatchIndices DEF IInv, IngestInv
<1>4. LineInv' /\ Line' = Line \ {current} /\ current \in Line \cap Batch
    BY <1>1, <1>3, NextInLine
<1>5. /\ settled' \in [1 .. MaxBatches -> {"none", "confirmed", "failed"}]
      /\ trace' \in [1 .. MaxBatches -> {"none", "open", "armed"} \cup Closed]
      /\ \A n \in 1 .. MaxBatches : n # current =>
             trace'[n] = trace[n] /\ settled'[n] = settled[n]
      /\ settled'[current] = "confirmed"
    BY <1>1, <1>3, <1>4 DEF Settle, BatchInv, Closed
<1>6. chain[Id(current)] = current
    <2>1. Tx(current)[1] = current
        BY DEF Tx
    <2> QED BY <1>1, <2>1 DEF IInv, ChainInv
<1>7. BatchInv'
    BY <1>1, <1>2, <1>3, <1>4, <1>5 DEF BatchInv
<1>8. ConfirmedIsAnchored'
    BY <1>1, <1>2, <1>3, <1>5, <1>6 DEF IInv, ConfirmedIsAnchored, Id, chainVars
<1>9. HeldInv'
    BY <1>1, <1>2, <1>3, <1>4, <1>5 DEF IInv, HeldInv
<1>10. PhaseInv'
    BY <1>1 DEF IInv, PhaseInv
<1> QED BY <1>2, <1>4, <1>7, <1>8, <1>9, <1>10 DEF IInv

LEMMA RetryTimerInv ==
    ASSUME IInv, NEW n \in Batch, RetryTimer(n)
    PROVE  IInv'
<1>1. /\ n \in backoff /\ backoff' = backoff \ {n} /\ Enqueue(<<n>> \o queue)
      /\ UNCHANGED <<batches, signing, retries, trace, settled, running, chainVars,
                     process, faults>>
      /\ UNCHANGED <<ingestVars, batches, process, historyVars>>
    BY DEF RetryTimer
<1>2. IngestInv' /\ ChainInv' /\ Batch' = Batch
    BY <1>1, IngestKept, ChainKept DEF IInv, Batch
<1>3. IngestType /\ LineInv /\ BatchInv
    BY DEF IInv, IngestInv
<1>4. LineInv' /\ Line' = Line \cup {n}
    BY <1>1, <1>3, EnqueueOne DEF BatchInv
<1>5. BatchInv' /\ PhaseInv'
    BY <1>1, <1>2, <1>3, <1>4 DEF IInv, BatchInv, PhaseInv
<1>6. ConfirmedIsAnchored' /\ HeldInv'
    BY <1>1, <1>2, <1>4 DEF IInv, ConfirmedIsAnchored, HeldInv, Id, chainVars
<1> QED BY <1>2, <1>4, <1>5, <1>6 DEF IInv

\* The contract takes a batch only under the next id, where it holds nothing yet.
LEMMA MineChain ==
    ASSUME IInv, Mine
    PROVE  /\ ChainInv'
           /\ \A i \in 1 .. MaxBatches : chain[i] # None => chain'[i] = chain[i]
<1> DEFINE tx == Head(mempool)
<1>1. /\ tx \in Attempts /\ mempool' = Tail(mempool)
      /\ mempool' \in Seq(Attempts) /\ Anchor(tx)
      /\ UNCHANGED batches
    BY PopToSet DEF IInv, ChainInv, Mine
<1> HIDE DEF tx
<1>2. /\ Batch' = Batch /\ Attempts' = Attempts /\ \A n \in Batch : Id(n)' = Id(n)
    BY <1>1 DEF Batch, Attempts, Id
<1>3. tx[1] \in Batch
    BY <1>1 DEF Attempts
<1>4. /\ Id(tx[1]) \in 1 .. MaxBatches /\ MaxBatches \in Nat
      /\ \A n \in Batch : Id(n) \in 1 .. MaxBatches
      /\ None \notin Batch
    BY <1>3, BatchIndices DEF IInv, IngestInv
<1>5. ChainInv
    BY DEF IInv
<1>6. CASE Id(tx[1]) = nextBatchId
    <2>1. /\ chain' = [chain EXCEPT ![nextBatchId] = tx[1]]
          /\ nextBatchId' = nextBatchId + 1
          /\ mined' = [mined EXCEPT !.ok = @ \cup {tx}]
        BY <1>1, <1>6 DEF Anchor
    <2>2. nextBatchId \in 1 .. MaxBatches /\ nextBatchId' \in 1 .. (MaxBatches + 1)
        BY <1>4, <1>6, <2>1
    <2>3. /\ chain' \in [1 .. MaxBatches -> {None} \cup Batch]
          /\ chain'[nextBatchId] = tx[1]
          /\ \A i \in 1 .. MaxBatches : i # nextBatchId => chain'[i] = chain[i]
        BY <1>3, <1>5, <2>1, <2>2 DEF ChainInv
    <2>4. /\ mined' \in [ok : SUBSET Attempts, reverted : SUBSET Attempts]
          /\ mined'.ok = mined.ok \cup {tx}
        BY <1>1, <1>5, <2>1 DEF ChainInv
    <2>5. chain[nextBatchId] = None
        BY <1>5, <2>2 DEF ChainInv
    <2>6. ASSUME NEW i \in 1 .. MaxBatches
          PROVE  IF i < nextBatchId' THEN chain'[i] \in Batch /\ Id(chain'[i]) = i
                                     ELSE chain'[i] = None
        <3>1. CASE i = nextBatchId
            BY <1>3, <1>6, <2>1, <2>2, <2>3, <3>1
        <3>2. CASE i # nextBatchId
            <4>1. i < nextBatchId' <=> i < nextBatchId
                BY <2>1, <2>2, <3>2
            <4> QED BY <1>5, <2>3, <3>2, <4>1 DEF ChainInv
        <3> QED BY <3>1, <3>2
    <2>7. ASSUME NEW t \in mined'.ok
          PROVE  Id(t[1]) < nextBatchId' /\ chain'[Id(t[1])] = t[1]
        <3>1. CASE t = tx
            BY <1>6, <2>1, <2>2, <2>3, <3>1
        <3>2. CASE t \in mined.ok
            <4>1. t[1] \in Batch
                BY <1>5, <3>2 DEF ChainInv, Attempts
            <4>2. /\ Id(t[1]) \in 1 .. MaxBatches /\ Id(t[1]) < nextBatchId
                  /\ chain[Id(t[1])] = t[1]
                BY <1>4, <1>5, <3>2, <4>1 DEF ChainInv
            <4> QED BY <2>1, <2>2, <2>3, <4>2
        <3> QED BY <2>4, <3>1, <3>2
    <2>8. ChainInv'
        BY <1>1, <1>2, <2>2, <2>3, <2>4, <2>6, <2>7 DEF ChainInv, Id
    <2> QED BY <2>3, <2>5, <2>8
<1>7. CASE Id(tx[1]) # nextBatchId
    <2>1. /\ mined' = [mined EXCEPT !.reverted = @ \cup {tx}]
          /\ UNCHANGED <<chain, nextBatchId>>
        BY <1>1, <1>7 DEF Anchor
    <2>2. /\ mined' \in [ok : SUBSET Attempts, reverted : SUBSET Attempts]
          /\ mined'.ok = mined.ok
        BY <1>1, <1>5, <2>1 DEF ChainInv
    <2> QED BY <1>1, <1>2, <1>5, <2>1, <2>2 DEF ChainInv, Id
<1> QED BY <1>6, <1>7

LEMMA MineInv == ASSUME IInv, Mine PROVE IInv'
<1>1. /\ UNCHANGED <<batches, signing, queue, current, sent, backoff, retries,
                     trace, settled, running, process, faults>>
      /\ UNCHANGED <<ingestVars, batches, process, historyVars>>
    BY DEF Mine, relayVars
<1>2. IngestInv' /\ Batch' = Batch
    BY <1>1, IngestKept DEF IInv, Batch
<1>3. LineInv' /\ Line' = Line
    BY <1>1, LineKept DEF IInv, LineInv
<1>4. BatchInv' /\ PhaseInv'
    BY <1>1, <1>2, <1>3 DEF IInv, BatchInv, PhaseInv
<1>5. ConfirmedIsAnchored'
    <2>1. \A n \in Batch : n # None /\ Id(n) \in 1 .. MaxBatches
        BY BatchIndices DEF IInv, IngestInv
    <2> QED BY <1>1, <1>2, <2>1, MineChain DEF IInv, ConfirmedIsAnchored, Id
<1>6. HeldInv'
    BY <1>1, <1>2, <1>3 DEF IInv, HeldInv
<1> QED BY <1>2, <1>3, <1>4, <1>5, <1>6, MineChain DEF IInv

-----------------------------------------------------------------------------
(* A new process *)

LEMMA RestartInv == ASSUME IInv, Restart PROVE IInv'
<1>1. IngestType /\ LineInv /\ BatchInv
    BY DEF IInv, IngestInv
<1>2. /\ Batch' = Batch /\ Len(batches) \in Nat /\ Batched' = Batched
    BY <1>1, LenProperties DEF Restart, Batch, Batched, IngestType
<1>3. /\ Batch \subseteq 1 .. MaxBatches /\ None \notin Batch
      /\ \A n \in Batch : batches[n].process \in 1 .. process
    BY <1>1, BatchIndices
<1>4. process \in Nat /\ process' = process + 1 /\ process' \in 1 .. (MaxRestarts + 1)
    BY <1>1, AnchorAssumption DEF Restart, IngestType
<1>5. IngestInv'
    <2>1. ToSet(crossing) \subseteq offered
        BY <1>1, LenProperties, ElementOfSeq DEF ToSet, IngestType
    <2>2. Cardinality(buffer') = 0 /\ Len(crossing') = 0 /\ crossing' \in Seq(offered)
        BY FS_EmptySet DEF Restart
    <2>3. BatchRecord \subseteq BatchRecord'
        BY <1>4 DEF BatchRecord, Restart
    <2>4. batches' \in Seq(BatchRecord')
        BY <1>1, <2>3, SeqMonotonic DEF IngestType, Restart
    <2>5. IngestType'
        BY <1>1, <1>4, <2>1, <2>2, <2>4, AnchorAssumption DEF IngestType, Restart
    <2>6. CountInv'
        <3>1. Cardinality(buffer) \in Nat /\ Len(crossing) \in Nat
            BY <1>1, FiniteEvents, LenProperties DEF IngestType
        <3>2. Cardinality(offered) \in Nat
            BY <1>1, FiniteEvents DEF IngestType
        <3> QED BY <1>2, <2>2, <3>1, <3>2 DEF IInv, IngestInv, CountInv, Restart
    <2>7. PlaceInv'
        <3>1. Places(offered, {}, {}, discarded,
                     crashed \cup buffer \cup ToSet(crossing), Batched)
            BY DEF IInv, IngestInv, PlaceInv, Places
        <3> QED BY <1>2, <3>1, EmptyToSet DEF IInv, IngestInv, PlaceInv, Restart
    <2>8. RaceInv'
        BY <2>2 DEF IInv, IngestInv, RaceInv, Restart
    <2> QED BY <2>5, <2>6, <2>7, <2>8 DEF IngestInv
<1>6. LineInv' /\ Line' = {}
    <2>1. queue' = <<>> /\ current' = None /\ sent' = FALSE
        BY DEF Restart
    <2>2. ToSet(queue') = {} /\ IsInjective(queue') /\ queue' \in Seq(Batch')
        BY <2>1, EmptyToSet
    <2>3. Line' = {}
        BY <2>1, <2>2 DEF Line
    <2> QED BY <2>1, <2>2, <2>3 DEF LineInv
<1>7. trace' \in [1 .. MaxBatches -> {"none", "open", "armed"} \cup Closed]
    BY <1>1 DEF BatchInv, Restart, Closed
<1>8. BatchInv'
    BY <1>1, <1>2, <1>6, <1>7 DEF BatchInv, Restart, Pending
<1>9. ChainInv'
    BY ChainKept DEF IInv, Restart
<1>10. ConfirmedIsAnchored'
    BY <1>1, <1>2, <1>3 DEF IInv, BatchInv, ConfirmedIsAnchored, Restart, Id, chainVars
<1>11. HeldInv'
    <2>1. \A n \in Batch : batches'[n].process # process'
        BY <1>3, <1>4 DEF Restart
    <2> QED BY <1>2, <2>1 DEF HeldInv
<1>12. PhaseInv'
    BY DEF IInv, PhaseInv, Restart
<1> QED BY <1>5, <1>6, <1>8, <1>9, <1>10, <1>11, <1>12 DEF IInv

-----------------------------------------------------------------------------
(* Ingests and flushes *)

\* What the five steps of the ingest side have in common: a pile b of events is
\* gathered, and with b in the place of the buffer the events still count up and
\* are still in one place each.
IngestStep(b) ==
    /\ Gather(b) /\ b \subseteq offered' /\ Cardinality(buffer') < MaxBatchSize
    /\ offered \subseteq offered' /\ offered' \subseteq Event
    /\ windowStart' \in {0} \cup Nat
    /\ crossing' \in Seq(offered') /\ IsInjective(crossing')
    /\ Len(batches) + Cardinality(b) + Len(crossing') <= Cardinality(offered')
    /\ Places(offered', b, ToSet(crossing'), discarded', crashed, Batched)
    /\ raced' \in BOOLEAN /\ RaceInv' /\ PhaseInv'
    /\ UNCHANGED <<relayVars, trace, settled, chainVars, process, crashed>>

LEMMA IngestStepBatches ==
    ASSUME IInv, NEW b, IngestStep(b)
    PROVE  /\ CountInv' /\ Len(batches') <= MaxBatches
           /\ batches' \in Seq(BatchRecord')
           /\ Batch \subseteq Batch' /\ \A n \in Batch : batches'[n] = batches[n]
           /\ \/ UNCHANGED <<batches, signing>> /\ Batch' = Batch
              \/ /\ Cut(b) /\ Batch' = Batch \cup {Len(batches) + 1}
                 /\ Len(batches) + 1 \notin Batch
                 /\ signing' = signing \cup {Len(batches) + 1}
                 /\ batches'[Len(batches) + 1].events = b
                 /\ Len(batches) + 1 \in 1 .. MaxBatches
<1>1. IngestType /\ Gather(b) /\ process' = process
    BY DEF IInv, IngestInv, IngestStep
<1>2. b \in SUBSET Event /\ b \in SUBSET offered' /\ Len(crossing') \in Nat
    BY LenProperties DEF IngestStep
<1>3. /\ offered \subseteq offered' /\ offered' \subseteq Event
      /\ Len(batches) + Cardinality(b) + Len(crossing') <= Cardinality(offered')
    BY DEF IngestStep
<1>4. /\ CountInv' /\ Len(batches') <= MaxBatches
      /\ Cut(b) => Len(batches) + 1 <= MaxBatches
    BY <1>1, <1>2, <1>3, GatherCounts
<1>5. Cut(b) => Len(batches) + 1 \in 1 .. MaxBatches
    <2>1. Len(batches) \in Nat /\ MaxBatches \in Nat
        BY <1>1, LenProperties, FiniteEvents DEF IngestType
    <2> QED BY <1>4, <2>1
<1> QED BY <1>1, <1>2, <1>3, <1>4, <1>5, GatherBatches

LEMMA IngestStepPlaces ==
    ASSUME IInv, NEW b, IngestStep(b)
    PROVE  PlaceInv'
<1>1. /\ IsInjective(crossing') /\ crashed' = crashed
      /\ Places(offered', b, ToSet(crossing'), discarded', crashed, Batched)
    BY DEF IngestStep
<1>2. \A m, n \in Batch : m # n => batches[m].events \cap batches[n].events = {}
    BY DEF IInv, IngestInv, PlaceInv
<1>3. (buffer' = b /\ UNCHANGED <<batches, signing>>) \/ (buffer' = {} /\ Cut(b))
    BY DEF IngestStep, Gather
<1>4. CASE UNCHANGED <<batches, signing>> /\ Batch' = Batch
    <2>1. Batched' = Batched
        BY <1>4 DEF Batched
    <2>2. CASE buffer' = b
        BY <1>1, <1>2, <1>4, <2>1, <2>2 DEF PlaceInv
    <2>3. CASE buffer' = {} /\ Cut(b)
        <3>1. Len(batches') = Len(batches) + 1
            <4> DEFINE r == [events |-> b, id |-> NextId, process |-> process]
            <4>1. batches \in Seq(BatchRecord \cup {r})
                BY SeqMonotonic DEF IngestType, IInv, IngestInv
            <4> QED BY <2>3, <4>1, AppendProperties DEF Cut
        <3>2. Len(batches) \in Nat
            BY LenProperties DEF IngestType, IInv, IngestInv
        <3> QED BY <1>4, <3>1, <3>2
    <2> QED BY <1>3, <2>2, <2>3
<1>5. CASE /\ Cut(b) /\ Batch' = Batch \cup {Len(batches) + 1}
           /\ Len(batches) + 1 \notin Batch
           /\ batches'[Len(batches) + 1].events = b
           /\ \A n \in Batch : batches'[n] = batches[n]
    <2> DEFINE k == Len(batches) + 1
    <2>1. /\ Batch' = Batch \cup {k} /\ k \notin Batch /\ batches'[k].events = b
          /\ \A n \in Batch : batches'[n] = batches[n]
        BY <1>5
    <2>2. buffer' = {}
        <3>1. CASE UNCHANGED <<batches, signing>>
            BY <1>5, <3>1 DEF Batch
        <3> QED BY <1>3, <3>1
    <2> HIDE DEF k
    <2>3. Batched' = Batched \cup b
        BY <2>1 DEF Batched
    <2>4. Places(offered', buffer', ToSet(crossing'), discarded', crashed', Batched')
        BY <1>1, <2>2, <2>3 DEF Places
    <2>5. \A n \in Batch : batches[n].events \cap b = {}
        BY <1>1 DEF Places, Batched
    <2>6. \A m, n \in Batch' :
              m # n => batches'[m].events \cap batches'[n].events = {}
        BY <1>2, <2>1, <2>5
    <2> QED BY <1>1, <2>4, <2>6 DEF PlaceInv
<1> QED BY <1>4, <1>5, IngestStepBatches

LEMMA IngestStepInv ==
    ASSUME IInv, NEW b, IngestStep(b)
    PROVE  IInv'
<1>1. IngestType /\ LineInv /\ BatchInv /\ ChainInv
    BY DEF IInv, IngestInv
<1>2. /\ batches' \in Seq(BatchRecord') /\ Len(batches') <= MaxBatches
      /\ CountInv' /\ Batch \subseteq Batch'
      /\ \A n \in Batch : batches'[n] = batches[n]
    BY IngestStepBatches
<1>3. PICK new \in SUBSET (1 .. MaxBatches) :
          /\ Batch' = Batch \cup new /\ new \cap Batch = {}
          /\ signing' = signing \cup new
    <2>1. CASE UNCHANGED <<batches, signing>> /\ Batch' = Batch
        <3>1. /\ {} \in SUBSET (1 .. MaxBatches)
              /\ Batch' = Batch \cup {} /\ {} \cap Batch = {}
              /\ signing' = signing \cup {}
            BY <2>1
        <3> QED BY <3>1
    <2>2. CASE /\ Batch' = Batch \cup {Len(batches) + 1}
               /\ Len(batches) + 1 \notin Batch
               /\ signing' = signing \cup {Len(batches) + 1}
               /\ Len(batches) + 1 \in 1 .. MaxBatches
        BY <2>2
    <2> QED BY <2>1, <2>2, IngestStepBatches
<1>4. /\ Batch \subseteq 1 .. MaxBatches /\ None \notin Batch
      /\ \A n \in Batch : Id(n) \in 1 .. MaxBatches
    BY <1>1, BatchIndices
<1>5. UNCHANGED <<queue, current, sent, backoff, retries, trace, settled,
                  chainVars, process>>
    BY DEF IngestStep, relayVars
<1>6. buffer' \subseteq offered' /\ discarded' \subseteq offered' /\ crashed' \subseteq offered'
    <2>1. buffer' \in {b, {}} /\ b \subseteq offered' /\ crashed' = crashed
        BY DEF IngestStep, Gather
    <2> QED BY <2>1 DEF IngestStep, Places
<1>7. IngestType'
    BY <1>1, <1>2, <1>5, <1>6 DEF IngestType, IngestStep
<1>8. IngestInv'
    BY <1>2, <1>7, IngestStepPlaces DEF IngestInv, IngestStep
<1>9. LineInv' /\ Line' = Line
    <2>1. queue' \in Seq(Batch')
        BY <1>1, <1>2, <1>5, SeqMonotonic DEF LineInv
    <2> QED BY <1>1, <1>2, <1>5, <2>1 DEF LineInv, Line
<1>10. BatchInv'
    <2>1. Line \subseteq Batch
        BY <1>1, LineIsBatches
    <2>2. \A n \in new : retries[n] = 0 /\ trace[n] = "none" /\ settled[n] = "none"
        BY <1>1, <1>3 DEF BatchInv
    <2>3. \A n \in signing' \cup Line \cup backoff : retries[n] < MaxRetries
        <3>1. \A n \in signing \cup Line \cup backoff : retries[n] < MaxRetries
            BY <1>1 DEF BatchInv
        <3>2. \A n \in new : retries[n] < MaxRetries
            BY <2>2, AnchorAssumption
        <3> QED BY <1>3, <3>1, <3>2
    <2> QED BY <1>1, <1>3, <1>5, <1>9, <2>1, <2>3 DEF BatchInv
<1>11. ChainInv'
    <2>1. Attempts \subseteq Attempts'
        BY <1>2 DEF Attempts
    <2>2. mempool' \in Seq(Attempts')
        BY <1>1, <1>5, <2>1, SeqMonotonic DEF ChainInv, chainVars
    <2>3. /\ mined' \in [ok : SUBSET Attempts', reverted : SUBSET Attempts']
          /\ \A tx \in mined.ok : tx[1] \in Batch
        BY <1>1, <1>5, <2>1 DEF ChainInv, chainVars, Attempts
    <2>4. \A n \in Batch : Id(n)' = Id(n)
        BY <1>2 DEF Id
    <2> QED BY <1>1, <1>2, <1>4, <1>5, <2>2, <2>3, <2>4 DEF ChainInv, chainVars, Id
<1>12. \A n \in Batch' \ Batch : trace'[n] = "none" /\ settled'[n] = "none"
    BY <1>1, <1>3, <1>5 DEF BatchInv
<1>13. ConfirmedIsAnchored'
    BY <1>2, <1>5, <1>12 DEF IInv, ConfirmedIsAnchored, chainVars, Id
<1>14. HeldInv'
    BY <1>2, <1>5, <1>9, <1>12 DEF IInv, HeldInv
<1>15. PhaseInv'
    BY DEF IngestStep
<1> QED BY <1>8, <1>9, <1>10, <1>11, <1>13, <1>14, <1>15 DEF IInv

\* The numbers and sets the five steps start from.
LEMMA IngestFacts ==
    ASSUME IInv
    PROVE  /\ offered \subseteq Event /\ buffer \subseteq offered
           /\ crossing \in Seq(offered) /\ ToSet(crossing) \subseteq offered
           /\ IsInjective(crossing)
           /\ windowStart \in Nat /\ Cardinality(buffer) < MaxBatchSize
           /\ Len(batches) \in Nat /\ Len(crossing) \in Nat
           /\ IsFiniteSet(buffer) /\ Cardinality(buffer) \in Nat
           /\ IsFiniteSet(offered) /\ Cardinality(offered) \in Nat
           /\ Len(batches) + Cardinality(buffer) + Len(crossing)
                  <= Cardinality(offered)
           /\ Places(offered, buffer, ToSet(crossing), discarded, crashed, Batched)
<1>1. IngestType /\ CountInv /\ PlaceInv
    BY DEF IInv, IngestInv
<1>2. /\ offered \subseteq Event /\ buffer \subseteq offered
      /\ crossing \in Seq(offered)
      /\ windowStart \in Nat /\ Cardinality(buffer) < MaxBatchSize
    BY <1>1 DEF IngestType
<1>3. Len(batches) \in Nat /\ Len(crossing) \in Nat
    BY <1>1, LenProperties DEF IngestType
<1>4. /\ IsFiniteSet(buffer) /\ Cardinality(buffer) \in Nat
      /\ IsFiniteSet(offered) /\ Cardinality(offered) \in Nat
    BY <1>2, FiniteEvents
<1>5. ToSet(crossing) \subseteq offered
    BY <1>2, LenProperties, ElementOfSeq DEF ToSet
<1> QED BY <1>1, <1>2, <1>3, <1>4, <1>5 DEF CountInv, PlaceInv

LEMMA IngestActInv ==
    ASSUME IInv, NEW e \in Event, Ingest(e)
    PROVE  IInv'
<1> DEFINE b == buffer \cup {e}
<1>1. /\ e \notin offered /\ offered' = offered \cup {e}
      /\ Push(buffer, e) /\ raced' = (raced \/ crossing # <<>>)
      /\ UNCHANGED <<crossing, running, faults, discarded, crashed>>
      /\ UNCHANGED <<relayVars, trace, settled, chainVars, process, crashed>>
    BY DEF Ingest
<1>2. Gather(b) /\ Cardinality(buffer') < MaxBatchSize
    BY <1>1, IngestFacts, PushGathers
<1>3. /\ e \notin buffer
      /\ Cardinality(b) = Cardinality(buffer) + 1
      /\ Cardinality(offered') = Cardinality(offered) + 1
    BY <1>1, IngestFacts, FS_AddElement
<1> HIDE DEF b
<1>4. Len(batches) + Cardinality(b) + Len(crossing') <= Cardinality(offered')
    BY <1>1, <1>3, IngestFacts
<1>5. Places(offered', b, ToSet(crossing'), discarded', crashed, Batched)
    BY <1>1, IngestFacts DEF Places, b
<1>6. windowStart' \in {0} \cup Nat
    BY IngestFacts, AnchorAssumption DEF Ingest
<1>7. crossing' \in Seq(offered')
    BY <1>1, IngestFacts, SeqMonotonic
<1>8. raced' \in BOOLEAN /\ PhaseInv'
    BY <1>1 DEF IInv, PhaseInv
<1>9. RaceInv'
    <2>1. crossing # <<>> => raced'
        BY <1>1
    <2>2. Len(crossing) > 1 => crossing # <<>>
        OBVIOUS
    <2>3. raced => raced'
        BY <1>1
    <2> QED BY <1>1, <2>1, <2>2, <2>3 DEF IInv, IngestInv, RaceInv
<1>10. b \subseteq offered' /\ offered' \subseteq Event
    BY <1>1, IngestFacts DEF b
<1>11. IngestStep(b)
    BY <1>1, <1>2, <1>4, <1>5, <1>6, <1>7, <1>8, <1>9, <1>10, IngestFacts DEF IngestStep
<1> QED BY <1>11, IngestStepInv

LEMMA IngestNewWindowInv ==
    ASSUME IInv, NEW e \in Event, IngestNewWindow(e)
    PROVE  IInv'
<1>1. /\ e \notin offered /\ offered' = offered \cup {e}
      /\ Flush(buffer) /\ crossing' = Append(crossing, e)
      /\ raced' = (raced \/ crossing # <<>>)
      /\ UNCHANGED <<windowStart, running, faults, discarded, crashed>>
      /\ UNCHANGED <<relayVars, trace, settled, chainVars, process, crashed>>
    BY DEF IngestNewWindow
<1>2. Gather(buffer) /\ buffer' = {}
    BY <1>1, FlushGathers
<1>3. Cardinality(buffer') < MaxBatchSize
    BY <1>2, FS_EmptySet, AnchorAssumption
<1>4. Cardinality(offered') = Cardinality(offered) + 1
    BY <1>1, IngestFacts, FS_AddElement
<1>5. crossing \in Seq(offered') /\ e \in offered'
    BY <1>1, IngestFacts, SeqMonotonic
<1>6. /\ crossing' \in Seq(offered') /\ Len(crossing') = Len(crossing) + 1
      /\ ToSet(crossing') = ToSet(crossing) \cup {e}
    BY <1>1, <1>5, AppendProperties, AppendToSet
<1>7. IsInjective(crossing')
    BY <1>1, <1>5, IngestFacts, AppendInjects
<1>8. Len(batches) + Cardinality(buffer) + Len(crossing') <= Cardinality(offered')
    BY <1>4, <1>6, IngestFacts
<1>9. Places(offered', buffer, ToSet(crossing'), discarded', crashed, Batched)
    BY <1>1, <1>6, IngestFacts DEF Places
<1>10. raced' \in BOOLEAN /\ PhaseInv'
    BY <1>1 DEF IInv, PhaseInv
<1>11. RaceInv'
    <2>1. Len(crossing') > 1 => crossing # <<>>
        BY <1>6, IngestFacts
    <2>2. (crossing # <<>> => raced') /\ (raced => raced')
        BY <1>1
    <2> QED BY <1>1, <1>2, <2>1, <2>2 DEF IInv, IngestInv, RaceInv
<1>12. windowStart' \in {0} \cup Nat
    BY <1>1, IngestFacts
<1>13. buffer \subseteq offered' /\ offered \subseteq offered' /\ offered' \subseteq Event
    BY <1>1, IngestFacts
<1>14. IngestStep(buffer)
    BY <1>1, <1>2, <1>3, <1>6, <1>7, <1>8, <1>9, <1>10, <1>11, <1>12, <1>13
    DEF IngestStep
<1> QED BY <1>14, IngestStepInv

LEMMA CrossWindowInv == ASSUME IInv, CrossWindow PROVE IInv'
<1> DEFINE e == Head(crossing)
<1>1. /\ crossing # <<>> /\ windowStart' = Time[e]
      /\ discarded' = discarded \cup buffer /\ Push({}, e)
      /\ crossing' = Tail(crossing)
      /\ UNCHANGED <<offered, running, faults, raced>>
      /\ UNCHANGED <<relayVars, trace, settled, chainVars, process, crashed>>
    BY DEF CrossWindow
<1>2. /\ e \in offered /\ crossing' \in Seq(offered)
      /\ ToSet(crossing) = {e} \cup ToSet(crossing')
    BY <1>1, IngestFacts, PopToSet
<1>3. IsInjective(crossing') /\ e \notin ToSet(crossing')
    BY <1>1, IngestFacts, PopInjects
<1>4. Len(crossing) \in Nat \ {0} /\ Len(crossing') = Len(crossing) - 1
    BY <1>1, IngestFacts, EmptySeq, HeadTailProperties
<1>5. {} \in SUBSET Event /\ e \in Event
    BY <1>2, IngestFacts
<1> HIDE DEF e
<1>6. Gather({} \cup {e}) /\ Cardinality(buffer') < MaxBatchSize
    BY <1>1, <1>5, PushGathers
<1>7. {} \cup {e} = {e} /\ Cardinality({e}) = 1
    BY FS_Singleton
<1>8. Gather({e})
    BY <1>6, <1>7
<1>9. Len(batches) + Cardinality({e}) + Len(crossing') <= Cardinality(offered')
    BY <1>1, <1>4, <1>7, IngestFacts
<1>10. Places(offered', {e}, ToSet(crossing'), discarded', crashed, Batched)
    BY <1>1, <1>2, <1>3, IngestFacts DEF Places
<1>11. raced' \in BOOLEAN /\ PhaseInv'
    BY <1>1 DEF IInv, PhaseInv, IngestInv, IngestType
<1>12. RaceInv'
    <2>1. crossing' # <<>> => Len(crossing) > 1
        BY <1>2, <1>4, EmptySeq, LenProperties
    <2>2. Len(crossing') > 1 => Len(crossing) > 1
        BY <1>4
    <2> QED BY <1>1, <2>1, <2>2 DEF IInv, IngestInv, RaceInv
<1>13. windowStart' \in {0} \cup Nat
    BY <1>1, <1>5, AnchorAssumption
<1>14. {e} \subseteq offered' /\ offered \subseteq offered' /\ offered' \subseteq Event
       /\ crossing' \in Seq(offered')
    BY <1>1, <1>2, IngestFacts
<1>15. IngestStep({e})
    BY <1>1, <1>3, <1>6, <1>8, <1>9, <1>10, <1>11, <1>12, <1>13, <1>14
    DEF IngestStep
<1> QED BY <1>15, IngestStepInv

LEMMA FlushInv ==
    ASSUME IInv, FlushTimer \/ Stop
    PROVE  IInv'
<1>1. /\ Flush(buffer)
      /\ UNCHANGED <<offered, windowStart, crossing, discarded, raced, crashed, faults>>
      /\ UNCHANGED <<relayVars, trace, settled, chainVars, process, crashed>>
    BY DEF FlushTimer, Stop, historyVars
<1>2. Gather(buffer) /\ buffer' = {}
    BY <1>1, FlushGathers
<1>3. Cardinality(buffer') < MaxBatchSize
    BY <1>2, FS_EmptySet, AnchorAssumption
<1>4. raced' \in BOOLEAN
    BY <1>1 DEF IInv, IngestInv, IngestType
<1>5. PhaseInv'
    BY <1>1 DEF IInv, PhaseInv, FlushTimer, Stop
<1>6. RaceInv'
    BY <1>1, <1>2 DEF IInv, IngestInv, RaceInv
<1>7. IngestStep(buffer)
    BY <1>1, <1>2, <1>3, <1>4, <1>5, <1>6, IngestFacts DEF IngestStep
<1> QED BY <1>7, IngestStepInv

-----------------------------------------------------------------------------
(* The invariant is inductive, and what follows from it *)

LEMMA InitInv == ASSUME Init PROVE IInv
<1>1. Batch = {} /\ Batched = {} /\ Len(batches) = 0 /\ Len(crossing) = 0
    BY DEF Init, Batch, Batched
<1>2. Cardinality(buffer) = 0 /\ Cardinality(offered) = 0 /\ MaxBatches \in Nat
    BY FS_EmptySet, FiniteEvents DEF Init
<1>3. ToSet(crossing) = {} /\ IsInjective(crossing) /\ crossing \in Seq(offered)
    BY EmptyToSet DEF Init
<1>4. IngestType
    <2>1. batches \in Seq(BatchRecord)
        BY DEF Init
    <2>2. process = 1 /\ raced = FALSE
        BY DEF Init
    <2>3. process \in 1 .. (MaxRestarts + 1)
        BY <2>2, AnchorAssumption
    <2>4. raced \in BOOLEAN
        BY <2>2
    <2> QED BY <1>1, <1>2, <1>3, <2>1, <2>3, <2>4, AnchorAssumption DEF Init, IngestType
<1>5. CountInv /\ RaceInv
    BY <1>1, <1>2 DEF Init, CountInv, RaceInv
<1>6. PlaceInv
    BY <1>1, <1>3 DEF Init, PlaceInv, Places
<1>7. LineInv /\ Line = {}
    <2>1. queue = <<>> /\ current = None /\ sent = FALSE
        BY DEF Init
    <2>2. ToSet(queue) = {} /\ IsInjective(queue) /\ queue \in Seq(Batch)
        BY <2>1, EmptyToSet
    <2>3. Line = {}
        BY <2>1, <2>2 DEF Line
    <2> QED BY <2>1, <2>2, <2>3 DEF LineInv
<1>8. BatchInv
    BY <1>1, <1>2, <1>7, AnchorAssumption DEF Init, BatchInv
<1>9. ChainInv
    BY <1>1, <1>2 DEF Init, ChainInv
<1>10. PhaseInv
    BY AnchorAssumption DEF Init, PhaseInv
<1>11. ConfirmedIsAnchored /\ HeldInv
    BY <1>1 DEF ConfirmedIsAnchored, HeldInv
<1> QED BY <1>4, <1>5, <1>6, <1>7, <1>8, <1>9, <1>10, <1>11 DEF IInv, IngestInv

LEMMA StutterInv == ASSUME IInv, UNCHANGED vars PROVE IInv'
<1>1. /\ UNCHANGED <<ingestVars, batches, process, historyVars>>
      /\ UNCHANGED <<batches, signing, queue, current, sent, backoff, retries,
                     trace, settled, running, chainVars, process, faults>>
    BY DEF vars, relayVars
<1>2. IngestInv' /\ ChainInv' /\ Batch' = Batch
    BY <1>1, IngestKept, ChainKept DEF IInv, Batch
<1>3. LineInv' /\ Line' = Line
    BY <1>1, LineKept DEF IInv, LineInv
<1>4. BatchInv' /\ PhaseInv'
    BY <1>1, <1>2, <1>3 DEF IInv, BatchInv, PhaseInv
<1>5. ConfirmedIsAnchored' /\ HeldInv'
    BY <1>1, <1>2, <1>3 DEF IInv, ConfirmedIsAnchored, HeldInv, Id, chainVars
<1> QED BY <1>2, <1>3, <1>4, <1>5 DEF IInv

LEMMA NextInv == ASSUME IInv, [Next]_vars PROVE IInv'
<1>1. ASSUME NEW e \in Event, Ingest(e) PROVE IInv'
    BY <1>1, IngestActInv
<1>2. ASSUME NEW e \in Event, IngestNewWindow(e) PROVE IInv'
    BY <1>2, IngestNewWindowInv
<1>3. CASE CrossWindow
    BY <1>3, CrossWindowInv
<1>4. CASE FlushTimer \/ Stop
    BY <1>4, FlushInv
<1>5. ASSUME NEW n \in Batch, SignDone(n) PROVE IInv'
    BY <1>5, SignDoneInv
<1>6. ASSUME NEW n \in Batch, SignFails(n) PROVE IInv'
    BY <1>6, SignFailsInv
<1>7. ASSUME NEW n \in Batch, Arm(n) \/ TraceTimeout(n) PROVE IInv'
    BY <1>7, ArmInv
<1>8. CASE SendTx
    BY <1>8, SendTxInv
<1>9. CASE Rejected \/ RpcFails \/ SignatureRejected \/ Reverted
    BY <1>9, FailureInv
<1>10. CASE Confirmed
    BY <1>10, ConfirmedInv
<1>11. ASSUME NEW n \in Batch, RetryTimer(n) PROVE IInv'
    BY <1>11, RetryTimerInv
<1>12. CASE Mine
    BY <1>12, MineInv
<1>13. CASE Stopped
    BY <1>13, StoppedInv
<1>14. CASE Restart
    BY <1>14, RestartInv
<1>15. CASE UNCHANGED vars
    BY <1>15, StutterInv
<1> QED BY <1>1, <1>2, <1>3, <1>4, <1>5, <1>6, <1>7, <1>8, <1>9, <1>10, <1>11,
           <1>12, <1>13, <1>14, <1>15 DEF Next

LEMMA IInvHolds == Spec => []IInv
BY InitInv, NextInv, PTL DEF Spec

\* One batch under each id, and batches share no event.
LEMMA OnceFromInv == ASSUME IInv PROVE AnchoredOnce
<1>1. ChainInv /\ IngestType /\ PlaceInv
    BY DEF IInv, IngestInv
<1>2. None \notin Batch /\ MaxBatches \in Nat
    BY <1>1, BatchIndices
<1>3. \A i \in 1 .. MaxBatches : chain[i] # None <=> i < nextBatchId
    BY <1>1, <1>2 DEF ChainInv
<1>4. ASSUME NEW i \in 1 .. (nextBatchId - 1), NEW j \in 1 .. (nextBatchId - 1), i # j
      PROVE  batches[chain[i]].events \cap batches[chain[j]].events = {}
    <2>1. i \in 1 .. MaxBatches /\ j \in 1 .. MaxBatches /\ i < nextBatchId /\ j < nextBatchId
        BY <1>1, <1>2 DEF ChainInv
    <2>2. /\ chain[i] \in Batch /\ chain[j] \in Batch
          /\ Id(chain[i]) = i /\ Id(chain[j]) = j
        BY <1>1, <2>1 DEF ChainInv
    <2>3. chain[i] # chain[j]
        BY <1>4, <2>2
    <2> QED BY <1>1, <2>2, <2>3 DEF PlaceInv
<1> QED BY <1>3, <1>4 DEF AnchoredOnce

LEMMA AccountedFromInv == ASSUME IInv PROVE Accounted
<1>1. /\ Places(offered, buffer, ToSet(crossing), discarded, crashed, Batched)
      /\ \A m, n \in Batch : m # n => batches[m].events \cap batches[n].events = {}
      /\ discarded # {} => raced
    BY DEF IInv, IngestInv, PlaceInv, RaceInv
<1>2. ASSUME NEW e \in offered
      PROVE  Cardinality({n \in Batch : e \in batches[n].events})
             + Cardinality({i \in 1 .. 4 : e \in
                   <<buffer, ToSet(crossing), discarded, crashed>>[i]}) = 1
    <2> DEFINE In == {n \in Batch : e \in batches[n].events}
               p == <<buffer, ToSet(crossing), discarded, crashed>>
               At == {i \in 1 .. 4 : e \in p[i]}
    <2>1. /\ p[1] = buffer /\ p[2] = ToSet(crossing) /\ p[3] = discarded
          /\ p[4] = crashed /\ 1 .. 4 = {1, 2, 3, 4}
        OBVIOUS
    <2>2. \/ In = {} /\ \E k \in 1 .. 4 : At = {k}
          \/ At = {} /\ \E k \in Batch : In = {k}
        <3>1. CASE e \in Batched
            <4>1. PICK k \in Batch : e \in batches[k].events
                BY <3>1 DEF Batched
            <4>2. In = {k}
                BY <1>1, <4>1
            <4>3. At = {}
                BY <1>1, <2>1, <3>1 DEF Places
            <4> QED BY <4>2, <4>3
        <3>2. CASE e \notin Batched
            <4>1. In = {}
                BY <3>2 DEF Batched
            <4> HIDE DEF p
            <4>2. CASE e \in buffer
                <5>1. At = {1}
                    BY <1>1, <2>1, <4>2 DEF Places
                <5> QED BY <4>1, <5>1
            <4>3. CASE e \in ToSet(crossing)
                <5>1. At = {2}
                    BY <1>1, <2>1, <4>3 DEF Places
                <5> QED BY <4>1, <5>1
            <4>4. CASE e \in discarded
                <5>1. At = {3}
                    BY <1>1, <2>1, <4>4 DEF Places
                <5> QED BY <4>1, <5>1
            <4>5. CASE e \in crashed
                <5>1. At = {4}
                    BY <1>1, <2>1, <4>5 DEF Places
                <5> QED BY <4>1, <5>1
            <4> QED BY <1>1, <3>2, <4>2, <4>3, <4>4, <4>5 DEF Places
        <3> QED BY <3>1, <3>2
    <2> HIDE DEF In, At
    <2>3. Cardinality(In) + Cardinality(At) = 1
        <3>1. Cardinality({}) = 0 /\ \A k : Cardinality({k}) = 1
            BY FS_EmptySet, FS_Singleton
        <3>2. \/ Cardinality(In) = 0 /\ Cardinality(At) = 1
              \/ Cardinality(In) = 1 /\ Cardinality(At) = 0
            BY <2>2, <3>1
        <3> QED BY <3>2
    <2> QED BY <2>3 DEF In, At
<1> QED BY <1>1, <1>2 DEF Accounted

LEMMA HeldFromInv == ASSUME IInv PROVE RequestHeld
<1>1. \A n \in Line : n = current \/ (n \in ToSet(queue) /\ current # None)
    BY EmptyToSet DEF IInv, LineInv, Line
<1> QED BY <1>1 DEF IInv, HeldInv, RequestHeld

-----------------------------------------------------------------------------
(* Theorems *)

\* The variables of the pipeline, the relayer and the contract keep their types
\* for every number of events, retries, faults and restarts; in particular no
\* request is sent more than maxRetries times and the contract's ids stay within
\* the batches that were cut (relayer.ts handleFailure, EventAnchor.sol).
THEOREM PipelineTyped == Spec => []TypeOK
<1>1. ASSUME IInv PROVE TypeOK
    BY <1>1, TypeParts DEF IInv, IngestInv
<1> QED BY <1>1, IInvHolds, PTL

\* A trace or a report says confirmed only of a batch the contract holds under
\* that batch's own id (settleTrace, processQueue, EventAnchor.anchor).
THEOREM ConfirmationsTrue == Spec => []ConfirmedIsAnchored
<1>1. ASSUME IInv PROVE ConfirmedIsAnchored
    BY <1>1 DEF IInv
<1> QED BY <1>1, IInvHolds, PTL

\* The chain holds no event twice and has no gap, whatever was retried, resent or
\* renumbered after a restart (EventAnchor.anchor, handleFailure).
THEOREM ChainOnce == Spec => []AnchoredOnce
BY OnceFromInv, IInvHolds, PTL

\* Every event offered is in one place, and initializeWindow throws one away only
\* when an ingest ran while another awaited its flush (ingestEvent).
THEOREM EventsAccounted == Spec => []Accounted
BY AccountedFromInv, IInvHolds, PTL

\* A request accepted and not settled is being tried, on its timer, or in a queue
\* that is being worked (processQueue, handleFailure).
THEOREM RequestsHeld == Spec => []RequestHeld
BY HeldFromInv, IInvHolds, PTL

=============================================================================
