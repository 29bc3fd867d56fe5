--------------------------- MODULE AnchorPipeline ---------------------------
(***************************************************************************)
(* From event to chain: EventIntegrityPipeline (server/integrity/          *)
(* pipeline.ts) cuts events into batches, AnchorPipeline                   *)
(* (anchor-pipeline.ts) numbers, signs and submits each batch and keeps a  *)
(* trace of its outcome, AnchorRelayerService (relayer.ts) sends one       *)
(* transaction at a time with retries, and the EventAnchor contract        *)
(* (contracts/EventAnchor.sol) accepts batch ids in sequence.              *)
(*                                                                         *)
(* Signing, the RPC endpoint and the chain are asynchronous.  A failure    *)
(* reported after a transaction was sent does not recall it.  A process    *)
(* that restarts numbers its batches from 1 again; the contract does not.  *)
(***************************************************************************)
EXTENDS Integers, Sequences, FiniteSets, SequencesExt

CONSTANTS
    Event,        \* events offered, each once
    Time,         \* their timestamps
    WindowSize,   \* config.windowSizeMs
    MaxBatchSize, \* config.maxBatchSize
    MaxRetries,   \* relayer config.maxRetries
    MaxFaults,    \* bound: failures of the signer and the RPC endpoint
    MaxRestarts   \* bound: process restarts

ASSUME AnchorAssumption ==
    /\ IsFiniteSet(Event) /\ Time \in [Event -> Nat \ {0}]
    /\ WindowSize \in Nat \ {0} /\ MaxBatchSize \in Nat \ {0}
    /\ MaxRetries \in Nat \ {0} /\ MaxFaults \in Nat /\ MaxRestarts \in Nat

VARIABLES
    offered,     \* events passed to ingestEvent
    windowStart, \* currentWindowStart, 0 before the first event
    buffer,      \* currentBatch
    crossing,    \* ingest calls awaiting the flush of the window they leave
    batches,     \* every batch cut: its events, its batchId and its process
    signing,     \* batches awaiting signMerkleRoot
    queue,       \* the relayer's queue
    current,     \* the request processQueue is submitting, or None
    sent,        \* its transaction was sent and its receipt is awaited
    backoff,     \* requests whose retry timer runs
    retries,     \* retryCount of each batch
    trace,       \* pendingTraces and the outcome each trace was closed with
    settled,     \* anchorSuccess or anchorFailed, once the relayer reported it
    running,     \* "yes", "stopping" (stop() awaits the relayer), "no"
    mempool,     \* transactions sent and not yet mined
    mined,       \* transactions by result
    chain,       \* anchors: the batch stored under each id
    nextBatchId,
    process,     \* number of this process
    faults,
    discarded,   \* history: events initializeWindow threw away
    raced,       \* history: an ingest ran while another one was crossing
    crashed      \* history: events in no batch when the process ended

ingestVars == <<offered, windowStart, buffer, crossing>>
relayVars == <<queue, current, sent, backoff, retries>>
chainVars == <<mempool, mined, chain, nextBatchId>>
historyVars == <<discarded, raced, crashed>>
vars == <<ingestVars, batches, signing, relayVars, trace, settled, running,
          chainVars, process, faults, historyVars>>

None == 0
MaxBatches == Cardinality(Event)
Batch == 1 .. Len(batches)

Init ==
    /\ offered = {} /\ windowStart = 0 /\ buffer = {} /\ crossing = <<>>
    /\ batches = <<>> /\ signing = {}
    /\ queue = <<>> /\ current = None /\ sent = FALSE /\ backoff = {}
    /\ retries = [n \in 1 .. MaxBatches |-> 0]
    /\ trace = [n \in 1 .. MaxBatches |-> "none"]
    /\ settled = [n \in 1 .. MaxBatches |-> "none"]
    /\ running = "yes"
    /\ mempool = <<>> /\ mined = [ok |-> {}, reverted |-> {}]
    /\ chain = [i \in 1 .. MaxBatches |-> None] /\ nextBatchId = 1
    /\ process = 1 /\ faults = 0
    /\ discarded = {} /\ raced = FALSE /\ crashed = {}

-----------------------------------------------------------------------------
(* Batching: pipeline.ts *)

\* anchorBatch claims the batch id synchronously, from this process's counter.
NextId == 1 + Cardinality({n \in Batch : batches[n].process = process})

\* Mutant of Flush: the batch is emitted and the buffer kept until later.
FlushKeeps(b) ==
    \/ b = {} /\ buffer' = b /\ UNCHANGED <<batches, signing>>
    \/ /\ b # {} /\ buffer' = b
       /\ batches' = Append(batches, [events |-> b, id |-> NextId,
                                      process |-> process])
       /\ signing' = signing \cup {Len(batches')}

\* flushCurrentBatch of a buffer b: batch-created starts anchorBatch, which
\* runs to its first await.
Flush(b) ==
    \/ b = {} /\ buffer' = b /\ UNCHANGED <<batches, signing>>
    \/ /\ b # {} /\ buffer' = {}
       /\ batches' = Append(batches, [events |-> b, id |-> NextId,
                                      process |-> process])
       /\ signing' = signing \cup {Len(batches')}

\* Mutant of Push: the buffer is flushed one event late.
PushLate(b, e) ==
    \/ Cardinality(b \cup {e}) > MaxBatchSize /\ Flush(b \cup {e})
    \/ /\ Cardinality(b \cup {e}) <= MaxBatchSize
       /\ buffer' = b \cup {e} /\ UNCHANGED <<batches, signing>>

\* The end of ingestEvent: add the event; a full batch is flushed.
Push(b, e) ==
    \/ Cardinality(b \cup {e}) >= MaxBatchSize /\ Flush(b \cup {e})
    \/ /\ Cardinality(b \cup {e}) < MaxBatchSize
       /\ buffer' = b \cup {e} /\ UNCHANGED <<batches, signing>>

NewWindow(e) == windowStart # 0 /\ Time[e] >= windowStart + WindowSize

\* ingestEvent inside the window; the first event opens it.
Ingest(e) ==
    /\ running # "no" /\ e \notin offered /\ ~NewWindow(e)
    /\ offered' = offered \cup {e}
    /\ windowStart' = IF windowStart = 0 THEN Time[e] ELSE windowStart
    /\ Push(buffer, e)
    /\ raced' = (raced \/ crossing # <<>>)
    /\ UNCHANGED <<crossing, relayVars, trace, settled, running, chainVars,
                   process, faults, discarded, crashed>>

\* ingestEvent past the window: flush, and await.
IngestNewWindow(e) ==
    /\ running # "no" /\ e \notin offered /\ NewWindow(e)
    /\ offered' = offered \cup {e}
    /\ Flush(buffer)
    /\ crossing' = Append(crossing, e)
    /\ raced' = (raced \/ crossing # <<>>)
    /\ UNCHANGED <<windowStart, relayVars, trace, settled, running, chainVars,
                   process, faults, discarded, crashed>>

\* ... and after the await: initializeWindow empties the buffer, whatever it
\* holds by now.
CrossWindow ==
    /\ crossing # <<>>
    /\ windowStart' = Time[Head(crossing)]
    /\ discarded' = discarded \cup buffer
    /\ Push({}, Head(crossing))
    /\ crossing' = Tail(crossing)
    /\ UNCHANGED <<offered, relayVars, trace, settled, running, chainVars,
                   process, faults, raced, crashed>>

\* The flush timer.
FlushTimer ==
    /\ running = "yes" /\ buffer # {}
    /\ Flush(buffer)
    /\ UNCHANGED <<offered, windowStart, crossing, relayVars, trace, settled,
                   running, chainVars, process, faults, historyVars>>

-----------------------------------------------------------------------------
(* Signing and traces: anchor-pipeline.ts *)

Closed == {"confirmed", "failed", "unconfirmed", "lost"}
Pending(n) == trace[n] \in {"open", "armed"}

\* The relayer takes up the head of q, or stops processing.
ProcessQueue(q) ==
    /\ current' = IF q = <<>> THEN None ELSE Head(q)
    /\ queue' = IF q = <<>> THEN q ELSE Tail(q)
    /\ sent' = FALSE

\* Add to the queue; start processing unless it is under way.
Enqueue(q) ==
    \/ current = None /\ ProcessQueue(q)
    \/ current # None /\ queue' = q /\ UNCHANGED <<current, sent>>

\* The signature arrives: register the trace, submit as urgent.
SignDone(n) ==
    /\ n \in signing
    /\ signing' = signing \ {n}
    /\ trace' = [trace EXCEPT ![n] = "open"]
    /\ Enqueue(Append(queue, n))
    /\ UNCHANGED <<ingestVars, batches, backoff, retries, settled, running,
                   chainVars, process, faults, historyVars>>

\* The signer fails, or was cleaned up by stop(): anchorBatch rejects, and the
\* id it claimed is used by no request.
SignFails(n) ==
    /\ n \in signing /\ (faults < MaxFaults \/ running = "no")
    /\ signing' = signing \ {n}
    /\ faults' = IF running = "no" THEN faults ELSE faults + 1
    /\ UNCHANGED <<ingestVars, batches, relayVars, trace, settled, running,
                   chainVars, process, historyVars>>

\* submitAnchor returns: arm the trace, or close it with an outcome that came
\* first.
Arm(n) ==
    /\ trace[n] = "open"
    /\ trace' = [trace EXCEPT ![n] = IF settled[n] = "none" THEN "armed"
                                     ELSE settled[n]]
    /\ UNCHANGED <<ingestVars, batches, signing, relayVars, settled, running,
                   chainVars, process, faults, historyVars>>

\* anchorConfirmTimeoutMs passes.
TraceTimeout(n) ==
    /\ Pending(n)
    /\ trace' = [trace EXCEPT ![n] = "unconfirmed"]
    /\ UNCHANGED <<ingestVars, batches, signing, relayVars, settled, running,
                   chainVars, process, faults, historyVars>>

\* settleTrace for the outcome the relayer emits for n.
Settle(n, outcome) ==
    /\ settled' = [settled EXCEPT ![n] = outcome]
    /\ trace' = IF trace[n] = "armed" THEN [trace EXCEPT ![n] = outcome]
                ELSE trace

-----------------------------------------------------------------------------
(* The relayer: relayer.ts *)

Tx(n) == <<n, retries[n]>>
Id(n) == batches[n].id

\* submitToBlockchain up to the send: the gas estimate runs the contract call.
SendTx ==
    /\ current # None /\ ~sent /\ Id(current) = nextBatchId
    /\ mempool' = Append(mempool, Tx(current))
    /\ sent' = TRUE
    /\ UNCHANGED <<ingestVars, batches, signing, queue, current, backoff,
                   retries, trace, settled, running, mined, chain, nextBatchId,
                   process, faults, historyVars>>

\* handleFailure of the current request: give up, or start its retry timer.
HandleFailure(permanent) ==
    LET n == current IN
    /\ retries' = [retries EXCEPT ![n] = @ + 1]
    /\ \/ /\ permanent \/ retries'[n] >= MaxRetries
          /\ Settle(n, "failed") /\ UNCHANGED backoff
       \/ /\ ~permanent /\ retries'[n] < MaxRetries
          /\ backoff' = backoff \cup {n} /\ UNCHANGED <<trace, settled>>
    /\ ProcessQueue(queue)
    /\ UNCHANGED <<ingestVars, batches, signing, running, chainVars, process,
                   historyVars>>

\* The gas estimate reverts: the id is not the next one on chain.
Rejected ==
    /\ current # None /\ ~sent /\ Id(current) # nextBatchId
    /\ HandleFailure(FALSE) /\ UNCHANGED faults

\* The RPC endpoint fails, before the send or while a receipt is awaited.
RpcFails ==
    /\ current # None /\ faults < MaxFaults
    /\ faults' = faults + 1 /\ HandleFailure(FALSE)

\* verifySignature is false, or the verifier threw.
SignatureRejected ==
    /\ current # None /\ ~sent /\ faults < MaxFaults
    /\ faults' = faults + 1 /\ HandleFailure(TRUE)

\* Mutant of Reverted: a mined transaction counts as anchored, whatever its
\* status.
RevertedSucceeds ==
    /\ current # None /\ sent /\ Tx(current) \in mined.reverted
    /\ Settle(current, "confirmed") /\ ProcessQueue(queue)
    /\ UNCHANGED <<ingestVars, batches, signing, backoff, retries, running,
                   chainVars, process, faults, historyVars>>

\* tx.wait throws for a reverted transaction.
Reverted ==
    /\ current # None /\ sent /\ Tx(current) \in mined.reverted
    /\ HandleFailure(FALSE) /\ UNCHANGED faults

\* The receipt has its confirmations: anchorSuccess.
Confirmed ==
    /\ current # None /\ sent /\ Tx(current) \in mined.ok
    /\ Settle(current, "confirmed") /\ ProcessQueue(queue)
    /\ UNCHANGED <<ingestVars, batches, signing, backoff, retries, running,
                   chainVars, process, faults, historyVars>>

\* Mutant of RetryTimer: the request waits for someone else to start the queue.
RetryTimerIdle(n) ==
    /\ n \in backoff
    /\ backoff' = backoff \ {n}
    /\ queue' = <<n>> \o queue
    /\ UNCHANGED <<ingestVars, batches, signing, current, sent, retries, trace,
                   settled, running, chainVars, process, faults, historyVars>>

\* The retry timer of a request: to the front of the queue.
RetryTimer(n) ==
    /\ n \in backoff
    /\ backoff' = backoff \ {n}
    /\ Enqueue(<<n>> \o queue)
    /\ UNCHANGED <<ingestVars, batches, signing, retries, trace, settled,
                   running, chainVars, process, faults, historyVars>>

-----------------------------------------------------------------------------
(* The contract, the end of the process and the next one *)

\* Mutant of Anchor: only ids already behind are refused.
AnchorLoose(tx) ==
    LET n == tx[1] IN
    IF Id(n) <= nextBatchId
    THEN /\ chain' = [chain EXCEPT ![nextBatchId] = n]
         /\ nextBatchId' = nextBatchId + 1
         /\ mined' = [mined EXCEPT !.ok = @ \cup {tx}]
    ELSE /\ mined' = [mined EXCEPT !.reverted = @ \cup {tx}]
         /\ UNCHANGED <<chain, nextBatchId>>

\* EventAnchor.anchor.
Anchor(tx) ==
    LET n == tx[1] IN
    IF Id(n) = nextBatchId
    THEN /\ chain' = [chain EXCEPT ![nextBatchId] = n]
         /\ nextBatchId' = nextBatchId + 1
         /\ mined' = [mined EXCEPT !.ok = @ \cup {tx}]
    ELSE /\ mined' = [mined EXCEPT !.reverted = @ \cup {tx}]
         /\ UNCHANGED <<chain, nextBatchId>>

\* Transactions of one account are mined in nonce order.
Mine ==
    /\ mempool # <<>>
    /\ Anchor(Head(mempool))
    /\ mempool' = Tail(mempool)
    /\ UNCHANGED <<ingestVars, batches, signing, relayVars, trace, settled,
                   running, process, faults, historyVars>>

\* stop(): the flush timer ends, the buffer is flushed ...
Stop ==
    /\ running = "yes"
    /\ Flush(buffer)
    /\ running' = "stopping"
    /\ UNCHANGED <<offered, windowStart, crossing, relayVars, trace, settled,
                   chainVars, process, faults, historyVars>>

\* ... and once the relayer is idle every trace still open is closed.
Stopped ==
    /\ running = "stopping" /\ current = None
    /\ running' = "no"
    /\ trace' = [n \in DOMAIN trace |-> IF Pending(n) THEN "unconfirmed"
                                        ELSE trace[n]]
    /\ UNCHANGED <<ingestVars, batches, signing, relayVars, settled, chainVars,
                   process, faults, historyVars>>

\* The process ends, after stop() or not, and a new one starts.
Restart ==
    /\ process <= MaxRestarts
    /\ process' = process + 1
    /\ windowStart' = 0 /\ buffer' = {} /\ crossing' = <<>>
    /\ crashed' = crashed \cup buffer \cup ToSet(crossing)
    /\ signing' = {} /\ queue' = <<>> /\ current' = None /\ sent' = FALSE
    /\ backoff' = {}
    /\ trace' = [n \in DOMAIN trace |-> IF Pending(n) THEN "lost" ELSE trace[n]]
    /\ running' = "yes"
    /\ UNCHANGED <<offered, batches, retries, settled, chainVars, faults,
                   discarded, raced>>

-----------------------------------------------------------------------------
Next ==
    \/ \E e \in Event : Ingest(e) \/ IngestNewWindow(e)
    \/ CrossWindow \/ FlushTimer
    \/ \E n \in Batch : SignDone(n) \/ SignFails(n) \/ Arm(n) \/ TraceTimeout(n)
    \/ SendTx \/ Rejected \/ Reverted \/ Confirmed
    \/ RpcFails \/ SignatureRejected
    \/ \E n \in Batch : RetryTimer(n)
    \/ Mine \/ Stop \/ Stopped \/ Restart

Spec == Init /\ [][Next]_vars

-----------------------------------------------------------------------------
(* Properties *)

\* Every variable keeps its type: a queue holds batches that were cut, and a
\* transaction the batch and the attempt it was sent for (the fields declared
\* in pipeline.ts, anchor-pipeline.ts, relayer.ts and EventAnchor.sol).
TypeOK ==
    /\ offered \subseteq Event /\ windowStart \in {0} \cup Nat
    /\ buffer \subseteq offered /\ crossing \in Seq(offered)
    /\ Cardinality(buffer) < MaxBatchSize
    /\ Len(batches) <= MaxBatches
    /\ batches \in Seq([events : (SUBSET offered) \ {{}}, id : 1 .. MaxBatches,
                        process : 1 .. process])
    /\ signing \subseteq Batch /\ backoff \subseteq Batch
    /\ queue \in Seq(Batch) /\ current \in {None} \cup Batch
    /\ sent \in BOOLEAN
    /\ retries \in [1 .. MaxBatches -> 0 .. MaxRetries]
    /\ trace \in [1 .. MaxBatches -> {"none", "open", "armed"} \cup Closed]
    /\ settled \in [1 .. MaxBatches -> {"none", "confirmed", "failed"}]
    /\ running \in {"yes", "stopping", "no"}
    /\ mempool \in Seq(Batch \X (0 .. MaxRetries - 1))
    /\ mined \in [ok : SUBSET (Batch \X (0 .. MaxRetries - 1)),
                  reverted : SUBSET (Batch \X (0 .. MaxRetries - 1))]
    /\ chain \in [1 .. MaxBatches -> {None} \cup Batch]
    /\ nextBatchId \in 1 .. (MaxBatches + 1)
    /\ process \in 1 .. (MaxRestarts + 1) /\ faults \in 0 .. MaxFaults
    /\ discarded \subseteq offered /\ raced \in BOOLEAN
    /\ crashed \subseteq offered

\* A trace closed as confirmed tells the truth: the contract holds this very
\* batch under its id, not one that an earlier process anchored there, and a
\* batch the chain never took is never reported (settleTrace; processQueue's
\* anchorSuccess; the sequence check in EventAnchor.sol).
ConfirmedIsAnchored ==
    \A n \in Batch : "confirmed" \in {trace[n], settled[n]} =>
        chain[Id(n)] = n

\* Whatever was retried, resent after a lost answer or renumbered after a
\* restart, the chain holds no event twice and its ids have no gap
\* (EventAnchor.anchor, relayer.ts handleFailure).
AnchoredOnce ==
    /\ \A i \in 1 .. MaxBatches : chain[i] # None <=> i < nextBatchId
    /\ \A i, j \in 1 .. (nextBatchId - 1) : i # j =>
           batches[chain[i]].events \cap batches[chain[j]].events = {}

\* All events are captured (ADR-0021): while the process lives, one passed to
\* ingestEvent is in a batch, or in the buffer or a call that will put it in one.
\* ingestEvent does not keep this promise: initializeWindow empties the buffer
\* after the await, with what other calls added to it meanwhile.
NoEventDropped ==
    offered \ crashed \subseteq
        buffer \cup ToSet(crossing) \cup UNION {batches[n].events : n \in Batch}

\* What does hold: no event is batched twice or is in two places, and only the
\* race NoEventDropped shows, an ingest that runs while another awaits the flush
\* of its window, makes initializeWindow throw one away.  Without that race
\* every event is in one batch, awaits one, or was lost with its process
\* (pipeline.ts ingestEvent, flushCurrentBatch).
Accounted ==
    LET Holding(e) ==
            Cardinality({n \in Batch : e \in batches[n].events})
            + Cardinality({i \in 1 .. 4 : e \in
                  <<buffer, ToSet(crossing), discarded, crashed>>[i]})
    IN  /\ \A e \in offered : Holding(e) = 1
        /\ discarded # {} => raced

\* No request is forgotten between queue, attempt and retry timer: one the
\* relayer accepted and has not settled is being tried, has its timer running,
\* or is in a queue that is being worked; so an idle relayer owes nothing but
\* retries, and stop() returns (processQueue, handleFailure, shutdown).
RequestHeld ==
    \A n \in Batch :
        /\ batches[n].process = process /\ trace[n] # "none"
        /\ settled[n] = "none"
        => \/ n \in backoff \cup {current}
           \/ n \in ToSet(queue) /\ current # None

=============================================================================
