---------------------------- MODULE LedgerAdapter ----------------------------
(***************************************************************************)
(* The ledger adapter: it reads signed actions from one Kafka partition,   *)
(* sends them to the contracts in transactions of one signer, waits for    *)
(* the receipts, writes the outcome of every action to onchain_events and  *)
(* commits offsets.                                                        *)
(*                                                                         *)
(* Actors, each of which runs concurrently with the others:                *)
(*   the consumer loop  - fetch, batch, Send (filter, chunk, broadcast,    *)
(*                        MarkSent) and Submit to the pipeline;            *)
(*   the collector      - confirms the oldest batch, commits its offsets;  *)
(*   the reconciler     - settles rows by the receipt of their tx;         *)
(*   the chain          - mines the signer's transactions in nonce order;  *)
(*   the environment    - crashes, failing calls, evicted transactions.    *)
(* What is persistent: the log, the committed offset, onchain_events, the  *)
(* dead letter topic and the chain. The rest is lost in a restart.         *)
(*                                                                         *)
(* A message is a position of the log, an event is the action it carries   *)
(* (event_id = actionId); Debezium may publish an event twice. What the    *)
(* contracts decide about an action is left open here: SignedLedger says   *)
(* which outcome it is.                                                    *)
(***************************************************************************)
EXTENDS Integers, Sequences, FiniteSets, Functions

CONSTANTS
    Events,       \* action ids
    Bad,          \* a message Parse refuses
    Logs,         \* the logs to consider: sequences of events and Bad
    KeyEvents,    \* the events that are key actions; the others are warehouse actions
    Unpackable,   \* events that do not pack, or exceed the calldata limit alone
    Configured,   \* the kinds of action whose contract address is configured
    Outcomes,     \* what the contracts may decide, of AllOutcomes
    BatchSize,    \* BATCH_SIZE
    MaxChunk,     \* actions that fit the calldata limit of a transaction
    Window,       \* PIPELINE_WINDOW
    MaxTx,        \* bound on the transactions ever broadcast
    MaxCrashes,   \* bound on process crashes
    MaxFaults,    \* bound on failing calls (store, RPC, DLQ) and reverting transactions
    MaxDrops      \* bound on transactions evicted from the mempool

\* ActionApplied; ActionRejected that spends the id; ActionRejected that does not
\* (the signer could not be verified).
AllOutcomes == {"applied", "rejected", "signer"}

Txs == 1..MaxTx
NoTx == 0

ASSUME AdapterAssumption ==
    /\ Bad \notin Events
    /\ Logs \subseteq Seq(Events \union {Bad})
    /\ KeyEvents \subseteq Events
    /\ Unpackable \subseteq Events
    /\ Configured \subseteq {"warehouse", "key"}
    /\ Outcomes \subseteq AllOutcomes
    /\ BatchSize \in Nat \ {0}
    /\ MaxChunk \in Nat \ {0}
    /\ Window \in Nat \ {0}
    /\ MaxTx \in Nat
    /\ MaxCrashes \in Nat
    /\ MaxFaults \in Nat
    /\ MaxDrops \in Nat

VARIABLES
    log,         \* the partition, published before the consumer gets to it
    committed,   \* messages committed for the consumer group
    row,         \* onchain_events: event -> [status, tx, rejected]
    dlqEvents,   \* events published to the dead letter topic
    dlqBad,      \* messages Parse refused that were published there
    fetched,     \* messages the reader handed out since the process started
    batcher,     \* Batcher.msgs
    pc,          \* where the consumer loop stands
    batch,       \* the drained messages Send works on
    rest,        \* the later segments of batch
    segment,     \* messages of the current segment still to be filtered
    seen,        \* events of the current segment already met
    pending,     \* messages of the current segment still to be sent
    inflight,    \* transactions of this Send
    badMsg,      \* the message onParseFailure works on, 0 if none
    pipe,        \* batches submitted and not committed, oldest first
    confirmed,   \* transactions of the oldest batch that Confirm has settled
    collector,   \* "running", or "stopped" after an error of confirmAndCommit
    sweep,       \* the reconciler's list: transaction -> events still to be settled by it
    nonce,       \* the client's next nonce, 0 before it is seeded
    ntx,         \* transactions broadcast so far
    tx,          \* transaction -> [nonce, events, state]
    receipt,     \* transaction -> event -> its log in the receipt, "none" if it has none
    chainNonce,  \* the next nonce the chain accepts from the signer
    chainState,  \* event -> actionState of the contract it was sent to
    crashes, faults, drops

storeVars == <<log, row, dlqEvents, dlqBad>>
sendVars == <<batch, rest, segment, seen, pending, inflight>>
loopVars == <<fetched, batcher, pc, badMsg>>
pipeVars == <<committed, pipe, confirmed, collector>>
chainVars == <<ntx, tx, receipt, chainNonce, chainState>>
boundVars == <<crashes, faults, drops>>
vars == <<storeVars, sendVars, loopVars, pipeVars, sweep, nonce, chainVars,
          boundVars>>

Statuses == {"NONE", "PENDING", "SENT", "COMMITTED", "FAILED"}
Rows == [status : Statuses, tx : {NoTx} \union Txs, rejected : BOOLEAN]
NoRow == [status |-> "NONE", tx |-> NoTx, rejected |-> FALSE]

TxStates == {"none", "pool", "dropped", "ok", "reverted"}
NoTransaction == [nonce |-> 0, events |-> <<>>, state |-> "none"]

EventsOf(msgs) == {log[msgs[i]] : i \in DOMAIN msgs}

Init ==
    /\ log \in Logs
    /\ committed = 0
    /\ row = [e \in Events |-> NoRow]
    /\ dlqEvents = {} /\ dlqBad = {}
    /\ fetched = 0 /\ batcher = <<>> /\ pc = "poll" /\ badMsg = 0
    /\ batch = <<>> /\ rest = <<>> /\ segment = <<>> /\ seen = {}
    /\ pending = <<>> /\ inflight = <<>>
    /\ pipe = <<>> /\ confirmed = {} /\ collector = "running"
    /\ sweep = [t \in Txs |-> {}]
    /\ nonce = 0 /\ ntx = 0
    /\ tx = [t \in Txs |-> NoTransaction]
    /\ receipt = [t \in Txs |-> [e \in Events |-> "none"]]
    /\ chainNonce = 1
    /\ chainState = [e \in Events |-> "None"]
    /\ crashes = 0 /\ faults = 0 /\ drops = 0

\* A call fails: one unit of the fault budget.
Fault == faults < MaxFaults /\ faults' = faults + 1 /\ UNCHANGED <<crashes, drops>>
NoFault == UNCHANGED boundVars

-----------------------------------------------------------------------------
(* onchain_events *)

\* One row of each update. All but MarkCommitted leave a COMMITTED row alone, and an empty
\* transaction hash keeps the stored one.
Sent(r, t) == IF r.status = "COMMITTED" THEN r ELSE [r EXCEPT !.status = "SENT", !.tx = t]

Failed(r, t) ==
    IF r.status = "COMMITTED" THEN r
    ELSE [r EXCEPT !.status = "FAILED", !.tx = IF t = NoTx THEN @ ELSE t]

Rejected(r, t) == IF r.status = "COMMITTED" THEN r ELSE [Failed(r, t) EXCEPT !.rejected = TRUE]

Committed(r) == [r EXCEPT !.status = "COMMITTED"]

MarkSent(ids, t) == [e \in Events |-> IF e \in ids THEN Sent(row[e], t) ELSE row[e]]

MarkFailed(ids, t) == [e \in Events |-> IF e \in ids THEN Failed(row[e], t) ELSE row[e]]

\* The log of an event in the receipt of a transaction, "none" when it has none.
LogOutcome(t, e) == receipt[t][e]

\* What the contract's actionState says of an event.
StateOutcome(e) ==
    CASE chainState[e] = "Applied" -> "applied"
      [] chainState[e] = "Rejected" -> "rejected"
      [] OTHER -> "unknown"

\* Seeded fault: an action without a log in the receipt counts as rejected.
OutcomeLogOnly(t, e) == IF LogOutcome(t, e) # "none" THEN LogOutcome(t, e) ELSE "rejected"

\* Seeded fault: the state of the contract is not asked.
OutcomeNoState(t, e) == IF LogOutcome(t, e) # "none" THEN LogOutcome(t, e) ELSE "unknown"

\* resolveActionOutcomes: the log, or else the state of the contract.
Outcome(t, e) == IF LogOutcome(t, e) # "none" THEN LogOutcome(t, e) ELSE StateOutcome(e)

\* Seeded fault: a successful receipt commits every action of it.
ApplyOutcomesAll(ids, t) ==
    [e \in Events |-> IF e \in ids THEN Committed(row[e]) ELSE row[e]]

\* applyActionOutcomes: MarkCommitted for the applied ids, MarkRejected for the others.
ApplyOutcomes(ids, t) ==
    [e \in Events |->
        IF e \notin ids THEN row[e]
        ELSE IF Outcome(t, e) = "applied" THEN Committed(row[e])
        ELSE Rejected(row[e], t)]

\* The store fails between MarkCommitted and MarkRejected.
ApplyOutcomesPartly(ids, t) ==
    ApplyOutcomes({e \in ids : Outcome(t, e) = "applied"}, t)

Resolvable(ids, t) == \A e \in ids : Outcome(t, e) # "unknown"

-----------------------------------------------------------------------------
(* The consumer loop: segments and the end of a Send *)

Kind(p) == IF log[p] \in KeyEvents THEN "key" ELSE "warehouse"

\* The longest prefix of one kind (splitSegments).
SegmentLength(msgs) ==
    CHOOSE n \in 1..Len(msgs) :
        /\ \A i \in 1..n : Kind(msgs[i]) = Kind(msgs[1])
        /\ n < Len(msgs) => Kind(msgs[n + 1]) # Kind(msgs[1])

\* Continue Send with the segments in msgs, or hand the batch over when there is none.
BeginSegment(msgs) ==
    /\ seen' = {}
    /\ pending' = <<>>
    /\ IF msgs = <<>>
       THEN pc' = "submit" /\ segment' = <<>> /\ rest' = <<>>
       ELSE LET n == SegmentLength(msgs)
            IN  /\ pc' = "filter"
                /\ segment' = SubSeq(msgs, 1, n)
                /\ rest' = SubSeq(msgs, n + 1, Len(msgs))

\* Drain and call Send.
DrainSend(msgs) ==
    /\ batcher' = <<>>
    /\ batch' = msgs
    /\ inflight' = <<>>
    /\ BeginSegment(msgs)

\* The batch and the state of its Send are gone: submitted or given back to the batcher.
EndSend ==
    /\ batch' = <<>> /\ rest' = <<>> /\ segment' = <<>> /\ seen' = {}
    /\ pending' = <<>> /\ inflight' = <<>>
    /\ pc' = IF badMsg = 0 THEN "poll" ELSE "dlq"

\* Seeded fault: the drained batch is not given back.
UnshiftForgets ==
    /\ EndSend
    /\ UNCHANGED <<batcher, fetched, badMsg, pipeVars, sweep>>

\* Send returned an error: the whole batch goes back in front of the batcher, and
\* drainSendSubmit reports success.
Unshift ==
    /\ batcher' = batch \o batcher
    /\ EndSend
    /\ UNCHANGED <<fetched, badMsg, pipeVars, sweep>>

\* A new process: only the stores, the topics and the chain survive.
Restart ==
    /\ fetched' = committed
    /\ batcher' = <<>> /\ pc' = "poll" /\ badMsg' = 0
    /\ batch' = <<>> /\ rest' = <<>> /\ segment' = <<>> /\ seen' = {}
    /\ pending' = <<>> /\ inflight' = <<>>
    /\ pipe' = <<>> /\ confirmed' = {} /\ collector' = "running"
    /\ sweep' = [t \in Txs |-> {}]
    /\ nonce' = 0
    /\ UNCHANGED <<storeVars, committed, chainVars>>

-----------------------------------------------------------------------------
(* The consumer loop: fetching *)

NextMsg == fetched + 1

Parses(p) == log[p] # Bad

ShouldFlush(msgs) == Len(msgs) >= BatchSize

\* onMessage: add, and flush when the batch is full or its first message is old enough.
FetchMessage ==
    /\ pc = "poll" /\ fetched < Len(log) /\ Parses(NextMsg)
    /\ fetched' = NextMsg
    /\ LET msgs == Append(batcher, NextMsg)
       IN  \/ /\ ~ShouldFlush(msgs)
              /\ batcher' = msgs
              /\ UNCHANGED <<pc, sendVars>>
           \/ DrainSend(msgs)
    /\ NoFault
    /\ UNCHANGED <<storeVars, badMsg, pipeVars, sweep, nonce, chainVars>>

\* Seeded fault: what is batched stays there.
FetchBadFirst ==
    /\ pc = "poll" /\ fetched < Len(log) /\ ~Parses(NextMsg)
    /\ fetched' = NextMsg
    /\ badMsg' = NextMsg
    /\ pc' = "dlq"
    /\ NoFault
    /\ UNCHANGED <<storeVars, batcher, sendVars, pipeVars, sweep, nonce, chainVars>>

\* onParseFailure: what is batched is sent and submitted first.
FetchBad ==
    /\ pc = "poll" /\ fetched < Len(log) /\ ~Parses(NextMsg)
    /\ fetched' = NextMsg
    /\ badMsg' = NextMsg
    /\ IF batcher = <<>> THEN pc' = "dlq" /\ UNCHANGED <<batcher, sendVars>>
                         ELSE DrainSend(batcher)
    /\ NoFault
    /\ UNCHANGED <<storeVars, pipeVars, sweep, nonce, chainVars>>

\* The ticker finds the batch old enough.
Tick ==
    /\ pc = "poll" /\ batcher # <<>>
    /\ DrainSend(batcher)
    /\ NoFault
    /\ UNCHANGED <<storeVars, fetched, badMsg, pipeVars, sweep, nonce, chainVars>>

-----------------------------------------------------------------------------
(* The consumer loop: filterAndMarkPending, one message at a time *)

Current == log[segment[1]]

Filtering ==
    /\ pc = "filter" /\ segment # <<>>
    /\ segment' = Tail(segment)
    /\ seen' = seen \union {Current}
    /\ NoFault
    /\ UNCHANGED <<log, dlqEvents, dlqBad, batch, rest, inflight, loopVars, pipeVars, sweep,
                   nonce, chainVars>>

FilterDuplicate ==
    /\ Filtering /\ Current \in seen
    /\ UNCHANGED <<row, pending>>

\* Seeded fault: an event that was broadcast and is not settled is sent again.
FilterPendingResubmits ==
    /\ Filtering /\ Current \notin seen
    /\ row[Current].status \in {"NONE", "PENDING", "SENT"}
    /\ row' = [row EXCEPT ![Current].status = "PENDING"]
    /\ pending' = Append(pending, segment[1])

\* An unknown event gets its PENDING row; a PENDING row without transaction is sent again.
FilterPending ==
    /\ Filtering /\ Current \notin seen
    /\ row[Current].status \in {"NONE", "PENDING"} /\ row[Current].tx = NoTx
    /\ row' = [row EXCEPT ![Current].status = "PENDING"]
    /\ pending' = Append(pending, segment[1])

FilterSkip ==
    /\ Filtering /\ Current \notin seen
    /\ \/ row[Current].status = "COMMITTED"
       \/ row[Current].status = "FAILED" /\ row[Current].tx = NoTx
    /\ UNCHANGED <<row, pending>>

\* The event was broadcast before: look at the receipt of its transaction once, and leave
\* the event to the reconciler if there is none.
FilterReconcile ==
    /\ Filtering /\ Current \notin seen
    /\ row[Current].status # "COMMITTED" /\ row[Current].tx # NoTx
    /\ LET t == row[Current].tx
       IN  CASE tx[t].state = "ok" -> /\ Resolvable({Current}, t)
                                      /\ row' = ApplyOutcomes({Current}, t)
             [] tx[t].state = "reverted" -> row' = MarkFailed({Current}, t)
             [] OTHER -> UNCHANGED row
    /\ UNCHANGED pending

\* A call of the store or the receipt lookup failed, or no contract knows the event.
FilterError ==
    /\ pc = "filter" /\ segment # <<>>
    /\ \/ Fault
       \/ /\ Current \notin seen
          /\ row[Current].status # "COMMITTED" /\ row[Current].tx # NoTx
          /\ tx[row[Current].tx].state = "ok" /\ ~Resolvable({Current}, row[Current].tx)
          /\ NoFault
    /\ Unshift
    /\ UNCHANGED <<storeVars, nonce, chainVars>>

FilterDone ==
    /\ pc = "filter" /\ segment = <<>>
    /\ IF pending = <<>> THEN BeginSegment(rest)
                         ELSE pc' = "send" /\ UNCHANGED <<rest, segment, seen, pending>>
    /\ NoFault
    /\ UNCHANGED <<storeVars, batch, inflight, batcher, fetched, badMsg, pipeVars, sweep, nonce,
                   chainVars>>

-----------------------------------------------------------------------------
(* The consumer loop: sendActions, one chunk at a time *)

\* maxActionChunk: the longest prefix that packs and fits the calldata limit, at least one.
ChunkLength ==
    LET packs(n) == n <= MaxChunk /\ \A i \in 1..n : log[pending[i]] \notin Unpackable
    IN  CHOOSE n \in 1..Len(pending) :
            /\ n = 1 \/ packs(n)
            /\ n = Len(pending) \/ ~packs(n + 1)

Sendable == Kind(pending[1]) \in Configured /\ log[pending[1]] \notin Unpackable

\* How many messages one recordFailure of sendActions is about: all of the segment when
\* the contract is not configured, an action that does not pack, or a chunk.
FailureLength ==
    IF Kind(pending[1]) \notin Configured THEN Len(pending)
    ELSE IF log[pending[1]] \in Unpackable THEN 1
    ELSE ChunkLength

Prefix(n) == SubSeq(pending, 1, n)

\* The first n pending messages are dealt with.
AfterPrefix(n) ==
    IF n = Len(pending) THEN BeginSegment(rest)
    ELSE /\ pc' = "send"
         /\ pending' = SubSeq(pending, n + 1, Len(pending))
         /\ UNCHANGED <<rest, segment, seen>>

PoolAt(n) == {t \in Txs : tx[t].state = "pool" /\ tx[t].nonce = n}

\* Seeded fault: the nonce of the latest block, without the pool.
PendingNonceLatest == chainNonce

\* PendingNonceAt: the first nonce the pool does not continue.
PendingNonce ==
    CHOOSE n \in chainNonce..(chainNonce + MaxTx) :
        PoolAt(n) = {} /\ \A m \in chainNonce..(n - 1) : PoolAt(m) # {}

SeededNonce == IF nonce = 0 THEN PendingNonce ELSE nonce

\* recordFailure: the dead letter first, the row second. It is reached without a fault
\* for an action that cannot be sent, and with one when the gas estimate reverts or the
\* signer refuses a chunk.
SendFailed ==
    /\ pc = "send"
    /\ IF Sendable THEN Fault /\ nonce' = SeededNonce ELSE NoFault /\ UNCHANGED nonce
    /\ dlqEvents' = dlqEvents \union EventsOf(Prefix(FailureLength))
    /\ row' = MarkFailed(EventsOf(Prefix(FailureLength)), NoTx)
    /\ AfterPrefix(FailureLength)
    /\ UNCHANGED <<log, dlqBad, batch, inflight, fetched, batcher, badMsg, pipeVars, sweep,
                   chainVars>>

\* Seeded fault: the row is written first, and the dead letter fails.
RecordFailureErrorRowFirst ==
    /\ pc = "send"
    /\ Fault
    /\ row' = MarkFailed(EventsOf(Prefix(FailureLength)), NoTx)
    /\ UNCHANGED nonce
    /\ Unshift
    /\ UNCHANGED <<log, dlqEvents, dlqBad, chainVars>>

\* One of the two writes of that recordFailure fails.
RecordFailureError ==
    /\ pc = "send"
    /\ Fault
    /\ dlqEvents' \in {dlqEvents, dlqEvents \union EventsOf(Prefix(FailureLength))}
    /\ nonce' \in {nonce, SeededNonce}
    /\ Unshift
    /\ UNCHANGED <<log, row, dlqBad, chainVars>>

\* The signed transaction of the next chunk reaches the pool, in place of those in replaced.
Broadcast(replaced) ==
    /\ ntx < MaxTx
    /\ ntx' = ntx + 1
    /\ tx' = [t \in Txs |->
                IF t = ntx + 1
                THEN [nonce |-> SeededNonce, state |-> "pool",
                      events |-> [i \in 1..ChunkLength |-> log[pending[i]]]]
                ELSE IF t \in replaced THEN [tx[t] EXCEPT !.state = "dropped"]
                ELSE tx[t]]
    /\ UNCHANGED <<receipt, chainNonce, chainState>>

\* SendTransaction succeeds; a transaction of the same nonce in the pool is replaced.
SendCalldata ==
    /\ pc = "send" /\ Sendable
    /\ SeededNonce >= chainNonce
    /\ Broadcast(PoolAt(SeededNonce))
    /\ nonce' = SeededNonce + 1
    /\ pc' = "mark"
    /\ NoFault
    /\ UNCHANGED <<storeVars, sendVars, fetched, batcher, badMsg, pipeVars, sweep>>

\* SendTransaction reports an error although the transaction reached the pool.
SendLost ==
    /\ pc = "send" /\ Sendable
    /\ SeededNonce >= chainNonce /\ PoolAt(SeededNonce) = {}
    /\ Fault
    /\ Broadcast({})
    /\ nonce' = SeededNonce
    /\ Unshift
    /\ UNCHANGED storeVars

\* A transient error before the broadcast.
SendError ==
    /\ pc = "send" /\ Sendable
    /\ Fault
    /\ nonce' \in {nonce, SeededNonce}
    /\ Unshift
    /\ UNCHANGED <<storeVars, chainVars>>

\* The pool refuses the nonce: it was used (reseed, now or with the next send), or another
\* transaction has it and is not replaced (already known, underpriced).
SendRefused ==
    /\ pc = "send" /\ Sendable
    /\ \/ SeededNonce < chainNonce /\ nonce' \in {PendingNonce, 0}
       \/ SeededNonce >= chainNonce /\ PoolAt(SeededNonce) # {} /\ nonce' = SeededNonce
    /\ Unshift
    /\ NoFault
    /\ UNCHANGED <<storeVars, chainVars>>

\* MarkSent after the broadcast, and the transaction joins the inflight ones.
RecordSent ==
    /\ pc = "mark"
    /\ row' = MarkSent(Range(tx[ntx].events), ntx)
    /\ inflight' = Append(inflight, ntx)
    /\ AfterPrefix(Len(tx[ntx].events))
    /\ NoFault
    /\ UNCHANGED <<log, dlqEvents, dlqBad, batch, fetched, batcher, badMsg, pipeVars, sweep, nonce,
                   chainVars>>

RecordSentError ==
    /\ pc = "mark"
    /\ Fault
    /\ Unshift
    /\ UNCHANGED <<storeVars, nonce, chainVars>>

-----------------------------------------------------------------------------
(* The consumer loop: Submit and the dead letter of a message Parse refused *)

SubmitBatch(msgs, txs) ==
    /\ collector = "running" /\ Len(pipe) < Window
    /\ pipe' = Append(pipe, [msgs |-> msgs, txs |-> txs])
    /\ NoFault
    /\ UNCHANGED <<storeVars, committed, confirmed, collector, sweep, nonce, chainVars>>

\* Seeded fault: a batch without transactions is not submitted.
SubmitNonEmpty ==
    /\ pc = "submit"
    /\ IF inflight = <<>> THEN /\ UNCHANGED <<storeVars, pipeVars, sweep, nonce, chainVars>>
                               /\ NoFault
                          ELSE SubmitBatch(batch, inflight)
    /\ EndSend
    /\ UNCHANGED <<fetched, batcher, badMsg>>

Submit ==
    /\ pc = "submit"
    /\ SubmitBatch(batch, inflight)
    /\ EndSend
    /\ UNCHANGED <<fetched, batcher, badMsg>>

PublishBad ==
    /\ pc = "dlq"
    /\ dlqBad' = dlqBad \union {badMsg}
    /\ pc' = "submitBad"
    /\ NoFault
    /\ UNCHANGED <<log, row, dlqEvents, sendVars, fetched, batcher, badMsg, pipeVars, sweep, nonce,
                   chainVars>>

\* The dead letter topic is unavailable: nothing is submitted for this message.
PublishBadError ==
    /\ pc = "dlq"
    /\ Fault
    /\ pc' = "poll" /\ badMsg' = 0
    /\ UNCHANGED <<storeVars, sendVars, fetched, batcher, pipeVars, sweep, nonce, chainVars>>

\* A batch without transactions, so that its offset is committed in its turn.
SubmitBad ==
    /\ pc = "submitBad"
    /\ SubmitBatch(<<badMsg>>, <<>>)
    /\ pc' = "poll" /\ badMsg' = 0
    /\ UNCHANGED <<sendVars, fetched, batcher>>

\* The loop learns that the collector has stopped, and the process exits.
Escalate ==
    /\ collector = "stopped"
    /\ pc \in {"poll", "submit", "submitBad"}
    /\ Restart
    /\ NoFault

-----------------------------------------------------------------------------
(* The collector *)

Unconfirmed == {t \in Txs : pipe # <<>> /\ t \in Range(pipe[1].txs) \ confirmed}

\* Confirm: the transactions of the oldest batch are confirmed in any order.
Confirm(t) ==
    /\ collector = "running" /\ t \in Unconfirmed
    /\ \/ /\ tx[t].state = "ok" /\ Resolvable(Range(tx[t].events), t)
          /\ row' = ApplyOutcomes(Range(tx[t].events), t)
          /\ UNCHANGED dlqEvents
       \/ /\ tx[t].state = "reverted"
          /\ dlqEvents' = dlqEvents \union Range(tx[t].events)
          /\ row' = MarkFailed(Range(tx[t].events), t)
    /\ confirmed' = confirmed \union {t}
    /\ NoFault
    /\ UNCHANGED <<log, dlqBad, sendVars, loopVars, committed, pipe, collector, sweep, nonce,
                   chainVars>>

CollectorStops ==
    /\ collector' = "stopped"
    /\ UNCHANGED <<log, dlqBad, sendVars, loopVars, committed, pipe, confirmed, sweep, nonce,
                   chainVars>>

\* The receipt does not come within the timeout, or no contract knows an action of it.
ConfirmStalled(t) ==
    /\ collector = "running" /\ t \in Unconfirmed
    /\ tx[t].state = "ok" => ~Resolvable(Range(tx[t].events), t)
    /\ tx[t].state # "reverted"
    /\ CollectorStops
    /\ NoFault
    /\ UNCHANGED <<row, dlqEvents>>

\* A write of Confirm fails, after the writes before it.
ConfirmError(t) ==
    /\ collector = "running" /\ t \in Unconfirmed
    /\ Fault
    /\ CollectorStops
    /\ \/ /\ tx[t].state = "ok" /\ Resolvable(Range(tx[t].events), t)
          /\ row' = ApplyOutcomesPartly(Range(tx[t].events), t)
          /\ UNCHANGED dlqEvents
       \/ /\ tx[t].state = "reverted"
          /\ dlqEvents' = dlqEvents \union Range(tx[t].events)
          /\ UNCHANGED row
       \/ UNCHANGED <<row, dlqEvents>>

\* Seeded fault: one too far.
LastMessageNext(msgs) == msgs[Len(msgs)] + 1

LastMessage(msgs) == msgs[Len(msgs)]

\* CommitMessages: the group's offset becomes that of the newest message of the batch.
CommitOffsets ==
    /\ collector = "running" /\ pipe # <<>> /\ Unconfirmed = {}
    /\ committed' = LastMessage(pipe[1].msgs)
    /\ pipe' = Tail(pipe) /\ confirmed' = {}
    /\ NoFault
    /\ UNCHANGED <<storeVars, sendVars, loopVars, collector, sweep, nonce, chainVars>>

CommitError ==
    /\ collector = "running" /\ pipe # <<>> /\ Unconfirmed = {}
    /\ Fault
    /\ CollectorStops
    /\ UNCHANGED <<row, dlqEvents>>

-----------------------------------------------------------------------------
(* The reconciler *)

\* Seeded fault: rows stuck in SENT are not listed.
ReconcileListFailed ==
    /\ \A t \in Txs : sweep[t] = {}
    /\ sweep' = [t \in Txs |-> {e \in Events : /\ row[e].status = "FAILED"
                                              /\ row[e].tx = t
                                              /\ ~row[e].rejected}]
    /\ NoFault
    /\ UNCHANGED <<storeVars, sendVars, loopVars, pipeVars, nonce, chainVars>>

\* ListReconcilable, grouped by transaction.
ReconcileList ==
    /\ \A t \in Txs : sweep[t] = {}
    /\ sweep' = [t \in Txs |-> {e \in Events : /\ row[e].status \in {"SENT", "FAILED"}
                                              /\ row[e].tx = t
                                              /\ ~row[e].rejected}]
    /\ NoFault
    /\ UNCHANGED <<storeVars, sendVars, loopVars, pipeVars, nonce, chainVars>>

\* reconcileReceipt for the events listed under t, which may have moved on since.
ReconcileReceipt(t) ==
    /\ sweep[t] # {}
    /\ sweep' = [sweep EXCEPT ![t] = {}]
    /\ \/ /\ tx[t].state = "ok" /\ Resolvable(sweep[t], t)
          /\ row' = ApplyOutcomes(sweep[t], t)
          /\ NoFault
       \/ /\ tx[t].state = "reverted"
          /\ row' = MarkFailed(sweep[t], t)
          /\ NoFault
       \/ /\ \/ tx[t].state \in {"pool", "dropped"}
             \/ tx[t].state = "ok" /\ ~Resolvable(sweep[t], t)
          /\ UNCHANGED row
          /\ NoFault
       \/ /\ Fault
          /\ row' = IF tx[t].state = "ok" /\ Resolvable(sweep[t], t)
                    THEN ApplyOutcomesPartly(sweep[t], t) ELSE row
    /\ UNCHANGED <<log, dlqEvents, dlqBad, sendVars, loopVars, pipeVars, nonce, chainVars>>

-----------------------------------------------------------------------------
(* The chain and the environment *)

ExecuteAs(t, decide) ==
    /\ receipt' = [receipt EXCEPT ![t] = [e \in Events |->
            IF e \in Range(tx[t].events) /\ chainState[e] = "None" THEN decide[e] ELSE "none"]]
    /\ chainState' = [e \in Events |->
            IF e \notin Range(tx[t].events) \/ chainState[e] # "None" THEN chainState[e]
            ELSE IF decide[e] = "applied" THEN "Applied"
            ELSE IF decide[e] = "rejected" THEN "Rejected"
            ELSE "None"]

\* The contracts execute the signer's next transaction: an action decided before gets no
\* log. A transaction that reverts (out of gas) changes nothing.
Mine(t) ==
    /\ t \in PoolAt(chainNonce)
    /\ chainNonce' = chainNonce + 1
    /\ \/ /\ \E decide \in [Range(tx[t].events) -> Outcomes] : ExecuteAs(t, decide)
          /\ tx' = [tx EXCEPT ![t].state = "ok"]
          /\ NoFault
       \/ /\ Fault
          /\ tx' = [tx EXCEPT ![t].state = "reverted"]
          /\ UNCHANGED <<receipt, chainState>>
    /\ UNCHANGED <<storeVars, sendVars, loopVars, pipeVars, sweep, nonce, ntx>>

\* The pool evicts a transaction.
Evict(t) ==
    /\ tx[t].state = "pool"
    /\ drops < MaxDrops /\ drops' = drops + 1
    /\ tx' = [tx EXCEPT ![t].state = "dropped"]
    /\ UNCHANGED <<storeVars, sendVars, loopVars, pipeVars, sweep, nonce, ntx, receipt,
                   chainNonce, chainState, crashes, faults>>

\* A crash, or a shutdown: drainAndWait commits nothing that is in flight.
Crash ==
    /\ crashes < MaxCrashes /\ crashes' = crashes + 1
    /\ Restart
    /\ UNCHANGED <<faults, drops>>

Loop ==
    \/ FetchMessage \/ FetchBad \/ Tick
    \/ FilterDuplicate \/ FilterPending \/ FilterSkip \/ FilterReconcile
    \/ FilterError \/ FilterDone
    \/ SendFailed \/ RecordFailureError
    \/ SendCalldata \/ SendLost \/ SendError \/ SendRefused
    \/ RecordSent \/ RecordSentError
    \/ Submit \/ PublishBad \/ PublishBadError \/ SubmitBad \/ Escalate

Collect ==
    \/ \E t \in Txs : Confirm(t) \/ ConfirmStalled(t) \/ ConfirmError(t)
    \/ CommitOffsets \/ CommitError

Reconcile == ReconcileList \/ \E t \in Txs : ReconcileReceipt(t)

MineNext == \E t \in Txs : Mine(t)

Next == Loop \/ Collect \/ Reconcile \/ MineNext \/ (\E t \in Txs : Evict(t)) \/ Crash

Spec == Init /\ [][Next]_vars

\* The goroutines keep running (the supervisor restarts the process), timers fire, and the
\* chain includes the next transaction of the signer. Crashes, faults and evictions are
\* not fair, and bounded.
Fairness ==
    WF_vars(Loop) /\ WF_vars(Collect) /\ WF_vars(Reconcile) /\ WF_vars(MineNext)

FairSpec == Spec /\ Fairness

-----------------------------------------------------------------------------
(* Properties *)

Messages == 1..Len(log)

TypeOK ==
    /\ log \in Seq(Events \union {Bad})
    /\ committed \in 0..Len(log) /\ fetched \in 0..Len(log)
    /\ row \in [Events -> Rows]
    /\ dlqEvents \subseteq Events /\ dlqBad \subseteq Messages
    /\ pc \in {"poll", "filter", "send", "mark", "submit", "dlq", "submitBad"}
    /\ \A s \in {batcher, batch, rest, segment, pending} : s \in Seq(Messages)
    /\ seen \subseteq Events /\ inflight \in Seq(Txs)
    /\ badMsg \in 0..Len(log)
    /\ pipe \in Seq([msgs : Seq(Messages), txs : Seq(Txs)])
    /\ confirmed \subseteq Txs /\ collector \in {"running", "stopped"}
    /\ sweep \in [Txs -> SUBSET Events]
    /\ nonce \in Nat /\ chainNonce \in Nat \ {0}
    /\ ntx \in 0..MaxTx
    /\ tx \in [Txs -> [nonce : Nat, events : Seq(Events), state : TxStates]]
    /\ receipt \in [Txs -> [Events -> AllOutcomes \union {"none"}]]
    /\ chainState \in [Events -> {"None", "Applied", "Rejected"}]
    /\ crashes \in 0..MaxCrashes /\ faults \in 0..MaxFaults /\ drops \in 0..MaxDrops

\* What the WMS reads as confirmed is on the chain: a COMMITTED row has an applied action,
\* whichever of confirm, redelivery and reconciler wrote it.
CommittedApplied == \A e \in Events : row[e].status = "COMMITTED" => chainState[e] = "Applied"

\* What the WMS reads as refused was refused: a row with a reject reason has no applied
\* action, although another transaction with the same action may have been broadcast.
RejectedNotApplied ==
    \A e \in Events : row[e].status = "FAILED" /\ row[e].rejected => chainState[e] # "Applied"

\* resolveActionOutcomes never ends in "no on-chain outcome": every action of an executed
\* transaction has a log in its receipt or a state in the contract.
OutcomeKnown ==
    \A t \in Txs : tx[t].state = "ok" => Resolvable(Range(tx[t].events), t)

RowsForward ==
    \A e \in Events :
        /\ row[e].status = "COMMITTED" => row'[e] = row[e]
        /\ row[e].rejected => row'[e].status = "FAILED"
        /\ row[e].tx # NoTx => row'[e].tx = row[e].tx

\* Rows only move forward: COMMITTED and rejected rows keep their status, and a recorded
\* transaction hash is never replaced (S2 in the comments of the flusher).
RowForward == [][RowsForward]_vars

\* Committing an offset never loses an action: every action below it is settled or has a
\* transaction the reconciler will look at.
NoActionSkipped ==
    \A p \in 1..committed : log[p] # Bad =>
        row[log[p]].status \in {"COMMITTED", "FAILED"} \/ row[log[p]].tx # NoTx

\* A message Parse refused is only passed over once it is in the dead letter topic.
NoBadMessageSkipped == \A p \in 1..committed : log[p] = Bad => p \in dlqBad

\* As long as no call fails and the pool keeps what it has, neither kind of message is passed
\* over: the zero-transaction batches and the FIFO collector keep offsets in order, also
\* through stalls and restarts.
OffsetsInOrder == faults = 0 /\ drops = 0 => NoActionSkipped /\ NoBadMessageSkipped

\* An action that fails without a transaction is in the dead letter topic: whatever fails
\* between the two writes of recordFailure.
FailedInDLQ ==
    \A e \in Events : row[e].status = "FAILED" /\ row[e].tx = NoTx => e \in dlqEvents

\* FAILED without a transaction hash: the transaction was never sent.
FailedNeverSent ==
    \A e \in Events : row[e].status = "FAILED" /\ row[e].tx = NoTx =>
        \A t \in Txs : e \notin Range(tx[t].events)

Executed(e) == \E t \in Txs : tx[t].state = "ok" /\ e \in Range(tx[t].events)
Reverted(e) == \E t \in Txs : tx[t].state = "reverted" /\ e \in Range(tx[t].events)

Before(e, f) ==
    \E p \in Messages : log[p] = e /\ \A q \in Messages : log[q] = f => p < q

\* The chain executes actions in the order of the log: when an action is executed, those
\* before it were, or they failed.
KafkaOrder ==
    \A e, f \in Events :
        Executed(f) /\ Before(e, f) => Executed(e) \/ Reverted(e) \/ row[e].status = "FAILED"

Settled(e) == row[e].status \in {"COMMITTED", "FAILED"}

\* Every action of the log gets its outcome: stalls, restarts and failing calls delay it.
EventuallySettled ==
    \A e \in Events : <>[](\A p \in Messages : log[p] = e => Settled(e))

\* The consumer gets through the log.
EventuallyCommitted == <>[](committed = Len(log))
=============================================================================
