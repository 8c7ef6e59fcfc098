# Verification of avalanche-wms

TLA+ models of the parts of avalanche-wms in which concurrency, failure and
ordering decide correctness, checked with TLC on small instances and, for the
properties that matter most, proved with TLAPS for every instance.

`PROJECT.json` maps every definition to the lines it translates, and lists the
runs, the seeded faults (mutants) that show each property can fail, the
hazards, the findings and the theorems.

## 1. The system

A warehouse management system whose every stage (receive, put away, pick, ship)
is signed by an operator's passkey and mirrored on a permissioned chain.

```
 operator --draft/sign--> WMS (Postgres) --outbox--> Debezium --> Kafka
                            ^  onchain_events                       |
                            |        ^                              v
                            +--gate--+------ ledger adapter <-------+
                                                |  applyActions / applyKeyActions
                                                v
                              SignedMappingWMS, ConsortiumRegistry (EVM)
```

| Component | State | Operations | What is hard |
|---|---|---|---|
| ConsortiumRegistry (`contracts/`) | organizations, keys with role, organization and active flag, decided ids | owner: register organization / admin key, revoke key; anyone: key actions signed by an admin | replays, two organizations, revocation racing use |
| SignedMappingWMS (`contracts/`) | item status, decided ids, logs | anyone: warehouse actions signed by a registered key | replays, shared ids, partially valid item lists, rejected signers that leave the id free |
| Consumer loop (`consumer.go`, `batcher.go`) | batcher, reader position | fetch, batch, Send, Submit, dead letters | failed Sends, refused messages between batches |
| Flusher (`flusher*.go`) | none of its own | filter, chunk, broadcast, MarkSent, Confirm | crash between any two of these |
| Chain client (`client.go`) | local nonce | send, reseed | lost answers, nonce reuse, replaced and evicted transactions |
| Pipeline (`pipeline.go`) | window of batches in flight | Submit, confirm in parallel, commit in order | stalls, dead collector, high-water-mark commits |
| Reconciler (`reconcile.go`) | a list of rows, soon stale | settle rows by receipt | races with collector and redelivery |
| onchain_events (`store/`) | status, tx hash, reject reason per action | guarded updates | two writers |
| WMS signed operations (`signedops`, `*_signed.go`) | drafts, warehouse_actions, outbox | draft, submit | revocation concurrent with submission, stale drafts |
| WMS key lifecycle (`passkeys`) | credentials with status, key_actions | register, confirm, revoke, refresh from the registry | stale registry reads written unconditionally |
| WMS receiving (`receiving`) | shipments, cargoplaces, boxes, products, journals | scan TTN and cargoplaces, accept the rest, open a cargoplace, scan boxes and products, signed close | two operators at the gate, boxes and products scanned around the close |
| WMS putaway (`putaway`) | products, putaways | signed placement | drafts that outlive what they were made of |
| WMS assembly (`assembly`) | orders, tasks, products | allocate, pick, signed unload | SKIP LOCKED, a cache of shortages, order status decided from other rows under READ COMMITTED |
| WMS shipping, dispatches (`shipping`, `dispatches`) | dispatches, shippings, orders, products | create, scan driver, signed shipment | shipments of one order or one dispatch at the same time |
| WMS ledger gate (`ledger`) | reads onchain_events | check before a stage | acts on a status that may still change |
| WMS audit (`audit`) | none | compare database and chain by product, by action, all | reads two systems that go on meanwhile |
| HTTP handlers, auth, analytics, catalogues, CLI, frontend, deployment | | | not protocol code |

What makes each component correct: the contracts never let one decision be
taken twice, never move an item without a signature of a key that is active, and
keep an owner → admin → operator chain of trust. The adapter never reports an
outcome the chain does not have, never loses an action or a refused message,
keeps the log's order on the chain, and eventually settles every action. The WMS
never submits an action of a key whose revocation is already in the outbox. Its
products pass the four stages in order, each stage with the action that says so; an
order gets exactly what it asked for and has the status its products have; nothing
leaves that the ledger has not confirmed; and the audit, whenever it looks,
recomputes what was signed and raises no alarm over an honest history.

## 2. Modules

| Module | Models | Used by |
|---|---|---|
| `SignedLedger` | both contracts | `MCSignedLedger`, `SignedLedgerProofs` |
| `LedgerAdapter` | the adapter process, its store and topics, the transaction pool and the chain's execution of the signer's nonces | `MCLedgerAdapter`, `LedgerAdapterProofs` |
| `KeyLifecycle` | passkeys, key actions and signed operations of the WMS up to the outbox row; adapter and contracts as environment | `MCKeyLifecycle`, `KeyLifecycleProofs` |
| `LedgerLog` | the signed actions as WMS and ledger share them, and how the ledger settles them | all below, `LedgerLogProofs` |
| `Custody` | abstract: what the WMS promises to the ledger | `Inbound`, `Outbound`, `Audit`, `CustodyProofs` |
| `Inventory` | products, signed operations from draft to outbox, the ledger gate | `Receiving`, `Assembly` |
| `Receiving`, `Putaway` | the handlers of these packages | `Inbound` |
| `Assembly`, `Shipping` | the handlers of these packages and of `dispatches` | `Outbound` |
| `Inbound`, `Outbound` | compositions with the ledger, their properties and the refinement of `Custody` | `MCInbound`, `InboundProofs`; `MCOutbound`, `OutboundProofs` |
| `Audit` | the three audits over a running `Custody` | `MCAudit`, `AuditProofs` |
| `MC*` | instances: small constants, logs, envelopes | the runs |
| `*Proofs` | theorems and lemmas | tlapm |

### SignedLedger

One variable per contract mapping (`role`, `keyOrg` and `active` are the fields
of `_keys`). `itemMoves`, `rejectLog` and `registrar` are read off the logs the
contracts emit (`ItemMoved`, `ActionRejected`, `KeyRegistered` with the action's
signer). Owner calls are actions whose guards are the conditions under which they
do not revert. `applyActions` is a loop over independent actions that never
reverts, so a batch is the sequence of its actions and each is one step:
`ApplyAction` when the signer verifies, `RejectSigner` when it does not.
WebAuthn verification is one Boolean per envelope. Since the calls are open to
anyone, an envelope may arrive at any time and any number of times.

### LedgerAdapter

A message is a position of the log, an event the action id it carries. Actors:

- *the consumer loop* (`pc`): `FetchMessage`, `FetchBad`, `Tick` are the cases of
  `Run`'s select. `Filter*` is `filterAndMarkPending`, one message per step.
  `SendCalldata`, `SendLost`, `SendError`, `SendRefused` and `SendFailed` are
  the ways one call of `SendCalldata` ends; `RecordSent` is MarkSent; `Submit`,
  `PublishBad`, `SubmitBad` the rest of the step;
- *the collector*: `Confirm` per transaction of the oldest batch in any order,
  `CommitOffsets`; an error is `CollectorStops`, which the loop meets in
  `Escalate`;
- *the reconciler*: `ReconcileList` reads, `ReconcileReceipt` settles one
  transaction of the list later, when the rows may have changed;
- *the chain* (external): `Mine` executes the signer's transactions in nonce
  order. What the contracts decide is any of `Outcomes` for an undecided id
  and nothing for a decided one, which is what `SignedLedger` establishes
  (`DecisionFinal`);
- *the environment*: `Crash`, `Evict` and one `Fault` in any call.

Abstractions. The handling of one message in the filter is one step, since only
the reconciler writes the same rows, and it writes what the same receipt says.
`Confirm` is one step after the receipt is there, with a variant per write that
may fail (`ConfirmError`). The collector waits for all confirmations of a batch
before it reports an error; the model lets it stop at the first, which only adds
behaviours. A graceful shutdown commits nothing that is in flight and is
therefore a `Crash`. A fetch error ends the process and is a `Crash` too. The age
and the limit of `ListReconcilable` are left out: rows are listed whatever their
age. The committed offset is the position of the newest message of the batch, as
kafka-go commits it. Packing, gas and calldata size are the constants
`Unpackable` and `MaxChunk`.

### KeyLifecycle

The tables are variables: `passkey` (status by credential) with `created` (the
order of created_at), `keyAction`, `op` (an operation's parts are written together
and are one row), `outbox` in the order of the commits, `oe` (onchain_events).
`req` holds the requests in progress: `goal` is the handler, `pc` the next
statement, the other fields what it has read. A step is one statement (or one
after which nothing else is read), so two requests interleave between a read and
the write that rests on it:

- *registration*: `BeginRegistration`, `FinishRegistration` (which takes the
  session), `InsertPasskey` under the unique index;
- *refresh*: load (`Loaded`), `ReadRegistry` or `RegistryUnavailable`,
  `UpdatePasskeyStatus`; `Resume` is what each handler does with the answer.
  `syncStatuses` keeps the stored status when the key is unknown or the adapter
  silent, `confirmActive` ends the request;
- *key actions*: `DraftKeyAction`, `InsertKeyAction`, then `SubmitKeyAction`
  (BEGIN), `LockAction`, `LockTarget`, `CommitKeyAction`;
- *rejection*: `RejectKey`, `RejectPendingPasskey`;
- *operations*: `DraftOperation`, `InsertOperation`, `SubmitOperation`,
  `LockOperation`, `LockSigner` and `CheckRevoke` (LockSigner's two statements),
  `WriteActions`. The four flows share them; putaway's is the one the map names;
- *failures*: `Abort` at any statement, `Restart`;
- *environment*: `ExecuteNext` and `DropNext` take the outbox in order, `Settle`
  writes onchain_events later, `OwnerRevokeKey` is the contract owner's call that
  bypasses the WMS.

Row locks are read off the requests that hold them. READ COMMITTED: every
statement sees what is committed when it runs. `submitted_at` is the stamp a
transaction got at BEGIN, as now() is in PostgreSQL.

Abstractions. One organization and a registry client that is configured. The
assertion is the draft's signer; one that does not verify is an `Abort`. FAILED with
and without a reject reason are one, since both unblock the key. A FAILED action is
taken not to be applied, which observation 3 shows to be an assumption about the
adapter. An operation's items, their locks and the chain gate are in `Inventory` and the
modules on it. `requireNoConfirmation` is read in the step before or with the write
that follows: a draft made before another's submission is left behind by it as well.

### LedgerLog and Custody

The seam between the halves. `log` is the outbox in commit order, an entry being one
part (at most `MaxItems` items) with its outcome; the adapter's order (`KafkaOrder`)
and honesty (`CommittedApplied`) let `Settled` take the entries one by one: COMMITTED
when every item is at the stage before, else REJECTED, or FAILED for a reason outside
the WMS, at most `MaxFailures` times. `Custody` says that a batch of products at one
stage goes to the next together with its actions, or the ledger settles one.

### Inventory, Receiving, Putaway, Inbound

One shipment. PostgreSQL runs at READ COMMITTED: the variables are what is committed,
`tx[r]` is where the transaction of request r is, `rows` what it has written and
therefore locks. A handler is split where a statement may see another's commit that
an earlier one did not: a scan reads, updates under the row's lock, counts, and
decides with the commit (`ScanCargoplace`, `ScanUpdate`, `CountShipmentProgress`,
`CommitScan`); an acceptance reads, marks the rest, closes or rolls back. What runs
under the lock of its cargoplace is one step (`ScanBox`, `ScanQR`, `ScanBuffer`,
`SubmitCloseCargoplace`); `CloseBox` reads the box before that lock and is two.
A putaway asks the ledger before its transaction begins (`CheckPlace`). `Abort` rolls
any of them back. Refusals that change nothing are not steps. `closedIn` and
`putaways` are the columns the audit joins on.

### Assembly, Shipping, Outbound

Products in storage, their placement on its way to the ledger. `Allocate` takes a
batch of orders and goes through them one by one with the cache of shortages, and through
the lines of each one by one (`AllocateLine`), so that two calls may each lock one SKU of
the other's order; what it finds it locks until it commits, also for an order that turns out
short, and what others lock it skips. `AllocateOrderTx` is what follows the last line: the
order is planned with all of its products or not at all. The query sorts the lines by their random
ids; the model looks them up in any order. Pick is a check and a
transaction. `SubmitUnloadToShippingBuffer` is the transaction up to its last
statement, with the decision which orders are ASSEMBLED, and `CommitUnload` its
commit, so that two unloads may each decide before the other commits; `SubmitShip`
and `CommitShip` likewise, behind the locks of bin, dispatch, products and orders.
Order ids are numbers in the order of created_at, and a SKU is given the first
products of it. Orders, lines and bins do not change while the system runs: no handler
of the WMS changes them. An order line is unique by SKU.

### Audit

`Custody` is the world, one action for what WMS, adapter and chain do to it
(`Submit`, `Decide`, `Record`, `Age`). An audit is a sequence of readings, between which
the world goes on: of a product chain, database, applied, rejected; of one action or of
everything the database first. `Stage` is what it says of an action. `before` is a
history variable. What it recomputes for an applied action, details and items, is
`CheckDetailsHash` and `CheckItems` in `Inbound` and `Outbound`, where the tables are.

## 3. Runs

| Run | Instance | Shows |
|---|---|---|
| `ledger` | 2 organizations, 2 admin candidates, an operator key and an invalid one, 2 items, 9 warehouse and 7 key envelopes over 6 ids | the contract properties |
| `adapter_faults` | logs ⟨e1,e2,e1⟩ and ⟨e1,k1⟩, batches of 2, one action per transaction, window 2, one fault, one crash | outcomes agree with the chain, order, no loss |
| `adapter_environment` | logs with refused messages, an unpackable action, no registry, a fault, a crash, an eviction | offsets in order, dead letters complete |
| `adapter_liveness` | ⟨e1,e2⟩, window 1, one fault, one crash, fairness | every action settles, the log is consumed |
| `keys_revocation` | admin key, an operator with two keys, an operation, 2 key actions, 2 requests, slow transactions | no operation behind a revocation of its key, nothing accepted that the contract rejects, drafts submitted once, statuses never ahead of the registry |
| `keys_registration` | admin key that its owner may revoke, an operator's key, 3 key actions, 2 requests, no slow transactions | one key action in flight, a rejected key is on no way to the registry |
| `inbound` | a shipment of 2 cargoplaces with 2 boxes each, 2 products, 2 operations, 2 requests, a failure | the gate closes once and accounts for all, the journal is exact, the audit finds what was signed, `Custody` is implemented |
| `outbound` | an order of 2 products, 2 buffers, 2 dispatches, 4 operations, 2 requests, a failure | order status, nothing shipped unconfirmed, rejections only after failures, the audit, `Custody` |
| `orders` | 4 orders, one of them of two lines, over a product of each of 2 SKUs in batches of 2, a buffer, a dispatch, 2 requests | allocation is exact, loading at the gate only, departure only with a loading |
| `allocation` | 3 orders over 3 products of 2 SKUs for 2 destinations, batches of 3, 2 requests, no operators, fairness, calls that do not overlap for ever | the remainder is allocated |
| `audit` | 2 products, 2 actions, a failure, an audit of each kind at any time | no false alarm, complete reports |
| `bad_skips_action` | the smallest instance | a disagreement of code and comment, see 5 |

Bounds. Two stages are enough to confuse, and four are there, so that items can
go all the way; two envelopes share an id, so that replay and substitution both
happen. In the adapter, two batches in flight and three messages give a redelivered
event beside a new one; one fault and one crash can fall between any two calls.
`MaxTx` is the number of messages plus the resends that the faults and crashes
allow, so that the guard on `ntx` never blocks a send; where it did, the
liveness run would fail. `MaxRejectLogs` is one: the logs of unverified signers are
interchangeable for the properties. Organizations are symmetric, as no
envelope names one. In the WMS, two requests are what a lock is for, and the
operator's second key gives an operation whose draft outlives its key; three drafts
of one key give a FAILED action, one in flight and one that comes too late.
`MaxStamp` is the number of key actions, so that each can be submitted once.
`SlowTransactions` says whether an action may be settled while a key transaction is open.
What matters is an action that was committed after the transaction began: seconds pass
before the chain settles anything, so it takes a stall. The guard of `Settle` is simpler and
a little stronger, as it holds back every settlement until no key transaction is open.
`OneKeyActionInFlight` and `RejectedIsNotRegistered` are claimed without such a stall only,
so they say nothing of the stamp of a stalled transaction (observation 4); the other
properties, and both theorems on the outbox, do not need it. `CHECK_DEADLOCK FALSE`: logs are finite and the contracts may
have nothing left to do.

In the flows, two requests are what a lock is for; two products are a part and the
rest of an order, a box or an operation, and `MaxItems` is 1 inbound (two parts per
operation) and 2 outbound. Inbound two operations are a close and a placement, or two
closes, or the same close drafted twice; outbound four are two unloads and two
shipments. `MaxFailures` is one failing action, which takes the stages after it along.
The instance `orders` has more orders than stock, one of them for a second destination, and
one that needs the products the others compete for together. In `allocation` two orders of
one destination and one of the other compete for the same SKU, the first order takes all of
it, and the one with two lines can be short in either; nobody picks there, as allocation
looks at stored products only and a pick does not touch those.
Requests, operations, bins and dispatches of one destination, cargoplaces and barcodes are
symmetric; the products are not, they are ordered.

Fairness of `allocation`: Allocate is called again and again, which is how its comment
(assembly/service.go:17-19) has the remainder taken, and from some time on its
transactions are not aborted half way; any other request ends (`FairCalls`). Strong fairness
for each step, since a call is enabled only while its request is idle, its orders are not
locked and so on. That alone is not enough: from some time on the calls of `Allocate`, of
whatever destinations, do not overlap (`CallsApart`). The service handles them concurrently
and nothing in the code keeps them apart, so this is an assumption about the operators who
make the calls. Until then they overlap as they like, and the property says that nothing
they have left keeps an order waiting; without the assumption it fails (observation 10).

Fairness (`adapter_liveness`): the consumer loop, the
collector, the reconciler and the chain each keep taking steps. The code justifies
it: the goroutines run until the process exits, `docker-compose` restarts the
process, the ticker and the receipt timeout fire, the reconciler's ticker
fires, and the chain includes the next transaction of an account. Crashes,
faults and evictions have no fairness and a budget.

`EventuallySettled` is claimed without evictions (`MaxDrops = 0`, observation 2).
`KafkaOrder`, `RejectedNotApplied` and `OffsetsInOrder` are claimed without evictions
only. An evicted transaction leaves its nonce to another action after a restart, and
the order of the log is lost (observation 5). `NoActionSkipped` is claimed for logs without
refused messages, or while no call fails: otherwise it is the finding. `OffsetsInOrder` is
claimed while no call fails: it says nothing of a failed Send (the finding) or of a dead
letter topic that is down (observation 1).

## 4. Proofs

Proved for every value of the constants under the named assumptions
`LedgerAssumption`, `AdapterAssumption` and `KeyAssumption`, which say no more than
the types of the constants, that key actions and operations have different ids, and
that a user has one key at the start; for the flows `LogAssumption`, `FromAssumption`,
`ReceivingAssumption`, `AssemblyAssumption` and `ShippingAssumption`: types, finitely many
products, cargoplaces and orders, a part of at least one item, and `None` apart from ids.

`SignedLedgerProofs`: `TypeCorrect`, `HistoryCorrect`, `TrustChainCorrect`,
`RevocationIsFinal`, `DecisionIsFinal`, `MovesNeedSignature`,
`RejectReasonIsReadable`. `ItemHistory` is inductive together with
`OneStagePerAction` and `TypeOK`: an item moves only by an undecided id, which by
the history is in no log yet, and an applied id stays applied. `TrustChain` needs
that a key never changes role or organization once it has one.

`LedgerAdapterProofs`: every safety property of the adapter's runs, for any log, batch
size, window and budget of crashes, faults, evictions and transactions.

- `TypeCorrect`. `TypeInv` adds to `TypeOK` that what is queued parses, that a batch in
  the pipeline is not empty, that transactions are numbered without gaps, and that the one
  that waits to be recorded carries the first pending messages.
- `CommittedIsApplied`, `FailedIsInDLQ`. Every step that writes rows writes one of the forms
  the store has (PENDING, `Sent`, `Failed`, `Rejected`, `Committed`), and `Committed` only
  where the outcome is "applied". It needs `LogsAgree`: an "applied" log in a receipt means
  that the contract's state is Applied, which stays so. `FailedInDLQ` follows from
  the order of the two writes of recordFailure.
- `OutcomeIsKnown`. `ChainInv`: an executed transaction has a log for each of its actions
  or the contract had decided them; logs agree with the contract; the chain takes nonces
  in order, and the pool has one transaction for each.
- `RowsMoveForward`. `RowInv` says who may write a row: the hash of a row is that of the last
  transaction with the action (`RowTx`), a pending message has a row without hash and is
  pending once (`PendingFresh`), and the rows of a transaction in flight, in the pipeline or
  on the reconciler's list have its hash (`RecordedOwn`, `SweepOwn`). So collector,
  redelivery and reconciler settle a row by the same transaction (`Settles`), and nobody
  but the loop writes a row without hash (`Marks`).
- `RejectedIsNotApplied`, as long as nothing was evicted. `NonceInv`: later transactions have
  higher nonces, no transaction waits behind a gap, the client's nonce continues the pool,
  and what is recorded lies below it, so that no send replaces it. A rejection whose id stays
  free (`signer`) is overturned only by a later nonce, hence by a later transaction,
  which `RowTx` excludes.
- `ActionsAreNotSkipped`, `OffsetsAreInOrder`, where `Orderly`: the log has no message that
  Parse refuses, or no call has failed and nothing was evicted. `LoopOrder`, `PipeOrder` and
  `InOrder`: offset, pipeline and what the loop holds follow each other in the order of the
  log and cover everything fetched. `SendHandled`, `PipeHandled` and `OffsetHandled`: a message
  that leaves a Send is settled or has a hash, itself or by an earlier message with the same
  action. That no refused message overtakes a batch is `SendsSucceed`: without faults and
  evictions no nonce is refused and no receipt lacks an outcome, so that no batch is given
  back.
- `ChainKeepsOrder`, where moreover nothing was evicted. `SentInOrder`: when an action is
  broadcast, those before it in the log are in the same transaction, failed before they were
  sent, or have the hash of an earlier transaction, which by `NonceInv` has a lower nonce.

`KeyLifecycleProofs`: `KeyTypeCorrect`, `OutboxOrderCorrect`, `SubmittedOnceCorrect`,
`StatusCorrect`, `AcceptedCorrect`, and for `SlowTransactions = FALSE`
`OneInFlightCorrect`, `RejectedCorrect`.
`TypedLinks` adds to the types that what a request remembers (the draft's target
and type, the operation's signer) is still what the row says. `LockInv` states what
the locks protect: no row is locked FOR UPDATE by one transaction and FOR SHARE by
another (`RowExclusion`); an operation about to commit has no revocation against it
(`NotRevokedYet`), which a revocation could break only by committing, and then it
holds the row FOR UPDATE; a locked draft is not submitted and one transaction holds
it (`LockedIsDraft`, `DraftExclusion`). With these `OutboxInv`, the two properties
together, is inductive. `StatusCorrect` needs that an answer of the registry still stands when
it is stored (`SeenStands`). `AcceptedCorrect` goes back to the outbox: a key that is revoked
was revoked by its owner or by an action in front (`RevokedByAction`), and the key of a
submitted operation was registered (`SignerRegistered`). `PromptInv` is for the last two:
stamps differ and settled actions were stamped before every open transaction
(`StampInv`), so that the action in flight is the one keyActionInFlight looks at
(`InFlightIsLatest`). Without the hypothesis they are false (observation 4).

`LedgerLogProofs` has the lemmas about the log that the proofs of the flows share.

`CustodyProofs`: `LedgerAgrees`. `StagesAgree` speaks of a rejection and a failure before
it; to keep it one has to know that a rejected item lacked its stage because of the
failure and not because the stage was signed twice or never. `Coherent` says so: an item
has one action of each stage up to the one the WMS holds it at (`Complete`, `Bounded`,
`Unique`), in the order of the log (`Chained`); `Prefix` that everything before the first
unsettled action is settled. A batch keeps it because its parts are disjoint and cover
it (`PartsDisjoint`, `PartsCover`, which rest on `MulMonotone` and `DivBounds`).

`InboundProofs`: `TypeCorrect`, `GateSettled`, `GateJournalCorrect`,
`InboundImplementsCustody`, `AuditCorrect`. `RowsHeld` is what
the gate's row locks give: rows of two transactions are disjoint and still EXPECTED for
everybody else, and one that has counted all cargoplaces, or accepts the rest, leaves none
EXPECTED behind. `Stock` is what a signed close or placement moves: a product is in a box
from its scan on, and in a buffer only from a closed box, so the items a submission
compares with its draft are exactly the ones that change their stage. `Journal` is what
the audit joins on: a closed cargoplace has the operation that signed what lies in its closed
boxes, a placed product the one operation that placed it.

`OutboundProofs`: `OutboundTypeCorrect`, `DestinationCorrect`, `LoadingAtGate`,
`OutboundImplementsCustody`, `StagesCorrect`, `ShippedConfirmed`, `AllocationCorrect`,
`OrderStatusCorrect`, `AuditCorrect`. `Locks` says what a
transaction may rely on until it commits (`Own`: the status, the bin and the dispatch it
read) and that no two have the same product or dispatch (`Apart`); `LockStep` deals with
every step that only takes locks, `CommitLocks` with what a commit leaves alone.
`LoadingAtGate` needs moreover that a draft is never empty, so
that a shipment which departs has loaded something. `StagesCorrect` is `LedgerAgrees` carried over by the refinement. `ShippedConfirmed` needs
`Confirmed`: what was on the ledger at the check is there at the commit
(`OnLedgerAppend`, `OnLedgerSettle`), and the contract has no pick without its putaway.
`RightDestination` is proved only; it is in no run. `OrderInv` adds what a transaction
relies on for the orders it has locked (`OrdersOwn`): an allocation has found exactly what
the lines it has looked up ask for (`Gathered`) and plans exactly the lines of the orders it
fills, a shipment completes exactly the orders it has counted as complete.
`Journal` says what a submission leaves in the tables, stamps, buffer and dispatch, and that
nothing overwrites it, which is why the audit recomputes what was signed.

`AuditProofs`: `NoAlarmIsFalse`, `ReportIsComplete`. `Informed` says after each reading
what the auditor may conclude about the log of now: the log has grown since (`Grown`), and
what the database said was honest then (`Honest`), so the later readings know more.

Only model-checked: liveness (`EventuallySettled`, `EventuallyCommitted`,
`RemainderAllocated`), which is out of the prover's reach, and the finding. Every invariant
and action property of a passing run is a theorem.

## 5. Findings and observations

The run `bad_skips_action` shows a finding: `drainSendSubmit` swallows the error of
Send, so the offset of a refused message is committed before the batch in front of it;
a crash then loses that batch (consumer.go:156).

The following were found by TLC too. Each names the definition that fails and the
instance to check it on; they have no run of their own.

Adapter and keys:

1. `NoBadMessageSkipped` (the log with a refused message, one fault): with the dead
   letter topic down, a refused message is not fetched again, and the next commit passes
   over it. consumer.go:160 says that it is ("сообщение re-fetch'нется").
2. `EventuallySettled` with `MaxDrops = 1`: a transaction the pool drops leaves its rows
   SENT for ever (flusher.go:193). docs/architecture/system-overview.md:145 has the
   reconcile loop pull them up.
3. `FailedNeverSent` (one fault): FAILED without a hash does not mean that nothing was sent
   (client.go:206). docs/developer/ledger-adapter-reference.md:166 says so.
4. `RejectedIsNotRegistered` with `SlowTransactions = TRUE`: submitted_at is the time of
   BEGIN and the latest key action is the one with the greatest; after a stalled
   transaction a FAILED action hides the one in flight, and an admin can reject a key
   that then becomes active in the registry (passkeys/actions_repository.go:179).
5. `KafkaOrder`, `RejectedNotApplied`, `NoActionSkipped` with `MaxDrops = 1`,
   `MaxCrashes = 1` and no fault. The evicted transaction leaves a gap in the nonces. After a
   restart the seeded nonce fills it with a later action, which is executed while the evicted
   one stays SENT; with an action that is still in the pool under the next nonce, which is
   rejected for its signer, recorded so, and applied by the other transaction; and the
   nonce after it is in the pool and refused (client.go:221), so that the batch goes back
   and a refused message overtakes it without any failing call. No document of the
   repository promises otherwise.

Flows:

6. `AutoClosed` (`MCInbound`, one request is enough): the count of the gate takes
   cargoplaces that are RECEIVED_AT_GATE (receiving/service.go:739), and one that was
   opened at the table meanwhile is not counted, so the shipment does not close by
   itself; nor does it when the last two are scanned at the same time.
   docs/flows/receiving-gate-flow.md:37-41 has it close. It can still be accepted by hand.
7. `AssembledWhenReady` (two operators): two unloads of the last products of an order at
   the same time leave it ALLOCATED (assembly/repository.go:412;
   docs/flows/assembly-flow.md:156). Its shipment brings it on, which `OrderStatusTrue`
   shows.
8. `DepartedWhenEmpty` (two orders of one destination in two buffers, on two dispatches):
   two last shipments at the same time each see the other's products, and no dispatch
   departs (shipping/repository.go:392; docs/flows/shipping-flow.md:80).
9. `RemainderAllocated` with `BatchLimit = 1`: as many orders as a batch takes, all of which
   cannot be filled, hide the ones behind them from every later call
   (assembly/service.go:17-19).
10. `RemainderAllocated` without `CallsApart` (one product; order 1 for destination d1 takes
   two, order 2 for d2 one): `Allocate(d1)` finds the product, is short of another, and keeps
   the row locked until it commits (assembly/service.go:194, assembly/repository.go:130);
   `Allocate(d2)` meanwhile skips the row, reports a shortage and commits. Calls that
   alternate like this leave order 2 NEW for ever beside the product for it, although
   nothing is aborted. With orders of two lines each of two calls can lock the SKU the other
   looks for next, and both orders, each of which the stock can fill, are reported short.
   The answer of a single call is therefore no statement about the stock.
11. `MissingInDBIsTrue`: the audit of everything reads the database before the chain, and
   reports an action that was submitted and applied in between as missing in the database
   (audit/audit.go:214). An action that has no row in onchain_events yet is reported as
   missing on the chain at once, whatever its age (audit/audit_compare.go:89).
12. Read, not modelled: the number of a dispatch counts the dispatches of the database's
    day, its code has the process's day (dispatches/repository.go:62-83), so that around
    midnight, or with two time zones, a code can repeat and the insert fail.

## 6. Plan

Done: the contracts, the adapter, the WMS's keys and signed operations, the product
flow from the gate to the departure, the audit, the refinements of `Custody`, and proofs of
every safety property the runs check. Next, in this order:

1. An abstract specification of the adapter (each action of the log is decided at most once,
   in the order of the log, and its row tells the decision), and the proof that the adapter
   implements it where `Orderly`.
2. Proofs of what the findings leave open: which of the adapter's properties survive an
   eviction without a restart, or a fault in a log with refused messages.

Not modelled, and why: HTTP handlers, authentication, catalogues and analytics (no
protocol), read-only handlers of the flows (ScanSKU, GetTasks, summaries), the numbering
of dispatches, the recomputation of signatures in the audit (cryptography), the signers
and the configuration (I/O), the legacy contract `BatchMappingWMS` (not written to any
more), the frontend and the deployment.
