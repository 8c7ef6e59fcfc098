------------------------- MODULE LedgerAdapterProofs -------------------------
(***************************************************************************)
(* Proofs about LedgerAdapter, for every log, batch size, window, number   *)
(* of transactions, crashes, faults and evictions: what the database says  *)
(* of an action agrees with the chain and with the dead letter topic, rows *)
(* only move forward, and a receipt never lacks an outcome. As long as the *)
(* pool keeps what it has, a rejected action is not applied; as long as a  *)
(* batch that could not be sent is not overtaken by a refused message, no  *)
(* offset passes over an unhandled message, and the chain executes actions *)
(* in the order of the log.                                                *)
(***************************************************************************)
EXTENDS LedgerAdapter, FiniteSetTheorems, TLAPS

Receipts == [Txs -> [Events -> AllOutcomes \union {"none"}]]
States == [Events -> {"None", "Applied", "Rejected"}]

\* The part of the type invariant the proofs need; a transaction waits to be recorded
\* only after one was broadcast.
CoreType ==
    /\ row \in [Events -> Rows]
    /\ chainState \in States
    /\ receipt \in Receipts
    /\ ntx \in 0..MaxTx
    /\ pc = "mark" => ntx \in Txs

\* A log of an applied action means that the contract has the action applied.
LogsAgree == \A t \in Txs, e \in Events : receipt[t][e] = "applied" => chainState[e] = "Applied"

-----------------------------------------------------------------------------
(* What one step does to a row *)

\* The ways a row changes: it becomes PENDING, SENT, COMMITTED or FAILED, by a transaction
\* or without one.
BecomesPending(e) == row'[e] = [row[e] EXCEPT !.status = "PENDING"]
BecomesSent(e) == \E t \in Txs : row'[e] = Sent(row[e], t)
BecomesUnsendable(e) == row'[e] = Failed(row[e], NoTx) /\ e \in dlqEvents'
BecomesFailed(e) == \E t \in Txs : row'[e] = Failed(row[e], t)
BecomesRejected(e) == \E t \in Txs : row'[e] = Rejected(row[e], t)
BecomesCommitted(e) == \E t \in Txs : Outcome(t, e) = "applied" /\ row'[e] = Committed(row[e])

RowWrite(e) ==
    \/ row'[e] = row[e]
    \/ row[e].status # "COMMITTED" /\ BecomesPending(e)
    \/ BecomesSent(e) \/ BecomesUnsendable(e)
    \/ BecomesFailed(e) \/ BecomesRejected(e) \/ BecomesCommitted(e)

\* applyActionOutcomes commits the applied actions and rejects the others.
LEMMA ApplyOutcomesWrites ==
    ASSUME NEW ids, NEW t \in Txs, NEW e \in Events, row' = ApplyOutcomes(ids, t)
    PROVE  RowWrite(e)
BY DEF ApplyOutcomes, RowWrite, BecomesRejected, BecomesCommitted

\* So does its first half.
LEMMA ApplyOutcomesPartlyWrites ==
    ASSUME NEW ids, NEW t \in Txs, NEW e \in Events, row' = ApplyOutcomesPartly(ids, t)
    PROVE  RowWrite(e)
BY ApplyOutcomesWrites DEF ApplyOutcomesPartly

\* MarkFailed with a transaction hash.
LEMMA MarkFailedWrites ==
    ASSUME NEW ids, NEW t \in Txs, NEW e \in Events, row' = MarkFailed(ids, t)
    PROVE  RowWrite(e)
BY DEF MarkFailed, RowWrite, BecomesFailed

\* The steps of the consumer loop change rows in these ways only.
LEMMA LoopWrites ==
    ASSUME CoreType, Loop, NEW e \in Events
    PROVE  RowWrite(e) /\ dlqEvents \subseteq dlqEvents'
<1>1. CASE row' = row /\ dlqEvents' = dlqEvents
  BY <1>1 DEF RowWrite
<1>2. CASE FetchMessage \/ FetchBad \/ Tick
  BY <1>1, <1>2 DEF FetchMessage, FetchBad, Tick, storeVars
<1>3. CASE FilterDuplicate \/ FilterSkip
  BY <1>1, <1>3 DEF FilterDuplicate, FilterSkip, Filtering
<1>4. CASE FilterPending
  BY <1>4 DEF FilterPending, Filtering, RowWrite, BecomesPending, CoreType
<1>5. CASE FilterReconcile
  <2>1. dlqEvents' = dlqEvents
    BY <1>5 DEF FilterReconcile, Filtering
  <2> DEFINE t == row[Current].tx
  <2>2. CASE Current \in Events
    <3>1. t \in Txs
      BY <1>5, <2>2 DEF FilterReconcile, CoreType, Rows
    <3>2. \/ row' = ApplyOutcomes({Current}, t) \/ row' = MarkFailed({Current}, t) \/ row' = row
      BY <1>5 DEF FilterReconcile
    <3>3. QED
      BY <2>1, <3>1, <3>2, ApplyOutcomesWrites, MarkFailedWrites, <1>1
  <2>3. CASE Current \notin Events
    <3>1. \/ row' = ApplyOutcomes({Current}, t) \/ row' = MarkFailed({Current}, t) \/ row' = row
      BY <1>5 DEF FilterReconcile
    <3>2. row'[e] = row[e]
      BY <2>3, <3>1 DEF ApplyOutcomes, MarkFailed
    <3>3. QED
      BY <2>1, <3>2 DEF RowWrite
  <2>4. QED
    BY <2>2, <2>3
<1>6. CASE FilterError \/ FilterDone
  BY <1>1, <1>6 DEF FilterError, FilterDone, storeVars
<1>7. CASE SendFailed
  <2>1. /\ dlqEvents' = dlqEvents \union EventsOf(Prefix(FailureLength))
        /\ row' = MarkFailed(EventsOf(Prefix(FailureLength)), NoTx)
    BY <1>7 DEF SendFailed
  <2>2. QED
    BY <2>1 DEF MarkFailed, RowWrite, BecomesUnsendable
<1>8. CASE RecordFailureError
  BY <1>8 DEF RecordFailureError, RowWrite
<1>9. CASE SendCalldata \/ SendLost \/ SendError \/ SendRefused
  BY <1>1, <1>9 DEF SendCalldata, SendLost, SendError, SendRefused, storeVars
<1>10. CASE RecordSent
  <2>1. /\ row' = MarkSent(Range(tx[ntx].events), ntx)
        /\ dlqEvents' = dlqEvents /\ ntx \in Txs
    BY <1>10 DEF RecordSent, CoreType
  <2>2. QED
    BY <2>1 DEF MarkSent, RowWrite, BecomesSent
<1>11. CASE RecordSentError
  BY <1>1, <1>11 DEF RecordSentError, storeVars
<1>12. CASE Submit \/ SubmitBad
  BY <1>1, <1>12 DEF Submit, SubmitBad, SubmitBatch, storeVars
<1>13. CASE PublishBad \/ PublishBadError
  BY <1>1, <1>13 DEF PublishBad, PublishBadError, storeVars
<1>14. CASE Escalate
  BY <1>1, <1>14 DEF Escalate, Restart, storeVars
<1>15. QED
  BY <1>2, <1>3, <1>4, <1>5, <1>6, <1>7, <1>8, <1>9, <1>10, <1>11, <1>12, <1>13, <1>14 DEF Loop

\* So do the steps of the collector.
LEMMA CollectWrites ==
    ASSUME CoreType, Collect, NEW e \in Events
    PROVE  RowWrite(e) /\ dlqEvents \subseteq dlqEvents'
<1>1. ASSUME NEW t \in Txs, Confirm(t) PROVE RowWrite(e) /\ dlqEvents \subseteq dlqEvents'
  <2>1. CASE row' = ApplyOutcomes(Range(tx[t].events), t) /\ dlqEvents' = dlqEvents
    BY <2>1, ApplyOutcomesWrites
  <2>2. CASE /\ row' = MarkFailed(Range(tx[t].events), t)
             /\ dlqEvents' = dlqEvents \union Range(tx[t].events)
    BY <2>2, MarkFailedWrites
  <2>3. QED
    BY <1>1, <2>1, <2>2 DEF Confirm
<1>2. ASSUME NEW t \in Txs, ConfirmStalled(t) PROVE row' = row /\ dlqEvents' = dlqEvents
  BY <1>2 DEF ConfirmStalled
<1>3. ASSUME NEW t \in Txs, ConfirmError(t) PROVE RowWrite(e) /\ dlqEvents \subseteq dlqEvents'
  <2>1. CASE row' = ApplyOutcomesPartly(Range(tx[t].events), t) /\ dlqEvents' = dlqEvents
    BY <2>1, ApplyOutcomesPartlyWrites
  <2>2. CASE row' = row /\ dlqEvents' = dlqEvents \union Range(tx[t].events)
    BY <2>2 DEF RowWrite
  <2>3. CASE row' = row /\ dlqEvents' = dlqEvents
    BY <2>3 DEF RowWrite
  <2>4. QED
    BY <1>3, <2>1, <2>2, <2>3 DEF ConfirmError
<1>4. CASE CommitOffsets \/ CommitError
  BY <1>4 DEF CommitOffsets, CommitError, storeVars, RowWrite
<1>5. QED
  BY <1>1, <1>2, <1>3, <1>4 DEF Collect, RowWrite

\* And those of the reconciler.
LEMMA ReconcileWrites ==
    ASSUME CoreType, Reconcile, NEW e \in Events
    PROVE  RowWrite(e) /\ dlqEvents \subseteq dlqEvents'
<1>1. CASE ReconcileList
  BY <1>1 DEF ReconcileList, storeVars, RowWrite
<1>2. ASSUME NEW t \in Txs, ReconcileReceipt(t)
      PROVE  RowWrite(e) /\ dlqEvents \subseteq dlqEvents'
  <2>1. dlqEvents' = dlqEvents
    BY <1>2 DEF ReconcileReceipt
  <2>2. \/ row' = ApplyOutcomes(sweep[t], t) \/ row' = MarkFailed(sweep[t], t)
        \/ row' = ApplyOutcomesPartly(sweep[t], t) \/ row' = row
    <3>1. \/ row' = ApplyOutcomes(sweep[t], t) \/ row' = MarkFailed(sweep[t], t)
          \/ row' = row
          \/ row' = IF tx[t].state = "ok" /\ Resolvable(sweep[t], t)
                    THEN ApplyOutcomesPartly(sweep[t], t) ELSE row
      BY <1>2, Zenon DEF ReconcileReceipt
    <3>2. QED
      BY <3>1
  <2>3. CASE row' = row
    BY <2>1, <2>3 DEF RowWrite
  <2>4. QED
    BY <2>1, <2>2, <2>3, ApplyOutcomesWrites, ApplyOutcomesPartlyWrites, MarkFailedWrites
<1>3. QED
  BY <1>1, <1>2 DEF Reconcile

\* The chain and the environment write neither rows nor dead letters.
LEMMA StepWrites ==
    ASSUME CoreType, [Next]_vars, NEW e \in Events
    PROVE  RowWrite(e) /\ dlqEvents \subseteq dlqEvents'
<1>1. CASE MineNext
  BY <1>1 DEF MineNext, Mine, storeVars, RowWrite
<1>2. CASE \E t \in Txs : Evict(t)
  BY <1>2 DEF Evict, storeVars, RowWrite
<1>3. CASE Crash
  BY <1>3 DEF Crash, Restart, storeVars, RowWrite
<1>4. CASE UNCHANGED vars
  BY <1>4 DEF vars, storeVars, RowWrite
<1>5. QED
  BY <1>1, <1>2, <1>3, <1>4, LoopWrites, CollectWrites, ReconcileWrites DEF Next

-----------------------------------------------------------------------------
(* What one step does to the chain *)

\* Only a mined transaction changes receipts and the contracts, and what is applied stays.
LEMMA ChainStep ==
    ASSUME CoreType, [Next]_vars
    PROVE  \/ receipt' = receipt /\ chainState' = chainState
           \/ \E t \in Txs : \E decide \in [Range(tx[t].events) -> Outcomes] :
                 ExecuteAs(t, decide)
<1>1. CASE MineNext
  BY <1>1 DEF MineNext, Mine
<1>2. CASE Loop
  <2>1. CASE SendCalldata \/ SendLost
    BY <2>1 DEF SendCalldata, SendLost, Broadcast
  <2>2. CASE FetchMessage \/ FetchBad \/ Tick
    BY <2>2 DEF FetchMessage, FetchBad, Tick, chainVars
  <2>3. CASE FilterDuplicate \/ FilterPending \/ FilterSkip \/ FilterReconcile
    BY <2>3 DEF FilterDuplicate, FilterPending, FilterSkip, FilterReconcile, Filtering, chainVars
  <2>4. CASE FilterError \/ FilterDone
    BY <2>4 DEF FilterError, FilterDone, chainVars
  <2>5. CASE SendFailed \/ RecordFailureError \/ SendError \/ SendRefused
    BY <2>5 DEF SendFailed, RecordFailureError, SendError, SendRefused, chainVars
  <2>6. CASE RecordSent \/ RecordSentError
    BY <2>6 DEF RecordSent, RecordSentError, chainVars
  <2>7. CASE Submit \/ SubmitBad \/ PublishBad \/ PublishBadError
    BY <2>7 DEF Submit, SubmitBad, SubmitBatch, PublishBad, PublishBadError, chainVars
  <2>8. CASE Escalate
    BY <2>8 DEF Escalate, Restart, chainVars
  <2>9. QED
    BY <1>2, <2>1, <2>2, <2>3, <2>4, <2>5, <2>6, <2>7, <2>8 DEF Loop
<1>3. CASE Collect
  BY <1>3 DEF Collect, Confirm, ConfirmStalled, ConfirmError, CollectorStops, CommitOffsets,
              CommitError, chainVars
<1>4. CASE Reconcile
  BY <1>4 DEF Reconcile, ReconcileList, ReconcileReceipt, chainVars
<1>5. CASE \E t \in Txs : Evict(t)
  BY <1>5 DEF Evict
<1>6. CASE Crash
  BY <1>6 DEF Crash, Restart, chainVars
<1>7. CASE UNCHANGED vars
  BY <1>7 DEF vars, chainVars
<1>8. QED
  BY <1>1, <1>2, <1>3, <1>4, <1>5, <1>6, <1>7 DEF Next

\* Executing a transaction keeps the types and keeps what is applied, and its logs of
\* applied actions agree with the contract.
LEMMA ExecuteKeeps ==
    ASSUME CoreType, NEW t \in Txs, NEW decide \in [Range(tx[t].events) -> Outcomes],
           ExecuteAs(t, decide)
    PROVE  /\ chainState' \in States /\ receipt' \in Receipts
           /\ \A e \in Events : chainState[e] = "Applied" => chainState'[e] = "Applied"
           /\ LogsAgree => LogsAgree'
<1>1. Outcomes \subseteq AllOutcomes
  BY AdapterAssumption
<1>2. receipt' = [receipt EXCEPT ![t] = [e \in Events |->
         IF e \in Range(tx[t].events) /\ chainState[e] = "None" THEN decide[e] ELSE "none"]]
  BY DEF ExecuteAs
<1>3. chainState' = [e \in Events |->
         IF e \notin Range(tx[t].events) \/ chainState[e] # "None" THEN chainState[e]
         ELSE IF decide[e] = "applied" THEN "Applied"
         ELSE IF decide[e] = "rejected" THEN "Rejected"
         ELSE "None"]
  BY DEF ExecuteAs
<1>4. chainState' \in States
  BY <1>3 DEF CoreType, States
<1>5. receipt' \in Receipts
  BY <1>1, <1>2 DEF CoreType, Receipts
<1>6. \A e \in Events : chainState[e] = "Applied" => chainState'[e] = "Applied"
  BY <1>3
<1>7. ASSUME LogsAgree PROVE LogsAgree'
  BY <1>2, <1>3, <1>7 DEF LogsAgree, CoreType, Receipts
<1>8. QED
  BY <1>4, <1>5, <1>6, <1>7

-----------------------------------------------------------------------------
(* The invariants *)

\* Whatever a step does to a row, the row stays a row.
LEMMA RowWriteType ==
    ASSUME row \in [Events -> Rows], NEW e \in Events, RowWrite(e)
    PROVE  row'[e] \in Rows
<1> DEFINE r == row[e]
<1>1. /\ r \in Rows /\ NoTx \in {NoTx} \union Txs
      /\ \A t \in Txs : t \in {NoTx} \union Txs
  OBVIOUS
<1>2. [r EXCEPT !.status = "PENDING"] \in Rows /\ Committed(r) \in Rows
  BY <1>1 DEF Rows, Statuses, Committed
<1>3. ASSUME NEW t \in {NoTx} \union Txs PROVE Sent(r, t) \in Rows /\ Failed(r, t) \in Rows
  BY <1>1, <1>3 DEF Rows, Statuses, Sent, Failed
<1>4. ASSUME NEW t \in Txs PROVE Rejected(r, t) \in Rows
  BY <1>1, <1>3, <1>4 DEF Rows, Rejected
<1>5. QED
  BY <1>1, <1>2, <1>3, <1>4 DEF RowWrite, BecomesPending, BecomesSent, BecomesUnsendable,
                               BecomesFailed, BecomesRejected, BecomesCommitted

\* row stays a function on the events.
LEMMA RowDomain ==
    ASSUME CoreType, [Next]_vars
    PROVE  row' = [e \in Events |-> row'[e]]
<1>0. row = [e \in Events |-> row[e]]
  BY DEF CoreType
<1>1. ASSUME NEW ids, NEW t PROVE
        /\ MarkSent(ids, t) = [e \in Events |-> MarkSent(ids, t)[e]]
        /\ MarkFailed(ids, t) = [e \in Events |-> MarkFailed(ids, t)[e]]
        /\ ApplyOutcomes(ids, t) = [e \in Events |-> ApplyOutcomes(ids, t)[e]]
        /\ ApplyOutcomesPartly(ids, t) = [e \in Events |-> ApplyOutcomesPartly(ids, t)[e]]
  BY DEF MarkSent, MarkFailed, ApplyOutcomes, ApplyOutcomesPartly
<1>2. CASE row' = row
  BY <1>0, <1>2
<1>3. CASE \E ids, t : \/ row' = MarkSent(ids, t) \/ row' = MarkFailed(ids, t)
                       \/ row' = ApplyOutcomes(ids, t) \/ row' = ApplyOutcomesPartly(ids, t)
  BY <1>1, <1>3
<1>4. CASE FilterPending
  BY <1>4 DEF FilterPending, CoreType
<1>5. CASE Loop /\ ~FilterPending
  <2>1. CASE FilterReconcile
    <3>1. \/ row' = ApplyOutcomes({Current}, row[Current].tx)
          \/ row' = MarkFailed({Current}, row[Current].tx) \/ row' = row
      BY <2>1 DEF FilterReconcile
    <3>2. QED
      BY <1>2, <1>3, <3>1
  <2>2. CASE SendFailed \/ RecordSent
    BY <1>3, <2>2 DEF SendFailed, RecordSent
  <2>3. CASE FetchMessage \/ FetchBad \/ Tick \/ FilterError \/ FilterDone
    BY <1>2, <2>3 DEF FetchMessage, FetchBad, Tick, FilterError, FilterDone, storeVars
  <2>4. CASE FilterDuplicate \/ FilterSkip \/ RecordFailureError
    BY <1>2, <2>4 DEF FilterDuplicate, FilterSkip, RecordFailureError
  <2>5. CASE SendCalldata \/ SendLost \/ SendError \/ SendRefused \/ RecordSentError
    BY <1>2, <2>5 DEF SendCalldata, SendLost, SendError, SendRefused, RecordSentError, storeVars
  <2>6. CASE Submit \/ SubmitBad \/ PublishBad \/ PublishBadError \/ Escalate
    BY <1>2, <2>6 DEF Submit, SubmitBad, SubmitBatch, PublishBad, PublishBadError, Escalate,
                      Restart, storeVars
  <2>7. QED
    BY <1>5, <2>1, <2>2, <2>3, <2>4, <2>5, <2>6 DEF Loop
<1>6. ASSUME NEW t \in Txs, Confirm(t) PROVE row' = [e \in Events |-> row'[e]]
  BY <1>3, <1>6 DEF Confirm
<1>7. ASSUME NEW t \in Txs, ConfirmStalled(t) \/ ConfirmError(t)
      PROVE  row' = [e \in Events |-> row'[e]]
  BY <1>2, <1>3, <1>7 DEF ConfirmStalled, ConfirmError
<1>8. CASE CommitOffsets \/ CommitError \/ ReconcileList \/ MineNext \/ Crash \/ UNCHANGED vars
  BY <1>2, <1>8 DEF CommitOffsets, CommitError, ReconcileList, MineNext, Mine, Crash, Restart,
                    vars, storeVars
<1>9. ASSUME NEW t \in Txs, ReconcileReceipt(t) PROVE row' = [e \in Events |-> row'[e]]
  <2>1. \/ row' = ApplyOutcomes(sweep[t], t) \/ row' = MarkFailed(sweep[t], t)
        \/ row' = row
        \/ row' = IF tx[t].state = "ok" /\ Resolvable(sweep[t], t)
                  THEN ApplyOutcomesPartly(sweep[t], t) ELSE row
    BY <1>9, Zenon DEF ReconcileReceipt
  <2>2. QED
    BY <1>2, <1>3, <2>1
<1>10. CASE \E t \in Txs : Evict(t)
  BY <1>2, <1>10 DEF Evict, storeVars
<1>11. QED
  BY <1>4, <1>5, <1>6, <1>7, <1>8, <1>9, <1>10 DEF Next, Collect, Reconcile

\* Only a broadcast counts a transaction and only it leaves one to be recorded.
LEMMA CountStep ==
    ASSUME CoreType, [Next]_vars
    PROVE  ntx' \in 0..MaxTx /\ (pc' = "mark" => ntx' \in Txs)
<1>1. MaxTx \in Nat /\ ntx \in 0..MaxTx /\ (pc = "mark" => ntx \in Txs)
  BY AdapterAssumption DEF CoreType
<1>2. CASE ntx' = ntx /\ (pc' = pc \/ pc' # "mark")
  BY <1>1, <1>2
<1>3. CASE SendCalldata \/ SendLost
  <2>1. ntx < MaxTx /\ ntx' = ntx + 1
    BY <1>3 DEF SendCalldata, SendLost, Broadcast
  <2>2. QED
    BY <1>1, <2>1 DEF Txs
<1>4. ASSUME NEW msgs, BeginSegment(msgs) PROVE pc' # "mark"
  BY <1>4 DEF BeginSegment
<1>5. ASSUME EndSend PROVE pc' # "mark"
  BY <1>5 DEF EndSend
<1>6. ASSUME NEW n, AfterPrefix(n) PROVE pc' # "mark"
  BY <1>4, <1>6 DEF AfterPrefix
<1>7. CASE FetchMessage \/ FetchBad \/ Tick
  BY <1>2, <1>4, <1>7 DEF FetchMessage, FetchBad, Tick, DrainSend, chainVars
<1>8. CASE FilterDuplicate \/ FilterPending \/ FilterSkip \/ FilterReconcile
  BY <1>2, <1>8 DEF FilterDuplicate, FilterPending, FilterSkip, FilterReconcile, Filtering,
                    loopVars, chainVars
<1>9. CASE FilterError \/ FilterDone
  BY <1>2, <1>4, <1>5, <1>9 DEF FilterError, FilterDone, Unshift, chainVars
<1>10. CASE SendFailed \/ RecordSent
  BY <1>2, <1>6, <1>10 DEF SendFailed, RecordSent, chainVars
<1>11. CASE RecordFailureError \/ SendError \/ SendRefused \/ RecordSentError
  BY <1>2, <1>5, <1>11 DEF RecordFailureError, SendError, SendRefused, RecordSentError, Unshift,
                           chainVars
<1>12. CASE Submit \/ SubmitBad \/ PublishBad \/ PublishBadError \/ Escalate
  BY <1>2, <1>5, <1>12 DEF Submit, SubmitBad, SubmitBatch, PublishBad, PublishBadError, Escalate,
                           Restart, chainVars
<1>13. CASE Collect
  BY <1>2, <1>13 DEF Collect, Confirm, ConfirmStalled, ConfirmError, CollectorStops,
                     CommitOffsets, CommitError, loopVars, chainVars
<1>14. CASE Reconcile
  BY <1>2, <1>14 DEF Reconcile, ReconcileList, ReconcileReceipt, loopVars, chainVars
<1>15. CASE MineNext \/ (\E t \in Txs : Evict(t))
  BY <1>2, <1>15 DEF MineNext, Mine, Evict, loopVars
<1>16. CASE Crash \/ UNCHANGED vars
  BY <1>2, <1>16 DEF Crash, Restart, vars, loopVars, chainVars
<1>17. QED
  BY <1>3, <1>7, <1>8, <1>9, <1>10, <1>11, <1>12, <1>13, <1>14, <1>15, <1>16 DEF Next, Loop

LEMMA CoreTypeInit ==
    ASSUME Init
    PROVE  CoreType
BY AdapterAssumption DEF Init, CoreType, Rows, NoRow, Statuses, States, Receipts

LEMMA CoreTypeStep ==
    ASSUME CoreType, [Next]_vars
    PROVE  CoreType'
<1>1. row' \in [Events -> Rows]
  <2>1. row \in [Events -> Rows]
    BY DEF CoreType
  <2>2. \A e \in Events : row'[e] \in Rows
    BY <2>1, StepWrites, RowWriteType
  <2>3. QED
    BY <2>2, RowDomain
<1>2. chainState' \in States /\ receipt' \in Receipts
  <2>1. CASE receipt' = receipt /\ chainState' = chainState
    BY <2>1 DEF CoreType
  <2>2. QED
    BY <2>1, ChainStep, ExecuteKeeps
<1>3. QED
  BY <1>1, <1>2, CountStep DEF CoreType

\* The database, the receipts and the contracts keep their types.
THEOREM CoreTypeCorrect == Spec => []CoreType
<1>1. Init => CoreType
  BY CoreTypeInit
<1>2. CoreType /\ [Next]_vars => CoreType'
  BY CoreTypeStep
<1>3. QED
  BY <1>1, <1>2, PTL DEF Spec

\* A COMMITTED row is an applied action on the chain: in every interleaving of the
\* consumer loop, the collector and the reconciler, and through any faults and restarts.
THEOREM CommittedIsApplied == Spec => []CommittedApplied
<1> DEFINE Inv == CommittedApplied /\ LogsAgree
<1>1. Init => Inv
  BY DEF Init, CommittedApplied, LogsAgree, NoRow
<1>2. CoreType /\ Inv /\ [Next]_vars => Inv'
  <2> SUFFICES ASSUME CoreType, Inv, [Next]_vars PROVE Inv'
    OBVIOUS
  <2>1. /\ \A e \in Events : chainState[e] = "Applied" => chainState'[e] = "Applied"
        /\ LogsAgree'
    <3>1. CASE receipt' = receipt /\ chainState' = chainState
      BY <3>1 DEF LogsAgree
    <3>2. QED
      BY <3>1, ChainStep, ExecuteKeeps
  <2>2. ASSUME NEW e \in Events, row'[e].status = "COMMITTED" PROVE chainState[e] = "Applied"
    <3>1. row[e] \in Rows /\ RowWrite(e)
      BY StepWrites DEF CoreType
    <3>2. CASE row[e].status = "COMMITTED"
      BY <3>2 DEF CommittedApplied
    <3>3. CASE row[e].status # "COMMITTED"
      <4>1. ASSUME NEW t PROVE /\ Sent(row[e], t).status = "SENT"
                               /\ Failed(row[e], t).status = "FAILED"
                               /\ Rejected(row[e], t).status = "FAILED"
        BY <3>1, <3>3 DEF Sent, Failed, Rejected, Rows
      <4>2. BecomesCommitted(e)
        BY <2>2, <3>1, <3>3, <4>1
           DEF RowWrite, BecomesPending, BecomesSent, BecomesUnsendable, BecomesFailed,
               BecomesRejected, Rows
      <4>3. PICK t \in Txs : Outcome(t, e) = "applied"
        BY <4>2 DEF BecomesCommitted
      <4>4. QED
        BY <4>3 DEF Outcome, LogOutcome, StateOutcome, LogsAgree
    <3>4. QED
      BY <3>2, <3>3
  <2>3. QED
    BY <2>1, <2>2 DEF CommittedApplied
<1>3. QED
  BY <1>1, <1>2, CoreTypeCorrect, PTL DEF Spec

\* An action that failed without a transaction is in the dead letter topic, whichever
\* write of recordFailure fails and whenever the process restarts.
THEOREM FailedIsInDLQ == Spec => []FailedInDLQ
<1>1. Init => FailedInDLQ
  BY DEF Init, FailedInDLQ, NoRow
<1>2. CoreType /\ FailedInDLQ /\ [Next]_vars => FailedInDLQ'
  <2> SUFFICES ASSUME CoreType, FailedInDLQ, [Next]_vars, NEW e \in Events,
                      row'[e].status = "FAILED", row'[e].tx = NoTx
               PROVE  e \in dlqEvents'
    BY DEF FailedInDLQ
  <2>1. row[e] \in Rows /\ RowWrite(e) /\ dlqEvents \subseteq dlqEvents'
    BY StepWrites DEF CoreType
  <2>2. CASE row'[e] = row[e]
    BY <2>1, <2>2 DEF FailedInDLQ
  <2>3. CASE row[e].status = "COMMITTED"
    BY <2>1, <2>2, <2>3 DEF RowWrite, BecomesSent, BecomesUnsendable, BecomesFailed,
       BecomesRejected, BecomesCommitted, Sent, Failed, Rejected, Committed, Rows
  <2>4. CASE row[e].status # "COMMITTED"
    <3>1. ASSUME NEW t \in Txs PROVE /\ Sent(row[e], t).status = "SENT"
                                     /\ Failed(row[e], t).tx = t /\ t # NoTx
                                     /\ Rejected(row[e], t).tx = t
      BY <2>1, <2>4 DEF Sent, Failed, Rejected, Rows, Txs, NoTx
    <3>2. Committed(row[e]).status = "COMMITTED"
      BY <2>1 DEF Committed, Rows
    <3>3. QED
      BY <2>1, <2>2, <2>4, <3>1, <3>2
         DEF RowWrite, BecomesPending, BecomesSent, BecomesUnsendable, BecomesFailed,
             BecomesRejected, BecomesCommitted, Rows
  <2>5. QED
    BY <2>3, <2>4
<1>3. QED
  BY <1>1, <1>2, CoreTypeCorrect, PTL DEF Spec

-----------------------------------------------------------------------------
(* Lengths and nonces that are chosen *)

\* A set of naturals has a least element.
LEMMA Least ==
    ASSUME NEW S \in SUBSET Nat, S # {}
    PROVE  \E n \in S : \A m \in S : n <= m
<1>1. PICK n \in S : \A m \in S : ~ (<<m, n>> \in OpToRel(<, Nat))
  BY NatLessThanWellFounded, WFMin, Zenon
<1>2. \A m \in S : ~ (m < n)
  BY <1>1 DEF OpToRel
<1> QED BY <1>2

\* splitSegments cuts somewhere in the batch.
LEMMA SegmentLengthType ==
    ASSUME NEW S, NEW msgs \in Seq(S), msgs # <<>>
    PROVE  SegmentLength(msgs) \in 1..Len(msgs)
<1> DEFINE D == {n \in 1..Len(msgs) : n < Len(msgs) => Kind(msgs[n + 1]) # Kind(msgs[1])}
<1>1. Len(msgs) \in Nat \ {0}
  OBVIOUS
<1>2. D \in SUBSET Nat /\ Len(msgs) \in D
  BY <1>1
<1>3. PICK n \in D : \A m \in D : n <= m
  BY <1>2, Least
<1>4. n \in 1..Len(msgs) /\ (n < Len(msgs) => Kind(msgs[n + 1]) # Kind(msgs[1]))
  BY <1>3
<1>5. ASSUME NEW i \in 1..n PROVE Kind(msgs[i]) = Kind(msgs[1])
  <2>1. CASE i = 1
    BY <2>1
  <2>2. CASE i # 1
    <3> DEFINE k == i - 1
    <3>1. k \in 1..Len(msgs) /\ k < Len(msgs) /\ k + 1 = i /\ ~(n <= k)
      BY <1>1, <1>4, <1>5, <2>2
    <3>2. k \notin D
      BY <1>3, <3>1
    <3> HIDE DEF k
    <3>3. Kind(msgs[k + 1]) = Kind(msgs[1])
      BY <3>1, <3>2
    <3> QED BY <3>1, <3>3
  <2> QED BY <2>1, <2>2
<1> HIDE DEF D
<1>6. \E m \in 1..Len(msgs) :
        /\ \A i \in 1..m : Kind(msgs[i]) = Kind(msgs[1])
        /\ m < Len(msgs) => Kind(msgs[m + 1]) # Kind(msgs[1])
  BY <1>4, <1>5
<1> QED BY <1>6, Zenon DEF SegmentLength

\* maxActionChunk takes at least one action, and no more than there are.
LEMMA ChunkLengthType ==
    ASSUME NEW S, pending \in Seq(S), pending # <<>>
    PROVE  ChunkLength \in 1..Len(pending)
<1> DEFINE packs(n) == n <= MaxChunk /\ \A i \in 1..n : log[pending[i]] \notin Unpackable
           D == {n \in 1..Len(pending) : n = Len(pending) \/ ~packs(n + 1)}
<1>1. Len(pending) \in Nat \ {0}
  OBVIOUS
<1>2. D \in SUBSET Nat /\ Len(pending) \in D
  BY <1>1
<1>3. PICK n \in D : \A m \in D : n <= m
  BY <1>2, Least
<1>4. n \in 1..Len(pending) /\ (n = Len(pending) \/ ~packs(n + 1))
  BY <1>3
<1>5. n = 1 \/ packs(n)
  <2> SUFFICES ASSUME n # 1 PROVE packs(n)
    OBVIOUS
  <2> DEFINE k == n - 1
  <2>1. k \in 1..Len(pending) /\ k # Len(pending) /\ k + 1 = n /\ ~(n <= k)
    BY <1>1, <1>4
  <2>2. k \notin D
    BY <1>3, <2>1
  <2> HIDE DEF k
  <2>3. packs(k + 1)
    BY <2>1, <2>2
  <2> QED BY <2>1, <2>3
<1>6. \E m \in 1..Len(pending) : (m = 1 \/ packs(m)) /\ (m = Len(pending) \/ ~packs(m + 1))
  <2> HIDE DEF packs, D
  <2> QED BY <1>4, <1>5
<1>7. ChunkLength = CHOOSE m \in 1..Len(pending) :
                        (m = 1 \/ packs(m)) /\ (m = Len(pending) \/ ~packs(m + 1))
  BY DEF ChunkLength
<1> HIDE DEF packs, D
<1> QED BY <1>6, <1>7, Zenon

\* So does a recordFailure of sendActions.
LEMMA FailureLengthType ==
    ASSUME NEW S, pending \in Seq(S), pending # <<>>
    PROVE  FailureLength \in 1..Len(pending)
<1>1. Len(pending) \in Nat \ {0}
  OBVIOUS
<1> QED BY <1>1, ChunkLengthType DEF FailureLength

\* There are fewer transactions than nonces to choose from: PendingNonceAt finds a free one,
\* and the pool has all before it.
LEMMA PendingNonceType ==
    ASSUME chainNonce \in Nat
    PROVE  /\ PendingNonce \in Nat /\ PendingNonce >= chainNonce
           /\ PoolAt(PendingNonce) = {}
           /\ \A m \in chainNonce..(PendingNonce - 1) : PoolAt(m) # {}
<1> DEFINE N == chainNonce..(chainNonce + MaxTx)
           D == {n \in N : PoolAt(n) = {}}
<1>0. MaxTx \in Nat
  BY AdapterAssumption
<1>1. D # {}
  <2> SUFFICES ASSUME D = {} PROVE FALSE
    OBVIOUS
  <2> DEFINE f == [n \in N |-> CHOOSE t \in Txs : t \in PoolAt(n)]
  <2>1. ASSUME NEW n \in N PROVE \E t \in Txs : t \in PoolAt(n)
    BY DEF PoolAt
  <2>2. ASSUME NEW n \in N PROVE f[n] \in Txs /\ f[n] \in PoolAt(n)
    <3>1. f[n] = CHOOSE t \in Txs : t \in PoolAt(n)
      OBVIOUS
    <3> QED BY <2>1, <3>1, Zenon
  <2>3. IsFiniteSet(Txs) /\ Cardinality(Txs) = MaxTx
    <3>1. 1 \in Int /\ MaxTx \in Int
      BY <1>0
    <3>2. IsFiniteSet(1..MaxTx)
          /\ Cardinality(1..MaxTx) = IF 1 > MaxTx THEN 0 ELSE MaxTx - 1 + 1
      BY <3>1, FS_Interval
    <3> QED BY <1>0, <3>2 DEF Txs
  <2>4. IsFiniteSet(N) /\ Cardinality(N) = MaxTx + 1
    <3>1. PICK top \in Int : top = chainNonce + MaxTx
      BY <1>0
    <3>2. IsFiniteSet(chainNonce..top)
          /\ Cardinality(chainNonce..top) = IF chainNonce > top THEN 0 ELSE top - chainNonce + 1
      BY FS_Interval
    <3> QED BY <1>0, <3>1, <3>2
  <2>5. f \in [N -> Txs]
    BY <2>2
  <2>6. PICK x \in N, y \in N : x # y /\ f[x] = f[y]
    <3>1. Cardinality(Txs) < Cardinality(N)
      BY <1>0, <2>3, <2>4
    <3> HIDE DEF N, f
    <3> QED BY <2>3, <2>4, <2>5, <3>1, FS_PigeonHole
  <2>7. tx[f[x]].nonce = x /\ tx[f[y]].nonce = y
    <3>1. f[x] \in PoolAt(x) /\ f[y] \in PoolAt(y)
      BY <2>2
    <3> HIDE DEF f
    <3> QED BY <3>1 DEF PoolAt
  <2> QED BY <2>6, <2>7
<1>2. D \in SUBSET Nat
  BY <1>0
<1>3. PICK n \in D : \A m \in D : n <= m
  BY <1>1, <1>2, Least
<1>4. n \in N /\ n \in Nat /\ PoolAt(n) = {}
  BY <1>2, <1>3
<1>5. ASSUME NEW m \in chainNonce..(n - 1) PROVE PoolAt(m) # {}
  <2>1. m \in N /\ ~(n <= m)
    BY <1>0, <1>4, <1>5
  <2> QED BY <1>3, <2>1
<1> HIDE DEF D
<1>6. \E k \in N : PoolAt(k) = {} /\ \A m \in chainNonce..(k - 1) : PoolAt(m) # {}
  BY <1>4, <1>5
<1>7. /\ PendingNonce \in N
      /\ PoolAt(PendingNonce) = {}
      /\ \A m \in chainNonce..(PendingNonce - 1) : PoolAt(m) # {}
  BY <1>6, Zenon DEF PendingNonce
<1> QED BY <1>0, <1>7

-----------------------------------------------------------------------------
(* The queues of the consumer loop *)

\* The messages that parse.
Good == {p \in Messages : Parses(p)}

\* The loop is in Send, or about to submit what it sent.
Working == pc \in {"filter", "send", "mark", "submit"}

\* What is queued parses, and where the loop works on messages there are some.
LoopType ==
    /\ batcher \in Seq(Good) /\ batch \in Seq(Good) /\ rest \in Seq(Good)
    /\ segment \in Seq(Good) /\ pending \in Seq(Good)
    /\ seen \subseteq Events
    /\ fetched \in 0..Len(log) /\ badMsg \in 0..Len(log)
    /\ pc \in {"poll", "filter", "send", "mark", "submit", "dlq", "submitBad"}
    /\ Working => batch # <<>>
    /\ pc \in {"send", "mark"} => pending # <<>>
    /\ pc \in {"dlq", "submitBad"} => badMsg # 0

LogType == log \in Seq(Events \union {Bad})

\* The transactions broadcast so far; the one that waits to be recorded carries the first
\* pending messages.
TxType ==
    /\ ntx \in 0..MaxTx
    /\ tx \in [Txs -> [nonce : Nat, events : Seq(Events), state : TxStates]]
    /\ \A t \in Txs : tx[t].state = "none" <=> t > ntx
    /\ \A t \in Txs : tx[t].state = "none" => tx[t].events = <<>>
    /\ pc = "mark" =>
         /\ ntx \in Txs
         /\ Len(tx[ntx].events) \in 1..Len(pending)
         /\ \A i \in 1..Len(tx[ntx].events) : tx[ntx].events[i] = log[pending[i]]

\* a and b are s, cut behind its first n elements.
Cut(s, n, a, b) ==
    /\ Len(a) = n /\ Len(b) = Len(s) - n
    /\ \A i \in 1..n : a[i] = s[i]
    /\ \A i \in 1..(Len(s) - n) : b[i] = s[n + i]

\* Nobody rewrites the log.
LEMMA LogFixed ==
    ASSUME [Next]_vars
    PROVE  log' = log /\ Messages' = Messages /\ Good' = Good
<1> SUFFICES log' = log
  BY DEF Messages, Good, Parses
<1>1. CASE Loop
  <2>1. CASE FetchMessage \/ FetchBad \/ Tick \/ FilterError \/ FilterDone
    BY <2>1 DEF FetchMessage, FetchBad, Tick, FilterError, FilterDone, storeVars
  <2>2. CASE FilterDuplicate \/ FilterPending \/ FilterSkip \/ FilterReconcile
    BY <2>2 DEF FilterDuplicate, FilterPending, FilterSkip, FilterReconcile, Filtering
  <2>3. CASE SendFailed \/ RecordFailureError \/ RecordSent \/ RecordSentError
    BY <2>3 DEF SendFailed, RecordFailureError, RecordSent, RecordSentError, storeVars
  <2>4. CASE SendCalldata \/ SendLost \/ SendError \/ SendRefused
    BY <2>4 DEF SendCalldata, SendLost, SendError, SendRefused, storeVars
  <2>5. CASE Submit \/ PublishBad \/ PublishBadError \/ SubmitBad \/ Escalate
    BY <2>5 DEF Submit, PublishBad, PublishBadError, SubmitBad, SubmitBatch, Escalate, Restart,
                storeVars
  <2> QED BY <1>1, <2>1, <2>2, <2>3, <2>4, <2>5 DEF Loop
<1>2. CASE ~Loop
  <2>1. CASE Collect
    BY <2>1 DEF Collect, Confirm, ConfirmStalled, ConfirmError, CollectorStops, CommitOffsets,
                CommitError, storeVars
  <2>2. CASE Reconcile
    BY <2>2 DEF Reconcile, ReconcileList, ReconcileReceipt, storeVars
  <2>3. CASE MineNext \/ (\E t \in Txs : Evict(t)) \/ Crash \/ UNCHANGED vars
    BY <2>3 DEF MineNext, Mine, Evict, Crash, Restart, vars, storeVars
  <2> QED BY <1>2, <2>1, <2>2, <2>3 DEF Next
<1> QED BY <1>1, <1>2

\* What the loop has for itself changes only in its steps and in a restart.
LoopStays == UNCHANGED <<batcher, batch, rest, segment, seen, pending, inflight, fetched, pc,
                         badMsg, nonce>>

LEMMA OthersLeaveLoop ==
    ASSUME Collect \/ Reconcile \/ MineNext \/ (\E t \in Txs : Evict(t)) \/ UNCHANGED vars
    PROVE  LoopStays
<1> USE DEF LoopStays, sendVars, loopVars
<1>1. CASE Collect
  BY <1>1 DEF Collect, Confirm, ConfirmStalled, ConfirmError, CollectorStops, CommitOffsets,
              CommitError
<1>2. CASE Reconcile
  BY <1>2 DEF Reconcile, ReconcileList, ReconcileReceipt
<1>3. CASE MineNext \/ (\E t \in Txs : Evict(t)) \/ UNCHANGED vars
  BY <1>3 DEF MineNext, Mine, Evict, vars
<1> QED BY <1>1, <1>2, <1>3

\* The next segment and the rest behind it, or nothing is left.
LEMMA BeginSegmentSplits ==
    ASSUME NEW S, NEW msgs \in Seq(S), BeginSegment(msgs)
    PROVE  /\ seen' = {} /\ pending' = <<>>
           /\ segment' \in Seq(S) /\ rest' \in Seq(S)
           /\ msgs = <<>> => pc' = "submit" /\ segment' = <<>> /\ rest' = <<>>
           /\ msgs # <<>> => /\ pc' = "filter"
                             /\ \E n \in 1..Len(msgs) : Cut(msgs, n, segment', rest')
<1>1. CASE msgs = <<>>
  BY <1>1 DEF BeginSegment
<1>2. CASE msgs # <<>>
  <2>1. PICK n \in 1..Len(msgs) : n = SegmentLength(msgs)
    BY <1>2, SegmentLengthType
  <2>2. /\ seen' = {} /\ pending' = <<>> /\ pc' = "filter"
        /\ segment' = SubSeq(msgs, 1, n) /\ rest' = SubSeq(msgs, n + 1, Len(msgs))
    BY <1>2, <2>1 DEF BeginSegment
  <2>3. Len(msgs) \in Nat
    OBVIOUS
  <2>4. segment' \in Seq(S) /\ rest' \in Seq(S)
    BY <2>2, <2>3
  <2>5. Cut(msgs, n, segment', rest')
    BY <2>2, <2>3 DEF Cut
  <2> QED BY <1>2, <2>2, <2>4, <2>5
<1> QED BY <1>1, <1>2

\* After a chunk: what is left of the segment, or the next one.
LEMMA AfterPrefixLeaves ==
    ASSUME NEW S, pending \in Seq(S), NEW n \in 1..Len(pending), AfterPrefix(n)
    PROVE  \/ n = Len(pending) /\ BeginSegment(rest)
           \/ /\ n < Len(pending) /\ pc' = "send"
              /\ pending' \in Seq(S) /\ pending' # <<>>
              /\ Len(pending') = Len(pending) - n
              /\ \A i \in 1..(Len(pending) - n) : pending'[i] = pending[n + i]
              /\ UNCHANGED <<rest, segment, seen>>
<1>1. CASE n = Len(pending)
  BY <1>1 DEF AfterPrefix
<1>2. CASE n # Len(pending)
  <2>1. Len(pending) \in Nat /\ n < Len(pending)
    BY <1>2
  <2>2. /\ pc' = "send" /\ pending' = SubSeq(pending, n + 1, Len(pending))
        /\ UNCHANGED <<rest, segment, seen>>
    BY <1>2 DEF AfterPrefix
  <2>3. /\ pending' \in Seq(S) /\ Len(pending') = Len(pending) - n
        /\ \A i \in 1..(Len(pending) - n) : pending'[i] = pending[n + i]
    BY <2>1, <2>2
  <2>4. pending' # <<>>
    BY <2>1, <2>3
  <2> QED BY <2>1, <2>2, <2>3, <2>4
<1> QED BY <1>1, <1>2

\* A message that parses carries an event.
LEMMA GoodEvent ==
    ASSUME LogType, NEW p \in Good
    PROVE  log[p] \in Events /\ p \in 1..Len(log)
BY DEF LogType, Good, Parses, Messages

\* Unshift and a restart leave the loop outside Send.
LEMMA UnshiftType ==
    ASSUME LoopType, Unshift, log' = log, Good' = Good
    PROVE  LoopType'
BY DEF LoopType, Unshift, EndSend, Working

LEMMA LoopTypeStep ==
    ASSUME LogType, LoopType, committed \in 0..Len(log), TxType, [Next]_vars
    PROVE  LoopType'
<1>1. log' = log /\ Good' = Good
  BY LogFixed
<1>2. Len(log) \in Nat
  BY DEF LogType
<1>3. CASE LoopStays
  BY <1>1, <1>3 DEF LoopStays, LoopType, Working
<1>4. ASSUME NEW msgs \in Seq(Good), msgs # <<>>, DrainSend(msgs),
             fetched' \in 0..Len(log), badMsg' \in 0..Len(log)
      PROVE  LoopType'
  <2>1. BeginSegment(msgs) /\ batcher' = <<>> /\ batch' = msgs
    BY <1>4 DEF DrainSend
  <2>2. /\ seen' = {} /\ pending' = <<>> /\ pc' = "filter"
        /\ segment' \in Seq(Good) /\ rest' \in Seq(Good)
    BY <1>4, <2>1, BeginSegmentSplits
  <2> QED BY <1>1, <1>4, <2>1, <2>2 DEF LoopType, Working
<1>5. ASSUME BeginSegment(rest), Working, UNCHANGED <<batcher, batch, fetched, badMsg>>
      PROVE  LoopType'
  <2>1. rest \in Seq(Good)
    BY DEF LoopType
  <2>2. /\ seen' = {} /\ pending' = <<>> /\ pc' \in {"filter", "submit"}
        /\ segment' \in Seq(Good) /\ rest' \in Seq(Good)
    BY <1>5, <2>1, BeginSegmentSplits
  <2> QED BY <1>1, <1>5, <2>2 DEF LoopType, Working
<1>6. ASSUME NEW n \in 1..Len(pending), AfterPrefix(n), Working,
             UNCHANGED <<batcher, batch, fetched, badMsg>>
      PROVE  LoopType'
  <2>1. pending \in Seq(Good)
    BY DEF LoopType
  <2>2. CASE BeginSegment(rest)
    BY <1>5, <1>6, <2>2
  <2>3. CASE /\ pc' = "send" /\ pending' \in Seq(Good) /\ pending' # <<>>
             /\ UNCHANGED <<rest, segment, seen>>
    BY <1>1, <1>6, <2>3 DEF LoopType, Working
  <2> QED BY <1>6, <2>1, <2>2, <2>3, AfterPrefixLeaves
<1>7. CASE FetchMessage
  <2> DEFINE msgs == Append(batcher, NextMsg)
  <2>1. /\ pc = "poll" /\ fetched' = NextMsg /\ badMsg' = badMsg
        /\ NextMsg \in Good /\ fetched' \in 0..Len(log)
    BY <1>2, <1>7 DEF FetchMessage, NextMsg, Good, Messages, LoopType
  <2>2. msgs \in Seq(Good) /\ msgs # <<>>
    BY <2>1 DEF LoopType
  <2>3. CASE batcher' = msgs /\ UNCHANGED <<pc, sendVars>>
    BY <1>1, <2>1, <2>2, <2>3 DEF LoopType, Working, sendVars
  <2>4. CASE DrainSend(msgs)
    <3>1. badMsg' \in 0..Len(log)
      BY <2>1 DEF LoopType
    <3> HIDE DEF msgs
    <3> QED BY <1>4, <2>1, <2>2, <2>4, <3>1
  <2> QED BY <1>7, <2>3, <2>4 DEF FetchMessage
<1>8. CASE FetchBad
  <2>1. /\ pc = "poll" /\ fetched' = NextMsg /\ badMsg' = NextMsg
        /\ NextMsg \in 1..Len(log)
    BY <1>2, <1>8 DEF FetchBad, NextMsg, LoopType
  <2>2. CASE batcher = <<>>
    <3>1. pc' = "dlq" /\ UNCHANGED <<batcher, sendVars>>
      BY <1>8, <2>2 DEF FetchBad
    <3> QED BY <1>1, <1>2, <2>1, <3>1 DEF LoopType, Working, sendVars
  <2>3. CASE batcher # <<>>
    <3>1. DrainSend(batcher) /\ batcher \in Seq(Good)
      BY <1>8, <2>3 DEF FetchBad, LoopType
    <3> QED BY <1>2, <1>4, <2>1, <2>3, <3>1
  <2> QED BY <2>2, <2>3
<1>9. CASE Tick
  BY <1>4, <1>9 DEF Tick, LoopType
<1>10. CASE FilterDuplicate \/ FilterPending \/ FilterSkip \/ FilterReconcile
  <2>1. /\ pc = "filter" /\ segment # <<>> /\ segment' = Tail(segment)
        /\ seen' = seen \union {Current}
        /\ UNCHANGED <<batch, rest, batcher, fetched, badMsg, pc>>
        /\ pending' = pending \/ pending' = Append(pending, segment[1])
    BY <1>10 DEF FilterDuplicate, FilterPending, FilterSkip, FilterReconcile, Filtering, loopVars
  <2>2. segment \in Seq(Good) /\ segment[1] \in Good
    BY <2>1 DEF LoopType
  <2>3. Current \in Events
    BY <2>2, GoodEvent DEF Current
  <2>4. segment' \in Seq(Good) /\ pending' \in Seq(Good)
    <3>1. Tail(segment) \in Seq(Good)
      BY <2>1, <2>2
    <3>2. pending \in Seq(Good) /\ Append(pending, segment[1]) \in Seq(Good)
      BY <2>2 DEF LoopType
    <3> QED BY <2>1, <3>1, <3>2
  <2>5. pc' = "filter"
    BY <2>1
  <2> QED BY <1>1, <2>1, <2>3, <2>4, <2>5 DEF LoopType, Working
<1>11. CASE FilterDone
  <2>1. pc = "filter" /\ UNCHANGED <<batch, batcher, fetched, badMsg>>
    BY <1>11 DEF FilterDone
  <2>2. CASE pending = <<>>
    BY <1>5, <1>11, <2>1, <2>2 DEF FilterDone, Working
  <2>3. CASE pending # <<>>
    BY <1>1, <1>11, <2>1, <2>3 DEF FilterDone, LoopType, Working
  <2> QED BY <2>2, <2>3
<1>12. CASE FilterError \/ RecordFailureError \/ SendLost \/ SendError \/ SendRefused
            \/ RecordSentError
  BY <1>1, <1>12, UnshiftType
     DEF FilterError, RecordFailureError, SendLost, SendError, SendRefused, RecordSentError
<1>13. CASE SendFailed
  <2>1. pc = "send" /\ AfterPrefix(FailureLength) /\ UNCHANGED <<batch, batcher, fetched, badMsg>>
    BY <1>13 DEF SendFailed
  <2>2. FailureLength \in 1..Len(pending)
    BY <2>1, FailureLengthType DEF LoopType
  <2> QED BY <1>6, <2>1, <2>2 DEF Working
<1>14. CASE SendCalldata
  <2>1. pc = "send" /\ pc' = "mark" /\ UNCHANGED <<sendVars, fetched, batcher, badMsg>>
    BY <1>14 DEF SendCalldata
  <2> QED BY <1>1, <2>1 DEF LoopType, Working, sendVars
<1>15. CASE RecordSent
  <2>1. /\ pc = "mark" /\ AfterPrefix(Len(tx[ntx].events))
        /\ UNCHANGED <<batch, batcher, fetched, badMsg>>
    BY <1>15 DEF RecordSent
  <2>2. Len(tx[ntx].events) \in 1..Len(pending)
    BY <2>1 DEF TxType
  <2> QED BY <1>6, <2>1, <2>2 DEF Working
<1>16. CASE Submit
  BY <1>1, <1>16 DEF Submit, EndSend, LoopType, Working
<1>17. CASE PublishBad \/ PublishBadError \/ SubmitBad
  BY <1>1, <1>2, <1>17 DEF PublishBad, PublishBadError, SubmitBad, LoopType, Working, sendVars
<1>18. CASE Escalate \/ Crash
  <2>1. /\ fetched' = committed /\ batcher' = <<>> /\ pc' = "poll" /\ badMsg' = 0
        /\ batch' = <<>> /\ rest' = <<>> /\ segment' = <<>> /\ seen' = {} /\ pending' = <<>>
    BY <1>18 DEF Escalate, Crash, Restart
  <2> QED BY <1>1, <1>2, <2>1 DEF LoopType, Working
<1> QED BY <1>3, <1>7, <1>8, <1>9, <1>10, <1>11, <1>12, <1>13, <1>14, <1>15, <1>16, <1>17, <1>18,
           OthersLeaveLoop DEF Next, Loop

-----------------------------------------------------------------------------
(* The transactions *)

NonceType == nonce \in Nat /\ chainNonce \in Nat \ {0}

LEMMA SeededNonceType ==
    ASSUME NonceType
    PROVE  SeededNonce \in Nat /\ SeededNonce # 0
<1>1. PendingNonce \in Nat /\ PendingNonce >= chainNonce
  BY PendingNonceType DEF NonceType
<1> QED BY <1>1 DEF SeededNonce, NonceType

TxStays == UNCHANGED <<ntx, tx, receipt, chainNonce, chainState>>

\* A broadcast of the loop, of a transaction it goes on to record or one whose answer is lost.
BroadcastLost == SendLost /\ Broadcast({}) /\ Unshift
BroadcastSent == SendCalldata /\ Broadcast(PoolAt(SeededNonce)) /\ pc' = "mark"

\* Transactions are broadcast, mined and evicted; nothing else happens to them.
LEMMA TxSteps ==
    ASSUME [Next]_vars
    PROVE  TxStays \/ BroadcastLost \/ BroadcastSent \/ MineNext \/ (\E t \in Txs : Evict(t))
<1> USE DEF TxStays, chainVars
<1>1. CASE Loop
  <2>1. CASE SendCalldata \/ SendLost
    BY <2>1 DEF SendCalldata, SendLost, BroadcastLost, BroadcastSent
  <2>2. CASE FetchMessage \/ FetchBad \/ Tick
    BY <2>2 DEF FetchMessage, FetchBad, Tick
  <2>3. CASE FilterDuplicate \/ FilterPending \/ FilterSkip \/ FilterReconcile
    BY <2>3 DEF FilterDuplicate, FilterPending, FilterSkip, FilterReconcile, Filtering
  <2>4. CASE FilterError \/ FilterDone
    BY <2>4 DEF FilterError, FilterDone
  <2>5. CASE SendFailed \/ RecordFailureError \/ SendError \/ SendRefused
    BY <2>5 DEF SendFailed, RecordFailureError, SendError, SendRefused
  <2>6. CASE RecordSent \/ RecordSentError
    BY <2>6 DEF RecordSent, RecordSentError
  <2>7. CASE Submit \/ SubmitBad \/ PublishBad \/ PublishBadError
    BY <2>7 DEF Submit, SubmitBad, SubmitBatch, PublishBad, PublishBadError
  <2>8. CASE Escalate
    BY <2>8 DEF Escalate, Restart
  <2> QED BY <1>1, <2>1, <2>2, <2>3, <2>4, <2>5, <2>6, <2>7, <2>8 DEF Loop
<1>2. CASE Collect
  BY <1>2 DEF Collect, Confirm, ConfirmStalled, ConfirmError, CollectorStops, CommitOffsets,
              CommitError
<1>3. CASE Reconcile
  BY <1>3 DEF Reconcile, ReconcileList, ReconcileReceipt
<1>4. CASE Crash \/ UNCHANGED vars
  BY <1>4 DEF Crash, Restart, vars
<1> QED BY <1>1, <1>2, <1>3, <1>4 DEF Next

\* Only a broadcast leaves a transaction to be recorded.
LEMMA MarkStep ==
    ASSUME [Next]_vars, pc' = "mark"
    PROVE  BroadcastSent \/ (pc = "mark" /\ LoopStays)
<1>1. ASSUME NEW msgs, BeginSegment(msgs) PROVE FALSE
  BY <1>1 DEF BeginSegment
<1>2. ASSUME EndSend PROVE FALSE
  BY <1>2 DEF EndSend
<1>3. ASSUME NEW n, AfterPrefix(n) PROVE FALSE
  BY <1>1, <1>3 DEF AfterPrefix
<1>4. CASE Loop
  <2>1. CASE FetchMessage \/ FetchBad \/ Tick
    BY <1>1, <2>1 DEF FetchMessage, FetchBad, Tick, DrainSend
  <2>2. CASE FilterDuplicate \/ FilterPending \/ FilterSkip \/ FilterReconcile
    BY <2>2 DEF FilterDuplicate, FilterPending, FilterSkip, FilterReconcile, Filtering, loopVars
  <2>3. CASE FilterDone
    BY <1>1, <2>3 DEF FilterDone
  <2>4. CASE SendFailed \/ RecordSent
    BY <1>3, <2>4 DEF SendFailed, RecordSent
  <2>5. CASE FilterError \/ RecordFailureError \/ SendLost \/ SendError \/ SendRefused
             \/ RecordSentError
    BY <1>2, <2>5 DEF FilterError, RecordFailureError, SendLost, SendError, SendRefused,
                      RecordSentError, Unshift
  <2>6. CASE SendCalldata
    BY <2>6 DEF SendCalldata, BroadcastSent
  <2>7. CASE Submit \/ SubmitBad \/ PublishBad \/ PublishBadError \/ Escalate
    BY <1>2, <2>7 DEF Submit, SubmitBad, PublishBad, PublishBadError, Escalate, Restart
  <2> QED BY <1>4, <2>1, <2>2, <2>3, <2>4, <2>5, <2>6, <2>7 DEF Loop
<1>5. CASE Crash
  BY <1>5 DEF Crash, Restart
<1>6. CASE Collect \/ Reconcile \/ MineNext \/ (\E t \in Txs : Evict(t)) \/ UNCHANGED vars
  BY <1>6, OthersLeaveLoop DEF LoopStays
<1> QED BY <1>4, <1>5, <1>6 DEF Next

\* The transaction a broadcast adds; those it replaces leave the pool.
LEMMA BroadcastAdds ==
    ASSUME LogType, LoopType, TxType, NonceType, pc = "send", NEW R, Broadcast(R)
    PROVE  /\ ntx + 1 \in Txs /\ ntx' = ntx + 1
           /\ tx' \in [Txs -> [nonce : Nat, events : Seq(Events), state : TxStates]]
           /\ tx'[ntx + 1].nonce = SeededNonce /\ tx'[ntx + 1].state = "pool"
           /\ ChunkLength \in 1..Len(pending)
           /\ Len(tx'[ntx + 1].events) = ChunkLength
           /\ \A i \in 1..ChunkLength : tx'[ntx + 1].events[i] = log[pending[i]]
           /\ \A t \in Txs : t # ntx + 1 =>
                /\ tx'[t].nonce = tx[t].nonce /\ tx'[t].events = tx[t].events
                /\ tx'[t].state = IF t \in R THEN "dropped" ELSE tx[t].state
<1>1. MaxTx \in Nat
  BY AdapterAssumption
<1>2. ntx + 1 \in Txs /\ ntx' = ntx + 1
  BY <1>1 DEF Broadcast, TxType, Txs
<1>3. PICK n \in 1..Len(pending) : n = ChunkLength
  BY ChunkLengthType DEF LoopType
<1>4. SeededNonce \in Nat
  BY SeededNonceType
<1> DEFINE evs == [i \in 1..n |-> log[pending[i]]]
<1>5. evs \in Seq(Events) /\ Len(evs) = n /\ \A i \in 1..n : evs[i] = log[pending[i]]
  <2>1. pending \in Seq(Good) /\ Len(pending) \in Nat
    BY DEF LoopType
  <2>2. \A i \in 1..n : pending[i] \in Good
    BY <2>1
  <2>3. \A i \in 1..n : log[pending[i]] \in Events
    BY <2>2, GoodEvent
  <2>4. evs \in [1..n -> Events] /\ n \in Nat
    BY <2>1, <2>3
  <2>5. evs \in Seq(Events)
    BY <2>4
  <2> QED BY <2>4, <2>5
<1>6. tx' = [t \in Txs |->
               IF t = ntx + 1 THEN [nonce |-> SeededNonce, state |-> "pool", events |-> evs]
               ELSE IF t \in R THEN [tx[t] EXCEPT !.state = "dropped"]
               ELSE tx[t]]
  BY <1>3 DEF Broadcast
<1> HIDE DEF evs
<1>7. tx'[ntx + 1] = [nonce |-> SeededNonce, state |-> "pool", events |-> evs]
  BY <1>2, <1>6
<1>8. ASSUME NEW t \in Txs, t # ntx + 1
      PROVE  /\ tx'[t] \in [nonce : Nat, events : Seq(Events), state : TxStates]
             /\ tx'[t].nonce = tx[t].nonce /\ tx'[t].events = tx[t].events
             /\ tx'[t].state = IF t \in R THEN "dropped" ELSE tx[t].state
  <2>1. tx'[t] = IF t \in R THEN [tx[t] EXCEPT !.state = "dropped"] ELSE tx[t]
    BY <1>6, <1>8
  <2>2. tx[t] \in [nonce : Nat, events : Seq(Events), state : TxStates]
    BY DEF TxType
  <2> QED BY <2>1, <2>2 DEF TxStates
<1>9. tx'[ntx + 1] \in [nonce : Nat, events : Seq(Events), state : TxStates]
  BY <1>4, <1>5, <1>7 DEF TxStates
<1>10. tx' \in [Txs -> [nonce : Nat, events : Seq(Events), state : TxStates]]
  <2>1. \A t \in Txs : tx'[t] \in [nonce : Nat, events : Seq(Events), state : TxStates]
    BY <1>8, <1>9
  <2>2. tx' = [t \in Txs |-> tx'[t]]
    BY <1>6
  <2> QED BY <2>1, <2>2
<1> QED BY <1>2, <1>3, <1>5, <1>7, <1>8, <1>10

\* A transaction that is mined or evicted only changes its state.
LEMMA StateChanges ==
    ASSUME TxType, NEW t \in Txs, NEW s \in TxStates, tx' = [tx EXCEPT ![t].state = s]
    PROVE  /\ tx' \in [Txs -> [nonce : Nat, events : Seq(Events), state : TxStates]]
           /\ \A u \in Txs : /\ tx'[u].nonce = tx[u].nonce /\ tx'[u].events = tx[u].events
                             /\ tx'[u].state = IF u = t THEN s ELSE tx[u].state
<1>1. \A u \in Txs : tx[u] \in [nonce : Nat, events : Seq(Events), state : TxStates]
  BY DEF TxType
<1>2. tx' = [u \in Txs |-> IF u = t THEN [tx[u] EXCEPT !.state = s] ELSE tx[u]]
  BY DEF TxType
<1> QED BY <1>1, <1>2

LEMMA TxTypeStep ==
    ASSUME LogType, LoopType, TxType, NonceType, [Next]_vars
    PROVE  TxType'
<1>1. log' = log
  BY LogFixed
<1>2. MaxTx \in Nat
  BY AdapterAssumption
<1>3. ASSUME UNCHANGED ntx, LoopStays \/ pc' # "mark",
             \A u \in Txs : /\ tx'[u].events = tx[u].events
                            /\ tx'[u].state = "none" <=> tx[u].state = "none",
             tx' \in [Txs -> [nonce : Nat, events : Seq(Events), state : TxStates]]
      PROVE  TxType'
  BY <1>1, <1>3 DEF TxType, LoopStays
<1>4. CASE TxStays /\ ~BroadcastSent
  <2>1. LoopStays \/ pc' # "mark"
    BY <1>4, MarkStep
  <2> QED BY <1>3, <1>4, <2>1 DEF TxStays, TxType
<1>5. ASSUME NEW R \in SUBSET PoolAt(SeededNonce), Broadcast(R), pc = "send",
             pc' = "mark" => pending' = pending
      PROVE  TxType'
  <2>1. /\ ntx + 1 \in Txs /\ ntx' = ntx + 1 /\ ntx \in 0..MaxTx
        /\ tx' \in [Txs -> [nonce : Nat, events : Seq(Events), state : TxStates]]
    BY <1>5, BroadcastAdds DEF TxType
  <2>2. \A t \in Txs : t # ntx + 1 =>
            tx'[t].events = tx[t].events /\ (tx'[t].state = "none" <=> tx[t].state = "none")
    <3>1. \A t \in R : tx[t].state = "pool"
      BY DEF PoolAt
    <3> QED BY <1>5, <3>1, BroadcastAdds
  <2>3. /\ tx'[ntx + 1].state = "pool"
        /\ Len(tx'[ntx + 1].events) \in 1..Len(pending)
        /\ \A i \in 1..Len(tx'[ntx + 1].events) : tx'[ntx + 1].events[i] = log[pending[i]]
    BY <1>5, BroadcastAdds
  <2>4. \A t \in Txs : tx'[t].state = "none" <=> t > ntx'
    <3>1. \A t \in Txs : t \in Nat
      BY DEF Txs
    <3>2. /\ ntx \in Nat /\ ntx' = ntx + 1
          /\ \A t \in Txs : tx[t].state = "none" <=> t > ntx
      BY <2>1 DEF TxType
    <3>3. ASSUME NEW t \in Txs, t # ntx + 1 PROVE tx'[t].state = "none" <=> t > ntx'
      <4>1. tx'[t].state = "none" <=> t > ntx
        BY <2>2, <3>2, <3>3
      <4> QED BY <3>1, <3>2, <3>3, <4>1
    <3>4. ASSUME NEW t \in Txs, t = ntx + 1 PROVE tx'[t].state # "none" /\ ~(t > ntx')
      BY <2>3, <3>2, <3>4
    <3> QED BY <3>3, <3>4
  <2>5. \A t \in Txs : tx'[t].state = "none" => tx'[t].events = <<>>
    BY <2>1, <2>2, <2>3 DEF TxType
  <2>6. ntx' \in 0..MaxTx
    BY <1>2, <2>1 DEF Txs
  <2> QED BY <1>1, <1>5, <2>1, <2>3, <2>4, <2>5, <2>6 DEF TxType
<1>6. CASE BroadcastLost
  <2>1. pc = "send" /\ Broadcast({}) /\ pc' # "mark"
    BY <1>6 DEF BroadcastLost, SendLost, Unshift, EndSend
  <2> QED BY <1>5, <2>1
<1>7. CASE BroadcastSent
  <2>1. pc = "send" /\ Broadcast(PoolAt(SeededNonce)) /\ pending' = pending
    BY <1>7 DEF BroadcastSent, SendCalldata, sendVars
  <2> QED BY <1>5, <2>1
<1>8. ASSUME NEW t \in Txs, Mine(t) \/ Evict(t) PROVE TxType'
  <2>1. LoopStays
    BY <1>8, OthersLeaveLoop DEF MineNext
  <2>2. ntx' = ntx /\ tx[t].state = "pool"
    BY <1>8 DEF Mine, Evict, PoolAt
  <2>3. PICK s \in {"ok", "reverted", "dropped"} : tx' = [tx EXCEPT ![t].state = s]
    BY <1>8 DEF Mine, Evict
  <2>4. s \in TxStates
    BY DEF TxStates
  <2>5. /\ tx' \in [Txs -> [nonce : Nat, events : Seq(Events), state : TxStates]]
        /\ \A u \in Txs : /\ tx'[u].events = tx[u].events
                          /\ tx'[u].state = IF u = t THEN s ELSE tx[u].state
    BY <2>3, <2>4, StateChanges
  <2>6. \A u \in Txs : tx'[u].state = "none" <=> tx[u].state = "none"
    BY <2>2, <2>5
  <2> QED BY <1>3, <2>1, <2>2, <2>5, <2>6
<1> QED BY <1>4, <1>6, <1>7, <1>8, TxSteps DEF MineNext

LEMMA NonceTypeStep ==
    ASSUME NonceType, [Next]_vars
    PROVE  NonceType'
<1>1. SeededNonce \in Nat /\ PendingNonce \in Nat
  BY SeededNonceType, PendingNonceType DEF NonceType
<1>2. chainNonce' \in Nat \ {0}
  <2>1. CASE MineNext
    BY <2>1 DEF MineNext, Mine, NonceType
  <2>2. CASE TxStays \/ BroadcastLost \/ BroadcastSent \/ \E t \in Txs : Evict(t)
    BY <2>2 DEF TxStays, BroadcastLost, BroadcastSent, Broadcast, Evict, NonceType
  <2> QED BY <2>1, <2>2, TxSteps
<1>3. nonce' \in Nat
  <2>1. CASE UNCHANGED nonce
    BY <2>1 DEF NonceType
  <2>2. CASE FetchMessage \/ FetchBad \/ Tick \/ FilterError \/ FilterDone \/ RecordSent
             \/ RecordSentError
    BY <2>1, <2>2 DEF FetchMessage, FetchBad, Tick, FilterError, FilterDone, RecordSent,
                      RecordSentError
  <2>3. CASE FilterDuplicate \/ FilterPending \/ FilterSkip \/ FilterReconcile
    BY <2>1, <2>3 DEF FilterDuplicate, FilterPending, FilterSkip, FilterReconcile, Filtering
  <2>4. CASE SendFailed \/ RecordFailureError \/ SendCalldata \/ SendLost \/ SendError
             \/ SendRefused
    BY <1>1, <2>1, <2>4 DEF SendFailed, RecordFailureError, SendCalldata, SendLost, SendError,
                            SendRefused
  <2>5. CASE Submit \/ SubmitBad \/ PublishBad \/ PublishBadError
    BY <2>1, <2>5 DEF Submit, SubmitBad, SubmitBatch, PublishBad, PublishBadError
  <2>6. CASE Escalate \/ Crash
    BY <2>6 DEF Escalate, Crash, Restart
  <2>7. CASE Collect \/ Reconcile \/ MineNext \/ (\E t \in Txs : Evict(t)) \/ UNCHANGED vars
    BY <2>1, <2>7, OthersLeaveLoop DEF LoopStays
  <2> QED BY <2>2, <2>3, <2>4, <2>5, <2>6, <2>7 DEF Next, Loop
<1> QED BY <1>2, <1>3 DEF NonceType

-----------------------------------------------------------------------------
(* The pipeline, the reconciler and the bounds *)

\* Every batch in the pipeline has messages, and its transactions were broadcast.
PipeType ==
    /\ committed \in 0..Len(log)
    /\ pipe \in Seq([msgs : Seq(Messages), txs : Seq(Txs)])
    /\ \A i \in 1..Len(pipe) : pipe[i].msgs # <<>>
    /\ inflight \in Seq(Txs)
    /\ confirmed \subseteq Txs /\ collector \in {"running", "stopped"}

\* The pipeline grows in Submit, shrinks in CommitOffsets and is lost in a restart; inflight
\* grows in RecordSent and is emptied around it.
PipeStays == UNCHANGED <<committed, pipe>>

LEMMA PipeSteps ==
    ASSUME [Next]_vars
    PROVE  PipeStays \/ Submit \/ SubmitBad \/ CommitOffsets \/ Escalate \/ Crash
<1> USE DEF PipeStays, pipeVars
<1>1. CASE Loop
  <2>1. CASE FetchMessage \/ FetchBad \/ Tick
    BY <2>1 DEF FetchMessage, FetchBad, Tick
  <2>2. CASE FilterDuplicate \/ FilterPending \/ FilterSkip \/ FilterReconcile
    BY <2>2 DEF FilterDuplicate, FilterPending, FilterSkip, FilterReconcile, Filtering
  <2>3. CASE FilterDone \/ SendFailed \/ RecordSent \/ SendCalldata \/ PublishBad
             \/ PublishBadError
    BY <2>3 DEF FilterDone, SendFailed, RecordSent, SendCalldata, PublishBad, PublishBadError
  <2>4. CASE FilterError \/ RecordFailureError \/ SendLost \/ SendError \/ SendRefused
             \/ RecordSentError
    BY <2>4 DEF FilterError, RecordFailureError, SendLost, SendError, SendRefused,
                RecordSentError, Unshift
  <2> QED BY <1>1, <2>1, <2>2, <2>3, <2>4 DEF Loop
<1>2. CASE Collect
  BY <1>2 DEF Collect, Confirm, ConfirmStalled, ConfirmError, CollectorStops, CommitError
<1>3. CASE Reconcile
  BY <1>3 DEF Reconcile, ReconcileList, ReconcileReceipt
<1>4. CASE MineNext \/ (\E t \in Txs : Evict(t)) \/ UNCHANGED vars
  BY <1>4 DEF MineNext, Mine, Evict, vars
<1> QED BY <1>1, <1>2, <1>3, <1>4 DEF Next

LEMMA InflightSteps ==
    ASSUME [Next]_vars
    PROVE  inflight' = inflight \/ inflight' = <<>> \/ RecordSent
<1>1. CASE Loop
  <2>1. CASE FetchMessage \/ FetchBad \/ Tick
    BY <2>1 DEF FetchMessage, FetchBad, Tick, DrainSend, sendVars
  <2>2. CASE FilterDuplicate \/ FilterPending \/ FilterSkip \/ FilterReconcile
    BY <2>2 DEF FilterDuplicate, FilterPending, FilterSkip, FilterReconcile, Filtering
  <2>3. CASE FilterDone \/ SendFailed \/ SendCalldata \/ PublishBad \/ PublishBadError
             \/ SubmitBad
    BY <2>3 DEF FilterDone, SendFailed, SendCalldata, PublishBad, PublishBadError, SubmitBad,
                sendVars
  <2>4. CASE FilterError \/ RecordFailureError \/ SendLost \/ SendError \/ SendRefused
             \/ RecordSentError
    BY <2>4 DEF FilterError, RecordFailureError, SendLost, SendError, SendRefused,
                RecordSentError, Unshift, EndSend
  <2>5. CASE Submit \/ Escalate
    BY <2>5 DEF Submit, EndSend, Escalate, Restart
  <2> QED BY <1>1, <2>1, <2>2, <2>3, <2>4, <2>5 DEF Loop
<1>2. CASE Crash
  BY <1>2 DEF Crash, Restart
<1>3. CASE Collect \/ Reconcile \/ MineNext \/ (\E t \in Txs : Evict(t)) \/ UNCHANGED vars
  BY <1>3, OthersLeaveLoop DEF LoopStays
<1> QED BY <1>1, <1>2, <1>3 DEF Next

LEMMA PipeTypeStep ==
    ASSUME LogType, LoopType, TxType, PipeType, [Next]_vars
    PROVE  PipeType'
<1>1. log' = log /\ Messages' = Messages
  BY LogFixed
<1>2. Len(log) \in Nat /\ Good \subseteq Messages
  BY DEF LogType, Good
<1>3. inflight' \in Seq(Txs)
  <2>1. CASE RecordSent
    <3>1. inflight' = Append(inflight, ntx) /\ ntx \in Txs
      BY <2>1 DEF RecordSent, TxType
    <3> QED BY <3>1 DEF PipeType
  <2>2. CASE inflight' = inflight
    BY <2>2 DEF PipeType
  <2>3. CASE inflight' = <<>>
    BY <2>3
  <2> QED BY <2>1, <2>2, <2>3, InflightSteps
<1>4. confirmed' \subseteq Txs /\ collector' \in {"running", "stopped"}
  <2>1. CASE UNCHANGED <<confirmed, collector>>
    BY <2>1 DEF PipeType
  <2>2. CASE Loop
    <3>1. CASE FetchMessage \/ FetchBad \/ Tick
      BY <2>1, <3>1 DEF FetchMessage, FetchBad, Tick, pipeVars
    <3>2. CASE FilterDuplicate \/ FilterPending \/ FilterSkip \/ FilterReconcile
      BY <2>1, <3>2 DEF FilterDuplicate, FilterPending, FilterSkip, FilterReconcile, Filtering,
                        pipeVars
    <3>3. CASE FilterDone \/ SendFailed \/ RecordSent \/ SendCalldata \/ PublishBad
               \/ PublishBadError
      BY <2>1, <3>3 DEF FilterDone, SendFailed, RecordSent, SendCalldata, PublishBad,
                        PublishBadError, pipeVars
    <3>4. CASE FilterError \/ RecordFailureError \/ SendLost \/ SendError \/ SendRefused
               \/ RecordSentError
      BY <2>1, <3>4 DEF FilterError, RecordFailureError, SendLost, SendError, SendRefused,
                        RecordSentError, Unshift, pipeVars
    <3>5. CASE Submit \/ SubmitBad
      BY <2>1, <3>5 DEF Submit, SubmitBad, SubmitBatch
    <3>6. CASE Escalate
      BY <3>6 DEF Escalate, Restart
    <3> QED BY <2>2, <3>1, <3>2, <3>3, <3>4, <3>5, <3>6 DEF Loop
  <2>3. CASE Collect
    <3>1. ASSUME NEW t \in Txs, Confirm(t) PROVE confirmed' = confirmed \union {t} /\ collector' = collector
      BY <3>1 DEF Confirm
    <3>2. ASSUME NEW t \in Txs, ConfirmStalled(t) \/ ConfirmError(t)
          PROVE  confirmed' = confirmed /\ collector' = "stopped"
      BY <3>2 DEF ConfirmStalled, ConfirmError, CollectorStops
    <3>3. CASE CommitOffsets \/ CommitError
      BY <3>3 DEF CommitOffsets, CommitError, CollectorStops, PipeType
    <3> QED BY <2>3, <3>1, <3>2, <3>3 DEF Collect, PipeType
  <2>4. CASE Reconcile
    BY <2>1, <2>4 DEF Reconcile, ReconcileList, ReconcileReceipt, pipeVars
  <2>5. CASE MineNext \/ (\E t \in Txs : Evict(t)) \/ UNCHANGED vars
    BY <2>1, <2>5 DEF MineNext, Mine, Evict, vars, pipeVars
  <2>6. CASE Crash
    BY <2>6 DEF Crash, Restart
  <2> QED BY <2>2, <2>3, <2>4, <2>5, <2>6 DEF Next
<1> DEFINE B == [msgs : Seq(Messages), txs : Seq(Txs)]
<1>5. /\ committed' \in 0..Len(log)
      /\ pipe' \in Seq(B)
      /\ \A i \in 1..Len(pipe') : pipe'[i].msgs # <<>>
  <2>0. /\ committed \in 0..Len(log) /\ pipe \in Seq(B) /\ Len(pipe) \in Nat
        /\ \A i \in 1..Len(pipe) : pipe[i].msgs # <<>>
    BY DEF PipeType
  <2>1. ASSUME NEW b \in B, b.msgs # <<>>, pipe' = Append(pipe, b), committed' = committed
        PROVE  <1>5!:
    <3> HIDE DEF B
    <3>1. pipe' \in Seq(B)
      BY <2>0, <2>1
    <3>2. ASSUME NEW i \in 1..Len(pipe') PROVE pipe'[i].msgs # <<>>
      <4>1. pipe'[i] = IF i = Len(pipe) + 1 THEN b ELSE pipe[i]
        BY <2>0, <2>1, <3>2
      <4>2. Len(pipe') = Len(pipe) + 1
        BY <2>0, <2>1
      <4> QED BY <2>0, <2>1, <4>1, <4>2
    <3> QED BY <2>0, <2>1, <3>1, <3>2
  <2>2. CASE PipeStays
    BY <2>0, <2>2 DEF PipeStays
  <2>3. CASE Submit
    <3>1. pipe' = Append(pipe, [msgs |-> batch, txs |-> inflight]) /\ committed' = committed
      BY <2>3 DEF Submit, SubmitBatch
    <3>2. batch \in Seq(Messages) /\ batch # <<>> /\ inflight \in Seq(Txs)
      BY <1>2, <2>3 DEF Submit, LoopType, Working, PipeType
    <3> QED BY <2>1, <3>1, <3>2
  <2>4. CASE SubmitBad
    <3>1. pipe' = Append(pipe, [msgs |-> <<badMsg>>, txs |-> <<>>]) /\ committed' = committed
      BY <2>4 DEF SubmitBad, SubmitBatch
    <3>2. badMsg \in Messages
      BY <1>2, <2>4 DEF SubmitBad, LoopType, Messages
    <3>3. <<badMsg>> \in Seq(Messages) /\ <<badMsg>> # <<>> /\ <<>> \in Seq(Txs)
      BY <3>2
    <3> QED BY <2>1, <3>1, <3>3
  <2>5. CASE CommitOffsets
    <3>1. pipe # <<>> /\ pipe' = Tail(pipe) /\ committed' = LastMessage(pipe[1].msgs)
      BY <2>5 DEF CommitOffsets
    <3>2. pipe[1].msgs \in Seq(Messages) /\ pipe[1].msgs # <<>>
      <4>1. pipe[1] \in B /\ 1 \in 1..Len(pipe)
        <5> HIDE DEF B
        <5> QED BY <2>0, <3>1
      <4> QED BY <2>0, <4>1
    <3>3. committed' \in Messages
      BY <3>1, <3>2 DEF LastMessage
    <3>4. committed' \in 0..Len(log)
      BY <1>2, <3>3 DEF Messages
    <3> HIDE DEF B
    <3>5. pipe' \in Seq(B) /\ Len(pipe') = Len(pipe) - 1
          /\ \A i \in 1..Len(pipe') : pipe'[i] = pipe[i + 1]
      BY <2>0, <3>1
    <3> QED BY <2>0, <3>4, <3>5
  <2>6. CASE Escalate \/ Crash
    <3>1. committed' = committed /\ pipe' = <<>>
      BY <2>6 DEF Escalate, Crash, Restart
    <3> HIDE DEF B
    <3> QED BY <2>0, <3>1
  <2> QED BY <2>2, <2>3, <2>4, <2>5, <2>6, PipeSteps
<1> QED BY <1>1, <1>3, <1>4, <1>5 DEF PipeType

\* What is left of the type invariant.
RestType ==
    /\ dlqEvents \subseteq Events /\ dlqBad \subseteq Messages
    /\ sweep \in [Txs -> SUBSET Events]
    /\ crashes \in 0..MaxCrashes /\ faults \in 0..MaxFaults /\ drops \in 0..MaxDrops

\* The counters count failing calls, crashes and evictions.
LEMMA BoundSteps ==
    ASSUME [Next]_vars
    PROVE  NoFault \/ Fault \/ Crash \/ \E t \in Txs : Evict(t)
<1>1. CASE Loop
  <2>1. CASE FetchMessage \/ FetchBad \/ Tick \/ FilterDone \/ SendCalldata \/ SendRefused
             \/ RecordSent \/ PublishBad \/ Escalate
    BY <2>1 DEF FetchMessage, FetchBad, Tick, FilterDone, SendCalldata, SendRefused,
                RecordSent, PublishBad, Escalate
  <2>2. CASE FilterDuplicate \/ FilterPending \/ FilterSkip \/ FilterReconcile
    BY <2>2 DEF FilterDuplicate, FilterPending, FilterSkip, FilterReconcile, Filtering
  <2>3. CASE FilterError \/ SendFailed
    BY <2>3 DEF FilterError, SendFailed
  <2>4. CASE RecordFailureError \/ SendLost \/ SendError \/ RecordSentError \/ PublishBadError
    BY <2>4 DEF RecordFailureError, SendLost, SendError, RecordSentError, PublishBadError
  <2>5. CASE Submit \/ SubmitBad
    BY <2>5 DEF Submit, SubmitBad, SubmitBatch
  <2> QED BY <1>1, <2>1, <2>2, <2>3, <2>4, <2>5 DEF Loop
<1>2. CASE Collect
  BY <1>2 DEF Collect, Confirm, ConfirmStalled, ConfirmError, CommitOffsets, CommitError
<1>3. CASE ReconcileList
  BY <1>3 DEF ReconcileList
<1>4. ASSUME NEW t \in Txs, ReconcileReceipt(t) PROVE NoFault \/ Fault
  BY <1>4, Zenon DEF ReconcileReceipt
<1>5. CASE MineNext
  BY <1>5 DEF MineNext, Mine
<1>6. CASE UNCHANGED vars
  BY <1>6 DEF vars, boundVars, NoFault
<1> QED BY <1>1, <1>2, <1>3, <1>4, <1>5, <1>6 DEF Next, Reconcile

\* They stay within their bounds and never go down.
LEMMA BoundsStep ==
    ASSUME RestType, [Next]_vars
    PROVE  /\ crashes' \in 0..MaxCrashes /\ faults' \in 0..MaxFaults /\ drops' \in 0..MaxDrops
           /\ faults' = 0 => faults = 0 /\ ~Fault
           /\ drops' = 0 => drops = 0 /\ \A t \in Txs : ~Evict(t)
<1>1. MaxCrashes \in Nat /\ MaxFaults \in Nat /\ MaxDrops \in Nat
  BY AdapterAssumption
<1>2. CASE NoFault
  BY <1>1, <1>2 DEF NoFault, boundVars, RestType, Fault, Evict
<1>3. CASE Fault
  BY <1>1, <1>3 DEF Fault, RestType, Evict
<1>4. CASE \E t \in Txs : Evict(t)
  BY <1>1, <1>4 DEF Evict, RestType, Fault
<1>5. CASE Crash
  BY <1>1, <1>5 DEF Crash, RestType, Fault, Evict
<1> QED BY <1>2, <1>3, <1>4, <1>5, BoundSteps

\* Messages Parse refused are published by PublishBad, and nothing is taken back.
LEMMA DeadLetterSteps ==
    ASSUME [Next]_vars, ~PublishBad
    PROVE  dlqBad' = dlqBad
<1>1. CASE Loop
  <2>1. CASE FetchMessage \/ FetchBad \/ Tick \/ FilterError \/ FilterDone
    BY <2>1 DEF FetchMessage, FetchBad, Tick, FilterError, FilterDone, storeVars
  <2>2. CASE FilterDuplicate \/ FilterPending \/ FilterSkip \/ FilterReconcile
    BY <2>2 DEF FilterDuplicate, FilterPending, FilterSkip, FilterReconcile, Filtering
  <2>3. CASE SendFailed \/ RecordFailureError \/ RecordSent \/ RecordSentError
    BY <2>3 DEF SendFailed, RecordFailureError, RecordSent, RecordSentError, storeVars
  <2>4. CASE SendCalldata \/ SendLost \/ SendError \/ SendRefused
    BY <2>4 DEF SendCalldata, SendLost, SendError, SendRefused, storeVars
  <2>5. CASE Submit \/ PublishBadError \/ SubmitBad \/ Escalate
    BY <2>5 DEF Submit, PublishBadError, SubmitBad, SubmitBatch, Escalate, Restart, storeVars
  <2> QED BY <1>1, <2>1, <2>2, <2>3, <2>4, <2>5 DEF Loop
<1>2. CASE Collect
  BY <1>2 DEF Collect, Confirm, ConfirmStalled, ConfirmError, CollectorStops, CommitOffsets,
              CommitError, storeVars
<1>3. CASE Reconcile
  BY <1>3 DEF Reconcile, ReconcileList, ReconcileReceipt, storeVars
<1>4. CASE MineNext \/ (\E t \in Txs : Evict(t)) \/ Crash \/ UNCHANGED vars
  BY <1>4 DEF MineNext, Mine, Evict, Crash, Restart, vars, storeVars
<1> QED BY <1>1, <1>2, <1>3, <1>4 DEF Next

\* The reconciler's list is its own.
LEMMA SweepSteps ==
    ASSUME [Next]_vars
    PROVE  sweep' = sweep \/ Reconcile \/ Escalate \/ Crash
<1>1. CASE Loop
  <2>1. CASE FetchMessage \/ FetchBad \/ Tick \/ FilterDone
    BY <2>1 DEF FetchMessage, FetchBad, Tick, FilterDone
  <2>2. CASE FilterDuplicate \/ FilterPending \/ FilterSkip \/ FilterReconcile
    BY <2>2 DEF FilterDuplicate, FilterPending, FilterSkip, FilterReconcile, Filtering
  <2>3. CASE SendFailed \/ RecordSent \/ SendCalldata \/ PublishBad \/ PublishBadError
    BY <2>3 DEF SendFailed, RecordSent, SendCalldata, PublishBad, PublishBadError
  <2>4. CASE FilterError \/ RecordFailureError \/ SendLost \/ SendError \/ SendRefused
             \/ RecordSentError
    BY <2>4 DEF FilterError, RecordFailureError, SendLost, SendError, SendRefused,
                RecordSentError, Unshift
  <2>5. CASE Submit \/ SubmitBad
    BY <2>5 DEF Submit, SubmitBad, SubmitBatch
  <2> QED BY <1>1, <2>1, <2>2, <2>3, <2>4, <2>5 DEF Loop
<1>2. CASE Collect
  BY <1>2 DEF Collect, Confirm, ConfirmStalled, ConfirmError, CollectorStops, CommitOffsets,
              CommitError
<1>3. CASE MineNext \/ (\E t \in Txs : Evict(t)) \/ UNCHANGED vars
  BY <1>3 DEF MineNext, Mine, Evict, vars
<1> QED BY <1>1, <1>2, <1>3 DEF Next

\* The dead letter topic takes events and messages of the log; the reconciler lists events.
LEMMA RestTypeStep ==
    ASSUME LogType, LoopType, TxType, RestType, [Next]_vars
    PROVE  RestType'
<1>1. log' = log /\ Messages' = Messages
  BY LogFixed
<1>2. \A t \in Txs : Range(tx[t].events) \subseteq Events
  <2>1. ASSUME NEW t \in Txs PROVE tx[t].events \in Seq(Events)
    BY DEF TxType
  <2> QED BY <2>1 DEF Range
<1>3. dlqEvents' \subseteq Events
  <2>1. CASE UNCHANGED dlqEvents
    BY <2>1 DEF RestType
  <2>2. CASE Loop
    <3>1. CASE FetchMessage \/ FetchBad \/ Tick \/ FilterError \/ FilterDone \/ SendCalldata
               \/ SendLost \/ SendError \/ SendRefused \/ RecordSentError
      BY <2>1, <3>1 DEF FetchMessage, FetchBad, Tick, FilterError, FilterDone, SendCalldata,
                        SendLost, SendError, SendRefused, RecordSentError, storeVars
    <3>2. CASE FilterDuplicate \/ FilterPending \/ FilterSkip \/ FilterReconcile
      BY <2>1, <3>2 DEF FilterDuplicate, FilterPending, FilterSkip, FilterReconcile, Filtering
    <3>3. CASE SendFailed \/ RecordFailureError
      <4>1. pc = "send" /\ dlqEvents' \in {dlqEvents, dlqEvents \union EventsOf(Prefix(FailureLength))}
        BY <3>3 DEF SendFailed, RecordFailureError
      <4>2. PICK n \in 1..Len(pending) : n = FailureLength
        BY <4>1, FailureLengthType DEF LoopType
      <4>3. pending \in Seq(Good) /\ Len(pending) \in Nat
        BY DEF LoopType
      <4>4. Prefix(n) \in Seq(Good)
        BY <4>3 DEF Prefix
      <4>5. EventsOf(Prefix(n)) \subseteq Events
        <5>1. \A i \in DOMAIN Prefix(n) : Prefix(n)[i] \in Good
          BY <4>4
        <5> QED BY <5>1, GoodEvent DEF EventsOf
      <4> QED BY <4>1, <4>2, <4>5 DEF RestType
    <3>4. CASE RecordSent \/ PublishBad \/ PublishBadError \/ Submit \/ SubmitBad \/ Escalate
      BY <2>1, <3>4 DEF RecordSent, PublishBad, PublishBadError, Submit, SubmitBad, SubmitBatch,
                        Escalate, Restart, storeVars
    <3> QED BY <2>2, <3>1, <3>2, <3>3, <3>4 DEF Loop
  <2>3. ASSUME NEW t \in Txs, Confirm(t) \/ ConfirmStalled(t) \/ ConfirmError(t)
        PROVE  dlqEvents' \subseteq Events
    <3>1. dlqEvents' = dlqEvents \/ dlqEvents' = dlqEvents \union Range(tx[t].events)
      BY <2>3 DEF Confirm, ConfirmStalled, ConfirmError
    <3> QED BY <1>2, <3>1 DEF RestType
  <2>4. CASE CommitOffsets \/ CommitError \/ Reconcile
    BY <2>1, <2>4 DEF CommitOffsets, CommitError, Reconcile, ReconcileList, ReconcileReceipt,
                      storeVars
  <2>5. CASE MineNext \/ (\E t \in Txs : Evict(t)) \/ Crash \/ UNCHANGED vars
    BY <2>1, <2>5 DEF MineNext, Mine, Evict, Crash, Restart, vars, storeVars
  <2> QED BY <2>2, <2>3, <2>4, <2>5 DEF Next, Collect
<1>4. dlqBad' \subseteq Messages
  <2>1. CASE UNCHANGED dlqBad
    BY <2>1 DEF RestType
  <2>2. CASE PublishBad
    <3>1. dlqBad' = dlqBad \union {badMsg} /\ badMsg # 0 /\ badMsg \in 0..Len(log)
      BY <2>2 DEF PublishBad, LoopType
    <3>2. badMsg \in Messages
      BY <3>1 DEF Messages, LogType
    <3> QED BY <3>1, <3>2 DEF RestType
  <2>3. CASE ~PublishBad
    BY <2>1, <2>3, DeadLetterSteps
  <2> QED BY <2>2, <2>3
<1>5. sweep' \in [Txs -> SUBSET Events]
  <2>1. CASE UNCHANGED sweep
    BY <2>1 DEF RestType
  <2>2. CASE ReconcileList
    BY <2>2 DEF ReconcileList
  <2>3. ASSUME NEW t \in Txs, ReconcileReceipt(t) PROVE sweep' = [sweep EXCEPT ![t] = {}]
    BY <2>3 DEF ReconcileReceipt
  <2>4. CASE Escalate \/ Crash
    BY <2>4 DEF Escalate, Crash, Restart
  <2> QED BY <2>1, <2>2, <2>3, <2>4, SweepSteps DEF RestType, Reconcile
<1> QED BY <1>1, <1>3, <1>4, <1>5, BoundsStep DEF RestType

\* The variables keep their types.
TypeInv ==
    LogType /\ LoopType /\ TxType /\ NonceType /\ PipeType /\ RestType /\ CoreType

LEMMA TypeInvStep ==
    ASSUME TypeInv, [Next]_vars
    PROVE  TypeInv'
<1>1. LogType /\ LoopType /\ TxType /\ NonceType /\ PipeType /\ RestType /\ CoreType
  BY DEF TypeInv
<1>2. committed \in 0..Len(log)
  BY <1>1 DEF PipeType
<1>3. LogType'
  BY <1>1, LogFixed DEF LogType
<1> QED BY <1>1, <1>2, <1>3, LoopTypeStep, TxTypeStep, NonceTypeStep, PipeTypeStep, RestTypeStep,
           CoreTypeStep DEF TypeInv

LEMMA TypeInvInit ==
    ASSUME Init
    PROVE  TypeInv
<1>1. log \in Seq(Events \union {Bad}) /\ Len(log) \in Nat
  BY AdapterAssumption DEF Init
<1>2. LogType /\ LoopType /\ NonceType /\ RestType
  BY <1>1, AdapterAssumption DEF Init, LogType, LoopType, NonceType, RestType, Working
<1>3. TxType
  <2>1. NoTransaction \in [nonce : Nat, events : Seq(Events), state : TxStates]
    BY DEF NoTransaction, TxStates
  <2>2. NoTransaction.state = "none" /\ NoTransaction.events = <<>>
    BY DEF NoTransaction
  <2>3. tx = [t \in Txs |-> NoTransaction] /\ ntx = 0 /\ pc = "poll" /\ MaxTx \in Nat
    BY AdapterAssumption DEF Init
  <2> QED BY <2>1, <2>2, <2>3 DEF TxType, Txs
<1>4. PipeType
  <2>1. committed = 0 /\ pipe = <<>> /\ inflight = <<>> /\ confirmed = {} /\ collector = "running"
    BY DEF Init
  <2> QED BY <1>1, <2>1 DEF PipeType
<1> QED BY <1>2, <1>3, <1>4, CoreTypeInit DEF TypeInv

THEOREM TypeInvCorrect == Spec => []TypeInv
<1>1. Init => TypeInv
  BY TypeInvInit
<1>2. TypeInv /\ [Next]_vars => TypeInv'
  BY TypeInvStep
<1> QED BY <1>1, <1>2, PTL DEF Spec

\* Every variable of the adapter keeps its type: positions stay in the log, every message
\* that is queued exists, and the counters keep to their bounds.
THEOREM TypeCorrect == Spec => []TypeOK
<1>1. TypeInv => TypeOK
  <2> SUFFICES ASSUME TypeInv PROVE TypeOK
    OBVIOUS
  <2>1. LogType /\ LoopType /\ TxType /\ NonceType /\ PipeType /\ RestType /\ CoreType
    BY DEF TypeInv
  <2>2. Seq(Good) \subseteq Seq(Messages)
    BY DEF Good
  <2>3. \A s \in {batcher, batch, rest, segment, pending} : s \in Seq(Messages)
    BY <2>1, <2>2 DEF LoopType
  <2>4. /\ seen \subseteq Events /\ fetched \in 0..Len(log) /\ badMsg \in 0..Len(log)
        /\ pc \in {"poll", "filter", "send", "mark", "submit", "dlq", "submitBad"}
    BY <2>1 DEF LoopType
  <2>5. /\ ntx \in 0..MaxTx
        /\ tx \in [Txs -> [nonce : Nat, events : Seq(Events), state : TxStates]]
    BY <2>1 DEF TxType
  <2>6. /\ committed \in 0..Len(log) /\ inflight \in Seq(Txs)
        /\ pipe \in Seq([msgs : Seq(Messages), txs : Seq(Txs)])
        /\ confirmed \subseteq Txs /\ collector \in {"running", "stopped"}
    BY <2>1 DEF PipeType
  <2> QED BY <2>1, <2>3, <2>4, <2>5, <2>6, Zenon
             DEF TypeOK, LogType, NonceType, RestType, CoreType, States, Receipts
<1> QED BY <1>1, TypeInvCorrect, PTL

-----------------------------------------------------------------------------
(* What the chain has executed *)

\* Every action of an executed transaction has a log in the receipt or was decided.
ExecutedKnown ==
    \A t \in Txs : tx[t].state = "ok" =>
        \A e \in Range(tx[t].events) : receipt[t][e] # "none" \/ chainState[e] # "None"

\* A log is that of an action of an executed transaction.
LogsExecuted ==
    \A t \in Txs, e \in Events : receipt[t][e] # "none" =>
        tx[t].state = "ok" /\ e \in Range(tx[t].events)

\* A log of a rejection that spends the id means that the contract has the action rejected.
RejectLogsAgree ==
    \A t \in Txs, e \in Events : receipt[t][e] = "rejected" => chainState[e] = "Rejected"

\* The chain takes nonces in order, and the pool has one transaction for each.
NonceSides ==
    /\ \A t \in Txs : tx[t].state = "pool" => tx[t].nonce >= chainNonce
    /\ \A t \in Txs : tx[t].state \in {"ok", "reverted"} => tx[t].nonce < chainNonce
    /\ \A t, u \in Txs : tx[t].state = "pool" /\ tx[u].state = "pool" /\ tx[t].nonce = tx[u].nonce
                            => t = u

\* An action whose signer could not be verified is applied by a later nonce only.
SignerLater ==
    \A t \in Txs, e \in Events : receipt[t][e] = "signer" /\ chainState[e] = "Applied" =>
        \E u \in Txs : /\ tx[u].state = "ok" /\ e \in Range(tx[u].events)
                       /\ tx[t].nonce < tx[u].nonce

ChainInv ==
    ExecutedKnown /\ LogsExecuted /\ LogsAgree /\ RejectLogsAgree /\ NonceSides /\ SignerLater

\* The life of a transaction: it is broadcast, and from the pool it is executed, reverts or
\* is dropped. Its nonce and its actions do not change.
LEMMA TxMoves ==
    ASSUME TypeInv, [Next]_vars, NEW t \in Txs
    PROVE  /\ ntx <= ntx'
           /\ tx[t].state # "none" =>
                /\ tx'[t].events = tx[t].events /\ tx'[t].nonce = tx[t].nonce
                /\ tx'[t].state # "none"
           /\ tx[t].state \notin {"none", "pool"} => tx'[t].state = tx[t].state
           /\ tx[t].state = "none" =>
                \/ tx'[t].state = "pool" /\ t = ntx + 1 /\ ntx' = ntx + 1
                \/ tx'[t].state = "none" /\ tx'[t].events = tx[t].events
<1>1. LogType /\ LoopType /\ TxType /\ NonceType
  BY DEF TypeInv
<1>2. ntx \in Nat
  BY <1>1 DEF TxType
<1>3. CASE TxStays
  BY <1>2, <1>3 DEF TxStays
<1>4. ASSUME NEW R \in SUBSET PoolAt(SeededNonce), Broadcast(R), pc = "send"
      PROVE  /\ ntx' = ntx + 1
             /\ t = ntx + 1 => tx[t].state = "none" /\ tx'[t].state = "pool"
             /\ t # ntx + 1 => /\ tx'[t].nonce = tx[t].nonce /\ tx'[t].events = tx[t].events
                               /\ \/ tx'[t].state = tx[t].state
                                  \/ tx[t].state = "pool" /\ tx'[t].state = "dropped"
  <2>1. t \in R => tx[t].state = "pool"
    BY DEF PoolAt
  <2>2. t = ntx + 1 => tx[t].state = "none"
    BY <1>1, <1>2 DEF TxType
  <2> QED BY <1>1, <1>4, <2>1, <2>2, BroadcastAdds
<1>5. CASE BroadcastLost
  <2>1. pc = "send" /\ Broadcast({})
    BY <1>5 DEF BroadcastLost, SendLost
  <2> QED BY <1>2, <1>4, <2>1
<1>6. CASE BroadcastSent
  <2>1. pc = "send" /\ Broadcast(PoolAt(SeededNonce))
    BY <1>6 DEF BroadcastSent, SendCalldata
  <2> QED BY <1>2, <1>4, <2>1
<1>7. ASSUME NEW u \in Txs, Mine(u) \/ Evict(u)
      PROVE  /\ ntx' = ntx
             /\ tx'[t].nonce = tx[t].nonce /\ tx'[t].events = tx[t].events
             /\ \/ tx'[t].state = tx[t].state
                \/ tx[t].state = "pool" /\ tx'[t].state \in {"ok", "reverted", "dropped"}
  <2>1. ntx' = ntx /\ tx[u].state = "pool"
    BY <1>7 DEF Mine, Evict, PoolAt
  <2>2. PICK s \in {"ok", "reverted", "dropped"} : tx' = [tx EXCEPT ![u].state = s]
    BY <1>7 DEF Mine, Evict
  <2>3. s \in TxStates
    BY DEF TxStates
  <2>4. /\ tx'[t].nonce = tx[t].nonce /\ tx'[t].events = tx[t].events
        /\ tx'[t].state = IF t = u THEN s ELSE tx[t].state
    BY <1>1, <2>2, <2>3, StateChanges
  <2> QED BY <2>1, <2>4
<1>8. CASE MineNext \/ \E u \in Txs : Evict(u)
  <2>1. PICK u \in Txs : Mine(u) \/ Evict(u)
    BY <1>8 DEF MineNext
  <2> QED BY <1>2, <1>7, <2>1
<1> QED BY <1>3, <1>5, <1>6, <1>8, TxSteps

\* The contracts run in Mine only.
LEMMA ExecuteSteps ==
    ASSUME [Next]_vars, ~MineNext
    PROVE  receipt' = receipt /\ chainState' = chainState /\ chainNonce' = chainNonce
BY TxSteps DEF TxStays, BroadcastLost, BroadcastSent, Broadcast, Evict

\* Mine executes the transaction of the next nonce, or it reverts.
LEMMA MineCases ==
    ASSUME TypeInv, NEW m \in Txs, Mine(m)
    PROVE  /\ tx[m].state = "pool" /\ tx[m].nonce = chainNonce /\ chainNonce' = chainNonce + 1
           /\ \A u \in Txs : u # m => tx'[u] = tx[u]
           /\ tx'[m].nonce = tx[m].nonce /\ tx'[m].events = tx[m].events
           /\ \/ /\ tx'[m].state = "ok"
                 /\ \E decide \in [Range(tx[m].events) -> Outcomes] : ExecuteAs(m, decide)
              \/ /\ tx'[m].state = "reverted"
                 /\ receipt' = receipt /\ chainState' = chainState
<1>1. tx \in [Txs -> [nonce : Nat, events : Seq(Events), state : TxStates]]
  BY DEF TypeInv, TxType
<1>2. tx[m].state = "pool" /\ tx[m].nonce = chainNonce /\ chainNonce' = chainNonce + 1
  BY DEF Mine, PoolAt
<1>3. \/ /\ \E decide \in [Range(tx[m].events) -> Outcomes] : ExecuteAs(m, decide)
         /\ tx' = [tx EXCEPT ![m].state = "ok"]
      \/ /\ tx' = [tx EXCEPT ![m].state = "reverted"]
         /\ receipt' = receipt /\ chainState' = chainState
  BY DEF Mine
<1>4. CASE /\ \E decide \in [Range(tx[m].events) -> Outcomes] : ExecuteAs(m, decide)
           /\ tx' = [tx EXCEPT ![m].state = "ok"]
  <2>1. /\ tx'[m].nonce = tx[m].nonce /\ tx'[m].events = tx[m].events /\ tx'[m].state = "ok"
        /\ \A u \in Txs : u # m => tx'[u] = tx[u]
    BY <1>1, <1>4
  <2> QED BY <1>2, <1>4, <2>1
<1>5. CASE /\ tx' = [tx EXCEPT ![m].state = "reverted"]
           /\ receipt' = receipt /\ chainState' = chainState
  <2>1. /\ tx'[m].nonce = tx[m].nonce /\ tx'[m].events = tx[m].events
        /\ tx'[m].state = "reverted"
        /\ \A u \in Txs : u # m => tx'[u] = tx[u]
    BY <1>1, <1>5
  <2> QED BY <1>2, <1>5, <2>1
<1> QED BY <1>3, <1>4, <1>5

\* What an execution writes, action by action.
LEMMA ExecuteWrites ==
    ASSUME TypeInv, NEW m \in Txs, NEW decide \in [Range(tx[m].events) -> Outcomes],
           ExecuteAs(m, decide), NEW e \in Events
    PROVE  /\ \A u \in Txs : u # m => receipt'[u][e] = receipt[u][e]
           /\ e \in Range(tx[m].events) /\ chainState[e] = "None" =>
                /\ receipt'[m][e] \in AllOutcomes
                /\ chainState'[e] = IF receipt'[m][e] = "applied" THEN "Applied"
                                    ELSE IF receipt'[m][e] = "rejected" THEN "Rejected"
                                    ELSE "None"
           /\ ~(e \in Range(tx[m].events) /\ chainState[e] = "None") =>
                receipt'[m][e] = "none" /\ chainState'[e] = chainState[e]
<1>1. receipt \in Receipts
  BY DEF TypeInv, CoreType
<1>2. receipt' = [receipt EXCEPT ![m] = [f \in Events |->
         IF f \in Range(tx[m].events) /\ chainState[f] = "None" THEN decide[f] ELSE "none"]]
  BY DEF ExecuteAs
<1>3. chainState' = [f \in Events |->
         IF f \notin Range(tx[m].events) \/ chainState[f] # "None" THEN chainState[f]
         ELSE IF decide[f] = "applied" THEN "Applied"
         ELSE IF decide[f] = "rejected" THEN "Rejected"
         ELSE "None"]
  BY DEF ExecuteAs
<1>4. /\ \A u \in Txs : u # m => receipt'[u] = receipt[u]
      /\ receipt'[m][e] = IF e \in Range(tx[m].events) /\ chainState[e] = "None"
                          THEN decide[e] ELSE "none"
  BY <1>1, <1>2 DEF Receipts
<1>5. e \in Range(tx[m].events) => decide[e] \in AllOutcomes
  BY AdapterAssumption
<1> QED BY <1>3, <1>4, <1>5

LEMMA ChainInvStep ==
    ASSUME TypeInv, ChainInv, [Next]_vars
    PROVE  ChainInv'
<1>0. /\ TxType /\ NonceType /\ NonceType' /\ LogType /\ LoopType
      /\ \A t \in Txs : Range(tx[t].events) \subseteq Events /\ tx[t].nonce \in Nat
  <2>1. TxType /\ NonceType /\ LogType /\ LoopType
    BY DEF TypeInv
  <2>2. ASSUME NEW t \in Txs PROVE tx[t].events \in Seq(Events) /\ tx[t].nonce \in Nat
    BY <2>1 DEF TxType
  <2> QED BY <2>1, <2>2, NonceTypeStep DEF Range
<1>1. ExecutedKnown /\ LogsExecuted /\ LogsAgree /\ RejectLogsAgree /\ NonceSides /\ SignerLater
  BY DEF ChainInv
<1>2. CASE ~MineNext
  <2>1. receipt' = receipt /\ chainState' = chainState /\ chainNonce' = chainNonce
    BY <1>2, ExecuteSteps
  <2>2. ASSUME NEW t \in Txs
        PROVE  /\ tx'[t].state = "ok" <=> tx[t].state = "ok"
               /\ tx'[t].state = "reverted" <=> tx[t].state = "reverted"
    <3>1. CASE TxStays
      BY <3>1 DEF TxStays
    <3>2. CASE BroadcastLost \/ BroadcastSent
      <4>1. PICK R \in SUBSET PoolAt(SeededNonce) : Broadcast(R) /\ pc = "send"
        BY <3>2 DEF BroadcastLost, BroadcastSent, SendLost, SendCalldata
      <4>2. t \in R => tx[t].state = "pool"
        BY DEF PoolAt
      <4>3. t = ntx + 1 => tx[t].state = "none"
        BY <1>0 DEF TxType
      <4>4. /\ t = ntx + 1 => tx'[t].state = "pool"
            /\ t # ntx + 1 => tx'[t].state = IF t \in R THEN "dropped" ELSE tx[t].state
        BY <1>0, <4>1, BroadcastAdds
      <4> QED BY <4>2, <4>3, <4>4
    <3>3. ASSUME NEW u \in Txs, Evict(u)
          PROVE  /\ tx[u].state = "pool"
                 /\ tx'[t].state = IF t = u THEN "dropped" ELSE tx[t].state
      BY <1>0, <3>3, StateChanges DEF Evict, TxStates
    <3> QED BY <1>2, <3>1, <3>2, <3>3, TxSteps
  <2>3. ASSUME NEW t \in Txs, tx[t].state # "none"
        PROVE  tx'[t].events = tx[t].events /\ tx'[t].nonce = tx[t].nonce
    BY <2>3, TxMoves
  <2>4. ExecutedKnown'
    BY <1>1, <2>1, <2>2, <2>3 DEF ExecutedKnown
  <2>5. LogsExecuted'
    BY <1>1, <2>1, <2>2, <2>3 DEF LogsExecuted
  <2>6. LogsAgree' /\ RejectLogsAgree'
    BY <1>1, <2>1 DEF LogsAgree, RejectLogsAgree
  <2>7. SignerLater'
    <3> SUFFICES ASSUME NEW t \in Txs, NEW e \in Events, receipt[t][e] = "signer",
                        chainState[e] = "Applied"
                 PROVE  \E u \in Txs : /\ tx'[u].state = "ok" /\ e \in Range(tx'[u].events)
                                       /\ tx'[t].nonce < tx'[u].nonce
      BY <2>1 DEF SignerLater
    <3>1. PICK u \in Txs : tx[u].state = "ok" /\ e \in Range(tx[u].events) /\ tx[t].nonce < tx[u].nonce
      BY <1>1 DEF SignerLater
    <3>2. tx[t].state = "ok"
      BY <1>1 DEF LogsExecuted
    <3>3. /\ tx'[u].state = "ok" /\ tx'[u].events = tx[u].events
          /\ tx'[u].nonce = tx[u].nonce /\ tx'[t].nonce = tx[t].nonce
      BY <2>2, <2>3, <3>1, <3>2
    <3> QED BY <3>1, <3>3
  <2>8. NonceSides'
    <3>1. CASE BroadcastLost \/ BroadcastSent
      <4>1. PICK R \in SUBSET PoolAt(SeededNonce) :
               /\ Broadcast(R) /\ pc = "send" /\ SeededNonce >= chainNonce
               /\ R = PoolAt(SeededNonce)
        BY <3>1 DEF BroadcastLost, BroadcastSent, SendLost, SendCalldata
      <4>2. /\ ntx + 1 \in Txs /\ tx'[ntx + 1].nonce = SeededNonce
            /\ \A t \in Txs : t # ntx + 1 =>
                  /\ tx'[t].nonce = tx[t].nonce
                  /\ tx'[t].state = IF t \in R THEN "dropped" ELSE tx[t].state
        BY <1>0, <4>1, BroadcastAdds
      <4>3. ASSUME NEW t \in Txs, t # ntx + 1, tx'[t].state = "pool"
            PROVE  tx[t].state = "pool" /\ tx[t].nonce # SeededNonce /\ tx'[t].nonce = tx[t].nonce
        <5>1. t \notin R /\ tx[t].state = "pool" /\ tx'[t].nonce = tx[t].nonce
          BY <4>2, <4>3
        <5> QED BY <4>1, <5>1 DEF PoolAt
      <4>4. \A t \in Txs : tx'[t].state = "pool" => tx'[t].nonce >= chainNonce'
        BY <1>1, <2>1, <4>1, <4>2, <4>3 DEF NonceSides
      <4>5. \A t \in Txs : tx'[t].state \in {"ok", "reverted"} => tx'[t].nonce < chainNonce'
        BY <1>1, <2>1, <2>2, <2>3 DEF NonceSides
      <4>6. \A t, u \in Txs : tx'[t].state = "pool" /\ tx'[u].state = "pool"
                                /\ tx'[t].nonce = tx'[u].nonce => t = u
        BY <1>1, <4>2, <4>3 DEF NonceSides
      <4> QED BY <4>4, <4>5, <4>6 DEF NonceSides
    <3>2. CASE TxStays \/ \E u \in Txs : Evict(u)
      <4>1. ASSUME NEW t \in Txs
            PROVE  tx'[t].nonce = tx[t].nonce /\ (tx'[t].state = "pool" => tx[t].state = "pool")
        <5>1. CASE TxStays
          BY <5>1 DEF TxStays
        <5>2. ASSUME NEW u \in Txs, Evict(u)
              PROVE  /\ tx'[t].nonce = tx[t].nonce
                     /\ tx'[t].state = IF t = u THEN "dropped" ELSE tx[t].state
          BY <1>0, <5>2, StateChanges DEF Evict, TxStates
        <5> QED BY <3>2, <5>1, <5>2
      <4> QED BY <1>1, <2>1, <2>2, <4>1 DEF NonceSides
    <3> QED BY <1>2, <3>1, <3>2, TxSteps
  <2> QED BY <2>4, <2>5, <2>6, <2>7, <2>8 DEF ChainInv
<1>3. CASE MineNext
  <2>1. PICK m \in Txs : Mine(m)
    BY <1>3 DEF MineNext
  <2>2. /\ tx[m].state = "pool" /\ tx[m].nonce = chainNonce /\ chainNonce' = chainNonce + 1
        /\ \A u \in Txs : u # m => tx'[u] = tx[u]
        /\ tx'[m].nonce = tx[m].nonce /\ tx'[m].events = tx[m].events
        /\ tx'[m].state \in {"ok", "reverted"}
    BY <2>1, MineCases
  <2>3. ASSUME NEW e \in Events PROVE receipt[m][e] = "none"
    BY <1>1, <2>2 DEF LogsExecuted
  <2>4. NonceSides'
    <3>1. \A t \in Txs : tx'[t].nonce = tx[t].nonce
      BY <2>2
    <3>2. \A t \in Txs : tx'[t].state = "pool" => tx'[t].nonce >= chainNonce'
      <4> SUFFICES ASSUME NEW t \in Txs, tx'[t].state = "pool" PROVE tx[t].nonce >= chainNonce + 1
        BY <2>2, <3>1
      <4>1. t # m /\ tx[t].state = "pool"
        BY <2>2
      <4>2. tx[t].nonce # chainNonce /\ tx[t].nonce >= chainNonce
        BY <1>1, <2>2, <4>1 DEF NonceSides
      <4> QED BY <1>0, <4>2 DEF NonceType
    <3>3. \A t \in Txs : tx'[t].state \in {"ok", "reverted"} => tx'[t].nonce < chainNonce'
      <4> SUFFICES ASSUME NEW t \in Txs, tx'[t].state \in {"ok", "reverted"}
                   PROVE  tx[t].nonce < chainNonce + 1
        BY <2>2, <3>1
      <4>1. tx[t].nonce = chainNonce \/ tx[t].nonce < chainNonce
        BY <1>1, <2>2 DEF NonceSides
      <4> QED BY <1>0, <4>1 DEF NonceType
    <3>4. \A t \in Txs : tx'[t].state = "pool" => tx[t].state = "pool"
      BY <2>2
    <3> QED BY <1>1, <3>1, <3>2, <3>3, <3>4 DEF NonceSides
  <2>5. CASE tx'[m].state = "reverted" /\ receipt' = receipt /\ chainState' = chainState
    <3>1. \A t \in Txs : tx'[t].state = "ok" <=> tx[t].state = "ok"
      BY <2>2, <2>5
    <3>2. \A t \in Txs : tx'[t].events = tx[t].events /\ tx'[t].nonce = tx[t].nonce
      BY <2>2
    <3>3. ExecutedKnown'
      BY <1>1, <2>5, <3>1, <3>2 DEF ExecutedKnown
    <3>4. LogsExecuted'
      BY <1>1, <2>5, <3>1, <3>2 DEF LogsExecuted
    <3>5. LogsAgree' /\ RejectLogsAgree'
      BY <1>1, <2>5 DEF LogsAgree, RejectLogsAgree
    <3>6. SignerLater'
      BY <1>1, <2>5, <3>1, <3>2 DEF SignerLater
    <3> QED BY <2>4, <3>3, <3>4, <3>5, <3>6 DEF ChainInv
  <2>6. ASSUME NEW decide \in [Range(tx[m].events) -> Outcomes], ExecuteAs(m, decide),
               tx'[m].state = "ok"
        PROVE  ChainInv'
    <3>1. \A t \in Txs : tx'[t].events = tx[t].events /\ tx'[t].nonce = tx[t].nonce
      BY <2>2
    <3>2. \A t \in Txs : t # m => (tx'[t].state = "ok" <=> tx[t].state = "ok")
      BY <2>2
    <3> DEFINE New(e) == e \in Range(tx[m].events) /\ chainState[e] = "None"
    <3>3. ASSUME NEW e \in Events
          PROVE  /\ \A u \in Txs : u # m => receipt'[u][e] = receipt[u][e]
                 /\ New(e) =>
                      /\ receipt'[m][e] \in AllOutcomes
                      /\ chainState'[e] = IF receipt'[m][e] = "applied" THEN "Applied"
                                          ELSE IF receipt'[m][e] = "rejected" THEN "Rejected"
                                          ELSE "None"
                 /\ ~New(e) => receipt'[m][e] = "none" /\ chainState'[e] = chainState[e]
      BY <2>6, ExecuteWrites
    <3>4. \A e \in Events : chainState[e] # "None" => chainState'[e] = chainState[e]
      BY <3>3
    <3>5. ExecutedKnown'
      <4> SUFFICES ASSUME NEW t \in Txs, tx'[t].state = "ok", NEW e \in Range(tx[t].events)
                   PROVE  receipt'[t][e] # "none" \/ chainState'[e] # "None"
        BY <3>1 DEF ExecutedKnown
      <4>1. e \in Events
        BY <1>0
      <4>2. CASE t = m
        BY <3>3, <4>1, <4>2 DEF AllOutcomes
      <4>3. CASE t # m
        BY <1>1, <3>2, <3>3, <3>4, <4>1, <4>3 DEF ExecutedKnown
      <4> QED BY <4>2, <4>3
    <3>6. LogsExecuted'
      <4> SUFFICES ASSUME NEW t \in Txs, NEW e \in Events, receipt'[t][e] # "none"
                   PROVE  tx'[t].state = "ok" /\ e \in Range(tx[t].events)
        BY <3>1 DEF LogsExecuted
      <4>1. CASE t = m
        BY <2>6, <3>3, <4>1
      <4>2. CASE t # m
        BY <1>1, <3>2, <3>3, <4>2 DEF LogsExecuted
      <4> QED BY <4>1, <4>2
    <3>7. LogsAgree' /\ RejectLogsAgree'
      <4> SUFFICES ASSUME NEW t \in Txs, NEW e \in Events
                   PROVE  /\ receipt'[t][e] = "applied" => chainState'[e] = "Applied"
                          /\ receipt'[t][e] = "rejected" => chainState'[e] = "Rejected"
        BY DEF LogsAgree, RejectLogsAgree
      <4>1. CASE t = m
        BY <3>3, <4>1
      <4>2. CASE t # m
        BY <1>1, <3>3, <3>4, <4>2 DEF LogsAgree, RejectLogsAgree
      <4> QED BY <4>1, <4>2
    <3>8. SignerLater'
      <4> SUFFICES ASSUME NEW t \in Txs, NEW e \in Events, receipt'[t][e] = "signer",
                          chainState'[e] = "Applied"
                   PROVE  \E u \in Txs : /\ tx'[u].state = "ok" /\ e \in Range(tx[u].events)
                                         /\ tx[t].nonce < tx[u].nonce
        BY <3>1 DEF SignerLater
      <4>1. t # m
        BY <3>3
      <4>2. receipt[t][e] = "signer"
        BY <3>3, <4>1
      <4>3. CASE chainState[e] = "Applied"
        <5>1. PICK u \in Txs : tx[u].state = "ok" /\ e \in Range(tx[u].events)
                               /\ tx[t].nonce < tx[u].nonce
          BY <1>1, <4>2, <4>3 DEF SignerLater
        <5>2. tx'[u].state = "ok"
          BY <2>2, <5>1
        <5> QED BY <5>1, <5>2
      <4>4. CASE chainState[e] # "Applied"
        <5>1. e \in Range(tx[m].events)
          BY <3>3, <4>4
        <5>2. tx[t].nonce < tx[m].nonce
          BY <1>1, <2>2, <4>2 DEF LogsExecuted, NonceSides
        <5> QED BY <2>6, <5>1, <5>2
      <4> QED BY <4>3, <4>4
    <3> QED BY <2>4, <3>5, <3>6, <3>7, <3>8 DEF ChainInv
  <2> QED BY <2>1, <2>5, <2>6, MineCases
<1> QED BY <1>2, <1>3

THEOREM ChainInvCorrect == Spec => []ChainInv
<1>1. Init => ChainInv
  <2> SUFFICES ASSUME Init PROVE ChainInv
    OBVIOUS
  <2>1. /\ \A t \in Txs : tx[t] = NoTransaction /\ tx[t].state = "none"
        /\ \A t \in Txs, e \in Events : receipt[t][e] = "none"
    BY DEF Init, NoTransaction
  <2> QED BY <2>1 DEF ChainInv, ExecutedKnown, LogsExecuted, LogsAgree, RejectLogsAgree,
                      NonceSides, SignerLater
<1>2. TypeInv /\ ChainInv /\ [Next]_vars => ChainInv'
  BY ChainInvStep
<1> QED BY <1>1, <1>2, TypeInvCorrect, PTL DEF Spec

\* An action of an executed transaction has an outcome.
LEMMA OutcomeFound ==
    ASSUME TypeInv, ChainInv, NEW t \in Txs, tx[t].state = "ok", NEW e \in Range(tx[t].events)
    PROVE  Outcome(t, e) # "unknown"
<1>1. e \in Events
  <2>1. tx[t].events \in Seq(Events)
    BY DEF TypeInv, TxType
  <2> QED BY <2>1 DEF Range
<1>2. receipt[t][e] # "none" \/ chainState[e] # "None"
  BY DEF ChainInv, ExecutedKnown
<1>3. receipt[t][e] \in AllOutcomes \union {"none"} /\ chainState[e] \in {"None", "Applied", "Rejected"}
  BY <1>1 DEF TypeInv, CoreType, Receipts, States
<1> QED BY <1>2, <1>3 DEF Outcome, LogOutcome, StateOutcome, AllOutcomes

\* resolveActionOutcomes always finds an outcome: for any transactions, resends, reverts and
\* evictions, an action of an executed transaction has a log in the receipt, or another
\* transaction had it decided before.
THEOREM OutcomeIsKnown == Spec => []OutcomeKnown
<1>1. TypeInv /\ ChainInv => OutcomeKnown
  BY OutcomeFound DEF OutcomeKnown, Resolvable
<1> QED BY <1>1, TypeInvCorrect, ChainInvCorrect, PTL

-----------------------------------------------------------------------------
(* Who may write a row *)

\* A batch carries the transaction: Send has it in flight, or the pipeline has it.
Recorded(t) ==
    \/ t \in Range(inflight)
    \/ \E i \in 1..Len(pipe) : t \in Range(pipe[i].txs)

\* The chain's answer about an action is that it is rejected.
Told(t, e) ==
    \/ receipt[t][e] \in {"rejected", "signer"}
    \/ receipt[t][e] = "none" /\ chainState[e] = "Rejected"

\* A hash is stored with SENT, and kept.
RowShape ==
    \A e \in Events :
        /\ row[e].status \in {"NONE", "PENDING"} => row[e].tx = NoTx
        /\ row[e].status \in {"SENT", "COMMITTED"} => row[e].tx # NoTx
        /\ row[e].rejected => row[e].status = "FAILED" /\ row[e].tx # NoTx

\* The hash of a row is that of the last transaction with the action.
RowTx ==
    \A e \in Events : row[e].tx # NoTx =>
        /\ e \in Range(tx[row[e].tx].events)
        /\ \A u \in Txs : e \in Range(tx[u].events) => u <= row[e].tx

\* A reject reason is what the chain says of that transaction.
RowTold ==
    \A e \in Events : row[e].rejected => tx[row[e].tx].state = "ok" /\ Told(row[e].tx, e)

\* What is pending has a PENDING row and is pending once.
PendingFresh ==
    pc \in {"filter", "send", "mark"} =>
        /\ \A i \in 1..Len(pending) : row[log[pending[i]]].status = "PENDING"
        /\ \A i, j \in 1..Len(pending) : log[pending[i]] = log[pending[j]] => i = j
        /\ pc = "filter" => \A i \in 1..Len(pending) : log[pending[i]] \in seen

\* The rows of a recorded transaction have its hash, so no two batches write the same row.
RecordedOwn ==
    \A t \in Txs : Recorded(t) => t <= ntx /\ \A e \in Range(tx[t].events) : row[e].tx = t

\* What the reconciler lists under a transaction still has its hash.
SweepOwn == \A t \in Txs : \A e \in sweep[t] : row[e].tx = t

RowInv == RowShape /\ RowTx /\ RowTold /\ PendingFresh /\ RecordedOwn /\ SweepOwn

\* A row is settled by the transaction whose hash it has.
Settles(e) ==
    /\ row[e].tx # NoTx /\ row[e].status # "COMMITTED" /\ row'[e].tx = row[e].tx
    /\ \/ /\ tx[row[e].tx].state = "reverted"
          /\ row'[e].status = "FAILED" /\ row'[e].rejected = row[e].rejected
       \/ /\ tx[row[e].tx].state = "ok" /\ Outcome(row[e].tx, e) = "applied"
          /\ row'[e].status = "COMMITTED" /\ row'[e].rejected = row[e].rejected
       \/ /\ tx[row[e].tx].state = "ok" /\ Told(row[e].tx, e)
          /\ row'[e].status = "FAILED" /\ row'[e].rejected = TRUE

\* What the loop writes before there is a hash.
Marks(e) ==
    /\ row[e].tx = NoTx /\ row'[e].rejected = row[e].rejected
    /\ \/ /\ FilterPending /\ row[e].status \in {"NONE", "PENDING"}
          /\ row'[e].status = "PENDING" /\ row'[e].tx = NoTx
       \/ /\ SendFailed /\ row[e].status = "PENDING"
          /\ row'[e].status = "FAILED" /\ row'[e].tx = NoTx
       \/ /\ RecordSent /\ row[e].status = "PENDING" /\ e \in Range(tx[ntx].events)
          /\ row'[e].status = "SENT" /\ row'[e].tx = ntx

\* applyActionOutcomes for rows that have the hash of the transaction.
LEMMA ApplySettles ==
    ASSUME TypeInv, NEW ids, NEW t \in Txs, tx[t].state = "ok", Resolvable(ids, t),
           NEW e \in Events, e \in ids => row[e].tx = t,
           row' = ApplyOutcomes(ids, t) \/ row' = ApplyOutcomesPartly(ids, t)
    PROVE  row'[e] = row[e] \/ Settles(e)
<1>1. row[e] \in Rows /\ row \in [Events -> Rows]
  BY DEF TypeInv, CoreType
<1>2. t # NoTx
  BY DEF Txs, NoTx
<1>3. \/ row'[e] = row[e]
      \/ e \in ids /\ Outcome(t, e) = "applied" /\ row'[e] = Committed(row[e])
      \/ e \in ids /\ Outcome(t, e) # "applied" /\ row'[e] = Rejected(row[e], t)
  BY <1>1 DEF ApplyOutcomes, ApplyOutcomesPartly
<1>4. CASE row[e].status = "COMMITTED"
  <2>1. Committed(row[e]) = row[e] /\ Rejected(row[e], t) = row[e]
    BY <1>1, <1>4 DEF Committed, Rejected, Rows
  <2> QED BY <1>3, <2>1
<1>5. ASSUME row[e].status # "COMMITTED", e \in ids, Outcome(t, e) = "applied",
             row'[e] = Committed(row[e])
      PROVE  Settles(e)
  <2>1. /\ Committed(row[e]).status = "COMMITTED" /\ Committed(row[e]).tx = row[e].tx
        /\ Committed(row[e]).rejected = row[e].rejected
    BY <1>1 DEF Committed, Rows
  <2> QED BY <1>2, <1>5, <2>1 DEF Settles
<1>6. ASSUME row[e].status # "COMMITTED", e \in ids, Outcome(t, e) # "applied",
             row'[e] = Rejected(row[e], t)
      PROVE  Settles(e)
  <2>1. /\ Rejected(row[e], t).status = "FAILED" /\ Rejected(row[e], t).tx = t
        /\ Rejected(row[e], t).rejected = TRUE
    BY <1>1, <1>2, <1>6 DEF Rejected, Failed, Rows
  <2>2. Outcome(t, e) # "unknown"
    BY <1>6 DEF Resolvable
  <2>3. /\ receipt[t][e] \in AllOutcomes \union {"none"}
        /\ chainState[e] \in {"None", "Applied", "Rejected"}
    BY DEF TypeInv, CoreType, Receipts, States
  <2>4. Told(t, e)
    BY <1>6, <2>2, <2>3 DEF Outcome, LogOutcome, StateOutcome, Told, AllOutcomes
  <2>5. row[e].tx = t
    BY <1>6
  <2> QED BY <1>2, <1>6, <2>1, <2>4, <2>5 DEF Settles
<1> QED BY <1>3, <1>4, <1>5, <1>6

\* MarkFailed for rows that have the hash of the transaction.
LEMMA MarkFailedSettles ==
    ASSUME TypeInv, NEW ids, NEW t \in Txs, tx[t].state = "reverted",
           NEW e \in Events, e \in ids => row[e].tx = t, row' = MarkFailed(ids, t)
    PROVE  row'[e] = row[e] \/ Settles(e)
<1>1. row[e] \in Rows
  BY DEF TypeInv, CoreType
<1>2. t # NoTx
  BY DEF Txs, NoTx
<1>3. row'[e] = IF e \in ids THEN Failed(row[e], t) ELSE row[e]
  BY DEF MarkFailed
<1>4. CASE row[e].status = "COMMITTED"
  BY <1>3, <1>4 DEF Failed
<1>5. CASE row[e].status # "COMMITTED" /\ e \in ids
  <2>1. /\ Failed(row[e], t).status = "FAILED" /\ Failed(row[e], t).tx = t
        /\ Failed(row[e], t).rejected = row[e].rejected
    BY <1>1, <1>2, <1>5 DEF Failed, Rows
  <2> QED BY <1>2, <1>3, <1>5, <2>1 DEF Settles
<1> QED BY <1>3, <1>4, <1>5

\* The collector, the reconciler and the environment only settle rows.
LEMMA OthersSettle ==
    ASSUME TypeInv, RowInv, [Next]_vars, ~Loop, NEW e \in Events
    PROVE  row'[e] = row[e] \/ Settles(e)
<1>1. ASSUME NEW t \in Txs, t \in Unconfirmed, e \in Range(tx[t].events) PROVE row[e].tx = t
  <2>1. pipe # <<>> /\ t \in Range(pipe[1].txs)
    BY <1>1 DEF Unconfirmed
  <2>2. pipe \in Seq([msgs : Seq(Messages), txs : Seq(Txs)])
    BY DEF TypeInv, PipeType
  <2>3. 1 \in 1..Len(pipe)
    BY <2>1, <2>2
  <2>4. Recorded(t)
    BY <2>1, <2>3 DEF Recorded
  <2> QED BY <1>1, <2>4 DEF RowInv, RecordedOwn
<1>2. ASSUME NEW t \in Txs, Confirm(t) \/ ConfirmError(t)
      PROVE  row'[e] = row[e] \/ Settles(e)
  <2> DEFINE ids == Range(tx[t].events)
  <2>1. t \in Unconfirmed
    BY <1>2 DEF Confirm, ConfirmError
  <2>2. e \in ids => row[e].tx = t
    BY <1>1, <2>1
  <2>3. \/ /\ tx[t].state = "ok" /\ Resolvable(ids, t)
           /\ row' = ApplyOutcomes(ids, t) \/ row' = ApplyOutcomesPartly(ids, t)
        \/ tx[t].state = "reverted" /\ row' = MarkFailed(ids, t)
        \/ row' = row
    BY <1>2 DEF Confirm, ConfirmError
  <2> HIDE DEF ids
  <2> QED BY <2>2, <2>3, ApplySettles, MarkFailedSettles
<1>3. ASSUME NEW t \in Txs, ReconcileReceipt(t) PROVE row'[e] = row[e] \/ Settles(e)
  <2>1. e \in sweep[t] => row[e].tx = t
    BY DEF RowInv, SweepOwn
  <2>2. \/ /\ tx[t].state = "ok" /\ Resolvable(sweep[t], t)
           /\ row' = ApplyOutcomes(sweep[t], t) \/ row' = ApplyOutcomesPartly(sweep[t], t)
        \/ tx[t].state = "reverted" /\ row' = MarkFailed(sweep[t], t)
        \/ row' = row
    <3>1. \/ tx[t].state = "ok" /\ Resolvable(sweep[t], t) /\ row' = ApplyOutcomes(sweep[t], t)
          \/ tx[t].state = "reverted" /\ row' = MarkFailed(sweep[t], t)
          \/ row' = row
          \/ row' = IF tx[t].state = "ok" /\ Resolvable(sweep[t], t)
                    THEN ApplyOutcomesPartly(sweep[t], t) ELSE row
      BY <1>3, Zenon DEF ReconcileReceipt
    <3> QED BY <3>1
  <2> QED BY <2>1, <2>2, ApplySettles, MarkFailedSettles
<1>4. CASE \E t \in Txs : ConfirmStalled(t)
  BY <1>4 DEF ConfirmStalled
<1>5. CASE CommitOffsets \/ CommitError \/ ReconcileList
  BY <1>5 DEF CommitOffsets, CommitError, ReconcileList, storeVars
<1>6. CASE MineNext \/ (\E t \in Txs : Evict(t)) \/ Crash \/ UNCHANGED vars
  BY <1>6 DEF MineNext, Mine, Evict, Crash, Restart, vars, storeVars
<1> QED BY <1>2, <1>3, <1>4, <1>5, <1>6 DEF Next, Collect, Reconcile

\* The events of the first n pending messages.
LEMMA PrefixEvents ==
    ASSUME TypeInv, NEW n \in 1..Len(pending)
    PROVE  EventsOf(Prefix(n)) = {log[pending[i]] : i \in 1..n}
<1>1. pending \in Seq(Good) /\ Len(pending) \in Nat
  BY DEF TypeInv, LoopType
<1>2. Prefix(n) \in Seq(Good) /\ Len(Prefix(n)) = n
      /\ \A i \in 1..n : Prefix(n)[i] = pending[i]
  BY <1>1 DEF Prefix
<1>3. DOMAIN Prefix(n) = 1..n
  BY <1>2
<1> QED BY <1>2, <1>3 DEF EventsOf

\* The events of the transaction that waits to be recorded are the first pending ones.
LEMMA MarkedEvents ==
    ASSUME TypeInv, pc = "mark"
    PROVE  /\ ntx \in Txs /\ Len(tx[ntx].events) \in 1..Len(pending)
           /\ Range(tx[ntx].events) = {log[pending[i]] : i \in 1..Len(tx[ntx].events)}
<1>1. /\ ntx \in Txs /\ Len(tx[ntx].events) \in 1..Len(pending)
      /\ \A i \in 1..Len(tx[ntx].events) : tx[ntx].events[i] = log[pending[i]]
      /\ tx[ntx].events \in Seq(Events)
  BY DEF TypeInv, TxType
<1> DEFINE es == tx[ntx].events
<1> HIDE DEF es
<1>2. DOMAIN es = 1..Len(es) /\ \A i \in 1..Len(es) : es[i] = log[pending[i]]
  BY <1>1 DEF es
<1>3. Range(es) = {log[pending[i]] : i \in 1..Len(es)}
  BY <1>2 DEF Range
<1> QED BY <1>1, <1>3 DEF es

\* The loop marks rows without a hash, or settles one it redelivers.
LEMMA LoopRows ==
    ASSUME TypeInv, RowInv, Loop, NEW e \in Events
    PROVE  row'[e] = row[e] \/ Marks(e) \/ (FilterReconcile /\ e = Current /\ Settles(e))
<1>0. /\ row[e] \in Rows /\ row \in [Events -> Rows]
      /\ (row[e].status = "PENDING" => row[e].tx = NoTx)
      /\ LogType /\ LoopType
  BY DEF TypeInv, CoreType, RowInv, RowShape
<1>1. CASE FetchMessage \/ FetchBad \/ Tick \/ FilterError \/ FilterDone
  BY <1>1 DEF FetchMessage, FetchBad, Tick, FilterError, FilterDone, storeVars
<1>2. CASE FilterDuplicate \/ FilterSkip \/ RecordFailureError
  BY <1>2 DEF FilterDuplicate, FilterSkip, RecordFailureError
<1>3. CASE FilterPending
  <2>1. /\ row[Current].status \in {"NONE", "PENDING"} /\ row[Current].tx = NoTx
        /\ row' = [row EXCEPT ![Current].status = "PENDING"]
    BY <1>3 DEF FilterPending
  <2>2. CASE e = Current
    <3>1. /\ row'[e].status = "PENDING" /\ row'[e].tx = row[e].tx
          /\ row'[e].rejected = row[e].rejected
      BY <1>0, <2>1, <2>2 DEF Rows
    <3> QED BY <1>3, <2>1, <2>2, <3>1 DEF Marks
  <2>3. CASE e # Current
    BY <1>0, <2>1, <2>3
  <2> QED BY <2>2, <2>3
<1>4. CASE FilterReconcile
  <2>1. /\ segment # <<>> /\ row[Current].tx # NoTx
        /\ \/ /\ tx[row[Current].tx].state = "ok" /\ Resolvable({Current}, row[Current].tx)
              /\ row' = ApplyOutcomes({Current}, row[Current].tx)
           \/ /\ tx[row[Current].tx].state = "reverted"
              /\ row' = MarkFailed({Current}, row[Current].tx)
           \/ row' = row
    BY <1>4 DEF FilterReconcile, Filtering
  <2>2. Current \in Events
    <3>1. segment[1] \in Good
      BY <1>0, <2>1 DEF LoopType
    <3> QED BY <1>0, <3>1, GoodEvent DEF Current
  <2>3. PICK t \in Txs : t = row[Current].tx
    BY <1>0, <2>1, <2>2 DEF Rows
  <2>4. e \in {Current} => row[e].tx = t
    BY <2>3
  <2>5. row'[e] = row[e] \/ Settles(e)
    BY <2>1, <2>3, <2>4, ApplySettles, MarkFailedSettles
  <2>6. e # Current => row'[e] = row[e]
    BY <1>0, <2>1 DEF ApplyOutcomes, MarkFailed
  <2> QED BY <1>4, <2>5, <2>6
<1>5. CASE SendFailed
  <2>1. pc = "send" /\ row' = MarkFailed(EventsOf(Prefix(FailureLength)), NoTx)
    BY <1>5 DEF SendFailed
  <2>2. PICK n \in 1..Len(pending) : n = FailureLength
    BY <1>0, <2>1, FailureLengthType DEF LoopType
  <2>3. row'[e] = IF e \in EventsOf(Prefix(n)) THEN Failed(row[e], NoTx) ELSE row[e]
    BY <2>1, <2>2 DEF MarkFailed
  <2>4. CASE e \in EventsOf(Prefix(n))
    <3>1. PICK i \in 1..n : e = log[pending[i]]
      BY <2>4, PrefixEvents
    <3>2. i \in 1..Len(pending)
      BY <1>0 DEF LoopType
    <3>3. row[e].status = "PENDING"
      BY <2>1, <3>1, <3>2 DEF RowInv, PendingFresh
    <3>4. /\ Failed(row[e], NoTx).status = "FAILED" /\ Failed(row[e], NoTx).tx = row[e].tx
          /\ Failed(row[e], NoTx).rejected = row[e].rejected
      BY <1>0, <3>3 DEF Failed, Rows
    <3> QED BY <1>0, <1>5, <2>3, <2>4, <3>3, <3>4 DEF Marks
  <2> QED BY <2>3, <2>4
<1>6. CASE SendCalldata \/ SendLost \/ SendError \/ SendRefused \/ RecordSentError
  BY <1>6 DEF SendCalldata, SendLost, SendError, SendRefused, RecordSentError, storeVars
<1>7. CASE RecordSent
  <2>1. pc = "mark" /\ row' = MarkSent(Range(tx[ntx].events), ntx)
    BY <1>7 DEF RecordSent
  <2>2. row'[e] = IF e \in Range(tx[ntx].events) THEN Sent(row[e], ntx) ELSE row[e]
    BY <2>1 DEF MarkSent
  <2>3. CASE e \in Range(tx[ntx].events)
    <3>1. PICK i \in 1..Len(tx[ntx].events) : e = log[pending[i]]
      BY <2>1, <2>3, MarkedEvents
    <3>2. i \in 1..Len(pending)
      BY <1>0, <2>1, MarkedEvents DEF LoopType
    <3>3. row[e].status = "PENDING"
      BY <2>1, <3>1, <3>2 DEF RowInv, PendingFresh
    <3>4. /\ Sent(row[e], ntx).status = "SENT" /\ Sent(row[e], ntx).tx = ntx
          /\ Sent(row[e], ntx).rejected = row[e].rejected
      BY <1>0, <3>3 DEF Sent, Rows
    <3> QED BY <1>0, <1>7, <2>2, <2>3, <3>3, <3>4 DEF Marks
  <2> QED BY <2>2, <2>3
<1>8. CASE Submit \/ PublishBad \/ PublishBadError \/ SubmitBad \/ Escalate
  BY <1>8 DEF Submit, PublishBad, PublishBadError, SubmitBad, SubmitBatch, Escalate, Restart,
              storeVars
<1> QED BY <1>1, <1>2, <1>3, <1>4, <1>5, <1>6, <1>7, <1>8 DEF Loop

\* All steps.
LEMMA RowMoves ==
    ASSUME TypeInv, RowInv, [Next]_vars, NEW e \in Events
    PROVE  row'[e] = row[e] \/ Marks(e) \/ Settles(e)
BY LoopRows, OthersSettle

\* A stored hash is kept, and a row gets one when its transaction is recorded.
LEMMA HashKept ==
    ASSUME TypeInv, RowInv, [Next]_vars, NEW e \in Events
    PROVE  /\ row[e].tx # NoTx => row'[e].tx = row[e].tx
           /\ row[e].tx = NoTx /\ row'[e].tx # NoTx =>
                RecordSent /\ e \in Range(tx[ntx].events) /\ row'[e].tx = ntx
<1>1. CASE row'[e] = row[e]
  BY <1>1
<1>2. CASE Marks(e)
  BY <1>2 DEF Marks
<1>3. CASE Settles(e)
  BY <1>3 DEF Settles
<1> QED BY <1>1, <1>2, <1>3, RowMoves

\* What a rejected row was told, the chain keeps saying.
LEMMA ToldStays ==
    ASSUME TypeInv, [Next]_vars, NEW t \in Txs, NEW e \in Events,
           tx[t].state = "ok", Told(t, e)
    PROVE  /\ tx'[t].state = "ok"
           /\ \/ receipt'[t][e] \in {"rejected", "signer"}
              \/ receipt'[t][e] = "none" /\ chainState'[e] = "Rejected"
<1>1. tx'[t].state = "ok"
  BY TxMoves
<1>2. CASE ~MineNext
  <2>1. receipt' = receipt /\ chainState' = chainState
    BY <1>2, ExecuteSteps
  <2> QED BY <1>1, <2>1 DEF Told
<1>3. CASE MineNext
  <2>1. PICK m \in Txs : Mine(m)
    BY <1>3 DEF MineNext
  <2>2. t # m
    BY <2>1, MineCases
  <2>3. CASE receipt' = receipt /\ chainState' = chainState
    BY <1>1, <2>3 DEF Told
  <2>4. ASSUME NEW decide \in [Range(tx[m].events) -> Outcomes], ExecuteAs(m, decide)
        PROVE  /\ receipt'[t][e] = receipt[t][e]
               /\ chainState[e] = "Rejected" => chainState'[e] = "Rejected"
    BY <2>2, <2>4, ExecuteWrites
  <2> QED BY <1>1, <2>1, <2>3, <2>4, MineCases DEF Told
<1> QED BY <1>2, <1>3

\* The actions of a new transaction are pending, and the broadcast writes no row.
LEMMA NewTxPending ==
    ASSUME TypeInv, RowInv, [Next]_vars, NEW u \in Txs, tx[u].state = "none",
           NEW e \in Range(tx'[u].events)
    PROVE  /\ u = ntx + 1 /\ ntx' = ntx + 1
           /\ e \in Events /\ row' = row /\ row[e].status = "PENDING" /\ row[e].tx = NoTx
           /\ pc = "send" /\ ChunkLength \in 1..Len(pending)
           /\ \E i \in 1..ChunkLength : e = log[pending[i]]
           /\ \A i \in 1..ChunkLength : log[pending[i]] \in Range(tx'[u].events)
<1>0. LogType /\ LoopType /\ TxType /\ NonceType
  BY DEF TypeInv
<1>1. tx[u].events = <<>>
  BY <1>0 DEF TxType
<1>2. tx'[u].events # tx[u].events
  BY <1>1 DEF Range
<1>3. tx'[u].state = "pool" /\ u = ntx + 1 /\ ntx' = ntx + 1
  BY <1>2, TxMoves
<1>4. BroadcastLost \/ BroadcastSent
  <2>1. CASE TxStays
    BY <1>2, <2>1 DEF TxStays
  <2>2. CASE MineNext \/ \E t \in Txs : Evict(t)
    <3>1. ntx' = ntx
      BY <2>2 DEF MineNext, Mine, Evict
    <3> QED BY <1>0, <1>3, <3>1 DEF TxType
  <2> QED BY <2>1, <2>2, TxSteps
<1>5. pc = "send" /\ row' = row /\ \E R : Broadcast(R)
  BY <1>4 DEF BroadcastLost, BroadcastSent, SendLost, SendCalldata, storeVars
<1>6. /\ ChunkLength \in 1..Len(pending)
      /\ tx'[u].events \in Seq(Events) /\ Len(tx'[u].events) = ChunkLength
      /\ \A i \in 1..ChunkLength : tx'[u].events[i] = log[pending[i]]
  BY <1>0, <1>3, <1>5, BroadcastAdds
<1>7. PICK i \in 1..ChunkLength : e = log[pending[i]]
  <2>1. PICK i \in DOMAIN tx'[u].events : e = tx'[u].events[i]
    BY DEF Range
  <2> QED BY <1>6, <2>1
<1>8. i \in 1..Len(pending) /\ e \in Events
  <2>1. Len(pending) \in Nat
    BY <1>0 DEF LoopType
  <2>2. i \in 1..Len(pending)
    BY <1>6, <2>1
  <2>3. pending[i] \in Good
    BY <1>0, <2>2 DEF LoopType
  <2> QED BY <1>0, <1>7, <2>2, <2>3, GoodEvent
<1>9. row[e].status = "PENDING" /\ row[e].tx = NoTx
  BY <1>5, <1>7, <1>8 DEF RowInv, PendingFresh, RowShape
<1>10. \A k \in 1..ChunkLength : log[pending[k]] \in Range(tx'[u].events)
  <2>1. DOMAIN tx'[u].events = 1..ChunkLength
    BY <1>6
  <2> QED BY <1>6, <2>1 DEF Range
<1> QED BY <1>3, <1>5, <1>6, <1>7, <1>8, <1>9, <1>10

\* MarkSent gives the rows of the transaction its hash.
LEMMA RecordSentHash ==
    ASSUME TypeInv, RowInv, RecordSent, NEW e \in Range(tx[ntx].events)
    PROVE  e \in Events /\ row'[e].tx = ntx
<1>1. pc = "mark" /\ row' = MarkSent(Range(tx[ntx].events), ntx)
  BY DEF RecordSent
<1>2. LogType /\ LoopType /\ row \in [Events -> Rows]
  BY DEF TypeInv, CoreType
<1>3. PICK i \in 1..Len(tx[ntx].events) : e = log[pending[i]]
  BY <1>1, MarkedEvents
<1>4. i \in 1..Len(pending)
  BY <1>1, <1>2, MarkedEvents DEF LoopType
<1>5. e \in Events
  BY <1>2, <1>3, <1>4, GoodEvent DEF LoopType
<1>6. row[e].status = "PENDING" /\ row[e] \in Rows
  BY <1>1, <1>2, <1>3, <1>4, <1>5 DEF RowInv, PendingFresh
<1>7. Sent(row[e], ntx).tx = ntx
  BY <1>6 DEF Sent, Rows
<1> QED BY <1>1, <1>5, <1>7 DEF MarkSent

LEMMA RowShapeStep ==
    ASSUME TypeInv, RowInv, [Next]_vars
    PROVE  RowShape' /\ RowTold'
<1> SUFFICES ASSUME NEW e \in Events
             PROVE  /\ row'[e].status \in {"NONE", "PENDING"} => row'[e].tx = NoTx
                    /\ row'[e].status \in {"SENT", "COMMITTED"} => row'[e].tx # NoTx
                    /\ row'[e].rejected =>
                         /\ row'[e].status = "FAILED" /\ row'[e].tx # NoTx
                         /\ tx'[row'[e].tx].state = "ok"
                         /\ \/ receipt'[row'[e].tx][e] \in {"rejected", "signer"}
                            \/ receipt'[row'[e].tx][e] = "none" /\ chainState'[e] = "Rejected"
  BY DEF RowShape, RowTold, Told
<1>0. /\ row[e].status \in {"NONE", "PENDING"} => row[e].tx = NoTx
      /\ row[e].status \in {"SENT", "COMMITTED"} => row[e].tx # NoTx
      /\ row[e].rejected => /\ row[e].status = "FAILED" /\ row[e].tx # NoTx
                            /\ tx[row[e].tx].state = "ok" /\ Told(row[e].tx, e)
      /\ row[e] \in Rows
  BY DEF RowInv, RowShape, RowTold, TypeInv, CoreType
<1>1. ASSUME row[e].tx # NoTx, tx[row[e].tx].state = "ok", Told(row[e].tx, e)
      PROVE  /\ tx'[row[e].tx].state = "ok"
             /\ \/ receipt'[row[e].tx][e] \in {"rejected", "signer"}
                \/ receipt'[row[e].tx][e] = "none" /\ chainState'[e] = "Rejected"
  <2>1. PICK t \in Txs : t = row[e].tx
    BY <1>0, <1>1 DEF Rows
  <2> QED BY <1>1, <2>1, ToldStays
<1>2. CASE row'[e] = row[e]
  BY <1>0, <1>1, <1>2
<1>3. CASE Marks(e)
  <2>1. ~row[e].rejected /\ ~row'[e].rejected
    BY <1>0, <1>3 DEF Marks
  <2>2. ntx # NoTx \/ ~RecordSent
    <3>1. ASSUME RecordSent PROVE ntx \in Txs
      <4>1. pc = "mark"
        BY <3>1 DEF RecordSent
      <4> QED BY <4>1, MarkedEvents
    <3> QED BY <3>1 DEF Txs, NoTx
  <2> QED BY <1>3, <2>1, <2>2 DEF Marks
<1>4. CASE Settles(e)
  <2>1. row[e].tx # NoTx /\ row'[e].tx = row[e].tx
    BY <1>4 DEF Settles
  <2>2. CASE /\ tx[row[e].tx].state = "reverted"
             /\ row'[e].status = "FAILED" /\ row'[e].rejected = row[e].rejected
    BY <1>0, <2>1, <2>2
  <2>3. CASE /\ tx[row[e].tx].state = "ok" /\ Outcome(row[e].tx, e) = "applied"
             /\ row'[e].status = "COMMITTED" /\ row'[e].rejected = row[e].rejected
    <3>1. ~row[e].rejected
      <4> SUFFICES ASSUME Told(row[e].tx, e) PROVE Outcome(row[e].tx, e) # "applied"
        BY <1>0, <2>3
      <4> QED BY DEF Told, Outcome, LogOutcome, StateOutcome
    <3> QED BY <2>1, <2>3, <3>1
  <2>4. CASE /\ tx[row[e].tx].state = "ok" /\ Told(row[e].tx, e)
             /\ row'[e].status = "FAILED" /\ row'[e].rejected = TRUE
    BY <1>1, <2>1, <2>4
  <2> QED BY <1>4, <2>2, <2>3, <2>4 DEF Settles
<1> QED BY <1>2, <1>3, <1>4, RowMoves

LEMMA RowTxStep ==
    ASSUME TypeInv, RowInv, [Next]_vars
    PROVE  RowTx'
<1> SUFFICES ASSUME NEW e \in Events, row'[e].tx # NoTx
             PROVE  /\ e \in Range(tx'[row'[e].tx].events)
                    /\ \A u \in Txs : e \in Range(tx'[u].events) => u <= row'[e].tx
  BY DEF RowTx
<1>0. TxType /\ row[e] \in Rows
  BY DEF TypeInv, CoreType
<1>1. CASE row[e].tx # NoTx
  <2>1. PICK t \in Txs : t = row[e].tx /\ t = row'[e].tx
    BY <1>0, <1>1, HashKept DEF Rows
  <2>2. e \in Range(tx[t].events) /\ \A u \in Txs : e \in Range(tx[u].events) => u <= t
    BY <1>1, <2>1 DEF RowInv, RowTx
  <2>3. tx[t].state # "none"
    BY <1>0, <2>2 DEF TxType, Range
  <2>4. tx'[t].events = tx[t].events
    BY <2>3, TxMoves
  <2>5. ASSUME NEW u \in Txs, e \in Range(tx'[u].events) PROVE u <= t
    <3>1. tx[u].state # "none"
      BY <1>1, <2>5, NewTxPending
    <3>2. tx'[u].events = tx[u].events
      BY <3>1, TxMoves
    <3> QED BY <2>2, <2>5, <3>2
  <2> QED BY <2>1, <2>2, <2>4, <2>5
<1>2. CASE row[e].tx = NoTx
  <2>1. RecordSent /\ e \in Range(tx[ntx].events) /\ row'[e].tx = ntx
    BY <1>2, HashKept
  <2>2. tx' = tx
    BY <2>1 DEF RecordSent, chainVars
  <2>3. ASSUME NEW u \in Txs, e \in Range(tx[u].events) PROVE u <= ntx
    <3>1. tx[u].state # "none"
      BY <1>0, <2>3 DEF TxType, Range
    <3> QED BY <1>0, <3>1 DEF TxType, Txs
  <2> QED BY <2>1, <2>2, <2>3
<1> QED BY <1>1, <1>2

\* Where a batch in the pipeline comes from.
LEMMA PipeEntries ==
    ASSUME PipeType, [Next]_vars, NEW i \in 1..Len(pipe')
    PROVE  /\ ~Escalate /\ ~Crash
           /\ \/ \E j \in 1..Len(pipe) : pipe'[i] = pipe[j]
              \/ Submit /\ pipe'[i].msgs = batch /\ pipe'[i].txs = inflight
              \/ SubmitBad /\ pipe'[i].msgs = <<badMsg>> /\ pipe'[i].txs = <<>>
<1>0. Len(pipe) \in Nat /\ pipe \in Seq([msgs : Seq(Messages), txs : Seq(Txs)])
  BY DEF PipeType
<1>1. ~Escalate /\ ~Crash
  <2> SUFFICES ASSUME Escalate \/ Crash PROVE FALSE
    OBVIOUS
  <2>1. pipe' = <<>>
    BY DEF Escalate, Crash, Restart
  <2> QED BY <2>1
<1>2. CASE PipeStays
  BY <1>1, <1>2 DEF PipeStays
<1>3. ASSUME NEW b, pipe' = Append(pipe, b)
      PROVE  pipe'[i] = b \/ \E j \in 1..Len(pipe) : pipe'[i] = pipe[j]
  <2>1. CASE i = Len(pipe) + 1
    BY <1>0, <1>3, <2>1
  <2>2. CASE i # Len(pipe) + 1
    <3>1. i \in 1..Len(pipe) /\ pipe'[i] = pipe[i]
      BY <1>0, <1>3, <2>2
    <3> QED BY <3>1
  <2> QED BY <2>1, <2>2
<1>4. CASE Submit
  <2>0. PICK b : b = [msgs |-> batch, txs |-> inflight]
    OBVIOUS
  <2>1. b.msgs = batch /\ b.txs = inflight
    BY <2>0
  <2>2. pipe' = Append(pipe, b)
    BY <1>4, <2>0 DEF Submit, SubmitBatch
  <2> QED BY <1>1, <1>3, <1>4, <2>1, <2>2
<1>5. CASE SubmitBad
  <2>0. PICK b : b = [msgs |-> <<badMsg>>, txs |-> <<>>]
    OBVIOUS
  <2>1. b.msgs = <<badMsg>> /\ b.txs = <<>>
    BY <2>0
  <2>2. pipe' = Append(pipe, b)
    BY <1>5, <2>0 DEF SubmitBad, SubmitBatch
  <2> QED BY <1>1, <1>3, <1>5, <2>1, <2>2
<1>6. CASE CommitOffsets
  <2>1. pipe # <<>> /\ pipe' = Tail(pipe)
    BY <1>6 DEF CommitOffsets
  <2>2. i + 1 \in 1..Len(pipe) /\ pipe'[i] = pipe[i + 1]
    BY <1>0, <2>1
  <2> QED BY <1>1, <2>2
<1> QED BY <1>1, <1>2, <1>4, <1>5, <1>6, PipeSteps

LEMMA RecordedSteps ==
    ASSUME TypeInv, [Next]_vars, NEW t \in Txs, Recorded(t)'
    PROVE  Recorded(t) \/ (RecordSent /\ t = ntx)
<1>0. PipeType /\ PipeType'
  BY TypeInvStep DEF TypeInv
<1>1. ASSUME t \in Range(inflight')
      PROVE  t \in Range(inflight) \/ (RecordSent /\ t = ntx)
  <2>1. CASE inflight' = inflight
    BY <1>1, <2>1
  <2>2. CASE inflight' = <<>>
    BY <1>1, <2>2 DEF Range
  <2>3. CASE RecordSent
    <3>1. inflight' = Append(inflight, ntx) /\ inflight \in Seq(Txs)
      BY <1>0, <2>3 DEF RecordSent, PipeType
    <3>2. PICK i \in DOMAIN inflight' : t = inflight'[i]
      BY <1>1 DEF Range
    <3>3. i \in 1..(Len(inflight) + 1)
      BY <3>1, <3>2
    <3>4. CASE i = Len(inflight) + 1
      BY <2>3, <3>1, <3>2, <3>4
    <3>5. CASE i \in 1..Len(inflight)
      <4>1. t = inflight[i] /\ i \in DOMAIN inflight
        BY <3>1, <3>2, <3>5
      <4> QED BY <4>1 DEF Range
    <3>6. Len(inflight) \in Nat
      BY <3>1
    <3> QED BY <3>3, <3>4, <3>5, <3>6
  <2> QED BY <2>1, <2>2, <2>3, InflightSteps
<1>2. ASSUME NEW i \in 1..Len(pipe'), t \in Range(pipe'[i].txs)
      PROVE  Recorded(t)
  <2>1. CASE \E j \in 1..Len(pipe) : pipe'[i] = pipe[j]
    BY <1>2, <2>1 DEF Recorded
  <2>2. CASE Submit /\ pipe'[i].txs = inflight
    BY <1>2, <2>2 DEF Recorded
  <2>3. CASE SubmitBad /\ pipe'[i].txs = <<>>
    BY <1>2, <2>3 DEF Range
  <2> QED BY <1>0, <2>1, <2>2, <2>3, PipeEntries
<1> QED BY <1>1, <1>2 DEF Recorded

LEMMA RecordedOwnStep ==
    ASSUME TypeInv, RowInv, [Next]_vars
    PROVE  RecordedOwn'
<1> SUFFICES ASSUME NEW t \in Txs, Recorded(t)'
             PROVE  t <= ntx' /\ \A e \in Range(tx'[t].events) : row'[e].tx = t
  BY DEF RecordedOwn
<1>0. TxType /\ ntx \in Nat /\ ntx' \in Nat /\ tx[t].events \in Seq(Events) /\ t \in Nat /\ t # NoTx
  <2>1. TypeInv'
    BY TypeInvStep
  <2>2. TxType /\ TxType'
    BY <2>1 DEF TypeInv
  <2>3. ntx \in 0..MaxTx /\ ntx' \in 0..MaxTx /\ MaxTx \in Nat
    BY <2>2, AdapterAssumption DEF TxType
  <2>4. tx[t].events \in Seq(Events)
    BY <2>2 DEF TxType
  <2>5. t \in Nat /\ t # NoTx
    BY AdapterAssumption DEF Txs, NoTx
  <2> QED BY <2>2, <2>3, <2>4, <2>5
<1>1. CASE Recorded(t)
  <2>1. t <= ntx /\ \A e \in Range(tx[t].events) : row[e].tx = t
    BY <1>1 DEF RowInv, RecordedOwn
  <2>2. tx[t].state # "none"
    BY <1>0, <2>1 DEF TxType
  <2>3. tx'[t].events = tx[t].events /\ ntx <= ntx'
    BY <2>2, TxMoves
  <2>4. ASSUME NEW e \in Range(tx[t].events) PROVE row'[e].tx = t
    <3>1. e \in Events
      BY <1>0 DEF Range
    <3> QED BY <1>0, <2>1, <3>1, HashKept
  <2> QED BY <1>0, <2>1, <2>3, <2>4
<1>2. CASE RecordSent /\ t = ntx
  <2>1. tx' = tx /\ ntx' = ntx
    BY <1>2 DEF RecordSent, chainVars
  <2> QED BY <1>0, <1>2, <2>1, RecordSentHash
<1> QED BY <1>1, <1>2, RecordedSteps

LEMMA SweepOwnStep ==
    ASSUME TypeInv, RowInv, [Next]_vars
    PROVE  SweepOwn'
<1> SUFFICES ASSUME NEW t \in Txs, NEW e \in sweep'[t] PROVE row'[e].tx = t
  BY DEF SweepOwn
<1>0. sweep \in [Txs -> SUBSET Events] /\ t # NoTx
  BY DEF TypeInv, RestType, Txs, NoTx
<1>1. ASSUME e \in sweep[t] PROVE row'[e].tx = t
  <2>1. e \in Events /\ row[e].tx = t
    BY <1>0, <1>1 DEF RowInv, SweepOwn
  <2> QED BY <1>0, <2>1, HashKept
<1>2. CASE sweep' = sweep
  BY <1>1, <1>2
<1>3. CASE ReconcileList
  BY <1>3 DEF ReconcileList, storeVars
<1>4. ASSUME NEW u \in Txs, ReconcileReceipt(u) PROVE row'[e].tx = t
  <2>1. sweep' = [sweep EXCEPT ![u] = {}]
    BY <1>4 DEF ReconcileReceipt
  <2>2. e \in sweep[t]
    BY <1>0, <2>1
  <2> QED BY <1>1, <2>2
<1>5. CASE Escalate \/ Crash
  BY <1>5 DEF Escalate, Crash, Restart
<1> QED BY <1>2, <1>3, <1>4, <1>5, SweepSteps DEF Reconcile

\* The rows of pending actions stay PENDING, except those SendFailed and RecordSent deal with.
LEMMA PendingRows ==
    ASSUME TypeInv, RowInv, [Next]_vars, NEW e \in Events, row[e].status = "PENDING"
    PROVE  /\ ~SendFailed /\ ~RecordSent => row'[e].status = "PENDING"
           /\ \A ids : SendFailed /\ row' = MarkFailed(ids, NoTx) /\ e \notin ids => row'[e] = row[e]
           /\ RecordSent /\ e \notin Range(tx[ntx].events) => row'[e] = row[e]
<1>1. ~SendFailed /\ ~RecordSent => row'[e].status = "PENDING"
  <2>1. row[e].tx = NoTx
    BY DEF RowInv, RowShape
  <2> QED BY <2>1, RowMoves DEF Marks, Settles
<1>2. ASSUME NEW ids, row' = MarkFailed(ids, NoTx), e \notin ids PROVE row'[e] = row[e]
  BY <1>2 DEF MarkFailed
<1>3. ASSUME RecordSent, e \notin Range(tx[ntx].events) PROVE row'[e] = row[e]
  BY <1>3 DEF RecordSent, MarkSent
<1> QED BY <1>1, <1>2, <1>3

LEMMA PendingFreshStep ==
    ASSUME TypeInv, RowInv, [Next]_vars
    PROVE  PendingFresh'
<1>0. LogType /\ LoopType /\ PendingFresh /\ log' = log
  BY LogFixed DEF TypeInv, RowInv
<1>1. CASE pc' \notin {"filter", "send", "mark"}
  BY <1>1 DEF PendingFresh
<1>2. CASE pending' = <<>>
  BY <1>2 DEF PendingFresh
<1>3. ASSUME NEW i \in 1..Len(pending) PROVE log[pending[i]] \in Events
  <2>1. pending[i] \in Good
    BY <1>0 DEF LoopType
  <2> QED BY <1>0, <2>1, GoodEvent
<1>4. ASSUME pending' = pending, seen \subseteq seen', ~SendFailed, ~RecordSent,
             pc \in {"filter", "send", "mark"}, pc' = "filter" => pc = "filter"
      PROVE  PendingFresh'
  <2>1. ASSUME NEW i \in 1..Len(pending) PROVE row'[log[pending[i]]].status = "PENDING"
    <3>1. row[log[pending[i]]].status = "PENDING"
      BY <1>0, <1>4 DEF PendingFresh
    <3> QED BY <1>3, <1>4, <3>1, PendingRows
  <2> QED BY <1>0, <1>4, <2>1 DEF PendingFresh
<1>5. ASSUME NEW n \in 1..Len(pending), AfterPrefix(n), pc \in {"send", "mark"},
             \A e \in Events : row[e].status = "PENDING" /\ e \notin {log[pending[i]] : i \in 1..n}
                                  => row'[e] = row[e]
      PROVE  PendingFresh'
  <2>0. pending \in Seq(Good) /\ Len(pending) \in Nat
    BY <1>0 DEF LoopType
  <2>1. CASE BeginSegment(rest)
    BY <1>2, <2>1 DEF BeginSegment
  <2>2. CASE /\ n < Len(pending) /\ pc' = "send" /\ Len(pending') = Len(pending) - n
             /\ \A i \in 1..(Len(pending) - n) : pending'[i] = pending[n + i]
    <3>1. ASSUME NEW i \in 1..Len(pending')
          PROVE  n + i \in 1..Len(pending) /\ pending'[i] = pending[n + i]
      BY <2>0, <2>2
    <3>2. ASSUME NEW i \in 1..Len(pending') PROVE row'[log[pending'[i]]].status = "PENDING"
      <4>1. PICK j \in 1..Len(pending) : j = n + i /\ pending'[i] = pending[j]
        BY <3>1
      <4>2. row[log[pending[j]]].status = "PENDING"
        BY <1>0, <1>5 DEF PendingFresh
      <4>3. ASSUME NEW k \in 1..n PROVE log[pending[j]] # log[pending[k]]
        <5>1. k \in 1..Len(pending) /\ k # j
          BY <2>0, <4>1
        <5> QED BY <1>0, <1>5, <5>1 DEF PendingFresh
      <4> QED BY <1>3, <1>5, <4>1, <4>2, <4>3
    <3>3. ASSUME NEW i \in 1..Len(pending'), NEW j \in 1..Len(pending'),
                 log[pending'[i]] = log[pending'[j]]
          PROVE  i = j
      <4>0. PICK a, b \in 1..Len(pending) :
               a = n + i /\ b = n + j /\ pending'[i] = pending[a] /\ pending'[j] = pending[b]
        BY <3>1
      <4>1. a = b
        BY <1>0, <1>5, <3>3, <4>0 DEF PendingFresh
      <4>2. n \in Int /\ i \in Int /\ j \in Int
        BY <2>0, <2>2
      <4> QED BY <4>0, <4>1, <4>2
    <3> QED BY <1>0, <2>2, <3>2, <3>3 DEF PendingFresh
  <2> QED BY <1>5, <2>0, <2>1, <2>2, AfterPrefixLeaves
<1>6. CASE FilterPending
  <2>1. /\ pc = "filter" /\ pc' = "filter" /\ segment # <<>> /\ Current \notin seen
        /\ seen' = seen \union {Current} /\ pending' = Append(pending, segment[1])
        /\ row' = [row EXCEPT ![Current].status = "PENDING"]
    BY <1>6 DEF FilterPending, Filtering, loopVars
  <2>2. pending \in Seq(Good) /\ Len(pending) \in Nat /\ segment[1] \in Good
    BY <1>0, <2>1 DEF LoopType
  <2>3. Current \in Events /\ Current = log[segment[1]]
    BY <1>0, <2>2, GoodEvent DEF Current
  <2>4. row \in [Events -> Rows]
    BY DEF TypeInv, CoreType
  <2>5. row'[Current].status = "PENDING"
    BY <2>1, <2>3, <2>4 DEF Rows
  <2>6. ASSUME NEW i \in 1..Len(pending)
        PROVE  /\ row'[log[pending[i]]].status = "PENDING"
               /\ log[pending[i]] \in seen
               /\ pending'[i] = pending[i]
    <3>1. row[log[pending[i]]].status = "PENDING" /\ log[pending[i]] \in seen
      BY <1>0, <2>1 DEF PendingFresh
    <3>2. ~SendFailed /\ ~RecordSent
      BY <2>1 DEF SendFailed, RecordSent
    <3>3. row'[log[pending[i]]].status = "PENDING"
      BY <1>3, <3>1, <3>2, PendingRows
    <3> QED BY <2>1, <2>2, <3>1, <3>3
  <2>7. Len(pending') = Len(pending) + 1 /\ pending'[Len(pending) + 1] = segment[1]
    BY <2>1, <2>2
  <2>8. ASSUME NEW i \in 1..Len(pending'), i \notin 1..Len(pending)
        PROVE  i = Len(pending) + 1 /\ log[pending'[i]] = Current
    BY <2>2, <2>3, <2>7, <2>8
  <2>9. \A i \in 1..Len(pending') : /\ row'[log[pending'[i]]].status = "PENDING"
                                    /\ log[pending'[i]] \in seen'
    BY <2>1, <2>5, <2>6, <2>8
  <2>10. ASSUME NEW i \in 1..Len(pending'), NEW j \in 1..Len(pending'),
                log[pending'[i]] = log[pending'[j]]
         PROVE  i = j
    <3>1. CASE i \in 1..Len(pending) /\ j \in 1..Len(pending)
      BY <1>0, <2>1, <2>6, <2>10, <3>1 DEF PendingFresh
    <3>2. CASE i \notin 1..Len(pending) /\ j \notin 1..Len(pending)
      BY <2>8, <3>2
    <3>3. CASE i \in 1..Len(pending) /\ j \notin 1..Len(pending)
      BY <2>1, <2>6, <2>8, <2>10, <3>3
    <3>4. CASE i \notin 1..Len(pending) /\ j \in 1..Len(pending)
      BY <2>1, <2>6, <2>8, <2>10, <3>4
    <3> QED BY <3>1, <3>2, <3>3, <3>4
  <2> QED BY <1>0, <2>9, <2>10 DEF PendingFresh
<1>7. CASE SendFailed
  <2>1. /\ pc = "send" /\ AfterPrefix(FailureLength)
        /\ row' = MarkFailed(EventsOf(Prefix(FailureLength)), NoTx)
    BY <1>7 DEF SendFailed
  <2>2. PICK n \in 1..Len(pending) : n = FailureLength
    BY <1>0, <2>1, FailureLengthType DEF LoopType
  <2>3. row' = MarkFailed({log[pending[i]] : i \in 1..n}, NoTx) /\ AfterPrefix(n)
    BY <2>1, <2>2, PrefixEvents
  <2>4. \A e \in Events : e \notin {log[pending[i]] : i \in 1..n} => row'[e] = row[e]
    BY <2>3 DEF MarkFailed
  <2> QED BY <1>5, <2>1, <2>3, <2>4
<1>8. CASE RecordSent
  <2>1. pc = "mark" /\ AfterPrefix(Len(tx[ntx].events))
    BY <1>8 DEF RecordSent
  <2>2. PICK n \in 1..Len(pending) :
           n = Len(tx[ntx].events) /\ Range(tx[ntx].events) = {log[pending[i]] : i \in 1..n}
    BY <2>1, MarkedEvents
  <2> QED BY <1>5, <1>8, <2>1, <2>2, PendingRows
<1>9. CASE FetchMessage \/ FetchBad \/ Tick
  <2>1. pc = "poll"
    BY <1>9 DEF FetchMessage, FetchBad, Tick
  <2> QED BY <1>1, <1>2, <1>9, <2>1 DEF FetchMessage, FetchBad, Tick, DrainSend, BeginSegment
<1>10. CASE FilterDuplicate \/ FilterSkip \/ FilterReconcile
  <2>1. /\ pc = "filter" /\ pc' = "filter" /\ seen \subseteq seen' /\ pending' = pending
    BY <1>10 DEF FilterDuplicate, FilterSkip, FilterReconcile, Filtering, loopVars
  <2> QED BY <1>4, <2>1 DEF SendFailed, RecordSent
<1>11. CASE FilterDone
  <2>1. pc = "filter" /\ (BeginSegment(rest) \/ (pc' = "send" /\ pending' = pending /\ seen' = seen))
    BY <1>11 DEF FilterDone
  <2>2. CASE BeginSegment(rest)
    BY <1>2, <2>2 DEF BeginSegment
  <2> QED BY <1>4, <2>1, <2>2 DEF SendFailed, RecordSent
<1>12. CASE FilterError \/ RecordFailureError \/ SendLost \/ SendError \/ SendRefused
            \/ RecordSentError \/ Submit
  BY <1>1, <1>12 DEF FilterError, RecordFailureError, SendLost, SendError, SendRefused,
                     RecordSentError, Submit, Unshift, EndSend
<1>13. CASE SendCalldata
  <2>1. pc = "send" /\ pc' = "mark" /\ pending' = pending /\ seen' = seen /\ row' = row
    BY <1>13 DEF SendCalldata, sendVars, storeVars
  <2>2. \A i \in 1..Len(pending) : row'[log[pending[i]]].status = "PENDING"
    BY <1>0, <2>1 DEF PendingFresh
  <2> QED BY <1>0, <2>1, <2>2 DEF PendingFresh
<1>14. CASE PublishBad \/ PublishBadError \/ SubmitBad \/ Escalate \/ Crash
  BY <1>1, <1>14 DEF PublishBad, PublishBadError, SubmitBad, Escalate, Crash, Restart
<1>15. CASE LoopStays /\ ~Loop
  BY <1>1, <1>4, <1>15 DEF LoopStays, Loop
<1>16. ~Loop => LoopStays \/ Crash
  BY OthersLeaveLoop DEF Next
<1> QED BY <1>6, <1>7, <1>8, <1>9, <1>10, <1>11, <1>12, <1>13, <1>14, <1>15, <1>16 DEF Loop

LEMMA RowInvStep ==
    ASSUME TypeInv, RowInv, [Next]_vars
    PROVE  RowInv'
BY RowShapeStep, RowTxStep, PendingFreshStep, RecordedOwnStep, SweepOwnStep DEF RowInv

THEOREM RowInvCorrect == Spec => []RowInv
<1>1. Init => RowInv
  <2> SUFFICES ASSUME Init PROVE RowInv
    OBVIOUS
  <2>1. \A e \in Events : row[e].status = "NONE" /\ row[e].tx = NoTx /\ row[e].rejected = FALSE
    BY DEF Init, NoRow
  <2>2. inflight = <<>> /\ pipe = <<>> /\ pc = "poll" /\ \A t \in Txs : sweep[t] = {}
    BY DEF Init
  <2>3. \A t \in Txs : ~Recorded(t)
    BY <2>2 DEF Recorded, Range
  <2> QED BY <2>1, <2>2, <2>3 DEF RowInv, RowShape, RowTx, RowTold, PendingFresh, RecordedOwn,
                                  SweepOwn
<1>2. TypeInv /\ RowInv /\ [Next]_vars => RowInv'
  BY RowInvStep
<1> QED BY <1>1, <1>2, TypeInvCorrect, PTL DEF Spec

\* onchain_events never moves back: a COMMITTED row is not written again, a row with a reject
\* reason stays FAILED, and a stored hash is never replaced, whichever of confirm, redelivery
\* and reconciler comes late.
THEOREM RowsMoveForward == Spec => RowForward
<1>1. TypeInv /\ RowInv /\ [Next]_vars => [RowsForward]_vars
  <2> SUFFICES ASSUME TypeInv, RowInv, [Next]_vars, NEW e \in Events
               PROVE  /\ row[e].status = "COMMITTED" => row'[e] = row[e]
                      /\ row[e].rejected => row'[e].status = "FAILED"
                      /\ row[e].tx # NoTx => row'[e].tx = row[e].tx
    BY DEF RowsForward
  <2>1. row[e].status = "COMMITTED" => row'[e] = row[e]
    <3>1. row[e].status = "COMMITTED" => row[e].tx # NoTx
      BY DEF RowInv, RowShape
    <3> QED BY <3>1, RowMoves DEF Marks, Settles
  <2>2. row[e].rejected => row'[e].status = "FAILED"
    <3> SUFFICES ASSUME row[e].rejected PROVE row'[e].status = "FAILED"
      OBVIOUS
    <3>1. /\ row[e].status = "FAILED" /\ row[e].tx # NoTx
          /\ tx[row[e].tx].state = "ok" /\ Told(row[e].tx, e)
      BY DEF RowInv, RowShape, RowTold
    <3>2. Outcome(row[e].tx, e) # "applied"
      BY <3>1 DEF Told, Outcome, LogOutcome, StateOutcome
    <3> QED BY <3>1, <3>2, RowMoves DEF Marks, Settles
  <2> QED BY <2>1, <2>2, HashKept
<1> QED BY <1>1, TypeInvCorrect, RowInvCorrect, PTL DEF Spec, RowForward

-----------------------------------------------------------------------------
(* Nonces *)

\* The transaction is in the pool or on the chain.
Live(t) == tx[t].state \in {"pool", "ok", "reverted"}

\* As long as the pool keeps what it has: later transactions have higher nonces,
NonceOrder ==
    drops = 0 => \A t, u \in Txs : t < u /\ Live(t) /\ Live(u) => tx[t].nonce < tx[u].nonce

\* no transaction in the pool waits behind a gap,
NoGap ==
    drops = 0 => \A t \in Txs : tx[t].state = "pool" =>
        \A n \in chainNonce..tx[t].nonce : PoolAt(n) # {}

\* the client's nonce continues the pool: only a transaction whose answer was lost has it,
NonceNear ==
    drops = 0 /\ nonce # 0 =>
        /\ \A t \in Txs : Live(t) => tx[t].nonce <= nonce
        /\ \A n \in chainNonce..(nonce - 1) : PoolAt(n) # {}
        /\ faults = 0 => \A t \in Txs : Live(t) => tx[t].nonce < nonce

\* and what is recorded is below it, so that no send replaces it.
RecordedNonce ==
    drops = 0 =>
        /\ \A e \in Events : row[e].tx # NoTx =>
             Live(row[e].tx) /\ (nonce # 0 => tx[row[e].tx].nonce < nonce)
        /\ pc = "mark" => Live(ntx) /\ nonce # 0 /\ tx[ntx].nonce < nonce

NonceInv == NonceOrder /\ NoGap /\ NonceNear /\ RecordedNonce

\* The nonce of the next send, when the chain has not passed it.
LEMMA SeedAbove ==
    ASSUME TypeInv, ChainInv, NonceInv, drops = 0, SeededNonce >= chainNonce
    PROVE  /\ SeededNonce \in Nat /\ SeededNonce # 0
           /\ \A t \in Txs : Live(t) =>
                /\ tx[t].nonce <= SeededNonce
                /\ t \notin PoolAt(SeededNonce) => tx[t].nonce < SeededNonce
           /\ \A n \in chainNonce..(SeededNonce - 1) : PoolAt(n) # {}
           /\ \A e \in Events : row[e].tx # NoTx => tx[row[e].tx].nonce < SeededNonce
<1>0. NonceType /\ chainNonce \in Nat /\ nonce \in Nat /\ \A t \in Txs : tx[t].nonce \in Nat
  BY DEF TypeInv, NonceType, TxType
<1>1. SeededNonce \in Nat /\ SeededNonce # 0
  BY <1>0, SeededNonceType
<1>2. ASSUME NEW t \in Txs, Live(t), tx[t].nonce <= SeededNonce, t \notin PoolAt(SeededNonce)
      PROVE  tx[t].nonce < SeededNonce
  <2>1. CASE tx[t].state = "pool"
    BY <1>0, <1>1, <1>2, <2>1 DEF PoolAt
  <2>2. CASE tx[t].state \in {"ok", "reverted"}
    <3>1. tx[t].nonce < chainNonce
      BY <2>2 DEF ChainInv, NonceSides
    <3> QED BY <1>0, <1>1, <3>1
  <2> QED BY <1>2, <2>1, <2>2 DEF Live
<1>3. CASE nonce # 0
  <2>1. SeededNonce = nonce
    BY <1>3 DEF SeededNonce
  <2>2. /\ \A t \in Txs : Live(t) => tx[t].nonce <= nonce
        /\ \A n \in chainNonce..(nonce - 1) : PoolAt(n) # {}
        /\ \A e \in Events : row[e].tx # NoTx => tx[row[e].tx].nonce < nonce
    BY <1>3 DEF NonceInv, NonceNear, RecordedNonce
  <2> QED BY <1>1, <1>2, <2>1, <2>2
<1>4. CASE nonce = 0
  <2>1. /\ SeededNonce = PendingNonce /\ PoolAt(SeededNonce) = {}
        /\ \A n \in chainNonce..(SeededNonce - 1) : PoolAt(n) # {}
    BY <1>0, <1>4, PendingNonceType DEF SeededNonce
  <2>2. ASSUME NEW t \in Txs, Live(t) PROVE tx[t].nonce < SeededNonce
    <3>1. CASE tx[t].state = "pool"
      <4>1. \A n \in chainNonce..tx[t].nonce : PoolAt(n) # {}
        BY <3>1 DEF NonceInv, NoGap
      <4> QED BY <1>0, <1>1, <2>1, <4>1
    <3>2. CASE tx[t].state \in {"ok", "reverted"}
      <4>1. tx[t].nonce < chainNonce
        BY <3>2 DEF ChainInv, NonceSides
      <4> QED BY <1>0, <1>1, <4>1
    <3> QED BY <2>2, <3>1, <3>2 DEF Live
  <2>3. ASSUME NEW e \in Events, row[e].tx # NoTx PROVE tx[row[e].tx].nonce < SeededNonce
    <3>1. Live(row[e].tx)
      BY <2>3 DEF NonceInv, RecordedNonce
    <3>2. row[e] \in Rows
      BY DEF TypeInv, CoreType
    <3>3. row[e].tx \in Txs
      BY <2>3, <3>2 DEF Rows
    <3> QED BY <2>2, <3>1, <3>3
  <2>4. \A t \in Txs : Live(t) => tx[t].nonce <= SeededNonce
    BY <1>0, <1>1, <2>2
  <2> QED BY <1>1, <2>1, <2>2, <2>3, <2>4
<1> QED BY <1>3, <1>4

\* PendingNonceAt is above every transaction.
LEMMA PendingAbove ==
    ASSUME TypeInv, ChainInv, NonceInv, drops = 0
    PROVE  /\ PendingNonce \in Nat /\ PendingNonce # 0
           /\ \A t \in Txs : Live(t) => tx[t].nonce < PendingNonce
           /\ \A n \in chainNonce..(PendingNonce - 1) : PoolAt(n) # {}
<1>0. chainNonce \in Nat \ {0} /\ \A t \in Txs : tx[t].nonce \in Nat
  BY DEF TypeInv, NonceType, TxType
<1>1. /\ PendingNonce \in Nat /\ PendingNonce >= chainNonce /\ PoolAt(PendingNonce) = {}
      /\ \A n \in chainNonce..(PendingNonce - 1) : PoolAt(n) # {}
  BY <1>0, PendingNonceType
<1>2. ASSUME NEW t \in Txs, Live(t) PROVE tx[t].nonce < PendingNonce
  <2>1. CASE tx[t].state = "pool"
    <3>1. \A n \in chainNonce..tx[t].nonce : PoolAt(n) # {}
      BY <2>1 DEF NonceInv, NoGap
    <3> QED BY <1>0, <1>1, <3>1
  <2>2. CASE tx[t].state \in {"ok", "reverted"}
    <3>1. tx[t].nonce < chainNonce
      BY <2>2 DEF ChainInv, NonceSides
    <3> QED BY <1>0, <1>1, <3>1
  <2> QED BY <1>2, <2>1, <2>2 DEF Live
<1> QED BY <1>0, <1>1, <1>2

\* The client's nonce: kept, forgotten, or taken from the node, except around a broadcast.
LEMMA NonceSteps ==
    ASSUME [Next]_vars, TxStays
    PROVE  nonce' \in {nonce, 0, PendingNonce} \/ BroadcastSent \/ BroadcastLost
<1>0. SeededNonce \in {nonce, PendingNonce}
  BY DEF SeededNonce
<1>1. CASE FetchMessage \/ FetchBad \/ Tick \/ FilterError \/ FilterDone \/ RecordSent
           \/ RecordSentError
  BY <1>1 DEF FetchMessage, FetchBad, Tick, FilterError, FilterDone, RecordSent, RecordSentError
<1>2. CASE FilterDuplicate \/ FilterPending \/ FilterSkip \/ FilterReconcile
  BY <1>2 DEF FilterDuplicate, FilterPending, FilterSkip, FilterReconcile, Filtering
<1>3. CASE SendFailed \/ RecordFailureError \/ SendError \/ SendRefused
  BY <1>0, <1>3 DEF SendFailed, RecordFailureError, SendError, SendRefused
<1>4. CASE SendCalldata \/ SendLost
  BY <1>4 DEF SendCalldata, SendLost, BroadcastLost, BroadcastSent
<1>5. CASE Submit \/ SubmitBad \/ PublishBad \/ PublishBadError
  BY <1>5 DEF Submit, SubmitBad, SubmitBatch, PublishBad, PublishBadError
<1>6. CASE Escalate \/ Crash
  BY <1>6 DEF Escalate, Crash, Restart
<1>7. CASE Collect \/ Reconcile \/ MineNext \/ (\E t \in Txs : Evict(t)) \/ UNCHANGED vars
  BY <1>7, OthersLeaveLoop DEF LoopStays
<1> QED BY <1>1, <1>2, <1>3, <1>4, <1>5, <1>6, <1>7 DEF Next, Loop

\* Rows and nonces: what holds of every transaction with a hash, after a step that keeps
\* those transactions live.
LEMMA RowNonceStep ==
    ASSUME TypeInv, RowInv, NonceInv, [Next]_vars, drops = 0, NEW e \in Events, row'[e].tx # NoTx
    PROVE  /\ row'[e].tx \in Txs /\ Live(row'[e].tx)
           /\ nonce # 0 => tx[row'[e].tx].nonce < nonce
           /\ row[e].tx # NoTx => row'[e].tx = row[e].tx
           /\ row[e].tx = NoTx => TxStays /\ nonce' = nonce
<1>0. row[e] \in Rows
  BY DEF TypeInv, CoreType
<1>1. CASE row[e].tx # NoTx
  <2>1. row'[e].tx = row[e].tx
    BY <1>1, HashKept
  <2> QED BY <1>0, <1>1, <2>1 DEF NonceInv, RecordedNonce, Rows
<1>2. CASE row[e].tx = NoTx
  <2>1. RecordSent /\ row'[e].tx = ntx
    BY <1>2, HashKept
  <2>2. pc = "mark" /\ TxStays /\ nonce' = nonce
    BY <2>1 DEF RecordSent, TxStays, chainVars
  <2>3. ntx \in Txs
    BY <2>2, MarkedEvents
  <2> QED BY <1>2, <2>1, <2>2, <2>3 DEF NonceInv, RecordedNonce
<1> QED BY <1>1, <1>2

LEMMA NonceInvStep ==
    ASSUME TypeInv, ChainInv, RowInv, NonceInv, [Next]_vars
    PROVE  NonceInv'
<1>0. CASE drops' # 0
  BY <1>0 DEF NonceInv, NonceOrder, NoGap, NonceNear, RecordedNonce
<1>1. CASE drops' = 0
  <2>0. /\ drops = 0 /\ (\A t \in Txs : ~Evict(t)) /\ (faults' = 0 => faults = 0 /\ ~Fault)
    BY <1>1, BoundsStep DEF TypeInv
  <2>1. /\ LogType /\ LoopType /\ TxType /\ NonceType /\ chainNonce \in Nat /\ nonce \in Nat
        /\ nonce' \in Nat /\ ntx \in Nat
        /\ \A t \in Txs : tx[t].nonce \in Nat /\ t \in Nat
    BY NonceTypeStep DEF TypeInv, TxType, NonceType, Txs
  <2>2. CASE TxStays /\ ~BroadcastSent /\ ~BroadcastLost
    <3>1. /\ tx' = tx /\ ntx' = ntx /\ chainNonce' = chainNonce
          /\ \A t \in Txs : Live(t)' <=> Live(t)
          /\ \A n : PoolAt(n)' = PoolAt(n)
      BY <2>2 DEF TxStays, Live, PoolAt
    <3>2. NonceOrder' /\ NoGap'
      BY <2>0, <3>1 DEF NonceInv, NonceOrder, NoGap
    <3>3. nonce' \in {nonce, 0, PendingNonce}
      BY <2>2, NonceSteps
    <3>4. NonceNear'
      <4>1. CASE nonce' = nonce
        BY <2>0, <3>1, <4>1 DEF NonceInv, NonceNear
      <4>2. CASE nonce' = 0
        BY <4>2 DEF NonceNear
      <4>3. CASE nonce' = PendingNonce
        <5>1. \A t \in Txs : Live(t) => tx[t].nonce < nonce' /\ tx[t].nonce <= nonce'
          BY <2>0, <2>1, <4>3, PendingAbove
        <5>2. \A n \in chainNonce..(nonce' - 1) : PoolAt(n) # {}
          BY <2>0, <4>3, PendingAbove
        <5> QED BY <3>1, <5>1, <5>2 DEF NonceNear
      <4> QED BY <3>3, <4>1, <4>2, <4>3
    <3>5. RecordedNonce'
      <4>1. ASSUME NEW e \in Events, row'[e].tx # NoTx
            PROVE  Live(row'[e].tx) /\ (nonce' # 0 => tx[row'[e].tx].nonce < nonce')
        <5>1. /\ row'[e].tx \in Txs /\ Live(row'[e].tx)
              /\ nonce # 0 => tx[row'[e].tx].nonce < nonce
          BY <2>0, <4>1, RowNonceStep
        <5> QED BY <2>0, <3>3, <5>1, PendingAbove
      <4>2. ASSUME pc' = "mark" PROVE Live(ntx) /\ nonce' # 0 /\ tx[ntx].nonce < nonce'
        <5>1. pc = "mark" /\ nonce' = nonce
          BY <2>2, <4>2, MarkStep DEF LoopStays
        <5> QED BY <2>0, <5>1 DEF NonceInv, RecordedNonce
      <4> QED BY <3>1, <4>1, <4>2 DEF RecordedNonce, Live
    <3> QED BY <3>2, <3>4, <3>5 DEF NonceInv
  <2>3. CASE BroadcastSent \/ BroadcastLost
    <3>1. PICK R \in SUBSET PoolAt(SeededNonce) :
             /\ Broadcast(R) /\ pc = "send" /\ SeededNonce >= chainNonce
             /\ R = PoolAt(SeededNonce)
      BY <2>3 DEF BroadcastLost, BroadcastSent, SendLost, SendCalldata
    <3>2. /\ SeededNonce \in Nat /\ SeededNonce # 0
          /\ \A t \in Txs : Live(t) =>
               /\ tx[t].nonce <= SeededNonce
               /\ t \notin R => tx[t].nonce < SeededNonce
          /\ \A n \in chainNonce..(SeededNonce - 1) : PoolAt(n) # {}
          /\ \A e \in Events : row[e].tx # NoTx => tx[row[e].tx].nonce < SeededNonce
      BY <2>0, <3>1, SeedAbove
    <3>3. /\ ntx + 1 \in Txs /\ ntx' = ntx + 1 /\ chainNonce' = chainNonce /\ row' = row
          /\ tx'[ntx + 1].nonce = SeededNonce /\ tx'[ntx + 1].state = "pool"
          /\ \A t \in Txs : t # ntx + 1 =>
               /\ tx'[t].nonce = tx[t].nonce
               /\ tx'[t].state = IF t \in R THEN "dropped" ELSE tx[t].state
      <4>1. chainNonce' = chainNonce /\ row' = row
        BY <2>3, <3>1 DEF Broadcast, BroadcastLost, BroadcastSent, SendLost, SendCalldata, storeVars
      <4> QED BY <2>1, <3>1, <4>1, BroadcastAdds
    <3>4. ASSUME NEW t \in Txs, t # ntx + 1, Live(t)'
          PROVE  Live(t) /\ t \notin R /\ tx'[t].nonce = tx[t].nonce /\ tx[t].nonce < SeededNonce
                 /\ t <= ntx
      <4>1. Live(t) /\ t \notin R /\ tx'[t].nonce = tx[t].nonce
        BY <3>3, <3>4 DEF Live
      <4>2. t <= ntx
        BY <2>1, <4>1 DEF Live, TxType
      <4> QED BY <3>2, <4>1, <4>2
    <3>5. \A n \in chainNonce..SeededNonce : PoolAt(n)' # {}
      <4> SUFFICES ASSUME NEW n \in chainNonce..SeededNonce PROVE PoolAt(n)' # {}
        OBVIOUS
      <4>1. CASE n = SeededNonce
        BY <3>3, <4>1 DEF PoolAt
      <4>2. CASE n # SeededNonce
        <5>1. n \in chainNonce..(SeededNonce - 1)
          BY <2>1, <3>2, <4>2
        <5>2. PICK t \in PoolAt(n) : TRUE
          BY <3>2, <5>1
        <5>3. t \in Txs /\ tx[t].state = "pool" /\ tx[t].nonce = n /\ t \notin R
          BY <3>1, <4>2, <5>2 DEF PoolAt
        <5>4. t # ntx + 1
          BY <2>1, <3>3, <5>3 DEF TxType
        <5>5. tx'[t].state = "pool" /\ tx'[t].nonce = n
          BY <3>3, <5>3, <5>4
        <5> QED BY <5>3, <5>5 DEF PoolAt
      <4> QED BY <4>1, <4>2
    <3>6. NonceOrder'
      <4> SUFFICES ASSUME NEW t \in Txs, NEW u \in Txs, t < u, Live(t)', Live(u)'
                   PROVE  tx'[t].nonce < tx'[u].nonce
        BY DEF NonceOrder
      <4>1. CASE t # ntx + 1 /\ u # ntx + 1
        BY <2>0, <3>4, <4>1 DEF NonceInv, NonceOrder
      <4>2. CASE u = ntx + 1
        <5>1. t # ntx + 1
          BY <2>1, <4>2
        <5> QED BY <3>3, <3>4, <4>2, <5>1
      <4>3. CASE t = ntx + 1
        <5>1. u # ntx + 1
          BY <2>1, <4>3
        <5>2. u <= ntx
          BY <3>4, <5>1
        <5> QED BY <2>1, <4>3, <5>2
      <4> QED BY <4>1, <4>2, <4>3
    <3>7. ASSUME NEW t \in Txs, Live(t)' PROVE tx'[t].nonce \in Nat /\ tx'[t].nonce <= SeededNonce
      BY <2>1, <3>2, <3>3, <3>4, <3>7
    <3>8. NoGap'
      <4> SUFFICES ASSUME NEW t \in Txs, tx'[t].state = "pool",
                          NEW n \in chainNonce..tx'[t].nonce
                   PROVE  PoolAt(n)' # {}
        BY <3>3 DEF NoGap
      <4>1. tx'[t].nonce \in Nat /\ tx'[t].nonce <= SeededNonce
        BY <3>7 DEF Live
      <4>2. n \in chainNonce..SeededNonce
        BY <2>1, <3>2, <4>1
      <4> QED BY <3>5, <4>2
    <3>9. nonce' = SeededNonce \/ nonce' = SeededNonce + 1
      BY <2>3 DEF BroadcastLost, BroadcastSent, SendLost, SendCalldata
    <3>10. NonceNear'
      <4>1. \A t \in Txs : Live(t)' => tx'[t].nonce <= nonce'
        BY <3>2, <3>7, <3>9
      <4>2. ASSUME NEW n \in chainNonce..(nonce' - 1) PROVE PoolAt(n)' # {}
        <5>1. n \in chainNonce..SeededNonce
          BY <2>1, <3>2, <3>9
        <5> QED BY <3>5, <5>1
      <4>3. ASSUME faults' = 0, NEW t \in Txs, Live(t)' PROVE tx'[t].nonce < nonce'
        <5>1. ~Fault
          BY <2>0, <4>3
        <5>2. nonce' = SeededNonce + 1
          BY <2>3, <5>1 DEF BroadcastLost, BroadcastSent, SendLost, SendCalldata
        <5> QED BY <3>2, <3>7, <4>3, <5>2
      <4> QED BY <3>3, <4>1, <4>2, <4>3 DEF NonceNear
    <3>11. RecordedNonce'
      <4>1. ASSUME NEW e \in Events, row'[e].tx # NoTx
            PROVE  Live(row[e].tx)' /\ tx'[row[e].tx].nonce < nonce' /\ row'[e].tx = row[e].tx
        <5>1. PICK t \in Txs : t = row[e].tx /\ Live(t) /\ row[e].tx # NoTx
          BY <2>0, <3>3, <4>1, RowNonceStep
        <5>2. tx[t].nonce < SeededNonce
          BY <3>2, <5>1
        <5>3. t \notin R
          BY <2>1, <3>1, <3>2, <5>2 DEF PoolAt
        <5>4. t # ntx + 1
          BY <2>1, <3>3, <5>1 DEF TxType, Live
        <5>5. tx'[t].nonce = tx[t].nonce /\ tx'[t].state = tx[t].state
          BY <3>3, <5>3, <5>4
        <5>6. row'[e].tx = row[e].tx
          BY <3>3
        <5>7. tx'[t].nonce < nonce'
          BY <2>1, <3>2, <3>9, <5>2, <5>5
        <5>8. Live(t)'
          BY <5>1, <5>5 DEF Live
        <5> QED BY <3>3, <5>1, <5>6, <5>7, <5>8 DEF Live
      <4>2. ASSUME pc' = "mark"
            PROVE  Live(ntx)' /\ nonce' # 0 /\ tx'[ntx'].nonce < nonce'
        <5>1. nonce' = SeededNonce + 1
          BY <2>3, <4>2 DEF BroadcastLost, BroadcastSent, SendCalldata, Unshift, EndSend
        <5> QED BY <3>2, <3>3, <5>1 DEF Live
      <4> QED BY <3>3, <4>1, <4>2 DEF RecordedNonce, Live
    <3> QED BY <3>6, <3>8, <3>10, <3>11 DEF NonceInv
  <2>4. ASSUME NEW m \in Txs, Mine(m) PROVE NonceInv'
    <3>1. /\ tx[m].state = "pool" /\ tx[m].nonce = chainNonce /\ chainNonce' = chainNonce + 1
          /\ \A u \in Txs : u # m => tx'[u] = tx[u]
          /\ tx'[m].nonce = tx[m].nonce /\ tx'[m].state \in {"ok", "reverted"}
      BY <2>4, MineCases
    <3>2. LoopStays /\ row' = row /\ ntx' = ntx
      BY <2>4, OthersLeaveLoop DEF MineNext, Mine, storeVars
    <3>3. ASSUME NEW t \in Txs
          PROVE  /\ Live(t)' <=> Live(t)
                 /\ tx'[t].nonce = tx[t].nonce
                 /\ tx'[t].state = "pool" => tx[t].state = "pool"
      BY <3>1 DEF Live
    <3>4. ASSUME NEW n, PoolAt(n) # {}, n # chainNonce PROVE PoolAt(n)' # {}
      <4>1. PICK t \in Txs : tx[t].state = "pool" /\ tx[t].nonce = n
        BY <3>4 DEF PoolAt
      <4>2. tx'[t] = tx[t]
        BY <3>1, <3>4, <4>1
      <4> QED BY <4>1, <4>2 DEF PoolAt
    <3>5. NonceOrder'
      BY <2>0, <3>3 DEF NonceInv, NonceOrder
    <3>6. NoGap'
      <4> SUFFICES ASSUME NEW t \in Txs, tx'[t].state = "pool",
                          NEW n \in (chainNonce + 1)..tx[t].nonce
                   PROVE  PoolAt(n)' # {}
        BY <3>1, <3>3 DEF NoGap
      <4>1. n \in chainNonce..tx[t].nonce /\ n # chainNonce
        BY <2>1
      <4>2. PoolAt(n) # {}
        BY <2>0, <3>3, <4>1 DEF NonceInv, NoGap
      <4> QED BY <3>4, <4>1, <4>2
    <3>7. NonceNear'
      <4> SUFFICES ASSUME nonce # 0
                   PROVE  /\ \A t \in Txs : Live(t) => tx[t].nonce <= nonce
                          /\ \A n \in (chainNonce + 1)..(nonce - 1) : PoolAt(n)' # {}
                          /\ faults' = 0 => \A t \in Txs : Live(t) => tx[t].nonce < nonce
        BY <3>1, <3>2, <3>3 DEF NonceNear, LoopStays
      <4>1. ASSUME NEW n \in (chainNonce + 1)..(nonce - 1) PROVE PoolAt(n)' # {}
        <5>1. n \in chainNonce..(nonce - 1) /\ n # chainNonce
          BY <2>1
        <5>2. PoolAt(n) # {}
          BY <2>0, <5>1 DEF NonceInv, NonceNear
        <5> QED BY <3>4, <5>1, <5>2
      <4> QED BY <2>0, <4>1 DEF NonceInv, NonceNear
    <3>8. RecordedNonce'
      <4>1. ASSUME NEW e \in Events, row[e].tx # NoTx
            PROVE  Live(row[e].tx)' /\ (nonce # 0 => tx'[row[e].tx].nonce < nonce)
        <5>1. PICK t \in Txs : t = row[e].tx /\ Live(t) /\ (nonce # 0 => tx[t].nonce < nonce)
          BY <2>0, <3>2, <4>1, RowNonceStep
        <5>2. tx'[t].nonce = tx[t].nonce /\ tx'[t].state \in {"pool", "ok", "reverted"}
          BY <3>3, <5>1 DEF Live
        <5>3. row'[e].tx = t
          BY <3>2, <5>1
        <5> QED BY <5>1, <5>2, <5>3 DEF Live
      <4>2. ASSUME pc = "mark" PROVE Live(ntx)' /\ nonce # 0 /\ tx'[ntx].nonce < nonce
        <5>1. Live(ntx) /\ nonce # 0 /\ tx[ntx].nonce < nonce /\ ntx \in Txs
          BY <2>0, <4>2, MarkedEvents DEF NonceInv, RecordedNonce
        <5> QED BY <3>2, <3>3, <5>1 DEF Live
      <4> QED BY <3>2, <4>1, <4>2 DEF RecordedNonce, LoopStays, Live
    <3> QED BY <3>5, <3>6, <3>7, <3>8 DEF NonceInv
  <2> QED BY <2>0, <2>2, <2>3, <2>4, TxSteps DEF MineNext
<1> QED BY <1>0, <1>1

THEOREM NonceInvCorrect == Spec => []NonceInv
<1>1. Init => NonceInv
  <2> SUFFICES ASSUME Init PROVE NonceInv
    OBVIOUS
  <2>1. /\ \A e \in Events : row[e].tx = NoTx
        /\ \A t \in Txs : tx[t].state = "none"
        /\ nonce = 0 /\ pc = "poll"
    BY DEF Init, NoRow, NoTransaction
  <2> QED BY <2>1 DEF NonceInv, NonceOrder, NoGap, NonceNear, RecordedNonce, Live
<1>2. TypeInv /\ ChainInv /\ RowInv /\ NonceInv /\ [Next]_vars => NonceInv'
  BY NonceInvStep
<1> QED BY <1>1, <1>2, TypeInvCorrect, ChainInvCorrect, RowInvCorrect, PTL DEF Spec

\* What the WMS reads as refused was refused, as long as the pool evicts nothing: a row with
\* a reject reason has the hash of the last transaction with the action, so no later nonce
\* applies it. With an eviction a freed nonce may be used again, and TLC finds a row that
\* says rejected for an action the contract has applied.
THEOREM RejectedIsNotApplied == Spec => [](drops = 0 => RejectedNotApplied)
<1>1. TypeInv /\ ChainInv /\ RowInv /\ NonceInv => (drops = 0 => RejectedNotApplied)
  <2> SUFFICES ASSUME TypeInv, ChainInv, RowInv, NonceInv, drops = 0,
                      NEW e \in Events, row[e].rejected, chainState[e] = "Applied"
               PROVE  FALSE
    BY DEF RejectedNotApplied
  <2>1. row[e].tx # NoTx /\ row[e] \in Rows
    BY DEF RowInv, RowShape, TypeInv, CoreType
  <2>2. PICK t \in Txs : t = row[e].tx
    BY <2>1 DEF Rows
  <2>3. tx[t].state = "ok" /\ Told(t, e)
    BY <2>2 DEF RowInv, RowTold
  <2>4. receipt[t][e] = "signer"
    BY <2>3 DEF Told, ChainInv, RejectLogsAgree
  <2>5. PICK u \in Txs : tx[u].state = "ok" /\ e \in Range(tx[u].events) /\ tx[t].nonce < tx[u].nonce
    BY <2>4 DEF ChainInv, SignerLater
  <2>6. u <= t
    BY <2>1, <2>2, <2>5 DEF RowInv, RowTx
  <2>7. tx[t].nonce \in Nat /\ tx[u].nonce \in Nat /\ t \in Nat /\ u \in Nat
    BY DEF TypeInv, TxType, Txs
  <2>8. u < t
    BY <2>5, <2>6, <2>7
  <2>9. tx[u].nonce < tx[t].nonce
    BY <2>3, <2>5, <2>8 DEF NonceInv, NonceOrder, Live
  <2> QED BY <2>5, <2>7, <2>9
<1> QED BY <1>1, TypeInvCorrect, ChainInvCorrect, RowInvCorrect, NonceInvCorrect, PTL

-----------------------------------------------------------------------------
(* The order of the queues *)

Ascending(s) == \A i, j \in 1..Len(s) : i < j => s[i] < s[j]
Below(s, r) == \A i \in 1..Len(s), j \in 1..Len(r) : s[i] < r[j]
Within(s, n) == \A i \in 1..Len(s) : s[i] <= n

\* Each queue of the loop is in the order of the log and was fetched; what is pending comes
\* before what is still to be filtered. The batcher is empty during a Send, and there is a
\* batch only then. A message Parse refused is the last one fetched.
LoopOrder ==
    /\ Ascending(batcher) /\ Ascending(batch) /\ Ascending(rest) /\ Ascending(segment)
    /\ Ascending(pending)
    /\ Below(pending, segment) /\ Below(pending, rest) /\ Below(segment, rest)
    /\ Within(batcher, fetched) /\ Within(batch, fetched) /\ Within(pending, fetched)
    /\ Within(segment, fetched) /\ Within(rest, fetched)
    /\ IF Working THEN batcher = <<>> ELSE batch = <<>>
    /\ badMsg # 0 => badMsg = fetched /\ ~Parses(badMsg)
    /\ pc = "poll" => badMsg = 0

\* The batches in the pipeline are in the order of the log and were fetched.
PipeOrder ==
    /\ \A i \in 1..Len(pipe) : Ascending(pipe[i].msgs) /\ Within(pipe[i].msgs, fetched)
    /\ committed <= fetched

LEMMA EmptyOrder ==
    ASSUME NEW s, NEW n
    PROVE  Ascending(<<>>) /\ Below(<<>>, s) /\ Below(s, <<>>) /\ Within(<<>>, n)
BY DEF Ascending, Below, Within

LEMMA AppendOrder ==
    ASSUME NEW s \in Seq(Nat), NEW x \in Nat, Ascending(s), \A i \in 1..Len(s) : s[i] < x
    PROVE  /\ Ascending(Append(s, x))
           /\ \A n \in Nat : x <= n => Within(Append(s, x), n)
           /\ \A r : Below(s, r) /\ Below(<<x>>, r) => Below(Append(s, x), r)
<1> DEFINE a == Append(s, x)
<1>1. /\ Len(s) \in Nat /\ Len(a) = Len(s) + 1 /\ a[Len(s) + 1] = x
      /\ \A i \in 1..Len(s) : a[i] = s[i] /\ s[i] \in Nat
  OBVIOUS
<1> HIDE DEF a
<1>2. ASSUME NEW i \in 1..Len(a), NEW j \in 1..Len(a), i < j PROVE a[i] < a[j]
  <2>1. i \in 1..Len(s)
    BY <1>1, <1>2
  <2>2. CASE j = Len(s) + 1
    BY <1>1, <2>1, <2>2
  <2>3. CASE j # Len(s) + 1
    <3>1. j \in 1..Len(s)
      BY <1>1, <2>3
    <3> QED BY <1>1, <1>2, <2>1, <3>1 DEF Ascending
  <2> QED BY <2>2, <2>3
<1>3. ASSUME NEW n \in Nat, x <= n, NEW i \in 1..Len(a) PROVE a[i] <= n
  <2>1. CASE i = Len(s) + 1
    BY <1>1, <1>3, <2>1
  <2>2. CASE i # Len(s) + 1
    <3>1. i \in 1..Len(s)
      BY <1>1, <2>2
    <3> QED BY <1>1, <1>3, <3>1
  <2> QED BY <2>1, <2>2
<1>4. ASSUME NEW r, Below(s, r), Below(<<x>>, r), NEW i \in 1..Len(a), NEW j \in 1..Len(r)
      PROVE  a[i] < r[j]
  <2>1. CASE i = Len(s) + 1
    BY <1>1, <1>4, <2>1 DEF Below
  <2>2. CASE i # Len(s) + 1
    <3>1. i \in 1..Len(s)
      BY <1>1, <2>2
    <3> QED BY <1>1, <1>4, <3>1 DEF Below
  <2> QED BY <2>1, <2>2
<1>5. Ascending(a) /\ \A n \in Nat : x <= n => Within(a, n)
  BY <1>2, <1>3 DEF Ascending, Within
<1>6. \A r : Below(s, r) /\ Below(<<x>>, r) => Below(a, r)
  BY <1>4 DEF Below
<1> QED BY <1>5, <1>6 DEF a

\* The two parts of a cut.
LEMMA CutOrder ==
    ASSUME NEW s \in Seq(Nat), NEW n \in 0..Len(s), NEW a, NEW b, Cut(s, n, a, b), Ascending(s)
    PROVE  /\ Ascending(a) /\ Ascending(b) /\ Below(a, b)
           /\ \A m : Within(s, m) => Within(a, m) /\ Within(b, m)
           /\ \A r : Below(s, r) => Below(a, r) /\ Below(b, r)
<1>1. /\ Len(s) \in Nat /\ n \in Nat /\ Len(a) = n /\ Len(b) = Len(s) - n
      /\ \A i \in 1..Len(a) : i \in 1..Len(s) /\ a[i] = s[i]
      /\ \A i \in 1..Len(b) : n + i \in 1..Len(s) /\ b[i] = s[n + i]
  BY DEF Cut
<1>2. Ascending(a)
  BY <1>1 DEF Ascending
<1>3. Ascending(b)
  <2> SUFFICES ASSUME NEW i \in 1..Len(b), NEW j \in 1..Len(b), i < j PROVE b[i] < b[j]
    BY DEF Ascending
  <2>1. PICK k, l \in 1..Len(s) : k = n + i /\ l = n + j /\ b[i] = s[k] /\ b[j] = s[l]
    BY <1>1
  <2>2. k < l
    BY <1>1, <2>1
  <2> QED BY <2>1, <2>2 DEF Ascending
<1>4. Below(a, b)
  <2> SUFFICES ASSUME NEW i \in 1..Len(a), NEW j \in 1..Len(b) PROVE a[i] < b[j]
    BY DEF Below
  <2>1. PICK l \in 1..Len(s) : l = n + j /\ b[j] = s[l]
    BY <1>1
  <2>2. i \in 1..Len(s) /\ a[i] = s[i]
    BY <1>1
  <2>3. i \in 1..n /\ j \in 1..(Len(s) - n)
    BY <1>1
  <2>4. i < l
    BY <1>1, <2>1, <2>3
  <2> QED BY <2>1, <2>2, <2>4 DEF Ascending
<1>5. \A m : Within(s, m) => Within(a, m) /\ Within(b, m)
  BY <1>1 DEF Within
<1>6. \A r : Below(s, r) => Below(a, r) /\ Below(b, r)
  BY <1>1 DEF Below
<1> QED BY <1>2, <1>3, <1>4, <1>5, <1>6

LEMMA CutRange ==
    ASSUME NEW S, NEW s \in Seq(S), NEW n \in 0..Len(s), NEW a \in Seq(S), NEW b \in Seq(S),
           Cut(s, n, a, b)
    PROVE  Range(s) = Range(a) \union Range(b)
<1>1. /\ Len(s) \in Nat /\ n \in Nat /\ Len(a) = n /\ Len(b) = Len(s) - n
      /\ \A i \in 1..Len(a) : i \in 1..Len(s) /\ a[i] = s[i]
      /\ \A i \in 1..Len(b) : n + i \in 1..Len(s) /\ b[i] = s[n + i]
  BY DEF Cut
<1>2. DOMAIN s = 1..Len(s) /\ DOMAIN a = 1..Len(a) /\ DOMAIN b = 1..Len(b)
  OBVIOUS
<1>3. ASSUME NEW x \in Range(s) PROVE x \in Range(a) \union Range(b)
  <2>1. PICK i \in 1..Len(s) : x = s[i]
    BY <1>2 DEF Range
  <2>2. CASE i <= n
    <3>1. i \in 1..Len(a) /\ x = a[i]
      BY <1>1, <2>1, <2>2
    <3> QED BY <1>2, <3>1 DEF Range
  <2>3. CASE ~(i <= n)
    <3>1. i - n \in 1..Len(b) /\ n + (i - n) = i
      BY <1>1, <2>3
    <3>2. PICK j \in 1..Len(b) : n + j = i
      BY <3>1
    <3>3. x = b[j]
      BY <1>1, <2>1, <3>2
    <3> QED BY <1>2, <3>2, <3>3 DEF Range
  <2> QED BY <2>2, <2>3
<1>4. ASSUME NEW i \in 1..Len(a) PROVE a[i] \in Range(s)
  BY <1>1, <1>2 DEF Range
<1>5. ASSUME NEW i \in 1..Len(b) PROVE b[i] \in Range(s)
  <2>1. PICK k \in 1..Len(s) : k = n + i /\ b[i] = s[k]
    BY <1>1
  <2> QED BY <1>2, <2>1 DEF Range
<1> QED BY <1>2, <1>3, <1>4, <1>5 DEF Range

\* The first element and the others.
LEMMA TailCut ==
    ASSUME NEW S, NEW s \in Seq(S), s # <<>>
    PROVE  /\ Cut(s, 1, <<s[1]>>, Tail(s)) /\ 1 \in 0..Len(s) /\ 1 \in 1..Len(s)
           /\ Tail(s) \in Seq(S) /\ s[1] \in S
<1>1. Len(s) \in Nat \ {0} /\ s[1] \in S
  OBVIOUS
<1>2. /\ Tail(s) \in Seq(S) /\ Len(Tail(s)) = Len(s) - 1
      /\ \A i \in 1..(Len(s) - 1) : Tail(s)[i] = s[1 + i]
  BY <1>1
<1> QED BY <1>1, <1>2 DEF Cut

LEMMA TailRange ==
    ASSUME NEW S, NEW s \in Seq(S), s # <<>>
    PROVE  Range(s) = {s[1]} \union Range(Tail(s))
<1>1. /\ Len(s) \in Nat \ {0} /\ Tail(s) \in Seq(S) /\ Len(Tail(s)) = Len(s) - 1
      /\ \A i \in 1..(Len(s) - 1) : Tail(s)[i] = s[1 + i]
  OBVIOUS
<1>2. DOMAIN s = 1..Len(s) /\ DOMAIN Tail(s) = 1..(Len(s) - 1)
  BY <1>1
<1>3. ASSUME NEW i \in 1..Len(s), i # 1 PROVE s[i] \in Range(Tail(s))
  <2>1. i - 1 \in 1..(Len(s) - 1) /\ 1 + (i - 1) = i
    BY <1>1, <1>3
  <2>2. PICK k \in 1..(Len(s) - 1) : 1 + k = i
    BY <2>1
  <2>3. Tail(s)[k] = s[i] /\ k \in DOMAIN Tail(s)
    BY <1>1, <1>2, <2>2
  <2> QED BY <2>3 DEF Range
<1>4. ASSUME NEW k \in 1..(Len(s) - 1) PROVE Tail(s)[k] \in Range(s)
  <2>1. 1 + k \in DOMAIN s /\ Tail(s)[k] = s[1 + k]
    BY <1>1, <1>2
  <2> QED BY <2>1 DEF Range
<1>5. 1 \in DOMAIN s
  BY <1>1, <1>2
<1> QED BY <1>2, <1>3, <1>4, <1>5 DEF Range

LEMMA RangeType ==
    ASSUME NEW S, NEW s \in Seq(S)
    PROVE  Range(s) \subseteq S
<1>1. \A i \in DOMAIN s : s[i] \in S
  OBVIOUS
<1> QED BY <1>1 DEF Range

\* The queues of the loop hold numbers.
LEMMA GoodNat ==
    ASSUME LogType
    PROVE  /\ Good \subseteq Messages /\ Messages \subseteq Nat /\ Seq(Good) \subseteq Seq(Nat)
           /\ Seq(Good) \subseteq Seq(Messages) /\ Seq(Messages) \subseteq Seq(Nat) /\ Len(log) \in Nat
<1>1. Good \subseteq Messages /\ Messages \subseteq Nat /\ Len(log) \in Nat
  BY DEF LogType, Good, Messages
<1>2. \A S, T : S \subseteq T => Seq(S) \subseteq Seq(T)
  OBVIOUS
<1>3. Seq(Good) \subseteq Seq(Messages) /\ Seq(Messages) \subseteq Seq(Nat)
  BY <1>1, <1>2
<1> QED BY <1>1, <1>3

LEMMA LoopNat ==
    ASSUME TypeInv
    PROVE  /\ LogType /\ LoopType /\ PipeType
           /\ Len(log) \in Nat /\ fetched \in Nat /\ committed \in Nat /\ badMsg \in Nat
           /\ batcher \in Seq(Nat) /\ batch \in Seq(Nat) /\ rest \in Seq(Nat)
           /\ segment \in Seq(Nat) /\ pending \in Seq(Nat)
<1>1. LogType /\ LoopType /\ PipeType
  BY DEF TypeInv
<1>2. Len(log) \in Nat /\ Seq(Good) \subseteq Seq(Nat)
  BY <1>1, GoodNat
<1>3. fetched \in 0..Len(log) /\ badMsg \in 0..Len(log) /\ committed \in 0..Len(log)
  BY <1>1 DEF LoopType, PipeType
<1>4. fetched \in Nat /\ badMsg \in Nat /\ committed \in Nat
  BY <1>2, <1>3
<1>5. /\ batcher \in Seq(Good) /\ batch \in Seq(Good) /\ rest \in Seq(Good)
      /\ segment \in Seq(Good) /\ pending \in Seq(Good)
  BY <1>1 DEF LoopType
<1> QED BY <1>1, <1>2, <1>4, <1>5


LEMMA LoopOrderStep ==
    ASSUME TypeInv, LoopOrder, committed <= fetched, [Next]_vars
    PROVE  LoopOrder'
<1>0. /\ LogType /\ LoopType /\ TxType /\ log' = log
      /\ batcher \in Seq(Nat) /\ batch \in Seq(Nat) /\ rest \in Seq(Nat)
      /\ segment \in Seq(Nat) /\ pending \in Seq(Nat) /\ fetched \in Nat /\ Len(log) \in Nat
  <2>1. LogType /\ LoopType /\ TxType /\ log' = log
    BY LogFixed DEF TypeInv
  <2> QED BY <2>1, LoopNat
<1>1. CASE LoopStays
  BY <1>0, <1>1 DEF LoopStays, LoopOrder, Working, Parses
<1>2. ASSUME NEW msgs \in Seq(Good), msgs # <<>>, DrainSend(msgs), Ascending(msgs),
             Within(msgs, fetched'),
             badMsg' # 0 => badMsg' = fetched' /\ ~Parses(badMsg')
      PROVE  LoopOrder'
  <2>0. msgs \in Seq(Nat) /\ Len(msgs) \in Nat
    BY <1>0, <1>2, GoodNat
  <2>1. batcher' = <<>> /\ batch' = msgs /\ BeginSegment(msgs)
    BY <1>2 DEF DrainSend
  <2>2. PICK n \in 1..Len(msgs) : Cut(msgs, n, segment', rest')
    BY <1>2, <2>1, BeginSegmentSplits
  <2>3. pending' = <<>> /\ pc' = "filter"
    BY <1>2, <2>1, BeginSegmentSplits
  <2>4. n \in 0..Len(msgs)
    BY <2>0
  <2>5. /\ Ascending(segment') /\ Ascending(rest') /\ Below(segment', rest')
        /\ Within(segment', fetched') /\ Within(rest', fetched')
    BY <1>2, <2>0, <2>2, <2>4, CutOrder
  <2>6. /\ Ascending(batcher') /\ Ascending(pending') /\ Within(batcher', fetched')
        /\ Within(pending', fetched') /\ Below(pending', segment') /\ Below(pending', rest')
    BY <2>1, <2>3, EmptyOrder
  <2>7. /\ Working' /\ batcher' = <<>> /\ Ascending(batch') /\ Within(batch', fetched')
    BY <1>2, <2>1, <2>3 DEF Working
  <2> QED BY <1>0, <1>2, <2>3, <2>5, <2>6, <2>7 DEF LoopOrder, Parses
<1>3. ASSUME BeginSegment(rest), Working, UNCHANGED <<batcher, batch, fetched, badMsg>>
      PROVE  LoopOrder'
  <2>0. rest \in Seq(Good) /\ Len(rest) \in Nat
    BY <1>0 DEF LoopType
  <2>1. pending' = <<>> /\ pc' \in {"filter", "submit"} /\ (rest = <<>> => segment' = <<>> /\ rest' = <<>>)
    BY <1>3, <2>0, BeginSegmentSplits
  <2>2. /\ Ascending(segment') /\ Ascending(rest') /\ Below(segment', rest')
        /\ Within(segment', fetched') /\ Within(rest', fetched')
    <3>1. CASE rest = <<>>
      BY <2>1, <3>1, EmptyOrder
    <3>2. CASE rest # <<>>
      <4>1. PICK n \in 1..Len(rest) : Cut(rest, n, segment', rest')
        BY <1>3, <2>0, <3>2, BeginSegmentSplits
      <4>2. n \in 0..Len(rest) /\ Ascending(rest) /\ Within(rest, fetched) /\ fetched' = fetched
        BY <1>3, <2>0 DEF LoopOrder
      <4> QED BY <1>0, <4>1, <4>2, CutOrder
    <3> QED BY <3>1, <3>2
  <2>3. /\ Ascending(pending') /\ Within(pending', fetched')
        /\ Below(pending', segment') /\ Below(pending', rest')
    BY <2>1, EmptyOrder
  <2>4. Working'
    BY <2>1 DEF Working
  <2> QED BY <1>0, <1>3, <2>1, <2>2, <2>3, <2>4 DEF LoopOrder, Parses
<1>4. ASSUME NEW n \in 1..Len(pending), AfterPrefix(n), Working,
             UNCHANGED <<batcher, batch, fetched, badMsg>>
      PROVE  LoopOrder'
  <2>1. CASE BeginSegment(rest)
    BY <1>3, <1>4, <2>1
  <2>2. CASE /\ n < Len(pending) /\ pc' = "send" /\ Len(pending') = Len(pending) - n
             /\ \A i \in 1..(Len(pending) - n) : pending'[i] = pending[n + i]
             /\ UNCHANGED <<rest, segment, seen>>
    <3>0. Len(pending) \in Nat
      BY <1>0
    <3>1. /\ Len(SubSeq(pending, 1, n)) = n
          /\ \A i \in 1..n : SubSeq(pending, 1, n)[i] = pending[i]
      BY <1>0, <3>0
    <3>2. Cut(pending, n, SubSeq(pending, 1, n), pending') /\ n \in 0..Len(pending)
      BY <2>2, <3>0, <3>1 DEF Cut
    <3>3. /\ Ascending(pending) /\ Within(pending, fetched)
          /\ Below(pending, segment) /\ Below(pending, rest)
      BY DEF LoopOrder
    <3>4. /\ Ascending(pending') /\ Within(pending', fetched)
          /\ Below(pending', segment) /\ Below(pending', rest)
      BY <1>0, <3>2, <3>3, CutOrder
    <3>5. Working' /\ pc' # "poll"
      BY <2>2 DEF Working
    <3> QED BY <1>0, <1>4, <2>2, <3>4, <3>5 DEF LoopOrder, Parses
  <2> QED BY <1>0, <1>4, <2>1, <2>2, AfterPrefixLeaves
<1>5. CASE FetchMessage
  <2> DEFINE msgs == Append(batcher, NextMsg)
  <2>1. /\ pc = "poll" /\ fetched' = fetched + 1 /\ NextMsg = fetched + 1 /\ badMsg' = badMsg
        /\ badMsg = 0 /\ NextMsg \in Good /\ batch = <<>>
    BY <1>0, <1>5 DEF FetchMessage, NextMsg, LoopOrder, Working, Good, Messages
  <2>2. ASSUME NEW i \in 1..Len(batcher) PROVE batcher[i] < NextMsg
    <3>0. Within(batcher, fetched) /\ batcher \in Seq(Nat)
      BY <1>0 DEF LoopOrder
    <3>1. batcher[i] <= fetched /\ batcher[i] \in Nat
      BY <3>0 DEF Within
    <3> QED BY <1>0, <2>1, <3>1
  <2>3. Ascending(msgs) /\ Within(msgs, fetched')
    <3>1. Ascending(batcher) /\ NextMsg \in Nat /\ fetched' \in Nat /\ NextMsg <= fetched'
      BY <1>0, <2>1 DEF LoopOrder
    <3> QED BY <1>0, <2>2, <3>1, AppendOrder
  <2>4. msgs \in Seq(Good) /\ msgs # <<>>
    <3>1. batcher \in Seq(Good) /\ NextMsg \in Good
      BY <1>0, <2>1 DEF LoopType
    <3> QED BY <3>1
  <2>5. CASE batcher' = msgs /\ UNCHANGED <<pc, sendVars>>
    <3>1. ASSUME NEW s \in Seq(Nat), Within(s, fetched) PROVE Within(s, fetched')
      BY <1>0, <2>1, <3>1 DEF Within
    <3>2. /\ Within(batch', fetched') /\ Within(rest', fetched')
          /\ Within(segment', fetched') /\ Within(pending', fetched')
      BY <1>0, <2>5, <3>1 DEF LoopOrder, sendVars
    <3>3. Ascending(batcher') /\ Within(batcher', fetched') /\ pc' = "poll"
      BY <2>1, <2>3, <2>5
    <3>4. UNCHANGED <<batch, rest, segment, pending>>
      BY <2>5 DEF sendVars
    <3> HIDE DEF msgs
    <3> QED BY <2>1, <3>2, <3>3, <3>4 DEF LoopOrder, Working
  <2>6. CASE DrainSend(msgs)
    <3> HIDE DEF msgs
    <3> QED BY <1>2, <2>1, <2>3, <2>4, <2>6
  <2> QED BY <1>5, <2>5, <2>6 DEF FetchMessage
<1>6. CASE FetchBad
  <2>1. /\ pc = "poll" /\ fetched' = fetched + 1 /\ badMsg' = fetched'
        /\ ~Parses(badMsg') /\ batch = <<>>
    BY <1>0, <1>6 DEF FetchBad, NextMsg, LoopOrder, Working
  <2>2. ASSUME NEW s \in Seq(Nat), Within(s, fetched) PROVE Within(s, fetched')
    BY <1>0, <2>1, <2>2 DEF Within
  <2>3. CASE batcher = <<>>
    <3>1. pc' = "dlq" /\ UNCHANGED <<batcher, batch, rest, segment, pending>>
      BY <1>6, <2>3 DEF FetchBad, sendVars
    <3>2. /\ Within(batch', fetched') /\ Within(rest', fetched') /\ Within(batcher', fetched')
          /\ Within(segment', fetched') /\ Within(pending', fetched')
      BY <1>0, <2>2, <3>1 DEF LoopOrder
    <3> QED BY <1>0, <2>1, <3>1, <3>2 DEF LoopOrder, Working, Parses
  <2>4. CASE batcher # <<>>
    <3>1. DrainSend(batcher) /\ batcher \in Seq(Good)
      BY <1>0, <1>6, <2>4 DEF FetchBad, LoopType
    <3>2. Ascending(batcher) /\ Within(batcher, fetched')
      BY <1>0, <2>2 DEF LoopOrder
    <3> QED BY <1>2, <2>1, <2>4, <3>1, <3>2
  <2> QED BY <2>3, <2>4
<1>7. CASE Tick
  <2>1. /\ batcher # <<>> /\ DrainSend(batcher) /\ fetched' = fetched /\ badMsg' = badMsg
        /\ batcher \in Seq(Good) /\ Ascending(batcher) /\ Within(batcher, fetched)
        /\ badMsg = 0
    BY <1>0, <1>7 DEF Tick, LoopType, LoopOrder
  <2> QED BY <1>2, <2>1
<1>8. CASE FilterDuplicate \/ FilterPending \/ FilterSkip \/ FilterReconcile
  <2>1. /\ pc = "filter" /\ pc' = "filter" /\ segment # <<>> /\ segment' = Tail(segment)
        /\ UNCHANGED <<batch, rest, batcher, fetched, badMsg>>
        /\ pending' = pending \/ pending' = Append(pending, segment[1])
    BY <1>8 DEF FilterDuplicate, FilterPending, FilterSkip, FilterReconcile, Filtering, loopVars
  <2>2. /\ Cut(segment, 1, <<segment[1]>>, segment') /\ 1 \in 0..Len(segment)
        /\ 1 \in 1..Len(segment) /\ segment[1] \in Nat
    BY <1>0, <2>1, TailCut
  <2>3. /\ Ascending(segment) /\ Within(segment, fetched) /\ Below(segment, rest)
        /\ Below(pending, segment) /\ Below(pending, rest) /\ Ascending(pending)
        /\ Within(pending, fetched)
    BY DEF LoopOrder
  <2>4. /\ Ascending(segment') /\ Within(segment', fetched) /\ Below(segment', rest)
        /\ Below(<<segment[1]>>, segment') /\ Below(<<segment[1]>>, rest)
    <3>1. PICK a : a = <<segment[1]>>
      OBVIOUS
    <3>2. Cut(segment, 1, a, segment')
      BY <2>2, <3>1
    <3>3. /\ Ascending(segment') /\ Within(segment', fetched) /\ Below(segment', rest)
          /\ Below(a, segment') /\ Below(a, rest)
      BY <1>0, <2>2, <2>3, <3>2, CutOrder
    <3> QED BY <3>1, <3>3
  <2>5. Below(pending, segment')
    <3> SUFFICES ASSUME NEW i \in 1..Len(pending), NEW j \in 1..Len(segment')
                 PROVE  pending[i] < segment'[j]
      BY DEF Below
    <3>1. PICK k \in 1..Len(segment) : k = 1 + j /\ segment'[j] = segment[k]
      <4>1. 1 + j \in 1..Len(segment) /\ segment'[j] = segment[1 + j]
        BY <1>0, <2>2 DEF Cut
      <4> QED BY <4>1
    <3> QED BY <2>3, <3>1 DEF Below
  <2>6. /\ Ascending(pending') /\ Within(pending', fetched)
        /\ Below(pending', segment') /\ Below(pending', rest)
    <3>1. CASE pending' = pending
      BY <2>3, <2>5, <3>1
    <3>2. CASE pending' = Append(pending, segment[1])
      <4>1. \A i \in 1..Len(pending) : pending[i] < segment[1]
        BY <2>2, <2>3 DEF Below
      <4>2. segment[1] <= fetched
        BY <2>2, <2>3 DEF Within
      <4> QED BY <1>0, <2>2, <2>3, <2>4, <2>5, <3>2, <4>1, <4>2, AppendOrder
    <3> QED BY <2>1, <3>1, <3>2
  <2>7. Working /\ Working' /\ pc' # "poll"
    BY <2>1 DEF Working
  <2> QED BY <1>0, <2>1, <2>4, <2>6, <2>7 DEF LoopOrder, Parses
<1>9. CASE FilterDone
  <2>1. pc = "filter" /\ UNCHANGED <<batch, batcher, fetched, badMsg>>
    BY <1>9 DEF FilterDone
  <2>2. CASE BeginSegment(rest)
    BY <1>3, <2>1, <2>2 DEF Working
  <2>3. CASE pc' = "send" /\ UNCHANGED <<rest, segment, seen, pending>>
    BY <1>0, <2>1, <2>3 DEF LoopOrder, Working, Parses
  <2> QED BY <1>9, <2>2, <2>3 DEF FilterDone
<1>10. CASE FilterError \/ RecordFailureError \/ SendLost \/ SendError \/ SendRefused
            \/ RecordSentError
  <2>1. Unshift /\ Working
    BY <1>10 DEF FilterError, RecordFailureError, SendLost, SendError, SendRefused,
                 RecordSentError, Working
  <2>2. batcher' = batch
    <3>1. batcher = <<>> /\ batcher' = batch \o batcher
      BY <2>1 DEF LoopOrder, Unshift
    <3> QED BY <1>0, <3>1
  <2>3. /\ batch' = <<>> /\ rest' = <<>> /\ segment' = <<>> /\ pending' = <<>>
        /\ fetched' = fetched /\ badMsg' = badMsg /\ pc' = IF badMsg = 0 THEN "poll" ELSE "dlq"
    BY <2>1 DEF Unshift, EndSend
  <2> QED BY <1>0, <2>2, <2>3, EmptyOrder DEF LoopOrder, Working, Parses
<1>11. CASE SendFailed
  <2>1. pc = "send" /\ AfterPrefix(FailureLength) /\ UNCHANGED <<batch, batcher, fetched, badMsg>>
    BY <1>11 DEF SendFailed
  <2>2. FailureLength \in 1..Len(pending)
    BY <1>0, <2>1, FailureLengthType DEF LoopType
  <2> QED BY <1>4, <2>1, <2>2 DEF Working
<1>12. CASE SendCalldata
  <2>1. pc = "send" /\ pc' = "mark" /\ UNCHANGED <<batch, rest, segment, pending, fetched, batcher, badMsg>>
    BY <1>12 DEF SendCalldata, sendVars
  <2> QED BY <1>0, <2>1 DEF LoopOrder, Working, Parses
<1>13. CASE RecordSent
  <2>1. /\ pc = "mark" /\ AfterPrefix(Len(tx[ntx].events))
        /\ UNCHANGED <<batch, batcher, fetched, badMsg>>
    BY <1>13 DEF RecordSent
  <2>2. Len(tx[ntx].events) \in 1..Len(pending)
    BY <2>1, MarkedEvents
  <2> QED BY <1>4, <2>1, <2>2 DEF Working
<1>14. CASE Submit
  <2>1. /\ batch' = <<>> /\ rest' = <<>> /\ segment' = <<>> /\ pending' = <<>>
        /\ fetched' = fetched /\ badMsg' = badMsg /\ pc' = IF badMsg = 0 THEN "poll" ELSE "dlq"
        /\ batcher' = batcher
    BY <1>14 DEF Submit, EndSend
  <2> QED BY <1>0, <2>1, EmptyOrder DEF LoopOrder, Working, Parses
<1>15. CASE PublishBad \/ PublishBadError \/ SubmitBad
  <2>1. /\ UNCHANGED <<batch, rest, segment, pending, fetched, batcher>>
        /\ pc \in {"dlq", "submitBad"} /\ pc' \in {"poll", "submitBad"}
        /\ badMsg' = badMsg \/ badMsg' = 0
        /\ pc' = "poll" => badMsg' = 0
    BY <1>15 DEF PublishBad, PublishBadError, SubmitBad, sendVars
  <2> QED BY <1>0, <2>1 DEF LoopOrder, Working, Parses
<1>16. CASE Escalate \/ Crash
  <2>1. /\ batch' = <<>> /\ rest' = <<>> /\ segment' = <<>> /\ pending' = <<>> /\ batcher' = <<>>
        /\ badMsg' = 0 /\ pc' = "poll"
    BY <1>16 DEF Escalate, Crash, Restart
  <2> QED BY <2>1, EmptyOrder DEF LoopOrder, Working
<1> QED BY <1>1, <1>5, <1>6, <1>7, <1>8, <1>9, <1>10, <1>11, <1>12, <1>13, <1>14, <1>15, <1>16,
           OthersLeaveLoop DEF Next, Loop

\* Messages are handed out one by one, and again from the committed offset after a restart.
LEMMA FetchSteps ==
    ASSUME [Next]_vars
    PROVE  fetched' = fetched \/ fetched' = fetched + 1 \/ Escalate \/ Crash
<1>1. CASE Loop
  <2>1. CASE FetchMessage \/ FetchBad \/ Tick
    BY <2>1 DEF FetchMessage, FetchBad, Tick, NextMsg
  <2>2. CASE FilterDuplicate \/ FilterPending \/ FilterSkip \/ FilterReconcile
    BY <2>2 DEF FilterDuplicate, FilterPending, FilterSkip, FilterReconcile, Filtering, loopVars
  <2>3. CASE FilterDone \/ SendFailed \/ RecordSent \/ SendCalldata \/ PublishBad
             \/ PublishBadError
    BY <2>3 DEF FilterDone, SendFailed, RecordSent, SendCalldata, PublishBad, PublishBadError
  <2>4. CASE FilterError \/ RecordFailureError \/ SendLost \/ SendError \/ SendRefused
             \/ RecordSentError
    BY <2>4 DEF FilterError, RecordFailureError, SendLost, SendError, SendRefused,
                RecordSentError, Unshift
  <2>5. CASE Submit \/ SubmitBad
    BY <2>5 DEF Submit, SubmitBad
  <2> QED BY <1>1, <2>1, <2>2, <2>3, <2>4, <2>5 DEF Loop
<1>2. CASE Collect \/ Reconcile \/ MineNext \/ (\E t \in Txs : Evict(t)) \/ UNCHANGED vars
  BY <1>2, OthersLeaveLoop DEF LoopStays
<1> QED BY <1>1, <1>2 DEF Next

\* The messages of a batch.
LEMMA BatchMessages ==
    ASSUME LogType, PipeType, NEW j \in 1..Len(pipe)
    PROVE  pipe[j].msgs \in Seq(Messages) /\ pipe[j].msgs \in Seq(Nat) /\ pipe[j].msgs # <<>>
<1> DEFINE B == [msgs : Seq(Messages), txs : Seq(Txs)]
<1>1. pipe \in Seq(B) /\ pipe[j].msgs # <<>>
  BY DEF PipeType
<1>2. \A b \in B : b.msgs \in Seq(Messages)
  OBVIOUS
<1> HIDE DEF B
<1>3. pipe[j] \in B
  BY <1>1
<1> QED BY <1>1, <1>2, <1>3, GoodNat

\* The first batch and the offset it is committed with.
LEMMA CommitsLast ==
    ASSUME TypeInv, CommitOffsets
    PROVE  /\ pipe # <<>> /\ 1 \in 1..Len(pipe) /\ pipe' = Tail(pipe)
           /\ pipe[1].msgs \in Seq(Nat) /\ Len(pipe[1].msgs) \in 1..Len(pipe[1].msgs)
           /\ committed' = pipe[1].msgs[Len(pipe[1].msgs)]
           /\ LoopStays
<1>1. pipe # <<>> /\ pipe' = Tail(pipe) /\ committed' = LastMessage(pipe[1].msgs) /\ LoopStays
  BY OthersLeaveLoop DEF CommitOffsets, Collect
<1>2. LogType /\ PipeType
  BY DEF TypeInv
<1>3. 1 \in 1..Len(pipe)
  BY <1>1, <1>2 DEF PipeType
<1>4. pipe[1].msgs \in Seq(Nat) /\ pipe[1].msgs # <<>>
  BY <1>2, <1>3, BatchMessages
<1>5. Len(pipe[1].msgs) \in 1..Len(pipe[1].msgs)
  BY <1>4
<1> QED BY <1>1, <1>3, <1>4, <1>5 DEF LastMessage

LEMMA PipeOrderStep ==
    ASSUME TypeInv, LoopOrder, PipeOrder, [Next]_vars
    PROVE  PipeOrder'
<1>0. PipeType /\ LogType /\ LoopType /\ fetched \in Nat /\ committed \in Nat /\ Len(log) \in Nat
  BY LoopNat
<1>1. ASSUME NEW i \in 1..Len(pipe')
      PROVE  Ascending(pipe'[i].msgs) /\ Within(pipe'[i].msgs, fetched')
  <2>1. fetched' \in Nat /\ fetched <= fetched'
    BY <1>0, PipeEntries, FetchSteps
  <2>2. ASSUME NEW s \in Seq(Nat), Within(s, fetched) PROVE Within(s, fetched')
    BY <1>0, <2>1, <2>2 DEF Within
  <2>3. CASE \E j \in 1..Len(pipe) : pipe'[i] = pipe[j]
    <3>1. PICK j \in 1..Len(pipe) : pipe'[i] = pipe[j]
      BY <2>3
    <3>3. pipe[j].msgs \in Seq(Nat)
      BY <1>0, BatchMessages
    <3> QED BY <2>2, <3>1, <3>3 DEF PipeOrder
  <2>4. CASE Submit /\ pipe'[i].msgs = batch
    <3>1. Ascending(batch) /\ Within(batch, fetched) /\ batch \in Seq(Nat)
      BY <1>0, GoodNat DEF LoopOrder, LoopType
    <3> QED BY <2>2, <2>4, <3>1
  <2>5. CASE SubmitBad /\ pipe'[i].msgs = <<badMsg>>
    <3>1. badMsg = fetched /\ badMsg \in Nat
      <4>1. badMsg # 0 /\ badMsg \in Nat
        BY <1>0, <2>5 DEF SubmitBad, LoopType
      <4> QED BY <4>1 DEF LoopOrder
    <3>2. Ascending(<<badMsg>>) /\ Within(<<badMsg>>, fetched) /\ <<badMsg>> \in Seq(Nat)
      BY <1>0, <3>1 DEF Ascending, Within
    <3> QED BY <2>2, <2>5, <3>2
  <2> QED BY <1>0, <2>3, <2>4, <2>5, PipeEntries
<1>2. committed' <= fetched'
  <2>1. CASE Escalate \/ Crash
    BY <1>0, <2>1 DEF Escalate, Crash, Restart
  <2>2. CASE ~Escalate /\ ~Crash /\ committed' = committed
    BY <1>0, <2>2, FetchSteps DEF PipeOrder
  <2>3. CASE CommitOffsets
    BY <2>3, CommitsLast DEF PipeOrder, Within, LoopStays
  <2> QED BY <2>1, <2>2, <2>3, PipeSteps DEF PipeStays, Submit, SubmitBad, SubmitBatch
<1> QED BY <1>1, <1>2 DEF PipeOrder

-----------------------------------------------------------------------------
(* What is dealt with *)

\* The action is settled, or it has a transaction the reconciler will look at.
EventHandled(e) == row[e].status \in {"COMMITTED", "FAILED"} \/ row[e].tx # NoTx

Handled(p) == IF Parses(p) THEN EventHandled(log[p]) ELSE p \in dlqBad

\* A Send leaves no message behind: each one of the batch is handled, is still to be filtered
\* or is pending, itself or as an earlier message with the same action.
SendHandled ==
    Working =>
        /\ pc \in {"send", "mark", "submit"} => segment = <<>>
        /\ pc = "submit" => rest = <<>> /\ pending = <<>>
        /\ \A e \in seen : EventHandled(e) \/ \E j \in 1..Len(pending) : log[pending[j]] = e
        /\ \A p \in Range(batch) :
             \/ p \in Range(segment) \/ p \in Range(rest) \/ Handled(p)
             \/ \E j \in 1..Len(pending) : log[pending[j]] = log[p] /\ pending[j] <= p

\* What is submitted is handled.
PipeHandled ==
    /\ \A i \in 1..Len(pipe) : \A p \in Range(pipe[i].msgs) : Handled(p)
    /\ pc = "submitBad" => badMsg \in dlqBad

\* What is handled stays so.
LEMMA HandledStays ==
    ASSUME TypeInv, RowInv, [Next]_vars
    PROVE  /\ \A e \in Events : EventHandled(e) => EventHandled(e)'
           /\ \A p \in Messages : Handled(p) => Handled(p)'
           /\ dlqBad \subseteq dlqBad'
<1>1. ASSUME NEW e \in Events, EventHandled(e) PROVE EventHandled(e)'
  <2>1. CASE row'[e] = row[e]
    BY <1>1, <2>1 DEF EventHandled
  <2>2. CASE Marks(e)
    <3>1. row[e].status \in {"NONE", "PENDING"} /\ row[e].tx = NoTx
      BY <2>2 DEF Marks
    <3> QED BY <1>1, <3>1 DEF EventHandled
  <2>3. CASE Settles(e)
    BY <2>3 DEF Settles, EventHandled
  <2> QED BY <2>1, <2>2, <2>3, RowMoves
<1>2. dlqBad \subseteq dlqBad'
  BY DeadLetterSteps DEF PublishBad
<1>3. ASSUME NEW p \in Messages, Handled(p) PROVE Handled(p)'
  <2>1. log' = log /\ LogType
    BY LogFixed DEF TypeInv
  <2>2. CASE Parses(p)
    <3>1. log[p] \in Events
      BY <2>1, <2>2, GoodEvent DEF Good
    <3>2. PICK e \in Events : e = log[p]
      BY <3>1
    <3>3. EventHandled(e)'
      BY <1>1, <1>3, <2>2, <3>2 DEF Handled
    <3> QED BY <2>1, <2>2, <3>2, <3>3 DEF Handled, Parses, EventHandled
  <2>3. CASE ~Parses(p)
    BY <1>2, <1>3, <2>1, <2>3 DEF Handled, Parses
  <2> QED BY <2>2, <2>3
<1> QED BY <1>1, <1>2, <1>3

LEMMA PipeHandledStep ==
    ASSUME TypeInv, RowInv, LoopOrder, SendHandled, PipeHandled, [Next]_vars
    PROVE  PipeHandled'
<1>0. PipeType /\ LogType /\ LoopType /\ log' = log /\ Messages' = Messages
  BY LogFixed DEF TypeInv
<1>1. ASSUME NEW i \in 1..Len(pipe'), NEW p \in Range(pipe'[i].msgs) PROVE Handled(p)'
  <2>1. CASE \E j \in 1..Len(pipe) : pipe'[i] = pipe[j]
    <3>1. PICK j \in 1..Len(pipe) : pipe'[i] = pipe[j]
      BY <2>1
    <3>3. pipe[j].msgs \in Seq(Messages)
      BY <1>0, BatchMessages
    <3>4. p \in Messages /\ Handled(p)
      BY <1>1, <3>1, <3>3 DEF PipeHandled, Range
    <3> QED BY <3>4, HandledStays
  <2>2. CASE Submit /\ pipe'[i].msgs = batch
    <3>1. pc = "submit" /\ Working /\ p \in Range(batch)
      BY <1>1, <2>2 DEF Submit, Working
    <3>2. Handled(p)
      BY <3>1 DEF SendHandled, Range
    <3>3. p \in Messages
      <4>1. batch \in Seq(Messages)
        BY <1>0, GoodNat DEF LoopType
      <4> QED BY <3>1, <4>1 DEF Range
    <3> QED BY <3>2, <3>3, HandledStays
  <2>3. CASE SubmitBad /\ pipe'[i].msgs = <<badMsg>>
    <3>1. p = badMsg
      BY <1>1, <2>3 DEF Range
    <3>2. pc = "submitBad" /\ badMsg # 0 /\ badMsg \in Messages
      BY <1>0, <2>3, GoodNat DEF SubmitBad, LoopType, Messages
    <3>3. ~Parses(p) /\ p \in dlqBad
      BY <3>1, <3>2 DEF LoopOrder, PipeHandled
    <3>4. Handled(p)
      BY <3>3 DEF Handled
    <3> QED BY <3>1, <3>2, <3>4, HandledStays
  <2> QED BY <1>0, <2>1, <2>2, <2>3, PipeEntries
<1>2. ASSUME pc' = "submitBad" PROVE badMsg' \in dlqBad'
  <2>1. CASE PublishBad
    BY <2>1 DEF PublishBad
  <2>2. CASE LoopStays
    BY <1>2, <2>2, HandledStays DEF LoopStays, PipeHandled
  <2>3. ASSUME NEW msgs, BeginSegment(msgs) PROVE FALSE
    BY <1>2, <2>3 DEF BeginSegment
  <2>4. ASSUME EndSend PROVE FALSE
    BY <1>2, <2>4 DEF EndSend
  <2>5. ASSUME NEW n, AfterPrefix(n) PROVE FALSE
    BY <1>2, <2>3, <2>5 DEF AfterPrefix
  <2>6. CASE FetchMessage \/ FetchBad \/ Tick
    BY <1>2, <2>3, <2>6 DEF FetchMessage, FetchBad, Tick, DrainSend
  <2>7. CASE FilterDuplicate \/ FilterPending \/ FilterSkip \/ FilterReconcile
    BY <1>2, <2>7 DEF FilterDuplicate, FilterPending, FilterSkip, FilterReconcile, Filtering, loopVars
  <2>8. CASE FilterDone
    BY <1>2, <2>3, <2>8 DEF FilterDone
  <2>9. CASE SendFailed \/ RecordSent
    BY <2>5, <2>9 DEF SendFailed, RecordSent
  <2>10. CASE FilterError \/ RecordFailureError \/ SendLost \/ SendError \/ SendRefused
              \/ RecordSentError \/ Submit
    BY <2>4, <2>10 DEF FilterError, RecordFailureError, SendLost, SendError, SendRefused,
                       RecordSentError, Unshift, Submit
  <2>11. CASE SendCalldata \/ SubmitBad \/ PublishBadError \/ Escalate \/ Crash
    BY <1>2, <2>11 DEF SendCalldata, SubmitBad, PublishBadError, Escalate, Crash, Restart
  <2> QED BY <2>1, <2>2, <2>6, <2>7, <2>8, <2>9, <2>10, <2>11, OthersLeaveLoop DEF Next, Loop
<1> QED BY <1>0, <1>1, <1>2 DEF PipeHandled

LEMMA SendHandledStep ==
    ASSUME TypeInv, RowInv, LoopOrder, SendHandled, [Next]_vars
    PROVE  SendHandled'
<1>0. /\ LogType /\ LoopType /\ LoopType' /\ log' = log /\ seen \subseteq Events
      /\ \A p \in Range(batch) : p \in Messages /\ p \in Good
  <2>1. LogType /\ LoopType /\ LoopType' /\ log' = log
    BY LogFixed, TypeInvStep DEF TypeInv
  <2>2. batch \in Seq(Good) /\ Good \subseteq Messages
    BY <2>1, GoodNat DEF LoopType
  <2>3. ASSUME NEW p \in Range(batch) PROVE p \in Good
    BY <2>2, RangeType
  <2>4. seen \subseteq Events
    BY <2>1 DEF LoopType
  <2> QED BY <2>1, <2>2, <2>3, <2>4
<1>1. /\ \A e \in Events : EventHandled(e) => EventHandled(e)'
      /\ \A p \in Messages : Handled(p) => Handled(p)'
  BY HandledStays
<1>2. CASE ~Working'
  BY <1>2 DEF SendHandled
<1>3. ASSUME Working, UNCHANGED <<batch, rest, segment, seen, pending>>,
             pc' = "submit" => pc = "submit",
             pc' \in {"send", "mark", "submit"} => segment = <<>>
      PROVE  SendHandled'
  <2>1. \A e \in seen : EventHandled(e)' \/ \E j \in 1..Len(pending) : log[pending[j]] = e
    BY <1>0, <1>1, <1>3 DEF SendHandled
  <2>2. \A p \in Range(batch) :
           \/ p \in Range(segment) \/ p \in Range(rest) \/ Handled(p)'
           \/ \E j \in 1..Len(pending) : log[pending[j]] = log[p] /\ pending[j] <= p
    BY <1>0, <1>1, <1>3 DEF SendHandled
  <2> QED BY <1>0, <1>3, <2>1, <2>2 DEF SendHandled
<1>4. ASSUME NEW msgs \in Seq(Good), BeginSegment(msgs),
             \A p \in Range(batch') : p \in Range(msgs) \/ Handled(p)'
      PROVE  SendHandled'
  <2>1. /\ seen' = {} /\ pending' = <<>> /\ pc' \in {"filter", "submit"}
        /\ segment' \in Seq(Good) /\ rest' \in Seq(Good)
    BY <1>4, BeginSegmentSplits
  <2>2. pc' = "submit" => segment' = <<>> /\ rest' = <<>>
    BY <1>4, BeginSegmentSplits
  <2>3. Range(msgs) = Range(segment') \union Range(rest')
    <3>1. CASE msgs = <<>>
      <4>1. segment' = <<>> /\ rest' = <<>>
        BY <1>4, <3>1, BeginSegmentSplits
      <4> QED BY <3>1, <4>1 DEF Range
    <3>2. CASE msgs # <<>>
      <4>1. PICK n \in 1..Len(msgs) : Cut(msgs, n, segment', rest')
        BY <1>4, <3>2, BeginSegmentSplits
      <4>2. n \in 0..Len(msgs)
        BY <1>4
      <4> QED BY <1>4, <2>1, <4>1, <4>2, CutRange
    <3> QED BY <3>1, <3>2
  <2> QED BY <1>4, <2>1, <2>2, <2>3 DEF SendHandled
<1>5. ASSUME NEW n \in 1..Len(pending), AfterPrefix(n), pc \in {"send", "mark"}, batch' = batch,
             \A i \in 1..n : \E e \in Events : e = log[pending[i]] /\ EventHandled(e)'
      PROVE  SendHandled'
  <2>0. /\ segment = <<>> /\ rest \in Seq(Good) /\ pending \in Seq(Good) /\ Len(pending) \in Nat
        /\ Working
    <3>1. rest \in Seq(Good) /\ pending \in Seq(Good)
      BY <1>0 DEF LoopType
    <3>2. Working
      BY <1>5 DEF Working
    <3>3. segment = <<>>
      BY <1>5, <3>2 DEF SendHandled
    <3> QED BY <3>1, <3>2, <3>3
  <2>1. ASSUME NEW i \in 1..n, NEW p \in Good, log[pending[i]] = log[p] PROVE Handled(p)'
    <3>1. PICK e \in Events : e = log[pending[i]] /\ EventHandled(e)'
      BY <1>5
    <3>2. log'[p] = e /\ log'[p] # Bad
      BY <1>0, <2>1, <3>1 DEF Good, Parses
    <3> QED BY <3>1, <3>2 DEF Handled, Parses, EventHandled
  <2>2. CASE n = Len(pending) /\ BeginSegment(rest)
    <3>1. ASSUME NEW p \in Range(batch) PROVE p \in Range(rest) \/ Handled(p)'
      <4>1. p \notin Range(segment)
        BY <2>0 DEF Range
      <4>2. \/ p \in Range(rest) \/ Handled(p)
            \/ \E j \in 1..n : log[pending[j]] = log[p]
        BY <2>0, <2>2, <4>1 DEF SendHandled
      <4> QED BY <1>0, <1>1, <2>1, <4>2
    <3> QED BY <1>4, <1>5, <2>0, <2>2, <3>1
  <2>3. CASE /\ n < Len(pending) /\ pc' = "send"
             /\ Len(pending') = Len(pending) - n
             /\ \A i \in 1..(Len(pending) - n) : pending'[i] = pending[n + i]
             /\ UNCHANGED <<rest, segment, seen>>
    <3>1. ASSUME NEW j \in 1..Len(pending), j \notin 1..n
          PROVE  \E k \in 1..Len(pending') : pending'[k] = pending[j]
      <4>1. j - n \in 1..(Len(pending) - n) /\ n + (j - n) = j
        BY <2>0, <3>1
      <4>2. PICK k \in 1..(Len(pending) - n) : n + k = j
        BY <4>1
      <4> QED BY <2>3, <4>2
    <3>2. ASSUME NEW e \in seen
          PROVE  EventHandled(e)' \/ \E k \in 1..Len(pending') : log[pending'[k]] = e
      <4>1. CASE EventHandled(e)
        BY <1>0, <1>1, <4>1
      <4>2. ASSUME NEW j \in 1..Len(pending), log[pending[j]] = e
            PROVE  EventHandled(e)' \/ \E k \in 1..Len(pending') : log[pending'[k]] = e
        <5>1. CASE j \in 1..n
          BY <1>5, <4>2, <5>1
        <5>2. CASE j \notin 1..n
          BY <3>1, <4>2, <5>2
        <5> QED BY <5>1, <5>2
      <4> QED BY <2>0, <4>1, <4>2 DEF SendHandled
    <3>3. ASSUME NEW p \in Range(batch)
          PROVE  \/ p \in Range(rest) \/ Handled(p)'
                 \/ \E k \in 1..Len(pending') : log[pending'[k]] = log[p] /\ pending'[k] <= p
      <4>1. p \notin Range(segment)
        BY <2>0 DEF Range
      <4>2. CASE p \in Range(rest) \/ Handled(p)
        BY <1>0, <1>1, <4>2
      <4>3. ASSUME NEW j \in 1..Len(pending), log[pending[j]] = log[p], pending[j] <= p
            PROVE  \/ Handled(p)'
                   \/ \E k \in 1..Len(pending') : log[pending'[k]] = log[p] /\ pending'[k] <= p
        <5>1. CASE j \in 1..n
          BY <1>0, <2>1, <4>3, <5>1
        <5>2. CASE j \notin 1..n
          BY <3>1, <4>3, <5>2
        <5> QED BY <5>1, <5>2
      <4> QED BY <2>0, <4>1, <4>2, <4>3 DEF SendHandled
    <3> QED BY <1>0, <1>5, <2>0, <2>3, <3>2, <3>3 DEF SendHandled
  <2> QED BY <1>5, <2>0, <2>2, <2>3, AfterPrefixLeaves
<1>6. CASE FetchMessage \/ FetchBad \/ Tick
  <2>1. CASE \E msgs \in Seq(Good) : DrainSend(msgs)
    <3>1. PICK msgs \in Seq(Good) : batch' = msgs /\ BeginSegment(msgs)
      BY <2>1 DEF DrainSend
    <3> QED BY <1>4, <3>1
  <2>2. CASE pc' \in {"poll", "dlq"}
    BY <1>2, <2>2 DEF Working
  <2>3. CASE FetchMessage
    <3>1. batcher \in Seq(Good) /\ NextMsg \in Good /\ pc = "poll"
      BY <1>0, <2>3, GoodNat DEF FetchMessage, LoopType, Good, Messages, NextMsg
    <3>2. Append(batcher, NextMsg) \in Seq(Good)
      BY <3>1
    <3> QED BY <2>1, <2>2, <2>3, <3>1, <3>2 DEF FetchMessage
  <2>4. batcher \in Seq(Good)
    BY <1>0 DEF LoopType
  <2>5. CASE FetchBad \/ Tick
    BY <2>1, <2>2, <2>4, <2>5 DEF FetchBad, Tick
  <2> QED BY <1>6, <2>3, <2>5
<1>7. CASE FilterDuplicate \/ FilterPending \/ FilterSkip \/ FilterReconcile
  <2>1. /\ pc = "filter" /\ pc' = "filter" /\ segment # <<>> /\ segment' = Tail(segment)
        /\ seen' = seen \union {Current} /\ batch' = batch /\ rest' = rest
        /\ pending' = pending \/ pending' = Append(pending, segment[1])
    BY <1>7 DEF FilterDuplicate, FilterPending, FilterSkip, FilterReconcile, Filtering, loopVars
  <2>2. /\ segment \in Seq(Good) /\ pending \in Seq(Good) /\ Len(pending) \in Nat
        /\ segment[1] \in Good /\ 1 \in 1..Len(segment)
    BY <1>0, <2>1 DEF LoopType
  <2>3. Current = log[segment[1]] /\ Current \in Events
    BY <1>0, <2>2, GoodEvent DEF Current
  <2>4. ASSUME NEW j \in 1..Len(pending)
        PROVE  j \in 1..Len(pending') /\ pending'[j] = pending[j] /\ pending[j] <= segment[1]
    <3>1. pending[j] < segment[1]
      BY <2>2 DEF LoopOrder, Below
    <3>2. pending[j] \in Nat /\ segment[1] \in Nat
      BY <1>0, <2>2, GoodNat
    <3>3. j \in 1..Len(pending') /\ pending'[j] = pending[j]
      <4>1. CASE pending' = pending
        BY <4>1
      <4>2. CASE pending' = Append(pending, segment[1])
        BY <2>2, <4>2
      <4> QED BY <2>1, <4>1, <4>2
    <3> QED BY <3>1, <3>2, <3>3
  <2>5. \/ EventHandled(Current)
        \/ \E j \in 1..Len(pending') : log[pending'[j]] = Current /\ pending'[j] <= segment[1]
    <3>1. CASE FilterDuplicate
      <4>1. Current \in seen
        BY <3>1 DEF FilterDuplicate
      <4>2. EventHandled(Current) \/ \E j \in 1..Len(pending) : log[pending[j]] = Current
        BY <2>1, <4>1 DEF SendHandled, Working
      <4> QED BY <2>4, <4>2
    <3>2. CASE FilterPending
      <4>1. pending' = Append(pending, segment[1])
        BY <3>2 DEF FilterPending
      <4>2. PICK k \in 1..Len(pending') : k = Len(pending) + 1 /\ pending'[k] = segment[1]
        BY <2>2, <4>1
      <4>3. segment[1] <= segment[1]
        BY <1>0, <2>2, GoodNat
      <4> QED BY <2>3, <4>2, <4>3
    <3>3. CASE FilterSkip \/ FilterReconcile
      BY <3>3 DEF FilterSkip, FilterReconcile, EventHandled
    <3> QED BY <1>7, <3>1, <3>2, <3>3
  <2>6. ASSUME NEW e \in seen'
        PROVE  EventHandled(e)' \/ \E j \in 1..Len(pending') : log[pending'[j]] = e
    <3>1. CASE e \in seen
      <4>1. EventHandled(e) \/ \E j \in 1..Len(pending) : log[pending[j]] = e
        BY <2>1, <3>1 DEF SendHandled, Working
      <4> QED BY <1>0, <1>1, <2>4, <3>1, <4>1
    <3>2. CASE e = Current
      <4>1. PICK c \in Events : c = Current
        BY <2>3
      <4>2. EventHandled(c) => EventHandled(c)'
        BY <1>1
      <4> QED BY <2>5, <3>2, <4>1, <4>2
    <3> QED BY <2>1, <3>1, <3>2
  <2>7. ASSUME NEW p \in Range(batch)
        PROVE  \/ p \in Range(segment') \/ p \in Range(rest) \/ Handled(p)'
               \/ \E j \in 1..Len(pending') : log[pending'[j]] = log[p] /\ pending'[j] <= p
    <3>1. CASE p = segment[1]
      <4>1. CASE EventHandled(Current)
        <5>1. Handled(p)
          BY <2>2, <2>3, <3>1, <4>1 DEF Handled, Good
        <5> QED BY <1>0, <1>1, <5>1
      <4> QED BY <2>3, <2>5, <3>1, <4>1
    <3>2. CASE p \in Range(segment) /\ p # segment[1]
      <4>1. Range(segment) = {segment[1]} \union Range(Tail(segment))
        BY <2>1, <2>2, TailRange
      <4> QED BY <2>1, <3>2, <4>1
    <3>3. CASE p \in Range(rest) \/ Handled(p)
      BY <1>0, <1>1, <3>3
    <3>4. CASE \E j \in 1..Len(pending) : log[pending[j]] = log[p] /\ pending[j] <= p
      BY <2>4, <3>4
    <3> QED BY <2>1, <3>1, <3>2, <3>3, <3>4 DEF SendHandled, Working
  <2> QED BY <1>0, <2>1, <2>6, <2>7 DEF SendHandled
<1>8. CASE FilterDone
  <2>1. pc = "filter" /\ segment = <<>> /\ Working /\ batch' = batch
    BY <1>8 DEF FilterDone, Working
  <2>2. CASE pending = <<>>
    <3>1. BeginSegment(rest) /\ rest \in Seq(Good)
      BY <1>0, <1>8, <2>2 DEF FilterDone, LoopType
    <3>2. ASSUME NEW p \in Range(batch) PROVE p \in Range(rest) \/ Handled(p)'
      <4>1. p \notin Range(segment) /\ ~\E j \in 1..Len(pending) : TRUE
        BY <2>1, <2>2 DEF Range
      <4>2. p \in Range(rest) \/ Handled(p)
        BY <2>1, <4>1 DEF SendHandled
      <4> QED BY <1>0, <1>1, <4>2
    <3> QED BY <1>4, <2>1, <3>1, <3>2
  <2>3. CASE pending # <<>>
    BY <1>3, <1>8, <2>1, <2>3 DEF FilterDone
  <2> QED BY <2>2, <2>3
<1>9. CASE FilterError \/ RecordFailureError \/ SendLost \/ SendError \/ SendRefused
           \/ RecordSentError \/ Submit
  BY <1>2, <1>9 DEF FilterError, RecordFailureError, SendLost, SendError, SendRefused,
                    RecordSentError, Submit, Unshift, EndSend, Working
<1>10. CASE SendFailed
  <2>1. /\ pc = "send" /\ AfterPrefix(FailureLength) /\ batch' = batch
        /\ row' = MarkFailed(EventsOf(Prefix(FailureLength)), NoTx)
    BY <1>10 DEF SendFailed
  <2>2. PICK n \in 1..Len(pending) : n = FailureLength
    BY <1>0, <2>1, FailureLengthType DEF LoopType
  <2>3. row' = MarkFailed({log[pending[i]] : i \in 1..n}, NoTx) /\ AfterPrefix(n)
    BY <2>1, <2>2, PrefixEvents
  <2>4. ASSUME NEW i \in 1..n PROVE \E e \in Events : e = log[pending[i]] /\ EventHandled(e)'
    <3>0. pending \in Seq(Good) /\ i \in 1..Len(pending)
      BY <1>0, <2>2 DEF LoopType
    <3>1. i \in 1..Len(pending) /\ pending[i] \in Good
      BY <3>0
    <3>2. PICK e \in Events : e = log[pending[i]]
      BY <1>0, <3>1, GoodEvent
    <3>3. row[e].status = "PENDING" /\ row[e] \in Rows
      BY <2>1, <3>1, <3>2 DEF RowInv, PendingFresh, TypeInv, CoreType
    <3>4. row'[e] = Failed(row[e], NoTx)
      BY <2>3, <3>2 DEF MarkFailed
    <3>5. Failed(row[e], NoTx).status = "FAILED"
      BY <3>3 DEF Failed, Rows
    <3>6. row'[e].status = "FAILED"
      BY <3>4, <3>5
    <3>7. EventHandled(e)'
      BY <3>6 DEF EventHandled
    <3> QED BY <3>2, <3>7
  <2> QED BY <1>5, <2>1, <2>3, <2>4
<1>11. CASE SendCalldata
  <2>1. pc = "send" /\ pc' = "mark" /\ UNCHANGED <<batch, rest, segment, seen, pending>> /\ Working
    BY <1>11 DEF SendCalldata, sendVars, Working
  <2>2. segment = <<>>
    BY <2>1 DEF SendHandled
  <2> QED BY <1>3, <2>1, <2>2
<1>12. CASE RecordSent
  <2>1. pc = "mark" /\ AfterPrefix(Len(tx[ntx].events)) /\ batch' = batch /\ ntx \in Txs
    BY <1>12, MarkedEvents DEF RecordSent
  <2>2. PICK n \in 1..Len(pending) :
           n = Len(tx[ntx].events) /\ Range(tx[ntx].events) = {log[pending[i]] : i \in 1..n}
    BY <2>1, MarkedEvents
  <2>3. ASSUME NEW i \in 1..n PROVE \E e \in Events : e = log[pending[i]] /\ EventHandled(e)'
    <3>1. PICK e \in Range(tx[ntx].events) : e = log[pending[i]]
      BY <2>2
    <3>2. e \in Events /\ row'[e].tx # NoTx
      BY <1>12, <2>1, RecordSentHash DEF Txs, NoTx
    <3> QED BY <3>1, <3>2 DEF EventHandled
  <2> QED BY <1>5, <2>1, <2>2, <2>3
<1>13. CASE PublishBad \/ PublishBadError \/ SubmitBad \/ Escalate \/ Crash
  BY <1>2, <1>13 DEF PublishBad, PublishBadError, SubmitBad, Escalate, Crash, Restart, Working
<1>14. CASE LoopStays
  <2>1. CASE Working
    BY <1>3, <1>14, <2>1 DEF LoopStays, SendHandled
  <2>2. CASE ~Working
    BY <1>2, <1>14, <2>2 DEF LoopStays, Working
  <2> QED BY <2>1, <2>2
<1> QED BY <1>6, <1>7, <1>8, <1>9, <1>10, <1>11, <1>12, <1>13, <1>14, OthersLeaveLoop
           DEF Next, Loop

-----------------------------------------------------------------------------
(* Offsets *)

CleanLog == \A p \in Messages : log[p] # Bad

\* There is no message Parse refuses, or no call has failed and nothing was evicted: then a
\* batch that could not be sent is not overtaken by a refused message.
Orderly == CleanLog \/ (faults = 0 /\ drops = 0)

Above(s, n) == \A i \in 1..Len(s) : n < s[i]
Under(s, n) == \A i \in 1..Len(s) : s[i] < n

\* The messages the loop holds.
Held == Range(batch) \union Range(batcher) \union ({badMsg} \ {0})

\* The offset, the batches in the pipeline, and then what the loop holds, follow each other
\* in the order of the log, and no message between the offset and the reader is missing.
InOrder ==
    /\ \A i, j \in 1..Len(pipe) : i < j => Below(pipe[i].msgs, pipe[j].msgs)
    /\ \A i \in 1..Len(pipe) : Above(pipe[i].msgs, committed)
    /\ \A i \in 1..Len(pipe) : \A q \in Held : Under(pipe[i].msgs, q)
    /\ \A q \in Held : committed < q
    /\ pc \in {"dlq", "submitBad"} => batcher = <<>>
    /\ \A p \in (committed + 1)..fetched :
         p \in Held \/ \E i \in 1..Len(pipe) : p \in Range(pipe[i].msgs)

QueueOrder == Orderly => InOrder

\* What is below the committed offset is handled.
OffsetHandled == Orderly => \A p \in 1..committed : Handled(p)

\* The last nonce the chain took is that of a transaction.
MinedLast ==
    chainNonce = 1 \/ \E t \in Txs : /\ tx[t].state \in {"ok", "reverted"}
                                     /\ tx[t].nonce = chainNonce - 1

LEMMA MinedLastStep ==
    ASSUME TypeInv, MinedLast, [Next]_vars
    PROVE  MinedLast'
<1>0. chainNonce \in Nat
  BY DEF TypeInv, NonceType
<1>1. CASE ~MineNext
  <2>1. chainNonce' = chainNonce
    BY <1>1, ExecuteSteps
  <2>2. \A t \in Txs : tx[t].state \in {"ok", "reverted"} =>
            tx'[t].state = tx[t].state /\ tx'[t].nonce = tx[t].nonce
    BY TxMoves
  <2> QED BY <2>1, <2>2 DEF MinedLast
<1>2. ASSUME NEW m \in Txs, Mine(m) PROVE MinedLast'
  <2>1. /\ tx'[m].state \in {"ok", "reverted"} /\ tx'[m].nonce = chainNonce
        /\ chainNonce' = chainNonce + 1
    BY <1>2, MineCases
  <2>2. tx'[m].nonce = chainNonce' - 1
    BY <1>0, <2>1
  <2> QED BY <2>1, <2>2 DEF MinedLast
<1> QED BY <1>1, <1>2 DEF MineNext

\* Without failing calls and evictions every send succeeds: the client's nonce is the next
\* one, and every receipt has an outcome.
LEMMA SendsSucceed ==
    ASSUME TypeInv, ChainInv, RowInv, NonceInv, MinedLast, [Next]_vars, faults' = 0, drops' = 0
    PROVE  /\ ~FilterError /\ ~RecordFailureError /\ ~SendLost /\ ~SendError /\ ~SendRefused
           /\ ~RecordSentError /\ ~PublishBadError
<1>0. faults = 0 /\ drops = 0 /\ ~Fault
  BY BoundsStep DEF TypeInv
<1>1. /\ ~RecordFailureError /\ ~SendLost /\ ~SendError /\ ~RecordSentError /\ ~PublishBadError
  BY <1>0 DEF RecordFailureError, SendLost, SendError, RecordSentError, PublishBadError
<1>2. ~FilterError
  <2> SUFFICES ASSUME FilterError PROVE FALSE
    OBVIOUS
  <2>1. /\ segment # <<>> /\ row[Current].tx # NoTx
        /\ tx[row[Current].tx].state = "ok" /\ ~Resolvable({Current}, row[Current].tx)
    BY <1>0 DEF FilterError
  <2>2. Current \in Events
    <3>1. LogType /\ segment[1] \in Good
      BY <2>1 DEF TypeInv, LoopType
    <3> QED BY <3>1, GoodEvent DEF Current
  <2>3. row[Current] \in Rows
    BY <2>2 DEF TypeInv, CoreType
  <2>4. PICK t \in Txs : t = row[Current].tx
    BY <2>1, <2>3 DEF Rows
  <2>5. Current \in Range(tx[t].events)
    BY <2>1, <2>2, <2>4 DEF RowInv, RowTx
  <2>6. Outcome(t, Current) # "unknown"
    BY <2>1, <2>4, <2>5, OutcomeFound
  <2> QED BY <2>1, <2>4, <2>6 DEF Resolvable
<1>3. ~SendRefused
  <2>0. chainNonce \in Nat /\ nonce \in Nat /\ \A t \in Txs : tx[t].nonce \in Nat
    BY DEF TypeInv, NonceType, TxType
  <2>1. SeededNonce >= chainNonce /\ PoolAt(SeededNonce) = {}
    <3>1. CASE nonce = 0
      <4>1. SeededNonce = PendingNonce
        BY <3>1 DEF SeededNonce
      <4> QED BY <2>0, <4>1, PendingNonceType
    <3>2. CASE nonce # 0
      <4>1. SeededNonce = nonce /\ \A t \in Txs : Live(t) => tx[t].nonce < nonce
        BY <1>0, <3>2 DEF SeededNonce, NonceInv, NonceNear
      <4>2. PoolAt(SeededNonce) = {}
        <5> SUFFICES ASSUME NEW t \in PoolAt(nonce) PROVE FALSE
          BY <4>1
        <5>1. t \in Txs /\ tx[t].nonce = nonce /\ Live(t)
          BY DEF PoolAt, Live
        <5> QED BY <2>0, <4>1, <5>1
      <4>3. nonce >= chainNonce
        <5>1. CASE chainNonce = 1
          BY <2>0, <3>2, <5>1
        <5>2. ASSUME NEW t \in Txs, tx[t].state \in {"ok", "reverted"}, tx[t].nonce = chainNonce - 1
              PROVE  nonce >= chainNonce
          <6>1. tx[t].nonce < nonce
            BY <4>1, <5>2 DEF Live
          <6> QED BY <2>0, <5>2, <6>1
        <5> QED BY <5>1, <5>2 DEF MinedLast
      <4> QED BY <4>1, <4>2, <4>3
    <3> QED BY <3>1, <3>2
  <2>2. SeededNonce \in Nat
    BY SeededNonceType DEF TypeInv
  <2> QED BY <2>0, <2>1, <2>2 DEF SendRefused
<1> QED BY <1>1, <1>2, <1>3

\* Order is only ever lost.
LEMMA OrderlyBefore ==
    ASSUME TypeInv, [Next]_vars, Orderly'
    PROVE  /\ Orderly /\ (CleanLog \/ (faults' = 0 /\ drops' = 0))
<1>1. log' = log /\ Messages' = Messages
  BY LogFixed
<1>2. faults' = 0 /\ drops' = 0 => faults = 0 /\ drops = 0
  BY BoundsStep DEF TypeInv
<1> QED BY <1>1, <1>2 DEF Orderly, CleanLog

\* In a clean log nothing is refused.
LEMMA CleanQueue ==
    ASSUME TypeInv, LoopOrder, CleanLog
    PROVE  badMsg = 0 /\ pc \notin {"dlq", "submitBad"}
<1>1. LogType /\ LoopType
  BY DEF TypeInv
<1>2. badMsg # 0 => badMsg \in Messages
  BY LoopNat DEF LoopType, Messages
<1>3. badMsg = 0
  BY <1>2 DEF LoopOrder, CleanLog, Parses
<1> QED BY <1>1, <1>3 DEF LoopType

LEMMA HeldType ==
    ASSUME TypeInv, LoopOrder
    PROVE  Held \subseteq Nat /\ \A q \in Held : q <= fetched
<1>1. /\ LogType /\ LoopType /\ batch \in Seq(Nat) /\ batcher \in Seq(Nat) /\ fetched \in Nat
      /\ badMsg \in Nat
  BY LoopNat
<1>2. /\ Range(batch) \subseteq Nat /\ \A q \in Range(batch) : q <= fetched
      /\ Range(batcher) \subseteq Nat /\ \A q \in Range(batcher) : q <= fetched
  BY <1>1 DEF LoopOrder, Within, Range
<1>3. badMsg # 0 => badMsg <= fetched
  BY <1>1 DEF LoopOrder
<1> QED BY <1>1, <1>2, <1>3 DEF Held

\* What the loop holds changes when it fetches a message, submits or is restarted. Where the
\* order is to be kept, a batch is given back only in a log without refused messages.
LEMMA HeldSteps ==
    ASSUME TypeInv, ChainInv, RowInv, NonceInv, MinedLast, LoopOrder, InOrder, [Next]_vars,
           CleanLog \/ (faults' = 0 /\ drops' = 0)
    PROVE  /\ \/ Held' = Held /\ fetched' = fetched
              \/ Held' = Held \union {fetched + 1} /\ fetched' = fetched + 1
              \/ Submit \/ SubmitBad \/ Escalate \/ Crash
           /\ pc' \in {"dlq", "submitBad"} => batcher' = <<>>
<1> DEFINE Kept == Held' = Held /\ fetched' = fetched
           Grown == Held' = Held \union {fetched + 1} /\ fetched' = fetched + 1
           Empty == pc' \in {"dlq", "submitBad"} => batcher' = <<>>
<1>0. LoopType /\ LogType /\ batcher \in Seq(Nat) /\ batch \in Seq(Nat) /\ fetched \in Nat
  BY LoopNat
<1>1. CASE LoopStays
  BY <1>1 DEF LoopStays, Held, InOrder
<1>2. pc = "poll" => batch = <<>> /\ badMsg = 0
  BY DEF LoopOrder, Working
<1>3. Range(<<>>) = {}
  BY DEF Range
<1>4. ASSUME NEW msgs, DrainSend(msgs), msgs # <<>> PROVE batcher' = <<>> /\ batch' = msgs /\ Empty
  BY <1>4 DEF DrainSend
<1>5. CASE FetchMessage
  <2> DEFINE msgs == Append(batcher, NextMsg)
  <2>1. Range(msgs) = Range(batcher) \union {NextMsg} /\ msgs # <<>> /\ NextMsg = fetched + 1
    <3>1. NextMsg \in Nat /\ NextMsg = fetched + 1
      BY <1>0 DEF NextMsg
    <3>2. /\ DOMAIN msgs = 1..(Len(batcher) + 1) /\ DOMAIN batcher = 1..Len(batcher)
          /\ Len(batcher) \in Nat /\ msgs[Len(batcher) + 1] = NextMsg
          /\ \A i \in 1..Len(batcher) : msgs[i] = batcher[i]
      BY <1>0, <3>1
    <3>3. \A i \in 1..(Len(batcher) + 1) : i \in 1..Len(batcher) \/ i = Len(batcher) + 1
      BY <3>2
    <3>4. \A i \in 1..Len(batcher) : i \in 1..(Len(batcher) + 1)
      BY <3>2
    <3>5. Len(batcher) + 1 \in 1..(Len(batcher) + 1)
      BY <3>2
    <3>6. msgs # <<>>
      <4>1. Len(msgs) = Len(batcher) + 1 /\ Len(<<>>) = 0
        BY <1>0, <3>1
      <4> HIDE DEF msgs
      <4> QED BY <3>2, <4>1
    <3> HIDE DEF msgs
    <3> QED BY <3>1, <3>2, <3>3, <3>4, <3>5, <3>6 DEF Range
  <2>2. pc = "poll" /\ fetched' = NextMsg /\ badMsg' = badMsg
    BY <1>5 DEF FetchMessage
  <2>3. CASE batcher' = msgs /\ UNCHANGED <<pc, sendVars>>
    <3>1. batch' = batch /\ pc' = pc
      BY <2>3 DEF sendVars
    <3> HIDE DEF msgs
    <3> QED BY <1>2, <1>3, <2>1, <2>2, <2>3, <3>1 DEF Held
  <2>4. CASE DrainSend(msgs)
    <3> HIDE DEF msgs
    <3>1. batcher' = <<>> /\ batch' = msgs /\ Empty
      BY <1>4, <2>1, <2>4
    <3> HIDE DEF Empty
    <3>2. Grown
      BY <1>2, <1>3, <2>1, <2>2, <3>1 DEF Held
    <3> QED BY <3>1, <3>2 DEF Empty
  <2> QED BY <1>5, <2>3, <2>4 DEF FetchMessage
<1>6. CASE FetchBad
  <2>1. /\ pc = "poll" /\ fetched' = fetched + 1 /\ badMsg' = fetched + 1 /\ badMsg' # 0
    BY <1>0, <1>6 DEF FetchBad, NextMsg
  <2>2. CASE batcher = <<>>
    <3>1. UNCHANGED <<batcher, batch>>
      BY <1>6, <2>2 DEF FetchBad, sendVars
    <3> QED BY <1>2, <2>1, <2>2, <3>1 DEF Held
  <2>3. CASE batcher # <<>>
    <3>1. batcher' = <<>> /\ batch' = batcher /\ Empty
      BY <1>4, <1>6, <2>3 DEF FetchBad
    <3> HIDE DEF Empty
    <3>2. Grown
      BY <1>2, <1>3, <2>1, <3>1 DEF Held
    <3> QED BY <3>1, <3>2 DEF Empty
  <2> QED BY <2>2, <2>3
<1>7. CASE Tick
  <2>1. pc = "poll" /\ fetched' = fetched /\ badMsg' = badMsg
    BY <1>7 DEF Tick
  <2>2. batcher' = <<>> /\ batch' = batcher /\ Empty
    BY <1>4, <1>7 DEF Tick
  <2> HIDE DEF Empty
  <2>3. Kept
    BY <1>2, <1>3, <2>1, <2>2 DEF Held
  <2> QED BY <2>2, <2>3 DEF Empty
<1>8. ASSUME UNCHANGED <<batch, batcher, badMsg, fetched>>, pc' \notin {"dlq", "submitBad"}
      PROVE  Kept /\ Empty
  BY <1>8 DEF Held
<1>9. ASSUME NEW msgs, BeginSegment(msgs) PROVE pc' \notin {"dlq", "submitBad"}
  BY <1>9 DEF BeginSegment
<1>10. ASSUME NEW n, AfterPrefix(n) PROVE pc' \notin {"dlq", "submitBad"}
  BY <1>9, <1>10 DEF AfterPrefix
<1>11. CASE FilterDuplicate \/ FilterPending \/ FilterSkip \/ FilterReconcile
  <2>1. UNCHANGED <<batch, batcher, badMsg, fetched>> /\ pc' = "filter"
    BY <1>11 DEF FilterDuplicate, FilterPending, FilterSkip, FilterReconcile, Filtering, loopVars
  <2> QED BY <1>8, <2>1
<1>12. CASE FilterDone
  <2>1. UNCHANGED <<batch, batcher, badMsg, fetched>> /\ pc' \notin {"dlq", "submitBad"}
    BY <1>9, <1>12 DEF FilterDone
  <2> QED BY <1>8, <2>1
<1>13. CASE SendFailed \/ RecordSent \/ SendCalldata
  <2>1. UNCHANGED <<batch, batcher, badMsg, fetched>> /\ pc' \notin {"dlq", "submitBad"}
    BY <1>10, <1>13 DEF SendFailed, RecordSent, SendCalldata, sendVars
  <2> QED BY <1>8, <2>1
<1>14. CASE PublishBad
  BY <1>14 DEF PublishBad, sendVars, Held, InOrder
<1>15. CASE FilterError \/ RecordFailureError \/ SendLost \/ SendError \/ SendRefused
            \/ RecordSentError
  <2>1. Unshift /\ Working
    BY <1>15 DEF FilterError, RecordFailureError, SendLost, SendError, SendRefused,
                 RecordSentError, Working
  <2>2. batcher = <<>> /\ badMsg = 0
    BY <1>15, <2>1, SendsSucceed, CleanQueue DEF LoopOrder
  <2>3. /\ batcher' = batch /\ batch' = <<>> /\ badMsg' = badMsg /\ fetched' = fetched
        /\ pc' = "poll"
    BY <1>0, <2>1, <2>2 DEF Unshift, EndSend
  <2> QED BY <1>3, <2>2, <2>3 DEF Held
<1>16. CASE PublishBadError
  BY <1>16, SendsSucceed, CleanQueue DEF PublishBadError
<1>17. CASE Submit
  <2>1. Working /\ batcher' = batcher
    BY <1>17 DEF Submit, Working
  <2> QED BY <1>17, <2>1 DEF LoopOrder
<1>18. CASE SubmitBad \/ Escalate \/ Crash
  BY <1>18 DEF SubmitBad, Escalate, Crash, Restart
<1> QED BY <1>1, <1>5, <1>6, <1>7, <1>8, <1>11, <1>12, <1>13, <1>14, <1>15, <1>16, <1>17, <1>18,
           OthersLeaveLoop DEF Next, Loop

\* The pipeline with one more batch.
LEMMA PipeAppends ==
    ASSUME TypeInv, NEW msgs, NEW txs, SubmitBatch(msgs, txs)
    PROVE  /\ committed' = committed
           /\ Len(pipe) \in Nat /\ Len(pipe') = Len(pipe) + 1
           /\ pipe'[Len(pipe) + 1].msgs = msgs
           /\ \A i \in 1..Len(pipe) : pipe'[i] = pipe[i]
           /\ \A i \in 1..Len(pipe') : i \in 1..Len(pipe) \/ i = Len(pipe) + 1
<1>1. pipe' = Append(pipe, [msgs |-> msgs, txs |-> txs]) /\ committed' = committed
  BY DEF SubmitBatch
<1>2. pipe \in Seq([msgs : Seq(Messages), txs : Seq(Txs)])
  BY DEF TypeInv, PipeType
<1>3. PICK b : b = [msgs |-> msgs, txs |-> txs]
  OBVIOUS
<1>4. pipe' = Append(pipe, b) /\ b.msgs = msgs
  BY <1>1, <1>3
<1>5. /\ Len(pipe) \in Nat /\ Len(pipe') = Len(pipe) + 1 /\ pipe'[Len(pipe) + 1] = b
      /\ \A i \in 1..Len(pipe) : pipe'[i] = pipe[i]
  BY <1>2, <1>4
<1> QED BY <1>1, <1>4, <1>5

\* A batch the loop holds joins the pipeline behind what is there and before what the loop
\* keeps.
LEMMA OrderSubmits ==
    ASSUME TypeInv, InOrder, NEW msgs \in Seq(Nat), NEW txs, SubmitBatch(msgs, txs),
           Held = Held' \union Range(msgs),
           \A q \in Held' : Under(msgs, q),
           fetched' = fetched, pc' \in {"dlq", "submitBad"} => batcher' = <<>>
    PROVE  InOrder'
<1>0. /\ committed' = committed
      /\ Len(pipe) \in Nat /\ Len(pipe') = Len(pipe) + 1
      /\ pipe'[Len(pipe) + 1].msgs = msgs
      /\ \A i \in 1..Len(pipe) : pipe'[i] = pipe[i]
      /\ \A i \in 1..Len(pipe') : i \in 1..Len(pipe) \/ i = Len(pipe) + 1
  BY PipeAppends
<1>1. \A k \in 1..Len(msgs) : msgs[k] \in Held
  BY DEF Range
<1>2. ASSUME NEW i \in 1..Len(pipe'), NEW j \in 1..Len(pipe'), i < j
      PROVE  Below(pipe'[i].msgs, pipe'[j].msgs)
  <2>1. i \in 1..Len(pipe) /\ pipe'[i] = pipe[i]
    BY <1>0, <1>2
  <2>2. CASE j \in 1..Len(pipe)
    BY <1>0, <1>2, <2>1, <2>2 DEF InOrder
  <2>3. CASE j = Len(pipe) + 1
    <3>1. Below(pipe[i].msgs, msgs)
      BY <1>1, <2>1 DEF InOrder, Under, Below
    <3> QED BY <1>0, <2>1, <2>3, <3>1
  <2> QED BY <1>0, <2>2, <2>3
<1>3. ASSUME NEW i \in 1..Len(pipe')
      PROVE  Above(pipe'[i].msgs, committed') /\ \A q \in Held' : Under(pipe'[i].msgs, q)
  <2>1. CASE i \in 1..Len(pipe)
    BY <1>0, <2>1 DEF InOrder
  <2>2. CASE i = Len(pipe) + 1
    <3>1. Above(msgs, committed)
      BY <1>1 DEF InOrder, Above
    <3> QED BY <1>0, <2>2, <3>1
  <2> QED BY <1>0, <2>1, <2>2
<1>4. ASSUME NEW p \in (committed' + 1)..fetched'
      PROVE  p \in Held' \/ \E i \in 1..Len(pipe') : p \in Range(pipe'[i].msgs)
  <2>1. p \in Held \/ \E i \in 1..Len(pipe) : p \in Range(pipe[i].msgs)
    BY <1>0, <1>4 DEF InOrder
  <2>2. CASE p \in Range(msgs)
    <3>1. Len(pipe) + 1 \in 1..Len(pipe')
      BY <1>0
    <3> QED BY <1>0, <2>2, <3>1
  <2>3. ASSUME NEW i \in 1..Len(pipe), p \in Range(pipe[i].msgs)
        PROVE  \E j \in 1..Len(pipe') : p \in Range(pipe'[j].msgs)
    <3>1. i \in 1..Len(pipe') /\ pipe'[i] = pipe[i]
      BY <1>0
    <3> QED BY <2>3, <3>1
  <2> QED BY <2>1, <2>2, <2>3
<1>5. \A q \in Held' : committed' < q
  BY <1>0 DEF InOrder
<1> QED BY <1>2, <1>3, <1>4, <1>5 DEF InOrder

\* The oldest batch leaves the pipeline, and the offset is that of its last message.
LEMMA OrderCommits ==
    ASSUME TypeInv, LoopOrder, PipeOrder, InOrder, CommitOffsets
    PROVE  InOrder'
<1> DEFINE first == pipe[1].msgs
           last == Len(first)
<1>0. /\ 1 \in 1..Len(pipe) /\ pipe' = Tail(pipe) /\ first \in Seq(Nat) /\ last \in 1..last
      /\ committed' = first[last] /\ UNCHANGED <<batcher, batch, badMsg, fetched, pc>>
      /\ Len(pipe) \in Nat /\ Len(pipe') = Len(pipe) - 1
      /\ \A i \in 1..Len(pipe') : i + 1 \in 1..Len(pipe) /\ pipe'[i] = pipe[i + 1]
      /\ \A i \in 1..Len(pipe) : i # 1 => i - 1 \in 1..Len(pipe') /\ pipe'[i - 1] = pipe[i]
  <2>1. /\ 1 \in 1..Len(pipe) /\ pipe' = Tail(pipe) /\ first \in Seq(Nat) /\ last \in 1..last
        /\ committed' = first[last] /\ UNCHANGED <<batcher, batch, badMsg, fetched, pc>>
    BY CommitsLast DEF LoopStays
  <2>2. pipe \in Seq([msgs : Seq(Messages), txs : Seq(Txs)])
    BY DEF TypeInv, PipeType
  <2>3. /\ Len(pipe) \in Nat /\ Len(pipe') = Len(pipe) - 1
        /\ \A i \in 1..Len(pipe') : i + 1 \in 1..Len(pipe) /\ pipe'[i] = pipe[i + 1]
    BY <2>1, <2>2
  <2>4. ASSUME NEW i \in 1..Len(pipe), i # 1
        PROVE  i - 1 \in 1..Len(pipe') /\ pipe'[i - 1] = pipe[i]
    <3>1. i - 1 \in 1..Len(pipe') /\ (i - 1) + 1 = i
      BY <2>3, <2>4
    <3> QED BY <2>3, <3>1
  <2> QED BY <2>1, <2>3, <2>4
<1>1. committed \in Nat /\ committed < committed' /\ committed' \in Nat
  <2>1. committed \in Nat
    BY LoopNat
  <2>2. first[last] \in Nat /\ committed < first[last]
    BY <1>0 DEF InOrder, Above
  <2> QED BY <1>0, <2>1, <2>2
<1>2. Held' = Held
  BY <1>0 DEF Held
<1>3. ASSUME NEW i \in 1..Len(pipe')
      PROVE  Above(pipe'[i].msgs, committed') /\ \A q \in Held' : Under(pipe'[i].msgs, q)
  <2>1. PICK k \in 1..Len(pipe) : k = i + 1 /\ pipe'[i] = pipe[k]
    BY <1>0
  <2>2. Below(first, pipe[k].msgs)
    <3>1. 1 < k
      BY <1>0, <2>1
    <3> QED BY <1>0, <2>1, <3>1 DEF InOrder
  <2>3. Above(pipe[k].msgs, committed')
    BY <1>0, <2>2 DEF Below, Above
  <2> QED BY <1>2, <2>1, <2>3 DEF InOrder
<1>4. ASSUME NEW i \in 1..Len(pipe'), NEW j \in 1..Len(pipe'), i < j
      PROVE  Below(pipe'[i].msgs, pipe'[j].msgs)
  <2>1. PICK k, l \in 1..Len(pipe) : k = i + 1 /\ pipe'[i] = pipe[k] /\ l = j + 1 /\ pipe'[j] = pipe[l]
    BY <1>0
  <2>2. k < l
    BY <1>0, <1>4, <2>1
  <2> QED BY <2>1, <2>2 DEF InOrder
<1>5. \A q \in Held' : committed' < q
  BY <1>0, <1>2 DEF InOrder, Under
<1>6. ASSUME NEW p \in (committed' + 1)..fetched'
      PROVE  p \in Held' \/ \E i \in 1..Len(pipe') : p \in Range(pipe'[i].msgs)
  <2>1. p \in (committed + 1)..fetched /\ committed' < p
    <3>1. fetched \in Nat
      BY LoopNat
    <3> QED BY <1>0, <1>1, <1>6, <3>1
  <2>2. CASE p \in Held
    BY <1>2, <2>2
  <2>3. ASSUME NEW i \in 1..Len(pipe), p \in Range(pipe[i].msgs)
        PROVE  \E j \in 1..Len(pipe') : p \in Range(pipe'[j].msgs)
    <3>1. i # 1
      <4> SUFFICES ASSUME i = 1 PROVE FALSE
        OBVIOUS
      <4>1. PICK k \in 1..last : p = first[k]
        BY <1>0, <2>3 DEF Range
      <4>2. Ascending(first) /\ first[k] \in Nat /\ first[last] \in Nat
        <5>1. Ascending(first)
          BY <1>0 DEF PipeOrder
        <5>2. \A m \in 1..Len(first) : first[m] \in Nat
          <6> HIDE DEF first
          <6> QED BY <1>0
        <5> QED BY <1>0, <5>1, <5>2
      <4>3. k = last \/ k < last
        BY <1>0
      <4>4. p <= committed'
        <5> HIDE DEF first
        <5>1. k < last => first[k] < first[last]
          BY <1>0, <4>2 DEF Ascending
        <5> QED BY <1>0, <4>1, <4>2, <4>3, <5>1
      <4> QED BY <1>1, <2>1, <4>1, <4>2, <4>4
    <3> QED BY <1>0, <2>3, <3>1
  <2> QED BY <2>1, <2>2, <2>3 DEF InOrder
<1> QED BY <1>0, <1>3, <1>4, <1>5, <1>6 DEF InOrder

LEMMA QueueOrderStep ==
    ASSUME TypeInv, ChainInv, RowInv, NonceInv, MinedLast, LoopOrder, PipeOrder, QueueOrder,
           [Next]_vars
    PROVE  QueueOrder'
<1> SUFFICES ASSUME Orderly' PROVE InOrder'
  BY DEF QueueOrder
<1>0. InOrder /\ (CleanLog \/ (faults' = 0 /\ drops' = 0))
  BY OrderlyBefore DEF QueueOrder
<1>1. /\ LogType /\ LoopType /\ PipeType /\ fetched \in Nat /\ committed \in Nat
      /\ batch \in Seq(Nat) /\ batcher \in Seq(Nat) /\ badMsg \in Nat
  BY LoopNat
<1>2. pc' \in {"dlq", "submitBad"} => batcher' = <<>>
  BY <1>0, HeldSteps
<1>3. Range(<<>>) = {}
  BY DEF Range
<1>4. CASE PipeStays /\ Held' = Held /\ fetched' = fetched
  BY <1>0, <1>2, <1>4 DEF PipeStays, InOrder
<1>5. CASE PipeStays /\ Held' = Held \union {fetched + 1} /\ fetched' = fetched + 1
  <2>1. ASSUME NEW i \in 1..Len(pipe) PROVE Under(pipe[i].msgs, fetched + 1)
    <3>1. pipe[i].msgs \in Seq(Nat) /\ Within(pipe[i].msgs, fetched)
      BY <1>1, BatchMessages DEF PipeOrder
    <3> QED BY <1>1, <3>1 DEF Within, Under
  <2>2. committed < fetched + 1
    BY <1>1 DEF PipeOrder
  <2>3. \A p \in (committed + 1)..(fetched + 1) : p \in (committed + 1)..fetched \/ p = fetched + 1
    BY <1>1
  <2> QED BY <1>0, <1>2, <1>5, <2>1, <2>2, <2>3 DEF PipeStays, InOrder
<1>6. CASE Submit
  <2>1. /\ SubmitBatch(batch, inflight) /\ batch' = <<>> /\ batcher' = batcher
        /\ badMsg' = badMsg /\ fetched' = fetched /\ Working
    BY <1>6 DEF Submit, EndSend, Working
  <2>2. batcher = <<>>
    BY <2>1 DEF LoopOrder
  <2>3. Held = Held' \union Range(batch) /\ Held' = {badMsg} \ {0}
    BY <1>3, <2>1, <2>2 DEF Held
  <2>4. badMsg # 0 => Under(batch, badMsg)
    <3> SUFFICES ASSUME badMsg # 0, NEW k \in 1..Len(batch) PROVE batch[k] < badMsg
      BY DEF Under
    <3>1. batch[k] <= badMsg /\ ~Parses(badMsg) /\ batch[k] \in Nat
      BY <1>1 DEF LoopOrder, Within
    <3>2. Parses(batch[k])
      BY <1>1 DEF LoopType, Good
    <3> QED BY <1>1, <3>1, <3>2
  <2> QED BY <1>0, <1>1, <1>2, <2>1, <2>3, <2>4, OrderSubmits
<1>7. CASE SubmitBad
  <2>1. /\ SubmitBatch(<<badMsg>>, <<>>) /\ UNCHANGED <<batch, batcher, fetched>>
        /\ badMsg' = 0 /\ pc = "submitBad" /\ ~Working
    BY <1>7 DEF SubmitBad, sendVars, Working
  <2>2. batch = <<>> /\ batcher = <<>> /\ badMsg # 0
    BY <1>0, <1>1, <2>1 DEF LoopOrder, InOrder, LoopType
  <2>3. PICK b \in Seq(Nat) : b = <<badMsg>>
    <3>1. <<badMsg>> \in Seq(Nat)
      BY <1>1
    <3> QED BY <3>1
  <2>4. Range(b) = {badMsg}
    BY <2>3 DEF Range
  <2>5. Held = Held' \union Range(b) /\ Held' = {}
    BY <1>3, <2>1, <2>2, <2>4 DEF Held
  <2>6. SubmitBatch(b, <<>>)
    BY <2>1, <2>3
  <2> QED BY <1>0, <1>2, <2>1, <2>5, <2>6, OrderSubmits
<1>8. CASE CommitOffsets
  BY <1>0, <1>8, OrderCommits
<1>9. CASE Escalate \/ Crash
  <2>1. /\ pipe' = <<>> /\ batch' = <<>> /\ batcher' = <<>> /\ badMsg' = 0
        /\ committed' = committed /\ fetched' = committed
    BY <1>9 DEF Escalate, Crash, Restart
  <2>2. Held' = {} /\ Len(pipe') = 0 /\ (committed' + 1)..fetched' = {}
    BY <1>1, <1>3, <2>1 DEF Held
  <2> QED BY <2>1, <2>2 DEF InOrder
<1> QED BY <1>0, <1>4, <1>5, <1>6, <1>7, <1>8, <1>9, HeldSteps, PipeSteps

LEMMA OffsetHandledStep ==
    ASSUME TypeInv, RowInv, LoopOrder, PipeOrder, PipeHandled, QueueOrder, OffsetHandled,
           [Next]_vars
    PROVE  OffsetHandled'
<1> SUFFICES ASSUME Orderly', NEW p \in 1..committed' PROVE Handled(p)'
  BY DEF OffsetHandled
<1>0. InOrder /\ \A q \in 1..committed : Handled(q)
  BY OrderlyBefore DEF QueueOrder, OffsetHandled
<1>1. /\ LogType /\ PipeType /\ LoopType /\ committed \in Nat /\ fetched \in Nat /\ Len(log) \in Nat
      /\ committed <= Len(log)
  <2>1. committed \in 0..Len(log)
    BY LoopNat DEF PipeType
  <2> QED BY <2>1, LoopNat
<1>2. ASSUME p \in 1..committed PROVE Handled(p)'
  <2>1. p \in Messages
    BY <1>1, <1>2 DEF Messages
  <2> QED BY <1>0, <1>2, <2>1, HandledStays
<1>3. CASE CommitOffsets /\ p \notin 1..committed
  <2>1. InOrder' /\ LoopStays /\ PipeOrder'
    BY <1>0, <1>3, OrderCommits, CommitsLast, PipeOrderStep
  <2>2. committed' \in Nat /\ committed' <= fetched
    <3>1. committed' = pipe[1].msgs[Len(pipe[1].msgs)] /\ Len(pipe[1].msgs) \in 1..Len(pipe[1].msgs)
          /\ pipe[1].msgs \in Seq(Nat)
      BY <1>3, CommitsLast
    <3>2. committed' \in Nat
      BY <3>1
    <3> QED BY <2>1, <3>2 DEF PipeOrder, LoopStays
  <2>3. p \in (committed + 1)..fetched
    BY <1>1, <1>3, <2>2
  <2>4. p \notin Held
    <3>1. Held' = Held
      BY <2>1 DEF LoopStays, Held
    <3>2. p \in Held => committed' < p
      BY <2>1, <3>1 DEF InOrder
    <3> QED BY <2>2, <3>2
  <2>5. PICK i \in 1..Len(pipe) : p \in Range(pipe[i].msgs)
    BY <1>0, <2>3, <2>4 DEF InOrder
  <2>6. Handled(p) /\ p \in Messages
    BY <1>1, <2>3, <2>5 DEF PipeHandled, Messages, LoopType
  <2> QED BY <2>6, HandledStays
<1>4. CASE ~CommitOffsets
  BY <1>2, <1>4, PipeSteps DEF PipeStays, Submit, SubmitBad, SubmitBatch, Escalate, Crash, Restart
<1> QED BY <1>2, <1>3, <1>4

\* The invariants of this section, with those they rest on.
OrderInv ==
    /\ TypeInv /\ ChainInv /\ RowInv /\ NonceInv
    /\ LoopOrder /\ PipeOrder /\ SendHandled /\ PipeHandled /\ MinedLast
    /\ QueueOrder /\ OffsetHandled

LEMMA OrderInit ==
    ASSUME Init, TypeInv
    PROVE  /\ LoopOrder /\ PipeOrder /\ SendHandled /\ PipeHandled /\ MinedLast
           /\ QueueOrder /\ OffsetHandled
<1>1. /\ batcher = <<>> /\ batch = <<>> /\ rest = <<>> /\ segment = <<>> /\ pending = <<>>
      /\ fetched = 0 /\ committed = 0 /\ badMsg = 0 /\ pc = "poll" /\ pipe = <<>>
      /\ chainNonce = 1
  BY DEF Init
<1>2. Len(pipe) = 0 /\ Range(<<>>) = {}
  BY <1>1 DEF Range
<1>3. LoopOrder
  BY <1>1, EmptyOrder DEF LoopOrder, Working
<1>4. PipeOrder /\ SendHandled /\ PipeHandled
  BY <1>1, <1>2 DEF PipeOrder, SendHandled, PipeHandled, Working
<1>5. Held = {}
  BY <1>1, <1>2 DEF Held
<1>6. QueueOrder /\ OffsetHandled
  BY <1>1, <1>2, <1>5 DEF QueueOrder, InOrder, OffsetHandled
<1> QED BY <1>1, <1>3, <1>4, <1>6 DEF MinedLast

LEMMA OrderStep ==
    ASSUME OrderInv, [Next]_vars
    PROVE  /\ LoopOrder' /\ PipeOrder' /\ SendHandled' /\ PipeHandled' /\ MinedLast'
           /\ QueueOrder' /\ OffsetHandled'
<1>1. /\ TypeInv /\ ChainInv /\ RowInv /\ NonceInv
      /\ LoopOrder /\ PipeOrder /\ SendHandled /\ PipeHandled /\ MinedLast
      /\ QueueOrder /\ OffsetHandled
  BY DEF OrderInv
<1>2. LoopOrder' /\ PipeOrder'
  BY <1>1, LoopOrderStep, PipeOrderStep DEF PipeOrder
<1>3. SendHandled' /\ PipeHandled'
  BY <1>1, SendHandledStep, PipeHandledStep
<1>4. MinedLast' /\ QueueOrder' /\ OffsetHandled'
  BY <1>1, MinedLastStep, QueueOrderStep, OffsetHandledStep
<1> QED BY <1>2, <1>3, <1>4

\* The loop, the pipeline and the offset keep the order of the log, and what is passed over
\* is handled.
THEOREM OrderInvCorrect == Spec => []OrderInv
<1> DEFINE Own == /\ LoopOrder /\ PipeOrder /\ SendHandled /\ PipeHandled /\ MinedLast
                  /\ QueueOrder /\ OffsetHandled
           Base == TypeInv /\ ChainInv /\ RowInv /\ NonceInv
<1>1. Init /\ TypeInv => Own
  BY OrderInit
<1>2. Base /\ Own /\ [Next]_vars => Own'
  BY OrderStep DEF OrderInv
<1>3. Spec => []Base
  BY TypeInvCorrect, ChainInvCorrect, RowInvCorrect, NonceInvCorrect, PTL
<1>4. Base => TypeInv
  OBVIOUS
<1>5. Base /\ Own => OrderInv
  BY DEF OrderInv
<1> QED
  <2> HIDE DEF Own, Base
  <2> QED BY <1>1, <1>2, <1>3, <1>4, <1>5, PTL DEF Spec

\* Committing an offset never loses an action, although offsets are committed per batch, and
\* batches without transactions, redelivered actions and restarts come in between: in a log
\* without messages that Parse refuses whatever fails, and in every log as long as no call fails
\* and nothing is evicted.
THEOREM ActionsAreNotSkipped == Spec => [](Orderly => NoActionSkipped)
<1>1. OrderInv => (Orderly => NoActionSkipped)
  BY DEF OrderInv, OffsetHandled, Handled, EventHandled, Parses, NoActionSkipped
<1> QED BY <1>1, OrderInvCorrect, PTL

\* As long as no call fails and nothing is evicted, neither an action nor a message Parse refused
\* is passed over.
THEOREM OffsetsAreInOrder == Spec => []OffsetsInOrder
<1>1. OrderInv => OffsetsInOrder
  BY DEF OrderInv, Orderly, OffsetHandled, Handled, EventHandled, Parses, OffsetsInOrder,
         NoActionSkipped, NoBadMessageSkipped
<1> QED BY <1>1, OrderInvCorrect, PTL

-----------------------------------------------------------------------------
(* The order of the actions on the chain *)

\* The action failed before it was sent, or its hash is that of an earlier transaction.
Past(e, u) ==
    \/ row[e].status = "FAILED" /\ row[e].tx = NoTx
    \/ row[e].tx # NoTx /\ row[e].tx < u

\* When an action is sent, those before it in the log are sent with it or are past.
SentInOrder ==
    Orderly => \A u \in Txs : \A f \in Range(tx[u].events) : \A e \in Events :
        Before(e, f) => e \in Range(tx[u].events) \/ Past(e, u)

\* Everything before a pending message is handled, or pending before it.
LEMMA PendingComesNext ==
    ASSUME OrderInv, Orderly, pc = "send", NEW i \in 1..Len(pending), NEW e \in Events,
           Before(e, log[pending[i]])
    PROVE  EventHandled(e) \/ \E j \in 1..Len(pending) : j < i /\ log[pending[j]] = e
<1>0. /\ TypeInv /\ LoopOrder /\ PipeOrder /\ SendHandled /\ PipeHandled /\ InOrder
      /\ \A q \in 1..committed : Handled(q)
  BY DEF OrderInv, QueueOrder, OffsetHandled
<1>1. /\ LogType /\ LoopType /\ PipeType /\ pending \in Seq(Nat) /\ rest \in Seq(Nat)
      /\ Messages \subseteq Nat /\ Len(pending) \in Nat
  <2>1. LogType /\ LoopType /\ PipeType
    BY <1>0 DEF TypeInv
  <2>2. pending \in Seq(Good) /\ rest \in Seq(Good)
    BY <2>1 DEF LoopType
  <2>3. pending \in Seq(Nat) /\ rest \in Seq(Nat) /\ Messages \subseteq Nat
    BY <2>1, <2>2, GoodNat
  <2> QED BY <2>1, <2>3
<1>2. fetched \in Nat /\ committed \in Nat /\ pending[i] \in Messages /\ pending[i] \in Nat
  <2>1. Len(log) \in Nat /\ fetched \in 0..Len(log) /\ committed \in 0..Len(log)
    BY <1>1, GoodNat DEF LoopType, PipeType
  <2>2. pending[i] \in Good
    BY <1>1 DEF LoopType
  <2> QED BY <1>1, <2>1, <2>2 DEF Good
<1>3. PICK p \in Messages : log[p] = e /\ p < pending[i]
  BY <1>2 DEF Before
<1>4. Parses(p) /\ p \in Nat /\ 1 <= p
  BY <1>1, <1>3, AdapterAssumption DEF Parses, Messages
<1>5. Handled(p) => EventHandled(e)
  BY <1>3, <1>4 DEF Handled
<1>6. p <= fetched
  <2>1. pending[i] <= fetched
    BY <1>0 DEF LoopOrder, Within
  <2> QED BY <1>2, <1>3, <1>4, <2>1
<1>7. CASE p <= committed
  <2>1. p \in 1..committed
    BY <1>2, <1>4, <1>7
  <2> QED BY <1>0, <1>5, <2>1
<1>8. CASE \E k \in 1..Len(pipe) : p \in Range(pipe[k].msgs)
  BY <1>0, <1>5, <1>8 DEF PipeHandled
<1>9. CASE p \in Held
  <2>1. Working /\ batcher = <<>> /\ segment = <<>>
    BY <1>0 DEF Working, LoopOrder, SendHandled
  <2>2. p # badMsg \/ badMsg = 0
    BY <1>0, <1>4 DEF LoopOrder
  <2>3. p \in Range(batch)
    BY <1>9, <2>1, <2>2 DEF Held, Range
  <2>4. p \notin Range(rest)
    <3> SUFFICES ASSUME NEW k \in 1..Len(rest), p = rest[k] PROVE FALSE
      BY <1>1 DEF Range
    <3>1. pending[i] < rest[k]
      BY <1>0 DEF LoopOrder, Below
    <3> QED BY <1>2, <1>3, <1>4, <3>1
  <2>5. p \notin Range(segment)
    BY <2>1 DEF Range
  <2>6. Handled(p) \/ \E j \in 1..Len(pending) : log[pending[j]] = log[p] /\ pending[j] <= p
    BY <1>0, <2>1, <2>3, <2>4, <2>5 DEF SendHandled
  <2>7. ASSUME NEW j \in 1..Len(pending), log[pending[j]] = log[p], pending[j] <= p
        PROVE  j < i /\ log[pending[j]] = e
    <3>1. pending[j] \in Nat /\ pending[j] < pending[i]
      <4>1. pending[j] \in Nat
        BY <1>1
      <4> QED BY <1>2, <1>3, <1>4, <2>7, <4>1
    <3>2. ~(i < j) /\ i # j
      BY <1>0, <1>2, <3>1 DEF LoopOrder, Ascending
    <3> QED BY <1>1, <1>3, <2>7, <3>2
  <2> QED BY <1>5, <2>6, <2>7
<1>10. CASE ~(p <= committed)
  <2>1. p \in (committed + 1)..fetched
    BY <1>2, <1>4, <1>6, <1>10
  <2> QED BY <1>0, <1>8, <1>9, <2>1 DEF InOrder
<1> QED BY <1>7, <1>10

\* A handled action is past for the next transaction.
LEMMA HandledIsPast ==
    ASSUME TypeInv, RowInv, NEW e \in Events, EventHandled(e)
    PROVE  \/ row[e].status = "FAILED" /\ row[e].tx = NoTx
           \/ row[e].tx \in Txs /\ row[e].tx <= ntx
<1>1. row[e] \in Rows /\ TxType
  BY DEF TypeInv, CoreType
<1>2. CASE row[e].tx = NoTx
  BY <1>2 DEF EventHandled, RowInv, RowShape
<1>3. CASE row[e].tx # NoTx
  <2>1. PICK t \in Txs : t = row[e].tx
    BY <1>1, <1>3 DEF Rows
  <2>2. e \in Range(tx[t].events)
    BY <1>3, <2>1 DEF RowInv, RowTx
  <2>3. tx[t].events # <<>>
    BY <2>2 DEF Range
  <2>4. t \in Nat /\ ntx \in Nat
    BY <1>1, AdapterAssumption DEF TxType, Txs
  <2>5. ~(t > ntx)
    BY <1>1, <2>3 DEF TxType
  <2> QED BY <2>1, <2>4, <2>5
<1> QED BY <1>2, <1>3

LEMMA SentInOrderStep ==
    ASSUME OrderInv, SentInOrder, [Next]_vars
    PROVE  SentInOrder'
<1> SUFFICES ASSUME Orderly', NEW u \in Txs, NEW f \in Range(tx'[u].events), NEW e \in Events,
                    Before(e, f)'
             PROVE  e \in Range(tx'[u].events) \/ Past(e, u)'
  BY DEF SentInOrder
<1>0. TypeInv /\ RowInv /\ Orderly
  BY OrderlyBefore DEF OrderInv
<1>1. Before(e, f)
  BY LogFixed DEF Before
<1>2. CASE tx[u].state # "none"
  <2>1. tx'[u].events = tx[u].events
    BY <1>0, <1>2, TxMoves
  <2>2. CASE Past(e, u)
    <3>1. CASE row[e].tx # NoTx
      BY <1>0, <2>2, <3>1, HashKept DEF Past
    <3>2. CASE row[e].tx = NoTx
      <4>1. row[e].status = "FAILED"
        BY <2>2, <3>2 DEF Past
      <4>2. row'[e] = row[e]
        BY <1>0, <3>2, <4>1, RowMoves DEF Marks, Settles
      <4> QED BY <3>2, <4>1, <4>2 DEF Past
    <3> QED BY <3>1, <3>2
  <2> QED BY <1>0, <1>1, <2>1, <2>2 DEF SentInOrder
<1>3. CASE tx[u].state = "none"
  <2>1. /\ u = ntx + 1 /\ row' = row /\ pc = "send" /\ ChunkLength \in 1..Len(pending)
        /\ \A i \in 1..ChunkLength : log[pending[i]] \in Range(tx'[u].events)
    BY <1>0, <1>3, NewTxPending
  <2>2. PICK i \in 1..ChunkLength : f = log[pending[i]]
    BY <1>0, <1>3, NewTxPending
  <2>3. Len(pending) \in Nat /\ ntx \in Nat
    BY <1>0 DEF TypeInv, LoopType, TxType
  <2>4. i \in 1..Len(pending)
    BY <2>1, <2>3
  <2>5. CASE EventHandled(e)
    <3>1. \/ row[e].status = "FAILED" /\ row[e].tx = NoTx
          \/ row[e].tx \in Txs /\ row[e].tx <= ntx
      BY <1>0, <2>5, HandledIsPast
    <3>2. CASE row[e].tx \in Txs /\ row[e].tx <= ntx
      <4>1. row[e].tx # NoTx /\ row[e].tx < u
        BY <2>1, <2>3, <3>2, AdapterAssumption DEF Txs, NoTx
      <4> QED BY <2>1, <4>1 DEF Past
    <3> QED BY <2>1, <3>1, <3>2 DEF Past
  <2>6. ASSUME NEW j \in 1..Len(pending), j < i, log[pending[j]] = e
        PROVE  e \in Range(tx'[u].events)
    <3>1. j \in 1..ChunkLength
      BY <2>1, <2>3, <2>6
    <3> QED BY <2>1, <2>6, <3>1
  <2> QED BY <1>0, <1>1, <2>1, <2>2, <2>4, <2>5, <2>6, PendingComesNext
<1> QED BY <1>2, <1>3

\* Actions are broadcast in the order of the log.
THEOREM SentInOrderCorrect == Spec => []SentInOrder
<1>1. Init => SentInOrder
  <2> SUFFICES ASSUME Init, NEW u \in Txs PROVE Range(tx[u].events) = {}
    BY DEF SentInOrder
  <2> QED BY DEF Init, NoTransaction, Range
<1>2. OrderInv /\ SentInOrder /\ [Next]_vars => SentInOrder'
  BY SentInOrderStep
<1> QED BY <1>1, <1>2, OrderInvCorrect, PTL DEF Spec

\* The chain executes actions in the order of the log, through crashes between the broadcast
\* and its record, lost answers, resent batches and nonces that are seeded again: as long as
\* the pool keeps what it has, in a log without messages Parse refuses or while no call fails.
THEOREM ChainKeepsOrder == Spec => [](drops = 0 /\ Orderly => KafkaOrder)
<1>1. ASSUME OrderInv, SentInOrder, drops = 0, Orderly PROVE KafkaOrder
  <2> SUFFICES ASSUME NEW e \in Events, NEW f \in Events, Executed(f), Before(e, f)
               PROVE  Executed(e) \/ Reverted(e) \/ row[e].status = "FAILED"
    BY DEF KafkaOrder
  <2>0. TypeInv /\ ChainInv /\ RowInv /\ NonceInv
    BY <1>1 DEF OrderInv
  <2>1. PICK t \in Txs : tx[t].state = "ok" /\ f \in Range(tx[t].events)
    BY DEF Executed
  <2>2. CASE e \in Range(tx[t].events)
    BY <2>1, <2>2 DEF Executed
  <2>3. CASE row[e].tx # NoTx /\ row[e].tx < t
    <3>1. PICK s \in Txs : s = row[e].tx
      <4>1. row[e] \in Rows
        BY <2>0 DEF TypeInv, CoreType
      <4> QED BY <2>3, <4>1 DEF Rows
    <3>2. Live(s) /\ e \in Range(tx[s].events)
      BY <1>1, <2>0, <2>3, <3>1 DEF NonceInv, RecordedNonce, RowInv, RowTx
    <3>3. tx[s].nonce < tx[t].nonce /\ tx[t].nonce < chainNonce
      BY <1>1, <2>0, <2>1, <2>3, <3>1, <3>2 DEF NonceInv, NonceOrder, Live, ChainInv, NonceSides
    <3>4. tx[s].nonce \in Nat /\ tx[t].nonce \in Nat /\ chainNonce \in Nat
      BY <2>0 DEF TypeInv, TxType, NonceType
    <3>5. tx[s].state # "pool"
      <4>1. tx[s].state = "pool" => tx[s].nonce >= chainNonce
        BY <2>0 DEF ChainInv, NonceSides
      <4> QED BY <3>3, <3>4, <4>1
    <3> QED BY <3>2, <3>5 DEF Live, Executed, Reverted
  <2> QED BY <1>1, <2>1, <2>2, <2>3 DEF SentInOrder, Past
<1>2. OrderInv /\ SentInOrder => (drops = 0 /\ Orderly => KafkaOrder)
  BY <1>1
<1> QED BY <1>2, OrderInvCorrect, SentInOrderCorrect, PTL
=============================================================================
