------------------------------ MODULE LedgerLog ------------------------------
(***************************************************************************)
(* The signed warehouse actions as the WMS and the ledger share them: the   *)
(* actions of the outbox in the order of their commits, with the status the *)
(* adapter writes to onchain_events.                                        *)
(*                                                                         *)
(* The adapter takes the actions in this order (KafkaOrder of               *)
(* LedgerAdapter) and a row is COMMITTED only when the contract applied the *)
(* action (CommittedApplied), so the contract's status of an item is what   *)
(* the COMMITTED actions over it say. A row that is not settled is PENDING  *)
(* here, whether the adapter has seen it or not. The status FAILED of the   *)
(* code is split by its cause: REJECTED by the contract, because of the     *)
(* stage of an item; FAILED for a reason outside the WMS (a revoked key, a  *)
(* transaction that was reverted or never sent).                            *)
(***************************************************************************)
EXTENDS Integers, Sequences, FiniteSets

CONSTANTS
    Products,       \* products.product_id, ordered as SortByItemID orders them
    MaxItems,       \* MaxItemsPerAction
    MaxFailures     \* bound on the actions that fail for a reason outside the WMS

ASSUME LogAssumption ==
    /\ IsFiniteSet(Products) /\ Products \subseteq Nat
    /\ MaxItems \in Nat \ {0}
    /\ MaxFailures \in Nat

Receive == 1
PutAway == 2
Pick == 3
Ship == 4
ActionTypes == 1..4

Outcomes == {"PENDING", "COMMITTED", "FAILED", "REJECTED"}
Action == [type : ActionTypes, items : SUBSET Products, outcome : Outcomes]

\* The place of p among the items, as the draft sorts them.
Rank(items, p) == Cardinality({q \in items : q <= p})

\* NewOperation: the items in consecutive parts of at most MaxItems.
Part(items, k) == {p \in items : (k - 1) * MaxItems < Rank(items, p) /\ Rank(items, p) <= k * MaxItems}
Parts(items) == (Cardinality(items) + MaxItems - 1) \div MaxItems

\* WriteActions: one outbox row for each part.
Signed(type, items) ==
    [k \in 1..Parts(items) |-> [type |-> type, items |-> Part(items, k), outcome |-> "PENDING"]]

\* The stage `type` of product p is on the ledger.
OnLedger(log, type, p) ==
    \E i \in DOMAIN log : log[i].type = type /\ p \in log[i].items /\ log[i].outcome = "COMMITTED"

\* The contract applies an action when every item is at the stage before it.
AtStageBefore(log, type, p) ==
    (type = Receive \/ OnLedger(log, type - 1, p)) /\ ~OnLedger(log, type, p)

Verdict(log, i) ==
    IF \A p \in log[i].items : AtStageBefore(log, log[i].type, p) THEN "COMMITTED" ELSE "REJECTED"

\* Actions are settled in the order of the log.
NextToSettle(log, i) ==
    /\ i \in DOMAIN log /\ log[i].outcome = "PENDING"
    /\ \A j \in 1..(i - 1) : log[j].outcome # "PENDING"

Failures(log) == Cardinality({i \in DOMAIN log : log[i].outcome = "FAILED"})

Settled(log, log2) ==
    \E i \in DOMAIN log :
        /\ NextToSettle(log, i)
        /\ \E o \in {Verdict(log, i)} \union (IF Failures(log) < MaxFailures THEN {"FAILED"} ELSE {}) :
              log2 = [log EXCEPT ![i].outcome = o]
=============================================================================
