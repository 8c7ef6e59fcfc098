------------------------------- MODULE Custody -------------------------------
(***************************************************************************)
(* What the WMS promises to the ledger, whatever its handlers do: a product *)
(* passes the four signed stages one after the other, and every step of it  *)
(* is a batch of products of one stage moved together with the actions that *)
(* say so. Inbound and Outbound implement this specification.               *)
(***************************************************************************)
EXTENDS LedgerLog

CONSTANT From       \* the stage at which the products start

\* Inbound starts without products, outbound with products in storage.
ASSUME FromAssumption == From \in {0, PutAway}

VARIABLES
    held,   \* product -> the last signed stage it passed in the WMS, 0 when there is none
    log     \* the signed actions

vars == <<held, log>>

\* Products in storage were received, and their placement is on its way.
History ==
    IF From = 0 THEN << >>
    ELSE [k \in 1..Parts(Products) |-> [Signed(Receive, Products)[k] EXCEPT !.outcome = "COMMITTED"]]
             \o Signed(PutAway, Products)

Init == held = [p \in Products |-> From] /\ log = History

\* A batch of products passes the stage `type`.
Advance(type, items) ==
    /\ \A p \in items : held[p] = type - 1
    /\ held' = [p \in Products |-> IF p \in items THEN type ELSE held[p]]
    /\ log' = log \o Signed(type, items)

Settle == Settled(log, log') /\ UNCHANGED held

Next == Settle \/ \E type \in ActionTypes, items \in SUBSET Products : Advance(type, items)

Spec == Init /\ [][Next]_vars

-----------------------------------------------------------------------------

\* The contract rejects an action of the WMS for the stage of an item only when the item's
\* stage before failed: the WMS signs no stage twice and none out of order.
StagesAgree ==
    \A i \in DOMAIN log : log[i].outcome = "REJECTED" =>
        \E j \in 1..(i - 1) :
            /\ log[j].type = log[i].type - 1 /\ log[j].items \intersect log[i].items # {}
            /\ log[j].outcome \in {"FAILED", "REJECTED"}
=============================================================================
