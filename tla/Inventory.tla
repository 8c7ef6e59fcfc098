------------------------------ MODULE Inventory ------------------------------
(***************************************************************************)
(* What the handlers of the WMS share: the products, the signed operations  *)
(* from the draft to the outbox, and the gate that asks the ledger about    *)
(* the stage before.                                                        *)
(*                                                                         *)
(* PostgreSQL runs at READ COMMITTED. The variables hold what is committed; *)
(* tx[r] holds where the transaction of request r is, the rows it has       *)
(* written and therefore locks to its end, and what it has decided from     *)
(* what it read. Handlers are split into steps where a statement may see    *)
(* another transaction's commit that an earlier one did not; what runs      *)
(* under a lock that orders it against every other writer of what it reads  *)
(* is one step. A handler that refuses changes nothing: it is a step only   *)
(* when it rolls back something. A draft is read in one step, since nobody  *)
(* sees it before its submission, which may come at any later time and      *)
(* checks everything again.                                                 *)
(*                                                                         *)
(* The signer's key is KeyLifecycle's subject: a submission whose key is    *)
(* refused is a submission that does not happen.                            *)
(***************************************************************************)
EXTENDS LedgerLog

CONSTANTS
    Requests,       \* requests running at the same time
    Ops,            \* operation ids
    None

VARIABLES
    status,         \* products.status, "NONE" when there is no row
    bin,            \* products.bin_id
    op,             \* warehouse_actions by operation: None or its draft
    submitted,      \* operations with submitted_at set
    log,            \* outbox_events and onchain_events
    tx              \* request -> its transaction

signedVars == <<op, submitted, log>>

ProductStatuses ==
    {"NONE", "RECEIVED", "STORED", "ALLOCATED", "ASSEMBLED", "READY_TO_SHIP", "SHIPPED"}

-----------------------------------------------------------------------------

\* InsertOperation: a draft with the items it will sign and where they go.
InsertOperation(o, type, by, items, target) ==
    /\ op[o] = None
    /\ op' = [op EXCEPT ![o] = [type |-> type, by |-> by, items |-> items, target |-> target]]

\* The action of item p: the operation and its part.
ActionOf(o, p) == <<o, (Rank(op[o].items, p) - 1) \div MaxItems + 1>>

\* warehouse_actions.item_ids of an action, and the actions that are submitted.
ItemIDs(a) == Part(op[a[1]].items, a[2])
AllActions == UNION {{o} \X (1..Parts(op[o].items)) : o \in submitted}

\* partItems of the audit: the chunk that starts at part * MaxItems of the sorted items.
PartItems(items, k) ==
    LET start == (k - 1) * MaxItems
        end == IF start + MaxItems < Cardinality(items) THEN start + MaxItems ELSE Cardinality(items) IN
    {p \in items : Rank(items, p) - 1 >= start /\ Rank(items, p) - 1 < end}

\* Operation: a submission loads a draft of its type that is not submitted.
Operation(o, type) == op[o] # None /\ op[o].type = type /\ o \notin submitted

\* LockOperation waits for another submission of the same operation.
LockOperation(r, o, type) ==
    Operation(o, type) /\ \A q \in Requests \ {r} : tx[q].op = o => tx[q].rows = {}

\* WriteActions: one outbox row for each part, and the operation is submitted.
WriteActions(o) ==
    /\ submitted' = submitted \union {o}
    /\ log' = log \o Signed(op[o].type, op[o].items)
    /\ UNCHANGED op

-----------------------------------------------------------------------------

\* CheckChainStatus: only a failed action of the stage blocks.
CheckChainStatus(items, type) ==
    \A i \in DOMAIN log :
        log[i].type = type /\ log[i].items \intersect items # {}
            => log[i].outcome \in {"PENDING", "COMMITTED"}

\* Seeded fault: an item counts as confirmed until its action failed.
UnconfirmedFailed(items, type) ==
    {p \in items : \E i \in DOMAIN log :
        log[i].type = type /\ p \in log[i].items /\ log[i].outcome \in {"FAILED", "REJECTED"}}

\* UnconfirmedProducts: the items whose stage is not COMMITTED.
UnconfirmedProducts(items, type) ==
    {p \in items : \A i \in DOMAIN log :
        log[i].type = type /\ p \in log[i].items => log[i].outcome # "COMMITTED"}
=============================================================================
