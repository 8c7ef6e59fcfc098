------------------------------ MODULE Assembly ------------------------------
(***************************************************************************)
(* Assembly: orders are given stored products, operators pick them, and     *)
(* what an operator carries for a destination is unloaded into a shipping   *)
(* buffer of that destination with a signed Pick.                           *)
(***************************************************************************)
EXTENDS Inventory

CONSTANTS
    Orders,         \* orders.order_id, numbered in the order of created_at
    Destinations,
    DestinationOf,  \* order -> destination
    Skus,
    SkuOf,          \* product -> SKU
    Lines,          \* order -> SKU -> order_lines.qty, 0 when there is no line
    BatchLimit,     \* allocateOrderBatchLimit
    Operators,
    Storage,        \* a storage bin
    ShippingBins,   \* bins of section SHIPPING_BUFFER
    BinDestination  \* shipping bin -> destination

ASSUME AssemblyAssumption ==
    /\ IsFiniteSet(Orders) /\ Orders \subseteq Nat /\ BatchLimit \in Nat
    /\ DestinationOf \in [Orders -> Destinations] /\ BinDestination \in [ShippingBins -> Destinations]
    /\ SkuOf \in [Products -> Skus] /\ Lines \in [Orders -> [Skus -> Nat]]
    /\ None \notin Orders /\ None \notin Ops /\ None \notin Nat /\ None \notin Operators
    /\ None \notin Ops \X (Nat \ {0})
    /\ Storage \notin ShippingBins

VARIABLES
    order,          \* orders.status
    orderOf,        \* products.order_id
    task,           \* assembly_tasks.status of the product's task
    picker,         \* assembly_tasks.operator_id
    unloadedIn      \* assembly_tasks.action_id

assemblyVars == <<status, bin, order, orderOf, task, picker, unloadedIn>>

OrderStatuses == {"NEW", "ALLOCATED", "ASSEMBLED", "PARTIALLY_SHIPPED", "SHIPPED"}
TaskStatuses == {"NONE", "PENDING", "DONE"}

\* A request that runs nothing. items are the products a request is about; rows and orders
\* are the rows of products and orders that its transaction has locked; todo, seen, lack, plan
\* and short are Allocate's: the orders to come, the lines of the first of them that are looked
\* up and those that are short (items is what the others found), the order each product is
\* given, and the cache of stock seen in a shortage; full are the orders the transaction moves
\* as a whole, last says that it found the buffers empty.
Idle == [step |-> "idle", by |-> None, op |-> None, items |-> {}, rows |-> {}, orders |-> {}, todo |-> {},
         seen |-> {}, lack |-> {}, plan |-> [p \in Products |-> None], short |-> [s \in Skus |-> None], full |-> {}, last |-> FALSE]

Begin(r, t) == tx[r] = Idle /\ tx' = [tx EXCEPT ![r] = t]

\* Seeded fault: orders are not locked.
OrdersUnlocked(r, os) == TRUE

\* Rows of products and orders that no other transaction has locked.
ProductsFree(r, items) == \A q \in Requests \ {r} : tx[q].rows \intersect items = {}
OrdersFree(r, os) == \A q \in Requests \ {r} : tx[q].orders \intersect os = {}

\* The first n of a set of numbers.
Oldest(S, n) == {x \in S : Cardinality({y \in S : y < x}) < n}

ProductsOf(o) == {p \in Products : orderOf[p] = o}
OrdersOf(items) == {orderOf[p] : p \in items} \ {None}

-----------------------------------------------------------------------------
(* Allocation. *)

\* FOR UPDATE SKIP LOCKED: the oldest orders that nobody else is allocating.
GetOrdersByDestinationForUpdate(r, d) ==
    Oldest({o \in Orders : order[o] = "NEW" /\ DestinationOf[o] = d /\ OrdersFree(r, {o})}, BatchLimit)

GetOrderLinesByOrderIDs(o) == Lines[o]

\* Seeded fault: no lock on the products.
GetAllocateProductsUnlocked(r, s, qty) ==
    Oldest({p \in Products : /\ SkuOf[p] = s /\ status[p] = "STORED" /\ orderOf[p] = None
                             /\ tx[r].plan[p] = None}, qty)

\* FOR UPDATE SKIP LOCKED: the oldest products that nobody else has locked and that this
\* transaction has not given away.
GetAllocateProductsForSKU(r, s, qty) ==
    Oldest({p \in Products : /\ SkuOf[p] = s /\ status[p] = "STORED" /\ orderOf[p] = None
                             /\ tx[r].plan[p] = None /\ ProductsFree(r, {p})}, qty)

Allocate(r, d) ==
    LET os == GetOrdersByDestinationForUpdate(r, d) IN
    /\ os # {}
    /\ Begin(r, [Idle EXCEPT !.step = "allocate", !.orders = os, !.todo = os])
    /\ UNCHANGED <<assemblyVars, signedVars>>

\* Seeded fault: a shortage is noted as no stock at all.
NoStock(found) == 0

\* The stock the cache notes for a SKU of which too little was found.
ShortStock(found) == Cardinality(found)

\* allocateOrderTx, the loop over the lines of an order: a line the cache knows to be short is
\* not looked up, one that finds too little is noted in the cache. What was found stays locked.
AllocateLine(r) ==
    \E o \in tx[r].todo, s \in Skus :
    LET t == tx[r]
        qty == GetOrderLinesByOrderIDs(o)[s]
        known == t.short[s] # None /\ qty > t.short[s]
        found == IF known THEN {} ELSE GetAllocateProductsForSKU(r, s, qty)
        lacking == Cardinality(found) < qty
    IN
    /\ t.step = "allocate" /\ \A y \in t.todo : o <= y
    /\ qty > 0 /\ s \notin t.seen
    /\ tx' = [tx EXCEPT ![r] =
         [t EXCEPT !.seen = @ \union {s},
                   !.lack = IF lacking THEN @ \union {s} ELSE @,
                   !.rows = @ \union found,
                   !.items = IF lacking THEN @ ELSE @ \union found,
                   !.short = IF lacking /\ ~known THEN [@ EXCEPT ![s] = ShortStock(found)] ELSE @]]
    /\ UNCHANGED <<assemblyVars, signedVars>>

\* The stock of the cache that an order has used.
StockLeft(avail, qty) == IF avail < qty THEN 0 ELSE avail - qty

\* allocateOrderTx, behind the loop: an order is given all of its products or none.
AllocateOrderTx(r) ==
    \E o \in tx[r].todo :
    LET t == tx[r]
        lines == GetOrderLinesByOrderIDs(o)
        enough == t.lack = {}
    IN
    /\ t.step = "allocate" /\ \A y \in t.todo : o <= y
    /\ \A s \in Skus : lines[s] > 0 => s \in t.seen
    /\ tx' = [tx EXCEPT ![r] =
         [t EXCEPT !.todo = @ \ {o}, !.seen = {}, !.lack = {}, !.items = {},
                   !.plan = [p \in Products |-> IF enough /\ p \in t.items THEN o ELSE @[p]],
                   !.full = IF enough THEN @ \union {o} ELSE @,
                   !.short = [s \in Skus |-> IF enough /\ lines[s] > 0 /\ @[s] # None
                                             THEN StockLeft(@[s], lines[s]) ELSE @[s]]]]
    /\ UNCHANGED <<assemblyVars, signedVars>>

UpdateProductAllocated(r) ==
    /\ status' = [p \in Products |-> IF tx[r].plan[p] # None THEN "ALLOCATED" ELSE status[p]]
    /\ orderOf' = [p \in Products |-> IF tx[r].plan[p] # None THEN tx[r].plan[p] ELSE orderOf[p]]

BatchInsertAssemblyTasks(r) ==
    task' = [p \in Products |-> IF tx[r].plan[p] # None THEN "PENDING" ELSE task[p]]

UpdateOrderStatus(r, to) ==
    order' = [o \in Orders |-> IF o \in tx[r].full THEN to ELSE order[o]]

CommitAllocate(r) ==
    /\ tx[r].step = "allocate" /\ tx[r].todo = {}
    /\ UpdateProductAllocated(r)
    /\ BatchInsertAssemblyTasks(r)
    /\ UpdateOrderStatus(r, "ALLOCATED")
    /\ tx' = [tx EXCEPT ![r] = Idle]
    /\ UNCHANGED <<bin, picker, unloadedIn, signedVars>>

-----------------------------------------------------------------------------
(* Picking. *)

\* Pick asks the ledger before its transaction begins.
CheckPick(r, w, p) ==
    /\ CheckChainStatus({p}, PutAway)
    /\ Begin(r, [Idle EXCEPT !.step = "pick", !.by = w, !.items = {p}])
    /\ UNCHANGED <<assemblyVars, signedVars>>

GetPendingTaskByProductForUpdate(p) == task[p] = "PENDING"
GetProductByIDForUpdate(r, p) == ProductsFree(r, {p}) /\ status[p] = "ALLOCATED"

\* Seeded fault: the ids are swapped.
MarkTaskDoneSwapped(p, w) ==
    /\ task' = [task EXCEPT ![p] = "DONE"]
    /\ picker' = [picker EXCEPT ![p] = p]

MarkTaskDone(p, w) ==
    /\ task' = [task EXCEPT ![p] = "DONE"]
    /\ picker' = [picker EXCEPT ![p] = w]

SetProductAssembled(p) == status' = [status EXCEPT ![p] = "ASSEMBLED"]

PickProduct(r) ==
    /\ tx[r].step = "pick"
    /\ \E p \in tx[r].items :
          /\ GetPendingTaskByProductForUpdate(p)
          /\ GetProductByIDForUpdate(r, p)
          /\ MarkTaskDone(p, tx[r].by)
          /\ SetProductAssembled(p)
    /\ tx' = [tx EXCEPT ![r] = Idle]
    /\ UNCHANGED <<bin, order, orderOf, unloadedIn, signedVars>>

-----------------------------------------------------------------------------
(* Unloading. *)

GetShippingBufferBinByID(b) == b \in ShippingBins

\* What operator w carries for destination d.
OperatorBasket(w, d) ==
    {p \in Products : /\ picker[p] = w /\ task[p] = "DONE" /\ unloadedIn[p] = None
                      /\ status[p] = "ASSEMBLED" /\ orderOf[p] # None /\ DestinationOf[orderOf[p]] = d}

\* The orders of the items, which are a part of what is signed.
SignedOrders(items) == [p \in items |-> orderOf[p]]

DraftUnloadToShippingBuffer(r, o, w, b) ==
    LET items == OperatorBasket(w, BinDestination[b]) IN
    /\ tx[r] = Idle
    /\ GetShippingBufferBinByID(b)
    /\ items # {}
    /\ InsertOperation(o, Pick, w, items, [bin |-> b, orders |-> SignedOrders(items)])
    /\ UNCHANGED <<assemblyVars, submitted, log, tx>>

\* One UPDATE: the orders of the items whose products are, to this transaction, all in a
\* buffer. It waits for a row it would write.
UpdateOrdersToAssembled(items) ==
    {o \in OrdersOf(items) : /\ order[o] = "ALLOCATED"
                             /\ \A p \in ProductsOf(o) : p \in items \/ status[p] = "READY_TO_SHIP"}

\* Seeded fault: the basket is not compared with what was signed.
SubmitUnloadStale(r, o) ==
    LET items == op[o].items
        assembled == UpdateOrdersToAssembled(items) IN
    /\ Operation(o, Pick)
    /\ ProductsFree(r, items)
    /\ LockOperation(r, o, Pick)
    /\ OrdersFree(r, assembled)
    /\ Begin(r, [Idle EXCEPT !.step = "unload", !.op = o, !.rows = items,
                             !.orders = assembled, !.full = assembled])
    /\ UNCHANGED <<assemblyVars, signedVars>>

\* The transaction of the submission up to its last statement: the basket is locked and
\* compared with what was signed, the products are moved, the orders decided.
SubmitUnloadToShippingBuffer(r, o) ==
    LET items == op[o].items
        assembled == UpdateOrdersToAssembled(items) IN
    /\ Operation(o, Pick)
    /\ ProductsFree(r, OperatorBasket(op[o].by, BinDestination[op[o].target.bin]))
    /\ LockOperation(r, o, Pick)
    /\ OperatorBasket(op[o].by, BinDestination[op[o].target.bin]) = items
    /\ OrdersFree(r, assembled)
    /\ Begin(r, [Idle EXCEPT !.step = "unload", !.op = o, !.rows = items,
                             !.orders = assembled, !.full = assembled])
    /\ UNCHANGED <<assemblyVars, signedVars>>

MoveProductsToShippingBuffer(items, b) ==
    /\ status' = [p \in Products |-> IF p \in items THEN "READY_TO_SHIP" ELSE status[p]]
    /\ bin' = [p \in Products |-> IF p \in items THEN b ELSE bin[p]]

\* One UPDATE for each part, of tasks that are DONE and not stamped.
StampTaskUnload(o) ==
    unloadedIn' = [p \in Products |->
        IF /\ p \in op[o].items /\ picker[p] = op[o].by
           /\ task[p] = "DONE" /\ unloadedIn[p] = None
        THEN ActionOf(o, p) ELSE unloadedIn[p]]

CommitUnload(r) ==
    LET o == tx[r].op IN
    /\ tx[r].step = "unload"
    /\ MoveProductsToShippingBuffer(op[o].items, op[o].target.bin)
    /\ StampTaskUnload(o)
    /\ UpdateOrderStatus(r, "ASSEMBLED")
    /\ WriteActions(o)
    /\ tx' = [tx EXCEPT ![r] = Idle]
    /\ UNCHANGED <<orderOf, task, picker>>

NextAssembly ==
    \E r \in Requests :
        \/ \E d \in Destinations : Allocate(r, d)
        \/ AllocateLine(r) \/ AllocateOrderTx(r) \/ CommitAllocate(r)
        \/ \E w \in Operators, p \in Products : CheckPick(r, w, p)
        \/ PickProduct(r)
        \/ \E o \in Ops, w \in Operators, b \in ShippingBins : DraftUnloadToShippingBuffer(r, o, w, b)
        \/ \E o \in Ops : SubmitUnloadToShippingBuffer(r, o)
        \/ CommitUnload(r)
=============================================================================
