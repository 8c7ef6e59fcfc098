------------------------------ MODULE Shipping ------------------------------
(***************************************************************************)
(* Shipping: a dispatch is created, its driver is scanned at the gate, and  *)
(* products of a shipping buffer of its destination are loaded with a       *)
(* signed Ship, when the Pick of every one of them is on the ledger.        *)
(***************************************************************************)
EXTENDS Assembly

CONSTANTS
    Dispatches,             \* outbound_dispatches.dispatch_id
    DispatchDestination     \* dispatch -> destination

ASSUME ShippingAssumption ==
    None \notin Dispatches /\ DispatchDestination \in [Dispatches -> Destinations]

VARIABLES
    dispatch,       \* outbound_dispatches.status, "NONE" when there is no row
    shippedOn,      \* shippings.dispatch_id of the product
    shippedIn       \* shippings.action_id of the product

shippingVars == <<dispatch, shippedOn, shippedIn>>
stockVars == <<assemblyVars, shippingVars>>

DispatchStatuses == {"NONE", "SCHEDULED", "AT_GATE", "DEPARTED"}

\* A dispatch row that no other transaction has locked, and a bin row.
DispatchFree(r, v) == \A q \in Requests \ {r} : tx[q].step = "ship" => op[tx[q].op].target.dispatch # v
BinFree(r, b) == \A q \in Requests \ {r} : tx[q].step = "ship" => op[tx[q].op].target.bin # b

-----------------------------------------------------------------------------
(* Dispatches. *)

CreateNewDispatch(v) ==
    /\ dispatch[v] = "NONE"
    /\ dispatch' = [dispatch EXCEPT ![v] = "SCHEDULED"]
    /\ UNCHANGED <<assemblyVars, shippedOn, shippedIn, signedVars, tx>>

\* ScanDriver: a dispatch that is at the gate already is answered as it is.
UpdateDispatchToAtGate(v) ==
    dispatch[v] = "SCHEDULED" /\ dispatch' = [dispatch EXCEPT ![v] = "AT_GATE"]

ScanDriver(v) ==
    /\ UpdateDispatchToAtGate(v)
    /\ UNCHANGED <<assemblyVars, shippedOn, shippedIn, signedVars, tx>>

-----------------------------------------------------------------------------
(* The signed shipment. *)

\* Seeded fault: whatever the status.
ProductsInBin(b) == {p \in Products : bin[p] = b}

ProductsForShip(b) == {p \in Products : bin[p] = b /\ status[p] = "READY_TO_SHIP"}

GetDispatchByID(v) == dispatch[v]
GetBinWithDestinationByID(b) == BinDestination[b]

\* DraftShip takes the products it is given, or all of the buffer when it is given none.
DraftShip(r, o, b, v, items) ==
    /\ tx[r] = Idle
    /\ GetBinWithDestinationByID(b) = DispatchDestination[v]
    /\ GetDispatchByID(v) = "AT_GATE"
    /\ items # {} /\ items \subseteq ProductsForShip(b)
    /\ UnconfirmedProducts(items, Pick) = {}
    /\ InsertOperation(o, Ship, None, items, [bin |-> b, dispatch |-> v, orders |-> SignedOrders(items)])
    /\ UNCHANGED <<stockVars, submitted, log, tx>>

\* SubmitShip asks the ledger before its transaction begins.
CheckShip(r, o) ==
    /\ Operation(o, Ship)
    /\ UnconfirmedProducts(op[o].items, Pick) = {}
    /\ Begin(r, [Idle EXCEPT !.step = "confirmed", !.op = o])
    /\ UNCHANGED <<stockVars, signedVars>>

GetBufferBinForUpdate(r, b) == BinFree(r, b)
\* Seeded fault: the status the draft saw.
GetDispatchUnchecked(r, v) == DispatchFree(r, v)

GetDispatchForUpdate(r, v) == DispatchFree(r, v) /\ dispatch[v] = "AT_GATE"
LockProductsForShip(r, b, items) == ProductsFree(r, items) /\ items \subseteq ProductsForShip(b)

\* The first statement locks the orders of the items, behind another shipment of them; the
\* second decides which are complete now.
LockOrdersShipped(items) ==
    {o \in OrdersOf(items) : order[o] \in {"ALLOCATED", "ASSEMBLED", "PARTIALLY_SHIPPED"}}
UpdateOrdersShippedConditional(os, items) ==
    {o \in os : \A p \in ProductsOf(o) : p \in items \/ status[p] = "SHIPPED"}

\* What is left for the destination, in all of its buffers.
CountReadyToShipProductsInBuffer(b, items) ==
    Cardinality({p \in Products \ items :
        /\ status[p] = "READY_TO_SHIP" /\ bin[p] \in ShippingBins
        /\ BinDestination[bin[p]] = BinDestination[b]})

\* The transaction of the submission up to its last statement.
SubmitShip(r) ==
    LET o == tx[r].op
        items == op[o].items
        b == op[o].target.bin
        os == LockOrdersShipped(items) IN
    /\ tx[r].step = "confirmed"
    /\ GetBufferBinForUpdate(r, b)
    /\ GetDispatchForUpdate(r, op[o].target.dispatch)
    /\ LockProductsForShip(r, b, items)
    /\ LockOperation(r, o, Ship)
    /\ OrdersFree(r, os)
    /\ tx' = [tx EXCEPT ![r] =
         [@ EXCEPT !.step = "ship", !.rows = items, !.orders = os,
                   !.full = UpdateOrdersShippedConditional(os, items),
                   !.last = CountReadyToShipProductsInBuffer(b, items) = 0]]
    /\ UNCHANGED <<stockVars, signedVars>>

BatchUpdateProductsShipped(items) ==
    status' = [p \in Products |-> IF p \in items THEN "SHIPPED" ELSE status[p]]

\* One INSERT for each part.
BatchInsertShippings(o) ==
    /\ shippedOn' = [p \in Products |-> IF p \in op[o].items THEN op[o].target.dispatch ELSE shippedOn[p]]
    /\ shippedIn' = [p \in Products |-> IF p \in op[o].items THEN ActionOf(o, p) ELSE shippedIn[p]]

UpdateDispatchDeparted(r, v) ==
    dispatch' = IF tx[r].last THEN [dispatch EXCEPT ![v] = "DEPARTED"] ELSE dispatch

\* Seeded fault: a product that is shipped has no bin.
CommitShipClearsBin(r) ==
    LET o == tx[r].op
        items == op[o].items IN
    /\ tx[r].step = "ship"
    /\ BatchUpdateProductsShipped(items)
    /\ bin' = [p \in Products |-> IF p \in items THEN Storage ELSE bin[p]]
    /\ BatchInsertShippings(o)
    /\ order' = [x \in Orders |-> IF x \in tx[r].full THEN "SHIPPED"
                                  ELSE IF x \in tx[r].orders THEN "PARTIALLY_SHIPPED"
                                  ELSE order[x]]
    /\ UpdateDispatchDeparted(r, op[o].target.dispatch)
    /\ WriteActions(o)
    /\ tx' = [tx EXCEPT ![r] = Idle]
    /\ UNCHANGED <<orderOf, task, picker, unloadedIn>>

CommitShip(r) ==
    LET o == tx[r].op
        items == op[o].items IN
    /\ tx[r].step = "ship"
    /\ BatchUpdateProductsShipped(items)
    /\ BatchInsertShippings(o)
    /\ order' = [x \in Orders |-> IF x \in tx[r].full THEN "SHIPPED"
                                  ELSE IF x \in tx[r].orders THEN "PARTIALLY_SHIPPED"
                                  ELSE order[x]]
    /\ UpdateDispatchDeparted(r, op[o].target.dispatch)
    /\ WriteActions(o)
    /\ tx' = [tx EXCEPT ![r] = Idle]
    /\ UNCHANGED <<bin, orderOf, task, picker, unloadedIn>>

NextShipping ==
    \/ \E v \in Dispatches : CreateNewDispatch(v) \/ ScanDriver(v)
    \/ \E r \in Requests :
        \/ \E o \in Ops, b \in ShippingBins, v \in Dispatches, items \in SUBSET Products :
              DraftShip(r, o, b, v, items)
        \/ \E o \in Ops : CheckShip(r, o)
        \/ SubmitShip(r) \/ CommitShip(r)
=============================================================================
