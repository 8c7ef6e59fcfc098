------------------------------ MODULE Outbound ------------------------------
(***************************************************************************)
(* Assembly and shipping of products that lie in storage, with the ledger   *)
(* settling the signed actions behind them.                                 *)
(***************************************************************************)
EXTENDS Shipping

vars == <<stockVars, signedVars, tx>>

\* The signed stage a product has passed in the WMS.
Stage == [s \in ProductStatuses |->
            CASE s = "NONE" -> 0
              [] s = "RECEIVED" -> Receive
              [] s \in {"STORED", "ALLOCATED", "ASSEMBLED"} -> PutAway
              [] s = "READY_TO_SHIP" -> Pick
              [] s = "SHIPPED" -> Ship]

C == INSTANCE Custody WITH held <- [p \in Products |-> Stage[status[p]]], From <- PutAway

Init ==
    /\ status = [p \in Products |-> "STORED"] /\ bin = [p \in Products |-> Storage]
    /\ order = [o \in Orders |-> "NEW"]
    /\ orderOf = [p \in Products |-> None]
    /\ task = [p \in Products |-> "NONE"] /\ picker = [p \in Products |-> None]
    /\ unloadedIn = [p \in Products |-> None] /\ shippedIn = [p \in Products |-> None]
    /\ dispatch = [v \in Dispatches |-> "NONE"] /\ shippedOn = [p \in Products |-> None]
    /\ op = [o \in Ops |-> None] /\ submitted = {} /\ log = C!History
    /\ tx = [r \in Requests |-> Idle]

\* A request is refused, a statement of it fails, or its client goes away: it is rolled back.
Abort(r) ==
    /\ tx[r] # Idle
    /\ tx' = [tx EXCEPT ![r] = Idle]
    /\ UNCHANGED <<stockVars, signedVars>>

\* The adapter and the contract: an action is settled, in the order of the outbox.
SettleOutbound == Settled(log, log') /\ UNCHANGED <<stockVars, op, submitted, tx>>

Next ==
    \/ NextAssembly /\ UNCHANGED shippingVars
    \/ NextShipping
    \/ \E r \in Requests : Abort(r)
    \/ SettleOutbound

Spec == Init /\ [][Next]_vars

-----------------------------------------------------------------------------

OrdersOfItems == UNION {[items -> Orders] : items \in SUBSET Products}
Draft == [type : {Pick}, by : Operators, items : SUBSET Products,
          target : [bin : ShippingBins, orders : OrdersOfItems]]
    \union [type : {Ship}, by : {None}, items : SUBSET Products,
            target : [bin : ShippingBins, dispatch : Dispatches, orders : OrdersOfItems]]
ActionIds == Ops \X (Nat \ {0})
Transaction ==
    [step : {"idle", "allocate", "pick", "unload", "confirmed", "ship"}, by : Operators \union {None},
     op : Ops \union {None}, items : SUBSET Products, rows : SUBSET Products, orders : SUBSET Orders,
     todo : SUBSET Orders, seen : SUBSET Skus, lack : SUBSET Skus, plan : [Products -> Orders \union {None}],
     short : [Skus -> Nat \union {None}], full : SUBSET Orders, last : BOOLEAN]

TypeOK ==
    /\ status \in [Products -> ProductStatuses]
    /\ bin \in [Products -> ShippingBins \union {Storage}]
    /\ order \in [Orders -> OrderStatuses]
    /\ orderOf \in [Products -> Orders \union {None}]
    /\ task \in [Products -> TaskStatuses] /\ picker \in [Products -> Operators \union {None}]
    /\ dispatch \in [Dispatches -> DispatchStatuses]
    /\ shippedOn \in [Products -> Dispatches \union {None}]
    /\ unloadedIn \in [Products -> ActionIds \union {None}]
    /\ shippedIn \in [Products -> ActionIds \union {None}]
    /\ op \in [Ops -> Draft \union {None}] /\ submitted \in SUBSET Ops
    /\ log \in Seq(Action)
    /\ tx \in [Requests -> Transaction]

\* An order has the products of its lines, all of them from its allocation on and none before:
\* concurrent allocations neither share a product nor give an order a part of it (Allocate,
\* SKIP LOCKED).
AllocationExact ==
    \A o \in Orders : \A s \in Skus :
        Cardinality({p \in ProductsOf(o) : SkuOf[p] = s}) = IF order[o] = "NEW" THEN 0 ELSE Lines[o][s]

\* An order is SHIPPED when all of its products are and PARTIALLY_SHIPPED when some are,
\* whatever shipments of it run at the same time (UpdateOrdersShippedConditional).
OrderStatusTrue ==
    \A o \in Orders :
        LET gone == {p \in ProductsOf(o) : status[p] = "SHIPPED"} IN
        gone # {} => order[o] = IF gone = ProductsOf(o) THEN "SHIPPED" ELSE "PARTIALLY_SHIPPED"

\* A product leaves the warehouse only with its whole history on the ledger: a putaway or a
\* pick that failed there is never followed by a shipment (UnconfirmedProducts).
ShippedIsConfirmed ==
    \A p \in Products : status[p] = "SHIPPED" => OnLedger(log, PutAway, p) /\ OnLedger(log, Pick, p)

\* What the ledger rejects follows from what failed there: the gates and the checks of the
\* submissions let no stage be signed twice or out of order (CheckChainStatus).
StagesAgree == C!StagesAgree

\* What the audit recomputes for an action from the tables of the WMS. The buffer is read
\* from where the products are now.
ShippingBufferBin(a) == {bin[p] : p \in ItemIDs(a)}
PickDetails(a) ==
    LET rows == {p \in Products : unloadedIn[p] = a} IN
    [operators |-> {picker[p] : p \in rows}, orders |-> {orderOf[p] : p \in rows}, bins |-> ShippingBufferBin(a)]
ShipDetails(a) ==
    LET rows == {p \in Products : shippedIn[p] = a} IN
    [dispatches |-> {shippedOn[p] : p \in rows}, orders |-> OrdersOf(ItemIDs(a)), bins |-> ShippingBufferBin(a)]
DomainItems(a) == {p \in Products : a \in {unloadedIn[p], shippedIn[p]}}

\* The checks of an action that was applied: what is recomputed is what was signed.
CheckDetailsHash(a) ==
    LET d == op[a[1]]
        orders == {d.target.orders[p] : p \in ItemIDs(a)} IN
    IF d.type = Pick THEN PickDetails(a) = [operators |-> {d.by}, orders |-> orders, bins |-> {d.target.bin}]
    ELSE ShipDetails(a) = [dispatches |-> {d.target.dispatch}, orders |-> orders, bins |-> {d.target.bin}]
CheckItems(a) == DomainItems(a) = ItemIDs(a)

\* Whenever the audit looks, what it recomputes is what was signed: a shipment does not
\* disturb what the audit reads about the pick before it, and no task or row is stamped
\* by another operation.
AuditClean == \A a \in AllActions : CheckDetailsHash(a) /\ CheckItems(a)

\* A product goes to the destination that ordered it, on the buffer and on the dispatch.
RightDestination ==
    \A p \in Products :
        /\ status[p] \in {"READY_TO_SHIP", "SHIPPED"} => BinDestination[bin[p]] = DestinationOf[orderOf[p]]
        /\ shippedOn[p] # None => DispatchDestination[shippedOn[p]] = DestinationOf[orderOf[p]]

\* Nothing is loaded twice or on a dispatch that is not at the gate (GetDispatchForUpdate), and
\* a dispatch departs from the gate only in a step that loads it (UpdateDispatchDeparted).
LoadedAtGate ==
    [][/\ \A p \in Products : shippedOn'[p] # shippedOn[p] =>
             shippedOn[p] = None /\ dispatch[shippedOn'[p]] = "AT_GATE"
       /\ \A v \in Dispatches : dispatch'[v] = "DEPARTED" /\ dispatch[v] # "DEPARTED" =>
             \E p \in Products : shippedOn[p] = None /\ shippedOn'[p] = v]_vars

\* Assembly and shipping implement Custody.
ImplementsCustody == C!Spec

-----------------------------------------------------------------------------
(* Allocation under fairness. *)

Fillable(o) ==
    \A s \in Skus :
        Lines[o][s] <= Cardinality({p \in Products : SkuOf[p] = s /\ status[p] = "STORED" /\ orderOf[p] = None})

Allocating(r) == tx[r].step = "allocate"

\* Allocate is called again and again; from some time on its calls do not overlap, whatever
\* their destinations, and are not aborted half way; any other request ends. The code does not
\* keep calls apart: that they do not overlap for ever is assumed of the operators.
FairCalls ==
    /\ \A r \in Requests :
          /\ \A d \in Destinations : SF_vars(Allocate(r, d) /\ UNCHANGED shippingVars)
          /\ SF_vars(AllocateLine(r) /\ UNCHANGED shippingVars)
          /\ SF_vars(AllocateOrderTx(r) /\ UNCHANGED shippingVars)
          /\ SF_vars(CommitAllocate(r) /\ UNCHANGED shippingVars)
          /\ WF_vars(Abort(r))
    /\ <>[][\A r \in Requests : Allocating(r) /\ tx'[r] = Idle => CommitAllocate(r)]_vars

CallsApart == <>[](\A q, r \in Requests : Allocating(q) /\ Allocating(r) => q = r)

FairSpec == Spec /\ FairCalls /\ CallsApart

\* Repeated allocations get to every order the stock can fill: no order waits for ever beside
\* the stock for it, neither behind orders that cannot be filled nor because of the cache of
\* shortages (Allocate, allocateCache) nor of what calls that overlapped have left. It holds
\* when a batch can take all orders of a destination, and fails when BatchLimit orders that
\* cannot be filled are in front, and without CallsApart (see the README).
RemainderAllocated == \A o \in Orders : [](Fillable(o) => <>(order[o] # "NEW" \/ ~Fillable(o)))

-----------------------------------------------------------------------------
(* What the documents say and TLC refutes: see the README. *)

Quiet == \A r \in Requests : tx[r] = Idle

\* An order whose products all are in the buffers is ASSEMBLED. Two unloads of its last
\* products that run at the same time leave it ALLOCATED (UpdateOrdersToAssembled).
AssembledWhenReady ==
    Quiet => \A o \in Orders : order[o] = "ALLOCATED" => \E p \in ProductsOf(o) : status[p] # "READY_TO_SHIP"

\* When a destination's buffers are empty after a loading, a dispatch of it has departed. Two
\* loadings of it that run at the same time leave both dispatches at the gate
\* (CountReadyToShipProductsInBuffer).
DepartedWhenEmpty ==
    Quiet => \A p \in Products : shippedOn[p] # None =>
        LET d == DispatchDestination[shippedOn[p]] IN
        \/ \E q \in Products : status[q] = "READY_TO_SHIP" /\ BinDestination[bin[q]] = d
        \/ \E v \in Dispatches : dispatch[v] = "DEPARTED" /\ DispatchDestination[v] = d
=============================================================================
