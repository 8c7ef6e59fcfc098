---------------------------- MODULE OutboundProofs ----------------------------
(***************************************************************************)
(* Theorems about Outbound, for any orders, products and dispatches and    *)
(* any number of requests: its types, that every order gets exactly what   *)
(* it asked for and has the status its products have, that every product   *)
(* goes to the destination that ordered it, that nothing leaves            *)
(* unconfirmed, that it implements Custody, that ledger and WMS therefore  *)
(* agree, and that the audit recomputes what was signed.                   *)
(***************************************************************************)
EXTENDS Outbound, LedgerLogProofs

USE DEF Receive, PutAway, Pick, Ship, ActionTypes

-----------------------------------------------------------------------------
(* The parts of an operation. *)

\* The action that holds an item of a draft.
LEMMA ActionOfType ==
    ASSUME NEW o \in Ops, NEW p \in op[o].items, op[o].items \in SUBSET Products
    PROVE  ActionOf(o, p) \in ActionIds
<1>1. (Rank(op[o].items, p) - 1) \div MaxItems \in Nat
  BY PartOf
<1> QED BY <1>1 DEF ActionOf, ActionIds

-----------------------------------------------------------------------------
(* The inductive invariant. *)

\* What a transaction has locked, and what it may rely on until it commits: an allocation has
\* products that are still free, an unload what it will move, a shipment what lies in the
\* buffer of its draft.
Own(t) ==
    /\ t.step \in {"unload", "confirmed", "ship"} => t.op \in Ops /\ op[t.op] # None
    /\ t.step \notin {"allocate", "unload", "ship"} => t.rows = {}
    /\ \A p \in Products : t.plan[p] # None => t.step = "allocate" /\ p \in t.rows
    /\ t.step = "allocate" => t.items \subseteq t.rows /\ \A p \in t.rows : status[p] = "STORED"
    /\ t.step = "unload" =>
          /\ op[t.op].type = Pick /\ t.rows = op[t.op].items
          /\ \A p \in t.rows : /\ status[p] = "ASSEMBLED"
                               /\ DestinationOf[orderOf[p]] = BinDestination[op[t.op].target.bin]
    /\ t.step = "ship" =>
          /\ op[t.op].type = Ship /\ t.rows = op[t.op].items
          /\ \A p \in t.rows : status[p] = "READY_TO_SHIP" /\ bin[p] = op[t.op].target.bin
          /\ dispatch[op[t.op].target.dispatch] = "AT_GATE"

\* No two transactions have locked the same product or the same dispatch.
Apart(t, u) ==
    /\ t.rows \intersect u.rows = {}
    /\ t.step = "ship" /\ u.step = "ship" => op[t.op].target.dispatch # op[u.op].target.dispatch

Locks == \A r \in Requests : Own(tx[r]) /\ \A q \in Requests \ {r} : Apart(tx[r], tx[q])

\* A product is in storage or belongs to an order, and it is on a dispatch when it is shipped.
Stock ==
    \A p \in Products :
        /\ status[p] \in {"STORED", "ALLOCATED", "ASSEMBLED", "READY_TO_SHIP", "SHIPPED"}
        /\ status[p] = "STORED" <=> orderOf[p] = None
        /\ shippedOn[p] # None => status[p] = "SHIPPED"

\* An operation is about something, and a shipment is drafted for a buffer and a dispatch of
\* one destination.
Drafts ==
    \A o \in Ops : op[o] # None =>
        /\ op[o].items # {}
        /\ op[o].type = Ship =>
              BinDestination[op[o].target.bin] = DispatchDestination[op[o].target.dispatch]

Inv == TypeOK /\ Locks /\ Stock /\ Drafts /\ RightDestination

\* The parts of an operation are those of Custody.
LEMMA SameCardinality ==
    ASSUME NEW S
    PROVE  C!Cardinality(S) = Cardinality(S)
  BY DEF C!Cardinality, Cardinality

LEMMA SameSigned ==
    ASSUME NEW type, NEW items
    PROVE  C!Signed(type, items) = Signed(type, items)
  BY SameCardinality DEF C!Signed, C!Parts, C!Part, C!Rank, Signed, Parts, Part, Rank

LEMMA HistoryType == C!History \in Seq(Action)
<1> DEFINE n == Parts(Products)
           s1 == Signed(Receive, Products)
           s2 == Signed(PutAway, Products)
           h == [k \in 1..n |-> [s1[k] EXCEPT !.outcome = "COMMITTED"]]
<1>1. C!History = h \o s2
  <2>1. C!Parts(Products) = n
    BY SameCardinality DEF C!Parts, Parts
  <2>2. C!Signed(1, Products) = s1 /\ C!Signed(2, Products) = s2
    BY SameSigned
  <2>3. C!History = [k \in 1..C!Parts(Products) |-> [C!Signed(1, Products)[k] EXCEPT !.outcome = "COMMITTED"]]
                        \o C!Signed(2, Products)
    BY DEF C!History, C!PutAway, C!Receive
  <2> HIDE DEF n, s1, s2
  <2> QED BY <2>1, <2>2, <2>3, Zenon
<1>2. s1 \in Seq(Action) /\ s2 \in Seq(Action)
  BY SignedType
<1>3. n \in Nat /\ DOMAIN s1 = 1..n
  BY PartsType DEF Signed
<1> HIDE DEF n, s1, s2
<1>4. \A k \in 1..n : s1[k] \in Action
  BY <1>2, <1>3
<1>5. \A k \in 1..n : [s1[k] EXCEPT !.outcome = "COMMITTED"] \in Action
  BY <1>4 DEF Action, Outcomes
<1>6. h \in Seq(Action)
  BY <1>3, <1>5
<1> HIDE DEF h
<1> QED BY <1>1, <1>2, <1>6

LEMMA IdleType == Idle \in Transaction
  BY AssemblyAssumption DEF Idle, Transaction

LEMMA IdleOwn == Own(Idle)
  BY DEF Own, Idle

LEMMA InitInv == Init => Inv
<1> SUFFICES ASSUME Init PROVE Inv
  OBVIOUS
<1>1. log \in Seq(Action)
  BY HistoryType DEF Init
<1>2. TypeOK
  BY <1>1, IdleType DEF Init, TypeOK, ProductStatuses, OrderStatuses, TaskStatuses, DispatchStatuses
<1>3. Locks
  BY IdleOwn DEF Init, Locks, Apart, Idle
<1>4. Stock /\ Drafts /\ RightDestination
  BY DEF Init, Stock, Drafts, RightDestination
<1> QED BY <1>2, <1>3, <1>4 DEF Inv

-----------------------------------------------------------------------------
(* Steps that only change what a transaction has locked. *)

LEMMA LockStep ==
    ASSUME Inv, NEW r \in Requests, NEW t \in Transaction, tx' = [tx EXCEPT ![r] = t],
           UNCHANGED <<stockVars, signedVars>>,
           Own(t), \A q \in Requests \ {r} : Apart(t, tx[q])
    PROVE  Inv'
<1> USE DEF stockVars, assemblyVars, shippingVars, signedVars, Inv
<1>1. TypeOK'
  BY DEF TypeOK
<1>2. tx'[r] = t /\ \A q \in Requests \ {r} : tx'[q] = tx[q]
  BY DEF TypeOK
<1>3. Locks'
  <2>1. ASSUME NEW q \in Requests PROVE Own(tx[q])'
    <3>1. CASE q = r
      BY <1>2, <3>1 DEF Own
    <3>2. CASE q # r
      BY <1>2, <3>2 DEF Own, Locks
    <3> QED BY <3>1, <3>2
  <2>2. ASSUME NEW q \in Requests, NEW z \in Requests \ {q} PROVE Apart(tx[q], tx[z])'
    <3>1. CASE q = r
      BY <1>2, <3>1 DEF Apart
    <3>2. CASE q # r /\ z = r
      BY <1>2, <3>2 DEF Apart
    <3>3. CASE q # r /\ z # r
      <4>1. Apart(tx[q], tx[z])
        BY DEF Locks
      <4> QED BY <1>2, <3>3, <4>1 DEF Apart
    <3> QED BY <3>1, <3>2, <3>3
  <2> QED BY <2>1, <2>2 DEF Locks
<1>4. Stock' /\ Drafts' /\ RightDestination'
  BY DEF Stock, Drafts, RightDestination
<1> QED BY <1>1, <1>3, <1>4

\* A product that a transaction has locked stays as it is when another one commits.
LEMMA CommitLocks ==
    ASSUME Inv, TypeOK', NEW r \in Requests, NEW S \in SUBSET Products, tx' = [tx EXCEPT ![r] = Idle], UNCHANGED op,
           \A p \in Products \ S : status'[p] = status[p] /\ bin'[p] = bin[p] /\ orderOf'[p] = orderOf[p],
           \A q \in Requests \ {r} : tx[q].rows \intersect S = {},
           \A q \in Requests \ {r} : tx[q].step = "ship" =>
               dispatch'[op[tx[q].op].target.dispatch] = dispatch[op[tx[q].op].target.dispatch]
    PROVE  Locks'
<1>1. tx'[r] = Idle /\ \A q \in Requests \ {r} : tx'[q] = tx[q]
  BY DEF Inv, TypeOK
<1>2. ASSUME NEW q \in Requests PROVE Own(tx[q])'
  <2>1. CASE q = r
    BY <1>1, <2>1 DEF Own, Idle
  <2>2. CASE q # r
    <3>1. tx'[q] = tx[q] /\ Own(tx[q])
      BY <1>1, <2>2 DEF Inv, Locks
    <3>2. \A p \in tx[q].rows : p \in Products \ S
      BY <2>2 DEF Inv, TypeOK, Transaction
    <3>3. \A p \in tx[q].rows : status'[p] = status[p] /\ bin'[p] = bin[p] /\ orderOf'[p] = orderOf[p]
      BY <3>2
    <3> QED BY <2>2, <3>1, <3>3 DEF Own
  <2> QED BY <2>1, <2>2
<1>3. ASSUME NEW q \in Requests, NEW z \in Requests \ {q} PROVE Apart(tx[q], tx[z])'
  <2>1. CASE q = r \/ z = r
    BY <1>1, <2>1 DEF Apart, Idle
  <2>2. CASE q # r /\ z # r
    <3>1. Apart(tx[q], tx[z])
      BY DEF Inv, Locks
    <3> QED BY <1>1, <2>2, <3>1 DEF Apart
  <2> QED BY <2>1, <2>2
<1> QED BY <1>2, <1>3 DEF Locks

\* A request ends with nothing done.
LEMMA AbortInv ==
    ASSUME Inv, NEW r \in Requests, Abort(r)
    PROVE  Inv'
  BY LockStep, IdleType, IdleOwn DEF Abort, Apart, Idle

LEMMA AllocateInv ==
    ASSUME Inv, NEW r \in Requests, NEW d \in Destinations, Allocate(r, d), UNCHANGED shippingVars
    PROVE  Inv'
<1> DEFINE os == GetOrdersByDestinationForUpdate(r, d)
           t == [Idle EXCEPT !.step = "allocate", !.orders = os, !.todo = os]
<1>1. os \subseteq Orders
  BY DEF GetOrdersByDestinationForUpdate, Oldest
<1>2. t \in Transaction /\ t.step = "allocate" /\ t.rows = {} /\ t.items = {}
      /\ t.plan = [p \in Products |-> None]
  <2> HIDE DEF os
  <2> QED BY <1>1, IdleType DEF Idle, Transaction
<1>3. tx' = [tx EXCEPT ![r] = t] /\ UNCHANGED <<stockVars, signedVars>>
  BY DEF Allocate, Begin, stockVars
<1> HIDE DEF t
<1>4. Own(t)
  BY <1>2 DEF Own
<1>5. \A q \in Requests \ {r} : Apart(t, tx[q])
  BY <1>2 DEF Apart
<1> QED BY <1>2, <1>3, <1>4, <1>5, LockStep

LEMMA CheckPickInv ==
    ASSUME Inv, NEW r \in Requests, NEW w \in Operators, NEW p \in Products, CheckPick(r, w, p),
           UNCHANGED shippingVars
    PROVE  Inv'
<1> DEFINE t == [Idle EXCEPT !.step = "pick", !.by = w, !.items = {p}]
<1>1. t \in Transaction /\ t.step = "pick" /\ t.rows = {} /\ t.plan = [q \in Products |-> None]
  BY IdleType DEF Idle, Transaction
<1>2. tx' = [tx EXCEPT ![r] = t] /\ UNCHANGED <<stockVars, signedVars>>
  BY DEF CheckPick, Begin, stockVars
<1> HIDE DEF t
<1>3. Own(t)
  BY <1>1 DEF Own
<1>4. \A q \in Requests \ {r} : Apart(t, tx[q])
  BY <1>1 DEF Apart
<1> QED BY <1>1, <1>2, <1>3, <1>4, LockStep

LEMMA CheckShipInv ==
    ASSUME Inv, NEW r \in Requests, NEW o \in Ops, CheckShip(r, o)
    PROVE  Inv'
<1> DEFINE t == [Idle EXCEPT !.step = "confirmed", !.op = o]
<1>1. t \in Transaction /\ t.step = "confirmed" /\ t.op = o /\ t.rows = {} /\ t.plan = [q \in Products |-> None]
  BY IdleType DEF Idle, Transaction
<1>2. tx' = [tx EXCEPT ![r] = t] /\ UNCHANGED <<stockVars, signedVars>> /\ op[o] # None
  BY DEF CheckShip, Begin, stockVars, Operation
<1> HIDE DEF t
<1>3. Own(t)
  BY <1>1, <1>2 DEF Own
<1>4. \A q \in Requests \ {r} : Apart(t, tx[q])
  BY <1>1 DEF Apart
<1> QED BY <1>1, <1>2, <1>3, <1>4, LockStep

\* An unload locks the basket that was signed.
LEMMA SubmitUnloadInv ==
    ASSUME Inv, NEW r \in Requests, NEW o \in Ops, SubmitUnloadToShippingBuffer(r, o), UNCHANGED shippingVars
    PROVE  Inv'
<1> DEFINE items == op[o].items
           os == UpdateOrdersToAssembled(items)
           t == [Idle EXCEPT !.step = "unload", !.op = o, !.rows = items, !.orders = os, !.full = os]
<1>1. op[o] \in Draft /\ op[o].type = Pick /\ items \in SUBSET Products
  BY DEF SubmitUnloadToShippingBuffer, Operation, Inv, TypeOK, Draft
<1>2. os \subseteq Orders
  BY <1>1 DEF UpdateOrdersToAssembled, OrdersOf, Inv, TypeOK
<1>3. /\ t \in Transaction /\ t.step = "unload" /\ t.op = o /\ t.rows = items
      /\ t.plan = [q \in Products |-> None]
  <2> HIDE DEF os, items
  <2> QED BY <1>1, <1>2, IdleType DEF Idle, Transaction
<1>4. tx' = [tx EXCEPT ![r] = t] /\ UNCHANGED <<stockVars, signedVars>>
  BY DEF SubmitUnloadToShippingBuffer, Begin, stockVars
<1>5. \A p \in items : status[p] = "ASSEMBLED" /\ DestinationOf[orderOf[p]] = BinDestination[op[o].target.bin]
  BY DEF SubmitUnloadToShippingBuffer, OperatorBasket
<1>6. \A q \in Requests \ {r} : tx[q].rows \intersect items = {}
  BY DEF SubmitUnloadToShippingBuffer, ProductsFree
<1> HIDE DEF t
<1>7. Own(t)
  <2>1. op[o] # None
    BY DEF SubmitUnloadToShippingBuffer, Operation
  <2> QED BY <1>1, <1>3, <1>5, <2>1 DEF Own
<1>8. \A q \in Requests \ {r} : Apart(t, tx[q])
  BY <1>3, <1>6 DEF Apart
<1> QED BY <1>3, <1>4, <1>7, <1>8, LockStep

\* A shipment locks its dispatch at the gate and the products of its buffer.
LEMMA SubmitShipInv ==
    ASSUME Inv, NEW r \in Requests, SubmitShip(r)
    PROVE  Inv'
<1> DEFINE o == tx[r].op
           items == op[o].items
           os == LockOrdersShipped(items)
           full == UpdateOrdersShippedConditional(os, items)
           last == CountReadyToShipProductsInBuffer(op[o].target.bin, items) = 0
           t == [tx[r] EXCEPT !.step = "ship", !.rows = items, !.orders = os, !.full = full, !.last = last]
<1>1. o \in Ops /\ tx[r].step = "confirmed" /\ \A p \in Products : tx[r].plan[p] = None
  BY DEF SubmitShip, Inv, Locks, Own
<1>2. op[o] \in Draft /\ op[o] # None /\ op[o].type = Ship /\ items \in SUBSET Products
  BY <1>1 DEF SubmitShip, LockOperation, Operation, Inv, TypeOK, Draft
<1>3. os \subseteq Orders /\ full \subseteq Orders /\ last \in BOOLEAN
  BY <1>2 DEF LockOrdersShipped, UpdateOrdersShippedConditional, OrdersOf, Inv, TypeOK
<1>4. /\ t \in Transaction /\ t.step = "ship" /\ t.op = o /\ t.rows = items
      /\ t.plan = tx[r].plan
  <2>1. tx[r] \in Transaction
    BY DEF Inv, TypeOK
  <2>2. tx[r].op = o
    OBVIOUS
  <2> HIDE DEF o, items, os, full, last
  <2> QED BY <1>2, <1>3, <2>1, <2>2 DEF Transaction
<1>5. tx' = [tx EXCEPT ![r] = t] /\ UNCHANGED <<stockVars, signedVars>>
  BY DEF SubmitShip
<1>6. /\ \A p \in items : status[p] = "READY_TO_SHIP" /\ bin[p] = op[o].target.bin
      /\ dispatch[op[o].target.dispatch] = "AT_GATE"
  BY DEF SubmitShip, LockProductsForShip, ProductsForShip, GetDispatchForUpdate
<1>7. \A q \in Requests \ {r} : /\ tx[q].rows \intersect items = {}
                                /\ tx[q].step = "ship" => op[tx[q].op].target.dispatch # op[o].target.dispatch
  BY DEF SubmitShip, LockProductsForShip, ProductsFree, GetDispatchForUpdate, DispatchFree
<1> HIDE DEF t, o, items
<1>8. Own(t)
  BY <1>1, <1>2, <1>4, <1>6 DEF Own, items
<1>9. \A q \in Requests \ {r} : Apart(t, tx[q])
  BY <1>4, <1>7 DEF Apart
<1> QED BY <1>4, <1>5, <1>8, <1>9, LockStep

\* The first n of a set have at most n elements.
LEMMA OldestBound ==
    ASSUME NEW S \in SUBSET Products, NEW n \in Nat
    PROVE  Cardinality(Oldest(S, n)) <= n
<1> DEFINE T == Oldest(S, n)
           Before(x) == {y \in S : y < x}
           f == [x \in T |-> Cardinality(Before(x))]
<1>1. IsFiniteSet(S) /\ \A x \in S : x \in Nat
  BY LogAssumption, FS_Subset
<1>2. \A x \in S : IsFiniteSet(Before(x)) /\ Cardinality(Before(x)) \in Nat
  <2>1. \A x \in S : Before(x) \subseteq S
    OBVIOUS
  <2> HIDE DEF Before
  <2> QED BY <1>1, <2>1, FS_Subset, FS_CardinalityType
<1>3. ASSUME NEW x \in S, NEW z \in S, x < z PROVE Cardinality(Before(x)) < Cardinality(Before(z))
  <2>1. Before(x) \subseteq Before(z) /\ x \in Before(z) /\ x \notin Before(x)
    <3>1. \A y \in S : y < x => y < z
      BY <1>1, <1>3
    <3>2. ~(x < x)
      BY <1>1
    <3> QED BY <1>3, <3>1, <3>2
  <2> HIDE DEF Before
  <2>2. Cardinality(Before(x)) <= Cardinality(Before(z)) /\ Cardinality(Before(x)) # Cardinality(Before(z))
    BY <1>2, <2>1, FS_Subset
  <2> QED BY <1>2, <2>2
<1>4. T \subseteq S /\ \A x \in T : Cardinality(Before(x)) < n
  BY DEF Oldest
<1> HIDE DEF T, Before
<1>5. f \in Injection(T, 0..(n - 1))
  <2>1. f \in [T -> 0..(n - 1)] /\ \A x \in T : f[x] = Cardinality(Before(x))
    BY <1>2, <1>4
  <2>2. ASSUME NEW x \in T, NEW z \in T, f[x] = f[z] PROVE x = z
    <3>1. x \in Nat /\ z \in Nat /\ ~(x < z) /\ ~(z < x)
      BY <1>1, <1>2, <1>3, <1>4, <2>1, <2>2
    <3> QED BY <3>1
  <2> HIDE DEF f
  <2> QED BY <2>1, <2>2 DEF Injection, IsInjective
<1>6. IsFiniteSet(0..(n - 1)) /\ Cardinality(0..(n - 1)) = n
  <2>1. 0 \in Int /\ n - 1 \in Int
    OBVIOUS
  <2> QED BY <2>1, FS_Interval
<1> HIDE DEF f
<1>7. Cardinality(T) <= Cardinality(0..(n - 1))
  BY <1>5, <1>6, FS_Injection
<1> QED BY <1>6, <1>7 DEF T

\* What is found for a line: at most as many products as it wants, free and of its SKU.
LEMMA FoundProducts ==
    ASSUME NEW r \in Requests, NEW s \in Skus, NEW n \in Nat
    PROVE  /\ GetAllocateProductsForSKU(r, s, n) \in SUBSET Products
           /\ \A p \in GetAllocateProductsForSKU(r, s, n) :
                 SkuOf[p] = s /\ status[p] = "STORED" /\ tx[r].plan[p] = None /\ ProductsFree(r, {p})
           /\ Cardinality(GetAllocateProductsForSKU(r, s, n)) \in Nat
           /\ Cardinality(GetAllocateProductsForSKU(r, s, n)) <= n
<1> DEFINE S == {p \in Products : /\ SkuOf[p] = s /\ status[p] = "STORED" /\ orderOf[p] = None
                                  /\ tx[r].plan[p] = None /\ ProductsFree(r, {p})}
           found == GetAllocateProductsForSKU(r, s, n)
<1>1. found = Oldest(S, n) /\ S \in SUBSET Products
  BY DEF GetAllocateProductsForSKU
<1>2. found \subseteq S
  BY <1>1 DEF Oldest
<1>3. \A p \in S : SkuOf[p] = s /\ status[p] = "STORED" /\ tx[r].plan[p] = None /\ ProductsFree(r, {p})
  OBVIOUS
<1> HIDE DEF S, found
<1>4. Cardinality(found) <= n
  BY <1>1, OldestBound
<1>5. Cardinality(found) \in Nat
  BY <1>1, <1>2, LogAssumption, FS_Subset, FS_CardinalityType
<1> QED BY <1>1, <1>2, <1>3, <1>4, <1>5 DEF found

\* The transaction t looks up the line of SKU s of order o: F are the products it finds, and
\* lacks says that they are too few.
LooksUp(t, u, o, s, F, lacks) ==
    /\ \A y \in t.todo : o <= y
    /\ s \notin t.seen /\ u.seen = t.seen \union {s}
    /\ u.lack = IF lacks THEN t.lack \union {s} ELSE t.lack
    /\ u.rows = t.rows \union F
    /\ u.items = IF lacks THEN t.items ELSE t.items \union F
    /\ u.step = "allocate" /\ u.orders = t.orders /\ u.todo = t.todo /\ u.plan = t.plan /\ u.full = t.full
    /\ F \in SUBSET Products
    /\ \A p \in F : SkuOf[p] = s /\ status[p] = "STORED" /\ t.plan[p] = None
    /\ ~lacks => Cardinality(F) = Lines[o][s]

LEMMA AllocateLineLooksUp ==
    ASSUME Inv, NEW r \in Requests, AllocateLine(r), UNCHANGED shippingVars
    PROVE  /\ tx[r].step = "allocate" /\ UNCHANGED <<stockVars, signedVars>>
           /\ \E u \in Transaction, o \in tx[r].todo, s \in Skus, F \in SUBSET Products, lacks \in BOOLEAN :
                 /\ tx' = [tx EXCEPT ![r] = u] /\ LooksUp(tx[r], u, o, s, F, lacks)
                 /\ \A p \in F : ProductsFree(r, {p})
<1>1. PICK o \in tx[r].todo, s \in Skus : AllocateLine(r)!(o, s)
  BY DEF AllocateLine
<1> DEFINE t == tx[r]
           qty == GetOrderLinesByOrderIDs(o)[s]
           known == t.short[s] # None /\ qty > t.short[s]
           found == IF known THEN {} ELSE GetAllocateProductsForSKU(r, s, qty)
           lacking == Cardinality(found) < qty
           seen == t.seen \union {s}
           lack == IF lacking THEN t.lack \union {s} ELSE t.lack
           rows == t.rows \union found
           items == IF lacking THEN t.items ELSE t.items \union found
           short == IF lacking /\ ~known THEN [t.short EXCEPT ![s] = ShortStock(found)] ELSE t.short
           u == [t EXCEPT !.seen = seen, !.lack = lack, !.rows = rows, !.items = items, !.short = short]
<1>2. /\ t.step = "allocate" /\ UNCHANGED <<stockVars, signedVars>>
      /\ tx' = [tx EXCEPT ![r] = u] /\ s \notin t.seen /\ \A y \in t.todo : o <= y
  BY <1>1 DEF stockVars
<1>3. t \in Transaction /\ o \in Orders /\ qty \in Nat /\ qty = Lines[o][s]
  <2>1. t \in Transaction
    BY DEF Inv, TypeOK
  <2>2. o \in Orders
    BY <2>1 DEF Transaction
  <2>3. Lines[o][s] \in Nat
    BY <2>2, AssemblyAssumption
  <2> QED BY <2>1, <2>2, <2>3 DEF GetOrderLinesByOrderIDs
<1>4. /\ found \in SUBSET Products
      /\ \A p \in found : SkuOf[p] = s /\ status[p] = "STORED" /\ t.plan[p] = None /\ ProductsFree(r, {p})
      /\ Cardinality(found) \in Nat /\ Cardinality(found) <= qty
  <2> HIDE DEF qty
  <2>1. CASE known
    BY <1>3, <2>1, FS_EmptySet
  <2>2. CASE ~known
    BY <1>3, <2>2, FoundProducts
  <2> QED BY <2>1, <2>2
<1> HIDE DEF found, qty
<1>5. ~lacking => Cardinality(found) = qty
  BY <1>3, <1>4
<1>6. short \in [Skus -> Nat \union {None}]
  BY <1>3, <1>4 DEF Transaction, ShortStock
<1>7. seen \subseteq Skus /\ lack \subseteq Skus /\ rows \subseteq Products /\ items \subseteq Products
  BY <1>3, <1>4 DEF Transaction
<1>8. PICK lacks \in BOOLEAN : lacks <=> lacking
  BY Zenon
<1>9. /\ lack = IF lacks THEN t.lack \union {s} ELSE t.lack
      /\ items = IF lacks THEN t.items ELSE t.items \union found
  BY <1>8
<1>10. ~lacks => Cardinality(found) = Lines[o][s]
  BY <1>3, <1>5, <1>8
<1> HIDE DEF seen, lack, rows, items, short, lacking
<1>11. /\ u \in Transaction /\ u.step = t.step /\ u.seen = seen /\ u.lack = lack /\ u.rows = rows
       /\ u.items = items /\ u.orders = t.orders /\ u.todo = t.todo /\ u.plan = t.plan /\ u.full = t.full
  BY <1>3, <1>6, <1>7 DEF Transaction
<1> HIDE DEF u
<1>12. LooksUp(t, u, o, s, found, lacks)
  BY <1>2, <1>4, <1>9, <1>10, <1>11 DEF LooksUp, seen, rows
<1>13. \E w \in Transaction, y \in tx[r].todo, z \in Skus, F \in SUBSET Products, l \in BOOLEAN :
          /\ tx' = [tx EXCEPT ![r] = w] /\ LooksUp(tx[r], w, y, z, F, l)
          /\ \A p \in F : ProductsFree(r, {p})
  <2> u \in Transaction /\ found \in SUBSET Products
    BY <1>4, <1>11
  <2> WITNESS u \in Transaction, o \in tx[r].todo, s \in Skus, found \in SUBSET Products, lacks \in BOOLEAN
  <2> QED BY <1>2, <1>4, <1>12
<1> QED BY <1>2, <1>13

\* A line locks free products.
LEMMA AllocateLineInv ==
    ASSUME Inv, NEW r \in Requests, AllocateLine(r), UNCHANGED shippingVars
    PROVE  Inv' /\ tx'[r].step = "allocate" /\ \A q \in Requests \ {r} : tx'[q] = tx[q]
<1>1. PICK u \in Transaction, o \in tx[r].todo, s \in Skus, F \in SUBSET Products, lacks \in BOOLEAN :
          /\ tx' = [tx EXCEPT ![r] = u] /\ LooksUp(tx[r], u, o, s, F, lacks)
          /\ \A p \in F : ProductsFree(r, {p})
  BY AllocateLineLooksUp
<1>2. tx[r].step = "allocate" /\ UNCHANGED <<stockVars, signedVars>>
  BY AllocateLineLooksUp
<1> DEFINE t == tx[r]
<1>3. /\ t.items \subseteq t.rows /\ \A p \in t.rows : status[p] = "STORED"
      /\ \A p \in Products : t.plan[p] # None => p \in t.rows
  BY <1>2 DEF Inv, Locks, Own
<1>4. /\ u.step = "allocate" /\ u.rows = t.rows \union F /\ u.items \subseteq t.items \union F
      /\ u.plan = t.plan /\ \A p \in F : status[p] = "STORED"
  BY <1>1 DEF LooksUp
<1>5. Own(u)
  BY <1>3, <1>4 DEF Own
<1>6. ASSUME NEW q \in Requests \ {r} PROVE Apart(u, tx[q])
  <2>1. t.rows \intersect tx[q].rows = {}
    BY <1>6 DEF Inv, Locks, Apart
  <2>2. F \intersect tx[q].rows = {}
    BY <1>1, <1>6 DEF ProductsFree
  <2> QED BY <1>4, <2>1, <2>2 DEF Apart
<1>7. Inv'
  BY <1>1, <1>2, <1>5, <1>6, LockStep
<1>8. tx'[r] = u /\ \A q \in Requests \ {r} : tx'[q] = tx[q]
  BY <1>1 DEF Inv, TypeOK
<1> QED BY <1>4, <1>7, <1>8

\* One order o of an allocation: the transaction t becomes u, in which o is given what was
\* found for its lines when none is short (e), or nothing.
PlansOrder(t, u, o, e) ==
    /\ \A y \in t.todo : o <= y
    /\ \A s \in Skus : Lines[o][s] > 0 => s \in t.seen
    /\ e <=> t.lack = {}
    /\ u.step = "allocate" /\ u.orders = t.orders /\ u.todo = t.todo \ {o}
    /\ u.rows = t.rows /\ u.items = {} /\ u.seen = {} /\ u.lack = {}
    /\ \A p \in Products : u.plan[p] = IF e /\ p \in t.items THEN o ELSE t.plan[p]
    /\ u.full = IF e THEN t.full \union {o} ELSE t.full

LEMMA AllocateOrderPlan ==
    ASSUME Inv, NEW r \in Requests, AllocateOrderTx(r), UNCHANGED shippingVars
    PROVE  /\ tx[r].step = "allocate" /\ UNCHANGED <<stockVars, signedVars>>
           /\ \E u \in Transaction, o \in tx[r].todo, e \in BOOLEAN :
                 tx' = [tx EXCEPT ![r] = u] /\ PlansOrder(tx[r], u, o, e)
<1>1. PICK o \in tx[r].todo : AllocateOrderTx(r)!(o)
  BY DEF AllocateOrderTx
<1> DEFINE t == tx[r]
           lines == GetOrderLinesByOrderIDs(o)
           enough == t.lack = {}
           todo == t.todo \ {o}
           plan == [p \in Products |-> IF enough /\ p \in t.items THEN o ELSE t.plan[p]]
           full == IF enough THEN t.full \union {o} ELSE t.full
           short == [s \in Skus |-> IF enough /\ lines[s] > 0 /\ t.short[s] # None
                                    THEN StockLeft(t.short[s], lines[s]) ELSE t.short[s]]
           u == [t EXCEPT !.todo = todo, !.seen = {}, !.lack = {}, !.items = {}, !.plan = plan,
                          !.full = full, !.short = short]
<1>2. /\ t.step = "allocate" /\ UNCHANGED <<stockVars, signedVars>>
      /\ tx' = [tx EXCEPT ![r] = u] /\ \A y \in t.todo : o <= y
      /\ \A s \in Skus : lines[s] > 0 => s \in t.seen
  BY <1>1 DEF stockVars
<1>3. t \in Transaction /\ o \in Orders /\ lines \in [Skus -> Nat] /\ lines = Lines[o]
  BY AssemblyAssumption DEF Inv, TypeOK, Transaction, GetOrderLinesByOrderIDs
<1> HIDE DEF lines
<1>4. short \in [Skus -> Nat \union {None}]
  <2> SUFFICES ASSUME NEW s \in Skus PROVE short[s] \in Nat \union {None}
    BY DEF short
  <2>1. t.short[s] \in Nat \union {None} /\ lines[s] \in Nat
    BY <1>3 DEF Transaction
  <2>2. CASE t.short[s] = None
    BY <2>2
  <2>3. CASE t.short[s] \in Nat
    <3>1. StockLeft(t.short[s], lines[s]) \in Nat
      BY <2>1, <2>3 DEF StockLeft
    <3> QED BY <2>3, <3>1
  <2> QED BY <2>1, <2>2, <2>3
<1>5. PICK e \in BOOLEAN : e <=> enough
  BY Zenon
<1>6. /\ \A p \in Products : plan[p] = IF e /\ p \in t.items THEN o ELSE t.plan[p]
      /\ full = IF e THEN t.full \union {o} ELSE t.full
  BY <1>5
<1>7. plan \in [Products -> Orders \union {None}] /\ full \subseteq Orders /\ todo \subseteq Orders
  BY <1>3 DEF Transaction
<1> HIDE DEF plan, full, short, todo
<1>8. /\ u \in Transaction /\ u.step = t.step /\ u.orders = t.orders /\ u.todo = todo /\ u.rows = t.rows
      /\ u.items = {} /\ u.seen = {} /\ u.lack = {} /\ u.plan = plan /\ u.full = full
  BY <1>3, <1>4, <1>7 DEF Transaction
<1> HIDE DEF u
<1>9. PlansOrder(t, u, o, e)
  BY <1>2, <1>3, <1>5, <1>6, <1>8 DEF PlansOrder, todo
<1> QED BY <1>2, <1>8, <1>9

\* An order is given products that the allocation has locked.
LEMMA AllocateOrderInv ==
    ASSUME Inv, NEW r \in Requests, AllocateOrderTx(r), UNCHANGED shippingVars
    PROVE  Inv' /\ tx'[r].step = "allocate" /\ \A q \in Requests \ {r} : tx'[q] = tx[q]
<1>1. PICK u \in Transaction, o \in tx[r].todo, e \in BOOLEAN :
          tx' = [tx EXCEPT ![r] = u] /\ PlansOrder(tx[r], u, o, e)
  BY AllocateOrderPlan
<1>2. tx[r].step = "allocate" /\ UNCHANGED <<stockVars, signedVars>>
  BY AllocateOrderPlan
<1> DEFINE t == tx[r]
<1>3. /\ t.items \subseteq t.rows /\ \A p \in t.rows : status[p] = "STORED"
      /\ \A p \in Products : t.plan[p] # None => p \in t.rows
  BY <1>2 DEF Inv, Locks, Own
<1>4. /\ u.step = "allocate" /\ u.rows = t.rows /\ u.items = {}
      /\ \A p \in Products : u.plan[p] # None => p \in t.items \/ t.plan[p] # None
  BY <1>1 DEF PlansOrder
<1>5. Own(u)
  BY <1>3, <1>4 DEF Own
<1>6. \A q \in Requests \ {r} : Apart(u, tx[q])
  BY <1>4 DEF Inv, Locks, Apart
<1>7. Inv'
  BY <1>1, <1>2, <1>5, <1>6, LockStep
<1>8. tx'[r] = u /\ \A q \in Requests \ {r} : tx'[q] = tx[q]
  BY <1>1 DEF Inv, TypeOK
<1> QED BY <1>4, <1>7, <1>8

-----------------------------------------------------------------------------
(* Steps that write products, orders and dispatches. *)

LEMMA CommitAllocateInv ==
    ASSUME Inv, NEW r \in Requests, CommitAllocate(r), UNCHANGED shippingVars
    PROVE  Inv'
<1> USE DEF assemblyVars, shippingVars, signedVars
<1> DEFINE S == {p \in Products : tx[r].plan[p] # None}
<1>1. /\ status' = [p \in Products |-> IF p \in S THEN "ALLOCATED" ELSE status[p]]
      /\ orderOf' = [p \in Products |-> IF p \in S THEN tx[r].plan[p] ELSE orderOf[p]]
      /\ task' = [p \in Products |-> IF p \in S THEN "PENDING" ELSE task[p]]
      /\ order' = [o \in Orders |-> IF o \in tx[r].full THEN "ALLOCATED" ELSE order[o]]
      /\ tx' = [tx EXCEPT ![r] = Idle]
      /\ UNCHANGED <<bin, picker, unloadedIn, dispatch, shippedOn, shippedIn, op, submitted, log>>
  BY DEF CommitAllocate, UpdateProductAllocated, BatchInsertAssemblyTasks, UpdateOrderStatus
<1>2. \A p \in S : tx[r].plan[p] \in Orders /\ tx[r].plan[p] # None
  BY DEF Inv, TypeOK, Transaction
<1>3. \A p \in S : p \in tx[r].rows /\ status[p] = "STORED"
  BY DEF CommitAllocate, Inv, Locks, Own
<1> HIDE DEF S
<1>4. S \subseteq Products
  BY DEF S
<1>5. TypeOK'
  <2>1. tx' \in [Requests -> Transaction]
    BY <1>1, IdleType DEF Inv, TypeOK
  <2>2. status' \in [Products -> ProductStatuses] /\ orderOf' \in [Products -> Orders \union {None}]
    BY <1>1, <1>2 DEF Inv, TypeOK, ProductStatuses
  <2>3. task' \in [Products -> TaskStatuses] /\ order' \in [Orders -> OrderStatuses]
    BY <1>1 DEF Inv, TypeOK, TaskStatuses, OrderStatuses
  <2> QED BY <1>1, <2>1, <2>2, <2>3 DEF Inv, TypeOK
<1>6. Locks'
  <2>1. \A q \in Requests \ {r} : tx[q].rows \intersect S = {}
    BY <1>3 DEF Inv, Locks, Apart
  <2> QED BY <1>1, <1>4, <1>5, <2>1, CommitLocks
<1>7. Stock'
  BY <1>1, <1>2, <1>3 DEF Inv, Stock
<1>8. Drafts'
  BY <1>1 DEF Inv, Drafts
<1>9. RightDestination'
  BY <1>1, <1>3 DEF Inv, Stock, RightDestination
<1> QED BY <1>5, <1>6, <1>7, <1>8, <1>9 DEF Inv

LEMMA PickProductInv ==
    ASSUME Inv, NEW r \in Requests, PickProduct(r), UNCHANGED shippingVars
    PROVE  Inv'
<1> USE DEF assemblyVars, shippingVars, signedVars
<1>1. PICK p \in tx[r].items :
          /\ ProductsFree(r, {p}) /\ status[p] = "ALLOCATED"
          /\ task' = [task EXCEPT ![p] = "DONE"]
          /\ picker' = [picker EXCEPT ![p] = tx[r].by]
          /\ status' = [status EXCEPT ![p] = "ASSEMBLED"]
  BY DEF PickProduct, GetProductByIDForUpdate, MarkTaskDone, SetProductAssembled
<1>2. /\ tx' = [tx EXCEPT ![r] = Idle]
      /\ UNCHANGED <<bin, order, orderOf, unloadedIn, dispatch, shippedOn, shippedIn, op, submitted, log>>
  BY DEF PickProduct
<1>3. p \in Products /\ tx[r].by \in Operators \union {None}
  BY DEF Inv, TypeOK, Transaction
<1>4. TypeOK'
  <2>1. tx' \in [Requests -> Transaction]
    BY <1>2, IdleType DEF Inv, TypeOK
  <2>2. /\ status' \in [Products -> ProductStatuses] /\ task' \in [Products -> TaskStatuses]
        /\ picker' \in [Products -> Operators \union {None}]
    BY <1>1, <1>3 DEF Inv, TypeOK, ProductStatuses, TaskStatuses
  <2> QED BY <1>2, <2>1, <2>2 DEF Inv, TypeOK
<1>5. Locks'
  <2>1. \A q \in Products \ {p} : status'[q] = status[q]
    BY <1>1 DEF Inv, TypeOK
  <2>2. \A q \in Requests \ {r} : tx[q].rows \intersect {p} = {}
    BY <1>1 DEF ProductsFree
  <2> QED BY <1>2, <1>3, <1>4, <2>1, <2>2, CommitLocks
<1>6. Stock'
  BY <1>1, <1>2, <1>3 DEF Inv, TypeOK, Stock
<1>7. Drafts'
  BY <1>2 DEF Inv, Drafts
<1>8. RightDestination'
  BY <1>1, <1>2, <1>3 DEF Inv, TypeOK, Stock, RightDestination
<1> QED BY <1>4, <1>5, <1>6, <1>7, <1>8 DEF Inv

\* What a submission appends to the log.
LEMMA WriteActionsType ==
    ASSUME NEW o \in Ops, op[o] \in Draft, submitted \in SUBSET Ops, log \in Seq(Action), WriteActions(o)
    PROVE  submitted' \in SUBSET Ops /\ log' \in Seq(Action) /\ op' = op
<1>1. Signed(op[o].type, op[o].items) \in Seq(Action)
  BY SignedType DEF Draft
<1> QED BY <1>1 DEF WriteActions

LEMMA CommitUnloadInv ==
    ASSUME Inv, NEW r \in Requests, CommitUnload(r), UNCHANGED shippingVars
    PROVE  Inv'
<1> USE DEF shippingVars
<1> DEFINE o == tx[r].op
           S == op[o].items
<1>1. /\ status' = [p \in Products |-> IF p \in S THEN "READY_TO_SHIP" ELSE status[p]]
      /\ bin' = [p \in Products |-> IF p \in S THEN op[o].target.bin ELSE bin[p]]
      /\ order' = [x \in Orders |-> IF x \in tx[r].full THEN "ASSEMBLED" ELSE order[x]]
      /\ StampTaskUnload(o) /\ WriteActions(o)
      /\ tx' = [tx EXCEPT ![r] = Idle]
      /\ UNCHANGED <<orderOf, task, picker, dispatch, shippedOn, shippedIn>>
  BY DEF CommitUnload, MoveProductsToShippingBuffer, UpdateOrderStatus
<1>2. /\ o \in Ops /\ op[o] # None /\ op[o].type = Pick /\ tx[r].rows = S
      /\ \A p \in S : /\ status[p] = "ASSEMBLED"
                      /\ DestinationOf[orderOf[p]] = BinDestination[op[o].target.bin]
  BY DEF CommitUnload, Inv, Locks, Own
<1>3. op[o] \in Draft /\ S \in SUBSET Products /\ op[o].target.bin \in ShippingBins
  BY <1>2 DEF Inv, TypeOK, Draft
<1>4. submitted' \in SUBSET Ops /\ log' \in Seq(Action) /\ op' = op
  BY <1>1, <1>2, <1>3, WriteActionsType DEF Inv, TypeOK
<1>5. unloadedIn' \in [Products -> ActionIds \union {None}]
  <2>1. \A p \in S : ActionOf(o, p) \in ActionIds
    BY <1>2, <1>3, ActionOfType
  <2> QED BY <1>1, <2>1 DEF StampTaskUnload, Inv, TypeOK
<1> HIDE DEF S, o
<1>6. TypeOK'
  <2>1. tx' \in [Requests -> Transaction]
    BY <1>1, IdleType DEF Inv, TypeOK
  <2>2. /\ status' \in [Products -> ProductStatuses] /\ order' \in [Orders -> OrderStatuses]
        /\ bin' \in [Products -> ShippingBins \union {Storage}]
    BY <1>1, <1>3 DEF Inv, TypeOK, ProductStatuses, OrderStatuses
  <2> QED BY <1>1, <1>4, <1>5, <2>1, <2>2 DEF Inv, TypeOK
<1>7. Locks'
  <2>1. \A q \in Requests \ {r} : tx[q].rows \intersect S = {}
    BY <1>2 DEF Inv, Locks, Apart
  <2> QED BY <1>1, <1>3, <1>4, <1>6, <2>1, CommitLocks
<1>8. Stock'
  BY <1>1, <1>2 DEF Inv, Stock
<1>9. Drafts'
  BY <1>4 DEF Inv, Drafts
<1>10. RightDestination'
  BY <1>1, <1>2 DEF Inv, Stock, RightDestination
<1> QED BY <1>6, <1>7, <1>8, <1>9, <1>10 DEF Inv

LEMMA CommitShipInv ==
    ASSUME Inv, NEW r \in Requests, CommitShip(r)
    PROVE  Inv'
<1> DEFINE o == tx[r].op
           S == op[o].items
           v == op[o].target.dispatch
<1>1. /\ status' = [p \in Products |-> IF p \in S THEN "SHIPPED" ELSE status[p]]
      /\ shippedOn' = [p \in Products |-> IF p \in S THEN v ELSE shippedOn[p]]
      /\ shippedIn' = [p \in Products |-> IF p \in S THEN ActionOf(o, p) ELSE shippedIn[p]]
      /\ order' = [x \in Orders |-> IF x \in tx[r].full THEN "SHIPPED"
                                    ELSE IF x \in tx[r].orders THEN "PARTIALLY_SHIPPED"
                                    ELSE order[x]]
      /\ dispatch' = IF tx[r].last THEN [dispatch EXCEPT ![v] = "DEPARTED"] ELSE dispatch
      /\ WriteActions(o)
      /\ tx' = [tx EXCEPT ![r] = Idle]
      /\ UNCHANGED <<bin, orderOf, task, picker, unloadedIn>>
  BY DEF CommitShip, BatchUpdateProductsShipped, BatchInsertShippings, UpdateDispatchDeparted
<1>2. /\ tx[r].step = "ship" /\ o \in Ops /\ op[o] # None /\ op[o].type = Ship /\ tx[r].rows = S
      /\ \A p \in S : status[p] = "READY_TO_SHIP" /\ bin[p] = op[o].target.bin
  BY DEF CommitShip, Inv, Locks, Own
<1>3. op[o] \in Draft /\ S \in SUBSET Products /\ v \in Dispatches
  BY <1>2 DEF Inv, TypeOK, Draft
<1>4. submitted' \in SUBSET Ops /\ log' \in Seq(Action) /\ op' = op
  BY <1>1, <1>2, <1>3, WriteActionsType DEF Inv, TypeOK
<1>5. \A p \in S : ActionOf(o, p) \in ActionIds
  BY <1>2, <1>3, ActionOfType
<1>6. \A q \in Requests \ {r} : tx[q].step = "ship" => op[tx[q].op].target.dispatch # v
  BY <1>2 DEF Inv, Locks, Apart
<1>7. BinDestination[op[o].target.bin] = DispatchDestination[v]
  BY <1>2 DEF Inv, Drafts
<1> HIDE DEF S, o, v
<1>8. TypeOK'
  <2>1. tx' \in [Requests -> Transaction]
    BY <1>1, IdleType DEF Inv, TypeOK
  <2>2. status' \in [Products -> ProductStatuses] /\ order' \in [Orders -> OrderStatuses]
    BY <1>1 DEF Inv, TypeOK, ProductStatuses, OrderStatuses
  <2>3. shippedOn' \in [Products -> Dispatches \union {None}] /\ shippedIn' \in [Products -> ActionIds \union {None}]
    BY <1>1, <1>3, <1>5 DEF Inv, TypeOK
  <2>4. dispatch' \in [Dispatches -> DispatchStatuses]
    BY <1>1 DEF Inv, TypeOK, DispatchStatuses
  <2> QED BY <1>1, <1>4, <2>1, <2>2, <2>3, <2>4 DEF Inv, TypeOK
<1>9. Locks'
  <2>1. \A q \in Requests \ {r} : tx[q].rows \intersect S = {}
    BY <1>2 DEF Inv, Locks, Apart
  <2>2. \A q \in Requests \ {r} : tx[q].step = "ship" =>
            dispatch'[op[tx[q].op].target.dispatch] = dispatch[op[tx[q].op].target.dispatch]
    <3> SUFFICES ASSUME NEW w, w # v, NEW q \in Requests, tx[q].step = "ship", w = op[tx[q].op].target.dispatch
                 PROVE  dispatch'[w] = dispatch[w]
      BY <1>6
    <3>1. w \in Dispatches
      BY DEF Inv, Locks, Own, TypeOK, Draft
    <3> QED BY <1>1, <3>1 DEF Inv, TypeOK
  <2> QED BY <1>1, <1>3, <1>4, <1>8, <2>1, <2>2, CommitLocks
<1>10. Stock'
  BY <1>1, <1>2 DEF Inv, Stock
<1>11. Drafts'
  BY <1>4 DEF Inv, Drafts
<1>12. RightDestination'
  <2>1. \A p \in S : p \in Products => BinDestination[bin[p]] = DestinationOf[orderOf[p]]
    BY <1>2 DEF Inv, RightDestination
  <2>2. \A p \in S : p \in Products => DispatchDestination[v] = DestinationOf[orderOf[p]]
    BY <1>2, <1>7, <2>1
  <2> QED BY <1>1, <2>1, <2>2 DEF Inv, RightDestination
<1> QED BY <1>8, <1>9, <1>10, <1>11, <1>12 DEF Inv

-----------------------------------------------------------------------------
(* Drafts, dispatches and the ledger. *)

\* A new draft is seen by no transaction.
LEMMA DraftInv ==
    ASSUME Inv, NEW o \in Ops, NEW d \in Draft, op[o] = None, op' = [op EXCEPT ![o] = d],
           d.items # {}, d.type = Ship => BinDestination[d.target.bin] = DispatchDestination[d.target.dispatch],
           UNCHANGED <<stockVars, submitted, log, tx>>
    PROVE  Inv'
<1> USE DEF stockVars, assemblyVars, shippingVars
<1>1. TypeOK'
  BY DEF Inv, TypeOK
<1>2. \A x \in Ops : op[x] # None => op'[x] = op[x]
  BY DEF Inv, TypeOK
<1>3. \A q \in Requests : tx[q].step \in {"unload", "confirmed", "ship"} =>
          tx[q].op \in Ops /\ op[tx[q].op] # None /\ op'[tx[q].op] = op[tx[q].op]
  BY <1>2 DEF Inv, Locks, Own
<1>4. Locks'
  <2>1. ASSUME NEW q \in Requests PROVE Own(tx[q])'
    <3>1. Own(tx[q])
      BY DEF Inv, Locks
    <3> QED BY <1>3, <3>1 DEF Own
  <2>2. ASSUME NEW q \in Requests, NEW z \in Requests \ {q} PROVE Apart(tx[q], tx[z])'
    <3>1. Apart(tx[q], tx[z])
      BY DEF Inv, Locks
    <3> QED BY <1>3, <3>1 DEF Apart
  <2> QED BY <2>1, <2>2 DEF Locks
<1>5. Drafts'
  BY DEF Inv, Drafts, TypeOK
<1>6. Stock' /\ RightDestination'
  BY DEF Inv, Stock, RightDestination
<1> QED BY <1>1, <1>4, <1>5, <1>6 DEF Inv

LEMMA DraftUnloadInv ==
    ASSUME Inv, NEW r \in Requests, NEW o \in Ops, NEW w \in Operators, NEW b \in ShippingBins,
           DraftUnloadToShippingBuffer(r, o, w, b), UNCHANGED shippingVars
    PROVE  Inv'
<1> DEFINE items == OperatorBasket(w, BinDestination[b])
           d == [type |-> Pick, by |-> w, items |-> items, target |-> [bin |-> b, orders |-> SignedOrders(items)]]
<1>1. items \in SUBSET Products /\ \A p \in items : orderOf[p] \in Orders
  BY DEF OperatorBasket, Inv, TypeOK
<1>2. SignedOrders(items) \in OrdersOfItems
  <2> HIDE DEF items
  <2>1. SignedOrders(items) \in [items -> Orders]
    BY <1>1 DEF SignedOrders
  <2> QED BY <1>1, <2>1 DEF OrdersOfItems
<1>3. d \in Draft /\ d.type # Ship /\ d.items = items
  <2> HIDE DEF items
  <2> QED BY <1>1, <1>2 DEF Draft
<1>4. /\ op[o] = None /\ op' = [op EXCEPT ![o] = d] /\ UNCHANGED <<stockVars, submitted, log, tx>>
      /\ items # {}
  BY DEF DraftUnloadToShippingBuffer, InsertOperation, stockVars
<1> HIDE DEF d
<1> QED BY <1>3, <1>4, DraftInv

LEMMA DraftShipInv ==
    ASSUME Inv, NEW r \in Requests, NEW o \in Ops, NEW b \in ShippingBins, NEW v \in Dispatches,
           NEW items \in SUBSET Products, DraftShip(r, o, b, v, items)
    PROVE  Inv'
<1> DEFINE d == [type |-> Ship, by |-> None, items |-> items,
                 target |-> [bin |-> b, dispatch |-> v, orders |-> SignedOrders(items)]]
<1>1. \A p \in items : orderOf[p] \in Orders
  <2>1. \A p \in items : p \in Products /\ status[p] = "READY_TO_SHIP"
    BY DEF DraftShip, ProductsForShip
  <2> QED BY <2>1 DEF Inv, Stock, TypeOK
<1>2. SignedOrders(items) \in OrdersOfItems
  <2>1. SignedOrders(items) \in [items -> Orders]
    BY <1>1 DEF SignedOrders
  <2> QED BY <2>1 DEF OrdersOfItems
<1>3. d \in Draft /\ d.target.bin = b /\ d.target.dispatch = v /\ d.items = items
  BY <1>2 DEF Draft
<1>4. /\ op[o] = None /\ op' = [op EXCEPT ![o] = d] /\ UNCHANGED <<stockVars, submitted, log, tx>>
      /\ BinDestination[b] = DispatchDestination[v] /\ items # {}
  BY DEF DraftShip, InsertOperation, GetBinWithDestinationByID
<1> HIDE DEF d
<1> QED BY <1>3, <1>4, DraftInv

LEMMA DispatchInv ==
    ASSUME Inv, NEW v \in Dispatches, CreateNewDispatch(v) \/ ScanDriver(v)
    PROVE  Inv'
<1> USE DEF assemblyVars, signedVars
<1>1. /\ dispatch[v] \in {"NONE", "SCHEDULED"}
      /\ dispatch' = [dispatch EXCEPT ![v] = "SCHEDULED"] \/ dispatch' = [dispatch EXCEPT ![v] = "AT_GATE"]
      /\ UNCHANGED <<assemblyVars, shippedOn, shippedIn, signedVars, tx>>
  BY DEF CreateNewDispatch, ScanDriver, UpdateDispatchToAtGate
<1>2. TypeOK'
  BY <1>1 DEF Inv, TypeOK, DispatchStatuses
<1>3. \A q \in Requests : tx[q].step = "ship" =>
          dispatch'[op[tx[q].op].target.dispatch] = dispatch[op[tx[q].op].target.dispatch]
  <2> SUFFICES ASSUME NEW q \in Requests, tx[q].step = "ship", NEW w, w = op[tx[q].op].target.dispatch
               PROVE  dispatch'[w] = dispatch[w]
    OBVIOUS
  <2>1. w \in Dispatches /\ dispatch[w] = "AT_GATE"
    BY DEF Inv, Locks, Own, TypeOK, Draft
  <2> QED BY <1>1, <2>1 DEF Inv, TypeOK
<1>4. Locks'
  <2>1. ASSUME NEW q \in Requests PROVE Own(tx[q])'
    <3>1. Own(tx[q])
      BY DEF Inv, Locks
    <3> QED BY <1>1, <1>3, <3>1 DEF Own
  <2>2. ASSUME NEW q \in Requests, NEW z \in Requests \ {q} PROVE Apart(tx[q], tx[z])'
    BY <1>1 DEF Inv, Locks, Apart
  <2> QED BY <2>1, <2>2 DEF Locks
<1>5. Stock' /\ Drafts' /\ RightDestination'
  BY <1>1 DEF Inv, Stock, Drafts, RightDestination
<1> QED BY <1>2, <1>4, <1>5 DEF Inv

LEMMA SameInv ==
    ASSUME Inv, log' \in Seq(Action), UNCHANGED <<stockVars, op, submitted, tx>>
    PROVE  Inv'
<1> USE DEF stockVars, assemblyVars, shippingVars
<1>1. TypeOK'
  BY DEF Inv, TypeOK
<1>2. Locks' /\ Stock' /\ Drafts' /\ RightDestination'
  BY DEF Inv, Locks, Own, Apart, Stock, Drafts, RightDestination
<1> QED BY <1>1, <1>2 DEF Inv

LEMMA NextInv == Inv /\ [Next]_vars => Inv'
<1> SUFFICES ASSUME Inv, [Next]_vars PROVE Inv'
  OBVIOUS
<1>1. CASE UNCHANGED vars
  BY <1>1, SameInv DEF vars, signedVars, Inv, TypeOK
<1>2. CASE SettleOutbound
  BY <1>2, SameInv, SettledChange DEF SettleOutbound, Inv, TypeOK
<1>3. CASE NextAssembly /\ UNCHANGED shippingVars
  BY <1>3, AllocateInv, AllocateLineInv, AllocateOrderInv, CommitAllocateInv, CheckPickInv, PickProductInv, DraftUnloadInv,
     SubmitUnloadInv, CommitUnloadInv DEF NextAssembly
<1>4. CASE NextShipping
  BY <1>4, DispatchInv, DraftShipInv, CheckShipInv, SubmitShipInv, CommitShipInv DEF NextShipping
<1>5. CASE \E r \in Requests : Abort(r)
  BY <1>5, AbortInv
<1> QED BY <1>1, <1>2, <1>3, <1>4, <1>5 DEF Next

LEMMA SpecInv == Spec => []Inv
  BY InitInv, NextInv, PTL DEF Spec

\* The variables of assembly and shipping keep their types.
THEOREM OutboundTypeCorrect == Spec => []TypeOK
<1>1. Inv => TypeOK
  BY DEF Inv
<1> QED BY <1>1, SpecInv, PTL

\* A product goes to the destination that ordered it, on the buffer and on the dispatch,
\* whatever allocations, unloads and shipments run at the same time.
THEOREM DestinationCorrect == Spec => []RightDestination
<1>1. Inv => RightDestination
  BY DEF Inv
<1> QED BY <1>1, SpecInv, PTL

\* Nothing is loaded on a dispatch that is not at the gate, nothing is loaded twice, and a
\* dispatch departs only in a step that loads it.
THEOREM LoadingAtGate == Spec => LoadedAtGate
<1> DEFINE Loaded ==
               /\ \A p \in Products : shippedOn'[p] # shippedOn[p] =>
                     shippedOn[p] = None /\ dispatch[shippedOn'[p]] = "AT_GATE"
               /\ \A v \in Dispatches : dispatch'[v] = "DEPARTED" /\ dispatch[v] # "DEPARTED" =>
                     \E p \in Products : shippedOn[p] = None /\ shippedOn'[p] = v
<1>1. ASSUME UNCHANGED <<dispatch, shippedOn>> PROVE Loaded
  BY <1>1
<1>2. ASSUME Inv, NEW r \in Requests, CommitShip(r) PROVE Loaded
  <2> DEFINE d == op[tx[r].op]
             v == d.target.dispatch
  <2>1. /\ shippedOn' = [p \in Products |-> IF p \in d.items THEN v ELSE shippedOn[p]]
        /\ dispatch' = [dispatch EXCEPT ![v] = "DEPARTED"] \/ dispatch' = dispatch
    BY <1>2 DEF CommitShip, BatchInsertShippings, UpdateDispatchDeparted
  <2>2. /\ d \in Draft /\ d.items # {} /\ \A p \in d.items : status[p] = "READY_TO_SHIP"
        /\ dispatch[v] = "AT_GATE"
    <3>1. tx[r].step = "ship" /\ Own(tx[r])
      BY <1>2 DEF CommitShip, Inv, Locks
    <3>2. tx[r].op \in Ops /\ d # None
      BY <3>1 DEF Own
    <3>3. d \in Draft /\ d.items # {}
      BY <1>2, <3>2 DEF Inv, TypeOK, Drafts
    <3> QED BY <3>1, <3>3 DEF Own
  <2>3. d.items \subseteq Products
    BY <2>2 DEF Draft
  <2>4. \A p \in d.items : shippedOn[p] = None
    BY <1>2, <2>2, <2>3 DEF Inv, Stock
  <2> HIDE DEF d, v
  <2>5. \A p \in d.items : shippedOn'[p] = v
    BY <2>1, <2>3
  <2>6. \A p \in Products : shippedOn'[p] # shippedOn[p] =>
            shippedOn[p] = None /\ dispatch[shippedOn'[p]] = "AT_GATE"
    BY <2>1, <2>2, <2>4
  <2>7. ASSUME NEW w \in Dispatches, dispatch'[w] = "DEPARTED", dispatch[w] # "DEPARTED"
        PROVE  \E p \in Products : shippedOn[p] = None /\ shippedOn'[p] = w
    <3>1. w = v
      BY <1>2, <2>1, <2>7 DEF Inv, TypeOK
    <3>2. PICK p \in d.items : TRUE
      BY <2>2
    <3> QED BY <2>3, <2>4, <2>5, <3>1, <3>2
  <2> QED BY <2>6, <2>7
<1>3. ASSUME Inv, NEW v \in Dispatches, CreateNewDispatch(v) \/ ScanDriver(v) PROVE Loaded
  <2>1. /\ dispatch' = [dispatch EXCEPT ![v] = "SCHEDULED"] \/ dispatch' = [dispatch EXCEPT ![v] = "AT_GATE"]
        /\ shippedOn' = shippedOn
    BY <1>3 DEF CreateNewDispatch, ScanDriver, UpdateDispatchToAtGate
  <2>2. \A w \in Dispatches : dispatch'[w] = dispatch[w] \/ dispatch'[w] # "DEPARTED"
    BY <1>3, <2>1 DEF Inv, TypeOK
  <2> QED BY <2>1, <2>2
<1>4. Inv /\ [Next]_vars => [Loaded]_vars
  <2> SUFFICES ASSUME Inv, Next PROVE Loaded
    OBVIOUS
  <2> USE DEF stockVars, shippingVars
  <2>1. CASE SettleOutbound
    BY <1>1, <2>1 DEF SettleOutbound
  <2>2. CASE NextAssembly /\ UNCHANGED shippingVars
    BY <1>1, <2>2
  <2>3. CASE NextShipping
    BY <1>1, <1>2, <1>3, <2>3 DEF NextShipping, DraftShip, CheckShip, SubmitShip
  <2>4. CASE \E r \in Requests : Abort(r)
    BY <1>1, <2>4 DEF Abort
  <2> QED BY <2>1, <2>2, <2>3, <2>4 DEF Next
<1> QED BY <1>4, SpecInv, PTL DEF Spec, LoadedAtGate

-----------------------------------------------------------------------------
(* The refinement of Custody. *)

LEMMA SameSettled == Settled(log, log') => C!Settled(log, log')
  BY SameCardinality DEF C!Settled, C!NextToSettle, C!Verdict, C!AtStageBefore, C!OnLedger, C!Failures, C!Receive,
     Settled, NextToSettle, Verdict, AtStageBefore, OnLedger, Failures

LEMMA StageOf ==
    /\ Stage["STORED"] = PutAway /\ Stage["ALLOCATED"] = PutAway /\ Stage["ASSEMBLED"] = PutAway
    /\ Stage["READY_TO_SHIP"] = Pick /\ Stage["SHIPPED"] = Ship
  BY DEF Stage, ProductStatuses

\* A step that keeps the stage of every product and the log.
LEMMA StagesSame ==
    ASSUME \A p \in Products : Stage[status'[p]] = Stage[status[p]], UNCHANGED log
    PROVE  UNCHANGED C!vars
<1>1. Stage' = Stage
  BY DEF Stage
<1> QED BY <1>1 DEF C!vars

\* A commit that moves a batch to a stage and signs it.
LEMMA BatchAdvances ==
    ASSUME NEW o \in Ops, op[o] \in Draft, NEW from \in ProductStatuses, NEW to \in ProductStatuses,
           Stage[from] = op[o].type - 1, Stage[to] = op[o].type,
           \A p \in op[o].items : status[p] = from,
           status' = [p \in Products |-> IF p \in op[o].items THEN to ELSE status[p]],
           WriteActions(o)
    PROVE  C!Next
<1> DEFINE type == op[o].type
           items == op[o].items
           held == [p \in Products |-> Stage[status[p]]]
<1>1. type \in 1..4 /\ items \in SUBSET Products
  BY DEF Draft
<1>2. Stage' = Stage
  BY DEF Stage
<1>3. log' = log \o C!Signed(type, items)
  BY SameSigned DEF WriteActions
<1>4. \A p \in items : held[p] = type - 1
  BY <1>1
<1>5. held' = [p \in Products |-> IF p \in items THEN type ELSE held[p]]
  BY <1>1, <1>2
<1>6. PICK t \in 1..4, i \in SUBSET Products : t = type /\ i = items
  BY <1>1
<1>7. C!Advance(t, i)
  BY <1>3, <1>4, <1>5, <1>6 DEF C!Advance
<1> QED BY <1>7 DEF C!Next, C!ActionTypes

LEMMA InitRefines == Init => C!Init
<1> SUFFICES ASSUME Init PROVE C!Init
  OBVIOUS
<1>1. [p \in Products |-> Stage[status[p]]] = [p \in Products |-> PutAway]
  BY StageOf DEF Init
<1> QED BY <1>1 DEF Init, C!Init

LEMMA NextRefines == Inv /\ [Next]_vars => [C!Next]_(C!vars)
<1> SUFFICES ASSUME Inv, [Next]_vars PROVE C!Next \/ UNCHANGED C!vars
  OBVIOUS
<1> USE DEF assemblyVars, shippingVars, stockVars, signedVars
<1>1. ASSUME UNCHANGED <<status, log>> PROVE UNCHANGED C!vars
  BY <1>1, StagesSame
<1>2. CASE UNCHANGED vars
  BY <1>1, <1>2 DEF vars
<1>3. CASE SettleOutbound
  <2>1. UNCHANGED [p \in Products |-> Stage[status[p]]]
    BY <1>3 DEF SettleOutbound, Stage
  <2>2. C!Settled(log, log')
    BY <1>3, SameSettled DEF SettleOutbound
  <2> QED BY <2>1, <2>2 DEF C!Next, C!Settle
<1>4. ASSUME NEW r \in Requests, CommitAllocate(r) PROVE UNCHANGED C!vars
  <2>1. status' = [p \in Products |-> IF tx[r].plan[p] # None THEN "ALLOCATED" ELSE status[p]] /\ UNCHANGED log
    BY <1>4 DEF CommitAllocate, UpdateProductAllocated
  <2>2. \A p \in Products : tx[r].plan[p] # None => status[p] = "STORED"
    BY <1>4 DEF CommitAllocate, Inv, Locks, Own
  <2> QED BY <2>1, <2>2, StageOf, StagesSame
<1>5. ASSUME NEW r \in Requests, PickProduct(r) PROVE UNCHANGED C!vars
  <2>1. PICK p \in tx[r].items : status[p] = "ALLOCATED" /\ status' = [status EXCEPT ![p] = "ASSEMBLED"]
    BY <1>5 DEF PickProduct, GetProductByIDForUpdate, SetProductAssembled
  <2>2. \A q \in Products : Stage[status'[q]] = Stage[status[q]]
    BY <2>1, StageOf DEF Inv, TypeOK
  <2> QED BY <1>5, <2>2, StagesSame DEF PickProduct
<1>6. ASSUME NEW r \in Requests, CommitUnload(r) PROVE C!Next
  <2> DEFINE o == tx[r].op
  <2>1. /\ o \in Ops /\ op[o] # None /\ op[o].type = Pick /\ \A p \in op[o].items : status[p] = "ASSEMBLED"
    BY <1>6 DEF CommitUnload, Inv, Locks, Own
  <2>2. op[o] \in Draft
    BY <2>1 DEF Inv, TypeOK
  <2>3. /\ status' = [p \in Products |-> IF p \in op[o].items THEN "READY_TO_SHIP" ELSE status[p]]
        /\ WriteActions(o)
    BY <1>6 DEF CommitUnload, MoveProductsToShippingBuffer
  <2>4. Stage["ASSEMBLED"] = op[o].type - 1 /\ Stage["READY_TO_SHIP"] = op[o].type
    BY <2>1, StageOf
  <2>5. "ASSEMBLED" \in ProductStatuses /\ "READY_TO_SHIP" \in ProductStatuses
    BY DEF ProductStatuses
  <2> HIDE DEF o
  <2> QED BY <2>1, <2>2, <2>3, <2>4, <2>5, BatchAdvances
<1>7. ASSUME NEW r \in Requests, CommitShip(r) PROVE C!Next
  <2> DEFINE o == tx[r].op
  <2>1. /\ o \in Ops /\ op[o] # None /\ op[o].type = Ship /\ \A p \in op[o].items : status[p] = "READY_TO_SHIP"
    BY <1>7 DEF CommitShip, Inv, Locks, Own
  <2>2. op[o] \in Draft
    BY <2>1 DEF Inv, TypeOK
  <2>3. /\ status' = [p \in Products |-> IF p \in op[o].items THEN "SHIPPED" ELSE status[p]]
        /\ WriteActions(o)
    BY <1>7 DEF CommitShip, BatchUpdateProductsShipped
  <2>4. Stage["READY_TO_SHIP"] = op[o].type - 1 /\ Stage["SHIPPED"] = op[o].type
    BY <2>1, StageOf
  <2>5. "READY_TO_SHIP" \in ProductStatuses /\ "SHIPPED" \in ProductStatuses
    BY DEF ProductStatuses
  <2> HIDE DEF o
  <2> QED BY <2>1, <2>2, <2>3, <2>4, <2>5, BatchAdvances
<1>8. CASE NextAssembly
  <2>1. ASSUME NEW r \in Requests,
               \/ \E d \in Destinations : Allocate(r, d)
               \/ AllocateLine(r) \/ AllocateOrderTx(r)
               \/ \E w \in Operators, p \in Products : CheckPick(r, w, p)
               \/ \E o \in Ops, w \in Operators, b \in ShippingBins : DraftUnloadToShippingBuffer(r, o, w, b)
               \/ \E o \in Ops : SubmitUnloadToShippingBuffer(r, o)
        PROVE  UNCHANGED <<status, log>>
    BY <2>1 DEF Allocate, AllocateLine, AllocateOrderTx, CheckPick, DraftUnloadToShippingBuffer, SubmitUnloadToShippingBuffer
  <2> QED BY <1>1, <1>4, <1>5, <1>6, <1>8, <2>1 DEF NextAssembly
<1>9. CASE NextShipping
  <2>1. ASSUME NEW v \in Dispatches, CreateNewDispatch(v) \/ ScanDriver(v) PROVE UNCHANGED <<status, log>>
    BY <2>1 DEF CreateNewDispatch, ScanDriver
  <2>2. ASSUME NEW r \in Requests,
               \/ \E o \in Ops, b \in ShippingBins, v \in Dispatches, items \in SUBSET Products :
                     DraftShip(r, o, b, v, items)
               \/ \E o \in Ops : CheckShip(r, o)
               \/ SubmitShip(r)
        PROVE  UNCHANGED <<status, log>>
    BY <2>2 DEF DraftShip, CheckShip, SubmitShip
  <2> QED BY <1>1, <1>7, <1>9, <2>1, <2>2 DEF NextShipping
<1>10. CASE \E r \in Requests : Abort(r)
  BY <1>1, <1>10 DEF Abort
<1> QED BY <1>2, <1>3, <1>8, <1>9, <1>10 DEF Next

\* Assembly and shipping implement Custody: a product passes the stages Pick and Ship in this
\* order, and the log says so for the same products in the same step.
THEOREM OutboundImplementsCustody == Spec => ImplementsCustody
<1>1. Spec => C!Init
  BY InitRefines DEF Spec
<1> QED BY <1>1, NextRefines, SpecInv, PTL DEF Spec, ImplementsCustody, C!Spec

-----------------------------------------------------------------------------
(* What leaves the warehouse is confirmed. *)

\* A stage that is on the ledger stays there, and the ledger has no Pick without its PutAway;
\* a shipment that passed its check has its picks there.
PickAfterPutAway == \A p \in Products : OnLedger(log, Pick, p) => OnLedger(log, PutAway, p)
Checked ==
    \A r \in Requests : tx[r].step \in {"confirmed", "ship"} =>
        \A p \in op[tx[r].op].items : OnLedger(log, Pick, p)
ShippedPicked == \A p \in Products : status[p] = "SHIPPED" => OnLedger(log, Pick, p)

Confirmed == PickAfterPutAway /\ Checked /\ ShippedPicked

\* Actions that are appended are not settled.
LEMMA OnLedgerAppend ==
    ASSUME NEW o \in Ops, op[o] \in Draft, log \in Seq(Action), WriteActions(o), NEW type, NEW p
    PROVE  OnLedger(log', type, p) <=> OnLedger(log, type, p)
<1> DEFINE s == Signed(op[o].type, op[o].items)
<1>1. s \in Seq(Action)
  BY SignedType DEF Draft
<1>2. \A k \in DOMAIN s : s[k].outcome = "PENDING"
  BY DEF Signed
<1>3. log' = log \o s
  BY DEF WriteActions
<1> HIDE DEF s
<1>4. DOMAIN s = 1..Len(s) /\ DOMAIN log = 1..Len(log) /\ Len(s) \in Nat /\ Len(log) \in Nat
  BY <1>1
<1>5. /\ DOMAIN log' = 1..(Len(log) + Len(s))
      /\ \A i \in 1..Len(log) : log'[i] = log[i]
      /\ \A i \in (Len(log) + 1)..(Len(log) + Len(s)) : log'[i] = s[i - Len(log)]
  BY <1>1, <1>3, <1>4
<1>6. \A i \in (Len(log) + 1)..(Len(log) + Len(s)) : log'[i].outcome = "PENDING"
  BY <1>2, <1>4, <1>5
<1>7. \A i \in DOMAIN log' : log'[i].outcome = "COMMITTED" => i \in DOMAIN log
  <2>1. \A i \in 1..(Len(log) + Len(s)) : i \in 1..Len(log) \/ i \in (Len(log) + 1)..(Len(log) + Len(s))
    BY <1>4
  <2> QED BY <1>4, <1>5, <1>6, <2>1
<1>8. \A i \in DOMAIN log : i \in DOMAIN log' /\ log'[i] = log[i]
  BY <1>4, <1>5
<1> QED BY <1>7, <1>8 DEF OnLedger

\* A settlement keeps what is on the ledger, and puts a stage there only after the one before.
LEMMA OnLedgerSettle ==
    ASSUME log \in Seq(Action), Settled(log, log'), NEW p
    PROVE  /\ \A type : OnLedger(log, type, p) => OnLedger(log', type, p)
           /\ OnLedger(log', Pick, p) => OnLedger(log, Pick, p) \/ OnLedger(log, PutAway, p)
<1>1. PICK i \in DOMAIN log :
          /\ NextToSettle(log, i)
          /\ \E o \in {Verdict(log, i)} \union (IF Failures(log) < MaxFailures THEN {"FAILED"} ELSE {}) :
                log' = [log EXCEPT ![i].outcome = o]
  BY DEF Settled
<1>2. PICK o \in {Verdict(log, i), "FAILED"} : log' = [log EXCEPT ![i].outcome = o]
  BY <1>1
<1>3. log[i].outcome = "PENDING" /\ log[i] \in Action
  BY <1>1 DEF NextToSettle
<1>4. log'[i].type = log[i].type /\ log'[i].items = log[i].items /\ log'[i].outcome = o
  BY <1>2, <1>3 DEF Action
<1>5. DOMAIN log' = DOMAIN log /\ \A j \in DOMAIN log : j # i => log'[j] = log[j]
  BY <1>2
<1>6. \A type : OnLedger(log, type, p) => OnLedger(log', type, p)
  BY <1>3, <1>5 DEF OnLedger
<1>7. ASSUME OnLedger(log', Pick, p), ~OnLedger(log, Pick, p) PROVE OnLedger(log, PutAway, p)
  <2>1. PICK j \in DOMAIN log : log'[j].type = Pick /\ p \in log'[j].items /\ log'[j].outcome = "COMMITTED"
    BY <1>5, <1>7 DEF OnLedger
  <2>2. j = i
    BY <1>5, <1>7, <2>1 DEF OnLedger
  <2>3. Verdict(log, i) = "COMMITTED" /\ log[i].type = Pick /\ p \in log[i].items
    BY <1>2, <1>4, <2>1, <2>2
  <2>4. AtStageBefore(log, Pick, p)
    BY <2>3 DEF Verdict
  <2> QED BY <2>4 DEF AtStageBefore
<1> QED BY <1>6, <1>7

\* At the start nothing is picked.
LEMMA InitConfirmed == Init => Confirmed
<1> SUFFICES ASSUME Init PROVE Confirmed
  OBVIOUS
<1>1. \A i \in DOMAIN log : log[i].type # Pick
  <2> DEFINE s2 == Signed(PutAway, Products)
             h == [k \in 1..C!Parts(Products) |-> [C!Signed(1, Products)[k] EXCEPT !.outcome = "COMMITTED"]]
  <2>1. log = h \o s2
    <3>1. C!Signed(2, Products) = s2
      BY SameSigned
    <3>2. log = h \o C!Signed(2, Products)
      BY DEF Init, C!History, C!PutAway, C!Receive
    <3> HIDE DEF h, s2
    <3> QED BY <3>1, <3>2, Zenon
  <2>2. C!Parts(Products) = Parts(Products) /\ C!Signed(1, Products) = Signed(1, Products)
    BY SameCardinality, SameSigned DEF C!Parts, Parts
  <2>3. Signed(1, Products) \in Seq(Action) /\ s2 \in Seq(Action)
    BY SignedType
  <2>4. DOMAIN Signed(1, Products) = 1..Parts(Products) /\ Parts(Products) = Len(Signed(1, Products))
    BY <2>3, PartsType DEF Signed
  <2>5. \A k \in 1..Parts(Products) : Signed(1, Products)[k] \in Action /\ Signed(1, Products)[k].type = 1
    <3>1. \A k \in 1..Parts(Products) : Signed(1, Products)[k] \in Action
      BY <2>3, <2>4
    <3>2. \A k \in 1..Parts(Products) : Signed(1, Products)[k].type = 1
      BY DEF Signed
    <3> QED BY <3>1, <3>2
  <2>6. \A k \in DOMAIN s2 : s2[k].type = 2
    BY DEF Signed
  <2>7. \A k \in 1..Parts(Products) : h[k] \in Action /\ h[k].type = 1
    BY <2>2, <2>5 DEF Action, Outcomes
  <2>8. h \in Seq(Action) /\ Len(h) = Parts(Products)
    <3>1. h = [k \in 1..Parts(Products) |-> h[k]]
      BY <2>2
    <3> HIDE DEF h
    <3> QED BY <2>7, <3>1, PartsType
  <2> HIDE DEF h, s2
  <2>9. /\ DOMAIN log = 1..(Len(h) + Len(s2)) /\ Len(h) \in Nat /\ Len(s2) \in Nat
        /\ \A i \in 1..(Len(h) + Len(s2)) : log[i] = IF i <= Len(h) THEN h[i] ELSE s2[i - Len(h)]
    BY <2>1, <2>3, <2>8
  <2>10. \A i \in 1..(Len(h) + Len(s2)) : i <= Len(h) => log[i].type = 1
    BY <2>7, <2>8, <2>9
  <2>11. \A i \in 1..(Len(h) + Len(s2)) : ~(i <= Len(h)) => log[i].type = 2
    BY <2>3, <2>6, <2>9
  <2> QED BY <2>9, <2>10, <2>11
<1>2. \A p \in Products : ~OnLedger(log, Pick, p)
  BY <1>1 DEF OnLedger
<1> QED BY <1>2 DEF Init, Confirmed, PickAfterPutAway, Checked, ShippedPicked, Idle

\* A step keeps Confirmed when the ledger only grows, and what is shipped, or checked for a
\* shipment, was picked on the ledger before the step.
LEMMA ConfirmedKept ==
    ASSUME Confirmed,
           \A p \in Products : /\ \A type \in ActionTypes : OnLedger(log, type, p) => OnLedger(log', type, p)
                               /\ OnLedger(log', Pick, p) => OnLedger(log, Pick, p) \/ OnLedger(log, PutAway, p),
           \A r \in Requests : tx'[r].step \in {"confirmed", "ship"} =>
               \A p \in op'[tx'[r].op].items : p \in Products /\ OnLedger(log, Pick, p),
           \A p \in Products : status'[p] = "SHIPPED" => OnLedger(log, Pick, p)
    PROVE  Confirmed'
<1>1. PickAfterPutAway'
  BY DEF Confirmed, PickAfterPutAway
<1>2. Checked'
  BY DEF Checked
<1>3. ShippedPicked'
  BY DEF ShippedPicked
<1> QED BY <1>1, <1>2, <1>3 DEF Confirmed

\* What a transaction was checked for stays checked while its operation stays.
LEMMA CheckedKept ==
    ASSUME Inv, Confirmed, NEW r \in Requests, tx[r].step \in {"confirmed", "ship"}, op'[tx[r].op] = op[tx[r].op]
    PROVE  \A p \in op'[tx[r].op].items : p \in Products /\ OnLedger(log, Pick, p)
<1>1. tx[r].op \in Ops /\ op[tx[r].op] \in Draft
  BY DEF Inv, TypeOK, Locks, Own
<1> QED BY <1>1 DEF Draft, Confirmed, Checked

LEMMA ConfirmedInductive == Inv /\ Confirmed /\ [Next]_vars => Confirmed'
<1> SUFFICES ASSUME Inv, Confirmed, [Next]_vars PROVE Confirmed'
  OBVIOUS
<1> USE DEF assemblyVars, shippingVars, stockVars, signedVars
<1> DEFINE Ledger == \A p \in Products :
               /\ \A type \in ActionTypes : OnLedger(log, type, p) => OnLedger(log', type, p)
               /\ OnLedger(log', Pick, p) => OnLedger(log, Pick, p) \/ OnLedger(log, PutAway, p)
           Others == \A q \in Requests : tx'[q].step \in {"confirmed", "ship"} =>
               \A p \in op'[tx'[q].op].items : p \in Products /\ OnLedger(log, Pick, p)
           Gone == \A p \in Products : status'[p] = "SHIPPED" => OnLedger(log, Pick, p)
<1>0. ASSUME Ledger, Others, Gone PROVE Confirmed'
  BY <1>0, ConfirmedKept
<1>1. ASSUME UNCHANGED log PROVE Ledger
  BY <1>1
<1>2. ASSUME UNCHANGED status PROVE Gone
  BY <1>2 DEF Confirmed, ShippedPicked
<1>3. ASSUME UNCHANGED op, NEW r \in Requests, \A q \in Requests \ {r} : tx'[q] = tx[q],
             tx'[r].step \in {"confirmed", "ship"} =>
                 \A p \in op[tx'[r].op].items : p \in Products /\ OnLedger(log, Pick, p)
      PROVE  Others
  <2> SUFFICES ASSUME NEW q \in Requests, tx'[q].step \in {"confirmed", "ship"}
               PROVE  \A p \in op'[tx'[q].op].items : p \in Products /\ OnLedger(log, Pick, p)
    OBVIOUS
  <2>1. CASE q = r
    BY <1>3, <2>1
  <2>2. CASE q # r
    BY <1>3, <2>2, CheckedKept
  <2> QED BY <2>1, <2>2
<1>4. ASSUME UNCHANGED op, NEW r \in Requests, tx' = [tx EXCEPT ![r] = Idle] PROVE Others
  BY <1>3, <1>4 DEF Idle, Inv, TypeOK
<1>5. ASSUME UNCHANGED tx, \A o \in Ops : op[o] # None => op'[o] = op[o] PROVE Others
  <2>1. \A q \in Requests : tx[q].step \in {"confirmed", "ship"} => op'[tx[q].op] = op[tx[q].op]
    BY <1>5 DEF Inv, Locks, Own
  <2> QED BY <1>5, <2>1, CheckedKept
<1>6. ASSUME NEW o \in Ops, NEW type, NEW by, NEW items, NEW target, InsertOperation(o, type, by, items, target)
      PROVE  \A x \in Ops : op[x] # None => op'[x] = op[x]
  BY <1>6 DEF InsertOperation, Inv, TypeOK
<1>7. ASSUME NEW r \in Requests, tx[r].step \in {"unload", "ship"}, WriteActions(tx[r].op) PROVE Ledger /\ UNCHANGED op
  <2>1. tx[r].op \in Ops /\ op[tx[r].op] \in Draft /\ log \in Seq(Action)
    BY <1>7 DEF Inv, TypeOK, Locks, Own
  <2>2. \A p, type : OnLedger(log', type, p) <=> OnLedger(log, type, p)
    BY <1>7, <2>1, OnLedgerAppend
  <2> QED BY <1>7, <2>2 DEF WriteActions
<1> HIDE DEF Ledger, Others, Gone
<1>8. CASE UNCHANGED vars
  BY <1>0, <1>1, <1>2, <1>5, <1>8 DEF vars
<1>9. CASE SettleOutbound
  <2>1. Ledger
    BY <1>9, OnLedgerSettle DEF Ledger, SettleOutbound, Inv, TypeOK
  <2> QED BY <1>0, <1>2, <1>5, <1>9, <2>1 DEF SettleOutbound
<1>10. CASE \E r \in Requests : Abort(r)
  BY <1>0, <1>1, <1>2, <1>4, <1>10 DEF Abort
<1>11. ASSUME NEW r \in Requests, NEW d \in Destinations, Allocate(r, d) PROVE Confirmed'
  <2>1. (\A q \in Requests \ {r} : tx'[q] = tx[q]) /\ tx'[r].step = "allocate"
    BY <1>11 DEF Allocate, Begin, Idle, Inv, TypeOK
  <2> QED BY <1>0, <1>1, <1>2, <1>3, <1>11, <2>1 DEF Allocate
<1>12. ASSUME NEW r \in Requests, AllocateLine(r) \/ AllocateOrderTx(r), UNCHANGED shippingVars PROVE Confirmed'
  <2>1. (\A q \in Requests \ {r} : tx'[q] = tx[q]) /\ tx'[r].step = "allocate"
    BY <1>12, AllocateLineInv, AllocateOrderInv
  <2>2. UNCHANGED <<status, op, log>>
    BY <1>12 DEF AllocateLine, AllocateOrderTx
  <2> QED BY <1>0, <1>1, <1>2, <1>3, <2>1, <2>2
<1>13. ASSUME NEW r \in Requests, CommitAllocate(r) PROVE Confirmed'
  <2>1. Gone
    BY <1>13 DEF Gone, CommitAllocate, UpdateProductAllocated, Confirmed, ShippedPicked
  <2> QED BY <1>0, <1>1, <1>4, <1>13, <2>1 DEF CommitAllocate
<1>14. ASSUME NEW r \in Requests, NEW w \in Operators, NEW p \in Products, CheckPick(r, w, p) PROVE Confirmed'
  <2>1. (\A q \in Requests \ {r} : tx'[q] = tx[q]) /\ tx'[r].step = "pick"
    BY <1>14 DEF CheckPick, Begin, Idle, Inv, TypeOK
  <2> QED BY <1>0, <1>1, <1>2, <1>3, <1>14, <2>1 DEF CheckPick
<1>15. ASSUME NEW r \in Requests, PickProduct(r) PROVE Confirmed'
  <2>1. Gone
    BY <1>15 DEF Gone, PickProduct, SetProductAssembled, Confirmed, ShippedPicked, Inv, TypeOK
  <2> QED BY <1>0, <1>1, <1>4, <1>15, <2>1 DEF PickProduct
<1>16. ASSUME NEW r \in Requests, NEW o \in Ops, NEW w \in Operators, NEW b \in ShippingBins,
              DraftUnloadToShippingBuffer(r, o, w, b)
       PROVE  Confirmed'
  <2>1. \A x \in Ops : op[x] # None => op'[x] = op[x]
    BY <1>6, <1>16 DEF DraftUnloadToShippingBuffer
  <2> QED BY <1>0, <1>1, <1>2, <1>5, <1>16, <2>1 DEF DraftUnloadToShippingBuffer
<1>17. ASSUME NEW r \in Requests, NEW o \in Ops, SubmitUnloadToShippingBuffer(r, o) PROVE Confirmed'
  <2>1. (\A q \in Requests \ {r} : tx'[q] = tx[q]) /\ tx'[r].step = "unload"
    BY <1>17 DEF SubmitUnloadToShippingBuffer, Begin, Idle, Inv, TypeOK
  <2> QED BY <1>0, <1>1, <1>2, <1>3, <1>17, <2>1 DEF SubmitUnloadToShippingBuffer
<1>18. ASSUME NEW r \in Requests, CommitUnload(r) PROVE Confirmed'
  <2>1. Gone
    BY <1>18 DEF Gone, CommitUnload, MoveProductsToShippingBuffer, Confirmed, ShippedPicked
  <2>2. Ledger /\ UNCHANGED op /\ tx' = [tx EXCEPT ![r] = Idle]
    BY <1>7, <1>18 DEF CommitUnload
  <2> QED BY <1>0, <1>4, <2>1, <2>2
<1>19. ASSUME NEW v \in Dispatches, CreateNewDispatch(v) \/ ScanDriver(v) PROVE Confirmed'
  BY <1>0, <1>1, <1>2, <1>5, <1>19 DEF CreateNewDispatch, ScanDriver
<1>20. ASSUME NEW r \in Requests, NEW o \in Ops, NEW b \in ShippingBins, NEW v \in Dispatches,
              NEW items \in SUBSET Products, DraftShip(r, o, b, v, items)
       PROVE  Confirmed'
  <2>1. \A x \in Ops : op[x] # None => op'[x] = op[x]
    BY <1>6, <1>20 DEF DraftShip
  <2> QED BY <1>0, <1>1, <1>2, <1>5, <1>20, <2>1 DEF DraftShip
<1>21. ASSUME NEW r \in Requests, NEW o \in Ops, CheckShip(r, o) PROVE Confirmed'
  <2>1. (\A q \in Requests \ {r} : tx'[q] = tx[q]) /\ tx'[r].op = o
    BY <1>21 DEF CheckShip, Begin, Idle, Inv, TypeOK
  <2>2. op[o] \in Draft /\ UnconfirmedProducts(op[o].items, Pick) = {}
    BY <1>21 DEF CheckShip, Operation, Inv, TypeOK
  <2>3. \A p \in op[o].items : p \in Products /\ OnLedger(log, Pick, p)
    BY <2>2 DEF Draft, UnconfirmedProducts, OnLedger
  <2> QED BY <1>0, <1>1, <1>2, <1>3, <1>21, <2>1, <2>3 DEF CheckShip
<1>22. ASSUME NEW r \in Requests, SubmitShip(r) PROVE Confirmed'
  <2>1. (\A q \in Requests \ {r} : tx'[q] = tx[q]) /\ tx'[r].op = tx[r].op
    BY <1>22 DEF SubmitShip, Inv, TypeOK, Transaction
  <2>2. tx[r].step = "confirmed" /\ UNCHANGED <<status, op, log>>
    BY <1>22 DEF SubmitShip
  <2>3. \A p \in op[tx[r].op].items : p \in Products /\ OnLedger(log, Pick, p)
    BY <2>2, CheckedKept
  <2> QED BY <1>0, <1>1, <1>2, <1>3, <2>1, <2>2, <2>3
<1>23. ASSUME NEW r \in Requests, CommitShip(r) PROVE Confirmed'
  <2>1. Ledger /\ UNCHANGED op /\ tx' = [tx EXCEPT ![r] = Idle]
    BY <1>7, <1>23 DEF CommitShip
  <2>2. \A p \in op[tx[r].op].items : OnLedger(log, Pick, p)
    BY <1>23 DEF CommitShip, Confirmed, Checked
  <2>3. Gone
    BY <1>23, <2>2 DEF Gone, CommitShip, BatchUpdateProductsShipped, Confirmed, ShippedPicked
  <2> QED BY <1>0, <1>4, <2>1, <2>3
<1>24. CASE NextAssembly /\ UNCHANGED shippingVars
  BY <1>11, <1>12, <1>13, <1>14, <1>15, <1>16, <1>17, <1>18, <1>24 DEF NextAssembly
<1>25. CASE NextShipping
  BY <1>19, <1>20, <1>21, <1>22, <1>23, <1>25 DEF NextShipping
<1> QED BY <1>8, <1>9, <1>10, <1>24, <1>25 DEF Next

\* A product leaves the warehouse only with its whole history on the ledger, although its
\* transaction begins after the check and other requests run in between.
THEOREM ShippedConfirmed == Spec => []ShippedIsConfirmed
<1>1. Confirmed => ShippedIsConfirmed
  BY DEF Confirmed, PickAfterPutAway, ShippedPicked, ShippedIsConfirmed
<1> QED BY <1>1, InitConfirmed, ConfirmedInductive, SpecInv, PTL DEF Spec

-----------------------------------------------------------------------------
(* Orders: their products and their status. *)

\* What a transaction relies on for the orders it has locked. An allocation has orders that
\* are NEW, a plan that gives the ones in full exactly their lines, and for the lines of the
\* first of todo that are not short exactly what they want, from products that the plan has
\* not given away (Gathered); an unload has orders that are ALLOCATED; a shipment has all
\* orders of its products, none of them SHIPPED, and full are those that it completes.
Gathered(t) ==
    /\ t.lack \subseteq t.seen
    /\ \A p \in t.items : t.plan[p] = None
    /\ \A o \in t.todo : (\A y \in t.todo : o <= y) =>
          /\ \A s \in t.seen \ t.lack : Cardinality({p \in t.items : SkuOf[p] = s}) = Lines[o][s]
          /\ \A p \in t.items : SkuOf[p] \in t.seen \ t.lack

OrdersOwn(t) ==
    /\ t.full \subseteq t.orders
    /\ t.step \notin {"allocate", "unload", "ship"} => t.orders = {}
    /\ t.step = "allocate" =>
          /\ t.todo \subseteq t.orders \ t.full /\ Gathered(t)
          /\ \A o \in t.orders : order[o] = "NEW"
          /\ \A p \in Products : t.plan[p] # None => t.plan[p] \in t.full
          /\ \A o \in t.full : \A s \in Skus :
                Cardinality({p \in Products : t.plan[p] = o /\ SkuOf[p] = s}) = Lines[o][s]
    /\ t.step = "unload" => \A o \in t.orders : order[o] = "ALLOCATED"
    /\ t.step = "ship" =>
          /\ \A p \in t.rows : orderOf[p] \in t.orders
          /\ \A o \in t.orders : /\ \E p \in t.rows : orderOf[p] = o
                                 /\ order[o] \in {"ALLOCATED", "ASSEMBLED", "PARTIALLY_SHIPPED"}
                                 /\ o \in t.full <=> \A p \in ProductsOf(o) : p \in t.rows \/ status[p] = "SHIPPED"

OrderLocks ==
    \A r \in Requests : OrdersOwn(tx[r]) /\ \A q \in Requests \ {r} : tx[r].orders \intersect tx[q].orders = {}

\* An order is NEW as long as it has no products, and nothing of a SHIPPED order is left.
OrderStages ==
    \A o \in Orders : /\ order[o] = "NEW" => ProductsOf(o) = {}
                      /\ order[o] = "SHIPPED" => \A p \in ProductsOf(o) : status[p] = "SHIPPED"

OrderInv == OrderLocks /\ OrderStages /\ OrderStatusTrue /\ AllocationExact

\* At the start no order has a product and no request runs.
LEMMA InitOrders == Init => OrderInv
<1> SUFFICES ASSUME Init PROVE OrderInv
  OBVIOUS
<1>1. \A o \in Orders : ProductsOf(o) = {} /\ order[o] = "NEW"
  BY AssemblyAssumption DEF Init, ProductsOf
<1>2. OrderLocks
  <2>1. OrdersOwn(Idle)
    BY DEF OrdersOwn, Idle
  <2> QED BY <2>1 DEF Init, OrderLocks, Idle
<1>3. AllocationExact
  <2>1. \A o \in Orders : \A s \in Skus : {p \in ProductsOf(o) : SkuOf[p] = s} = {}
    BY <1>1
  <2> QED BY <1>1, <2>1, FS_EmptySet DEF AllocationExact
<1> QED BY <1>1, <1>2, <1>3 DEF OrderInv, OrderStages, OrderStatusTrue

\* A step that moves no order, gives no product away and ships nothing.
LEMMA OrdersSame ==
    ASSUME OrderInv, UNCHANGED <<order, orderOf>>,
           \A p \in Products : status'[p] = "SHIPPED" <=> status[p] = "SHIPPED"
    PROVE  (OrderStages /\ OrderStatusTrue /\ AllocationExact)'
<1>1. \A o : ProductsOf(o)' = ProductsOf(o) /\ ProductsOf(o) \subseteq Products
  BY DEF ProductsOf
<1>2. OrderStages'
  BY <1>1 DEF OrderInv, OrderStages
<1>3. OrderStatusTrue'
  <2> SUFFICES ASSUME NEW o \in Orders, {p \in ProductsOf(o) : status'[p] = "SHIPPED"} # {}
               PROVE  order'[o] = IF {p \in ProductsOf(o) : status'[p] = "SHIPPED"} = ProductsOf(o)
                                  THEN "SHIPPED" ELSE "PARTIALLY_SHIPPED"
    BY <1>1 DEF OrderStatusTrue
  <2>1. {p \in ProductsOf(o) : status'[p] = "SHIPPED"} = {p \in ProductsOf(o) : status[p] = "SHIPPED"}
    BY <1>1
  <2> QED BY <2>1 DEF OrderInv, OrderStatusTrue
<1>4. AllocationExact'
  BY <1>1 DEF OrderInv, AllocationExact
<1> QED BY <1>2, <1>3, <1>4

\* A step of request r that changes only what its transaction has locked.
LEMMA OrderLockStep ==
    ASSUME OrderInv, NEW r \in Requests, UNCHANGED <<status, order, orderOf>>,
           \A q \in Requests \ {r} : tx'[q] = tx[q] /\ tx'[r].orders \intersect tx[q].orders = {},
           OrdersOwn(tx'[r])
    PROVE  OrderInv'
<1>1. ASSUME NEW q \in Requests PROVE OrdersOwn(tx[q])'
  <2>1. OrdersOwn(tx'[q])
    BY DEF OrderInv, OrderLocks
  <2> QED BY <2>1 DEF OrdersOwn, ProductsOf
<1>2. ASSUME NEW q \in Requests, NEW z \in Requests \ {q} PROVE tx'[q].orders \intersect tx'[z].orders = {}
  BY DEF OrderInv, OrderLocks
<1>3. (OrderStages /\ OrderStatusTrue /\ AllocationExact)'
  BY OrdersSame
<1> QED BY <1>1, <1>2, <1>3 DEF OrderInv, OrderLocks

\* The orders that a transaction has locked stay as they are when another one ends.
LEMMA OrderCommit ==
    ASSUME Inv, OrderInv, NEW r \in Requests, tx' = [tx EXCEPT ![r] = Idle],
           \A q \in Requests \ {r} : \A o \in tx[q].orders :
               /\ order'[o] = order[o]
               /\ \A p \in Products : /\ orderOf'[p] = o <=> orderOf[p] = o
                                      /\ orderOf[p] = o => (status'[p] = "SHIPPED" <=> status[p] = "SHIPPED")
    PROVE  OrderLocks'
<1>1. tx'[r] = Idle /\ \A q \in Requests \ {r} : tx'[q] = tx[q]
  BY DEF Inv, TypeOK
<1>2. ASSUME NEW q \in Requests PROVE OrdersOwn(tx[q])'
  <2>1. CASE q = r
    BY <1>1, <2>1 DEF OrdersOwn, Idle
  <2>2. CASE q # r
    <3>1. tx'[q] = tx[q] /\ OrdersOwn(tx[q]) /\ tx[q].rows \subseteq Products
      BY <1>1, <2>2 DEF Inv, TypeOK, Transaction, OrderInv, OrderLocks
    <3>2. \A o \in tx[q].orders : order'[o] = order[o]
      BY <2>2
    <3>3. ASSUME tx[q].step = "ship"
          PROVE  /\ \A p \in tx[q].rows : orderOf'[p] \in tx[q].orders
                 /\ \A o \in tx[q].orders : \E p \in tx[q].rows : orderOf'[p] = o
      BY <2>2, <3>1, <3>3 DEF OrdersOwn
    <3>4. ASSUME tx[q].step = "ship", NEW o \in tx[q].orders
          PROVE  o \in tx[q].full <=> \A p \in ProductsOf(o)' : p \in tx[q].rows \/ status'[p] = "SHIPPED"
      <4>1. o \in tx[q].full <=> \A p \in ProductsOf(o) : p \in tx[q].rows \/ status[p] = "SHIPPED"
        BY <3>1, <3>4 DEF OrdersOwn
      <4>2. ProductsOf(o)' = ProductsOf(o)
        BY <2>2, <3>4 DEF ProductsOf
      <4>3. \A p \in ProductsOf(o) : status'[p] = "SHIPPED" <=> status[p] = "SHIPPED"
        BY <2>2, <3>4 DEF ProductsOf
      <4> QED BY <4>1, <4>2, <4>3
    <3>5. PICK t : t = tx[q] /\ t = tx'[q]
      BY <3>1
    <3>6. /\ t.full \subseteq t.orders
          /\ t.step \notin {"allocate", "unload", "ship"} => t.orders = {}
          /\ t.step = "allocate" =>
                /\ t.todo \subseteq t.orders \ t.full /\ Gathered(t)
                /\ \A o \in t.orders : order'[o] = "NEW"
                /\ \A p \in Products : t.plan[p] # None => t.plan[p] \in t.full
                /\ \A o \in t.full : \A s \in Skus :
                      Cardinality({p \in Products : t.plan[p] = o /\ SkuOf[p] = s}) = Lines[o][s]
          /\ t.step = "unload" => \A o \in t.orders : order'[o] = "ALLOCATED"
      BY <3>1, <3>2, <3>5 DEF OrdersOwn
    <3>7. t.step = "ship" => \A o \in t.orders : order'[o] \in {"ALLOCATED", "ASSEMBLED", "PARTIALLY_SHIPPED"}
      BY <3>1, <3>2, <3>5 DEF OrdersOwn
    <3> QED BY <3>3, <3>4, <3>5, <3>6, <3>7 DEF OrdersOwn
  <2> QED BY <2>1, <2>2
<1>3. ASSUME NEW q \in Requests, NEW z \in Requests \ {q} PROVE tx'[q].orders \intersect tx'[z].orders = {}
  BY <1>1 DEF OrderInv, OrderLocks, Idle
<1> QED BY <1>2, <1>3 DEF OrderLocks

LEMMA AllocateOrders ==
    ASSUME Inv, OrderInv, NEW r \in Requests, NEW d \in Destinations, Allocate(r, d)
    PROVE  OrderInv'
<1> DEFINE os == GetOrdersByDestinationForUpdate(r, d)
           t == [Idle EXCEPT !.step = "allocate", !.orders = os, !.todo = os]
<1>1. \A o \in os : order[o] = "NEW" /\ \A q \in Requests \ {r} : tx[q].orders \intersect {o} = {}
  BY DEF GetOrdersByDestinationForUpdate, Oldest, OrdersFree
<1>2. tx' = [tx EXCEPT ![r] = t] /\ UNCHANGED <<status, order, orderOf>>
  BY DEF Allocate, Begin, assemblyVars
<1> HIDE DEF os
<1>3. /\ t.step = "allocate" /\ t.orders = os /\ t.todo = os /\ t.full = {}
      /\ t.items = {} /\ t.seen = {} /\ t.lack = {} /\ \A p \in Products : t.plan[p] = None
  BY DEF Idle
<1> HIDE DEF t
<1>4. tx'[r] = t /\ \A q \in Requests \ {r} : tx'[q] = tx[q]
  BY <1>2 DEF Inv, TypeOK
<1>5. OrdersOwn(t)
  BY <1>1, <1>3 DEF OrdersOwn, Gathered
<1> QED BY <1>1, <1>2, <1>3, <1>4, <1>5, OrderLockStep

\* A line adds exactly what it wants to what was found, or nothing.
LEMMA AllocateLineOrders ==
    ASSUME Inv, OrderInv, NEW r \in Requests, AllocateLine(r), UNCHANGED shippingVars
    PROVE  OrderInv'
<1>1. PICK u \in Transaction, o \in tx[r].todo, s \in Skus, F \in SUBSET Products, lacks \in BOOLEAN :
          tx' = [tx EXCEPT ![r] = u] /\ LooksUp(tx[r], u, o, s, F, lacks)
  BY AllocateLineLooksUp
<1>2. /\ tx[r].step = "allocate" /\ UNCHANGED <<status, order, orderOf>>
      /\ tx'[r] = u /\ \A q \in Requests \ {r} : tx'[q] = tx[q]
  BY <1>1, AllocateLineLooksUp DEF stockVars, assemblyVars, Inv, TypeOK
<1>3. PICK t \in Transaction : t = tx[r]
  BY DEF Inv, TypeOK
<1>4. OrdersOwn(t) /\ t.step = "allocate" /\ LooksUp(t, u, o, s, F, lacks) /\ o \in t.todo
  BY <1>1, <1>2, <1>3 DEF OrderInv, OrderLocks
<1>5. Gathered(t) /\ t.todo \subseteq Orders
  BY <1>4 DEF OrdersOwn, Transaction
<1>6. ASSUME NEW x \in u.todo, \A y \in u.todo : x <= y PROVE x = o
  <2>1. u.todo = t.todo /\ \A y \in t.todo : o <= y
    BY <1>4 DEF LooksUp
  <2>2. o <= x /\ x <= o /\ o \in Nat /\ x \in Nat
    BY <1>4, <1>5, <1>6, <2>1, AssemblyAssumption
  <2> QED BY <2>2
<1>7. /\ s \notin t.seen \ t.lack /\ s \notin t.lack /\ \A p \in t.items : SkuOf[p] \in t.seen \ t.lack
      /\ \A z \in t.seen \ t.lack : Cardinality({p \in t.items : SkuOf[p] = z}) = Lines[o][z]
  BY <1>4, <1>5 DEF Gathered, LooksUp
<1>8. u.lack \subseteq u.seen /\ \A p \in u.items : u.plan[p] = None
  BY <1>4, <1>5 DEF Gathered, LooksUp
<1>9. \A p \in u.items : SkuOf[p] \in u.seen \ u.lack
  BY <1>4, <1>7 DEF LooksUp
<1>10. ASSUME NEW z \in u.seen \ u.lack
       PROVE  Cardinality({p \in u.items : SkuOf[p] = z}) = Lines[o][z]
  <2>1. CASE z = s
    <3>1. ~lacks /\ u.items = t.items \union F /\ Cardinality(F) = Lines[o][s]
      BY <1>4, <1>7, <1>10, <2>1 DEF LooksUp
    <3>2. \A p \in F : SkuOf[p] = s
      BY <1>4 DEF LooksUp
    <3>3. {p \in u.items : SkuOf[p] = z} = F
      BY <1>7, <2>1, <3>1, <3>2
    <3> QED BY <2>1, <3>1, <3>3
  <2>2. CASE z # s
    <3>1. z \in t.seen \ t.lack /\ \A p \in F : SkuOf[p] = s
      BY <1>4, <1>10, <2>2 DEF LooksUp
    <3>2. u.items = t.items \/ u.items = t.items \union F
      BY <1>4 DEF LooksUp
    <3>3. {p \in u.items : SkuOf[p] = z} = {p \in t.items : SkuOf[p] = z}
      BY <2>2, <3>1, <3>2
    <3> QED BY <1>7, <3>1, <3>3
  <2> QED BY <2>1, <2>2
<1>11. Gathered(u)
  BY <1>6, <1>8, <1>9, <1>10 DEF Gathered
<1>12. u.step = "allocate" /\ u.orders = t.orders /\ u.todo = t.todo /\ u.plan = t.plan /\ u.full = t.full
  BY <1>4 DEF LooksUp
<1>13. OrdersOwn(u)
  BY <1>4, <1>11, <1>12 DEF OrdersOwn
<1>14. \A q \in Requests \ {r} : u.orders \intersect tx[q].orders = {}
  BY <1>3, <1>12 DEF OrderInv, OrderLocks
<1> QED BY <1>2, <1>13, <1>14, OrderLockStep

\* The plan grows by one order, which has exactly its lines, or stays as it is.
LEMMA AllocateOrderOrders ==
    ASSUME Inv, OrderInv, NEW r \in Requests, AllocateOrderTx(r), UNCHANGED shippingVars
    PROVE  OrderInv'
<1> DEFINE t == tx[r]
           u == tx'[r]
           G == t.items
<1>1. PICK v \in Transaction, o \in tx[r].todo, e \in BOOLEAN :
          tx' = [tx EXCEPT ![r] = v] /\ PlansOrder(tx[r], v, o, e)
  BY AllocateOrderPlan
<1>2. /\ t.step = "allocate" /\ UNCHANGED <<status, order, orderOf>>
      /\ u = v /\ \A q \in Requests \ {r} : tx'[q] = tx[q]
  BY <1>1, AllocateOrderPlan DEF stockVars, assemblyVars, Inv, TypeOK
<1>3. OrdersOwn(t) /\ Gathered(t) /\ PlansOrder(t, u, o, e) /\ t \in Transaction /\ o \in t.todo
  BY <1>1, <1>2 DEF OrderInv, OrderLocks, OrdersOwn, Inv, TypeOK
<1>4. /\ t.full \subseteq t.orders /\ t.todo \subseteq t.orders \ t.full
      /\ \A x \in t.orders : order[x] = "NEW"
      /\ \A p \in Products : t.plan[p] # None => t.plan[p] \in t.full
      /\ \A x \in t.full : \A s \in Skus :
            Cardinality({p \in Products : t.plan[p] = x /\ SkuOf[p] = s}) = Lines[x][s]
  BY <1>2, <1>3 DEF OrdersOwn
<1>5. o \in Orders /\ o # None /\ o \notin t.full
  BY <1>4, <1>3, AssemblyAssumption DEF Transaction
<1> HIDE DEF t, u, G
<1>6. ASSUME e, NEW s \in Skus PROVE Cardinality({p \in G : SkuOf[p] = s}) = Lines[o][s]
  <2>1. /\ t.lack = {} /\ (Lines[o][s] > 0 => s \in t.seen)
        /\ \A z \in t.seen : Cardinality({p \in G : SkuOf[p] = z}) = Lines[o][z]
        /\ \A p \in G : SkuOf[p] \in t.seen
    BY <1>3, <1>6 DEF PlansOrder, Gathered, G
  <2>2. CASE s \in t.seen
    BY <2>1, <2>2
  <2>3. CASE s \notin t.seen
    <3>1. Lines[o][s] \in Nat /\ ~(Lines[o][s] > 0)
      BY <1>5, <2>1, <2>3, AssemblyAssumption
    <3>2. {p \in G : SkuOf[p] = s} = {}
      BY <2>1, <2>3
    <3>3. Cardinality({p \in G : SkuOf[p] = s}) = 0
      BY <3>2, FS_EmptySet
    <3> QED BY <3>1, <3>3
  <2> QED BY <2>2, <2>3
<1>7. /\ o \in t.todo /\ G \in SUBSET Products /\ e \in BOOLEAN
      /\ u.step = "allocate" /\ u.orders = t.orders /\ u.todo = t.todo \ {o}
      /\ \A p \in Products : u.plan[p] = IF e /\ p \in G THEN o ELSE t.plan[p]
      /\ u.full = IF e THEN t.full \union {o} ELSE t.full
      /\ \A p \in G : t.plan[p] = None
      /\ e => \A s \in Skus : Cardinality({p \in G : SkuOf[p] = s}) = Lines[o][s]
  BY <1>3, <1>6 DEF PlansOrder, Gathered, Transaction, G
<1>8. Gathered(u)
  BY <1>3 DEF PlansOrder, Gathered
<1>9. ASSUME NEW x \in u.full, NEW s \in Skus
      PROVE  Cardinality({p \in Products : u.plan[p] = x /\ SkuOf[p] = s}) = Lines[x][s]
  <2>1. CASE e /\ x = o
    <3>1. \A p \in Products : u.plan[p] = x <=> p \in G
      BY <1>7, <1>4, <1>5, <2>1
    <3>2. {p \in Products : u.plan[p] = x /\ SkuOf[p] = s} = {p \in G : SkuOf[p] = s}
      BY <1>7, <3>1
    <3> QED BY <1>7, <2>1, <3>2
  <2>2. CASE ~(e /\ x = o)
    <3>1. x \in t.full /\ x # None
      BY <1>7, <1>4, <1>9, <2>2, AssemblyAssumption DEF t, Inv, TypeOK, Transaction
    <3>2. \A p \in Products : u.plan[p] = x <=> t.plan[p] = x
      BY <1>7, <1>5, <3>1
    <3>3. {p \in Products : u.plan[p] = x /\ SkuOf[p] = s} = {p \in Products : t.plan[p] = x /\ SkuOf[p] = s}
      BY <3>2
    <3> QED BY <1>4, <3>1, <3>3
  <2> QED BY <2>1, <2>2
<1>10. u.full \subseteq u.orders /\ u.todo \subseteq u.orders \ u.full
  BY <1>7, <1>4
<1>11. \A p \in Products : u.plan[p] # None => u.plan[p] \in u.full
  BY <1>7, <1>4
<1>12. OrdersOwn(u)
  BY <1>7, <1>4, <1>9, <1>10, <1>11, <1>8 DEF OrdersOwn
<1>13. \A q \in Requests \ {r} : tx'[q] = tx[q] /\ u.orders \intersect tx[q].orders = {}
  BY <1>7, <1>2 DEF OrderInv, OrderLocks, t
<1> QED BY <1>2, <1>12, <1>13, OrderLockStep DEF u

\* An allocation gives every order of full the products of its lines at once.
LEMMA CommitAllocateOrders ==
    ASSUME Inv, OrderInv, NEW r \in Requests, CommitAllocate(r)
    PROVE  OrderInv'
<1> DEFINE plan == tx[r].plan
           full == tx[r].full
<1>1. /\ tx' = [tx EXCEPT ![r] = Idle]
      /\ status' = [p \in Products |-> IF plan[p] # None THEN "ALLOCATED" ELSE status[p]]
      /\ orderOf' = [p \in Products |-> IF plan[p] # None THEN plan[p] ELSE orderOf[p]]
      /\ order' = [o \in Orders |-> IF o \in full THEN "ALLOCATED" ELSE order[o]]
  BY DEF CommitAllocate, UpdateProductAllocated, UpdateOrderStatus
<1>2. /\ tx[r].step = "allocate" /\ full \subseteq tx[r].orders /\ full \subseteq Orders
      /\ \A o \in full : order[o] = "NEW" /\ o # None
      /\ \A p \in Products : plan[p] # None => plan[p] \in full
      /\ \A o \in full : \A s \in Skus :
            Cardinality({p \in Products : plan[p] = o /\ SkuOf[p] = s}) = Lines[o][s]
  <2>1. tx[r].step = "allocate" /\ OrdersOwn(tx[r]) /\ full \subseteq Orders
    BY DEF CommitAllocate, OrderInv, OrderLocks, Inv, TypeOK, Transaction
  <2>2. \A o \in full : o # None
    BY <2>1, AssemblyAssumption
  <2> QED BY <2>1, <2>2 DEF OrdersOwn
<1>3. \A p \in Products : plan[p] # None => status[p] = "STORED" /\ orderOf[p] = None
  BY <1>2 DEF Inv, Locks, Own, Stock
<1>4. \A o \in full : ProductsOf(o) = {}
  BY <1>2 DEF OrderInv, OrderStages
<1> HIDE DEF plan, full
<1>5. ASSUME NEW o \in Orders, o \notin full
      PROVE  /\ order'[o] = order[o] /\ ProductsOf(o)' = ProductsOf(o)
             /\ \A p \in Products : /\ orderOf'[p] = o <=> orderOf[p] = o
                                    /\ orderOf[p] = o => status'[p] = status[p]
  <2>1. order'[o] = order[o] /\ o # None
    BY <1>1, <1>5, AssemblyAssumption
  <2>2. \A p \in Products : orderOf'[p] = o <=> orderOf[p] = o
    BY <1>1, <1>2, <1>3, <1>5, <2>1
  <2>3. \A p \in Products : orderOf[p] = o => status'[p] = status[p]
    BY <1>1, <1>3, <2>1
  <2> QED BY <2>1, <2>2, <2>3 DEF ProductsOf
<1>6. ASSUME NEW o \in full
      PROVE  /\ order'[o] = "ALLOCATED"
             /\ \A p \in Products : orderOf'[p] = o <=> plan[p] = o
             /\ \A p \in Products : orderOf'[p] = o => status'[p] = "ALLOCATED"
  <2>1. \A p \in Products : orderOf[p] # o
    BY <1>4 DEF ProductsOf
  <2>2. o # None /\ o \in Orders
    BY <1>2
  <2> QED BY <1>1, <2>1, <2>2
<1>7. OrderLocks'
  <2>1. ASSUME NEW q \in Requests \ {r}, NEW o \in tx[q].orders PROVE o \in Orders /\ o \notin full
    BY <1>2 DEF OrderInv, OrderLocks, Inv, TypeOK, Transaction
  <2>2. \A q \in Requests \ {r} : \A o \in tx[q].orders :
            /\ order'[o] = order[o]
            /\ \A p \in Products : /\ orderOf'[p] = o <=> orderOf[p] = o
                                   /\ orderOf[p] = o => (status'[p] = "SHIPPED" <=> status[p] = "SHIPPED")
    BY <1>5, <2>1
  <2> QED BY <1>1, <2>2, OrderCommit
<1>8. OrderStages'
  <2> SUFFICES ASSUME NEW o \in Orders
               PROVE  /\ order'[o] = "NEW" => ProductsOf(o)' = {}
                      /\ order'[o] = "SHIPPED" => \A p \in ProductsOf(o)' : status'[p] = "SHIPPED"
    BY DEF OrderStages
  <2>1. CASE o \in full
    BY <1>6, <2>1
  <2>2. CASE o \notin full
    BY <1>5, <2>2 DEF OrderInv, OrderStages, ProductsOf
  <2> QED BY <2>1, <2>2
<1>9. OrderStatusTrue'
  <2> SUFFICES ASSUME NEW o \in Orders, {p \in ProductsOf(o)' : status'[p] = "SHIPPED"} # {}
               PROVE  order'[o] = IF {p \in ProductsOf(o)' : status'[p] = "SHIPPED"} = ProductsOf(o)'
                                  THEN "SHIPPED" ELSE "PARTIALLY_SHIPPED"
    BY DEF OrderStatusTrue
  <2>1. o \notin full
    BY <1>6 DEF ProductsOf
  <2>2. order'[o] = order[o] /\ ProductsOf(o)' = ProductsOf(o)
    BY <1>5, <2>1
  <2>3. {p \in ProductsOf(o)' : status'[p] = "SHIPPED"} = {p \in ProductsOf(o) : status[p] = "SHIPPED"}
    BY <1>5, <2>1, <2>2 DEF ProductsOf
  <2> QED BY <2>2, <2>3 DEF OrderInv, OrderStatusTrue
<1>10. AllocationExact'
  <2> SUFFICES ASSUME NEW o \in Orders, NEW s \in Skus
               PROVE  Cardinality({p \in ProductsOf(o)' : SkuOf[p] = s}) = IF order'[o] = "NEW" THEN 0 ELSE Lines[o][s]
    BY DEF AllocationExact
  <2>1. CASE o \in full
    <3>1. {p \in ProductsOf(o)' : SkuOf[p] = s} = {p \in Products : plan[p] = o /\ SkuOf[p] = s}
      BY <1>6, <2>1 DEF ProductsOf
    <3> QED BY <1>2, <1>6, <2>1, <3>1
  <2>2. CASE o \notin full
    BY <1>5, <2>2 DEF OrderInv, AllocationExact
  <2> QED BY <2>1, <2>2
<1> QED BY <1>7, <1>8, <1>9, <1>10 DEF OrderInv

\* An unload moves orders of which nothing is shipped.
LEMMA CommitUnloadOrders ==
    ASSUME Inv, OrderInv, NEW r \in Requests, CommitUnload(r)
    PROVE  OrderInv'
<1> DEFINE S == op[tx[r].op].items
           full == tx[r].full
<1>1. /\ tx' = [tx EXCEPT ![r] = Idle] /\ UNCHANGED orderOf
      /\ status' = [p \in Products |-> IF p \in S THEN "READY_TO_SHIP" ELSE status[p]]
      /\ order' = [o \in Orders |-> IF o \in full THEN "ASSEMBLED" ELSE order[o]]
  BY DEF CommitUnload, MoveProductsToShippingBuffer, UpdateOrderStatus
<1>2. \A p \in S : status[p] = "ASSEMBLED"
  BY DEF CommitUnload, Inv, Locks, Own
<1>3. full \subseteq tx[r].orders /\ \A o \in full : o \in Orders /\ order[o] = "ALLOCATED"
  BY DEF CommitUnload, OrderInv, OrderLocks, OrdersOwn, Inv, TypeOK, Transaction
<1> HIDE DEF S, full
<1>4. \A p \in Products : status'[p] = "SHIPPED" <=> status[p] = "SHIPPED"
  BY <1>1, <1>2
<1>5. \A o : ProductsOf(o)' = ProductsOf(o) /\ ProductsOf(o) \subseteq Products
  BY <1>1 DEF ProductsOf
<1>6. \A o \in Orders : o \notin full => order'[o] = order[o]
  BY <1>1
<1>7. OrderLocks'
  <2>1. \A q \in Requests \ {r} : \A o \in tx[q].orders : o \in Orders /\ o \notin full
    BY <1>3 DEF OrderInv, OrderLocks, Inv, TypeOK, Transaction
  <2>2. \A q \in Requests \ {r} : \A o \in tx[q].orders :
            /\ order'[o] = order[o]
            /\ \A p \in Products : /\ orderOf'[p] = o <=> orderOf[p] = o
                                   /\ orderOf[p] = o => (status'[p] = "SHIPPED" <=> status[p] = "SHIPPED")
    BY <1>1, <1>4, <1>6, <2>1
  <2> QED BY <1>1, <2>2, OrderCommit
<1>8. \A o \in full : order'[o] = "ASSEMBLED" /\ order[o] = "ALLOCATED"
  BY <1>1, <1>3
<1>9. OrderStages'
  BY <1>4, <1>5, <1>6, <1>8 DEF OrderInv, OrderStages
<1>10. OrderStatusTrue'
  <2> SUFFICES ASSUME NEW o \in Orders, {p \in ProductsOf(o) : status'[p] = "SHIPPED"} # {}
               PROVE  order'[o] = IF {p \in ProductsOf(o) : status'[p] = "SHIPPED"} = ProductsOf(o)
                                  THEN "SHIPPED" ELSE "PARTIALLY_SHIPPED"
    BY <1>5 DEF OrderStatusTrue
  <2>1. {p \in ProductsOf(o) : status'[p] = "SHIPPED"} = {p \in ProductsOf(o) : status[p] = "SHIPPED"}
    BY <1>4, <1>5
  <2>2. order[o] = IF {p \in ProductsOf(o) : status[p] = "SHIPPED"} = ProductsOf(o)
                   THEN "SHIPPED" ELSE "PARTIALLY_SHIPPED"
    BY <2>1 DEF OrderInv, OrderStatusTrue
  <2>3. o \notin full
    BY <1>8, <2>2
  <2> QED BY <1>6, <2>1, <2>2, <2>3
<1>11. AllocationExact'
  <2>1. \A o \in Orders : order'[o] = "NEW" <=> order[o] = "NEW"
    BY <1>6, <1>8
  <2> QED BY <1>5, <2>1 DEF OrderInv, AllocationExact
<1> QED BY <1>7, <1>9, <1>10, <1>11 DEF OrderInv

LEMMA SubmitUnloadOrders ==
    ASSUME Inv, OrderInv, NEW r \in Requests, NEW o \in Ops, SubmitUnloadToShippingBuffer(r, o)
    PROVE  OrderInv'
<1> DEFINE os == UpdateOrdersToAssembled(op[o].items)
           t == [Idle EXCEPT !.step = "unload", !.op = o, !.rows = op[o].items, !.orders = os, !.full = os]
<1>1. \A x \in os : order[x] = "ALLOCATED"
  BY DEF UpdateOrdersToAssembled
<1>2. /\ tx' = [tx EXCEPT ![r] = t] /\ UNCHANGED <<status, order, orderOf>>
      /\ \A q \in Requests \ {r} : tx[q].orders \intersect os = {}
  BY DEF SubmitUnloadToShippingBuffer, Begin, assemblyVars, OrdersFree
<1> HIDE DEF os
<1>3. t.step = "unload" /\ t.orders = os /\ t.full = os
  BY DEF Idle
<1> HIDE DEF t
<1>4. tx'[r] = t /\ \A q \in Requests \ {r} : tx'[q] = tx[q]
  BY <1>2 DEF Inv, TypeOK
<1>5. OrdersOwn(t)
  BY <1>1, <1>3 DEF OrdersOwn
<1> QED BY <1>2, <1>3, <1>4, <1>5, OrderLockStep

\* A shipment locks all orders of its products: none of them is NEW or SHIPPED.
LEMMA SubmitShipOrders ==
    ASSUME Inv, OrderInv, NEW r \in Requests, SubmitShip(r)
    PROVE  OrderInv'
<1> DEFINE o == tx[r].op
           items == op[o].items
           os == LockOrdersShipped(items)
           full == UpdateOrdersShippedConditional(os, items)
           last == CountReadyToShipProductsInBuffer(op[o].target.bin, items) = 0
           t == [tx[r] EXCEPT !.step = "ship", !.rows = items, !.orders = os, !.full = full, !.last = last]
<1>1. /\ tx' = [tx EXCEPT ![r] = t] /\ UNCHANGED <<status, order, orderOf>>
      /\ \A q \in Requests \ {r} : tx[q].orders \intersect os = {}
      /\ \A p \in items : p \in Products /\ status[p] = "READY_TO_SHIP"
  BY DEF SubmitShip, OrdersFree, LockProductsForShip, ProductsForShip, stockVars, assemblyVars
<1>2. \A p \in items : orderOf[p] \in os
  <2> SUFFICES ASSUME NEW p \in items PROVE orderOf[p] \in os
    OBVIOUS
  <2>1. p \in Products /\ orderOf[p] \in Orders /\ orderOf[p] # None /\ status[p] # "SHIPPED"
    BY <1>1 DEF Inv, TypeOK, Stock
  <2>2. order[orderOf[p]] \notin {"NEW", "SHIPPED"}
    BY <2>1 DEF OrderInv, OrderStages, ProductsOf
  <2>3. order[orderOf[p]] \in {"ALLOCATED", "ASSEMBLED", "PARTIALLY_SHIPPED"}
    BY <2>1, <2>2 DEF Inv, TypeOK, OrderStatuses
  <2> QED BY <2>1, <2>3 DEF LockOrdersShipped, OrdersOf
<1>3. /\ \A x \in os : /\ \E p \in items : orderOf[p] = x
                       /\ order[x] \in {"ALLOCATED", "ASSEMBLED", "PARTIALLY_SHIPPED"}
                       /\ x \in full <=> \A p \in ProductsOf(x) : p \in items \/ status[p] = "SHIPPED"
      /\ full \subseteq os
  BY DEF LockOrdersShipped, OrdersOf, UpdateOrdersShippedConditional
<1>4. tx[r] \in Transaction
  BY DEF Inv, TypeOK
<1> HIDE DEF items, os, full, last
<1>5. t.step = "ship" /\ t.rows = items /\ t.orders = os /\ t.full = full
  BY <1>4 DEF Transaction
<1> HIDE DEF t
<1>6. tx'[r] = t /\ \A q \in Requests \ {r} : tx'[q] = tx[q]
  BY <1>1 DEF Inv, TypeOK
<1>7. OrdersOwn(t)
  BY <1>2, <1>3, <1>5 DEF OrdersOwn
<1> QED BY <1>1, <1>5, <1>6, <1>7, OrderLockStep

\* A shipment says of each of its orders whether something of it is left.
LEMMA CommitShipOrders ==
    ASSUME Inv, OrderInv, NEW r \in Requests, CommitShip(r)
    PROVE  OrderInv'
<1> DEFINE S == op[tx[r].op].items
           os == tx[r].orders
           full == tx[r].full
<1>1. /\ tx' = [tx EXCEPT ![r] = Idle] /\ UNCHANGED orderOf
      /\ status' = [p \in Products |-> IF p \in S THEN "SHIPPED" ELSE status[p]]
      /\ order' = [o \in Orders |-> IF o \in full THEN "SHIPPED"
                                    ELSE IF o \in os THEN "PARTIALLY_SHIPPED" ELSE order[o]]
  BY DEF CommitShip, BatchUpdateProductsShipped
<1>2. tx[r].rows = S /\ S \subseteq Products
  BY DEF CommitShip, Inv, Locks, Own, TypeOK, Transaction
<1>3. /\ full \subseteq os /\ os \subseteq Orders
      /\ \A p \in S : orderOf[p] \in os
      /\ \A o \in os : /\ \E p \in S : orderOf[p] = o
                       /\ order[o] \in {"ALLOCATED", "ASSEMBLED", "PARTIALLY_SHIPPED"}
                       /\ o \in full <=> \A p \in ProductsOf(o) : p \in S \/ status[p] = "SHIPPED"
  <2>1. OrdersOwn(tx[r]) /\ tx[r].step = "ship" /\ os \subseteq Orders
    BY DEF CommitShip, OrderInv, OrderLocks, Inv, TypeOK, Transaction
  <2> HIDE DEF S
  <2> QED BY <1>2, <2>1 DEF OrdersOwn
<1> HIDE DEF S, os, full
<1>4. \A o : ProductsOf(o)' = ProductsOf(o) /\ ProductsOf(o) \subseteq Products
  BY <1>1 DEF ProductsOf
<1>5. ASSUME NEW o \in Orders, o \notin os
      PROVE  order'[o] = order[o] /\ \A p \in ProductsOf(o) : status'[p] = status[p]
  BY <1>1, <1>3, <1>5 DEF ProductsOf
<1>6. ASSUME NEW o \in os
      PROVE  order'[o] = IF {p \in ProductsOf(o) : status'[p] = "SHIPPED"} = ProductsOf(o)
                         THEN "SHIPPED" ELSE "PARTIALLY_SHIPPED"
  <2>1. \A p \in ProductsOf(o) : status'[p] = "SHIPPED" <=> p \in S \/ status[p] = "SHIPPED"
    BY <1>1, <1>4
  <2>2. o \in full <=> {p \in ProductsOf(o) : status'[p] = "SHIPPED"} = ProductsOf(o)
    <3>1. o \in full <=> \A p \in ProductsOf(o) : status'[p] = "SHIPPED"
      BY <1>3, <2>1
    <3> QED BY <3>1
  <2> QED BY <1>1, <1>3, <2>2
<1>7. OrderLocks'
  <2>1. \A q \in Requests \ {r} : \A o \in tx[q].orders : o \in Orders /\ o \notin os
    BY DEF OrderInv, OrderLocks, Inv, TypeOK, Transaction, os
  <2>2. \A q \in Requests \ {r} : \A o \in tx[q].orders :
            /\ order'[o] = order[o]
            /\ \A p \in Products : /\ orderOf'[p] = o <=> orderOf[p] = o
                                   /\ orderOf[p] = o => (status'[p] = "SHIPPED" <=> status[p] = "SHIPPED")
    BY <1>1, <1>5, <2>1 DEF ProductsOf
  <2> QED BY <1>1, <2>2, OrderCommit
<1>8. OrderStages'
  <2> SUFFICES ASSUME NEW o \in Orders
               PROVE  /\ order'[o] = "NEW" => ProductsOf(o) = {}
                      /\ order'[o] = "SHIPPED" => \A p \in ProductsOf(o) : status'[p] = "SHIPPED"
    BY <1>4 DEF OrderStages
  <2>1. CASE o \in os
    BY <1>6, <2>1
  <2>2. CASE o \notin os
    BY <1>5, <2>2 DEF OrderInv, OrderStages
  <2> QED BY <2>1, <2>2
<1>9. OrderStatusTrue'
  <2> SUFFICES ASSUME NEW o \in Orders, {p \in ProductsOf(o) : status'[p] = "SHIPPED"} # {}
               PROVE  order'[o] = IF {p \in ProductsOf(o) : status'[p] = "SHIPPED"} = ProductsOf(o)
                                  THEN "SHIPPED" ELSE "PARTIALLY_SHIPPED"
    BY <1>4 DEF OrderStatusTrue
  <2>1. CASE o \in os
    BY <1>6, <2>1
  <2>2. CASE o \notin os
    <3>1. {p \in ProductsOf(o) : status'[p] = "SHIPPED"} = {p \in ProductsOf(o) : status[p] = "SHIPPED"}
      BY <1>5, <2>2
    <3> QED BY <1>5, <2>2, <3>1 DEF OrderInv, OrderStatusTrue
  <2> QED BY <2>1, <2>2
<1>10. AllocationExact'
  <2>1. \A o \in Orders : order'[o] = "NEW" <=> order[o] = "NEW"
    BY <1>3, <1>5, <1>6
  <2> QED BY <1>4, <2>1 DEF OrderInv, AllocationExact
<1> QED BY <1>7, <1>8, <1>9, <1>10 DEF OrderInv

LEMMA OrderInductive == Inv /\ OrderInv /\ [Next]_vars => OrderInv'
<1> SUFFICES ASSUME Inv, OrderInv, [Next]_vars PROVE OrderInv'
  OBVIOUS
<1> USE DEF assemblyVars, shippingVars, stockVars, signedVars
<1>1. ASSUME UNCHANGED <<status, order, orderOf, tx>> PROVE OrderInv'
  <2>1. (OrderStages /\ OrderStatusTrue /\ AllocationExact)'
    BY <1>1, OrdersSame
  <2>2. OrderLocks'
    BY <1>1 DEF OrderInv, OrderLocks, OrdersOwn, ProductsOf
  <2> QED BY <2>1, <2>2 DEF OrderInv
<1>2. ASSUME NEW r \in Requests, tx'[r].orders = {}, tx'[r].full = {},
             tx'[r].step \notin {"allocate", "unload", "ship"},
             UNCHANGED <<status, order, orderOf>>, \A q \in Requests \ {r} : tx'[q] = tx[q]
      PROVE  OrderInv'
  <2>1. OrdersOwn(tx'[r])
    BY <1>2 DEF OrdersOwn
  <2> QED BY <1>2, <2>1, OrderLockStep
<1>3. CASE UNCHANGED vars
  BY <1>1, <1>3 DEF vars
<1>4. CASE SettleOutbound
  BY <1>1, <1>4 DEF SettleOutbound
<1>5. CASE \E r \in Requests : Abort(r)
  BY <1>2, <1>5 DEF Abort, Idle, Inv, TypeOK
<1>6. ASSUME NEW r \in Requests, NEW w \in Operators, NEW p \in Products, CheckPick(r, w, p) PROVE OrderInv'
  <2>1. /\ tx'[r].orders = {} /\ tx'[r].full = {} /\ tx'[r].step = "pick"
        /\ \A q \in Requests \ {r} : tx'[q] = tx[q]
    BY <1>6 DEF CheckPick, Begin, Idle, Inv, TypeOK
  <2> QED BY <1>2, <1>6, <2>1 DEF CheckPick
<1>7. ASSUME NEW r \in Requests, PickProduct(r) PROVE OrderInv'
  <2>1. PICK p \in tx[r].items : status[p] = "ALLOCATED" /\ status' = [status EXCEPT ![p] = "ASSEMBLED"]
    BY <1>7 DEF PickProduct, GetProductByIDForUpdate, SetProductAssembled
  <2>2. tx' = [tx EXCEPT ![r] = Idle] /\ UNCHANGED <<order, orderOf>>
    BY <1>7 DEF PickProduct
  <2>3. \A x \in Products : status'[x] = "SHIPPED" <=> status[x] = "SHIPPED"
    BY <2>1 DEF Inv, TypeOK
  <2>4. (OrderStages /\ OrderStatusTrue /\ AllocationExact)'
    BY <2>2, <2>3, OrdersSame
  <2>5. OrderLocks'
    BY <2>2, <2>3, OrderCommit
  <2> QED BY <2>4, <2>5 DEF OrderInv
<1>8. ASSUME NEW r \in Requests, NEW o \in Ops, CheckShip(r, o) PROVE OrderInv'
  <2>1. /\ tx'[r].orders = {} /\ tx'[r].full = {} /\ tx'[r].step = "confirmed"
        /\ \A q \in Requests \ {r} : tx'[q] = tx[q]
    BY <1>8 DEF CheckShip, Begin, Idle, Inv, TypeOK
  <2> QED BY <1>2, <1>8, <2>1 DEF CheckShip
<1>9. ASSUME NEW r \in Requests, NEW o \in Ops, NEW w \in Operators, NEW b \in ShippingBins,
             DraftUnloadToShippingBuffer(r, o, w, b)
      PROVE  OrderInv'
  BY <1>1, <1>9 DEF DraftUnloadToShippingBuffer
<1>10. ASSUME NEW r \in Requests, NEW o \in Ops, NEW b \in ShippingBins, NEW v \in Dispatches,
              NEW items \in SUBSET Products, DraftShip(r, o, b, v, items)
       PROVE  OrderInv'
  BY <1>1, <1>10 DEF DraftShip
<1>11. ASSUME NEW v \in Dispatches, CreateNewDispatch(v) \/ ScanDriver(v) PROVE OrderInv'
  BY <1>1, <1>11 DEF CreateNewDispatch, ScanDriver
<1>12. CASE NextAssembly /\ UNCHANGED shippingVars
  BY <1>6, <1>7, <1>9, <1>12, AllocateOrders, AllocateLineOrders, AllocateOrderOrders,
     CommitAllocateOrders, SubmitUnloadOrders,
     CommitUnloadOrders DEF NextAssembly
<1>13. CASE NextShipping
  BY <1>8, <1>10, <1>11, <1>13, SubmitShipOrders, CommitShipOrders DEF NextShipping
<1> QED BY <1>3, <1>4, <1>5, <1>12, <1>13 DEF Next

LEMMA SpecOrders == Spec => []OrderInv
  BY InitOrders, OrderInductive, SpecInv, PTL DEF Spec

\* An order has exactly the products of its lines from its allocation on, and none before:
\* allocations that run at the same time neither share a product nor fill an order in part.
THEOREM AllocationCorrect == Spec => []AllocationExact
<1>1. OrderInv => AllocationExact
  BY DEF OrderInv
<1> QED BY <1>1, SpecOrders, PTL

\* An order is SHIPPED when all of its products are and PARTIALLY_SHIPPED when some are,
\* although a shipment decides this before it commits and other shipments run.
THEOREM OrderStatusCorrect == Spec => []OrderStatusTrue
<1>1. OrderInv => OrderStatusTrue
  BY DEF OrderInv
<1> QED BY <1>1, SpecOrders, PTL

-----------------------------------------------------------------------------
(* What the audit recomputes. *)

\* The orders that were signed are those of the products, which never change.
SignedOrdersKept ==
    \A o \in Ops : op[o] # None =>
        \A p \in op[o].items : orderOf[p] # None /\ op[o].target.orders[p] = orderOf[p]

\* The tasks that an unload will stamp are its operator's, done and not stamped.
UnloadOwn ==
    \A r \in Requests : tx[r].step = "unload" =>
        \A p \in tx[r].rows : picker[p] = op[tx[r].op].by /\ task[p] = "DONE" /\ unloadedIn[p] = None

\* What a submission has left in the tables stays: the stamps with the action of each item,
\* its operator, buffer and dispatch.
Stamped ==
    \A o \in submitted :
        /\ op[o] # None
        /\ op[o].type = Pick => \A p \in op[o].items :
              /\ unloadedIn[p] = ActionOf(o, p) /\ picker[p] = op[o].by /\ bin[p] = op[o].target.bin
              /\ status[p] \in {"READY_TO_SHIP", "SHIPPED"}
        /\ op[o].type = Ship => \A p \in op[o].items :
              /\ shippedIn[p] = ActionOf(o, p) /\ shippedOn[p] = op[o].target.dispatch
              /\ bin[p] = op[o].target.bin /\ status[p] = "SHIPPED"

\* Every stamp is that of a submission over the item.
StampOf(a, type, p) == \E o \in submitted : op[o].type = type /\ p \in op[o].items /\ a = ActionOf(o, p)
StampsSigned ==
    \A p \in Products :
        /\ unloadedIn[p] # None => StampOf(unloadedIn[p], Pick, p)
        /\ shippedIn[p] # None => StampOf(shippedIn[p], Ship, p)

Journal == SignedOrdersKept /\ UnloadOwn /\ Stamped /\ StampsSigned

LEMMA InitJournal == Init => Journal
  BY DEF Init, Journal, SignedOrdersKept, UnloadOwn, Stamped, StampsSigned, Idle

\* A step of the requests and of the ledger.
LEMMA JournalSame ==
    ASSUME Journal, UNCHANGED <<stockVars, op, submitted>>, UnloadOwn'
    PROVE  Journal'
<1> USE DEF stockVars, assemblyVars, shippingVars
<1>1. SignedOrdersKept'
  BY DEF Journal, SignedOrdersKept
<1>2. Stamped'
  BY DEF Journal, Stamped, ActionOf
<1>3. StampsSigned'
  BY DEF Journal, StampsSigned, StampOf, ActionOf
<1> QED BY <1>1, <1>2, <1>3 DEF Journal

\* A new draft signs the orders of its items.
LEMMA JournalDraft ==
    ASSUME Inv, Journal, NEW o \in Ops, op[o] = None, \A x \in Ops \ {o} : op'[x] = op[x],
           \A p \in op'[o].items : orderOf[p] # None /\ op'[o].target.orders[p] = orderOf[p],
           UNCHANGED <<stockVars, submitted, tx>>
    PROVE  Journal'
<1> USE DEF stockVars, assemblyVars, shippingVars
<1>1. SignedOrdersKept'
  BY DEF Journal, SignedOrdersKept
<1>2. \A x \in submitted : x \in Ops /\ op'[x] = op[x]
  BY DEF Journal, Stamped, Inv, TypeOK
<1>3. \A x \in submitted : \A p : ActionOf(x, p)' = ActionOf(x, p)
  BY <1>2 DEF ActionOf
<1>4. UnloadOwn'
  <2>1. \A r \in Requests : tx[r].step = "unload" => op'[tx[r].op] = op[tx[r].op]
    BY DEF Inv, Locks, Own
  <2> QED BY <2>1 DEF Journal, UnloadOwn
<1> HIDE DEF ActionOf
<1>5. Stamped'
  BY <1>2, <1>3 DEF Journal, Stamped
<1>6. StampsSigned'
  <2>1. ASSUME NEW p, NEW type, NEW a, StampOf(a, type, p)
        PROVE  \E x \in submitted' : op'[x].type = type /\ p \in op'[x].items /\ a = ActionOf(x, p)'
    BY <1>2, <1>3, <2>1 DEF StampOf
  <2> SUFFICES ASSUME NEW p \in Products
               PROVE  /\ unloadedIn[p] # None =>
                          \E x \in submitted' : op'[x].type = Pick /\ p \in op'[x].items /\ unloadedIn[p] = ActionOf(x, p)'
                      /\ shippedIn[p] # None =>
                          \E x \in submitted' : op'[x].type = Ship /\ p \in op'[x].items /\ shippedIn[p] = ActionOf(x, p)'
    BY DEF StampsSigned, StampOf
  <2>2. /\ unloadedIn[p] # None => StampOf(unloadedIn[p], Pick, p)
        /\ shippedIn[p] # None => StampOf(shippedIn[p], Ship, p)
    BY DEF Journal, StampsSigned
  <2> HIDE DEF StampOf
  <2> QED BY <2>1, <2>2
<1> QED BY <1>1, <1>4, <1>5, <1>6 DEF Journal

\* An allocation changes products in storage, which no operation is about.
LEMMA JournalAllocate ==
    ASSUME Inv, Journal, NEW r \in Requests, CommitAllocate(r), UNCHANGED shippingVars
    PROVE  Journal'
<1> USE DEF shippingVars, signedVars
<1> DEFINE S == {p \in Products : tx[r].plan[p] # None}
<1>1. /\ tx' = [tx EXCEPT ![r] = Idle]
      /\ UNCHANGED <<bin, picker, unloadedIn, op, submitted, shippedOn, shippedIn>>
      /\ \A p \in Products \ S : status'[p] = status[p] /\ orderOf'[p] = orderOf[p] /\ task'[p] = task[p]
  BY DEF CommitAllocate, UpdateProductAllocated, BatchInsertAssemblyTasks
<1>2. \A p \in S : p \in Products /\ status[p] = "STORED" /\ orderOf[p] = None
  BY DEF CommitAllocate, Inv, Locks, Own, Stock
<1>3. tx'[r] = Idle /\ \A q \in Requests \ {r} : tx'[q] = tx[q]
  BY <1>1 DEF Inv, TypeOK
<1> HIDE DEF S
<1>4. \A o \in Ops : op[o] # None => op[o].items \subseteq Products /\ op[o].items \intersect S = {}
  <2>1. \A o \in Ops : op[o] # None => op[o].items \subseteq Products
    BY DEF Inv, TypeOK, Draft
  <2> QED BY <1>2, <2>1 DEF Journal, SignedOrdersKept
<1>5. SignedOrdersKept'
  BY <1>1, <1>4 DEF Journal, SignedOrdersKept
<1>6. UnloadOwn'
  <2> SUFFICES ASSUME NEW q \in Requests, tx'[q].step = "unload", NEW p \in tx'[q].rows
               PROVE  picker[p] = op[tx'[q].op].by /\ task'[p] = "DONE" /\ unloadedIn[p] = None
    BY <1>1 DEF UnloadOwn
  <2>1. q # r /\ tx'[q] = tx[q] /\ p \in Products /\ status[p] = "ASSEMBLED"
    BY <1>3 DEF Idle, Inv, Locks, Own, TypeOK, Transaction
  <2>2. p \notin S
    BY <1>2, <2>1
  <2> QED BY <1>1, <2>1, <2>2 DEF Journal, UnloadOwn
<1>7. Stamped'
  <2>1. \A o \in submitted : o \in Ops /\ op[o] # None
    BY DEF Journal, Stamped, Inv, TypeOK
  <2>2. \A o \in submitted : \A p \in op[o].items : status'[p] = status[p]
    BY <1>1, <1>4, <2>1
  <2> QED BY <1>1, <2>2 DEF Journal, Stamped, ActionOf
<1>8. StampsSigned'
  BY <1>1 DEF Journal, StampsSigned, StampOf, ActionOf
<1> QED BY <1>5, <1>6, <1>7, <1>8 DEF Journal

\* A pick changes a product that is ALLOCATED, before any unload of it.
LEMMA JournalPick ==
    ASSUME Inv, Journal, NEW r \in Requests, PickProduct(r), UNCHANGED shippingVars
    PROVE  Journal'
<1> USE DEF shippingVars, signedVars
<1>1. PICK p \in tx[r].items :
          /\ status[p] = "ALLOCATED"
          /\ task' = [task EXCEPT ![p] = "DONE"]
          /\ picker' = [picker EXCEPT ![p] = tx[r].by]
          /\ status' = [status EXCEPT ![p] = "ASSEMBLED"]
  BY DEF PickProduct, GetProductByIDForUpdate, MarkTaskDone, SetProductAssembled
<1>2. /\ tx' = [tx EXCEPT ![r] = Idle]
      /\ UNCHANGED <<bin, orderOf, unloadedIn, op, submitted, shippedOn, shippedIn>>
  BY DEF PickProduct
<1>3. tx'[r] = Idle /\ \A q \in Requests \ {r} : tx'[q] = tx[q]
  BY <1>2 DEF Inv, TypeOK
<1>4. \A x \in Products \ {p} : status'[x] = status[x] /\ task'[x] = task[x] /\ picker'[x] = picker[x]
  BY <1>1 DEF Inv, TypeOK
<1>5. SignedOrdersKept'
  BY <1>2 DEF Journal, SignedOrdersKept
<1>6. UnloadOwn'
  <2> SUFFICES ASSUME NEW q \in Requests, tx'[q].step = "unload", NEW x \in tx'[q].rows
               PROVE  picker'[x] = op[tx'[q].op].by /\ task'[x] = "DONE" /\ unloadedIn[x] = None
    BY <1>2 DEF UnloadOwn
  <2>1. q # r /\ tx'[q] = tx[q] /\ x \in Products /\ status[x] = "ASSEMBLED"
    BY <1>3 DEF Idle, Inv, Locks, Own, TypeOK, Transaction
  <2>2. x # p
    BY <1>1, <2>1
  <2> QED BY <1>4, <2>1, <2>2 DEF Journal, UnloadOwn
<1>7. Stamped'
  <2>1. \A o \in submitted : op[o] # None /\ op[o].items \subseteq Products /\ op[o].type \in {Pick, Ship}
    BY DEF Journal, Stamped, Inv, TypeOK, Draft
  <2>2. \A o \in submitted : p \notin op[o].items
    BY <1>1, <2>1 DEF Journal, Stamped
  <2>3. \A o \in submitted : \A x \in op[o].items : status'[x] = status[x] /\ picker'[x] = picker[x]
    BY <1>4, <2>1, <2>2
  <2> QED BY <1>2, <2>3 DEF Journal, Stamped, ActionOf
<1>8. StampsSigned'
  BY <1>2 DEF Journal, StampsSigned, StampOf, ActionOf
<1> QED BY <1>5, <1>6, <1>7, <1>8 DEF Journal

\* An unload stamps every task of its items, and touches no product that was unloaded before.
LEMMA JournalUnload ==
    ASSUME Inv, Journal, NEW r \in Requests, CommitUnload(r), UNCHANGED shippingVars
    PROVE  Journal'
<1> USE DEF shippingVars
<1> DEFINE o == tx[r].op
           S == op[o].items
<1>1. /\ o \in Ops /\ op[o] # None /\ op[o].type = Pick /\ tx[r].rows = S
      /\ \A p \in S : status[p] = "ASSEMBLED"
  BY DEF CommitUnload, Inv, Locks, Own
<1>2. \A p \in S : p \in Products /\ picker[p] = op[o].by /\ task[p] = "DONE" /\ unloadedIn[p] = None
  <2>1. \A p \in S : picker[p] = op[o].by /\ task[p] = "DONE" /\ unloadedIn[p] = None
    BY <1>1 DEF CommitUnload, Journal, UnloadOwn
  <2>2. S \subseteq Products
    BY <1>1 DEF Inv, TypeOK, Draft
  <2> QED BY <2>1, <2>2
<1>3. /\ op' = op /\ submitted' = submitted \union {o} /\ tx' = [tx EXCEPT ![r] = Idle]
      /\ status' = [p \in Products |-> IF p \in S THEN "READY_TO_SHIP" ELSE status[p]]
      /\ bin' = [p \in Products |-> IF p \in S THEN op[o].target.bin ELSE bin[p]]
      /\ UNCHANGED <<orderOf, task, picker, shippedOn, shippedIn>>
  BY DEF CommitUnload, MoveProductsToShippingBuffer, WriteActions
<1>4. unloadedIn' = [p \in Products |-> IF p \in S THEN ActionOf(o, p) ELSE unloadedIn[p]]
  <2>1. unloadedIn' = [p \in Products |->
            IF p \in S /\ picker[p] = op[o].by /\ task[p] = "DONE" /\ unloadedIn[p] = None
            THEN ActionOf(o, p) ELSE unloadedIn[p]]
    BY DEF CommitUnload, StampTaskUnload
  <2> HIDE DEF S, o
  <2> QED BY <1>2, <2>1
<1>5. \A x, p : ActionOf(x, p)' = ActionOf(x, p)
  BY <1>3 DEF ActionOf
<1>6. tx'[r] = Idle /\ \A q \in Requests \ {r} : tx'[q] = tx[q]
  BY <1>3 DEF Inv, TypeOK
<1>7. \A x \in submitted : /\ op[x] # None /\ op[x].items \subseteq Products /\ op[x].type \in {Pick, Ship}
                           /\ op[x].items \intersect S = {}
  <2>1. \A x \in submitted : op[x] # None /\ op[x].items \subseteq Products /\ op[x].type \in {Pick, Ship}
    BY DEF Journal, Stamped, Inv, TypeOK, Draft
  <2>2. \A x \in submitted : \A p \in op[x].items : status[p] \in {"READY_TO_SHIP", "SHIPPED"}
    BY <2>1 DEF Journal, Stamped
  <2> QED BY <1>1, <2>1, <2>2
<1> HIDE DEF S, ActionOf
<1>8. SignedOrdersKept'
  BY <1>3 DEF Journal, SignedOrdersKept
<1>9. UnloadOwn'
  <2> SUFFICES ASSUME NEW q \in Requests, tx'[q].step = "unload", NEW p \in tx'[q].rows
               PROVE  picker[p] = op[tx'[q].op].by /\ task[p] = "DONE" /\ unloadedIn'[p] = None
    BY <1>3 DEF UnloadOwn
  <2>1. q # r /\ tx'[q] = tx[q] /\ p \in Products
    BY <1>6 DEF Idle, Inv, TypeOK, Transaction
  <2>2. p \notin S
    BY <1>1, <2>1 DEF Inv, Locks, Apart
  <2> QED BY <1>4, <2>1, <2>2 DEF Journal, UnloadOwn
<1>10. Stamped'
  <2> SUFFICES ASSUME NEW x \in submitted \union {o}
               PROVE  /\ op[x] # None
                      /\ op[x].type = Pick => \A p \in op[x].items :
                            /\ unloadedIn'[p] = ActionOf(x, p) /\ picker[p] = op[x].by
                            /\ bin'[p] = op[x].target.bin /\ status'[p] \in {"READY_TO_SHIP", "SHIPPED"}
                      /\ op[x].type = Ship => \A p \in op[x].items :
                            /\ shippedIn[p] = ActionOf(x, p) /\ shippedOn[p] = op[x].target.dispatch
                            /\ bin'[p] = op[x].target.bin /\ status'[p] = "SHIPPED"
    <3>1. submitted' = submitted \union {o} /\ UNCHANGED <<op, picker, shippedIn, shippedOn>>
      BY <1>3
    <3> HIDE DEF o
    <3> QED BY <1>5, <3>1 DEF Stamped
  <2>1. CASE x \in submitted
    <3>1. \A p \in op[x].items : unloadedIn'[p] = unloadedIn[p] /\ bin'[p] = bin[p] /\ status'[p] = status[p]
      BY <1>3, <1>4, <1>7, <2>1
    <3> QED BY <2>1, <3>1 DEF Journal, Stamped
  <2>2. CASE x = o
    <3>1. op[x] # None /\ op[x].type # Ship /\ op[x].items = S
      BY <1>1, <2>2 DEF S
    <3>2. \A p \in S : /\ unloadedIn'[p] = ActionOf(o, p) /\ picker[p] = op[o].by
                       /\ bin'[p] = op[o].target.bin /\ status'[p] = "READY_TO_SHIP"
      BY <1>2, <1>3, <1>4
    <3> QED BY <2>2, <3>1, <3>2
  <2> QED BY <2>1, <2>2
<1>11. StampsSigned'
  <2> SUFFICES ASSUME NEW p \in Products
               PROVE  /\ unloadedIn'[p] # None =>
                          \E x \in submitted \union {o} : op[x].type = Pick /\ p \in op[x].items /\ unloadedIn'[p] = ActionOf(x, p)
                      /\ shippedIn[p] # None =>
                          \E x \in submitted \union {o} : op[x].type = Ship /\ p \in op[x].items /\ shippedIn[p] = ActionOf(x, p)
    <3> HIDE DEF o
    <3> QED BY <1>3, <1>5 DEF StampsSigned, StampOf
  <2>1. /\ unloadedIn[p] # None => \E x \in submitted : op[x].type = Pick /\ p \in op[x].items /\ unloadedIn[p] = ActionOf(x, p)
        /\ shippedIn[p] # None => \E x \in submitted : op[x].type = Ship /\ p \in op[x].items /\ shippedIn[p] = ActionOf(x, p)
    BY DEF Journal, StampsSigned, StampOf
  <2>2. CASE p \in S
    <3>1. unloadedIn'[p] = ActionOf(o, p) /\ op[o].type = Pick /\ p \in op[o].items
      BY <1>1, <1>4, <2>2 DEF S
    <3> HIDE DEF o
    <3> QED BY <2>1, <3>1
  <2>3. CASE p \notin S
    <3>1. unloadedIn'[p] = unloadedIn[p]
      BY <1>4, <2>3
    <3> HIDE DEF o
    <3> QED BY <2>1, <3>1
  <2> QED BY <2>2, <2>3
<1> QED BY <1>8, <1>9, <1>10, <1>11 DEF Journal

\* A shipment writes the row of every item, and leaves what the pick before it has left.
LEMMA JournalShip ==
    ASSUME Inv, Journal, NEW r \in Requests, CommitShip(r)
    PROVE  Journal'
<1> DEFINE o == tx[r].op
           S == op[o].items
<1>1. /\ o \in Ops /\ op[o] # None /\ op[o].type = Ship /\ tx[r].rows = S
      /\ \A p \in S : status[p] = "READY_TO_SHIP" /\ bin[p] = op[o].target.bin
  BY DEF CommitShip, Inv, Locks, Own
<1>2. S \subseteq Products
  BY <1>1 DEF Inv, TypeOK, Draft
<1>3. /\ op' = op /\ submitted' = submitted \union {o} /\ tx' = [tx EXCEPT ![r] = Idle]
      /\ status' = [p \in Products |-> IF p \in S THEN "SHIPPED" ELSE status[p]]
      /\ shippedOn' = [p \in Products |-> IF p \in S THEN op[o].target.dispatch ELSE shippedOn[p]]
      /\ shippedIn' = [p \in Products |-> IF p \in S THEN ActionOf(o, p) ELSE shippedIn[p]]
      /\ UNCHANGED <<bin, orderOf, task, picker, unloadedIn>>
  BY DEF CommitShip, BatchUpdateProductsShipped, BatchInsertShippings, WriteActions
<1>4. \A x, p : ActionOf(x, p)' = ActionOf(x, p)
  BY <1>3 DEF ActionOf
<1>5. tx'[r] = Idle /\ \A q \in Requests \ {r} : tx'[q] = tx[q]
  BY <1>3 DEF Inv, TypeOK
<1>6. \A x \in submitted : op[x] # None /\ op[x].items \subseteq Products /\ op[x].type \in {Pick, Ship}
  BY DEF Journal, Stamped, Inv, TypeOK, Draft
<1> HIDE DEF S, ActionOf
<1>7. SignedOrdersKept'
  BY <1>3 DEF Journal, SignedOrdersKept
<1>8. UnloadOwn'
  <2> SUFFICES ASSUME NEW q \in Requests, tx'[q].step = "unload", NEW p \in tx'[q].rows
               PROVE  picker[p] = op[tx'[q].op].by /\ task[p] = "DONE" /\ unloadedIn[p] = None
    BY <1>3 DEF UnloadOwn
  <2>1. tx'[q] = tx[q]
    BY <1>5 DEF Idle
  <2> QED BY <2>1 DEF Journal, UnloadOwn
<1>9. Stamped'
  <2> SUFFICES ASSUME NEW x \in submitted \union {o}
               PROVE  /\ op[x] # None
                      /\ op[x].type = Pick => \A p \in op[x].items :
                            /\ unloadedIn[p] = ActionOf(x, p) /\ picker[p] = op[x].by
                            /\ bin[p] = op[x].target.bin /\ status'[p] \in {"READY_TO_SHIP", "SHIPPED"}
                      /\ op[x].type = Ship => \A p \in op[x].items :
                            /\ shippedIn'[p] = ActionOf(x, p) /\ shippedOn'[p] = op[x].target.dispatch
                            /\ bin[p] = op[x].target.bin /\ status'[p] = "SHIPPED"
    <3>1. submitted' = submitted \union {o} /\ UNCHANGED <<op, bin, picker, unloadedIn>>
      BY <1>3
    <3> HIDE DEF o
    <3> QED BY <1>4, <3>1 DEF Stamped
  <2>1. CASE x \in submitted /\ op[x].type = Pick
    <3>1. \A p \in op[x].items : /\ unloadedIn[p] = ActionOf(x, p) /\ picker[p] = op[x].by
                                 /\ bin[p] = op[x].target.bin /\ status[p] \in {"READY_TO_SHIP", "SHIPPED"}
      BY <2>1 DEF Journal, Stamped
    <3>2. \A p \in op[x].items : status'[p] \in {status[p], "SHIPPED"}
      BY <1>3, <1>6, <2>1
    <3> QED BY <1>6, <2>1, <3>1, <3>2
  <2>2. CASE x \in submitted /\ op[x].type = Ship
    <3>1. \A p \in op[x].items : /\ shippedIn[p] = ActionOf(x, p) /\ shippedOn[p] = op[x].target.dispatch
                                 /\ bin[p] = op[x].target.bin /\ status[p] = "SHIPPED"
      BY <2>2 DEF Journal, Stamped
    <3>2. \A p \in op[x].items : p \in Products /\ p \notin S
      BY <1>1, <1>6, <2>2, <3>1
    <3>3. \A p \in op[x].items : shippedIn'[p] = shippedIn[p] /\ shippedOn'[p] = shippedOn[p] /\ status'[p] = status[p]
      BY <1>3, <3>2
    <3> QED BY <1>6, <2>2, <3>1, <3>3
  <2>3. CASE x = o
    <3>1. op[x] # None /\ op[x].type = Ship /\ op[x].items = S
      BY <1>1, <2>3 DEF S
    <3>2. \A p \in S : /\ shippedIn'[p] = ActionOf(o, p) /\ shippedOn'[p] = op[o].target.dispatch
                       /\ bin[p] = op[o].target.bin /\ status'[p] = "SHIPPED"
      BY <1>1, <1>2, <1>3
    <3> QED BY <2>3, <3>1, <3>2
  <2> QED BY <1>6, <2>1, <2>2, <2>3
<1>10. StampsSigned'
  <2> SUFFICES ASSUME NEW p \in Products
               PROVE  /\ unloadedIn[p] # None =>
                          \E x \in submitted \union {o} : op[x].type = Pick /\ p \in op[x].items /\ unloadedIn[p] = ActionOf(x, p)
                      /\ shippedIn'[p] # None =>
                          \E x \in submitted \union {o} : op[x].type = Ship /\ p \in op[x].items /\ shippedIn'[p] = ActionOf(x, p)
    <3> HIDE DEF o
    <3> QED BY <1>3, <1>4 DEF StampsSigned, StampOf
  <2>1. /\ unloadedIn[p] # None => \E x \in submitted : op[x].type = Pick /\ p \in op[x].items /\ unloadedIn[p] = ActionOf(x, p)
        /\ shippedIn[p] # None => \E x \in submitted : op[x].type = Ship /\ p \in op[x].items /\ shippedIn[p] = ActionOf(x, p)
    BY DEF Journal, StampsSigned, StampOf
  <2>2. CASE p \in S
    <3>1. shippedIn'[p] = ActionOf(o, p) /\ op[o].type = Ship /\ p \in op[o].items
      BY <1>1, <1>3, <2>2 DEF S
    <3> HIDE DEF o
    <3> QED BY <2>1, <3>1
  <2>3. CASE p \notin S
    <3>1. shippedIn'[p] = shippedIn[p]
      BY <1>3, <2>3
    <3> HIDE DEF o
    <3> QED BY <2>1, <3>1
  <2> QED BY <2>2, <2>3
<1> QED BY <1>7, <1>8, <1>9, <1>10 DEF Journal

LEMMA JournalInductive == Inv /\ Journal /\ [Next]_vars => Journal'
<1> SUFFICES ASSUME Inv, Journal, [Next]_vars PROVE Journal'
  OBVIOUS
<1> USE DEF signedVars
<1>1. ASSUME UNCHANGED <<stockVars, op, submitted, tx>> PROVE Journal'
  <2>1. UnloadOwn'
    BY <1>1 DEF Journal, UnloadOwn, stockVars, assemblyVars
  <2> QED BY <1>1, <2>1, JournalSame
<1>2. ASSUME NEW r \in Requests, UNCHANGED <<stockVars, op, submitted>>, \A q \in Requests \ {r} : tx'[q] = tx[q],
             tx'[r].step # "unload"
      PROVE  Journal'
  <2>1. UnloadOwn'
    BY <1>2 DEF Journal, UnloadOwn, stockVars, assemblyVars
  <2> QED BY <1>2, <2>1, JournalSame
<1>3. CASE UNCHANGED vars
  BY <1>1, <1>3 DEF vars
<1>4. CASE SettleOutbound
  BY <1>1, <1>4 DEF SettleOutbound
<1>5. CASE \E r \in Requests : Abort(r)
  BY <1>2, <1>5 DEF Abort, Idle, Inv, TypeOK
<1>6. ASSUME NEW r \in Requests, NEW d \in Destinations, Allocate(r, d), UNCHANGED shippingVars PROVE Journal'
  <2>1. (\A q \in Requests \ {r} : tx'[q] = tx[q]) /\ tx'[r].step = "allocate"
    BY <1>6 DEF Allocate, Begin, Idle, Inv, TypeOK
  <2> QED BY <1>2, <1>6, <2>1 DEF Allocate, stockVars
<1>7. ASSUME NEW r \in Requests, AllocateLine(r) \/ AllocateOrderTx(r), UNCHANGED shippingVars PROVE Journal'
  <2>1. (\A q \in Requests \ {r} : tx'[q] = tx[q]) /\ tx'[r].step = "allocate"
    BY <1>7, AllocateLineInv, AllocateOrderInv
  <2>2. UNCHANGED <<stockVars, op, submitted>>
    BY <1>7 DEF AllocateLine, AllocateOrderTx, stockVars
  <2> QED BY <1>2, <2>1, <2>2
<1>8. ASSUME NEW r \in Requests, NEW w \in Operators, NEW p \in Products, CheckPick(r, w, p), UNCHANGED shippingVars
      PROVE  Journal'
  <2>1. (\A q \in Requests \ {r} : tx'[q] = tx[q]) /\ tx'[r].step = "pick"
    BY <1>8 DEF CheckPick, Begin, Idle, Inv, TypeOK
  <2> QED BY <1>2, <1>8, <2>1 DEF CheckPick, stockVars
<1>9. ASSUME NEW r \in Requests, NEW o \in Ops, NEW w \in Operators, NEW b \in ShippingBins,
             DraftUnloadToShippingBuffer(r, o, w, b), UNCHANGED shippingVars
      PROVE  Journal'
  <2> DEFINE items == OperatorBasket(w, BinDestination[b])
  <2>1. /\ op[o] = None /\ UNCHANGED <<stockVars, submitted, tx>>
        /\ op' = [op EXCEPT ![o] = [type |-> Pick, by |-> w, items |-> items,
                                    target |-> [bin |-> b, orders |-> [p \in items |-> orderOf[p]]]]]
    BY <1>9 DEF DraftUnloadToShippingBuffer, InsertOperation, SignedOrders, stockVars
  <2>2. \A p \in items : orderOf[p] # None
    BY DEF OperatorBasket
  <2> HIDE DEF items
  <2>3. (\A x \in Ops \ {o} : op'[x] = op[x]) /\ op'[o].items = items /\ \A p \in items : op'[o].target.orders[p] = orderOf[p]
    BY <2>1 DEF Inv, TypeOK
  <2> QED BY <2>1, <2>2, <2>3, JournalDraft
<1>10. ASSUME NEW r \in Requests, NEW o \in Ops, SubmitUnloadToShippingBuffer(r, o), UNCHANGED shippingVars
       PROVE  Journal'
  <2>1. /\ \A q \in Requests \ {r} : tx'[q] = tx[q]
        /\ tx'[r].step = "unload" /\ tx'[r].op = o /\ tx'[r].rows = op[o].items
    BY <1>10 DEF SubmitUnloadToShippingBuffer, Begin, Idle, Inv, TypeOK
  <2>2. UNCHANGED <<stockVars, op, submitted>>
    BY <1>10 DEF SubmitUnloadToShippingBuffer, stockVars
  <2>3. \A p \in op[o].items : picker[p] = op[o].by /\ task[p] = "DONE" /\ unloadedIn[p] = None
    BY <1>10 DEF SubmitUnloadToShippingBuffer, OperatorBasket
  <2>4. UnloadOwn'
    BY <2>1, <2>2, <2>3 DEF Journal, UnloadOwn, stockVars, assemblyVars
  <2> QED BY <2>2, <2>4, JournalSame
<1>11. ASSUME NEW v \in Dispatches, CreateNewDispatch(v) \/ ScanDriver(v) PROVE Journal'
  <2>1. UNCHANGED <<assemblyVars, shippedOn, shippedIn, op, submitted, tx>>
    BY <1>11 DEF CreateNewDispatch, ScanDriver
  <2>2. SignedOrdersKept' /\ UnloadOwn'
    BY <2>1 DEF Journal, SignedOrdersKept, UnloadOwn, assemblyVars
  <2>3. Stamped' /\ StampsSigned'
    BY <2>1 DEF Journal, Stamped, StampsSigned, StampOf, ActionOf, assemblyVars
  <2> QED BY <2>2, <2>3 DEF Journal
<1>12. ASSUME NEW r \in Requests, NEW o \in Ops, NEW b \in ShippingBins, NEW v \in Dispatches,
              NEW items \in SUBSET Products, DraftShip(r, o, b, v, items)
       PROVE  Journal'
  <2>1. /\ op[o] = None /\ UNCHANGED <<stockVars, submitted, tx>>
        /\ op' = [op EXCEPT ![o] = [type |-> Ship, by |-> None, items |-> items,
                                    target |-> [bin |-> b, dispatch |-> v, orders |-> [p \in items |-> orderOf[p]]]]]
    BY <1>12 DEF DraftShip, InsertOperation, SignedOrders
  <2>2. \A p \in items : orderOf[p] # None
    BY <1>12 DEF DraftShip, ProductsForShip, Inv, Stock
  <2>3. (\A x \in Ops \ {o} : op'[x] = op[x]) /\ op'[o].items = items /\ \A p \in items : op'[o].target.orders[p] = orderOf[p]
    BY <2>1 DEF Inv, TypeOK
  <2> QED BY <2>1, <2>2, <2>3, JournalDraft
<1>13. ASSUME NEW r \in Requests, NEW o \in Ops, CheckShip(r, o) PROVE Journal'
  <2>1. (\A q \in Requests \ {r} : tx'[q] = tx[q]) /\ tx'[r].step = "confirmed"
    BY <1>13 DEF CheckShip, Begin, Idle, Inv, TypeOK
  <2> QED BY <1>2, <1>13, <2>1 DEF CheckShip
<1>14. ASSUME NEW r \in Requests, SubmitShip(r) PROVE Journal'
  <2>1. (\A q \in Requests \ {r} : tx'[q] = tx[q]) /\ tx'[r].step = "ship"
    BY <1>14 DEF SubmitShip, Inv, TypeOK, Transaction
  <2>2. UNCHANGED <<stockVars, op, submitted>>
    BY <1>14 DEF SubmitShip
  <2> QED BY <1>2, <2>1, <2>2
<1>15. CASE NextAssembly /\ UNCHANGED shippingVars
  BY <1>6, <1>7, <1>8, <1>9, <1>10, <1>15, JournalAllocate, JournalPick, JournalUnload DEF NextAssembly
<1>16. CASE NextShipping
  BY <1>11, <1>12, <1>13, <1>14, <1>16, JournalShip DEF NextShipping
<1> QED BY <1>3, <1>4, <1>5, <1>15, <1>16 DEF Next

\* What the audit recomputes for an action is what was signed.
LEMMA ActionClean ==
    ASSUME Inv, Journal, NEW a \in AllActions
    PROVE  CheckDetailsHash(a) /\ CheckItems(a)
<1>1. PICK o \in submitted : \E k \in 1..Parts(op[o].items) : a = <<o, k>>
  BY DEF AllActions
<1>2. PICK k \in 1..Parts(op[o].items) : a = <<o, k>>
  BY <1>1
<1> DEFINE items == op[o].items
           d == op[o]
<1>3. o \in Ops /\ d \in Draft /\ d # None /\ items \in SUBSET Products /\ d.type \in {Pick, Ship} /\ a[1] = o /\ a[2] = k
  BY <1>2 DEF Journal, Stamped, Inv, TypeOK, Draft
<1>4. ItemIDs(a) = Part(items, k) /\ ItemIDs(a) \subseteq items /\ ItemIDs(a) # {}
  BY <1>3, PartNonempty DEF ItemIDs, Part
<1>5. \A p \in items : ActionOf(o, p) = a <=> p \in ItemIDs(a)
  <2>1. \A p \in items : p \in Part(items, k) <=> (Rank(items, p) - 1) \div MaxItems + 1 = k
    BY <1>3, PartOfUnique
  <2> QED BY <1>2, <1>4, <2>1 DEF ActionOf
<1>6. a # None
  <2>1. k \in Nat \ {0}
    BY <1>3, PartsType
  <2>2. a \in Ops \X (Nat \ {0})
    BY <1>2, <1>3, <2>1
  <2> QED BY <2>2, AssemblyAssumption, Zenon
<1>7. ASSUME NEW x, NEW p, a = ActionOf(x, p) PROVE x = o
  BY <1>2, <1>7 DEF ActionOf
<1>8. \A p \in items : p \in Products /\ orderOf[p] # None /\ d.target.orders[p] = orderOf[p]
  BY <1>3 DEF Journal, SignedOrdersKept
<1>9. ASSUME NEW p \in Products
      PROVE  /\ unloadedIn[p] = a => d.type = Pick /\ p \in items /\ ActionOf(o, p) = a
             /\ shippedIn[p] = a => d.type = Ship /\ p \in items /\ ActionOf(o, p) = a
  <2>1. /\ unloadedIn[p] = a => \E x \in submitted : op[x].type = Pick /\ p \in op[x].items /\ a = ActionOf(x, p)
        /\ shippedIn[p] = a => \E x \in submitted : op[x].type = Ship /\ p \in op[x].items /\ a = ActionOf(x, p)
    BY <1>6 DEF Journal, StampsSigned, StampOf
  <2> QED BY <1>7, <2>1
<1> HIDE DEF ActionOf, ItemIDs, items
<1>10. CASE d.type = Pick
  <2>1. \A p \in items : unloadedIn[p] = ActionOf(o, p) /\ picker[p] = d.by /\ bin[p] = d.target.bin
    BY <1>10 DEF Journal, Stamped, items
  <2>2. \A p \in Products : unloadedIn[p] = a <=> p \in ItemIDs(a)
    BY <1>4, <1>5, <1>9, <2>1
  <2>3. \A p \in Products : shippedIn[p] # a
    BY <1>9, <1>10
  <2>4. {p \in Products : unloadedIn[p] = a} = ItemIDs(a)
    BY <1>4, <1>8, <2>2
  <2>5. CheckItems(a)
    BY <2>3, <2>4 DEF CheckItems, DomainItems
  <2>6. /\ {picker[p] : p \in ItemIDs(a)} = {d.by} /\ {bin[p] : p \in ItemIDs(a)} = {d.target.bin}
        /\ {orderOf[p] : p \in ItemIDs(a)} = {d.target.orders[p] : p \in ItemIDs(a)}
    <3>1. {picker[p] : p \in ItemIDs(a)} = {d.by}
      BY <1>4, <2>1
    <3>2. {bin[p] : p \in ItemIDs(a)} = {d.target.bin}
      BY <1>4, <2>1
    <3>3. {orderOf[p] : p \in ItemIDs(a)} = {d.target.orders[p] : p \in ItemIDs(a)}
      BY <1>4, <1>8
    <3> QED BY <3>1, <3>2, <3>3
  <2>7. PickDetails(a) = [operators |-> {d.by}, orders |-> {d.target.orders[p] : p \in ItemIDs(a)}, bins |-> {d.target.bin}]
    BY <2>4, <2>6 DEF PickDetails, ShippingBufferBin
  <2> QED BY <1>3, <1>10, <2>5, <2>7 DEF CheckDetailsHash
<1>11. CASE d.type = Ship
  <2>1. \A p \in items : /\ shippedIn[p] = ActionOf(o, p) /\ shippedOn[p] = d.target.dispatch
                         /\ bin[p] = d.target.bin
    BY <1>11 DEF Journal, Stamped, items
  <2>2. \A p \in Products : shippedIn[p] = a <=> p \in ItemIDs(a)
    BY <1>4, <1>5, <1>9, <2>1
  <2>3. \A p \in Products : unloadedIn[p] # a
    BY <1>9, <1>11
  <2>4. {p \in Products : shippedIn[p] = a} = ItemIDs(a)
    BY <1>4, <1>8, <2>2
  <2>5. CheckItems(a)
    BY <2>3, <2>4 DEF CheckItems, DomainItems
  <2>6. /\ {shippedOn[p] : p \in ItemIDs(a)} = {d.target.dispatch} /\ {bin[p] : p \in ItemIDs(a)} = {d.target.bin}
        /\ OrdersOf(ItemIDs(a)) = {d.target.orders[p] : p \in ItemIDs(a)}
    <3>1. {shippedOn[p] : p \in ItemIDs(a)} = {d.target.dispatch}
      BY <1>4, <2>1
    <3>2. {bin[p] : p \in ItemIDs(a)} = {d.target.bin}
      BY <1>4, <2>1
    <3>3. OrdersOf(ItemIDs(a)) = {d.target.orders[p] : p \in ItemIDs(a)}
      BY <1>4, <1>8 DEF OrdersOf
    <3> QED BY <3>1, <3>2, <3>3
  <2>7. ShipDetails(a) = [dispatches |-> {d.target.dispatch}, orders |-> {d.target.orders[p] : p \in ItemIDs(a)},
                          bins |-> {d.target.bin}]
    BY <2>4, <2>6 DEF ShipDetails, ShippingBufferBin
  <2> QED BY <1>3, <1>11, <2>5, <2>7 DEF CheckDetailsHash
<1> QED BY <1>3, <1>10, <1>11

\* Whenever the audit looks, what it recomputes from the tables is what was signed, for picks
\* and for shipments, whatever requests have run since.
THEOREM AuditCorrect == Spec => []AuditClean
<1>1. Inv /\ Journal => AuditClean
  BY ActionClean DEF AuditClean
<1> QED BY <1>1, InitJournal, JournalInductive, SpecInv, PTL DEF Spec

-----------------------------------------------------------------------------
(* What is proved of Custody holds of its implementation. *)

P == INSTANCE CustodyProofs WITH held <- [p \in Products |-> Stage[status[p]]], From <- PutAway

LEMMA SameCount ==
    ASSUME NEW S
    PROVE  P!Cardinality(S) = C!Cardinality(S)
  BY DEF C!Cardinality, P!Cardinality

LEMMA SameInit == C!Init => P!Init
  BY SameCount DEF C!Init, P!Init, C!History, P!History, C!Signed, P!Signed, C!Parts, P!Parts, C!Part, P!Part,
     C!Rank, P!Rank, C!Receive, P!Receive, C!PutAway, P!PutAway

LEMMA SameNext == [C!Next]_(C!vars) => [P!Next]_(P!vars)
<1>1. C!Settled(log, log') => P!Settled(log, log')
  BY SameCount DEF C!Settled, C!NextToSettle, C!Verdict, C!AtStageBefore, C!OnLedger, C!Failures, C!Receive,
     P!Settled, P!NextToSettle, P!Verdict, P!AtStageBefore, P!OnLedger, P!Failures, P!Receive
<1>2. ASSUME NEW type, NEW items PROVE C!Signed(type, items) = P!Signed(type, items)
  BY SameCount DEF C!Signed, C!Parts, C!Part, C!Rank, P!Signed, P!Parts, P!Part, P!Rank
<1>3. ASSUME NEW type, NEW items, C!Advance(type, items) PROVE P!Advance(type, items)
  BY <1>2, <1>3 DEF C!Advance, P!Advance
<1>4. UNCHANGED C!vars => UNCHANGED P!vars
  BY DEF C!vars, P!vars
<1>5. C!Settle => P!Settle
  BY <1>1 DEF C!Settle, P!Settle
<1>6. C!Next => P!Next
  BY <1>3, <1>5 DEF C!Next, P!Next, C!ActionTypes, P!ActionTypes
<1> QED BY <1>4, <1>6

LEMMA SameStages == P!StagesAgree => C!StagesAgree
  BY DEF P!StagesAgree, C!StagesAgree

\* The contract rejects a pick or a shipment of the WMS only when the stage before it of one
\* of its items failed, whatever requests run at the same time.
THEOREM StagesCorrect == Spec => []StagesAgree
<1>1. P!IsFiniteSet(Products)
  BY LogAssumption DEF IsFiniteSet, P!IsFiniteSet
<1>2. 2 \in {0, P!PutAway}
  BY DEF P!PutAway
<1>3. P!Spec => []P!StagesAgree
  BY <1>1, <1>2, P!LedgerAgrees, LogAssumption
<1>4. C!Spec => P!Spec
  BY SameInit, SameNext, PTL DEF C!Spec, P!Spec
<1> QED BY <1>3, <1>4, SameStages, OutboundImplementsCustody, PTL DEF ImplementsCustody, StagesAgree
=============================================================================
