---------------------------- MODULE InboundProofs ----------------------------
(***************************************************************************)
(* Theorems about Inbound, for any shipment, any products and any number   *)
(* of requests: its types, its gate and the gate's journal, that it        *)
(* implements Custody, and that the audit recomputes what was signed.      *)
(***************************************************************************)
EXTENDS Inbound, LedgerLogProofs

USE DEF Receive, PutAway, Pick, Ship, ActionTypes

-----------------------------------------------------------------------------
(* The parts of an operation. *)

\* The action that holds an item of a draft.
LEMMA ActionOfType ==
    ASSUME NEW o \in Ops, NEW p \in op[o].items, op[o].items \in SUBSET Products
    PROVE  ActionOf(o, p) \in Ops \X (Nat \ {0})
<1>1. (Rank(op[o].items, p) - 1) \div MaxItems \in Nat
  BY PartOf
<1> QED BY <1>1 DEF ActionOf

-----------------------------------------------------------------------------
(* Types. *)

\* A transaction has what its step works on.
StepTyped ==
    \A r \in Requests :
        /\ tx[r].step \in {"scan", "count", "close"} => tx[r].cp \in Cargoplaces
        /\ tx[r].step = "closeBox" => tx[r].box \in Boxes
        /\ tx[r].step = "place" => tx[r].op \in Ops

Typed == TypeOK /\ StepTyped

\* A submission appends to the log.
LEMMA WriteActionsType ==
    ASSUME NEW o \in Ops, op[o] \in Draft, submitted \in SUBSET Ops, log \in Seq(Action), WriteActions(o)
    PROVE  submitted' \in SUBSET Ops /\ log' \in Seq(Action) /\ op' = op
<1>1. Signed(op[o].type, op[o].items) \in Seq(Action)
  BY SignedType DEF Draft
<1> QED BY <1>1 DEF WriteActions

\* A loaded operation is a draft.
LEMMA OperationType ==
    ASSUME TypeOK, NEW o \in Ops, NEW type, Operation(o, type)
    PROVE  op[o] \in Draft /\ op[o].type = type
  BY DEF Operation, TypeOK

\* A new draft is one.
LEMMA InsertOperationType ==
    ASSUME TypeOK, NEW o \in Ops, NEW type \in {Receive, PutAway}, NEW items \in SUBSET Products,
           NEW target \in IF type = Receive THEN Cargoplaces ELSE {Storage}, InsertOperation(o, type, None, items, target)
    PROVE  op' \in [Ops -> Draft \union {None}]
<1>1. [type |-> type, by |-> None, items |-> items, target |-> target] \in Draft
  BY DEF Draft
<1> QED BY <1>1 DEF InsertOperation, TypeOK

LEMMA InitType == Init => Typed
<1> SUFFICES ASSUME Init PROVE Typed
  OBVIOUS
<1>1. Idle \in Transaction
  BY DEF Idle, Transaction, Steps
<1>2. log \in Seq(Action)
  BY DEF Init, InitReceiving
<1> QED
  BY <1>1, <1>2 DEF Init, InitReceiving, Typed, StepTyped, Idle, TypeOK, ShipmentStatuses, CargoplaceStatuses,
     BoxStatuses, ProductStatuses

\* The type of the transactions at a step that begins or ends one.
LEMMA IdleType == Idle \in Transaction
  BY DEF Idle, Transaction, Steps

\* Every step keeps the types.
LEMMA TypeInductive == Typed /\ [Next]_vars => Typed'
<1> SUFFICES ASSUME Typed, [Next]_vars PROVE Typed'
  OBVIOUS
<1> USE IdleType
<1> USE DEF gateVars, tableVars, signedVars
<1>1. CASE UNCHANGED vars
  BY <1>1 DEF Typed, TypeOK, StepTyped, vars
<1>2. CASE SettleInbound
  BY <1>2, SettledChange DEF SettleInbound, Typed, TypeOK, StepTyped
<1>3. ASSUME NEW r \in Requests, tx' = [tx EXCEPT ![r] = Idle]
      PROVE  tx' \in [Requests -> Transaction] /\ StepTyped'
  BY <1>3 DEF Idle, Typed, TypeOK, StepTyped
<1>4. ASSUME NEW r \in Requests, Rollback(r) PROVE Typed'
  BY <1>3, <1>4 DEF Rollback, Typed, TypeOK, StepTyped
<1>5. ASSUME NEW r \in Requests, NEW t \in Transaction, Begin(r, t), UNCHANGED <<gateVars, tableVars, signedVars>>,
              t = Idle \/ t.step \in {"ttn", "mark"} \/ (t.step = "scan" /\ t.cp \in Cargoplaces)
                  \/ (t.step = "closeBox" /\ t.box \in Boxes) \/ (t.step = "place" /\ t.op \in Ops)
      PROVE  Typed'
  BY <1>5 DEF Begin, Typed, TypeOK, StepTyped
<1>6. CASE NextReceiving
  <2> SUFFICES ASSUME NEW r \in Requests,
                      \/ Abort(r)
                      \/ ReadTTN(r) \/ ScanTTN(r)
                      \/ \E c \in Cargoplaces : ScanCargoplace(r, c)
                      \/ ScanUpdate(r) \/ CountShipmentProgress(r) \/ CommitScan(r)
                      \/ AcceptShipment(r) \/ MarkExpectedAsNotReceived(r) \/ CommitAccept(r)
                      \/ \E c \in Cargoplaces : ScanTableCargoplace(r, c)
                      \/ \E b \in Boxes : ScanBox(r, b) \/ ReadBox(r, b)
                      \/ \E b \in Boxes, p \in Products : ScanQR(r, b, p)
                      \/ CloseBox(r)
                      \/ \E c \in Cargoplaces, b \in BufferBins : ScanBuffer(r, c, b)
                      \/ \E o \in Ops, c \in Cargoplaces : DraftCloseCargoplace(r, o, c)
                      \/ \E o \in Ops : SubmitCloseCargoplace(r, o)
               PROVE  Typed'
    BY <1>6 DEF NextReceiving
  <2>1. CASE Abort(r)
    BY <2>1, <1>4 DEF Abort
  <2>2. CASE ReadTTN(r)
    <3> DEFINE t == [Idle EXCEPT !.step = "ttn"]
    <3>1. t \in Transaction /\ t.step = "ttn"
      BY DEF Idle, Transaction, Steps
    <3> HIDE DEF t
    <3> QED BY <2>2, <3>1, <1>5 DEF ReadTTN, t
  <2>3. CASE ScanTTN(r)
    BY <2>3, <1>3 DEF ScanTTN, UpdateShipmentStatus, Typed, TypeOK, StepTyped, ShipmentStatuses
  <2>4. ASSUME NEW c \in Cargoplaces, ScanCargoplace(r, c) PROVE Typed'
    <3> DEFINE t == [Idle EXCEPT !.step = "scan", !.cp = c]
    <3>1. t \in Transaction /\ t.step = "scan" /\ t.cp = c
      BY DEF Idle, Transaction, Steps
    <3> HIDE DEF t
    <3> QED BY <2>4, <3>1, <1>5 DEF ScanCargoplace, t
  <2>5. CASE ScanUpdate(r)
    <3>1. CASE UpdateCargoplaceReceivedAtGate(r, tx[r].cp) /\ UNCHANGED <<gateVars, tableVars, signedVars>>
      <4> DEFINE t == [tx[r] EXCEPT !.step = "count", !.rows = {tx[r].cp}]
      <4>1. tx[r].cp \in Cargoplaces
        BY <2>5 DEF ScanUpdate, Typed, StepTyped
      <4>2. t \in Transaction /\ t.step = "count" /\ t.cp = tx[r].cp
        BY <4>1 DEF Typed, TypeOK, Transaction, Steps
      <4>3. tx' = [tx EXCEPT ![r] = t]
        BY <3>1 DEF UpdateCargoplaceReceivedAtGate, Typed, TypeOK, Transaction
      <4> HIDE DEF t
      <4> QED BY <3>1, <4>1, <4>2, <4>3 DEF Typed, TypeOK, StepTyped
    <3> QED BY <2>5, <3>1, <1>4 DEF ScanUpdate
  <2>6. CASE CountShipmentProgress(r)
    <3> DEFINE t == [tx[r] EXCEPT !.step = "close", !.last = CountCargoplacesByStatus(r) >= CountCargoplaces]
    <3>0. (CountCargoplacesByStatus(r) >= CountCargoplaces) \in BOOLEAN
      OBVIOUS
    <3>1. t \in Transaction /\ t.step = "close" /\ t.cp = tx[r].cp
      BY <3>0 DEF Typed, TypeOK, Transaction, Steps
    <3>2. tx' = [tx EXCEPT ![r] = t]
      BY <2>6 DEF CountShipmentProgress, Typed, TypeOK, Transaction
    <3> HIDE DEF t
    <3> QED BY <2>6, <3>1, <3>2 DEF CountShipmentProgress, Typed, TypeOK, StepTyped
  <2>7. CASE CommitScan(r)
    <3>1. shipment' \in ShipmentStatuses /\ accepted' \in Nat
      BY <2>7 DEF CommitScan, TryAutoCloseShipment, Typed, TypeOK, ShipmentStatuses
    <3>2. cp' \in [Cargoplaces -> CargoplaceStatuses]
      BY <2>7 DEF CommitScan, Typed, TypeOK, CargoplaceStatuses
    <3>3. scanned' \in [Cargoplaces -> Nat]
      BY <2>7 DEF CommitScan, InsertReceivingGateLog, Typed, TypeOK, StepTyped
    <3> QED BY <2>7, <1>3, <3>1, <3>2, <3>3 DEF CommitScan, Typed, TypeOK
  <2>8. CASE AcceptShipment(r)
    <3> DEFINE t == [Idle EXCEPT !.step = "mark"]
    <3>1. t \in Transaction /\ t.step = "mark"
      BY DEF Idle, Transaction, Steps
    <3> HIDE DEF t
    <3> QED BY <2>8, <3>1, <1>5 DEF AcceptShipment, t
  <2>9. CASE MarkExpectedAsNotReceived(r)
    <3> DEFINE t == [tx[r] EXCEPT !.step = "accept", !.rows = {c \in Cargoplaces : cp[c] = "EXPECTED"}]
    <3>1. t \in Transaction /\ t.step = "accept"
      BY DEF Typed, TypeOK, Transaction, Steps
    <3>2. tx' = [tx EXCEPT ![r] = t]
      BY <2>9 DEF MarkExpectedAsNotReceived, Typed, TypeOK, Transaction
    <3> HIDE DEF t
    <3>3. TypeOK'
      <4>1. tx' \in [Requests -> Transaction]
        BY <3>1, <3>2 DEF Typed, TypeOK
      <4>2. UNCHANGED <<gateVars, tableVars, signedVars>>
        BY <2>9 DEF MarkExpectedAsNotReceived
      <4> QED BY <4>1, <4>2 DEF Typed, TypeOK
    <3>4. StepTyped'
      BY <2>9, <3>1, <3>2 DEF MarkExpectedAsNotReceived, Typed, TypeOK, StepTyped
    <3> QED BY <3>3, <3>4 DEF Typed
  <2>10. CASE CommitAccept(r)
    BY <2>10, <1>3, <1>4 DEF CommitAccept, Typed, TypeOK, StepTyped, ShipmentStatuses, CargoplaceStatuses
  <2>11. ASSUME NEW c \in Cargoplaces, ScanTableCargoplace(r, c) PROVE Typed'
    BY <2>11 DEF ScanTableCargoplace, UpdateCargoplaceStatus, Typed, TypeOK, StepTyped, CargoplaceStatuses
  <2>12. ASSUME NEW b \in Boxes, ScanBox(r, b) PROVE Typed'
    BY <2>12 DEF ScanBox, UpsertBox, Typed, TypeOK, StepTyped, BoxStatuses
  <2>13. ASSUME NEW b \in Boxes, ReadBox(r, b) PROVE Typed'
    <3> DEFINE t == [Idle EXCEPT !.step = "closeBox", !.box = b]
    <3>1. t \in Transaction /\ t.step = "closeBox" /\ t.box = b
      BY DEF Idle, Transaction, Steps
    <3> HIDE DEF t
    <3> QED BY <2>13, <3>1, <1>5 DEF ReadBox, t
  <2>14. ASSUME NEW b \in Boxes, NEW p \in Products, ScanQR(r, b, p) PROVE Typed'
    BY <2>14 DEF ScanQR, InsertProduct, Typed, TypeOK, StepTyped, ProductStatuses
  <2>15. CASE CloseBox(r)
    BY <2>15, <1>3, <1>4 DEF CloseBox, UpdateBoxStatus, Typed, TypeOK, StepTyped, BoxStatuses
  <2>16. ASSUME NEW c \in Cargoplaces, NEW b \in BufferBins, ScanBuffer(r, c, b) PROVE Typed'
    BY <2>16 DEF ScanBuffer, ScanBufferWithLog, Typed, TypeOK, StepTyped
  <2>17. ASSUME NEW o \in Ops, NEW c \in Cargoplaces, DraftCloseCargoplace(r, o, c) PROVE Typed'
    <3>1. ListClosableProductIDs(c) \in SUBSET Products
      BY DEF ListClosableProductIDs
    <3>2. op' \in [Ops -> Draft \union {None}]
      BY <2>17, <3>1, InsertOperationType DEF DraftCloseCargoplace, Typed
    <3> QED BY <2>17, <3>2 DEF DraftCloseCargoplace, Typed, TypeOK, StepTyped
  <2>18. ASSUME NEW o \in Ops, SubmitCloseCargoplace(r, o) PROVE Typed'
    <3>1. op[o] \in Draft
      BY <2>18 DEF SubmitCloseCargoplace, Operation, Typed, TypeOK, StepTyped
    <3>2. submitted' \in SUBSET Ops /\ log' \in Seq(Action) /\ op' = op
      BY <2>18, <3>1, WriteActionsType DEF SubmitCloseCargoplace, CloseCargoplaceWithOutbox, Typed, TypeOK, StepTyped
    <3>3. cp' \in [Cargoplaces -> CargoplaceStatuses] /\ closedIn' \in [Cargoplaces -> Ops \union {None}]
      BY <2>18 DEF SubmitCloseCargoplace, CloseCargoplaceWithOutbox, InsertReceivingTableLogTx, Typed, TypeOK, StepTyped,
         CargoplaceStatuses
    <3> QED BY <2>18, <3>2, <3>3 DEF SubmitCloseCargoplace, Typed, TypeOK, StepTyped
  <2> QED
    BY <2>1, <2>2, <2>3, <2>4, <2>5, <2>6, <2>7, <2>8, <2>9, <2>10, <2>11, <2>12, <2>13, <2>14, <2>15,
       <2>16, <2>17, <2>18
<1>7. CASE NextPutaway
  <2> SUFFICES ASSUME NEW r \in Requests,
                      \/ \E o \in Ops : CheckPlace(r, o)
                      \/ \E o \in Ops, items \in SUBSET Products : DraftPlaceToStorageBin(r, o, items)
                      \/ SubmitPlaceToStorageBin(r)
               PROVE  Typed'
    BY <1>7 DEF NextPutaway
  <2>1. ASSUME NEW o \in Ops, CheckPlace(r, o) PROVE Typed'
    <3> DEFINE t == [Idle EXCEPT !.step = "place", !.op = o]
    <3>1. t \in Transaction /\ t.step = "place" /\ t.op = o
      BY DEF Idle, Transaction, Steps
    <3> HIDE DEF t
    <3> QED BY <2>1, <3>1, <1>5 DEF CheckPlace, t
  <2>2. ASSUME NEW o \in Ops, NEW items \in SUBSET Products, DraftPlaceToStorageBin(r, o, items)
        PROVE  Typed'
    <3>1. op' \in [Ops -> Draft \union {None}]
      BY <2>2, InsertOperationType DEF DraftPlaceToStorageBin, Typed
    <3> QED BY <2>2, <3>1 DEF DraftPlaceToStorageBin, Typed, TypeOK, StepTyped
  <2>3. CASE SubmitPlaceToStorageBin(r)
    <3> DEFINE o == tx[r].op
    <3>1. o \in Ops
      BY <2>3 DEF SubmitPlaceToStorageBin, Typed, StepTyped
    <3> HIDE DEF o
    <3>2. ASSUME LockOperation(r, o, PutAway), UpdateProductStorage(op[o].items), InsertPutaway(o), WriteActions(o),
                 tx' = [tx EXCEPT ![r] = Idle], UNCHANGED <<gateVars, box, inBox, closedIn>>
          PROVE  Typed'
      <4>1. op[o] \in Draft /\ op[o].type = PutAway
        BY <3>1, <3>2, OperationType DEF LockOperation, Typed
      <4>2. submitted' \in SUBSET Ops /\ log' \in Seq(Action) /\ op' = op
        BY <3>1, <3>2, <4>1, WriteActionsType DEF Typed, TypeOK
      <4>3. status' \in [Products -> ProductStatuses]
        BY <3>2 DEF UpdateProductStorage, Typed, TypeOK, ProductStatuses
      <4>4. bin' \in [Products -> BufferBins \union {Storage, None}]
        BY <3>2 DEF UpdateProductStorage, Typed, TypeOK
      <4>5. \A p \in op[o].items : ActionOf(o, p) \in Ops \X (Nat \ {0})
        BY <3>1, <4>1, ActionOfType DEF Draft
      <4>6. putaways' \in [Products -> [action : Ops \X (Nat \ {0}), bin : {Storage}] \union {None}]
        <5>1. op[o].target = Storage
          BY <4>1 DEF Draft
        <5>2. \A p \in op[o].items : [action |-> ActionOf(o, p), bin |-> op[o].target]
                                        \in [action : Ops \X (Nat \ {0}), bin : {Storage}]
          BY <4>5, <5>1
        <5> QED BY <3>2, <5>2 DEF InsertPutaway, Typed, TypeOK
      <4> QED BY <3>2, <1>3, <4>2, <4>3, <4>4, <4>6 DEF Typed, TypeOK
    <3> QED BY <2>3, <3>2, <1>4 DEF SubmitPlaceToStorageBin, o
  <2> QED BY <2>1, <2>2, <2>3
<1> QED BY <1>1, <1>2, <1>6, <1>7 DEF Next

\* The variables of receiving and putaway keep their types.
THEOREM TypeCorrect == Spec => []TypeOK
<1>1. Spec => []Typed
  BY InitType, TypeInductive, PTL DEF Spec
<1>2. Typed => TypeOK
  BY DEF Typed
<1> QED BY <1>1, <1>2, PTL

-----------------------------------------------------------------------------
(* The gate. *)

\* Which rows a transaction holds, and what it knows: the rows it has written are still
\* EXPECTED for everybody else, an acceptance holds all of them, and who has counted every
\* cargoplace as received has seen the others received for good.
RowsHeld ==
    \A r \in Requests :
        /\ tx[r].step \in {"count", "close"} => tx[r].rows = {tx[r].cp}
        /\ tx[r].step \notin {"count", "close", "accept"} => tx[r].rows = {}
        /\ \A c \in tx[r].rows : cp[c] = "EXPECTED"
        /\ \A q \in Requests \ {r} : tx[r].rows \intersect tx[q].rows = {}
        /\ tx[r].step = "accept" => \A c \in Cargoplaces \ tx[r].rows : cp[c] # "EXPECTED"
        /\ tx[r].step = "close" /\ tx[r].last => \A c \in Cargoplaces \ tx[r].rows : cp[c] # "EXPECTED"

GateInv == RowsHeld /\ ClosedGateSettled /\ GateLogExact

\* Counting as many received cargoplaces as there are is seeing all of them received.
LEMMA AllCounted ==
    ASSUME NEW S \in SUBSET Cargoplaces, Cardinality(S) >= Cardinality(Cargoplaces)
    PROVE  S = Cargoplaces
<1>1. IsFiniteSet(Cargoplaces)
  BY ReceivingAssumption
<1>2. /\ Cardinality(S) \in Nat /\ Cardinality(Cargoplaces) \in Nat
      /\ (Cardinality(S) = Cardinality(Cargoplaces) => S = Cargoplaces)
      /\ Cardinality(S) <= Cardinality(Cargoplaces)
  BY <1>1, FS_Subset, FS_CardinalityType
<1> QED BY <1>2

LEMMA InitGate == Init => GateInv
  BY DEF Init, InitReceiving, Idle, GateInv, RowsHeld, ClosedGateSettled, GateLogExact

\* A step that leaves the gate alone, and the rows of the transactions.
LEMMA GateUnchanged ==
    ASSUME GateInv, UNCHANGED gateVars, UNCHANGED tx
    PROVE  GateInv'
  BY DEF GateInv, RowsHeld, ClosedGateSettled, GateLogExact, gateVars

\* A transaction begins or ends without rows, and the gate is as it was.
LEMMA GateNoRows ==
    ASSUME Typed, GateInv, NEW r \in Requests, NEW t, t.rows = {}, t.step \notin {"count", "close", "accept"},
           tx' = [tx EXCEPT ![r] = t], UNCHANGED gateVars
    PROVE  GateInv'
<1>1. tx'[r] = t /\ \A q \in Requests \ {r} : tx'[q] = tx[q]
  BY DEF Typed, TypeOK
<1>2. RowsHeld'
  BY <1>1 DEF GateInv, RowsHeld, gateVars
<1> QED BY <1>2 DEF GateInv, ClosedGateSettled, GateLogExact, gateVars

\* The status of a cargoplace past the gate changes.
LEMMA GateTable ==
    ASSUME Typed, GateInv, NEW c, NEW s, c \in Cargoplaces => cp[c] \in {"RECEIVED_AT_GATE", "TABLE_IN_PROGRESS"},
           s \in {"TABLE_IN_PROGRESS", "TABLE_CLOSED"},
           cp' = [cp EXCEPT ![c] = s], UNCHANGED <<shipment, scanned, accepted, tx>>
    PROVE  GateInv'
<1>1. \A d \in Cargoplaces : /\ cp'[d] = "EXPECTED" <=> cp[d] = "EXPECTED"
                             /\ cp'[d] = "NOT_RECEIVED" <=> cp[d] = "NOT_RECEIVED"
  BY DEF Typed, TypeOK
<1>2. RowsHeld'
  BY <1>1 DEF GateInv, RowsHeld, Typed, TypeOK, Transaction
<1> QED BY <1>1, <1>2 DEF GateInv, ClosedGateSettled, GateLogExact

\* The steps of a scan and of an acceptance keep the gate.
LEMMA GateScan ==
    ASSUME Typed, GateInv, NEW r \in Requests, ScanUpdate(r) \/ CountShipmentProgress(r) \/ CommitScan(r)
    PROVE  GateInv'
<1> USE DEF gateVars
<1>1. ASSUME Rollback(r) PROVE GateInv'
  BY <1>1, GateNoRows DEF Rollback, Idle
<1>2. CASE ScanUpdate(r)
  <2>1. CASE UpdateCargoplaceReceivedAtGate(r, tx[r].cp) /\ UNCHANGED <<gateVars, tableVars, signedVars>>
    <3> DEFINE c == tx[r].cp
    <3>1. /\ tx'[r].step = "count" /\ tx'[r].rows = {c} /\ tx'[r].cp = c
          /\ \A q \in Requests \ {r} : tx'[q] = tx[q]
      BY <2>1 DEF UpdateCargoplaceReceivedAtGate, Typed, TypeOK, Transaction
    <3>2. cp[c] = "EXPECTED" /\ \A q \in Requests \ {r} : c \notin tx[q].rows
      BY <2>1 DEF UpdateCargoplaceReceivedAtGate, RowFree
    <3>3. RowsHeld'
      BY <2>1, <3>1, <3>2 DEF GateInv, RowsHeld
    <3> QED BY <2>1, <3>3 DEF GateInv, ClosedGateSettled, GateLogExact
  <2> QED BY <1>1, <1>2, <2>1 DEF ScanUpdate
<1>3. CASE CountShipmentProgress(r)
  <2> DEFINE n == CountCargoplacesByStatus(r) >= CountCargoplaces
             S == tx[r].rows \union {c \in Cargoplaces : cp[c] = "RECEIVED_AT_GATE"}
  <2>1. /\ tx'[r].step = "close" /\ tx'[r].rows = tx[r].rows /\ tx'[r].cp = tx[r].cp /\ tx'[r].last = n
        /\ \A q \in Requests \ {r} : tx'[q] = tx[q]
    BY <1>3 DEF CountShipmentProgress, Typed, TypeOK, Transaction
  <2>2. S \in SUBSET Cargoplaces
    BY DEF Typed, TypeOK, Transaction
  <2>3. n => S = Cargoplaces
    BY <2>2, AllCounted DEF CountCargoplacesByStatus, CountCargoplaces
  <2>4. n => \A c \in Cargoplaces \ tx[r].rows : cp[c] # "EXPECTED"
    BY <2>3
  <2> HIDE DEF n
  <2>5. RowsHeld'
    <3>1. tx[r].step = "count" /\ UNCHANGED cp
      BY <1>3 DEF CountShipmentProgress
    <3>2. \A q \in Requests : tx'[q].rows = tx[q].rows
      BY <2>1
    <3>3. \A q \in Requests : /\ \A d \in tx'[q].rows : cp'[d] = "EXPECTED"
                              /\ \A q2 \in Requests \ {q} : tx'[q].rows \intersect tx'[q2].rows = {}
      BY <3>1, <3>2 DEF GateInv, RowsHeld
    <3> QED BY <2>1, <2>4, <3>1, <3>2, <3>3 DEF GateInv, RowsHeld
  <2> QED BY <1>3, <2>5 DEF CountShipmentProgress, GateInv, ClosedGateSettled, GateLogExact
<1>4. CASE CommitScan(r)
  <2> DEFINE c == tx[r].cp
  <2>1. c \in Cargoplaces /\ tx[r].rows = {c} /\ cp[c] = "EXPECTED" /\ scanned[c] = 0
    BY <1>4 DEF CommitScan, Typed, StepTyped, GateInv, RowsHeld, GateLogExact
  <2>2. cp' = [cp EXCEPT ![c] = "RECEIVED_AT_GATE"] /\ scanned' = [scanned EXCEPT ![c] = scanned[c] + 1]
    BY <1>4 DEF CommitScan, InsertReceivingGateLog
  <2>3. shipment # "GATE_CLOSED"
    BY <2>1 DEF GateInv, ClosedGateSettled
  <2>4. /\ tx'[r] = Idle
        /\ \A q \in Requests \ {r} : tx'[q] = tx[q] /\ c \notin tx[q].rows
    <3>1. \A q \in Requests \ {r} : tx[r].rows \intersect tx[q].rows = {}
      BY DEF GateInv, RowsHeld
    <3>2. \A q \in Requests \ {r} : c \notin tx[q].rows
      BY <2>1, <3>1
    <3> QED BY <1>4, <3>2 DEF CommitScan, Typed, TypeOK
  <2> HIDE DEF c
  <2>5. RowsHeld'
    <3>1. \A d \in Cargoplaces \ {c} : cp'[d] = cp[d]
      BY <2>2 DEF Typed, TypeOK
    <3>2. cp'[c] # "EXPECTED"
      BY <2>1, <2>2 DEF Typed, TypeOK
    <3>3. \A q \in Requests : tx[q].rows \subseteq Cargoplaces
      BY DEF Typed, TypeOK, Transaction
    <3> SUFFICES ASSUME NEW q \in Requests \ {r} PROVE RowsHeld!(q)'
      BY <2>4, <3>1, <3>2, <3>3 DEF RowsHeld, Idle
    <3> QED BY <2>1, <2>4, <3>1, <3>2, <3>3 DEF GateInv, RowsHeld, Idle
  <2>6. shipment' = "GATE_CLOSED" => tx[r].last
    BY <1>4, <2>3 DEF CommitScan, TryAutoCloseShipment
  <2>7. ClosedGateSettled'
    <3>1. tx[r].last => \A d \in Cargoplaces \ {c} : cp[d] # "EXPECTED"
      BY <1>4, <2>1 DEF CommitScan, GateInv, RowsHeld
    <3> QED BY <2>1, <2>2, <2>6, <3>1 DEF ClosedGateSettled, Typed, TypeOK
  <2>8. accepted' = IF shipment' = "GATE_CLOSED" THEN 1 ELSE 0
    BY <1>4, <2>3 DEF CommitScan, TryAutoCloseShipment, GateInv, GateLogExact
  <2>9. \A d \in Cargoplaces : scanned'[d] = IF cp'[d] \in {"EXPECTED", "NOT_RECEIVED"} THEN 0 ELSE 1
    BY <2>1, <2>2 DEF GateInv, GateLogExact, Typed, TypeOK
  <2> QED BY <2>5, <2>7, <2>8, <2>9 DEF GateInv, GateLogExact
<1> QED BY <1>2, <1>3, <1>4

LEMMA GateAccept ==
    ASSUME Typed, GateInv, NEW r \in Requests, MarkExpectedAsNotReceived(r) \/ CommitAccept(r)
    PROVE  GateInv'
<1> USE DEF gateVars
<1>1. ASSUME Rollback(r) PROVE GateInv'
  BY <1>1, GateNoRows DEF Rollback, Idle
<1>2. CASE MarkExpectedAsNotReceived(r)
  <2> DEFINE expected == {c \in Cargoplaces : cp[c] = "EXPECTED"}
  <2>1. /\ tx'[r].step = "accept" /\ tx'[r].rows = expected
        /\ \A q \in Requests \ {r} : tx'[q] = tx[q] /\ tx[q].rows \intersect expected = {}
    BY <1>2 DEF MarkExpectedAsNotReceived, RowFree, Typed, TypeOK, Transaction
  <2>2. RowsHeld'
    <3>1. UNCHANGED cp /\ \A c \in tx'[r].rows : cp'[c] = "EXPECTED"
      BY <1>2, <2>1 DEF MarkExpectedAsNotReceived
    <3>2. \A c \in Cargoplaces \ tx'[r].rows : cp'[c] # "EXPECTED"
      BY <2>1, <3>1
    <3>3. \A q \in Requests : \A q2 \in Requests \ {q} : tx'[q].rows \intersect tx'[q2].rows = {}
      BY <2>1 DEF GateInv, RowsHeld
    <3> QED BY <2>1, <3>1, <3>2, <3>3 DEF GateInv, RowsHeld
  <2> QED BY <1>2, <2>2 DEF MarkExpectedAsNotReceived, GateInv, ClosedGateSettled, GateLogExact
<1>3. ASSUME tx[r].step = "accept", shipment = "GATE_IN_PROGRESS", shipment' = "GATE_CLOSED", accepted' = accepted + 1,
             cp' = [c \in Cargoplaces |-> IF c \in tx[r].rows THEN "NOT_RECEIVED" ELSE cp[c]],
             tx' = [tx EXCEPT ![r] = Idle], UNCHANGED scanned
      PROVE  GateInv'
  <2>1. /\ tx'[r] = Idle
        /\ \A q \in Requests \ {r} : tx'[q] = tx[q] /\ tx[q].rows \intersect tx[r].rows = {}
    BY <1>3 DEF Typed, TypeOK, GateInv, RowsHeld
  <2>2. RowsHeld'
    BY <1>3, <2>1 DEF GateInv, RowsHeld, Idle, Typed, TypeOK, Transaction
  <2>3. ClosedGateSettled'
    BY <1>3 DEF ClosedGateSettled, GateInv, RowsHeld
  <2>4. GateLogExact'
    BY <1>3 DEF GateInv, RowsHeld, GateLogExact
  <2> QED BY <2>2, <2>3, <2>4 DEF GateInv
<1>4. CASE CommitAccept(r)
  BY <1>1, <1>3, <1>4 DEF CommitAccept
<1> QED BY <1>2, <1>4

\* Every step keeps the gate.
LEMMA GateInductive == Typed /\ GateInv /\ [Next]_vars => GateInv'
<1> SUFFICES ASSUME Typed, GateInv, [Next]_vars PROVE GateInv'
  OBVIOUS
<1> USE DEF gateVars
<1>1. CASE UNCHANGED vars
  BY <1>1, GateUnchanged DEF vars
<1>2. CASE SettleInbound
  BY <1>2, GateUnchanged DEF SettleInbound
<1>3. CASE NextPutaway
  <2> SUFFICES ASSUME NEW r \in Requests,
                      \/ \E o \in Ops : CheckPlace(r, o)
                      \/ \E o \in Ops, items \in SUBSET Products : DraftPlaceToStorageBin(r, o, items)
                      \/ SubmitPlaceToStorageBin(r)
               PROVE  GateInv'
    BY <1>3 DEF NextPutaway
  <2>1. ASSUME NEW o \in Ops, CheckPlace(r, o) PROVE GateInv'
    BY <2>1, GateNoRows DEF CheckPlace, Begin, Idle
  <2>2. ASSUME NEW o \in Ops, NEW items \in SUBSET Products, DraftPlaceToStorageBin(r, o, items)
        PROVE  GateInv'
    BY <2>2, GateUnchanged DEF DraftPlaceToStorageBin
  <2>3. CASE SubmitPlaceToStorageBin(r)
    <3>1. tx' = [tx EXCEPT ![r] = Idle] /\ UNCHANGED gateVars
      BY <2>3 DEF SubmitPlaceToStorageBin, Rollback
    <3> QED BY <3>1, GateNoRows DEF Idle
  <2> QED BY <2>1, <2>2, <2>3
<1>4. CASE NextReceiving
  <2> SUFFICES ASSUME NEW r \in Requests,
                      \/ Abort(r)
                      \/ ReadTTN(r) \/ ScanTTN(r)
                      \/ \E c \in Cargoplaces : ScanCargoplace(r, c)
                      \/ ScanUpdate(r) \/ CountShipmentProgress(r) \/ CommitScan(r)
                      \/ AcceptShipment(r) \/ MarkExpectedAsNotReceived(r) \/ CommitAccept(r)
                      \/ \E c \in Cargoplaces : ScanTableCargoplace(r, c)
                      \/ \E b \in Boxes : ScanBox(r, b) \/ ReadBox(r, b)
                      \/ \E b \in Boxes, p \in Products : ScanQR(r, b, p)
                      \/ CloseBox(r)
                      \/ \E c \in Cargoplaces, b \in BufferBins : ScanBuffer(r, c, b)
                      \/ \E o \in Ops, c \in Cargoplaces : DraftCloseCargoplace(r, o, c)
                      \/ \E o \in Ops : SubmitCloseCargoplace(r, o)
               PROVE  GateInv'
    BY <1>4 DEF NextReceiving
  <2>1. CASE Abort(r)
    BY <2>1, GateNoRows DEF Abort, Rollback, Idle
  <2>2. CASE ReadTTN(r)
    BY <2>2, GateNoRows DEF ReadTTN, Begin, Idle
  <2>3. CASE ScanTTN(r)
    <3>1. /\ shipment' = "GATE_CLOSED" <=> shipment = "GATE_CLOSED"
          /\ UNCHANGED <<cp, scanned, accepted>>
      BY <2>3 DEF ScanTTN, UpdateShipmentStatus
    <3>2. tx'[r] = Idle /\ \A q \in Requests \ {r} : tx'[q] = tx[q]
      BY <2>3 DEF ScanTTN, Typed, TypeOK
    <3>3. RowsHeld'
      BY <3>1, <3>2 DEF GateInv, RowsHeld, Idle
    <3> QED BY <3>1, <3>3 DEF GateInv, ClosedGateSettled, GateLogExact
  <2>4. ASSUME NEW c \in Cargoplaces, ScanCargoplace(r, c) PROVE GateInv'
    BY <2>4, GateNoRows DEF ScanCargoplace, Begin, Idle
  <2>5. CASE AcceptShipment(r)
    BY <2>5, GateNoRows DEF AcceptShipment, Begin, Idle
  <2>6. ASSUME NEW c \in Cargoplaces, ScanTableCargoplace(r, c) PROVE GateInv'
    BY <2>6, GateTable DEF ScanTableCargoplace, UpdateCargoplaceStatus
  <2>7. ASSUME NEW b \in Boxes, ReadBox(r, b) PROVE GateInv'
    BY <2>7, GateNoRows DEF ReadBox, Begin, Idle
  <2>8. CASE CloseBox(r)
    <3>1. tx' = [tx EXCEPT ![r] = Idle] /\ UNCHANGED gateVars
      BY <2>8 DEF CloseBox, Rollback
    <3> QED BY <3>1, GateNoRows DEF Idle
  <2>9. ASSUME \/ \E b \in Boxes : ScanBox(r, b)
               \/ \E b \in Boxes, p \in Products : ScanQR(r, b, p)
               \/ \E c \in Cargoplaces, b \in BufferBins : ScanBuffer(r, c, b)
               \/ \E o \in Ops, c \in Cargoplaces : DraftCloseCargoplace(r, o, c)
        PROVE  GateInv'
    <3>1. UNCHANGED gateVars /\ UNCHANGED tx
      BY <2>9 DEF ScanBox, ScanQR, ScanBuffer, DraftCloseCargoplace
    <3> QED BY <3>1, GateUnchanged
  <2>10. ASSUME NEW o \in Ops, SubmitCloseCargoplace(r, o) PROVE GateInv'
    <3>1. /\ cp[op[o].target] = "TABLE_IN_PROGRESS" /\ cp' = [cp EXCEPT ![op[o].target] = "TABLE_CLOSED"]
          /\ UNCHANGED <<shipment, scanned, accepted, tx>>
      BY <2>10 DEF SubmitCloseCargoplace, CloseCargoplaceWithOutbox, GetCargoplaceByIDForUpdate
    <3> QED BY <3>1, GateTable
  <2> QED
    BY <2>1, <2>2, <2>3, <2>4, <2>5, <2>6, <2>7, <2>8, <2>9, <2>10, GateScan, GateAccept
<1> QED BY <1>1, <1>2, <1>3, <1>4 DEF Next

LEMMA SpecGate == Spec => [](Typed /\ GateInv)
<1>1. Typed /\ GateInv /\ [Next]_vars => (Typed /\ GateInv)'
  BY TypeInductive, GateInductive
<1> QED BY <1>1, InitType, InitGate, PTL DEF Spec

\* A closed shipment has no cargoplace that is still expected, whatever scans and acceptances
\* ran at the same time.
THEOREM GateSettled == Spec => []ClosedGateSettled
<1>1. Typed /\ GateInv => ClosedGateSettled
  BY DEF GateInv
<1> QED BY <1>1, SpecGate, PTL

\* The journal of the gate says once what happened once: no scan is logged twice, and the
\* shipment is accepted once.
THEOREM GateJournalCorrect == Spec => []GateLogExact
<1>1. Typed /\ GateInv => GateLogExact
  BY DEF GateInv
<1> QED BY <1>1, SpecGate, PTL

-----------------------------------------------------------------------------
(* The refinement of Custody. *)

\* A product is in a box from its scan on, and in a receiving buffer only when its box is
\* closed.
Stock ==
    \A p \in Products :
        /\ status[p] \in {"NONE", "RECEIVED", "STORED"}
        /\ status[p] = "NONE" <=> inBox[p] = None
        /\ bin[p] \in BufferBins => inBox[p] # None /\ box[inBox[p]] = "CLOSED"

Inv == Typed /\ GateInv /\ Stock

LEMMA BoxType ==
    ASSUME TypeOK, NEW p \in Products, inBox[p] # None
    PROVE  inBox[p] \in Boxes /\ inBox[p][1] \in Cargoplaces
  BY DEF TypeOK, Boxes

LEMMA InitStock == Init => Stock
  BY ReceivingAssumption DEF Init, InitReceiving, Stock

\* Every step keeps the products where they are recorded.
LEMMA StockInductive == Typed /\ Stock /\ [Next]_vars => Stock'
<1> SUFFICES ASSUME Typed, Stock, [Next]_vars PROVE Stock'
  OBVIOUS
<1> USE DEF gateVars, tableVars, signedVars
<1>1. ASSUME UNCHANGED <<status, inBox, bin, box>> PROVE Stock'
  BY <1>1 DEF Stock
<1>2. CASE UNCHANGED vars
  BY <1>1, <1>2 DEF vars
<1>3. CASE SettleInbound
  BY <1>1, <1>3 DEF SettleInbound
<1>4. ASSUME UNCHANGED <<status, inBox, bin>>, NEW b, b \in Boxes => box[b] # "CLOSED" \/ box'[b] = "CLOSED",
             NEW s, box' = [box EXCEPT ![b] = s]
      PROVE  Stock'
  <2> SUFFICES ASSUME NEW p \in Products, inBox[p] # None, box[inBox[p]] = "CLOSED"
               PROVE  box'[inBox[p]] = "CLOSED"
    BY <1>4 DEF Stock
  <2>1. inBox[p] \in Boxes
    BY BoxType DEF Typed
  <2> QED BY <1>4, <2>1 DEF Typed, TypeOK
<1>5. ASSUME NEW r \in Requests, NEW b \in Boxes, ScanBox(r, b) PROVE Stock'
  BY <1>4, <1>5 DEF ScanBox, UpsertBox
<1>6. ASSUME NEW r \in Requests, NEW b \in Boxes, NEW p \in Products, ScanQR(r, b, p) PROVE Stock'
  <2>1. b # None
    BY ReceivingAssumption
  <2>2. /\ status' = [status EXCEPT ![p] = "RECEIVED"] /\ inBox' = [inBox EXCEPT ![p] = b]
        /\ status[p] = "NONE" /\ UNCHANGED <<bin, box>>
    BY <1>6 DEF ScanQR, InsertProduct
  <2>3. bin[p] \notin BufferBins
    BY <2>2 DEF Stock
  <2> QED BY <2>1, <2>2, <2>3 DEF Stock, Typed, TypeOK
<1>7. ASSUME NEW r \in Requests, CloseBox(r) PROVE Stock'
  <2>1. CASE UNCHANGED box
    BY <1>1, <1>7, <2>1 DEF CloseBox, Rollback
  <2>2. CASE box' = [box EXCEPT ![tx[r].box] = "CLOSED"]
    <3>1. tx[r].box \in Boxes => box'[tx[r].box] = "CLOSED"
      BY <2>2 DEF Typed, TypeOK
    <3> QED BY <1>4, <1>7, <2>2, <3>1 DEF CloseBox, Rollback
  <2> QED BY <1>7, <2>1, <2>2 DEF CloseBox, UpdateBoxStatus, Rollback
<1>8. ASSUME NEW r \in Requests, NEW c \in Cargoplaces, NEW b \in BufferBins, ScanBuffer(r, c, b) PROVE Stock'
  <2>1. /\ bin' = [p \in Products |-> IF p \in ListClosableProductIDs(c) THEN b ELSE bin[p]]
        /\ UNCHANGED <<status, inBox, box>>
    BY <1>8 DEF ScanBuffer, ScanBufferWithLog
  <2> QED BY <2>1 DEF Stock, ListClosableProductIDs
<1>9. ASSUME NEW r \in Requests, SubmitPlaceToStorageBin(r) PROVE Stock'
  <2> DEFINE items == op[tx[r].op].items
  <2>1. CASE Rollback(r)
    BY <1>1, <2>1 DEF Rollback
  <2>2. CASE UpdateProductStorage(items) /\ (\A p \in items : ReadyToPlace(p)) /\ UNCHANGED <<box, inBox>>
    <3>1. Storage \notin BufferBins
      BY ReceivingAssumption
    <3>2. \A p \in Products : p \in items => status[p] = "RECEIVED"
      BY <2>2 DEF ReadyToPlace, GetProductByID
    <3> QED BY <2>2, <3>1, <3>2 DEF Stock, UpdateProductStorage
  <2> QED BY <1>9, <2>1, <2>2 DEF SubmitPlaceToStorageBin
<1>10. CASE NextReceiving
  <2>1. ASSUME NEW r \in Requests,
               \/ Abort(r)
               \/ ReadTTN(r) \/ ScanTTN(r)
               \/ \E c \in Cargoplaces : ScanCargoplace(r, c)
               \/ ScanUpdate(r) \/ CountShipmentProgress(r) \/ CommitScan(r)
               \/ AcceptShipment(r) \/ MarkExpectedAsNotReceived(r) \/ CommitAccept(r)
               \/ \E c \in Cargoplaces : ScanTableCargoplace(r, c)
               \/ \E b \in Boxes : ReadBox(r, b)
               \/ \E o \in Ops, c \in Cargoplaces : DraftCloseCargoplace(r, o, c)
               \/ \E o \in Ops : SubmitCloseCargoplace(r, o)
        PROVE  UNCHANGED <<status, inBox, bin, box>>
    BY <2>1 DEF Abort, Rollback, ReadTTN, ScanTTN, ScanCargoplace, ScanUpdate, CountShipmentProgress, CommitScan,
       AcceptShipment, MarkExpectedAsNotReceived, CommitAccept, ScanTableCargoplace, ReadBox, DraftCloseCargoplace,
       SubmitCloseCargoplace
  <2> QED BY <1>10, <1>1, <1>5, <1>6, <1>7, <1>8, <2>1 DEF NextReceiving
<1>11. CASE NextPutaway
  <2>1. ASSUME NEW r \in Requests,
               \/ \E o \in Ops : CheckPlace(r, o)
               \/ \E o \in Ops, items \in SUBSET Products : DraftPlaceToStorageBin(r, o, items)
        PROVE  UNCHANGED <<status, inBox, bin, box>>
    BY <2>1 DEF CheckPlace, DraftPlaceToStorageBin
  <2> QED BY <1>11, <1>1, <1>9, <2>1 DEF NextPutaway
<1> QED BY <1>2, <1>3, <1>10, <1>11 DEF Next

LEMMA SpecInv == Spec => []Inv
<1>1. Init => Inv
  BY InitType, InitGate, InitStock DEF Inv
<1>2. Inv /\ [Next]_vars => Inv'
  BY TypeInductive, GateInductive, StockInductive DEF Inv
<1> QED BY <1>1, <1>2, PTL DEF Spec

\* The parts of an operation are those of Custody, and so is what the ledger does.
LEMMA SameCardinality ==
    ASSUME NEW S
    PROVE  C!Cardinality(S) = Cardinality(S)
  BY DEF C!Cardinality, Cardinality

LEMMA SameSigned ==
    ASSUME NEW type, NEW items
    PROVE  C!Signed(type, items) = Signed(type, items)
  BY SameCardinality DEF C!Signed, C!Parts, C!Part, C!Rank, Signed, Parts, Part, Rank

LEMMA SameSettled == Settled(log, log') => C!Settled(log, log')
  BY SameCardinality DEF C!Settled, C!NextToSettle, C!Verdict, C!AtStageBefore, C!OnLedger, C!Failures, C!Receive,
     Settled, NextToSettle, Verdict, AtStageBefore, OnLedger, Failures

\* What keeps the stage of every product.
LEMMA HeldSame ==
    ASSUME Typed, UNCHANGED inBox,
           \A p \in Products : status'[p] = "STORED" <=> status[p] = "STORED",
           \A c \in Cargoplaces : cp'[c] = "TABLE_CLOSED" <=> cp[c] = "TABLE_CLOSED",
           \A b \in Boxes : cp[b[1]] = "TABLE_CLOSED" => (box'[b] = "CLOSED" <=> box[b] = "CLOSED")
    PROVE  [p \in Products |-> Held(p)]' = [p \in Products |-> Held(p)]
<1> SUFFICES ASSUME NEW p \in Products PROVE Held(p)' = Held(p)
  OBVIOUS
<1>1. inBox[p] # None => inBox[p] \in Boxes /\ inBox[p][1] \in Cargoplaces
  BY BoxType DEF Typed
<1> QED BY <1>1 DEF Held

LEMMA InitRefines == Init => C!Init
<1> SUFFICES ASSUME Init PROVE C!Init
  OBVIOUS
<1>1. [p \in Products |-> Held(p)] = [p \in Products |-> 0]
  BY DEF Held, Init, InitReceiving
<1>2. log = << >>
  BY DEF Init, InitReceiving
<1> QED BY <1>1, <1>2 DEF C!Init, C!History

\* A step of the gate, or one that opens a cargoplace, closes none and touches no table.
LEMMA GateKeepsClosed ==
    ASSUME Inv, NEW r \in Requests,
           \/ Abort(r)
           \/ ReadTTN(r) \/ ScanTTN(r)
           \/ \E c \in Cargoplaces : ScanCargoplace(r, c)
           \/ ScanUpdate(r) \/ CountShipmentProgress(r) \/ CommitScan(r)
           \/ AcceptShipment(r) \/ MarkExpectedAsNotReceived(r) \/ CommitAccept(r)
           \/ \E c \in Cargoplaces : ScanTableCargoplace(r, c)
    PROVE  /\ UNCHANGED <<tableVars, signedVars>>
           /\ \A c \in Cargoplaces : cp'[c] = "TABLE_CLOSED" <=> cp[c] = "TABLE_CLOSED"
<1> USE DEF gateVars, Inv
<1>1. UNCHANGED <<tableVars, signedVars>>
  BY DEF Abort, Rollback, ReadTTN, ScanTTN, ScanCargoplace, ScanUpdate, CountShipmentProgress, CommitScan,
     AcceptShipment, MarkExpectedAsNotReceived, CommitAccept, ScanTableCargoplace
<1> DEFINE Kept == \A c \in Cargoplaces : cp'[c] = "TABLE_CLOSED" <=> cp[c] = "TABLE_CLOSED"
<1>2. ASSUME UNCHANGED cp PROVE Kept
  BY <1>2
<1>3. CASE CommitScan(r)
  <2>1. tx[r].cp \in Cargoplaces /\ cp[tx[r].cp] = "EXPECTED" /\ cp' = [cp EXCEPT ![tx[r].cp] = "RECEIVED_AT_GATE"]
    BY <1>3 DEF CommitScan, Typed, StepTyped, GateInv, RowsHeld
  <2> QED BY <1>1, <2>1 DEF Typed, TypeOK
<1>4. CASE CommitAccept(r)
  <2>1. CASE UNCHANGED cp
    BY <1>1, <1>2, <2>1
  <2>2. CASE cp' = [c \in Cargoplaces |-> IF c \in tx[r].rows THEN "NOT_RECEIVED" ELSE cp[c]]
    <3>1. \A c \in tx[r].rows : cp[c] = "EXPECTED"
      BY DEF GateInv, RowsHeld
    <3> QED BY <1>1, <2>2, <3>1
  <2> QED BY <1>4, <2>1, <2>2 DEF CommitAccept, Rollback
<1>5. ASSUME NEW c \in Cargoplaces, ScanTableCargoplace(r, c) PROVE Kept
  <2>1. cp[c] = "RECEIVED_AT_GATE" /\ cp' = [cp EXCEPT ![c] = "TABLE_IN_PROGRESS"]
    BY <1>5 DEF ScanTableCargoplace, UpdateCargoplaceStatus
  <2> QED BY <2>1 DEF Typed, TypeOK
<1>6. ASSUME \/ Abort(r)
             \/ ReadTTN(r) \/ ScanTTN(r)
             \/ \E c \in Cargoplaces : ScanCargoplace(r, c)
             \/ ScanUpdate(r) \/ CountShipmentProgress(r)
             \/ AcceptShipment(r) \/ MarkExpectedAsNotReceived(r)
      PROVE  UNCHANGED cp
  BY <1>6 DEF Abort, Rollback, ReadTTN, ScanTTN, ScanCargoplace, ScanUpdate, CountShipmentProgress, AcceptShipment,
     MarkExpectedAsNotReceived
<1> HIDE DEF Kept
<1> QED BY <1>1, <1>2, <1>3, <1>4, <1>5, <1>6 DEF Kept

\* A step of a transaction that writes no signed action keeps the stages.
LEMMA GateRefines ==
    ASSUME Inv, NEW r \in Requests,
           \/ Abort(r)
           \/ ReadTTN(r) \/ ScanTTN(r)
           \/ \E c \in Cargoplaces : ScanCargoplace(r, c)
           \/ ScanUpdate(r) \/ CountShipmentProgress(r) \/ CommitScan(r)
           \/ AcceptShipment(r) \/ MarkExpectedAsNotReceived(r) \/ CommitAccept(r)
           \/ \E c \in Cargoplaces : ScanTableCargoplace(r, c)
    PROVE  UNCHANGED C!vars
  BY GateKeepsClosed, HeldSame DEF tableVars, signedVars, C!vars, Inv

LEMMA TableRefines ==
    ASSUME Inv, NEW r \in Requests,
           \/ \E b \in Boxes : ScanBox(r, b) \/ ReadBox(r, b)
           \/ \E b \in Boxes, p \in Products : ScanQR(r, b, p)
           \/ CloseBox(r)
           \/ \E c \in Cargoplaces, b \in BufferBins : ScanBuffer(r, c, b)
           \/ \E o \in Ops, c \in Cargoplaces : DraftCloseCargoplace(r, o, c)
           \/ \E o \in Ops : CheckPlace(r, o)
           \/ \E o \in Ops, items \in SUBSET Products : DraftPlaceToStorageBin(r, o, items)
    PROVE  UNCHANGED C!vars
<1> USE DEF gateVars, tableVars, signedVars, Inv
<1>1. ASSUME UNCHANGED <<cp, box, inBox, status, log>> PROVE UNCHANGED C!vars
  BY <1>1, HeldSame DEF C!vars
<1>2. ASSUME NEW b, b \in Boxes => cp[b[1]] = "TABLE_IN_PROGRESS", NEW s, box' = [box EXCEPT ![b] = s],
             UNCHANGED <<cp, inBox, status, log>>
      PROVE  UNCHANGED C!vars
  <2>1. \A d \in Boxes : cp[d[1]] = "TABLE_CLOSED" => box'[d] = box[d]
    BY <1>2 DEF Typed, TypeOK
  <2> QED BY <1>2, <2>1, HeldSame DEF C!vars
<1>3. ASSUME NEW b \in Boxes, ScanBox(r, b) PROVE UNCHANGED C!vars
  BY <1>2, <1>3 DEF ScanBox, GetCargoplaceByIDForUpdate, UpsertBox
<1>4. CASE CloseBox(r)
  <2>1. CASE Rollback(r)
    BY <1>1, <2>1 DEF Rollback
  <2> QED BY <1>2, <1>4, <2>1 DEF CloseBox, GetCargoplaceByIDForUpdate, UpdateBoxStatus
<1>5. ASSUME NEW b \in Boxes, NEW p \in Products, ScanQR(r, b, p) PROVE UNCHANGED C!vars
  <2>1. /\ status' = [status EXCEPT ![p] = "RECEIVED"] /\ inBox' = [inBox EXCEPT ![p] = b]
        /\ status[p] = "NONE" /\ cp[b[1]] = "TABLE_IN_PROGRESS" /\ UNCHANGED <<cp, box, log>>
    BY <1>5 DEF ScanQR, InsertProduct, GetCargoplaceByIDForUpdate
  <2>2. inBox[p] = None
    BY <2>1 DEF Stock
  <2>3. Held(p) = 0 /\ Held(p)' = 0
    BY <2>1, <2>2 DEF Held, Typed, TypeOK
  <2>4. \A q \in Products \ {p} : Held(q)' = Held(q)
    BY <2>1 DEF Held, Typed, TypeOK
  <2> QED BY <2>1, <2>3, <2>4 DEF C!vars
<1>6. ASSUME \/ \E b \in Boxes : ReadBox(r, b)
             \/ \E c \in Cargoplaces, b \in BufferBins : ScanBuffer(r, c, b)
             \/ \E o \in Ops, c \in Cargoplaces : DraftCloseCargoplace(r, o, c)
             \/ \E o \in Ops : CheckPlace(r, o)
             \/ \E o \in Ops, items \in SUBSET Products : DraftPlaceToStorageBin(r, o, items)
      PROVE  UNCHANGED <<cp, box, inBox, status, log>>
  BY <1>6 DEF ReadBox, ScanBuffer, DraftCloseCargoplace, CheckPlace, DraftPlaceToStorageBin
<1> QED BY <1>1, <1>3, <1>4, <1>5, <1>6

\* The signed close advances the products of the draft to the stage Receive.
LEMMA CloseRefines ==
    ASSUME Inv, NEW r \in Requests, NEW o \in Ops, SubmitCloseCargoplace(r, o)
    PROVE  C!Next
<1> DEFINE items == op[o].items
           c == op[o].target
<1> USE DEF Inv
<1>1. op[o] \in Draft /\ op[o].type = Receive
  BY OperationType DEF SubmitCloseCargoplace, Typed
<1>2. c \in Cargoplaces /\ items \in SUBSET Products
  BY <1>1 DEF Draft
<1>3. /\ cp[c] = "TABLE_IN_PROGRESS" /\ cp' = [cp EXCEPT ![c] = "TABLE_CLOSED"]
      /\ items = ListClosableProductIDs(c)
      /\ log' = log \o Signed(Receive, items)
      /\ UNCHANGED <<status, inBox, box>>
  BY <1>1 DEF SubmitCloseCargoplace, CloseCargoplaceWithOutbox, GetCargoplaceByIDForUpdate, DraftStale, WriteActions
<1> HIDE DEF items, c
<1>4. \A p \in items : Held(p) = 0 /\ Held(p)' = Receive
  BY <1>2, <1>3 DEF Held, ListClosableProductIDs, Typed, TypeOK
<1>5. \A p \in Products \ items : Held(p)' = Held(p)
  <2> SUFFICES ASSUME NEW p \in Products \ items, status[p] # "STORED", inBox[p] # None, box[inBox[p]] = "CLOSED"
               PROVE  cp'[inBox[p][1]] = cp[inBox[p][1]]
    BY <1>3 DEF Held
  <2>1. inBox[p][1] # c
    BY <1>3 DEF ListClosableProductIDs, Stock
  <2> QED BY <1>3, <2>1, BoxType DEF Typed, TypeOK
<1>6. C!Advance(Receive, items)
  BY <1>2, <1>3, <1>4, <1>5, SameSigned DEF C!Advance
<1> QED BY <1>2, <1>6 DEF C!Next, C!ActionTypes

\* The signed placement advances its products to the stage PutAway.
LEMMA PlaceRefines ==
    ASSUME Inv, NEW r \in Requests, SubmitPlaceToStorageBin(r)
    PROVE  C!Next \/ UNCHANGED C!vars
<1> DEFINE o == tx[r].op
           items == op[o].items
<1> USE DEF Inv, gateVars, tableVars, signedVars
<1>1. CASE Rollback(r)
  BY <1>1, HeldSame DEF Rollback, C!vars
<1>2. CASE ~Rollback(r)
  <2>1. o \in Ops
    BY DEF SubmitPlaceToStorageBin, Typed, StepTyped
  <2>2. /\ Operation(o, PutAway) /\ \A p \in items : ReadyToPlace(p)
        /\ UpdateProductStorage(items) /\ WriteActions(o)
        /\ UNCHANGED <<cp, box, inBox>>
    BY <1>2 DEF SubmitPlaceToStorageBin, LockOperation
  <2>3. op[o].type = PutAway /\ items \in SUBSET Products
    BY <2>1, <2>2, OperationType DEF Typed, Draft
  <2>4. log' = log \o Signed(PutAway, items)
    BY <2>2, <2>3 DEF WriteActions
  <2> HIDE DEF o, items
  <2>5. \A p \in items : Held(p) = Receive /\ Held(p)' = PutAway
    BY <2>2, <2>3 DEF Held, ReadyToPlace, GetBufferBinByID, GetProductByID, GetCargoplaceStatus, Stock,
       UpdateProductStorage
  <2>6. \A p \in Products \ items : Held(p)' = Held(p)
    BY <2>2 DEF Held, UpdateProductStorage
  <2>7. C!Advance(PutAway, items)
    <3>1. \A p \in items : [q \in Products |-> Held(q)][p] = PutAway - 1
      BY <2>3, <2>5
    <3>2. [p \in Products |-> Held(p)]' =
              [p \in Products |-> IF p \in items THEN PutAway ELSE [q \in Products |-> Held(q)][p]]
      BY <2>3, <2>5, <2>6
    <3>3. log' = log \o C!Signed(PutAway, items)
      BY <2>4, SameSigned
    <3> QED BY <3>1, <3>2, <3>3 DEF C!Advance
  <2> QED BY <2>3, <2>7 DEF C!Next, C!ActionTypes
<1> QED BY <1>1, <1>2

LEMMA NextRefines == Inv /\ [Next]_vars => [C!Next]_(C!vars)
<1> SUFFICES ASSUME Inv, [Next]_vars PROVE C!Next \/ UNCHANGED C!vars
  OBVIOUS
<1>1. CASE UNCHANGED vars
  BY <1>1, HeldSame DEF vars, gateVars, tableVars, signedVars, C!vars, Inv
<1>2. CASE SettleInbound
  <2>1. UNCHANGED [p \in Products |-> Held(p)]
    BY <1>2, HeldSame DEF SettleInbound, gateVars, tableVars, Inv
  <2>2. C!Settled(log, log')
    BY <1>2, SameSettled DEF SettleInbound
  <2> QED BY <2>1, <2>2 DEF C!Next, C!Settle
<1>3. CASE NextReceiving
  BY <1>3, GateRefines, TableRefines, CloseRefines DEF NextReceiving
<1>4. CASE NextPutaway
  BY <1>4, TableRefines, PlaceRefines DEF NextPutaway
<1> QED BY <1>1, <1>2, <1>3, <1>4 DEF Next

\* Receiving and putaway implement Custody: a product passes the stages Receive and PutAway
\* in this order, and the log says so for the same products in the same step.
THEOREM InboundImplementsCustody == Spec => ImplementsCustody
<1>1. Spec => C!Init
  BY InitRefines DEF Spec
<1> QED BY <1>1, SpecInv, NextRefines, PTL DEF Spec, ImplementsCustody, C!Spec

-----------------------------------------------------------------------------
(* The audit. *)

\* The products that lie in the closed boxes of a cargoplace.
ClosedProducts(c) == {p \in Products : inBox[p] # None /\ inBox[p][1] = c /\ box[inBox[p]] = "CLOSED"}

\* A cargoplace is closed by the operation that signed it and what lies in its closed boxes,
\* and nothing is stored from a cargoplace that is not closed.
Receipts ==
    /\ \A p \in Products : status[p] = "STORED" => cp[inBox[p][1]] = "TABLE_CLOSED"
    /\ \A c \in Cargoplaces : closedIn[c] # None =>
          /\ cp[c] = "TABLE_CLOSED" /\ closedIn[c] \in submitted
          /\ op[closedIn[c]].type = Receive /\ op[closedIn[c]].target = c
          /\ op[closedIn[c]].items = ClosedProducts(c)
    /\ \A o \in submitted : op[o] # None /\ (op[o].type = Receive => closedIn[op[o].target] = o)

\* A product is placed by one submitted operation, which signed it, in the part that holds it.
Placements ==
    /\ \A p \in Products : putaways[p] # None =>
          /\ status[p] = "STORED"
          /\ \E o \in submitted : /\ op[o].type = PutAway /\ p \in op[o].items
                                  /\ putaways[p].action = ActionOf(o, p)
    /\ \A o \in submitted : op[o].type = PutAway =>
          \A p \in op[o].items : putaways[p] # None /\ putaways[p].action = ActionOf(o, p)

Journal == Receipts /\ Placements

LEMMA InitJournal == Init => Journal
  BY DEF Init, InitReceiving, Journal, Receipts, Placements

\* What keeps the tables and what was signed keeps the journal.
LEMMA JournalKept ==
    ASSUME Typed, Stock, Journal, UNCHANGED <<closedIn, putaways, submitted>>,
           \A o \in submitted : op'[o] = op[o],
           \A p \in Products : status'[p] = "STORED" <=> status[p] = "STORED",
           \A p \in Products : status[p] = "STORED" => inBox'[p] = inBox[p],
           \A c \in Cargoplaces : cp[c] = "TABLE_CLOSED" =>
               cp'[c] = "TABLE_CLOSED" /\ ClosedProducts(c)' = ClosedProducts(c)
    PROVE  Journal'
<1>1. Receipts'
  <2>1. ASSUME NEW p \in Products, status'[p] = "STORED" PROVE cp'[inBox'[p][1]] = "TABLE_CLOSED"
    <3>1. status[p] = "STORED" /\ inBox'[p] = inBox[p] /\ cp[inBox[p][1]] = "TABLE_CLOSED"
      BY <2>1 DEF Journal, Receipts
    <3>2. inBox[p][1] \in Cargoplaces
      BY <3>1, BoxType DEF Typed, Stock
    <3> QED BY <3>1, <3>2
  <2>2. ASSUME NEW c \in Cargoplaces, closedIn'[c] # None
        PROVE  /\ cp'[c] = "TABLE_CLOSED" /\ closedIn'[c] \in submitted'
               /\ op'[closedIn'[c]].type = Receive /\ op'[closedIn'[c]].target = c
               /\ op'[closedIn'[c]].items = ClosedProducts(c)'
    BY <2>2 DEF Journal, Receipts
  <2>3. \A o \in submitted' : op'[o] # None /\ (op'[o].type = Receive => closedIn'[op'[o].target] = o)
    BY DEF Journal, Receipts
  <2> QED BY <2>1, <2>2, <2>3 DEF Receipts
<1>2. Placements'
  <2>1. \A o \in submitted : \A p \in Products : ActionOf(o, p)' = ActionOf(o, p)
    BY DEF ActionOf
  <2>2. \A o \in submitted : op[o].type = PutAway => op[o].items \subseteq Products
    BY DEF Typed, TypeOK, Draft, Journal, Receipts
  <2> QED BY <2>1, <2>2 DEF Journal, Placements
<1> QED BY <1>1, <1>2 DEF Journal

\* A new draft changes none that is submitted.
LEMMA InsertKeepsSubmitted ==
    ASSUME Journal, NEW o, NEW type, NEW by, NEW items, NEW target, InsertOperation(o, type, by, items, target)
    PROVE  \A x \in submitted : op'[x] = op[x]
<1>1. o \notin submitted
  BY DEF InsertOperation, Journal, Receipts
<1> QED BY <1>1 DEF InsertOperation

LEMMA GateJournal ==
    ASSUME Inv, Journal, NEW r \in Requests,
           \/ Abort(r)
           \/ ReadTTN(r) \/ ScanTTN(r)
           \/ \E c \in Cargoplaces : ScanCargoplace(r, c)
           \/ ScanUpdate(r) \/ CountShipmentProgress(r) \/ CommitScan(r)
           \/ AcceptShipment(r) \/ MarkExpectedAsNotReceived(r) \/ CommitAccept(r)
           \/ \E c \in Cargoplaces : ScanTableCargoplace(r, c)
    PROVE  Journal'
<1>1. /\ UNCHANGED <<tableVars, signedVars>>
      /\ \A c \in Cargoplaces : cp'[c] = "TABLE_CLOSED" <=> cp[c] = "TABLE_CLOSED"
  BY GateKeepsClosed
<1>2. \A c \in Cargoplaces : ClosedProducts(c)' = ClosedProducts(c)
  BY <1>1 DEF ClosedProducts, tableVars
<1> QED BY <1>1, <1>2, JournalKept DEF Inv, tableVars, signedVars

\* Boxes and products of a closed cargoplace do not change any more.
LEMMA TableJournal ==
    ASSUME Inv, Journal, NEW r \in Requests,
           \/ \E b \in Boxes : ScanBox(r, b) \/ ReadBox(r, b)
           \/ \E b \in Boxes, p \in Products : ScanQR(r, b, p)
           \/ CloseBox(r)
           \/ \E c \in Cargoplaces, b \in BufferBins : ScanBuffer(r, c, b)
           \/ \E o \in Ops, c \in Cargoplaces : DraftCloseCargoplace(r, o, c)
           \/ \E o \in Ops : CheckPlace(r, o)
           \/ \E o \in Ops, items \in SUBSET Products : DraftPlaceToStorageBin(r, o, items)
    PROVE  Journal'
<1> USE DEF gateVars, tableVars, signedVars, Inv
<1>1. ASSUME UNCHANGED <<cp, box, inBox, status, closedIn, putaways, submitted>>, \A o \in submitted : op'[o] = op[o]
      PROVE  Journal'
  <2>1. \A c \in Cargoplaces : ClosedProducts(c)' = ClosedProducts(c)
    BY <1>1 DEF ClosedProducts
  <2> QED BY <1>1, <2>1, JournalKept
<1>2. ASSUME NEW b, b \in Boxes => cp[b[1]] = "TABLE_IN_PROGRESS", NEW s, box' = [box EXCEPT ![b] = s],
             UNCHANGED <<cp, inBox, status, closedIn, putaways, signedVars>>
      PROVE  Journal'
  <2>1. \A d \in Boxes : cp[d[1]] = "TABLE_CLOSED" => box'[d] = box[d]
    BY <1>2 DEF Typed, TypeOK
  <2>2. ASSUME NEW c \in Cargoplaces, cp[c] = "TABLE_CLOSED" PROVE ClosedProducts(c)' = ClosedProducts(c)
    <3>1. \A p \in Products : inBox[p] # None /\ inBox[p][1] = c => box'[inBox[p]] = box[inBox[p]]
      BY <2>1, <2>2, BoxType DEF Typed
    <3> QED BY <1>2, <3>1 DEF ClosedProducts
  <2> QED BY <1>2, <2>2, JournalKept
<1>3. ASSUME NEW b \in Boxes, ScanBox(r, b) PROVE Journal'
  BY <1>2, <1>3 DEF ScanBox, GetCargoplaceByIDForUpdate, UpsertBox
<1>4. CASE CloseBox(r)
  <2>1. CASE Rollback(r)
    BY <1>1, <2>1 DEF Rollback
  <2> QED BY <1>2, <1>4, <2>1 DEF CloseBox, GetCargoplaceByIDForUpdate, UpdateBoxStatus
<1>5. ASSUME NEW b \in Boxes, NEW p \in Products, ScanQR(r, b, p) PROVE Journal'
  <2>1. /\ status' = [status EXCEPT ![p] = "RECEIVED"] /\ inBox' = [inBox EXCEPT ![p] = b]
        /\ status[p] = "NONE" /\ cp[b[1]] = "TABLE_IN_PROGRESS"
        /\ UNCHANGED <<cp, box, closedIn, putaways, signedVars>>
    BY <1>5 DEF ScanQR, InsertProduct, GetCargoplaceByIDForUpdate
  <2>2. inBox[p] = None
    BY <2>1 DEF Stock
  <2>3. ASSUME NEW c \in Cargoplaces, cp[c] = "TABLE_CLOSED" PROVE ClosedProducts(c)' = ClosedProducts(c)
    <3>1. b[1] # c
      BY <2>1, <2>3
    <3>2. inBox'[p] = b /\ \A q \in Products : q # p => inBox'[q] = inBox[q]
      BY <2>1 DEF Typed, TypeOK
    <3>3. \A q \in Products : q \in ClosedProducts(c)' <=> q \in ClosedProducts(c)
      BY <2>1, <2>2, <3>1, <3>2 DEF ClosedProducts
    <3> QED BY <3>3 DEF ClosedProducts
  <2>4. \A q \in Products : (status'[q] = "STORED" <=> status[q] = "STORED") /\ (status[q] = "STORED" => inBox'[q] = inBox[q])
    BY <2>1 DEF Typed, TypeOK
  <2> QED BY <2>1, <2>3, <2>4, JournalKept
<1>6. ASSUME \/ \E b \in Boxes : ReadBox(r, b)
             \/ \E c \in Cargoplaces, b \in BufferBins : ScanBuffer(r, c, b)
             \/ \E o \in Ops : CheckPlace(r, o)
      PROVE  Journal'
  BY <1>1, <1>6 DEF ReadBox, ScanBuffer, CheckPlace
<1>7. ASSUME NEW o \in Ops, NEW c \in Cargoplaces, DraftCloseCargoplace(r, o, c) PROVE Journal'
  BY <1>1, <1>7, InsertKeepsSubmitted DEF DraftCloseCargoplace
<1>8. ASSUME NEW o \in Ops, NEW items \in SUBSET Products, DraftPlaceToStorageBin(r, o, items) PROVE Journal'
  BY <1>1, <1>8, InsertKeepsSubmitted DEF DraftPlaceToStorageBin
<1> QED BY <1>3, <1>4, <1>5, <1>6, <1>7, <1>8

\* The signed close: nothing of the cargoplace is stored yet, so what it signs is all that lies
\* in its closed boxes.
LEMMA CloseJournal ==
    ASSUME Inv, Journal, NEW r \in Requests, NEW o \in Ops, SubmitCloseCargoplace(r, o)
    PROVE  Journal'
<1> DEFINE items == op[o].items
           c == op[o].target
<1> USE DEF Inv
<1>1. op[o] \in Draft /\ op[o] # None /\ op[o].type = Receive /\ o \notin submitted
  BY OperationType DEF SubmitCloseCargoplace, Typed, Operation
<1>2. c \in Cargoplaces /\ items \in SUBSET Products
  BY <1>1 DEF Draft
<1>3. /\ cp[c] = "TABLE_IN_PROGRESS" /\ cp' = [cp EXCEPT ![c] = "TABLE_CLOSED"]
      /\ items = ListClosableProductIDs(c)
      /\ closedIn' = [closedIn EXCEPT ![c] = o] /\ submitted' = submitted \union {o}
      /\ UNCHANGED <<status, inBox, box, putaways, op>>
  BY DEF SubmitCloseCargoplace, CloseCargoplaceWithOutbox, GetCargoplaceByIDForUpdate, DraftStale, WriteActions,
     InsertReceivingTableLogTx
<1> HIDE DEF items, c
<1>4. \A d \in Cargoplaces : /\ cp'[d] = (IF d = c THEN "TABLE_CLOSED" ELSE cp[d])
                             /\ closedIn'[d] = (IF d = c THEN o ELSE closedIn[d])
  BY <1>2, <1>3 DEF Typed, TypeOK
<1>5. items = ClosedProducts(c)
  <2>1. \A p \in Products : inBox[p] # None /\ inBox[p][1] = c => status[p] = "RECEIVED"
    <3>1. \A p \in Products : inBox[p] # None => status[p] \in {"RECEIVED", "STORED"}
      BY DEF Stock
    <3>2. \A p \in Products : status[p] = "STORED" => inBox[p][1] # c
      BY <1>3 DEF Journal, Receipts
    <3> QED BY <3>1, <3>2
  <2>2. \A p \in Products : p \in ListClosableProductIDs(c) <=> p \in ClosedProducts(c)
    BY <2>1 DEF ListClosableProductIDs, ClosedProducts
  <2> QED BY <1>3, <2>2 DEF ListClosableProductIDs, ClosedProducts
<1>6. \A d \in Cargoplaces : ClosedProducts(d)' = ClosedProducts(d)
  BY <1>3 DEF ClosedProducts
<1>7. Receipts'
  <2>1. ASSUME NEW p \in Products, status'[p] = "STORED" PROVE cp'[inBox'[p][1]] = "TABLE_CLOSED"
    <3>1. inBox[p][1] \in Cargoplaces /\ cp[inBox[p][1]] = "TABLE_CLOSED"
      BY <1>3, <2>1, BoxType DEF Typed, Stock, Journal, Receipts
    <3> QED BY <1>3, <1>4, <3>1
  <2>2. ASSUME NEW d \in Cargoplaces, closedIn'[d] # None
        PROVE  /\ cp'[d] = "TABLE_CLOSED" /\ closedIn'[d] \in submitted'
               /\ op'[closedIn'[d]].type = Receive /\ op'[closedIn'[d]].target = d
               /\ op'[closedIn'[d]].items = ClosedProducts(d)'
    <3>1. CASE d = c
      BY <1>1, <1>3, <1>4, <1>5, <1>6, <3>1 DEF items, c
    <3>2. CASE d # c
      BY <1>3, <1>4, <1>6, <2>2, <3>2 DEF Journal, Receipts
    <3> QED BY <3>1, <3>2
  <2>3. ASSUME NEW x \in submitted' PROVE op'[x] # None /\ (op'[x].type = Receive => closedIn'[op'[x].target] = x)
    <3>1. CASE x = o
      BY <1>1, <1>2, <1>3, <1>4, <3>1 DEF c
    <3>2. CASE x \in submitted
      <4>1. op[x] # None /\ (op[x].type = Receive => closedIn[op[x].target] = x)
        BY <3>2 DEF Journal, Receipts
      <4>2. closedIn[c] = None
        BY <1>2, <1>3 DEF Journal, Receipts
      <4>3. op[x].type = Receive => op[x].target \in Cargoplaces /\ op[x].target # c
        <5>1. x \in Ops /\ x # None
          BY <3>2, ReceivingAssumption DEF Typed, TypeOK
        <5>2. op[x] \in Draft
          BY <4>1, <5>1 DEF Typed, TypeOK
        <5>3. op[x].type = Receive => op[x].target \in Cargoplaces
          BY <5>2 DEF Draft
        <5> QED BY <4>1, <4>2, <5>1, <5>3
      <4> QED BY <1>3, <1>4, <4>1, <4>3
    <3> QED BY <1>3, <3>1, <3>2
  <2> QED BY <2>1, <2>2, <2>3 DEF Receipts
<1>8. Placements'
  <2>1. \A x, p : ActionOf(x, p)' = ActionOf(x, p)
    BY <1>3 DEF ActionOf
  <2> QED BY <1>1, <1>3, <2>1 DEF Journal, Placements
<1> QED BY <1>7, <1>8 DEF Journal

\* The signed placement: its products were not placed before.
LEMMA PlaceJournal ==
    ASSUME Inv, Journal, NEW r \in Requests, SubmitPlaceToStorageBin(r)
    PROVE  Journal'
<1> DEFINE o == tx[r].op
           items == op[o].items
<1> USE DEF Inv
<1>1. CASE Rollback(r)
  <2>1. \A c \in Cargoplaces : ClosedProducts(c)' = ClosedProducts(c)
    BY <1>1 DEF Rollback, ClosedProducts, tableVars
  <2> QED BY <1>1, <2>1, JournalKept DEF Rollback, gateVars, tableVars, signedVars
<1>2. CASE ~Rollback(r)
  <2>1. o \in Ops
    BY DEF SubmitPlaceToStorageBin, Typed, StepTyped
  <2>2. /\ Operation(o, PutAway) /\ \A p \in items : ReadyToPlace(p)
        /\ UpdateProductStorage(items) /\ InsertPutaway(o) /\ WriteActions(o)
        /\ UNCHANGED <<cp, box, inBox, closedIn>>
    BY <1>2 DEF SubmitPlaceToStorageBin, LockOperation, gateVars
  <2>3. op[o].type = PutAway /\ items \in SUBSET Products /\ op[o] # None /\ o \notin submitted
    BY <2>1, <2>2, OperationType DEF Typed, Draft, Operation
  <2>4. submitted' = submitted \union {o} /\ op' = op
    BY <2>2 DEF WriteActions
  <2>5. /\ \A p \in Products : status'[p] = IF p \in items THEN "STORED" ELSE status[p]
        /\ \A p \in Products : putaways'[p] = IF p \in items THEN [action |-> ActionOf(o, p), bin |-> op[o].target]
                                              ELSE putaways[p]
    BY <2>2 DEF UpdateProductStorage, InsertPutaway
  <2>6. \A p \in items : status[p] = "RECEIVED" /\ cp[inBox[p][1]] = "TABLE_CLOSED"
    BY <2>2 DEF ReadyToPlace, GetProductByID, GetCargoplaceStatus
  <2> HIDE DEF o, items
  <2>7. \A c \in Cargoplaces : ClosedProducts(c)' = ClosedProducts(c)
    BY <2>2 DEF ClosedProducts
  <2>8. Receipts'
    <3>1. \A p \in Products : status'[p] = "STORED" => cp'[inBox'[p][1]] = "TABLE_CLOSED"
      BY <2>2, <2>5, <2>6 DEF Journal, Receipts
    <3> QED BY <2>2, <2>3, <2>4, <2>7, <3>1 DEF Journal, Receipts
  <2>9. Placements'
    <3>1. \A x, p : ActionOf(x, p)' = ActionOf(x, p)
      BY <2>4 DEF ActionOf
    <3>2. \A p \in items : putaways'[p] = [action |-> ActionOf(o, p), bin |-> op[o].target]
      BY <2>3, <2>5
    <3>3. \A p \in items : [action |-> ActionOf(o, p), bin |-> op[o].target] # None
      <4>1. op[o] \in Draft
        BY <2>1, <2>3 DEF Typed, TypeOK
      <4>2. op[o].target = Storage
        BY <2>3, <4>1 DEF Draft
      <4>3. \A p \in items : ActionOf(o, p) \in Ops \X (Nat \ {0})
        BY <2>1, <2>3, ActionOfType DEF items
      <4>4. \A p \in items : [action |-> ActionOf(o, p), bin |-> op[o].target] \in [action : Ops \X (Nat \ {0}), bin : {Storage}]
        BY <4>2, <4>3
      <4>5. None \notin [action : Ops \X (Nat \ {0}), bin : {Storage}]
        BY ReceivingAssumption
      <4> QED BY <4>4, <4>5, Zenon
    <3>4. \A p \in items : putaways'[p] # None /\ putaways'[p].action = ActionOf(o, p)
      <4> TAKE p \in items
      <4>1. putaways'[p] # None
        BY <3>2, <3>3, Zenon
      <4>2. putaways'[p] = [action |-> ActionOf(o, p), bin |-> op[o].target]
        BY <3>2, Zenon
      <4>3. putaways'[p].action = ActionOf(o, p)
        BY <4>2
      <4> QED BY <4>1, <4>3
    <3>5. \A p \in items : putaways[p] = None
      BY <2>3, <2>6 DEF Journal, Placements
    <3>6. \A p \in Products : p \notin items => putaways'[p] = putaways[p] /\ status'[p] = status[p]
      BY <2>5
    <3>7. \A p \in items : status'[p] = "STORED"
      BY <2>3, <2>5
    <3>8. \A x \in submitted : op[x].type = PutAway => op[x].items \subseteq Products /\ op[x].items \intersect items = {}
      <4> SUFFICES ASSUME NEW x \in submitted, op[x].type = PutAway
                   PROVE  op[x].items \subseteq Products /\ op[x].items \intersect items = {}
        OBVIOUS
      <4>1. op[x] \in Draft
        BY DEF Typed, TypeOK, Journal, Receipts
      <4>2. op[x].items \subseteq Products
        BY <4>1 DEF Draft
      <4>3. \A p \in op[x].items : putaways[p] # None
        BY DEF Journal, Placements
      <4> QED BY <3>5, <4>2, <4>3
    <3>9. ASSUME NEW p \in Products, putaways'[p] # None
          PROVE  /\ status'[p] = "STORED"
                 /\ \E x \in submitted' : /\ op'[x].type = PutAway /\ p \in op'[x].items
                                          /\ putaways'[p].action = ActionOf(x, p)'
      <4>1. CASE p \in items
        BY <2>3, <2>4, <3>1, <3>4, <3>7, <4>1 DEF items
      <4>2. CASE p \notin items
        <5>1. putaways[p] # None /\ putaways'[p] = putaways[p] /\ status'[p] = status[p]
          BY <3>6, <3>9, <4>2
        <5> QED BY <2>4, <3>1, <5>1 DEF Journal, Placements
      <4> QED BY <4>1, <4>2
    <3>10. ASSUME NEW x \in submitted', op'[x].type = PutAway, NEW p \in op'[x].items
           PROVE  putaways'[p] # None /\ putaways'[p].action = ActionOf(x, p)'
      <4>1. CASE x = o
        BY <2>4, <3>1, <3>4, <3>10, <4>1 DEF items
      <4>2. CASE x \in submitted
        <5>1. p \in Products /\ p \notin items /\ putaways'[p] = putaways[p]
          BY <2>4, <3>6, <3>8, <3>10, <4>2
        <5> QED BY <2>4, <3>1, <3>10, <4>2, <5>1 DEF Journal, Placements
      <4> QED BY <2>4, <4>1, <4>2
    <3> QED BY <3>9, <3>10 DEF Placements
  <2> QED BY <2>8, <2>9 DEF Journal
<1> QED BY <1>1, <1>2

LEMMA JournalInductive == Inv /\ Journal /\ [Next]_vars => Journal'
<1> SUFFICES ASSUME Inv, Journal, [Next]_vars PROVE Journal'
  OBVIOUS
<1>1. ASSUME UNCHANGED <<gateVars, tableVars, op, submitted, tx>> PROVE Journal'
  <2>1. \A c \in Cargoplaces : ClosedProducts(c)' = ClosedProducts(c)
    BY <1>1 DEF ClosedProducts, tableVars
  <2> QED BY <1>1, <2>1, JournalKept DEF Inv, gateVars, tableVars
<1>2. CASE UNCHANGED vars
  BY <1>1, <1>2 DEF vars, signedVars
<1>3. CASE SettleInbound
  BY <1>1, <1>3 DEF SettleInbound
<1>4. CASE NextReceiving
  BY <1>4, GateJournal, TableJournal, CloseJournal DEF NextReceiving
<1>5. CASE NextPutaway
  BY <1>5, TableJournal, PlaceJournal DEF NextPutaway
<1> QED BY <1>2, <1>3, <1>4, <1>5 DEF Next

\* The chunk that the audit cuts out of the sorted items is the part that was signed.
LEMMA PartItemsPart ==
    ASSUME NEW items \in SUBSET Products, NEW k \in Nat \ {0}
    PROVE  PartItems(items, k) = Part(items, k)
<1> DEFINE x == (k - 1) * MaxItems
           n == Cardinality(items)
<1>1. n \in Nat /\ MaxItems \in Nat \ {0}
  BY LogAssumption, FS_Subset, FS_CardinalityType
<1>2. x \in Int /\ k * MaxItems = x + MaxItems
  BY <1>1
<1>3. \A p \in items : Rank(items, p) \in 1..n
  BY RankBounds
<1> HIDE DEF x, n
<1>4. ASSUME NEW p \in items
      PROVE  (Rank(items, p) - 1 >= x /\ Rank(items, p) - 1 < (IF x + MaxItems < n THEN x + MaxItems ELSE n))
                 <=> (x < Rank(items, p) /\ Rank(items, p) <= x + MaxItems)
  BY <1>1, <1>2, <1>3
<1>5. PartItems(items, k) =
          {p \in items : Rank(items, p) - 1 >= x /\ Rank(items, p) - 1 < (IF x + MaxItems < n THEN x + MaxItems ELSE n)}
  BY DEF PartItems, x, n
<1>6. Part(items, k) = {p \in items : x < Rank(items, p) /\ Rank(items, p) <= x + MaxItems}
  BY <1>2 DEF Part, x
<1> QED BY <1>4, <1>5, <1>6

\* Whenever the audit looks, what it recomputes for a received cargoplace or a placement is
\* what was signed, whatever boxes and products were scanned late.
THEOREM AuditCorrect == Spec => []AuditClean
<1>1. Inv /\ Journal => AuditClean
  <2> SUFFICES ASSUME Inv, Journal, NEW a \in AllActions PROVE CheckDetailsHash(a) /\ CheckItems(a)
    BY DEF AuditClean
  <2>1. PICK o \in submitted : a \in {o} \X (1..Parts(op[o].items))
    BY DEF AllActions
  <2> DEFINE k == a[2]
             items == op[o].items
             target == op[o].target
  <2>2. a = <<o, k>> /\ a[1] = o /\ k \in 1..Parts(items)
    BY <2>1
  <2>3. o \in Ops /\ op[o] \in Draft
    BY DEF Inv, Typed, TypeOK, Journal, Receipts
  <2>4. items \in SUBSET Products /\ ItemIDs(a) = Part(items, k)
    BY <2>2, <2>3 DEF Draft, ItemIDs
  <2>5. k \in Nat \ {0}
    BY <2>2, <2>4, PartsType
  <2>6. CASE op[o].type = Receive
    <3>1. target \in Cargoplaces
      BY <2>3, <2>6 DEF Draft
    <3>2. \A c \in Cargoplaces : closedIn[c] = o <=> c = target
      BY <2>3, <2>6, <3>1, ReceivingAssumption DEF Journal, Receipts
    <3>3. items = ClosedProducts(target)
      BY <2>3, <3>1, <3>2, ReceivingAssumption DEF Journal, Receipts
    <3> HIDE DEF k, items, target
    <3>4. ReceiveDetails(a) = {target}
      BY <2>2, <3>1, <3>2 DEF ReceiveDetails
    <3>5. {p \in Products : inBox[p] # None /\ box[inBox[p]] = "CLOSED" /\ closedIn[inBox[p][1]] = o} = ClosedProducts(target)
      <4>1. \A p \in Products : inBox[p] # None => (closedIn[inBox[p][1]] = o <=> inBox[p][1] = target)
        BY <3>2, BoxType DEF Inv, Typed
      <4> QED BY <4>1 DEF ClosedProducts
    <3>6. ReceiveDomainItems(a) = PartItems(items, k)
      BY <2>2, <3>3, <3>5 DEF ReceiveDomainItems, k
    <3>7. ReceiveDomainItems(a) = ItemIDs(a)
      BY <2>4, <2>5, <3>6, PartItemsPart
    <3> QED BY <2>2, <2>6, <3>4, <3>7 DEF CheckDetailsHash, CheckItems, target
  <2>7. CASE op[o].type # Receive
    <3>1. op[o].type = PutAway /\ target = Storage
      BY <2>3, <2>7 DEF Draft
    <3>2. \A p \in items : ActionOf(o, p) = a <=> p \in Part(items, k)
      <4> TAKE p \in items
      <4>1. p \in Part(items, k) <=> (Rank(items, p) - 1) \div MaxItems + 1 = k
        BY <2>2, <2>4, PartOfUnique
      <4>2. ActionOf(o, p) = <<o, (Rank(items, p) - 1) \div MaxItems + 1>>
        BY DEF ActionOf
      <4> HIDE DEF k, items
      <4> QED BY <2>2, <4>1, <4>2
    <3>3. \A x \in submitted, p \in Products : ActionOf(x, p)[1] = x
      BY DEF ActionOf
    <3>4. \A p \in Products : putaways[p] # None /\ putaways[p].action = a <=> p \in Part(items, k)
      <4> TAKE p \in Products
      <4>1. ASSUME putaways[p] # None, putaways[p].action = a PROVE p \in Part(items, k)
        <5>1. PICK x \in submitted : p \in op[x].items /\ putaways[p].action = ActionOf(x, p)
          BY <4>1 DEF Journal, Placements
        <5>2. x = o
          BY <2>2, <3>3, <4>1, <5>1
        <5> QED BY <3>2, <4>1, <5>1, <5>2
      <4>2. ASSUME p \in Part(items, k) PROVE putaways[p] # None /\ putaways[p].action = a
        <5>1. p \in items
          BY <4>2 DEF Part
        <5> QED BY <3>1, <3>2, <4>2, <5>1 DEF Journal, Placements
      <4> QED BY <4>1, <4>2
    <3> HIDE DEF k, items, target
    <3>5. Part(items, k) \subseteq Products /\ Part(items, k) # {}
      BY <2>2, <2>4, PartNonempty DEF Part
    <3>6. PutAwayDomainItems(a) = ItemIDs(a)
      BY <2>4, <3>4, <3>5 DEF PutAwayDomainItems
    <3>7. \A p \in Products : putaways[p] # None => putaways[p].bin = Storage
      BY DEF Inv, Typed, TypeOK
    <3>8. PutAwayDetails(a) = {target}
      BY <3>1, <3>4, <3>5, <3>7 DEF PutAwayDetails
    <3> QED BY <2>2, <2>7, <3>6, <3>8 DEF CheckDetailsHash, CheckItems, target
  <2> QED BY <2>6, <2>7
<1>2. Spec => []Journal
  BY SpecInv, InitJournal, JournalInductive, PTL DEF Spec
<1> QED BY <1>1, <1>2, SpecInv, PTL
=============================================================================
