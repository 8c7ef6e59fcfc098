------------------------------ MODULE Receiving ------------------------------
(***************************************************************************)
(* Receiving of one shipment: at the gate its cargoplaces are scanned or    *)
(* marked as missing, at the table each is opened, its boxes and products   *)
(* are scanned, and it is closed with a signed Receive.                     *)
(***************************************************************************)
EXTENDS Inventory

CONSTANTS
    Cargoplaces,    \* the cargoplaces of the shipment
    Barcodes,       \* box barcodes
    BufferBins,     \* bins of section BUFFER
    Storage         \* a storage bin

Boxes == Cargoplaces \X Barcodes

ASSUME ReceivingAssumption ==
    /\ IsFiniteSet(Cargoplaces) /\ Cargoplaces # {}
    /\ None \notin Cargoplaces /\ None \notin Boxes /\ None \notin Ops
    /\ None \notin BufferBins /\ Storage \notin BufferBins \union {None}
    /\ None \notin [action : Ops \X (Nat \ {0}), bin : {Storage}]

VARIABLES
    shipment,       \* inbound_shipments.status
    cp,             \* cargoplaces.status
    box,            \* boxes.status by (cargoplace, barcode), "NONE" when there is no row
    inBox,          \* products.box_id, and with it products.cargoplace_id
    scanned,        \* receiving_gate: rows SCAN_CARGOPLACE of a cargoplace
    accepted,       \* receiving_gate: rows SHIPMENT_ACCEPTED
    closedIn,       \* receiving_table: the operation of the row CLOSE_CARGO of a cargoplace
    putaways        \* putaways: the row of a product

gateVars == <<shipment, cp, scanned, accepted>>
tableVars == <<box, inBox, status, bin, closedIn, putaways>>

ShipmentStatuses == {"CREATED", "GATE_IN_PROGRESS", "GATE_CLOSED"}
CargoplaceStatuses == {"EXPECTED", "RECEIVED_AT_GATE", "NOT_RECEIVED", "TABLE_IN_PROGRESS", "TABLE_CLOSED"}
BoxStatuses == {"NONE", "OPEN", "CLOSED"}
Steps == {"idle", "ttn", "scan", "count", "close", "mark", "accept", "closeBox", "place"}

Idle == [step |-> "idle", cp |-> None, box |-> None, op |-> None, rows |-> {}, last |-> FALSE]

InitReceiving ==
    /\ shipment = "CREATED"
    /\ cp = [c \in Cargoplaces |-> "EXPECTED"]
    /\ box = [b \in Boxes |-> "NONE"]
    /\ inBox = [p \in Products |-> None]
    /\ scanned = [c \in Cargoplaces |-> 0] /\ accepted = 0
    /\ status = [p \in Products |-> "NONE"] /\ bin = [p \in Products |-> None]
    /\ closedIn = [c \in Cargoplaces |-> None] /\ putaways = [p \in Products |-> None]
    /\ op = [o \in Ops |-> None] /\ submitted = {} /\ log = << >>
    /\ tx = [r \in Requests |-> Idle]

Begin(r, t) == tx[r] = Idle /\ tx' = [tx EXCEPT ![r] = t]

\* WithTx: a refusal rolls back, and the request ends.
Rollback(r) == tx' = [tx EXCEPT ![r] = Idle] /\ UNCHANGED <<gateVars, tableVars, signedVars>>

-----------------------------------------------------------------------------
(* The gate. *)

GetShipmentByTTN == shipment
GetShipmentByID == shipment
GetCargoplaceByShipmentAndCode(c) == cp[c]

\* A cargoplace row nobody else has written in an open transaction.
RowFree(r, c) == \A q \in Requests \ {r} : c \notin tx[q].rows

\* Seeded fault: the update does not ask for the status EXPECTED.
UpdateCargoplaceAnyStatus(r, c) ==
    RowFree(r, c) /\ tx' = [tx EXCEPT ![r].step = "count", ![r].rows = {c}]

\* The row is written when it is still EXPECTED, and held to the end of the transaction.
UpdateCargoplaceReceivedAtGate(r, c) ==
    RowFree(r, c) /\ cp[c] = "EXPECTED"
        /\ tx' = [tx EXCEPT ![r].step = "count", ![r].rows = {c}]

\* A statement of request r sees its own writes and what is committed.
CountCargoplaces == Cardinality(Cargoplaces)
CountCargoplacesByStatus(r) ==
    Cardinality(tx[r].rows \union {c \in Cargoplaces : cp[c] = "RECEIVED_AT_GATE"})

\* ScanTTN reads the shipment and, when it is new, opens the gate; a shipment that is open
\* already is only logged.
ReadTTN(r) ==
    /\ GetShipmentByTTN = "CREATED"
    /\ Begin(r, [Idle EXCEPT !.step = "ttn"])
    /\ UNCHANGED <<gateVars, tableVars, signedVars>>

UpdateShipmentStatus(to, from) ==
    shipment' = IF shipment = from THEN to ELSE shipment

ScanTTN(r) ==
    /\ tx[r].step = "ttn"
    /\ UpdateShipmentStatus("GATE_IN_PROGRESS", "CREATED")
    /\ tx' = [tx EXCEPT ![r] = Idle]
    /\ UNCHANGED <<cp, scanned, accepted, tableVars, signedVars>>

\* ScanCargoplace: the checks; the update; the counts; the decision and the commit.
ScanCargoplace(r, c) ==
    /\ GetShipmentByID = "GATE_IN_PROGRESS"
    /\ GetCargoplaceByShipmentAndCode(c) # "RECEIVED_AT_GATE"
    /\ Begin(r, [Idle EXCEPT !.step = "scan", !.cp = c])
    /\ UNCHANGED <<gateVars, tableVars, signedVars>>

ScanUpdate(r) ==
    /\ tx[r].step = "scan"
    /\ \/ UpdateCargoplaceReceivedAtGate(r, tx[r].cp) /\ UNCHANGED <<gateVars, tableVars, signedVars>>
       \/ RowFree(r, tx[r].cp) /\ cp[tx[r].cp] # "EXPECTED" /\ Rollback(r)

CountShipmentProgress(r) ==
    /\ tx[r].step = "count"
    /\ tx' = [tx EXCEPT ![r].step = "close", ![r].last = CountCargoplacesByStatus(r) >= CountCargoplaces]
    /\ UNCHANGED <<gateVars, tableVars, signedVars>>

\* Seeded fault: the counts are not compared.
TryAutoCloseAlways(r) ==
    IF shipment = "GATE_IN_PROGRESS"
    THEN shipment' = "GATE_CLOSED" /\ accepted' = accepted + 1
    ELSE UNCHANGED <<shipment, accepted>>

\* The first to close the shipment logs it; one who finds it closed does not.
TryAutoCloseShipment(r) ==
    IF tx[r].last /\ shipment = "GATE_IN_PROGRESS"
    THEN shipment' = "GATE_CLOSED" /\ accepted' = accepted + 1
    ELSE UNCHANGED <<shipment, accepted>>

InsertReceivingGateLog(c) == scanned' = [scanned EXCEPT ![c] = @ + 1]

CommitScan(r) ==
    /\ tx[r].step = "close"
    /\ TryAutoCloseShipment(r)
    /\ cp' = [cp EXCEPT ![tx[r].cp] = "RECEIVED_AT_GATE"]
    /\ InsertReceivingGateLog(tx[r].cp)
    /\ tx' = [tx EXCEPT ![r] = Idle]
    /\ UNCHANGED <<tableVars, signedVars>>

\* AcceptShipment: the check; the bulk update, which waits for the rows of scans; the
\* conditional close, which rolls the update back when the shipment is closed already.
AcceptShipment(r) ==
    /\ GetShipmentByID = "GATE_IN_PROGRESS"
    /\ Begin(r, [Idle EXCEPT !.step = "mark"])
    /\ UNCHANGED <<gateVars, tableVars, signedVars>>

MarkExpectedAsNotReceived(r) ==
    LET expected == {c \in Cargoplaces : cp[c] = "EXPECTED"} IN
    /\ tx[r].step = "mark"
    /\ \A c \in expected : RowFree(r, c)
    /\ tx' = [tx EXCEPT ![r].step = "accept", ![r].rows = expected]
    /\ UNCHANGED <<gateVars, tableVars, signedVars>>

CommitAccept(r) ==
    /\ tx[r].step = "accept"
    /\ \/ /\ shipment = "GATE_IN_PROGRESS"
          /\ shipment' = "GATE_CLOSED" /\ accepted' = accepted + 1
          /\ cp' = [c \in Cargoplaces |-> IF c \in tx[r].rows THEN "NOT_RECEIVED" ELSE cp[c]]
          /\ tx' = [tx EXCEPT ![r] = Idle]
          /\ UNCHANGED <<scanned, tableVars, signedVars>>
       \/ shipment # "GATE_IN_PROGRESS" /\ Rollback(r)

-----------------------------------------------------------------------------
(* The table. *)

GetCargoplaceByID(c) == cp[c]

\* The row lock of a handler that needs the cargoplace in progress.
GetCargoplaceByIDForUpdate(r, c) == RowFree(r, c) /\ cp[c] = "TABLE_IN_PROGRESS"

UpdateCargoplaceStatus(r, c, to, from) ==
    RowFree(r, c) /\ cp[c] = from /\ cp' = [cp EXCEPT ![c] = to]

\* ScanTableCargoplace does not ask about the shipment.
ScanTableCargoplace(r, c) ==
    /\ tx[r] = Idle
    /\ GetCargoplaceByID(c) = "RECEIVED_AT_GATE"
    /\ UpdateCargoplaceStatus(r, c, "TABLE_IN_PROGRESS", "RECEIVED_AT_GATE")
    /\ UNCHANGED <<shipment, scanned, accepted, tableVars, signedVars, tx>>

\* UpsertBox: a box that is closed is not opened again.
UpsertBox(b) == box[b] # "CLOSED" /\ box' = [box EXCEPT ![b] = "OPEN"]

ScanBox(r, b) ==
    /\ tx[r] = Idle
    /\ GetCargoplaceByIDForUpdate(r, b[1])
    /\ UpsertBox(b)
    /\ UNCHANGED <<gateVars, inBox, status, bin, closedIn, putaways, signedVars, tx>>

GetBoxByID(b) == box[b]

\* InsertProduct: the QR code is unique.
InsertProduct(p, b) ==
    /\ status[p] = "NONE"
    /\ status' = [status EXCEPT ![p] = "RECEIVED"]
    /\ inBox' = [inBox EXCEPT ![p] = b]

ScanQR(r, b, p) ==
    /\ tx[r] = Idle
    /\ GetCargoplaceByIDForUpdate(r, b[1])
    /\ GetBoxByID(b) = "OPEN"
    /\ InsertProduct(p, b)
    /\ UNCHANGED <<gateVars, box, bin, closedIn, putaways, signedVars, tx>>

\* CloseBox reads the box before it locks the cargoplace.
ReadBox(r, b) ==
    /\ GetBoxByID(b) = "OPEN"
    /\ Begin(r, [Idle EXCEPT !.step = "closeBox", !.box = b])
    /\ UNCHANGED <<gateVars, tableVars, signedVars>>

UpdateBoxStatus(b) == box' = [box EXCEPT ![b] = "CLOSED"]

\* Seeded fault: the cargoplace is not locked and asked again.
CloseBoxUnlocked(r) ==
    /\ tx[r].step = "closeBox"
    /\ UpdateBoxStatus(tx[r].box)
    /\ tx' = [tx EXCEPT ![r] = Idle]
    /\ UNCHANGED <<gateVars, inBox, status, bin, closedIn, putaways, signedVars>>

CloseBox(r) ==
    LET b == tx[r].box IN
    /\ tx[r].step = "closeBox"
    /\ \/ /\ GetCargoplaceByIDForUpdate(r, b[1])
          /\ UpdateBoxStatus(b)
          /\ tx' = [tx EXCEPT ![r] = Idle]
          /\ UNCHANGED <<gateVars, inBox, status, bin, closedIn, putaways, signedVars>>
       \/ RowFree(r, b[1]) /\ cp[b[1]] # "TABLE_IN_PROGRESS" /\ Rollback(r)

\* Seeded fault: products of open boxes too.
ListProductIDsOpen(c) ==
    {p \in Products : status[p] = "RECEIVED" /\ inBox[p] # None /\ inBox[p][1] = c}

\* The products of a cargoplace that are RECEIVED in CLOSED boxes.
ListClosableProductIDs(c) ==
    {p \in Products : /\ status[p] = "RECEIVED" /\ inBox[p] # None
                      /\ inBox[p][1] = c /\ box[inBox[p]] = "CLOSED"}

\* Seeded fault: the ids are swapped.
ScanBufferSwapped(c, b) ==
    bin' = [p \in Products |-> IF p \in ListClosableProductIDs(c) THEN c ELSE bin[p]]

ScanBufferWithLog(c, b) ==
    bin' = [p \in Products |-> IF p \in ListClosableProductIDs(c) THEN b ELSE bin[p]]

ScanBuffer(r, c, b) ==
    /\ tx[r] = Idle
    /\ b \in BufferBins
    /\ GetCargoplaceByIDForUpdate(r, c)
    /\ ScanBufferWithLog(c, b)
    /\ UNCHANGED <<gateVars, box, inBox, status, closedIn, putaways, signedVars, tx>>

-----------------------------------------------------------------------------
(* The signed close. *)

DraftCloseCargoplace(r, o, c) ==
    /\ tx[r] = Idle
    /\ GetCargoplaceByID(c) = "TABLE_IN_PROGRESS"
    /\ ListClosableProductIDs(c) # {}
    /\ InsertOperation(o, Receive, None, ListClosableProductIDs(c), c)
    /\ UNCHANGED <<gateVars, tableVars, submitted, log, tx>>

\* Between the draft and the submission the contents may have changed.
DraftStale(o) == ListClosableProductIDs(op[o].target) # op[o].items

\* The row CLOSE_CARGO.
InsertReceivingTableLogTx(c, o) == closedIn' = [closedIn EXCEPT ![c] = o]

\* CloseCargoplaceWithOutbox runs under the lock of the cargoplace.
CloseCargoplaceWithOutbox(r, o) ==
    /\ GetCargoplaceByIDForUpdate(r, op[o].target)
    /\ LockOperation(r, o, Receive)
    /\ ~DraftStale(o)
    /\ cp' = [cp EXCEPT ![op[o].target] = "TABLE_CLOSED"]
    /\ InsertReceivingTableLogTx(op[o].target, o)
    /\ WriteActions(o)

SubmitCloseCargoplace(r, o) ==
    /\ tx[r] = Idle
    /\ Operation(o, Receive)
    /\ CloseCargoplaceWithOutbox(r, o)
    /\ UNCHANGED <<shipment, scanned, accepted, box, inBox, status, bin, putaways, tx>>

\* A statement fails or the client goes away in the middle of a transaction.
Abort(r) == tx[r] # Idle /\ Rollback(r)

NextReceiving ==
    \E r \in Requests :
        \/ Abort(r)
        \/ ReadTTN(r) \/ ScanTTN(r)
        \/ \E c \in Cargoplaces : ScanCargoplace(r, c)
        \/ ScanUpdate(r) \/ CountShipmentProgress(r) \/ CommitScan(r)
        \/ AcceptShipment(r) \/ MarkExpectedAsNotReceived(r) \/ CommitAccept(r)
        \/ \E c \in Cargoplaces : ScanTableCargoplace(r, c)
        \/ \E b \in Boxes : ScanBox(r, b) \/ ReadBox(r, b)
        \/ \E b \in Boxes, p \in Products : ScanQR(r, b, p)
        \/ CloseBox(r)
        \/ \E c \in Cargoplaces, b \in BufferBins : ScanBuffer(r, c, b)
        \/ \E o \in Ops, c \in Cargoplaces : DraftCloseCargoplace(r, o, c)
        \/ \E o \in Ops : SubmitCloseCargoplace(r, o)
=============================================================================
