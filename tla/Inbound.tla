------------------------------- MODULE Inbound -------------------------------
(***************************************************************************)
(* Receiving and putaway of one shipment, with the ledger settling the      *)
(* signed actions behind them.                                              *)
(***************************************************************************)
EXTENDS Putaway

vars == <<gateVars, tableVars, signedVars, tx>>

Init == InitReceiving

\* The adapter and the contract: an action is settled, in the order of the outbox.
SettleInbound == Settled(log, log') /\ UNCHANGED <<gateVars, tableVars, op, submitted, tx>>

Next == NextReceiving \/ NextPutaway \/ SettleInbound

Spec == Init /\ [][Next]_vars

-----------------------------------------------------------------------------

Draft == [type : {Receive}, by : {None}, items : SUBSET Products, target : Cargoplaces]
             \union [type : {PutAway}, by : {None}, items : SUBSET Products, target : {Storage}]
Transaction == [step : Steps, cp : Cargoplaces \union {None}, box : Boxes \union {None},
                op : Ops \union {None}, rows : SUBSET Cargoplaces, last : BOOLEAN]

TypeOK ==
    /\ shipment \in ShipmentStatuses
    /\ cp \in [Cargoplaces -> CargoplaceStatuses]
    /\ box \in [Boxes -> BoxStatuses]
    /\ inBox \in [Products -> Boxes \union {None}]
    /\ scanned \in [Cargoplaces -> Nat] /\ accepted \in Nat
    /\ status \in [Products -> ProductStatuses]
    /\ bin \in [Products -> BufferBins \union {Storage, None}]
    /\ closedIn \in [Cargoplaces -> Ops \union {None}]
    /\ putaways \in [Products -> [action : Ops \X (Nat \ {0}), bin : {Storage}] \union {None}]
    /\ op \in [Ops -> Draft \union {None}] /\ submitted \in SUBSET Ops
    /\ log \in Seq(Action)
    /\ tx \in [Requests -> Transaction]

\* A shipment is closed only when every cargoplace is accounted for: none is still
\* EXPECTED, whatever scans and acceptances ran into each other (AcceptShipment,
\* tryAutoCloseShipment).
ClosedGateSettled == shipment = "GATE_CLOSED" => \A c \in Cargoplaces : cp[c] # "EXPECTED"

\* The journal of the gate says once what happened once: a cargoplace that was received
\* has one row SCAN_CARGOPLACE, the closing of the shipment one row SHIPMENT_ACCEPTED.
GateLogExact ==
    /\ accepted = IF shipment = "GATE_CLOSED" THEN 1 ELSE 0
    /\ \A c \in Cargoplaces : scanned[c] = IF cp[c] \in {"EXPECTED", "NOT_RECEIVED"} THEN 0 ELSE 1

\* What the audit recomputes for an action from the tables of the WMS: the DISTINCT values
\* of its details, and its items.
ReceiveDetails(a) == {c \in Cargoplaces : closedIn[c] = a[1]}
PutAwayDetails(a) == {putaways[p].bin : p \in {q \in Products : putaways[q] # None /\ putaways[q].action = a}}

ReceiveDomainItems(a) ==
    PartItems({p \in Products : /\ inBox[p] # None /\ box[inBox[p]] = "CLOSED"
                               /\ closedIn[inBox[p][1]] = a[1]}, a[2])
PutAwayDomainItems(a) == {p \in Products : putaways[p] # None /\ putaways[p].action = a}

\* The checks of an action that was applied: what is recomputed is what was signed.
CheckDetailsHash(a) ==
    (IF op[a[1]].type = Receive THEN ReceiveDetails(a) ELSE PutAwayDetails(a)) = {op[a[1]].target}
CheckItems(a) ==
    (IF op[a[1]].type = Receive THEN ReceiveDomainItems(a) ELSE PutAwayDomainItems(a)) = ItemIDs(a)

\* Whenever the audit looks, what it recomputes is what was signed: the cargoplace and what
\* lies in its closed boxes, the storage bin and what was placed there. Neither a box closed
\* late nor a product scanned late gets past the close.
AuditClean == \A a \in AllActions : CheckDetailsHash(a) /\ CheckItems(a)

\* When every cargoplace was scanned and nothing is running, the shipment is closed.
AutoClosed ==
    (\A r \in Requests : tx[r] = Idle) /\ (\A c \in Cargoplaces : cp[c] \notin {"EXPECTED", "NOT_RECEIVED"})
        => shipment = "GATE_CLOSED"

\* The signed stage a product has passed in the WMS.
Held(p) ==
    IF status[p] = "STORED" THEN PutAway
    ELSE IF inBox[p] # None /\ cp[inBox[p][1]] = "TABLE_CLOSED" /\ box[inBox[p]] = "CLOSED" THEN Receive
    ELSE 0

\* Receiving and putaway implement Custody.
C == INSTANCE Custody WITH held <- [p \in Products |-> Held(p)], From <- 0
ImplementsCustody == C!Spec
=============================================================================
