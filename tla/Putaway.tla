------------------------------- MODULE Putaway -------------------------------
(***************************************************************************)
(* Putaway: products of closed cargoplaces are taken from a receiving       *)
(* buffer and placed into a storage bin with a signed PutAway, unless their *)
(* Receive failed on the ledger.                                            *)
(***************************************************************************)
EXTENDS Receiving

GetProductByID(p) == status[p]
GetBufferBinByID(b) == b \in BufferBins
GetCargoplaceStatus(p) == cp[inBox[p][1]]

\* What the draft and the submission ask of every product.
ReadyToPlace(p) ==
    /\ GetBufferBinByID(bin[p])
    /\ GetProductByID(p) = "RECEIVED"
    /\ GetCargoplaceStatus(p) = "TABLE_CLOSED"

DraftPlaceToStorageBin(r, o, items) ==
    /\ tx[r] = Idle
    /\ items # {} /\ \A p \in items : ReadyToPlace(p)
    /\ CheckChainStatus(items, Receive)
    /\ InsertOperation(o, PutAway, None, items, Storage)
    /\ UNCHANGED <<gateVars, tableVars, submitted, log, tx>>

\* SubmitPlaceToStorageBin asks the ledger before its transaction begins.
CheckPlace(r, o) ==
    /\ Operation(o, PutAway)
    /\ CheckChainStatus(op[o].items, Receive)
    /\ Begin(r, [Idle EXCEPT !.step = "place", !.op = o])
    /\ UNCHANGED <<gateVars, tableVars, signedVars>>

UpdateProductStorage(items) ==
    /\ status' = [p \in Products |-> IF p \in items THEN "STORED" ELSE status[p]]
    /\ bin' = [p \in Products |-> IF p \in items THEN Storage ELSE bin[p]]

InsertPutaway(o) ==
    putaways' = [p \in Products |-> IF p \in op[o].items
                                   THEN [action |-> ActionOf(o, p), bin |-> op[o].target] ELSE putaways[p]]

\* The transaction locks the products and the operation and checks everything again; a
\* product that moved since the draft makes the draft stale.
SubmitPlaceToStorageBin(r) ==
    LET o == tx[r].op IN
    /\ tx[r].step = "place"
    /\ \/ /\ LockOperation(r, o, PutAway)
          /\ \A p \in op[o].items : ReadyToPlace(p)
          /\ UpdateProductStorage(op[o].items)
          /\ InsertPutaway(o)
          /\ WriteActions(o)
          /\ tx' = [tx EXCEPT ![r] = Idle]
          /\ UNCHANGED <<gateVars, box, inBox, closedIn>>
       \/ /\ o \in submitted \/ \E p \in op[o].items : ~ReadyToPlace(p)
          /\ Rollback(r)

NextPutaway ==
    \E r \in Requests :
        \/ \E o \in Ops : CheckPlace(r, o)
        \/ \E o \in Ops, items \in SUBSET Products : DraftPlaceToStorageBin(r, o, items)
        \/ SubmitPlaceToStorageBin(r)
=============================================================================
