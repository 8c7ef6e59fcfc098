---------------------------- MODULE SignedLedger ----------------------------
(***************************************************************************)
(* The two contracts every signed action ends in:                          *)
(*   ConsortiumRegistry - organizations, admin and operator keys, and the  *)
(*     key actions an admin signs (KeyRegister, KeyRevoke);                *)
(*   SignedMappingWMS - the status of every item and the warehouse actions *)
(*     an operator signs (Receive, PutAway, Pick, Ship).                   *)
(*                                                                         *)
(* A call is one step: the EVM executes a transaction atomically, and no   *)
(* action of a batch reverts, so a batch is the sequence of its actions.   *)
(* A public key, its keyId and its holder are one value. WebAuthn          *)
(* verification is the field sig of an envelope: it is TRUE when the       *)
(* assertion verifies under the key over the challenge recomputed from the *)
(* envelope's own fields. applyActions and applyKeyActions have no access  *)
(* control, so any envelope of the constant sets may arrive at any time,   *)
(* any number of times.                                                    *)
(***************************************************************************)
EXTENDS Naturals, Sequences, FiniteSets

CONSTANTS
    Items,          \* numeric item ids, a finite set of naturals
    Orgs,           \* organization ids
    NoOrg,          \* bytes16(0), the organization of a key the registry does not know
    Keys,           \* public keys
    ValidKeys,      \* the keys whose (qx, qy) is a point of P-256
    ActionIds,      \* action ids
    Envelopes,      \* warehouse envelopes that may reach applyActions
    KeyEnvelopes,   \* key envelopes that may reach applyKeyActions
    MaxRejectLogs   \* bound on the signer rejections logged per action id

Types == {"None", "Receive", "PutAway", "Pick", "Ship", "KeyRegister", "KeyRevoke"}

ActionStates == {"None", "Applied", "Rejected"}

\* Reasons that do not take the action id: the signer could not be verified.
SignerReasons == {"UnknownKey", "KeyRevoked", "BadSignature"}

Reasons ==
    SignerReasons \union
    {"None", "WrongType", "NotAdmin", "KeyExists", "InvalidPublicKey", "WrongOrganization",
     "TargetNotOperator", "EmptyItems", "ItemsNotAscending", "WrongItemStatus"}

\* An item's status, as the number the Solidity enum gives it:
\* None, Accepted, PutAway, Picked, Shipped.
Statuses == 0..4

Roles == {"None", "Admin", "Operator"}

ASSUME LedgerAssumption ==
    /\ Items \subseteq Nat
    /\ NoOrg \notin Orgs
    /\ ValidKeys \subseteq Keys
    /\ MaxRejectLogs \in Nat \ {0}
    /\ Envelopes \subseteq
         [id : ActionIds, type : Types, items : Seq(Items), key : Keys, sig : BOOLEAN]
    /\ KeyEnvelopes \subseteq
         [id : ActionIds, type : Types, target : Keys, key : Keys, sig : BOOLEAN]

VARIABLES
    organizationExists,  \* organization -> registered?
    role,                \* key -> Role, "None" when the registry does not know it
    keyOrg,              \* key -> organization (meaningful once the key has a role)
    active,              \* key -> not revoked?
    keyActionState,      \* ConsortiumRegistry.actionState
    itemStatus,          \* SignedMappingWMS.itemStatus
    actionState,         \* SignedMappingWMS.actionState
    itemMoves,           \* item -> actions of its ItemMoved logs, oldest first
    rejectLog,           \* action id -> reasons of its ActionRejected logs of SignedMappingWMS
    registrar            \* operator key -> signer of the KeyRegister that added it

registryVars == <<organizationExists, role, keyOrg, active, keyActionState, registrar>>
mappingVars == <<itemStatus, actionState, itemMoves, rejectLog>>
vars == <<registryVars, mappingVars>>

Init ==
    /\ organizationExists = [o \in Orgs |-> FALSE]
    /\ role = [k \in Keys |-> "None"]
    /\ keyOrg = [k \in Keys |-> NoOrg]
    /\ active = [k \in Keys |-> FALSE]
    /\ keyActionState = [a \in ActionIds |-> "None"]
    /\ itemStatus = [i \in Items |-> 0]
    /\ actionState = [a \in ActionIds |-> "None"]
    /\ itemMoves = [i \in Items |-> <<>>]
    /\ rejectLog = [a \in ActionIds |-> <<>>]
    /\ registrar = [k \in Keys |-> k]

-----------------------------------------------------------------------------
(* ConsortiumRegistry: the owner's calls. A call that reverts is not a step. *)

AddKey(k, o, r) ==
    /\ role' = [role EXCEPT ![k] = r]
    /\ keyOrg' = [keyOrg EXCEPT ![k] = o]
    /\ active' = [active EXCEPT ![k] = TRUE]

RegisterAdmin(o, k) ==
    /\ role[k] = "None"
    /\ k \in ValidKeys
    /\ AddKey(k, o, "Admin")
    /\ UNCHANGED <<keyActionState, registrar, mappingVars>>

RegisterOrganization(o, k) ==
    /\ ~organizationExists[o]
    /\ organizationExists' = [organizationExists EXCEPT ![o] = TRUE]
    /\ RegisterAdmin(o, k)

RegisterAdminKey(o, k) ==
    /\ organizationExists[o]
    /\ RegisterAdmin(o, k)
    /\ UNCHANGED organizationExists

OwnerRevokeKey(k) ==
    /\ role[k] # "None"
    /\ active' = [active EXCEPT ![k] = FALSE]
    /\ UNCHANGED <<organizationExists, role, keyOrg, keyActionState, registrar, mappingVars>>

-----------------------------------------------------------------------------
(* Signer verification, shared by both contracts. *)

\* Seeded fault: the active flag is not read.
VerifySignerIgnoresRevocation(k, sig) ==
    IF role[k] = "None" THEN "UnknownKey" ELSE IF ~sig THEN "BadSignature" ELSE "None"

VerifySigner(k, sig) ==
    IF role[k] = "None" THEN "UnknownKey"
    ELSE IF ~active[k] THEN "KeyRevoked"
    ELSE IF ~sig THEN "BadSignature"
    ELSE "None"

-----------------------------------------------------------------------------
(* ConsortiumRegistry: key actions. *)

\* Seeded fault: registering does not look at an existing key.
KeyActionReasonOverwrites(a) ==
    CASE role[a.key] # "Admin" -> "NotAdmin"
      [] role[a.key] = "Admin" /\ a.type = "KeyRegister" -> "None"
      [] OTHER -> "WrongType"

KeyActionReason(a) ==
    CASE role[a.key] # "Admin" -> "NotAdmin"
      [] role[a.key] = "Admin" /\ a.type = "KeyRegister" ->
            IF role[a.target] # "None" THEN "KeyExists"
            ELSE IF a.target \notin ValidKeys THEN "InvalidPublicKey"
            ELSE "None"
      [] role[a.key] = "Admin" /\ a.type = "KeyRevoke" ->
            IF role[a.target] = "None" THEN "UnknownKey"
            ELSE IF keyOrg[a.target] # keyOrg[a.key] THEN "WrongOrganization"
            ELSE IF role[a.target] # "Operator" THEN "TargetNotOperator"
            ELSE IF ~active[a.target] THEN "KeyRevoked"
            ELSE "None"
      [] OTHER -> "WrongType"

\* Seeded fault: the new key gets the organization stored for the target, not the signer's.
KeyActionEffectWrongOrg(a) ==
    IF a.type = "KeyRegister"
    THEN /\ AddKey(a.target, keyOrg[a.target], "Operator")
         /\ registrar' = [registrar EXCEPT ![a.target] = a.key]
    ELSE /\ active' = [active EXCEPT ![a.target] = FALSE]
         /\ UNCHANGED <<role, keyOrg, registrar>>

KeyActionEffect(a) ==
    IF a.type = "KeyRegister"
    THEN /\ AddKey(a.target, keyOrg[a.key], "Operator")
         /\ registrar' = [registrar EXCEPT ![a.target] = a.key]
    ELSE /\ active' = [active EXCEPT ![a.target] = FALSE]
         /\ UNCHANGED <<role, keyOrg, registrar>>

\* _applyKeyAction: a decided id is skipped, an unverified signer leaves the id free,
\* everything else decides the id.
ApplyKeyAction(a) ==
    /\ keyActionState[a.id] = "None"
    /\ VerifySigner(a.key, a.sig) = "None"
    /\ IF KeyActionReason(a) = "None"
       THEN /\ KeyActionEffect(a)
            /\ keyActionState' = [keyActionState EXCEPT ![a.id] = "Applied"]
       ELSE /\ keyActionState' = [keyActionState EXCEPT ![a.id] = "Rejected"]
            /\ UNCHANGED <<role, keyOrg, active, registrar>>
    /\ UNCHANGED <<organizationExists, mappingVars>>

-----------------------------------------------------------------------------
(* SignedMappingWMS: warehouse actions. *)

WarehouseTypes == {"Receive", "PutAway", "Pick", "Ship"}

\* _transition: the status every item of the action must have; one more is what it gets.
FromStatus(t) ==
    CASE t = "Receive" -> 0
      [] t = "PutAway" -> 1
      [] t = "Pick"    -> 2
      [] t = "Ship"    -> 3

NotAscending(ids, i) == i > 1 /\ ids[i] <= ids[i - 1]

\* _checkItems: the reason at the first offending position.
CheckItems(ids, from) ==
    LET bad == {i \in DOMAIN ids : NotAscending(ids, i) \/ itemStatus[ids[i]] # from}
        firstBad == CHOOSE i \in bad : \A j \in bad : i <= j
    IN  IF ids = <<>> THEN "EmptyItems"
        ELSE IF bad = {} THEN "None"
        ELSE IF NotAscending(ids, firstBad) THEN "ItemsNotAscending"
        ELSE "WrongItemStatus"

ActionReason(a) ==
    IF a.type \in WarehouseTypes THEN CheckItems(a.items, FromStatus(a.type)) ELSE "WrongType"

ItemsOf(a) == {a.items[i] : i \in DOMAIN a.items}

\* Seeded fault: the new status is added to the old one instead of replacing it.
MoveItemsAdds(a) ==
    /\ itemStatus' = [i \in Items |->
            IF i \in ItemsOf(a) THEN itemStatus[i] + FromStatus(a.type) + 1 ELSE itemStatus[i]]
    /\ itemMoves' = [i \in Items |->
            IF i \in ItemsOf(a) THEN Append(itemMoves[i], a.id) ELSE itemMoves[i]]

MoveItems(a) ==
    /\ itemStatus' = [i \in Items |->
            IF i \in ItemsOf(a) THEN FromStatus(a.type) + 1 ELSE itemStatus[i]]
    /\ itemMoves' = [i \in Items |->
            IF i \in ItemsOf(a) THEN Append(itemMoves[i], a.id) ELSE itemMoves[i]]

LogReject(a, reason) == rejectLog' = [rejectLog EXCEPT ![a.id] = Append(@, reason)]

\* Seeded fault: an unverified signer spends the id.
RejectSignerBurnsId(a) ==
    /\ actionState[a.id] = "None"
    /\ VerifySigner(a.key, a.sig) # "None"
    /\ Len(rejectLog[a.id]) < MaxRejectLogs
    /\ LogReject(a, VerifySigner(a.key, a.sig))
    /\ actionState' = [actionState EXCEPT ![a.id] = "Rejected"]
    /\ UNCHANGED <<registryVars, itemStatus, itemMoves>>

\* _apply with an unverified signer: a log, and the id stays free.
RejectSigner(a) ==
    /\ actionState[a.id] = "None"
    /\ VerifySigner(a.key, a.sig) # "None"
    /\ Len(rejectLog[a.id]) < MaxRejectLogs
    /\ LogReject(a, VerifySigner(a.key, a.sig))
    /\ UNCHANGED <<registryVars, itemStatus, actionState, itemMoves>>

\* Seeded fault: a decided id is not skipped.
ApplyActionReplays(a) ==
    /\ VerifySigner(a.key, a.sig) = "None"
    /\ ActionReason(a) = "None"
    /\ actionState' = [actionState EXCEPT ![a.id] = "Applied"]
    /\ MoveItems(a)
    /\ UNCHANGED <<registryVars, rejectLog>>

\* _apply with a verified signer: all the items move, or none does and the id is spent.
ApplyAction(a) ==
    /\ actionState[a.id] = "None"
    /\ VerifySigner(a.key, a.sig) = "None"
    /\ IF ActionReason(a) = "None"
       THEN /\ actionState' = [actionState EXCEPT ![a.id] = "Applied"]
            /\ MoveItems(a)
            /\ UNCHANGED rejectLog
       ELSE /\ actionState' = [actionState EXCEPT ![a.id] = "Rejected"]
            /\ LogReject(a, ActionReason(a))
            /\ UNCHANGED <<itemStatus, itemMoves>>
    /\ UNCHANGED registryVars

Next ==
    \/ \E o \in Orgs, k \in Keys : RegisterOrganization(o, k) \/ RegisterAdminKey(o, k)
    \/ \E k \in Keys : OwnerRevokeKey(k)
    \/ \E a \in KeyEnvelopes : ApplyKeyAction(a)
    \/ \E a \in Envelopes : ApplyAction(a) \/ RejectSigner(a)

Spec == Init /\ [][Next]_vars

-----------------------------------------------------------------------------
(* Properties *)

TypeOK ==
    /\ organizationExists \in [Orgs -> BOOLEAN]
    /\ role \in [Keys -> Roles]
    /\ keyOrg \in [Keys -> Orgs \union {NoOrg}]
    /\ active \in [Keys -> BOOLEAN]
    /\ keyActionState \in [ActionIds -> ActionStates]
    /\ itemStatus \in [Items -> Statuses]
    /\ actionState \in [ActionIds -> ActionStates]
    /\ itemMoves \in [Items -> Seq(ActionIds)]
    /\ rejectLog \in [ActionIds -> Seq(Reasons)]
    /\ registrar \in [Keys -> Keys]

\* What an auditor reads (ADR 8): the ItemMoved logs of an item are as many as its status
\* says, every one names an applied action, and no action moved an item twice.
ItemHistory ==
    \A i \in Items :
        /\ Len(itemMoves[i]) = itemStatus[i]
        /\ \A m \in DOMAIN itemMoves[i] : actionState[itemMoves[i][m]] = "Applied"
        /\ \A m, n \in DOMAIN itemMoves[i] : itemMoves[i][m] = itemMoves[i][n] => m = n

\* One action is one stage: two items it moved were both moved at the same stage of
\* their life, whatever else shares its id.
OneStagePerAction ==
    \A i, j \in Items : \A m \in DOMAIN itemMoves[i], n \in DOMAIN itemMoves[j] :
        itemMoves[i][m] = itemMoves[j][n] => m = n

\* Owner -> admin -> operator: every key with a role belongs to a registered organization,
\* and an operator key was added by a key that is an admin of the same organization.
TrustChain ==
    \A k \in Keys :
        /\ role[k] # "None" => keyOrg[k] \in Orgs /\ organizationExists[keyOrg[k]]
        /\ role[k] = "Operator" =>
              role[registrar[k]] = "Admin" /\ keyOrg[registrar[k]] = keyOrg[k]

\* rejectedReason takes the last ActionRejected log of a rejected action: it is the reason
\* that spent the id, while the logs of an applied or undecided action only ever report
\* an unverified signer.
RejectReasonReadable ==
    \A a \in ActionIds :
        LET log == rejectLog[a]
        IN  IF actionState[a] = "Rejected"
            THEN log # <<>> /\ log[Len(log)] \notin SignerReasons
            ELSE \A n \in DOMAIN log : log[n] \in SignerReasons

KeepsDecisions ==
    \A a \in ActionIds :
        /\ actionState[a] # "None" => actionState'[a] = actionState[a]
        /\ keyActionState[a] # "None" => keyActionState'[a] = keyActionState[a]

\* actionState is written once per id in each contract: a replayed envelope, or another
\* envelope with a used id, changes nothing.
DecisionFinal == [][KeepsDecisions]_vars

KeepsKeys ==
    \A k \in Keys : role[k] # "None" =>
        /\ role'[k] = role[k]
        /\ keyOrg'[k] = keyOrg[k]
        /\ ~active[k] => ~active'[k]

\* Revocation is final and a key never changes role or organization, whoever asks: the
\* owner, an admin of the organization or an admin of another one.
RevocationFinal == [][KeepsKeys]_vars

SignedMove ==
    itemStatus' # itemStatus =>
        \E a \in Envelopes :
            /\ a.sig /\ role[a.key] # "None" /\ active[a.key]
            /\ \A i \in Items :
                  itemStatus'[i] = IF i \in ItemsOf(a) THEN itemStatus[i] + 1 ELSE itemStatus[i]

\* Item status only changes by a signed action of a key that is active at that moment,
\* which moves all of its items by one stage and no other item.
MovesAreSigned == [][SignedMove]_vars
=============================================================================
