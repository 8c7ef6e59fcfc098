------------------------- MODULE SignedLedgerProofs -------------------------
(***************************************************************************)
(* Proofs about the contracts of SignedLedger, for every set of items,     *)
(* organizations, keys, action ids and envelopes.                          *)
(***************************************************************************)
EXTENDS SignedLedger, TLAPS

-----------------------------------------------------------------------------
(* What the checks of the contracts return *)

\* verifySigner accepts, or gives one of the reasons that leave the action id free; it
\* accepts only a known, active key with a verified signature.
LEMMA VerifySignerReason ==
    ASSUME NEW k, NEW sig \in BOOLEAN
    PROVE  /\ VerifySigner(k, sig) \in SignerReasons \union {"None"}
           /\ VerifySigner(k, sig) = "None" <=> role[k] # "None" /\ active[k] /\ sig
BY DEF VerifySigner, SignerReasons

\* _checkItems accepts only items that all have the status the transition starts from,
\* and its reasons are never those of an unverified signer.
LEMMA CheckItemsReason ==
    ASSUME NEW ids \in Seq(Items), NEW from
    PROVE  /\ CheckItems(ids, from) \in
                {"None", "EmptyItems", "ItemsNotAscending", "WrongItemStatus"}
           /\ CheckItems(ids, from) = "None" =>
                \A i \in DOMAIN ids : itemStatus[ids[i]] = from
BY Z3 DEF CheckItems

\* The same for a whole action.
LEMMA ActionReasonFacts ==
    ASSUME NEW a \in Envelopes
    PROVE  /\ ActionReason(a) \in Reasons \ SignerReasons
           /\ ActionReason(a) = "None" =>
                /\ a.type \in WarehouseTypes
                /\ FromStatus(a.type) \in 0..3
                /\ \A i \in ItemsOf(a) : itemStatus[i] = FromStatus(a.type)
<1>1. a.items \in Seq(Items)
  BY LedgerAssumption
<1>2. CASE a.type \in WarehouseTypes
  <2>1. FromStatus(a.type) \in 0..3
    BY <1>2 DEF FromStatus, WarehouseTypes
  <2>2. ActionReason(a) = CheckItems(a.items, FromStatus(a.type))
    BY <1>2 DEF ActionReason
  <2>3. QED
    BY <1>1, <1>2, <2>1, <2>2, CheckItemsReason DEF Reasons, SignerReasons, ItemsOf
<1>3. CASE a.type \notin WarehouseTypes
  BY <1>3 DEF ActionReason, Reasons, SignerReasons
<1>4. QED
  BY <1>2, <1>3

-----------------------------------------------------------------------------
(* Type correctness *)

\* Every call and every action of a batch keeps the types of the contracts' storage.
THEOREM TypeCorrect == Spec => []TypeOK
<1>1. Init => TypeOK
  BY LedgerAssumption DEF Init, TypeOK, Roles, ActionStates, Statuses
<1>2. TypeOK /\ [Next]_vars => TypeOK'
  <2> SUFFICES ASSUME TypeOK, [Next]_vars PROVE TypeOK'
    OBVIOUS
  <2>1. ASSUME NEW o \in Orgs, NEW k \in Keys, RegisterOrganization(o, k) PROVE TypeOK'
    BY <2>1 DEF TypeOK, RegisterOrganization, RegisterAdmin, AddKey, mappingVars, Roles
  <2>2. ASSUME NEW o \in Orgs, NEW k \in Keys, RegisterAdminKey(o, k) PROVE TypeOK'
    BY <2>2 DEF TypeOK, RegisterAdminKey, RegisterAdmin, AddKey, mappingVars, Roles
  <2>3. ASSUME NEW k \in Keys, OwnerRevokeKey(k) PROVE TypeOK'
    BY <2>3 DEF TypeOK, OwnerRevokeKey, mappingVars
  <2>4. ASSUME NEW a \in KeyEnvelopes, ApplyKeyAction(a) PROVE TypeOK'
    <3>1. a.id \in ActionIds /\ a.target \in Keys /\ a.key \in Keys
      BY LedgerAssumption
    <3>2. keyActionState' \in [ActionIds -> ActionStates]
      BY <2>4, <3>1 DEF ApplyKeyAction, TypeOK, ActionStates
    <3>3. /\ role' \in [Keys -> Roles] /\ keyOrg' \in [Keys -> Orgs \union {NoOrg}]
          /\ active' \in [Keys -> BOOLEAN] /\ registrar' \in [Keys -> Keys]
      <4>1. CASE KeyActionReason(a) = "None" /\ a.type = "KeyRegister"
        <5>1. /\ role' = [role EXCEPT ![a.target] = "Operator"]
              /\ keyOrg' = [keyOrg EXCEPT ![a.target] = keyOrg[a.key]]
              /\ active' = [active EXCEPT ![a.target] = TRUE]
              /\ registrar' = [registrar EXCEPT ![a.target] = a.key]
          BY <2>4, <4>1 DEF ApplyKeyAction, KeyActionEffect, AddKey
        <5>2. QED
          BY <3>1, <5>1 DEF TypeOK, Roles
      <4>2. CASE KeyActionReason(a) = "None" /\ a.type # "KeyRegister"
        BY <2>4, <3>1, <4>2 DEF ApplyKeyAction, KeyActionEffect, TypeOK
      <4>3. CASE KeyActionReason(a) # "None"
        BY <2>4, <4>3 DEF ApplyKeyAction, TypeOK
      <4>4. QED
        BY <4>1, <4>2, <4>3
    <3>4. QED
      BY <2>4, <3>2, <3>3 DEF ApplyKeyAction, mappingVars, TypeOK
  <2>5. ASSUME NEW a \in Envelopes, ApplyAction(a) PROVE TypeOK'
    <3>1. a.id \in ActionIds
      BY LedgerAssumption
    <3>2. actionState' \in [ActionIds -> ActionStates]
      BY <2>5, <3>1, ZenonT(40) DEF ApplyAction, TypeOK, ActionStates
    <3>3. CASE ActionReason(a) = "None"
      <4>1. FromStatus(a.type) + 1 \in Statuses
        <5>1. FromStatus(a.type) \in 0..3
          BY <3>3, ActionReasonFacts
        <5>2. QED
          BY <5>1 DEF Statuses
      <4>2. itemStatus' \in [Items -> Statuses] /\ itemMoves' \in [Items -> Seq(ActionIds)]
        <5>1. \A i \in Items : Append(itemMoves[i], a.id) \in Seq(ActionIds)
          BY <3>1 DEF TypeOK
        <5>2. MoveItems(a)
          BY <2>5, <3>3 DEF ApplyAction
        <5>3. QED
          BY <4>1, <5>1, <5>2 DEF MoveItems, TypeOK
      <4>3. QED
        BY <2>5, <3>2, <3>3, <4>2 DEF ApplyAction, registryVars, TypeOK
    <3>4. CASE ActionReason(a) # "None"
      <4>1. ActionReason(a) \in Reasons
        BY ActionReasonFacts
      <4>2. rejectLog' \in [ActionIds -> Seq(Reasons)]
        <5>1. Append(rejectLog[a.id], ActionReason(a)) \in Seq(Reasons)
          BY <3>1, <4>1 DEF TypeOK
        <5>2. LogReject(a, ActionReason(a))
          BY <2>5, <3>4 DEF ApplyAction
        <5>3. QED
          BY <3>1, <5>1, <5>2 DEF LogReject, TypeOK
      <4>3. QED
        BY <2>5, <3>2, <3>4, <4>2 DEF ApplyAction, registryVars, TypeOK
    <3>5. QED
      BY <3>3, <3>4
  <2>6. ASSUME NEW a \in Envelopes, RejectSigner(a) PROVE TypeOK'
    <3>1. a.id \in ActionIds /\ a.sig \in BOOLEAN
      BY LedgerAssumption
    <3>2. VerifySigner(a.key, a.sig) \in Reasons
      BY <3>1, VerifySignerReason DEF Reasons, SignerReasons
    <3>3. QED
      BY <2>6, <3>1, <3>2 DEF TypeOK, RejectSigner, LogReject, registryVars
  <2>7. CASE UNCHANGED vars
    BY <2>7 DEF TypeOK, vars, registryVars, mappingVars
  <2>8. QED
    BY <2>1, <2>2, <2>3, <2>4, <2>5, <2>6, <2>7 DEF Next
<1>3. QED
  BY <1>1, <1>2, PTL DEF Spec

-----------------------------------------------------------------------------
(* The history of items *)

\* The part of ItemHistory and OneStagePerAction one applied action preserves.
LEMMA MoveKeepsHistory ==
    ASSUME TypeOK, ItemHistory, OneStagePerAction,
           NEW a \in Envelopes, ApplyAction(a), ActionReason(a) = "None"
    PROVE  ItemHistory' /\ OneStagePerAction'
<1>1. a.id \in ActionIds
  BY LedgerAssumption
<1> DEFINE from == FromStatus(a.type)
<1>2. from \in 0..3 /\ \A i \in ItemsOf(a) : itemStatus[i] = from
  BY ActionReasonFacts
<1>3. actionState[a.id] = "None" /\ actionState' = [actionState EXCEPT ![a.id] = "Applied"]
  BY DEF ApplyAction
<1>4. /\ itemStatus' = [i \in Items |-> IF i \in ItemsOf(a) THEN from + 1 ELSE itemStatus[i]]
      /\ itemMoves' = [i \in Items |->
            IF i \in ItemsOf(a) THEN Append(itemMoves[i], a.id) ELSE itemMoves[i]]
  BY DEF ApplyAction, MoveItems
<1> HIDE DEF from
<1>5. ASSUME NEW i \in Items PROVE
        /\ itemMoves[i] \in Seq(ActionIds) /\ Len(itemMoves[i]) = itemStatus[i]
        /\ \A m \in DOMAIN itemMoves[i] : itemMoves[i][m] # a.id
  BY <1>3 DEF TypeOK, ItemHistory
<1>6. ASSUME NEW i \in Items, i \notin ItemsOf(a) PROVE
        itemMoves'[i] = itemMoves[i] /\ itemStatus'[i] = itemStatus[i]
  BY <1>4, <1>6
<1>7. ASSUME NEW i \in Items, i \in ItemsOf(a) PROVE
        /\ itemStatus'[i] = from + 1 /\ Len(itemMoves'[i]) = from + 1
        /\ itemMoves'[i][from + 1] = a.id
        /\ DOMAIN itemMoves'[i] = 1..(from + 1) /\ DOMAIN itemMoves[i] = 1..from
        /\ \A m \in 1..from : itemMoves'[i][m] = itemMoves[i][m]
  BY <1>1, <1>2, <1>4, <1>5, <1>7
<1>8. ItemHistory'
  <2> SUFFICES ASSUME NEW i \in Items PROVE
        /\ Len(itemMoves'[i]) = itemStatus'[i]
        /\ \A m \in DOMAIN itemMoves'[i] : actionState'[itemMoves'[i][m]] = "Applied"
        /\ \A m, n \in DOMAIN itemMoves'[i] : itemMoves'[i][m] = itemMoves'[i][n] => m = n
    BY DEF ItemHistory
  <2>1. actionState \in [ActionIds -> ActionStates]
    BY DEF TypeOK
  <2>2. CASE i \notin ItemsOf(a)
    BY <1>3, <1>5, <1>6, <2>1, <2>2 DEF ItemHistory
  <2>3. CASE i \in ItemsOf(a)
    BY <1>1, <1>2, <1>3, <1>5, <1>7, <2>1, <2>3 DEF ItemHistory
  <2>4. QED
    BY <2>2, <2>3
<1>9. OneStagePerAction'
  <2> SUFFICES ASSUME NEW i \in Items, NEW j \in Items,
                      NEW m \in DOMAIN itemMoves'[i], NEW n \in DOMAIN itemMoves'[j],
                      itemMoves'[i][m] = itemMoves'[j][n]
               PROVE  m = n
    BY DEF OneStagePerAction
  <2>1. CASE i \notin ItemsOf(a) /\ j \notin ItemsOf(a)
    BY <1>6, <2>1 DEF OneStagePerAction
  <2>2. CASE i \in ItemsOf(a) /\ j \notin ItemsOf(a)
    BY <1>2, <1>5, <1>6, <1>7, <2>2 DEF OneStagePerAction
  <2>3. CASE i \notin ItemsOf(a) /\ j \in ItemsOf(a)
    BY <1>2, <1>5, <1>6, <1>7, <2>3 DEF OneStagePerAction
  <2>4. CASE i \in ItemsOf(a) /\ j \in ItemsOf(a)
    BY <1>2, <1>5, <1>7, <2>4 DEF OneStagePerAction
  <2>5. QED
    BY <2>1, <2>2, <2>3, <2>4
<1>10. QED
  BY <1>8, <1>9

\* Every other step leaves the logs of items alone and only turns an undecided action
\* into a rejected one.
LEMMA OtherStepsKeepHistory ==
    ASSUME TypeOK, [Next]_vars,
           ~ \E a \in Envelopes : ApplyAction(a) /\ ActionReason(a) = "None"
    PROVE  /\ itemMoves' = itemMoves /\ itemStatus' = itemStatus
           /\ \A x \in ActionIds : actionState[x] = "Applied" => actionState'[x] = "Applied"
<1>1. ASSUME NEW o \in Orgs, NEW k \in Keys,
             RegisterOrganization(o, k) \/ RegisterAdminKey(o, k) PROVE UNCHANGED mappingVars
  BY <1>1 DEF RegisterOrganization, RegisterAdminKey, RegisterAdmin
<1>2. ASSUME NEW k \in Keys, OwnerRevokeKey(k) PROVE UNCHANGED mappingVars
  BY <1>2 DEF OwnerRevokeKey
<1>3. ASSUME NEW a \in KeyEnvelopes, ApplyKeyAction(a) PROVE UNCHANGED mappingVars
  BY <1>3 DEF ApplyKeyAction
<1>4. ASSUME NEW a \in Envelopes, ApplyAction(a) PROVE
        /\ itemMoves' = itemMoves /\ itemStatus' = itemStatus
        /\ \A x \in ActionIds : actionState[x] = "Applied" => actionState'[x] = "Applied"
  BY <1>4, LedgerAssumption DEF ApplyAction, TypeOK
<1>5. ASSUME NEW a \in Envelopes, RejectSigner(a) PROVE
        itemMoves' = itemMoves /\ itemStatus' = itemStatus /\ actionState' = actionState
  BY <1>5 DEF RejectSigner
<1>6. QED
  BY <1>1, <1>2, <1>3, <1>4, <1>5 DEF Next, vars, mappingVars

\* The two audit invariants hold together: an item's ItemMoved logs are its status, all
\* of applied actions, and an action moves its items at one stage only.
THEOREM HistoryCorrect == Spec => []ItemHistory /\ []OneStagePerAction
<1> DEFINE Inv == ItemHistory /\ OneStagePerAction
<1>1. Init => Inv
  BY DEF Init, ItemHistory, OneStagePerAction
<1>2. TypeOK /\ Inv /\ [Next]_vars => Inv'
  <2> SUFFICES ASSUME TypeOK, Inv, [Next]_vars PROVE Inv'
    OBVIOUS
  <2>1. CASE \E a \in Envelopes : ApplyAction(a) /\ ActionReason(a) = "None"
    BY <2>1, MoveKeepsHistory
  <2>2. CASE ~ \E a \in Envelopes : ApplyAction(a) /\ ActionReason(a) = "None"
    <3>1. /\ itemMoves' = itemMoves /\ itemStatus' = itemStatus
          /\ \A x \in ActionIds : actionState[x] = "Applied" => actionState'[x] = "Applied"
      BY <2>2, OtherStepsKeepHistory
    <3>2. OneStagePerAction'
      BY <3>1 DEF OneStagePerAction
    <3>3. \A i \in Items : \A m \in DOMAIN itemMoves[i] : itemMoves[i][m] \in ActionIds
      BY DEF TypeOK
    <3>4. ItemHistory'
      BY <3>1, <3>3 DEF ItemHistory
    <3>5. QED
      BY <3>2, <3>4
  <2>3. QED
    BY <2>1, <2>2
<1>3. QED
  BY <1>1, <1>2, TypeCorrect, PTL DEF Spec

-----------------------------------------------------------------------------
(* Keys and decisions *)

\* A key that has a role keeps it, its organization and its revocation in every step; a
\* key that gets one is an admin of a registered organization or an operator that an
\* admin of the organization registered. Registrars only change with it.
LEMMA KeyStep ==
    ASSUME TypeOK, TrustChain, [Next]_vars, NEW k \in Keys
    PROVE  /\ role[k] # "None" => /\ role'[k] = role[k] /\ keyOrg'[k] = keyOrg[k]
                                  /\ registrar'[k] = registrar[k]
                                  /\ ~active[k] => ~active'[k]
           /\ role[k] = "None" /\ role'[k] # "None" =>
                /\ keyOrg'[k] \in Orgs /\ organizationExists'[keyOrg'[k]]
                /\ role'[k] = "Operator" =>
                     /\ registrar'[k] # k /\ registrar'[k] \in Keys
                     /\ role[registrar'[k]] = "Admin"
                     /\ keyOrg[registrar'[k]] = keyOrg'[k]
           /\ \A o \in Orgs : organizationExists[o] => organizationExists'[o]
<1> DEFINE Goal ==
           /\ role[k] # "None" => /\ role'[k] = role[k] /\ keyOrg'[k] = keyOrg[k]
                                  /\ registrar'[k] = registrar[k]
                                  /\ ~active[k] => ~active'[k]
           /\ role[k] = "None" /\ role'[k] # "None" =>
                /\ keyOrg'[k] \in Orgs /\ organizationExists'[keyOrg'[k]]
                /\ role'[k] = "Operator" =>
                     /\ registrar'[k] # k /\ registrar'[k] \in Keys
                     /\ role[registrar'[k]] = "Admin"
                     /\ keyOrg[registrar'[k]] = keyOrg'[k]
           /\ \A o \in Orgs : organizationExists[o] => organizationExists'[o]
<1>1. ASSUME NEW o \in Orgs, NEW l \in Keys, RegisterOrganization(o, l) PROVE Goal
  BY <1>1 DEF RegisterOrganization, RegisterAdmin, AddKey, TypeOK
<1>2. ASSUME NEW o \in Orgs, NEW l \in Keys, RegisterAdminKey(o, l) PROVE Goal
  BY <1>2 DEF RegisterAdminKey, RegisterAdmin, AddKey, TypeOK
<1>3. ASSUME NEW l \in Keys, OwnerRevokeKey(l) PROVE Goal
  BY <1>3 DEF OwnerRevokeKey, TypeOK
<1>4. ASSUME NEW a \in KeyEnvelopes, ApplyKeyAction(a) PROVE Goal
  <2>1. a.target \in Keys /\ a.key \in Keys
    BY LedgerAssumption
  <2>2. CASE KeyActionReason(a) = "None" /\ a.type = "KeyRegister"
    <3>1. role[a.key] = "Admin" /\ role[a.target] = "None"
      BY <2>2 DEF KeyActionReason
    <3>2. keyOrg[a.key] \in Orgs /\ organizationExists[keyOrg[a.key]]
      BY <2>1, <3>1 DEF TrustChain
    <3>3. /\ role' = [role EXCEPT ![a.target] = "Operator"]
          /\ keyOrg' = [keyOrg EXCEPT ![a.target] = keyOrg[a.key]]
          /\ active' = [active EXCEPT ![a.target] = TRUE]
          /\ registrar' = [registrar EXCEPT ![a.target] = a.key]
          /\ organizationExists' = organizationExists
      BY <1>4, <2>2 DEF ApplyKeyAction, KeyActionEffect, AddKey
    <3>4. QED
      BY <2>1, <3>1, <3>2, <3>3 DEF TypeOK
  <2>3. CASE KeyActionReason(a) = "None" /\ a.type # "KeyRegister"
    BY <1>4, <2>1, <2>3 DEF ApplyKeyAction, KeyActionEffect, TypeOK
  <2>4. CASE KeyActionReason(a) # "None"
    BY <1>4, <2>4 DEF ApplyKeyAction, TypeOK
  <2>5. QED
    BY <2>2, <2>3, <2>4
<1>5. CASE UNCHANGED registryVars
  BY <1>5 DEF registryVars
<1>6. ASSUME NEW a \in Envelopes, ApplyAction(a) \/ RejectSigner(a) PROVE UNCHANGED registryVars
  BY <1>6 DEF ApplyAction, RejectSigner
<1>7. QED
  BY <1>1, <1>2, <1>3, <1>4, <1>5, <1>6 DEF Next, vars

\* The chain of trust holds in every reachable state of the registry.
THEOREM TrustChainCorrect == Spec => []TrustChain
<1>1. Init => TrustChain
  BY DEF Init, TrustChain
<1>2. TypeOK /\ TrustChain /\ [Next]_vars => TrustChain'
  <2> SUFFICES ASSUME TypeOK, TrustChain, [Next]_vars, NEW k \in Keys
               PROVE  /\ role'[k] # "None" =>
                           keyOrg'[k] \in Orgs /\ organizationExists'[keyOrg'[k]]
                      /\ role'[k] = "Operator" =>
                           /\ role'[registrar'[k]] = "Admin"
                           /\ keyOrg'[registrar'[k]] = keyOrg'[k]
    BY DEF TrustChain
  <2>1. CASE role[k] # "None"
    <3>1. /\ role'[k] = role[k] /\ keyOrg'[k] = keyOrg[k] /\ registrar'[k] = registrar[k]
          /\ \A o \in Orgs : organizationExists[o] => organizationExists'[o]
      BY <2>1, KeyStep
    <3>2. keyOrg[k] \in Orgs /\ organizationExists[keyOrg[k]]
      BY <2>1 DEF TrustChain
    <3>3. registrar[k] \in Keys
      BY DEF TypeOK
    <3>4. role[k] = "Operator" => /\ role'[registrar[k]] = "Admin"
                                  /\ keyOrg'[registrar[k]] = keyOrg[k]
      <4>1. SUFFICES ASSUME role[k] = "Operator" PROVE /\ role'[registrar[k]] = "Admin"
                                                       /\ keyOrg'[registrar[k]] = keyOrg[k]
        OBVIOUS
      <4>2. role[registrar[k]] = "Admin" /\ keyOrg[registrar[k]] = keyOrg[k]
        BY <4>1 DEF TrustChain
      <4>3. QED
        BY <3>3, <4>2, KeyStep
    <3>5. QED
      BY <3>1, <3>2, <3>4
  <2>2. CASE role[k] = "None" /\ role'[k] # "None"
    <3>1. /\ keyOrg'[k] \in Orgs /\ organizationExists'[keyOrg'[k]]
          /\ role'[k] = "Operator" =>
               /\ registrar'[k] \in Keys
               /\ role[registrar'[k]] = "Admin" /\ keyOrg[registrar'[k]] = keyOrg'[k]
      BY <2>2, KeyStep
    <3>2. \A l \in Keys : role[l] = "Admin" => role'[l] = "Admin" /\ keyOrg'[l] = keyOrg[l]
      BY KeyStep
    <3>3. QED
      BY <3>1, <3>2
  <2>3. CASE role[k] = "None" /\ role'[k] = "None"
    BY <2>3
  <2>4. QED
    BY <2>1, <2>2, <2>3
<1>3. QED
  BY <1>1, <1>2, TypeCorrect, PTL DEF Spec

\* No call and no key action brings a revoked key back, or moves a key to another role or
\* organization.
THEOREM RevocationIsFinal == Spec => RevocationFinal
<1>1. TypeOK /\ TrustChain /\ [Next]_vars => KeepsKeys
  <2> SUFFICES ASSUME TypeOK, TrustChain, [Next]_vars PROVE KeepsKeys
    OBVIOUS
  <2>1. QED
    BY KeyStep DEF KeepsKeys
<1>2. QED
  BY <1>1, TypeCorrect, TrustChainCorrect, PTL DEF Spec, RevocationFinal

\* In both contracts a decided action id stays decided the same way.
THEOREM DecisionIsFinal == Spec => DecisionFinal
<1>1. TypeOK /\ [Next]_vars => KeepsDecisions
  <2> SUFFICES ASSUME TypeOK, [Next]_vars PROVE KeepsDecisions
    OBVIOUS
  <2>1. ASSUME NEW o \in Orgs, NEW k \in Keys,
               RegisterOrganization(o, k) \/ RegisterAdminKey(o, k)
        PROVE  keyActionState' = keyActionState /\ actionState' = actionState
    BY <2>1 DEF RegisterOrganization, RegisterAdminKey, RegisterAdmin, mappingVars
  <2>2. ASSUME NEW k \in Keys, OwnerRevokeKey(k)
        PROVE  keyActionState' = keyActionState /\ actionState' = actionState
    BY <2>2 DEF OwnerRevokeKey, mappingVars
  <2>3. ASSUME NEW a \in KeyEnvelopes, ApplyKeyAction(a) PROVE KeepsDecisions
    <3>1. keyActionState[a.id] = "None" /\ actionState' = actionState
      BY <2>3 DEF ApplyKeyAction, mappingVars
    <3>2. \E d \in ActionStates : keyActionState' = [keyActionState EXCEPT ![a.id] = d]
      BY <2>3 DEF ApplyKeyAction, ActionStates
    <3>3. QED
      BY <3>1, <3>2 DEF KeepsDecisions, TypeOK
  <2>4. ASSUME NEW a \in Envelopes, ApplyAction(a) PROVE KeepsDecisions
    <3>1. actionState[a.id] = "None" /\ keyActionState' = keyActionState
      BY <2>4 DEF ApplyAction, registryVars
    <3>2. \E d \in ActionStates : actionState' = [actionState EXCEPT ![a.id] = d]
      BY <2>4 DEF ApplyAction, ActionStates
    <3>3. QED
      BY <3>1, <3>2 DEF KeepsDecisions, TypeOK
  <2>5. ASSUME NEW a \in Envelopes, RejectSigner(a)
        PROVE  keyActionState' = keyActionState /\ actionState' = actionState
    BY <2>5 DEF RejectSigner, registryVars
  <2>6. CASE UNCHANGED vars
    BY <2>6 DEF vars, registryVars, mappingVars, KeepsDecisions
  <2>7. QED
    BY <2>1, <2>2, <2>3, <2>4, <2>5, <2>6 DEF Next, KeepsDecisions
<1>2. QED
  BY <1>1, TypeCorrect, PTL DEF Spec, DecisionFinal

\* No item moves without a verified signature of a key that is active in that very state.
THEOREM MovesNeedSignature == Spec => MovesAreSigned
<1>1. TypeOK /\ [Next]_vars => SignedMove
  <2> SUFFICES ASSUME TypeOK, [Next]_vars, itemStatus' # itemStatus PROVE SignedMove
    BY DEF SignedMove
  <2>1. PICK a \in Envelopes : ApplyAction(a) /\ ActionReason(a) = "None"
    BY OtherStepsKeepHistory
  <2>2. a.sig \in BOOLEAN
    BY LedgerAssumption
  <2>3. a.sig /\ role[a.key] # "None" /\ active[a.key]
    BY <2>1, <2>2, VerifySignerReason DEF ApplyAction
  <2>4. \A i \in ItemsOf(a) : itemStatus[i] = FromStatus(a.type)
    BY <2>1, ActionReasonFacts
  <2>5. itemStatus' = [i \in Items |->
            IF i \in ItemsOf(a) THEN FromStatus(a.type) + 1 ELSE itemStatus[i]]
    BY <2>1 DEF ApplyAction, MoveItems
  <2>6. \A i \in Items :
            itemStatus'[i] = IF i \in ItemsOf(a) THEN itemStatus[i] + 1 ELSE itemStatus[i]
    BY <2>4, <2>5
  <2>7. QED
    BY <2>3, <2>6 DEF SignedMove
<1>2. QED
  BY <1>1, TypeCorrect, PTL DEF Spec, MovesAreSigned

\* rejectedReason reads the reason that spent the id: the last ActionRejected log of a
\* rejected action is never a signer reason, and all logs of the others are.
THEOREM RejectReasonIsReadable == Spec => []RejectReasonReadable
<1>1. Init => RejectReasonReadable
  BY DEF Init, RejectReasonReadable
<1>2. TypeOK /\ RejectReasonReadable /\ [Next]_vars => RejectReasonReadable'
  <2> SUFFICES ASSUME TypeOK, RejectReasonReadable, [Next]_vars PROVE RejectReasonReadable'
    OBVIOUS
  <2>1. CASE actionState' = actionState /\ rejectLog' = rejectLog
    BY <2>1 DEF RejectReasonReadable
  <2>2. ASSUME NEW a \in Envelopes, ApplyAction(a), ActionReason(a) = "None"
        PROVE  RejectReasonReadable'
    <3>1. a.id \in ActionIds
      BY LedgerAssumption
    <3>2. /\ actionState[a.id] = "None" /\ rejectLog' = rejectLog
          /\ actionState' = [actionState EXCEPT ![a.id] = "Applied"]
      BY <2>2 DEF ApplyAction
    <3>3. QED
      BY <3>1, <3>2 DEF RejectReasonReadable, TypeOK
  <2>3. ASSUME NEW a \in Envelopes, NEW r \in Reasons, a.id \in ActionIds,
               rejectLog' = [rejectLog EXCEPT ![a.id] = Append(@, r)],
               \/ r \notin SignerReasons /\ actionState' = [actionState EXCEPT ![a.id] = "Rejected"]
               \/ r \in SignerReasons /\ actionState' = actionState /\ actionState[a.id] = "None"
        PROVE  RejectReasonReadable'
    <3> SUFFICES ASSUME NEW x \in ActionIds PROVE
          IF actionState'[x] = "Rejected"
          THEN rejectLog'[x] # <<>> /\ rejectLog'[x][Len(rejectLog'[x])] \notin SignerReasons
          ELSE \A n \in DOMAIN rejectLog'[x] : rejectLog'[x][n] \in SignerReasons
      BY DEF RejectReasonReadable
    <3>1. CASE x # a.id
      BY <2>3, <3>1 DEF RejectReasonReadable, TypeOK
    <3>2. CASE x = a.id
      <4>1. rejectLog'[x] = Append(rejectLog[x], r) /\ rejectLog[x] \in Seq(Reasons)
        BY <2>3, <3>2 DEF TypeOK
      <4>2. CASE r \notin SignerReasons
        <5>1. actionState'[x] = "Rejected"
          BY <2>3, <3>2, <4>2 DEF TypeOK
        <5>2. Len(rejectLog'[x]) = Len(rejectLog[x]) + 1 /\ Len(rejectLog[x]) \in Nat
          BY <4>1
        <5>3. rejectLog'[x] # <<>> /\ rejectLog'[x][Len(rejectLog'[x])] = r
          BY <4>1, <5>2
        <5>4. QED
          BY <4>2, <5>1, <5>3
      <4>3. CASE r \in SignerReasons
        <5>1. actionState'[x] # "Rejected"
          BY <2>3, <3>2, <4>3
        <5>2. \A n \in DOMAIN rejectLog[x] : rejectLog[x][n] \in SignerReasons
          BY <2>3, <3>2, <4>3 DEF RejectReasonReadable
        <5>3. QED
          BY <4>1, <4>3, <5>1, <5>2
      <4>4. QED
        BY <4>2, <4>3
    <3>3. QED
      BY <3>1, <3>2
  <2>4. ASSUME NEW a \in Envelopes, ApplyAction(a), ActionReason(a) # "None"
        PROVE  RejectReasonReadable'
    <3>1. a.id \in ActionIds /\ ActionReason(a) \in Reasons \ SignerReasons
      BY LedgerAssumption, ActionReasonFacts
    <3>2. /\ rejectLog' = [rejectLog EXCEPT ![a.id] = Append(@, ActionReason(a))]
          /\ actionState' = [actionState EXCEPT ![a.id] = "Rejected"]
      BY <2>4 DEF ApplyAction, LogReject
    <3>3. QED
      BY <2>3, <3>1, <3>2
  <2>5. ASSUME NEW a \in Envelopes, RejectSigner(a) PROVE RejectReasonReadable'
    <3>1. a.id \in ActionIds /\ a.sig \in BOOLEAN
      BY LedgerAssumption
    <3>2. VerifySigner(a.key, a.sig) \in SignerReasons
      BY <2>5, <3>1, VerifySignerReason DEF RejectSigner
    <3>3. /\ rejectLog' = [rejectLog EXCEPT ![a.id] = Append(@, VerifySigner(a.key, a.sig))]
          /\ actionState' = actionState /\ actionState[a.id] = "None"
      BY <2>5 DEF RejectSigner, LogReject
    <3>4. QED
      BY <2>3, <3>1, <3>2, <3>3 DEF Reasons
  <2>6. ASSUME NEW o \in Orgs, NEW k \in Keys,
               RegisterOrganization(o, k) \/ RegisterAdminKey(o, k)
        PROVE  actionState' = actionState /\ rejectLog' = rejectLog
    BY <2>6 DEF RegisterOrganization, RegisterAdminKey, RegisterAdmin, mappingVars
  <2>7. ASSUME NEW a \in KeyEnvelopes, ApplyKeyAction(a)
        PROVE  actionState' = actionState /\ rejectLog' = rejectLog
    BY <2>7 DEF ApplyKeyAction, mappingVars
  <2>8. ASSUME NEW k \in Keys, OwnerRevokeKey(k)
        PROVE  actionState' = actionState /\ rejectLog' = rejectLog
    BY <2>8 DEF OwnerRevokeKey, mappingVars
  <2>9. QED
    BY <2>1, <2>2, <2>4, <2>5, <2>6, <2>7, <2>8 DEF Next, vars, mappingVars
<1>3. QED
  BY <1>1, <1>2, TypeCorrect, PTL DEF Spec
=============================================================================
