------------------------- MODULE KeyLifecycleProofs -------------------------
(***************************************************************************)
(* Proofs about KeyLifecycle, for any number of users, keys, actions,      *)
(* operations and concurrent requests: the row locks of SubmitKeyAction    *)
(* and LockSigner keep every operation of a key in front of its            *)
(* revocation, and every draft reaches the outbox at most once; a status   *)
(* is never ahead of the registry, so the contract applies every operation *)
(* the WMS accepts; and without slow transactions a key has one action in  *)
(* flight at a time, and a rejected key never gets into the registry.      *)
(***************************************************************************)
EXTENDS KeyLifecycle, FiniteSetTheorems, TLAPS

\* The requests that refresh a status, and the statements of an operation's transaction.
Refreshing == {"view", "draftKey", "reject", "draftOp", "submitOp"}
OpTxPcs == {"lockOp", "lockSigner", "checkRevoke", "commitOp"}
LockPcs == {"lockTarget", "commitKey", "lockSigner", "checkRevoke", "commitOp"}

\* What a request q remembers agrees with the rows it was read from.
LinkOK(q, actions, operations) ==
    /\ q.pc \in {"read", "write"} => q.cred \in Creds /\ q.goal \in Refreshing
    /\ q.pc \in {"insertPasskey", "rejectTx"} => q.cred \in Creds
    /\ q.goal = "submitOp" => q.id \in OpIds
    /\ q.goal = "draftKey" \/ q.pc = "insertAction" => q.type \in KeyTypes
    /\ q.pc \in KeyTxPcs =>
          /\ q.id \in KeyIds
          /\ q.stamp > 0
          /\ actions[q.id] # NoAction
          /\ actions[q.id].type = q.type
          /\ actions[q.id].target = q.target
    /\ q.pc \in OpTxPcs =>
          /\ q.id \in OpIds
          /\ q.signer \in Creds
          /\ operations[q.id].signer = q.signer

Links == \A r \in Requests : LinkOK(req[r], keyAction, op)

TypedLinks == TypeOK /\ Links

-----------------------------------------------------------------------------
(* Steps that leave the request without a lock and write neither drafts nor *)
(* the outbox.                                                              *)

Quiet(r) ==
    /\ req'[r] \in Request
    /\ req' = [req EXCEPT ![r] = req'[r]]
    /\ LinkOK(req'[r], keyAction, op)
    /\ req'[r].pc \notin LockPcs
    /\ UNCHANGED <<keyAction, op, outbox, chainVars>>

\* The idle request is a request with no lock and nothing to agree with.
LEMMA IdleRequest == Idle \in Request /\ LinkOK(Idle, keyAction, op) /\ Idle.pc \notin LockPcs
BY DEF Idle, Request, LinkOK, LockPcs, Goals, Pcs, Statuses, Live, KeyTxPcs, OpTxPcs, Ids

\* The latest passkey is a credential or none.
LEMMA LatestPasskeyType == ASSUME NEW u PROVE LatestPasskey(u) \in Creds \union {NoCred}
BY DEF LatestPasskey

\* A request that loads a row goes on to ask the registry about that key, or ends.
LEMMA LoadedRequest ==
    ASSUME TypeOK, NEW q \in Request, NEW c \in Creds \union {NoCred},
           q.goal \in Refreshing, q.goal = "submitOp" => q.id \in OpIds,
           q.goal = "draftKey" => q.type \in KeyTypes
    PROVE  /\ Loaded(q, c) \in Request
           /\ LinkOK(Loaded(q, c), keyAction, op)
           /\ Loaded(q, c).pc \notin LockPcs
<1>1. CASE Loaded(q, c) = Idle
  BY <1>1, IdleRequest
<1>2. CASE Loaded(q, c) # Idle
  <2>1. /\ c \in Creds
        /\ Loaded(q, c) = [q EXCEPT !.pc = "read", !.cred = c, !.status = passkey[c], !.seen = "None"]
    BY <1>2 DEF Loaded
  <2>2. passkey[c] \in Statuses
    BY <2>1 DEF TypeOK
  <2>3. Loaded(q, c) \in Request
    BY <2>1, <2>2 DEF Request, Pcs, Statuses
  <2>4. Loaded(q, c).pc = "read" /\ Loaded(q, c).cred = c /\ Loaded(q, c).goal = q.goal
        /\ Loaded(q, c).id = q.id /\ Loaded(q, c).type = q.type
    BY <2>1 DEF Request
  <2> QED
    BY <2>1, <2>3, <2>4 DEF LinkOK, LockPcs, KeyTxPcs, OpTxPcs
<1> QED
  BY <1>1, <1>2

\* A request whose key is refreshed goes on without a lock.
LEMMA ResumedRequest ==
    ASSUME TypeOK, NEW q \in Request, NEW status,
           q.cred \in Creds, q.goal \in Refreshing, q.goal = "submitOp" => q.id \in OpIds,
           q.goal = "draftKey" => q.type \in KeyTypes
    PROVE  /\ Resume(q, status) \in Request
           /\ LinkOK(Resume(q, status), keyAction, op)
           /\ Resume(q, status).pc \notin LockPcs
<1> DEFINE n == Resume(q, status)
<1>1. CASE n = Idle
  BY <1>1, IdleRequest
<1>2. CASE n # Idle
  <2>1. CASE q.goal = "view"
    BY <1>2, <2>1 DEF Resume
  <2>2. CASE q.goal = "draftKey" /\ q.signer = NoCred
    <3>1. n = Loaded([q EXCEPT !.signer = q.cred], q.target)
      BY <1>2, <2>2 DEF Resume
    <3>2. [q EXCEPT !.signer = q.cred] \in Request
      BY DEF Request
    <3>3. [q EXCEPT !.signer = q.cred].goal = "draftKey" /\ [q EXCEPT !.signer = q.cred].type \in KeyTypes
      BY <2>2 DEF Request
    <3>4. q.target \in Creds \union {NoCred}
      BY DEF Request
    <3> QED
      BY <3>1, <3>2, <3>3, <3>4, LoadedRequest DEF Refreshing
  <2>3. CASE q.goal = "draftKey" /\ q.signer # NoCred
    <3>1. n = [q EXCEPT !.pc = "insertAction", !.cred = NoCred, !.status = "None", !.seen = "None"]
      BY <1>2, <2>3 DEF Resume
    <3>2. n \in Request /\ n.pc = "insertAction" /\ n.goal = "draftKey" /\ n.type = q.type
      BY <2>3, <3>1 DEF Request, Pcs, Statuses
    <3> QED
      BY <2>3, <3>2 DEF LinkOK, LockPcs, KeyTxPcs, OpTxPcs
  <2>4. CASE q.goal = "reject"
    <3>1. n = [q EXCEPT !.pc = "rejectTx", !.status = "None", !.seen = "None"]
      BY <1>2, <2>4 DEF Resume
    <3>2. n \in Request /\ n.pc = "rejectTx" /\ n.goal = "reject" /\ n.cred = q.cred
      BY <2>4, <3>1 DEF Request, Pcs, Statuses
    <3> QED
      BY <3>2 DEF LinkOK, LockPcs, KeyTxPcs, OpTxPcs
  <2>5. CASE q.goal = "draftOp"
    <3>1. n = [Idle EXCEPT !.goal = "draftOp", !.pc = "insertOp", !.signer = q.cred]
      BY <1>2, <2>5 DEF Resume
    <3>2. n \in Request /\ n.pc = "insertOp" /\ n.goal = "draftOp"
      BY <3>1, IdleRequest, ZenonT(40) DEF Request, Pcs, Goals
    <3> QED
      BY <3>2 DEF LinkOK, LockPcs, KeyTxPcs, OpTxPcs
  <2>6. CASE q.goal = "submitOp"
    <3>1. /\ op[q.id].signer = q.cred
          /\ n = [Idle EXCEPT !.goal = "submitOp", !.pc = "lockOp", !.signer = q.cred, !.id = q.id]
      BY <1>2, <2>6 DEF Resume
    <3>2. n \in Request /\ n.pc = "lockOp" /\ n.goal = "submitOp" /\ n.signer = q.cred /\ n.id = q.id
      BY <2>6, <3>1, IdleRequest, ZenonT(40) DEF Request, Pcs, Goals, Idle
    <3> QED
      BY <2>6, <3>1, <3>2 DEF LinkOK, LockPcs, KeyTxPcs, OpTxPcs
  <2> QED
    BY <2>1, <2>2, <2>3, <2>4, <2>5, <2>6 DEF Refreshing
<1> QED
  BY <1>1, <1>2

\* The actions of one request that are quiet.
QuietAction(r) ==
    \/ \E c \in Creds : FinishRegistration(r, c) \/ RejectKey(r, c)
    \/ \E u \in Users : ViewPasskey(r, u) \/ DraftOperation(r, u)
    \/ \E u \in Users, t \in KeyTypes, c \in Creds : DraftKeyAction(r, u, t, c)
    \/ \E a \in KeyIds : SubmitKeyAction(r, a)
    \/ \E o \in OpIds : SubmitOperation(r, o)
    \/ InsertPasskey(r) \/ ReadRegistry(r) \/ RegistryUnavailable(r) \/ UpdatePasskeyStatus(r)
    \/ RejectPendingPasskey(r) \/ Abort(r)

\* A request that goes to n is quiet when n is a request without a lock.
LEMMA GotoQuiet ==
    ASSUME TypeOK, NEW r \in Requests, NEW n \in Request, Goto(r, n),
           LinkOK(n, keyAction, op), n.pc \notin LockPcs,
           UNCHANGED <<keyAction, op, outbox, chainVars>>
    PROVE  Quiet(r)
<1>1. req' = [req EXCEPT ![r] = n]
  BY DEF Goto
<1>2. req'[r] = n
  BY <1>1 DEF TypeOK
<1> QED
  BY <1>1, <1>2 DEF Quiet

\* Every quiet action is quiet, and keeps the passkey rows and sessions well typed.
LEMMA QuietStep ==
    ASSUME TypedLinks, NEW r \in Requests, QuietAction(r)
    PROVE  Quiet(r) /\ passkey' \in [Creds -> Statuses] /\ created' \in Seq(Creds) /\ sessions' \subseteq Users
<1> DEFINE q == req[r]
<1>0. q \in Request /\ LinkOK(q, keyAction, op) /\ TypeOK
  BY DEF TypedLinks, Links, TypeOK
<1>01. passkey \in [Creds -> Statuses] /\ created \in Seq(Creds) /\ sessions \subseteq Users
  BY <1>0 DEF TypeOK
<1>1. ASSUME NEW c \in Creds, FinishRegistration(r, c)
      PROVE  Quiet(r) /\ passkey' = passkey /\ created' = created /\ sessions' \subseteq Users
  <2> DEFINE n == [Idle EXCEPT !.goal = "finish", !.pc = "insertPasskey", !.cred = c]
  <2>1. n \in Request /\ n.pc = "insertPasskey" /\ n.goal = "finish" /\ n.cred = c
    BY IdleRequest DEF Request, Goals, Pcs, Idle
  <2>2. LinkOK(n, keyAction, op) /\ n.pc \notin LockPcs
    BY <2>1 DEF LinkOK, LockPcs, KeyTxPcs, OpTxPcs
  <2>3. Goto(r, n) /\ UNCHANGED <<dbVars, chainVars>> /\ sessions' = sessions \ {Owner[c]}
    BY <1>1 DEF FinishRegistration, Start
  <2>4. Quiet(r)
    BY <2>1, <2>2, <2>3, <1>0, GotoQuiet DEF dbVars
  <2> QED
    BY <2>3, <2>4, <1>01 DEF dbVars
<1>2. ASSUME NEW c \in Creds, RejectKey(r, c)
      PROVE  Quiet(r) /\ UNCHANGED <<passkey, created, sessions>>
  <2> DEFINE i == [Idle EXCEPT !.goal = "reject"]
  <2>1. i \in Request /\ i.goal = "reject"
    BY IdleRequest DEF Request, Goals, Idle
  <2>2. Goto(r, Loaded(i, c)) /\ UNCHANGED <<dbVars, sessions, chainVars>>
    BY <1>2 DEF RejectKey, Start
  <2> HIDE DEF i
  <2> QED
    BY <2>1, <2>2, <1>0, LoadedRequest, GotoQuiet DEF Refreshing, dbVars
<1>3. ASSUME NEW u \in Users, ViewPasskey(r, u)
      PROVE  Quiet(r) /\ UNCHANGED <<passkey, created, sessions>>
  <2> DEFINE i == [Idle EXCEPT !.goal = "view"]
  <2>1. i \in Request /\ i.goal = "view"
    BY IdleRequest DEF Request, Goals, Idle
  <2>2. Goto(r, Loaded(i, LatestPasskey(u))) /\ UNCHANGED <<dbVars, sessions, chainVars>>
    BY <1>3 DEF ViewPasskey, Start
  <2> HIDE DEF i
  <2> QED
    BY <2>1, <2>2, <1>0, LatestPasskeyType, LoadedRequest, GotoQuiet DEF Refreshing, dbVars
<1>4. ASSUME NEW u \in Users, DraftOperation(r, u)
      PROVE  Quiet(r) /\ UNCHANGED <<passkey, created, sessions>>
  <2> DEFINE i == [Idle EXCEPT !.goal = "draftOp"]
  <2>1. i \in Request /\ i.goal = "draftOp"
    BY IdleRequest DEF Request, Goals, Idle
  <2>2. Goto(r, Loaded(i, LatestPasskey(u))) /\ UNCHANGED <<dbVars, sessions, chainVars>>
    BY <1>4 DEF DraftOperation, Start
  <2> HIDE DEF i
  <2> QED
    BY <2>1, <2>2, <1>0, LatestPasskeyType, LoadedRequest, GotoQuiet DEF Refreshing, dbVars
<1>5. ASSUME NEW u \in Users, NEW t \in KeyTypes, NEW c \in Creds, DraftKeyAction(r, u, t, c)
      PROVE  Quiet(r) /\ UNCHANGED <<passkey, created, sessions>>
  <2> DEFINE i == [Idle EXCEPT !.goal = "draftKey", !.type = t, !.target = c]
  <2>1. i \in Request /\ i.goal = "draftKey" /\ i.type \in KeyTypes
    BY IdleRequest DEF Request, Goals, Idle
  <2>2. Goto(r, Loaded(i, LatestPasskey(u))) /\ UNCHANGED <<dbVars, sessions, chainVars>>
    BY <1>5 DEF DraftKeyAction, Start
  <2> HIDE DEF i
  <2> QED
    BY <2>1, <2>2, <1>0, LatestPasskeyType, LoadedRequest, GotoQuiet DEF Refreshing, dbVars
<1>6. ASSUME NEW o \in OpIds, SubmitOperation(r, o)
      PROVE  Quiet(r) /\ UNCHANGED <<passkey, created, sessions>>
  <2> DEFINE i == [Idle EXCEPT !.goal = "submitOp", !.id = o]
             u == Owner[op[o].signer]
  <2>1. i \in Request /\ i.goal = "submitOp" /\ i.id = o
    BY IdleRequest DEF Request, Goals, Idle, Ids
  <2>2. Goto(r, Loaded(i, LatestPasskey(u))) /\ UNCHANGED <<dbVars, sessions, chainVars>>
    BY <1>6 DEF SubmitOperation, Start
  <2> HIDE DEF i, u
  <2> QED
    BY <2>1, <2>2, <1>0, LatestPasskeyType, LoadedRequest, GotoQuiet DEF Refreshing, dbVars
<1>7. ASSUME NEW a \in KeyIds, SubmitKeyAction(r, a)
      PROVE  Quiet(r) /\ UNCHANGED <<passkey, created, sessions>>
  <2>1. PICK now \in 1..MaxStamp :
           Goto(r, [Idle EXCEPT !.goal = "submitKey", !.pc = "lockAction", !.id = a,
                                !.type = keyAction[a].type, !.target = keyAction[a].target,
                                !.signer = keyAction[a].signer, !.stamp = now])
    BY <1>7 DEF SubmitKeyAction, Start
  <2> DEFINE n == [Idle EXCEPT !.goal = "submitKey", !.pc = "lockAction", !.id = a,
                               !.type = keyAction[a].type, !.target = keyAction[a].target,
                               !.signer = keyAction[a].signer, !.stamp = now]
  <2>2. /\ keyAction[a].type \in KeyTypes \union {"None"}
        /\ keyAction[a].target \in Creds \union {NoCred}
        /\ keyAction[a].signer \in Creds \union {NoCred}
    BY <1>0 DEF TypeOK
  <2>3. now \in Nat /\ now > 0
    BY KeyAssumption DEF KeyAssumption
  <2>4. n \in Request
    BY <2>2, <2>3, IdleRequest DEF Request, Goals, Pcs, Ids, Idle
  <2>5. /\ n.pc = "lockAction" /\ n.goal = "submitKey" /\ n.id = a /\ n.stamp = now
        /\ n.type = keyAction[a].type /\ n.target = keyAction[a].target
    BY DEF Idle
  <2>6. keyAction[a] # NoAction /\ UNCHANGED <<dbVars, sessions, chainVars>>
    BY <1>7 DEF SubmitKeyAction
  <2>7. Goto(r, n)
    BY <2>1
  <2> HIDE DEF n
  <2>8. LinkOK(n, keyAction, op) /\ n.pc \notin LockPcs
    BY <2>3, <2>5, <2>6 DEF LinkOK, LockPcs, KeyTxPcs, OpTxPcs
  <2> QED
    BY <2>4, <2>6, <2>7, <2>8, <1>0, GotoQuiet DEF dbVars
<1>8. ASSUME InsertPasskey(r)
      PROVE  Quiet(r) /\ passkey' \in [Creds -> Statuses] /\ created' \in Seq(Creds) /\ sessions' = sessions
  <2>1. q.cred \in Creds
    BY <1>8, <1>0 DEF InsertPasskey, LinkOK
  <2>2. Goto(r, Idle) /\ UNCHANGED <<sessions, keyAction, op, outbox, chainVars>>
    BY <1>8 DEF InsertPasskey
  <2>3. created' = Append(created, q.cred) /\ passkey' = [passkey EXCEPT ![q.cred] = "PENDING"]
    BY <1>8 DEF InsertPasskey
  <2> QED
    BY <2>1, <2>2, <2>3, <1>0, <1>01, IdleRequest, GotoQuiet DEF Statuses, Live
<1>9. ASSUME ReadRegistry(r)
      PROVE  Quiet(r) /\ UNCHANGED <<passkey, created, sessions>>
  <2>1. q.pc = "read" /\ UNCHANGED <<dbVars, sessions, chainVars>>
    BY <1>9 DEF ReadRegistry
  <2>2. q.cred \in Creds /\ q.goal \in Refreshing /\ (q.goal = "submitOp" => q.id \in OpIds)
        /\ (q.goal = "draftKey" => q.type \in KeyTypes)
    BY <2>1, <1>0 DEF LinkOK
  <2>3. CASE \E status : Goto(r, Resume(q, status))
    BY <2>1, <2>2, <2>3, <1>0, ResumedRequest, GotoQuiet DEF dbVars
  <2>4. CASE \E next \in {"ACTIVE", "REVOKED"} : Goto(r, [q EXCEPT !.pc = "write", !.seen = next])
    <3>1. PICK next \in {"ACTIVE", "REVOKED"} : Goto(r, [q EXCEPT !.pc = "write", !.seen = next])
      BY <2>4
    <3> DEFINE n == [q EXCEPT !.pc = "write", !.seen = next]
    <3>0. next \in Statuses
      BY DEF Statuses, Live
    <3>2. n \in Request /\ n.pc = "write" /\ n.cred = q.cred /\ n.goal = q.goal /\ n.id = q.id
          /\ n.type = q.type
      BY <1>0, <3>0 DEF Request, Pcs
    <3>3. Goto(r, n)
      BY <3>1
    <3> HIDE DEF n
    <3>4. LinkOK(n, keyAction, op) /\ n.pc \notin LockPcs
      BY <2>2, <3>2 DEF LinkOK, LockPcs, KeyTxPcs, OpTxPcs
    <3> QED
      BY <2>1, <3>2, <3>3, <3>4, <1>0, GotoQuiet DEF dbVars
  <2> QED
    BY <1>9, <2>3, <2>4 DEF ReadRegistry
<1>10. ASSUME RegistryUnavailable(r)
       PROVE  Quiet(r) /\ UNCHANGED <<passkey, created, sessions>>
  <2>1. q.pc = "read" /\ UNCHANGED <<dbVars, sessions, chainVars>> /\ Goto(r, Resume(q, q.status))
    BY <1>10 DEF RegistryUnavailable
  <2>2. q.cred \in Creds /\ q.goal \in Refreshing /\ (q.goal = "submitOp" => q.id \in OpIds)
        /\ (q.goal = "draftKey" => q.type \in KeyTypes)
    BY <2>1, <1>0 DEF LinkOK
  <2> QED
    BY <2>1, <2>2, <1>0, ResumedRequest, GotoQuiet DEF dbVars
<1>11. ASSUME UpdatePasskeyStatus(r)
       PROVE  Quiet(r) /\ passkey' \in [Creds -> Statuses] /\ UNCHANGED <<created, sessions>>
  <2>1. q.pc = "write" /\ UNCHANGED <<created, sessions, keyAction, op, outbox, chainVars>>
    BY <1>11 DEF UpdatePasskeyStatus
  <2>2. q.cred \in Creds /\ q.goal \in Refreshing /\ (q.goal = "submitOp" => q.id \in OpIds)
        /\ (q.goal = "draftKey" => q.type \in KeyTypes)
    BY <2>1, <1>0 DEF LinkOK
  <2>3. PICK status : Goto(r, Resume(q, status))
    BY <1>11 DEF UpdatePasskeyStatus
  <2>4. passkey' = passkey \/ passkey' = [passkey EXCEPT ![q.cred] = q.seen]
    BY <1>11 DEF UpdatePasskeyStatus
  <2>5. q.seen \in Statuses
    BY <1>0 DEF Request
  <2>6. Quiet(r)
    BY <2>1, <2>2, <2>3, <1>0, ResumedRequest, GotoQuiet
  <2> QED
    BY <2>1, <2>2, <2>4, <2>5, <2>6, <1>01
<1>12. ASSUME RejectPendingPasskey(r)
       PROVE  Quiet(r) /\ passkey' \in [Creds -> Statuses] /\ UNCHANGED <<created, sessions>>
  <2>1. /\ UNCHANGED <<created, sessions, keyAction, op, outbox, chainVars>>
        /\ Goto(r, Idle)
        /\ passkey' = [passkey EXCEPT ![q.cred] = "REJECTED"]
    BY <1>12 DEF RejectPendingPasskey
  <2> QED
    BY <2>1, <1>0, <1>01, IdleRequest, GotoQuiet DEF Statuses
<1>13. ASSUME Abort(r)
       PROVE  Quiet(r) /\ UNCHANGED <<passkey, created, sessions>>
  BY <1>13, <1>0, IdleRequest, GotoQuiet DEF Abort, dbVars
<1> QED
  BY <1>01, <1>1, <1>2, <1>3, <1>4, <1>5, <1>6, <1>7, <1>8, <1>9, <1>10, <1>11, <1>12, <1>13
     DEF QuietAction

-----------------------------------------------------------------------------
(* Types and links. *)

\* The other steps of a request.
LoudAction(r) ==
    \/ InsertKeyAction(r) \/ LockAction(r) \/ LockTarget(r) \/ CommitKeyAction(r)
    \/ InsertOperation(r) \/ LockOperation(r) \/ LockSigner(r) \/ CheckRevoke(r)
    \/ WriteActions(r)

\* The steps of nobody's request.
WorldAction ==
    \/ \E u \in Users : BeginRegistration(u)
    \/ Restart
    \/ ExecuteNext \/ DropNext
    \/ \E a \in Ids : Settle(a)
    \/ \E c \in Creds : OwnerRevokeKey(c)

\* Next is one step of a request, quiet or not, or a step of nobody's request.
LEMMA NextCases == Next <=> WorldAction \/ \E r \in Requests : QuietAction(r) \/ LoudAction(r)
BY DEF Next, WorldAction, QuietAction, LoudAction

\* The moves of the two transactions that write nothing.
LockStep(r, from, to) ==
    /\ req[r].pc = from
    /\ req' = [req EXCEPT ![r] = [req[r] EXCEPT !.pc = to]]
    /\ UNCHANGED <<dbVars, sessions, chainVars>>

\* The five statements that only lock and check.
LEMMA LockSteps ==
    ASSUME NEW r
    PROVE  /\ LockAction(r) => LockStep(r, "lockAction", "lockTarget")
           /\ LockTarget(r) => LockStep(r, "lockTarget", "commitKey")
           /\ LockOperation(r) => LockStep(r, "lockOp", "lockSigner")
           /\ LockSigner(r) => LockStep(r, "lockSigner", "checkRevoke")
           /\ CheckRevoke(r) => LockStep(r, "checkRevoke", "commitOp")
BY DEF LockAction, LockTarget, LockOperation, LockSigner, CheckRevoke, LockStep, Goto

KeyMoves == {<<"lockAction", "lockTarget">>, <<"lockTarget", "commitKey">>}
OpMoves == {<<"lockOp", "lockSigner">>, <<"lockSigner", "checkRevoke">>, <<"checkRevoke", "commitOp">>}

\* Init establishes types and links.
LEMMA TypedLinksInit == Init => TypedLinks
<1> SUFFICES ASSUME Init PROVE TypedLinks
  OBVIOUS
<1>1. TypeOK
  <2>1. passkey \in [Creds -> Statuses] /\ registry \in [Creds -> {"absent", "active", "revoked"}]
    BY DEF Init, Statuses, Live
  <2>2. created \in Seq(Creds)
    <3>1. PICK S \in InitialKeys : passkey = [c \in Creds |-> IF c \in S THEN "ACTIVE" ELSE "None"]
      BY DEF Init
    <3>2. {c \in Creds : passkey[c] # "None"} = S
      BY <3>1, KeyAssumption DEF KeyAssumption
    <3>3. created \in [1..Cardinality(S) -> Creds]
      BY <3>2 DEF Init
    <3>4. Cardinality(S) \in Nat
      BY KeyAssumption, FS_CardinalityType DEF KeyAssumption
    <3> QED
      BY <3>3, <3>4
  <2>3. keyAction \in [KeyIds -> [type : KeyTypes \union {"None"}, target : Creds \union {NoCred},
                                  signer : Creds \union {NoCred}, submitted : Nat]]
    BY DEF Init, NoAction
  <2>4. op \in [OpIds -> [signer : Creds \union {NoCred}, submitted : BOOLEAN]]
    BY DEF Init, NoOp
  <2>5. req \in [Requests -> Request]
    BY IdleRequest DEF Init
  <2>6. sessions \subseteq Users /\ outbox \in Seq(Ids) /\ done \in 0..Len(outbox)
    BY DEF Init
  <2>7. /\ oe \in [Ids -> {"NULL", "COMMITTED", "FAILED"}]
        /\ decided \in [Ids -> {"None", "Applied", "Rejected", "Dropped"}]
    BY DEF Init
  <2> QED
    BY <2>1, <2>2, <2>3, <2>4, <2>5, <2>6, <2>7 DEF TypeOK
<1>2. Links
  BY IdleRequest DEF Init, Links
<1> QED
  BY <1>1, <1>2 DEF TypedLinks

\* The database part of the type invariant, and the environment's.
RowTypes ==
    /\ passkey \in [Creds -> Statuses]
    /\ created \in Seq(Creds)
    /\ sessions \subseteq Users
    /\ keyAction \in [KeyIds -> [type : KeyTypes \union {"None"}, target : Creds \union {NoCred},
                                 signer : Creds \union {NoCred}, submitted : Nat]]
    /\ op \in [OpIds -> [signer : Creds \union {NoCred}, submitted : BOOLEAN]]
    /\ outbox \in Seq(Ids)

WorldTypes ==
    /\ oe \in [Ids -> {"NULL", "COMMITTED", "FAILED"}]
    /\ registry \in [Creds -> {"absent", "active", "revoked"}]
    /\ decided \in [Ids -> {"None", "Applied", "Rejected", "Dropped"}]
    /\ done \in 0..Len(outbox)

\* The type invariant is those two parts and the requests'.
LEMMA TypeParts == TypeOK <=> RowTypes /\ WorldTypes /\ req \in [Requests -> Request]
BY DEF TypeOK, RowTypes, WorldTypes

\* A quiet step.
LEMMA QuietTyped ==
    ASSUME TypedLinks, NEW r \in Requests, QuietAction(r)
    PROVE  TypedLinks'
<1>1. Quiet(r) /\ passkey' \in [Creds -> Statuses] /\ created' \in Seq(Creds) /\ sessions' \subseteq Users
  BY QuietStep
<1>2. TypeOK'
  <2>1. RowTypes'
    BY <1>1, TypeParts DEF RowTypes, Quiet, TypedLinks
  <2>2. WorldTypes'
    BY <1>1, TypeParts DEF WorldTypes, Quiet, TypedLinks, chainVars
  <2>3. req' \in [Requests -> Request]
    BY <1>1 DEF Quiet, TypedLinks, TypeOK
  <2> QED
    BY <2>1, <2>2, <2>3, TypeParts DEF RowTypes, WorldTypes, TypeOK
<1>3. Links'
  <2> SUFFICES ASSUME NEW s \in Requests PROVE LinkOK(req'[s], keyAction', op')
    BY DEF Links
  <2>1. keyAction' = keyAction /\ op' = op /\ (s # r => req'[s] = req[s])
    BY <1>1 DEF Quiet, TypedLinks, TypeOK
  <2>2. CASE s = r
    BY <2>1, <2>2, <1>1 DEF Quiet
  <2>3. CASE s # r
    BY <2>1, <2>3 DEF TypedLinks, Links
  <2> QED
    BY <2>2, <2>3
<1> QED
  BY <1>2, <1>3 DEF TypedLinks

\* A move inside a transaction.
LEMMA LockStepTyped ==
    ASSUME TypedLinks, NEW r \in Requests, NEW from, NEW to, LockStep(r, from, to),
           <<from, to>> \in KeyMoves \union OpMoves
    PROVE  TypedLinks'
<1> DEFINE q == req[r]
           n == [q EXCEPT !.pc = to]
<1>1. q \in Request /\ LinkOK(q, keyAction, op) /\ q.pc = from
  BY DEF TypedLinks, TypeOK, Links, LockStep
<1>2. to \in Pcs
  BY DEF KeyMoves, OpMoves, Pcs
<1>3. /\ n \in Request /\ n.pc = to
      /\ n.goal = q.goal /\ n.cred = q.cred /\ n.type = q.type /\ n.target = q.target
      /\ n.signer = q.signer /\ n.id = q.id /\ n.stamp = q.stamp
  BY <1>1, <1>2 DEF Request
<1>4. req' = [req EXCEPT ![r] = n] /\ UNCHANGED <<dbVars, sessions, chainVars>>
  BY DEF LockStep
<1> HIDE DEF n
<1>5. LinkOK(n, keyAction, op)
  BY <1>1, <1>3 DEF LinkOK, KeyMoves, OpMoves, KeyTxPcs, OpTxPcs
<1>6. TypeOK'
  BY <1>3, <1>4 DEF TypedLinks, TypeOK, dbVars, chainVars
<1>7. Links'
  BY <1>4, <1>5 DEF TypedLinks, TypeOK, Links, dbVars
<1> QED
  BY <1>6, <1>7 DEF TypedLinks

\* One more row in the outbox: the rows before it stay where they are.
LEMMA AppendTyped ==
    ASSUME NEW S, NEW s \in Seq(S), NEW e \in S
    PROVE  /\ Append(s, e) \in Seq(S)
           /\ Len(Append(s, e)) = Len(s) + 1
           /\ \A d \in 0..Len(s) : d \in 0..Len(Append(s, e))
           /\ DOMAIN s = 1..Len(s) /\ DOMAIN Append(s, e) = 1..(Len(s) + 1)
           /\ \A i \in 1..Len(s) : Append(s, e)[i] = s[i]
           /\ Append(s, e)[Len(s) + 1] = e
OBVIOUS

\* The steps that write drafts and the outbox.
LEMMA LoudTyped ==
    ASSUME TypedLinks, NEW r \in Requests, LoudAction(r)
    PROVE  TypedLinks'
<1> USE DEF TypedLinks
<1> DEFINE q == req[r]
<1>0. q \in Request /\ LinkOK(q, keyAction, op) /\ TypeOK
  BY DEF TypeOK, Links
<1>1. CASE LockAction(r) \/ LockTarget(r) \/ LockOperation(r) \/ LockSigner(r) \/ CheckRevoke(r)
  BY <1>1, LockSteps, LockStepTyped DEF KeyMoves, OpMoves
<1>2. CASE InsertKeyAction(r)
  <2>1. PICK a \in KeyIds :
           /\ keyAction[a] = NoAction
           /\ keyAction' = [keyAction EXCEPT ![a] = [type |-> q.type, target |-> q.target,
                                                     signer |-> q.signer, submitted |-> 0]]
    BY <1>2 DEF InsertKeyAction
  <2>2. req' = [req EXCEPT ![r] = Idle] /\ UNCHANGED <<passkey, created, sessions, op, outbox, chainVars>>
    BY <1>2 DEF InsertKeyAction, Goto
  <2>3. q.type \in KeyTypes \union {"None"} /\ q.target \in Creds \union {NoCred}
        /\ q.signer \in Creds \union {NoCred}
    BY <1>0 DEF Request
  <2>4. TypeOK'
    BY <2>1, <2>2, <2>3, <1>0, IdleRequest DEF TypeOK, chainVars
  <2>5. Links'
    <3> SUFFICES ASSUME NEW s \in Requests PROVE LinkOK(req'[s], keyAction', op')
      BY DEF Links
    <3>1. CASE s = r
      <4>1. req'[s] = Idle
        BY <3>1, <2>2, <1>0 DEF TypeOK
      <4> QED
        BY <4>1 DEF LinkOK, Idle, KeyTxPcs, OpTxPcs
    <3>2. CASE s # r
      <4>1. req'[s] = req[s] /\ LinkOK(req[s], keyAction, op)
        BY <3>2, <2>2, <1>0 DEF TypeOK, Links
      <4>2. \A b \in KeyIds : keyAction[b] # NoAction => keyAction'[b] = keyAction[b]
        BY <2>1, <1>0 DEF TypeOK
      <4> QED
        BY <4>1, <4>2, <2>2 DEF LinkOK
    <3> QED
      BY <3>1, <3>2
  <2> QED
    BY <2>4, <2>5
<1>3. CASE CommitKeyAction(r)
  <2>1. /\ req' = [req EXCEPT ![r] = Idle] /\ q.pc = "commitKey"
        /\ UNCHANGED <<passkey, created, sessions, op, chainVars>>
        /\ outbox' = Append(outbox, q.id)
        /\ keyAction' = [keyAction EXCEPT ![q.id].submitted = q.stamp]
    BY <1>3 DEF CommitKeyAction, Goto
  <2>2. q.id \in KeyIds /\ q.id \in Ids /\ q.stamp \in Nat /\ keyAction[q.id] # NoAction
        /\ q.stamp > 0
    BY <2>1, <1>0 DEF LinkOK, KeyTxPcs, Ids, Request
  <2>3. keyAction' \in [KeyIds -> [type : KeyTypes \union {"None"}, target : Creds \union {NoCred},
                                    signer : Creds \union {NoCred}, submitted : Nat]]
    BY <2>1, <2>2, <1>0, ZenonT(40) DEF TypeOK
  <2>31. outbox' \in Seq(Ids) /\ done \in 0..Len(outbox')
    BY <2>1, <2>2, <1>0, AppendTyped DEF TypeOK
  <2>4. TypeOK'
    BY <2>1, <2>3, <2>31, <1>0, IdleRequest DEF TypeOK, chainVars
  <2>5. Links'
    <3> SUFFICES ASSUME NEW s \in Requests PROVE LinkOK(req'[s], keyAction', op')
      BY DEF Links
    <3>1. CASE s = r
      <4>1. req'[s] = Idle
        BY <3>1, <2>1, <1>0 DEF TypeOK
      <4> QED
        BY <4>1 DEF LinkOK, Idle, KeyTxPcs, OpTxPcs
    <3>2. CASE s # r
      <4>1. req'[s] = req[s] /\ LinkOK(req[s], keyAction, op)
        BY <3>2, <2>1, <1>0 DEF TypeOK, Links
      <4>2. \A b \in KeyIds : /\ keyAction'[b].type = keyAction[b].type
                               /\ keyAction'[b].target = keyAction[b].target
        BY <2>1, <1>0 DEF TypeOK
      <4>3. \A b \in KeyIds : keyAction[b] # NoAction => keyAction'[b] # NoAction
        BY <2>1, <2>2, <1>0 DEF TypeOK, NoAction
      <4> QED
        BY <4>1, <4>2, <4>3, <2>1 DEF LinkOK
    <3> QED
      BY <3>1, <3>2
  <2> QED
    BY <2>4, <2>5
<1>4. CASE InsertOperation(r)
  <2>1. PICK o \in OpIds : op[o] = NoOp /\ op' = [op EXCEPT ![o].signer = q.signer]
    BY <1>4 DEF InsertOperation
  <2>2. /\ req' = [req EXCEPT ![r] = Idle]
        /\ UNCHANGED <<passkey, created, sessions, keyAction, outbox, chainVars>>
    BY <1>4 DEF InsertOperation, Goto
  <2>3. q.signer \in Creds \union {NoCred}
    BY <1>0 DEF Request
  <2>4. TypeOK'
    BY <2>1, <2>2, <2>3, <1>0, IdleRequest, ZenonT(40) DEF TypeOK, chainVars
  <2>5. Links'
    <3> SUFFICES ASSUME NEW s \in Requests PROVE LinkOK(req'[s], keyAction', op')
      BY DEF Links
    <3>1. CASE s = r
      <4>1. req'[s] = Idle
        BY <3>1, <2>2, <1>0 DEF TypeOK
      <4> QED
        BY <4>1 DEF LinkOK, Idle, KeyTxPcs, OpTxPcs
    <3>2. CASE s # r
      <4>1. req'[s] = req[s] /\ LinkOK(req[s], keyAction, op)
        BY <3>2, <2>2, <1>0 DEF TypeOK, Links
      <4>2. \A b \in OpIds : op[b].signer \in Creds => op'[b].signer = op[b].signer
        BY <2>1, <1>0, KeyAssumption DEF TypeOK, NoOp, KeyAssumption
      <4> QED
        BY <4>1, <4>2, <2>2 DEF LinkOK
    <3> QED
      BY <3>1, <3>2
  <2> QED
    BY <2>4, <2>5
<1>5. CASE WriteActions(r)
  <2>1. /\ req' = [req EXCEPT ![r] = Idle] /\ q.pc = "commitOp"
        /\ UNCHANGED <<passkey, created, sessions, keyAction, chainVars>>
        /\ outbox' = Append(outbox, q.id)
        /\ op' = [op EXCEPT ![q.id].submitted = TRUE]
    BY <1>5 DEF WriteActions, Goto
  <2>2. q.id \in OpIds /\ q.id \in Ids
    BY <2>1, <1>0 DEF LinkOK, OpTxPcs, Ids
  <2>3. op' \in [OpIds -> [signer : Creds \union {NoCred}, submitted : BOOLEAN]]
    BY <2>1, <2>2, <1>0 DEF TypeOK
  <2>31. outbox' \in Seq(Ids) /\ done \in 0..Len(outbox')
    BY <2>1, <2>2, <1>0, AppendTyped DEF TypeOK
  <2>4. TypeOK'
    BY <2>1, <2>3, <2>31, <1>0, IdleRequest DEF TypeOK, chainVars
  <2>5. Links'
    <3> SUFFICES ASSUME NEW s \in Requests PROVE LinkOK(req'[s], keyAction', op')
      BY DEF Links
    <3>1. CASE s = r
      <4>1. req'[s] = Idle
        BY <3>1, <2>1, <1>0 DEF TypeOK
      <4> QED
        BY <4>1 DEF LinkOK, Idle, KeyTxPcs, OpTxPcs
    <3>2. CASE s # r
      <4>1. req'[s] = req[s] /\ LinkOK(req[s], keyAction, op)
        BY <3>2, <2>1, <1>0 DEF TypeOK, Links
      <4>2. \A b \in OpIds : op'[b].signer = op[b].signer
        BY <2>1, <1>0 DEF TypeOK
      <4> QED
        BY <4>1, <4>2, <2>1 DEF LinkOK
    <3> QED
      BY <3>1, <3>2
  <2> QED
    BY <2>4, <2>5
<1> QED
  BY <1>1, <1>2, <1>3, <1>4, <1>5 DEF LoudAction

\* The steps of the environment and of no request.
LEMMA WorldTyped ==
    ASSUME TypedLinks, WorldAction
    PROVE  TypedLinks'
<1> USE DEF TypedLinks
<1>1. ASSUME UNCHANGED <<dbVars, req>>, sessions' \subseteq Users, WorldTypes'
      PROVE  TypedLinks'
  <2>1. TypeOK'
    BY <1>1 DEF TypeOK, WorldTypes, dbVars
  <2>2. Links'
    BY <1>1 DEF Links, dbVars
  <2> QED
    BY <2>1, <2>2
<1>2. ASSUME NEW u \in Users, BeginRegistration(u)
      PROVE  TypedLinks'
  BY <1>1, <1>2 DEF BeginRegistration, TypeOK, WorldTypes, dbVars, chainVars
<1>3. CASE Restart
  <2>1. req' = [r \in Requests |-> Idle] /\ sessions' = {} /\ UNCHANGED <<dbVars, chainVars>>
    BY <1>3 DEF Restart
  <2>2. TypeOK'
    BY <2>1, IdleRequest DEF TypeOK, dbVars, chainVars
  <2>3. Links'
    BY <2>1, IdleRequest DEF Links, dbVars
  <2> QED
    BY <2>2, <2>3
<1>4. CASE ExecuteNext
  <2> DEFINE a == outbox[done + 1]
  <2>1. done < Len(outbox) /\ done' = done + 1 /\ UNCHANGED <<dbVars, sessions, req, oe>>
    BY <1>4 DEF ExecuteNext
  <2>2. outbox \in Seq(Ids) /\ done \in 0..Len(outbox)
    BY DEF TypeOK
  <2>3. a \in Ids /\ done' \in 0..Len(outbox)
    BY <2>1, <2>2
  <2>4. decided' \in [Ids -> {"None", "Applied", "Rejected", "Dropped"}]
    BY <1>4 DEF ExecuteNext, TypeOK
  <2>5. registry' \in [Creds -> {"absent", "active", "revoked"}]
    BY <1>4 DEF ExecuteNext, TypeOK
  <2> QED
    BY <1>1, <2>1, <2>3, <2>4, <2>5 DEF TypeOK, WorldTypes, dbVars
<1>5. CASE DropNext
  <2>1. done < Len(outbox) /\ done' = done + 1 /\ UNCHANGED <<dbVars, sessions, req, oe, registry>>
    BY <1>5 DEF DropNext
  <2>2. outbox \in Seq(Ids) /\ done \in 0..Len(outbox)
    BY DEF TypeOK
  <2>3. done' \in 0..Len(outbox)
    BY <2>1, <2>2
  <2>4. decided' \in [Ids -> {"None", "Applied", "Rejected", "Dropped"}]
    BY <1>5 DEF DropNext, TypeOK
  <2> QED
    BY <1>1, <2>1, <2>3, <2>4 DEF TypeOK, WorldTypes, dbVars
<1>6. ASSUME NEW a \in Ids, Settle(a)
      PROVE  TypedLinks'
  <2>1. UNCHANGED <<dbVars, sessions, req, registry, decided, done>>
    BY <1>6 DEF Settle
  <2>2. oe' \in [Ids -> {"NULL", "COMMITTED", "FAILED"}]
    BY <1>6 DEF Settle, TypeOK
  <2> QED
    BY <1>1, <2>1, <2>2 DEF TypeOK, WorldTypes, dbVars
<1>7. ASSUME NEW c \in Creds, OwnerRevokeKey(c)
      PROVE  TypedLinks'
  <2>1. UNCHANGED <<dbVars, sessions, req, oe, decided, done>>
    BY <1>7 DEF OwnerRevokeKey
  <2>2. registry' \in [Creds -> {"absent", "active", "revoked"}]
    BY <1>7 DEF OwnerRevokeKey, TypeOK
  <2> QED
    BY <1>1, <2>1, <2>2 DEF TypeOK, WorldTypes, dbVars
<1> QED
  BY <1>2, <1>3, <1>4, <1>5, <1>6, <1>7 DEF WorldAction

\* Types and links are inductive.
LEMMA TypedLinksStep == TypedLinks /\ [Next]_vars => TypedLinks'
<1> SUFFICES ASSUME TypedLinks, [Next]_vars PROVE TypedLinks'
  OBVIOUS
<1>1. CASE Next
  BY <1>1, NextCases, QuietTyped, LoudTyped, WorldTyped
<1>2. CASE UNCHANGED vars
  BY <1>2 DEF TypedLinks, TypeOK, Links, vars, dbVars, chainVars
<1> QED
  BY <1>1, <1>2

\* Type correctness of the WMS's key lifecycle.
THEOREM KeyTypeCorrect == Spec => []TypeOK
<1>1. TypedLinks => TypeOK
  BY DEF TypedLinks
<1> QED
  BY <1>1, TypedLinksInit, TypedLinksStep, PTL DEF Spec

-----------------------------------------------------------------------------
(* What the locks protect. *)

KeyLockPcs == {"lockTarget", "commitKey"}
OpLockPcs == {"lockSigner", "checkRevoke", "commitOp"}

\* A key's row is never locked FOR UPDATE by one transaction and FOR SHARE by another.
RowExclusion ==
    \A r, s \in Requests, c \in Creds : ~(HoldsForUpdate(r, c) /\ HoldsForShare(s, c))

\* What CheckRevoke saw still holds when the operation commits.
NotRevokedYet ==
    \A r \in Requests, a \in KeyIds :
        (/\ req[r].pc = "commitOp"
         /\ keyAction[a].target = req[r].signer
         /\ keyAction[a].type = "KeyRevoke"
         /\ keyAction[a].submitted > 0)
        => oe[a] = "FAILED"

\* A draft whose row is locked is not submitted, and one transaction has the lock.
LockedIsDraft ==
    \A r \in Requests :
        /\ req[r].pc \in KeyLockPcs => keyAction[req[r].id].submitted = 0
        /\ req[r].pc \in OpLockPcs => ~op[req[r].id].submitted

DraftExclusion ==
    \A r, s \in Requests :
        r # s => /\ req[r].pc \in KeyLockPcs /\ req[s].pc \in KeyLockPcs => req[r].id # req[s].id
                 /\ req[r].pc \in OpLockPcs /\ req[s].pc \in OpLockPcs => req[r].id # req[s].id

LockInv == RowExclusion /\ NotRevokedYet /\ LockedIsDraft /\ DraftExclusion

OutboxInv == OutboxOrder /\ SubmittedOnce

\* A step that submits nothing.
SubmitsNothing ==
    /\ outbox' = outbox
    /\ \A a \in KeyIds : /\ keyAction'[a].submitted = keyAction[a].submitted
                         /\ keyAction[a].submitted > 0 => keyAction'[a] = keyAction[a]
    /\ \A o \in OpIds : /\ op'[o].submitted = op[o].submitted
                        /\ op[o].submitted => op'[o] = op[o]
    /\ \A a \in Ids : oe[a] = "FAILED" => oe'[a] = "FAILED"

\* Such a step leaves the outbox in order.
LEMMA OutboxKept ==
    ASSUME TypeOK, OutboxInv, SubmitsNothing
    PROVE  OutboxInv'
<1>1. outbox \in Seq(Ids) /\ outbox' = outbox
  BY DEF TypeOK, SubmitsNothing
<1>2. SubmittedOnce'
  BY <1>1 DEF OutboxInv, SubmittedOnce, SubmitsNothing
<1>3. OutboxOrder'
  <2> SUFFICES ASSUME NEW i \in DOMAIN outbox, NEW j \in DOMAIN outbox, i < j,
                      outbox[i] \in KeyIds, outbox[j] \in OpIds,
                      keyAction'[outbox[i]].type = "KeyRevoke",
                      keyAction'[outbox[i]].target = op'[outbox[j]].signer
               PROVE  oe'[outbox[i]] = "FAILED"
    BY <1>1 DEF OutboxOrder
  <2>1. keyAction[outbox[i]].submitted > 0 /\ op[outbox[j]].submitted
    BY DEF OutboxInv, SubmittedOnce
  <2>2. keyAction'[outbox[i]] = keyAction[outbox[i]] /\ op'[outbox[j]] = op[outbox[j]]
    BY <2>1 DEF SubmitsNothing
  <2>3. oe[outbox[i]] = "FAILED"
    BY <2>2 DEF OutboxInv, OutboxOrder
  <2>4. outbox[i] \in Ids
    BY DEF Ids
  <2> QED
    BY <2>3, <2>4 DEF SubmitsNothing
<1> QED
  BY <1>2, <1>3 DEF OutboxInv

\* And when no request takes a lock, the locks protect what they did.
LEMMA LocksKept ==
    ASSUME TypedLinks, LockInv, SubmitsNothing,
           \A s \in Requests : req'[s] = req[s] \/ req'[s].pc \notin LockPcs
    PROVE  LockInv'
<1>1. RowExclusion'
  BY DEF LockInv, RowExclusion, HoldsForUpdate, HoldsForShare, LockPcs
<1>2. NotRevokedYet'
  <2> SUFFICES ASSUME NEW s \in Requests, NEW a \in KeyIds, req'[s].pc = "commitOp",
                      keyAction'[a].target = req'[s].signer, keyAction'[a].type = "KeyRevoke",
                      keyAction'[a].submitted > 0
               PROVE  oe'[a] = "FAILED"
    BY DEF NotRevokedYet
  <2>1. req'[s] = req[s]
    BY DEF LockPcs
  <2>2. keyAction'[a] = keyAction[a]
    BY DEF SubmitsNothing
  <2>3. oe[a] = "FAILED"
    BY <2>1, <2>2 DEF LockInv, NotRevokedYet
  <2> QED
    BY <2>3 DEF SubmitsNothing, Ids
<1>3. LockedIsDraft'
  <2> SUFFICES ASSUME NEW s \in Requests
               PROVE  /\ req'[s].pc \in KeyLockPcs => keyAction'[req'[s].id].submitted = 0
                      /\ req'[s].pc \in OpLockPcs => ~op'[req'[s].id].submitted
    BY DEF LockedIsDraft
  <2>1. CASE req'[s].pc \notin LockPcs
    BY <2>1 DEF LockPcs, KeyLockPcs, OpLockPcs
  <2>2. CASE req'[s] = req[s]
    <3>1. LinkOK(req[s], keyAction, op)
      BY DEF TypedLinks, Links
    <3>2. /\ req[s].pc \in KeyLockPcs => req[s].id \in KeyIds
          /\ req[s].pc \in OpLockPcs => req[s].id \in OpIds
      BY <3>1 DEF LinkOK, KeyLockPcs, OpLockPcs, KeyTxPcs, OpTxPcs
    <3> QED
      BY <2>2, <3>2 DEF LockInv, LockedIsDraft, SubmitsNothing
  <2> QED
    BY <2>1, <2>2
<1>4. DraftExclusion'
  BY DEF LockInv, DraftExclusion, LockPcs, KeyLockPcs, OpLockPcs
<1> QED
  BY <1>1, <1>2, <1>3, <1>4 DEF LockInv

\* A step that submits nothing and takes no lock keeps all of it.
LEMMA SafeKept ==
    ASSUME TypedLinks, LockInv, OutboxInv, SubmitsNothing,
           \A s \in Requests : req'[s] = req[s] \/ req'[s].pc \notin LockPcs
    PROVE  LockInv' /\ OutboxInv'
BY OutboxKept, LocksKept DEF TypedLinks

\* A quiet step.
LEMMA QuietSafe ==
    ASSUME TypedLinks, LockInv, OutboxInv, NEW r \in Requests, QuietAction(r)
    PROVE  LockInv' /\ OutboxInv'
<1>1. Quiet(r)
  BY QuietStep
<1>2. SubmitsNothing
  BY <1>1 DEF Quiet, SubmitsNothing, chainVars
<1>3. \A s \in Requests : req'[s] = req[s] \/ req'[s].pc \notin LockPcs
  BY <1>1 DEF Quiet, TypedLinks, TypeOK
<1> QED
  BY <1>2, <1>3, SafeKept

\* A step of nobody's request.
LEMMA WorldSafe ==
    ASSUME TypedLinks, LockInv, OutboxInv, WorldAction
    PROVE  LockInv' /\ OutboxInv'
<1>1. UNCHANGED <<keyAction, op, outbox>>
  BY DEF WorldAction, BeginRegistration, Restart, ExecuteNext, DropNext, Settle, OwnerRevokeKey, dbVars
<1>2. \A a \in Ids : oe[a] = "FAILED" => oe'[a] = "FAILED"
  <2>1. CASE UNCHANGED oe
    BY <2>1
  <2>2. ASSUME NEW b \in Ids, Settle(b)
        PROVE  \A a \in Ids : oe[a] = "FAILED" => oe'[a] = "FAILED"
    <3>1. oe[b] = "NULL" /\ \A a \in Ids : a # b => oe'[a] = oe[a]
      BY <2>2 DEF Settle, TypedLinks, TypeOK
    <3> QED
      BY <3>1
  <2> QED
    BY <2>1, <2>2 DEF WorldAction, BeginRegistration, Restart, ExecuteNext, DropNext, OwnerRevokeKey, chainVars
<1>3. \A s \in Requests : req'[s] = req[s] \/ req'[s].pc \notin LockPcs
  <2>1. CASE Restart
    BY <2>1, IdleRequest DEF Restart
  <2>2. CASE ~Restart
    BY <2>2 DEF WorldAction, BeginRegistration, ExecuteNext, DropNext, Settle, OwnerRevokeKey
  <2> QED
    BY <2>1, <2>2
<1>4. SubmitsNothing
  BY <1>1, <1>2 DEF SubmitsNothing
<1> QED
  BY <1>3, <1>4, SafeKept

\* A draft is inserted.
LEMMA InsertSafe ==
    ASSUME TypedLinks, LockInv, OutboxInv, NEW r \in Requests,
           InsertKeyAction(r) \/ InsertOperation(r)
    PROVE  LockInv' /\ OutboxInv'
<1>1. req' = [req EXCEPT ![r] = Idle] /\ UNCHANGED <<outbox, oe>>
  BY DEF InsertKeyAction, InsertOperation, Goto, chainVars
<1>2. \A s \in Requests : req'[s] = req[s] \/ req'[s].pc \notin LockPcs
  BY <1>1, IdleRequest DEF TypedLinks, TypeOK
<1>3. SubmitsNothing
  <2>1. CASE InsertKeyAction(r)
    <3>1. PICK a \in KeyIds :
             /\ keyAction[a] = NoAction
             /\ keyAction' = [keyAction EXCEPT ![a] = [type |-> req[r].type, target |-> req[r].target,
                                                       signer |-> req[r].signer, submitted |-> 0]]
      BY <2>1 DEF InsertKeyAction
    <3>2. op' = op
      BY <2>1 DEF InsertKeyAction
    <3> QED
      BY <1>1, <3>1, <3>2 DEF SubmitsNothing, TypedLinks, TypeOK, NoAction
  <2>2. CASE InsertOperation(r)
    <3>1. PICK o \in OpIds : op[o] = NoOp /\ op' = [op EXCEPT ![o].signer = req[r].signer]
      BY <2>2 DEF InsertOperation
    <3>2. keyAction' = keyAction
      BY <2>2 DEF InsertOperation
    <3>3. \A b \in OpIds : b # o => op'[b] = op[b]
      BY <3>1 DEF TypedLinks, TypeOK
    <3>4. op'[o] = [op[o] EXCEPT !.signer = req[r].signer]
      BY <3>1 DEF TypedLinks, TypeOK
    <3>5. op[o].submitted = FALSE
      BY <3>1 DEF NoOp
    <3>6. op'[o].submitted = FALSE
      BY <3>1, <3>4 DEF NoOp
    <3> QED
      BY <1>1, <3>2, <3>3, <3>5, <3>6 DEF SubmitsNothing
  <2> QED
    BY <2>1, <2>2
<1> QED
  BY <1>2, <1>3, SafeKept

\* A step inside a transaction: only the request's pc moves, so what is left is what
\* the new lock protects.
LEMMA MoveFacts ==
    ASSUME TypedLinks, NEW r \in Requests, NEW from, NEW to, LockStep(r, from, to),
           <<from, to>> \in KeyMoves \union OpMoves
    PROVE  /\ req'[r].pc = to /\ req[r].pc = from
           /\ req'[r].id = req[r].id /\ req'[r].target = req[r].target /\ req'[r].signer = req[r].signer
           /\ \A s \in Requests : s # r => req'[s] = req[s]
           /\ UNCHANGED <<keyAction, op, outbox, oe>>
           /\ LinkOK(req[r], keyAction, op)
BY DEF LockStep, TypedLinks, TypeOK, Links, Request, dbVars, chainVars

\* The draft's row is locked.
LEMMA LockActionSafe ==
    ASSUME TypedLinks, LockInv, NEW r \in Requests, LockAction(r)
    PROVE  LockInv'
<1>1. LockStep(r, "lockAction", "lockTarget")
  BY LockSteps
<1>2. /\ req'[r].pc = "lockTarget" /\ req'[r].id = req[r].id
      /\ \A s \in Requests : s # r => req'[s] = req[s]
      /\ UNCHANGED <<keyAction, op, outbox, oe>>
  BY <1>1, MoveFacts DEF KeyMoves
<1>3. RowExclusion'
  BY <1>2 DEF LockInv, RowExclusion, HoldsForUpdate, HoldsForShare
<1>4. NotRevokedYet'
  BY <1>2 DEF LockInv, NotRevokedYet
<1>5. LockedIsDraft'
  BY <1>2 DEF LockInv, LockedIsDraft, LockAction, KeyLockPcs, OpLockPcs
<1>6. DraftExclusion'
  BY <1>2 DEF LockInv, DraftExclusion, LockAction, ActionLocked, KeyLockPcs, OpLockPcs
<1> QED
  BY <1>3, <1>4, <1>5, <1>6 DEF LockInv

\* The target's row is locked FOR UPDATE.
LEMMA LockTargetSafe ==
    ASSUME TypedLinks, LockInv, NEW r \in Requests, LockTarget(r)
    PROVE  LockInv'
<1>1. LockStep(r, "lockTarget", "commitKey")
  BY LockSteps
<1>2. /\ req'[r].pc = "commitKey" /\ req[r].pc = "lockTarget"
      /\ req'[r].id = req[r].id /\ req'[r].target = req[r].target
      /\ \A s \in Requests : s # r => req'[s] = req[s]
      /\ UNCHANGED <<keyAction, op, outbox, oe>>
  BY <1>1, MoveFacts DEF KeyMoves
<1>3. \A s \in Requests : ~HoldsForShare(s, req[r].target)
  BY DEF LockTarget, RowFree, LockedForShare
<1>4. RowExclusion'
  BY <1>2, <1>3 DEF LockInv, RowExclusion, HoldsForUpdate, HoldsForShare
<1>5. NotRevokedYet'
  BY <1>2 DEF LockInv, NotRevokedYet
<1>6. LockedIsDraft'
  BY <1>2 DEF LockInv, LockedIsDraft, KeyLockPcs, OpLockPcs
<1>7. DraftExclusion'
  BY <1>2 DEF LockInv, DraftExclusion, KeyLockPcs, OpLockPcs
<1> QED
  BY <1>4, <1>5, <1>6, <1>7 DEF LockInv

\* The operation's rows are locked.
LEMMA LockOperationSafe ==
    ASSUME TypedLinks, LockInv, NEW r \in Requests, LockOperation(r)
    PROVE  LockInv'
<1>1. LockStep(r, "lockOp", "lockSigner")
  BY LockSteps
<1>2. /\ req'[r].pc = "lockSigner" /\ req'[r].id = req[r].id
      /\ \A s \in Requests : s # r => req'[s] = req[s]
      /\ UNCHANGED <<keyAction, op, outbox, oe>>
  BY <1>1, MoveFacts DEF OpMoves
<1>3. RowExclusion'
  BY <1>2 DEF LockInv, RowExclusion, HoldsForUpdate, HoldsForShare
<1>4. NotRevokedYet'
  BY <1>2 DEF LockInv, NotRevokedYet
<1>5. LockedIsDraft'
  BY <1>2 DEF LockInv, LockedIsDraft, LockOperation, KeyLockPcs, OpLockPcs
<1>6. DraftExclusion'
  BY <1>2 DEF LockInv, DraftExclusion, LockOperation, OperationLocked, KeyLockPcs, OpLockPcs
<1> QED
  BY <1>3, <1>4, <1>5, <1>6 DEF LockInv

\* The signer's row is locked FOR SHARE.
LEMMA LockSignerSafe ==
    ASSUME TypedLinks, LockInv, NEW r \in Requests, LockSigner(r)
    PROVE  LockInv'
<1>1. LockStep(r, "lockSigner", "checkRevoke")
  BY LockSteps
<1>2. /\ req'[r].pc = "checkRevoke" /\ req[r].pc = "lockSigner"
      /\ req'[r].id = req[r].id /\ req'[r].signer = req[r].signer
      /\ \A s \in Requests : s # r => req'[s] = req[s]
      /\ UNCHANGED <<keyAction, op, outbox, oe>>
  BY <1>1, MoveFacts DEF OpMoves
<1>3. \A s \in Requests : ~HoldsForUpdate(s, req[r].signer)
  BY DEF LockSigner, LockedForUpdate
<1>4. RowExclusion'
  BY <1>2, <1>3 DEF LockInv, RowExclusion, HoldsForUpdate, HoldsForShare
<1>5. NotRevokedYet'
  BY <1>2 DEF LockInv, NotRevokedYet
<1>6. LockedIsDraft'
  BY <1>2 DEF LockInv, LockedIsDraft, KeyLockPcs, OpLockPcs
<1>7. DraftExclusion'
  BY <1>2 DEF LockInv, DraftExclusion, KeyLockPcs, OpLockPcs
<1> QED
  BY <1>4, <1>5, <1>6, <1>7 DEF LockInv

\* No revocation of the signer's key is submitted, and none can be while its row is locked.
LEMMA CheckRevokeSafe ==
    ASSUME TypedLinks, LockInv, NEW r \in Requests, CheckRevoke(r)
    PROVE  LockInv'
<1>1. LockStep(r, "checkRevoke", "commitOp")
  BY LockSteps
<1>2. /\ req'[r].pc = "commitOp" /\ req[r].pc = "checkRevoke"
      /\ req'[r].id = req[r].id /\ req'[r].signer = req[r].signer
      /\ \A s \in Requests : s # r => req'[s] = req[s]
      /\ UNCHANGED <<keyAction, op, outbox, oe>>
  BY <1>1, MoveFacts DEF OpMoves
<1>3. RowExclusion'
  BY <1>2 DEF LockInv, RowExclusion, HoldsForUpdate, HoldsForShare
<1>4. NotRevokedYet'
  BY <1>2 DEF LockInv, NotRevokedYet, CheckRevoke, RevokeSubmitted, Submitted
<1>5. LockedIsDraft'
  BY <1>2 DEF LockInv, LockedIsDraft, KeyLockPcs, OpLockPcs
<1>6. DraftExclusion'
  BY <1>2 DEF LockInv, DraftExclusion, KeyLockPcs, OpLockPcs
<1> QED
  BY <1>3, <1>4, <1>5, <1>6 DEF LockInv

\* A request ends and its locks with it: what the others hold excludes what it did.
LEMMA ReleaseKept ==
    ASSUME TypedLinks, LockInv, NEW r \in Requests, req' = [req EXCEPT ![r] = Idle]
    PROVE  /\ req'[r].pc = "idle"
           /\ \A s \in Requests : s # r => req'[s] = req[s]
           /\ RowExclusion' /\ DraftExclusion'
<1>1. req'[r] = Idle /\ \A s \in Requests : s # r => req'[s] = req[s]
  BY DEF TypedLinks, TypeOK
<1>2. Idle.pc = "idle"
  BY DEF Idle
<1>3. RowExclusion'
  BY <1>1, <1>2 DEF LockInv, RowExclusion, HoldsForUpdate, HoldsForShare
<1>4. DraftExclusion'
  BY <1>1, <1>2 DEF LockInv, DraftExclusion, KeyLockPcs, OpLockPcs
<1> QED
  BY <1>1, <1>2, <1>3, <1>4

\* A key action is committed: its key's row is locked FOR UPDATE, so no operation of
\* that key is between CheckRevoke and its own commit.
LEMMA CommitKeyActionSafe ==
    ASSUME TypedLinks, LockInv, OutboxInv, NEW r \in Requests, CommitKeyAction(r)
    PROVE  LockInv' /\ OutboxInv'
<1> DEFINE q == req[r]
           n == Len(outbox) + 1
<1>1. /\ q.pc = "commitKey" /\ UNCHANGED <<op, oe>>
      /\ outbox' = Append(outbox, q.id)
      /\ keyAction' = [keyAction EXCEPT ![q.id].submitted = q.stamp]
      /\ req' = [req EXCEPT ![r] = Idle]
  BY DEF CommitKeyAction, Goto, chainVars
<1>2. /\ LinkOK(q, keyAction, op) /\ TypeOK /\ outbox \in Seq(Ids)
  BY DEF TypedLinks, Links, TypeOK
<1>3. q.id \in KeyIds /\ q.id \in Ids /\ q.stamp > 0 /\ keyAction[q.id].target = q.target
  BY <1>1, <1>2 DEF LinkOK, KeyTxPcs, Ids
<1>4. keyAction[q.id].submitted = 0
  BY <1>1 DEF LockInv, LockedIsDraft, KeyLockPcs
<1>5. /\ \A a \in KeyIds : a # q.id => keyAction'[a] = keyAction[a]
      /\ \A a \in KeyIds : keyAction'[a].type = keyAction[a].type /\ keyAction'[a].target = keyAction[a].target
      /\ keyAction'[q.id].submitted = q.stamp
  BY <1>1, <1>2, <1>3 DEF TypeOK
<1>6. /\ \A s \in Requests : s # r => req'[s] = req[s]
      /\ req'[r].pc = "idle" /\ RowExclusion' /\ DraftExclusion'
  BY <1>1, ReleaseKept
<1>7. /\ DOMAIN outbox = 1..Len(outbox) /\ DOMAIN outbox' = 1..n /\ n = Len(outbox) + 1
      /\ Len(outbox) \in Nat
      /\ \A i \in 1..Len(outbox) : outbox'[i] = outbox[i]
      /\ outbox'[n] = q.id
  BY <1>1, <1>2, <1>3, AppendTyped
<1> HIDE DEF q, n
<1>8. NotRevokedYet'
  <2> SUFFICES ASSUME NEW s \in Requests, NEW a \in KeyIds, req'[s].pc = "commitOp",
                      keyAction'[a].target = req'[s].signer, keyAction'[a].type = "KeyRevoke",
                      keyAction'[a].submitted > 0
               PROVE  oe'[a] = "FAILED"
    BY DEF NotRevokedYet
  <2>1. s # r /\ req'[s] = req[s]
    BY <1>6
  <2>2. req[s].signer \in Creds
    BY <2>1 DEF TypedLinks, Links, LinkOK, OpTxPcs
  <2>3. a # q.id
    BY <1>1, <1>3, <1>5, <2>1, <2>2 DEF LockInv, RowExclusion, HoldsForUpdate, HoldsForShare, q
  <2> QED
    BY <1>1, <1>5, <2>1, <2>3 DEF LockInv, NotRevokedYet
<1>9. LockedIsDraft'
  <2> SUFFICES ASSUME NEW s \in Requests
               PROVE  /\ req'[s].pc \in KeyLockPcs => keyAction'[req'[s].id].submitted = 0
                      /\ req'[s].pc \in OpLockPcs => ~op'[req'[s].id].submitted
    BY DEF LockedIsDraft
  <2>1. CASE s = r
    BY <2>1, <1>6 DEF KeyLockPcs, OpLockPcs
  <2>2. CASE s # r
    <3>1. req'[s] = req[s] /\ (req[s].pc \in KeyLockPcs => req[s].id # q.id /\ req[s].id \in KeyIds)
      BY <2>2, <1>1, <1>6 DEF LockInv, DraftExclusion, KeyLockPcs, TypedLinks, Links, LinkOK, KeyTxPcs, q
    <3> QED
      BY <3>1, <1>1, <1>5 DEF LockInv, LockedIsDraft
  <2> QED
    BY <2>1, <2>2
<1>10. SubmittedOnce'
  <2>1. \A i \in 1..Len(outbox) : outbox[i] # q.id
    BY <1>3, <1>4, <1>7 DEF OutboxInv, SubmittedOnce
  <2>2. \A i, j \in DOMAIN outbox' : outbox'[i] = outbox'[j] => i = j
    BY <1>7, <2>1 DEF OutboxInv, SubmittedOnce
  <2>3. \A b \in Ids : (\E i \in DOMAIN outbox' : outbox'[i] = b)
                       <=> b = q.id \/ \E i \in DOMAIN outbox : outbox[i] = b
    BY <1>7
  <2>4. \A a \in KeyIds : keyAction'[a].submitted > 0 <=> a = q.id \/ keyAction[a].submitted > 0
    BY <1>3, <1>5
  <2>5. q.id \notin OpIds
    BY <1>3, KeyAssumption DEF KeyAssumption
  <2>6. \A a \in KeyIds : keyAction'[a].submitted > 0 <=> \E i \in DOMAIN outbox' : outbox'[i] = a
    BY <2>3, <2>4 DEF OutboxInv, SubmittedOnce, Ids
  <2>7. \A o \in OpIds : op'[o].submitted <=> \E i \in DOMAIN outbox' : outbox'[i] = o
    BY <2>3, <2>5, <1>1 DEF OutboxInv, SubmittedOnce, Ids
  <2> QED
    BY <2>2, <2>6, <2>7 DEF SubmittedOnce
<1>11. OutboxOrder'
  <2> SUFFICES ASSUME NEW i \in DOMAIN outbox', NEW j \in DOMAIN outbox', i < j,
                      outbox'[i] \in KeyIds, outbox'[j] \in OpIds,
                      keyAction'[outbox'[i]].type = "KeyRevoke",
                      keyAction'[outbox'[i]].target = op'[outbox'[j]].signer
               PROVE  oe'[outbox'[i]] = "FAILED"
    BY DEF OutboxOrder
  <2>1. j # n
    BY <1>3, <1>7, KeyAssumption DEF KeyAssumption
  <2>2. i \in DOMAIN outbox /\ j \in DOMAIN outbox /\ outbox'[i] = outbox[i] /\ outbox'[j] = outbox[j]
    BY <2>1, <1>7
  <2> QED
    BY <2>2, <1>1, <1>5 DEF OutboxInv, OutboxOrder
<1> QED
  BY <1>6, <1>8, <1>9, <1>10, <1>11 DEF LockInv, OutboxInv

\* An operation is committed: CheckRevoke's answer still holds.
LEMMA WriteActionsSafe ==
    ASSUME TypedLinks, LockInv, OutboxInv, NEW r \in Requests, WriteActions(r)
    PROVE  LockInv' /\ OutboxInv'
<1> DEFINE q == req[r]
           n == Len(outbox) + 1
<1>1. /\ q.pc = "commitOp" /\ UNCHANGED <<keyAction, oe>>
      /\ outbox' = Append(outbox, q.id)
      /\ op' = [op EXCEPT ![q.id].submitted = TRUE]
      /\ req' = [req EXCEPT ![r] = Idle]
  BY DEF WriteActions, Goto, chainVars
<1>2. /\ LinkOK(q, keyAction, op) /\ TypeOK /\ outbox \in Seq(Ids)
  BY DEF TypedLinks, Links, TypeOK
<1>3. q.id \in OpIds /\ q.id \in Ids /\ op[q.id].signer = q.signer /\ q.id \notin KeyIds
  BY <1>1, <1>2, KeyAssumption DEF LinkOK, OpTxPcs, Ids, KeyAssumption
<1>4. ~op[q.id].submitted
  BY <1>1 DEF LockInv, LockedIsDraft, OpLockPcs
<1>5. /\ \A o \in OpIds : o # q.id => op'[o] = op[o]
      /\ \A o \in OpIds : op'[o].signer = op[o].signer
  BY <1>1, <1>2, <1>3 DEF TypeOK
<1>51. op'[q.id].submitted
  <2>1. op'[q.id] = [op[q.id] EXCEPT !.submitted = TRUE]
    BY <1>1, <1>2, <1>3 DEF TypeOK
  <2>2. op[q.id] \in [signer : Creds \union {NoCred}, submitted : BOOLEAN]
    BY <1>2, <1>3 DEF TypeOK
  <2> QED
    BY <2>1, <2>2
<1>6. /\ \A s \in Requests : s # r => req'[s] = req[s]
      /\ req'[r].pc = "idle" /\ RowExclusion' /\ DraftExclusion'
  BY <1>1, ReleaseKept
<1>7. /\ DOMAIN outbox = 1..Len(outbox) /\ DOMAIN outbox' = 1..n /\ n = Len(outbox) + 1
      /\ Len(outbox) \in Nat
      /\ \A i \in 1..Len(outbox) : outbox'[i] = outbox[i]
      /\ outbox'[n] = q.id
  BY <1>1, <1>2, <1>3, AppendTyped
<1> HIDE DEF q, n
<1>8. NotRevokedYet'
  BY <1>1, <1>6 DEF LockInv, NotRevokedYet
<1>9. LockedIsDraft'
  <2> SUFFICES ASSUME NEW s \in Requests
               PROVE  /\ req'[s].pc \in KeyLockPcs => keyAction'[req'[s].id].submitted = 0
                      /\ req'[s].pc \in OpLockPcs => ~op'[req'[s].id].submitted
    BY DEF LockedIsDraft
  <2>1. CASE s = r
    BY <2>1, <1>6 DEF KeyLockPcs, OpLockPcs
  <2>2. CASE s # r
    <3>1. req'[s] = req[s] /\ (req[s].pc \in OpLockPcs => req[s].id # q.id /\ req[s].id \in OpIds)
      BY <2>2, <1>1, <1>6 DEF LockInv, DraftExclusion, OpLockPcs, TypedLinks, Links, LinkOK, OpTxPcs, q
    <3> QED
      BY <3>1, <1>1, <1>5 DEF LockInv, LockedIsDraft
  <2> QED
    BY <2>1, <2>2
<1>10. SubmittedOnce'
  <2>1. \A i \in 1..Len(outbox) : outbox[i] # q.id
    BY <1>3, <1>4, <1>7 DEF OutboxInv, SubmittedOnce
  <2>2. \A i, j \in DOMAIN outbox' : outbox'[i] = outbox'[j] => i = j
    BY <1>7, <2>1 DEF OutboxInv, SubmittedOnce
  <2>3. \A b \in Ids : (\E i \in DOMAIN outbox' : outbox'[i] = b)
                       <=> b = q.id \/ \E i \in DOMAIN outbox : outbox[i] = b
    BY <1>7
  <2>6. \A a \in KeyIds : keyAction'[a].submitted > 0 <=> \E i \in DOMAIN outbox' : outbox'[i] = a
    BY <2>3, <1>1, <1>3 DEF OutboxInv, SubmittedOnce, Ids
  <2>7. \A o \in OpIds : op'[o].submitted <=> \E i \in DOMAIN outbox' : outbox'[i] = o
    <3> SUFFICES ASSUME NEW o \in OpIds
                 PROVE  op'[o].submitted <=> \E i \in DOMAIN outbox' : outbox'[i] = o
      OBVIOUS
    <3>1. CASE o = q.id
      BY <3>1, <1>51, <1>3, <2>3
    <3>2. CASE o # q.id
      BY <3>2, <1>5, <2>3 DEF OutboxInv, SubmittedOnce, Ids
    <3> QED
      BY <3>1, <3>2
  <2> QED
    BY <2>2, <2>6, <2>7 DEF SubmittedOnce
<1>11. OutboxOrder'
  <2> SUFFICES ASSUME NEW i \in DOMAIN outbox', NEW j \in DOMAIN outbox', i < j,
                      outbox'[i] \in KeyIds, outbox'[j] \in OpIds,
                      keyAction'[outbox'[i]].type = "KeyRevoke",
                      keyAction'[outbox'[i]].target = op'[outbox'[j]].signer
               PROVE  oe'[outbox'[i]] = "FAILED"
    BY DEF OutboxOrder
  <2>1. i \in DOMAIN outbox /\ outbox'[i] = outbox[i]
    BY <1>7
  <2>2. CASE j = n
    <3>1. keyAction[outbox[i]].target = q.signer /\ keyAction[outbox[i]].type = "KeyRevoke"
      BY <2>1, <2>2, <1>1, <1>3, <1>5, <1>7
    <3>2. keyAction[outbox[i]].submitted > 0
      BY <2>1 DEF OutboxInv, SubmittedOnce
    <3> QED
      BY <2>1, <3>1, <3>2, <1>1 DEF LockInv, NotRevokedYet, q
  <2>3. CASE j # n
    <3>1. j \in DOMAIN outbox /\ outbox'[j] = outbox[j]
      BY <2>3, <1>7
    <3> QED
      BY <2>1, <3>1, <1>1, <1>5 DEF OutboxInv, OutboxOrder
  <2> QED
    BY <2>2, <2>3
<1> QED
  BY <1>6, <1>8, <1>9, <1>10, <1>11 DEF LockInv, OutboxInv

\* The lock steps submit nothing.
LEMMA LockStepSafe ==
    ASSUME TypedLinks, LockInv, OutboxInv, NEW r \in Requests,
           LockAction(r) \/ LockTarget(r) \/ LockOperation(r) \/ LockSigner(r) \/ CheckRevoke(r)
    PROVE  LockInv' /\ OutboxInv'
<1>1. UNCHANGED <<keyAction, op, outbox, oe>>
  BY LockSteps DEF LockStep, dbVars, chainVars
<1>2. SubmitsNothing
  BY <1>1 DEF SubmitsNothing
<1>3. OutboxInv'
  BY <1>2, OutboxKept DEF TypedLinks
<1>4. LockInv'
  BY LockActionSafe, LockTargetSafe, LockOperationSafe, LockSignerSafe, CheckRevokeSafe
<1> QED
  BY <1>3, <1>4

\* What the locks protect and the order of the outbox are inductive, given the types and links.
LEMMA SafeStep == TypedLinks /\ LockInv /\ OutboxInv /\ [Next]_vars => LockInv' /\ OutboxInv'
<1> SUFFICES ASSUME TypedLinks, LockInv, OutboxInv, [Next]_vars PROVE LockInv' /\ OutboxInv'
  OBVIOUS
<1>1. ASSUME NEW r \in Requests, LoudAction(r)
      PROVE  LockInv' /\ OutboxInv'
  BY <1>1, LockStepSafe, InsertSafe, CommitKeyActionSafe, WriteActionsSafe DEF LoudAction
<1>2. CASE Next
  BY <1>1, <1>2, NextCases, QuietSafe, WorldSafe
<1>3. CASE UNCHANGED vars
  <2>1. UNCHANGED <<keyAction, op, outbox, oe, req>>
    BY <1>3 DEF vars, dbVars, chainVars
  <2>2. SubmitsNothing
    BY <2>1 DEF SubmitsNothing
  <2> QED
    BY <2>1, <2>2, SafeKept
<1> QED
  BY <1>2, <1>3

\* At the start no request holds a lock and the outbox is empty.
LEMMA SafeInit == Init => LockInv /\ OutboxInv
<1> SUFFICES ASSUME Init PROVE LockInv /\ OutboxInv
  OBVIOUS
<1>1. \A r \in Requests : req[r].pc = "idle"
  BY DEF Init, Idle
<1>2. outbox = <<>> /\ DOMAIN outbox = {}
  BY DEF Init
<1>3. LockInv
  BY <1>1 DEF LockInv, RowExclusion, NotRevokedYet, LockedIsDraft, DraftExclusion,
              HoldsForUpdate, HoldsForShare, KeyLockPcs, OpLockPcs
<1>4. OutboxOrder
  BY <1>2 DEF OutboxOrder
<1>5. \A a \in KeyIds : keyAction[a].submitted = 0
  BY DEF Init, NoAction
<1>6. \A o \in OpIds : op[o].submitted = FALSE
  BY DEF Init, NoOp
<1>7. SubmittedOnce
  BY <1>2, <1>5, <1>6 DEF SubmittedOnce
<1> QED
  BY <1>3, <1>4, <1>7 DEF OutboxInv

\* For any number of keys, drafts and concurrent requests, and whatever the registry answers
\* and however late the chain settles: once the revocation of a key is in the outbox and has
\* not FAILED, no operation signed by that key is written behind it (SubmitKeyAction's FOR
\* UPDATE against LockSigner's FOR SHARE and its second statement).
THEOREM OutboxOrderCorrect == Spec => []OutboxOrder
<1>1. OutboxInv => OutboxOrder
  BY DEF OutboxInv
<1> QED
  BY <1>1, TypedLinksInit, TypedLinksStep, SafeInit, SafeStep, PTL DEF Spec

\* A draft, of a key action or of a warehouse operation, is written to the outbox at most
\* once, and is marked as submitted exactly when it is there (LockOperation and the FOR
\* UPDATE of SubmitKeyAction look at submitted_at under the row's lock).
THEOREM SubmittedOnceCorrect == Spec => []SubmittedOnce
<1>1. OutboxInv => SubmittedOnce
  BY DEF OutboxInv
<1> QED
  BY <1>1, TypedLinksInit, TypedLinksStep, SafeInit, SafeStep, PTL DEF Spec

-----------------------------------------------------------------------------
(* Where a request goes, and what may happen to a passkey row. *)

\* Where a quiet step leaves a request that neither has an answer to store nor has begun
\* the transaction of a key action.
FreshPcs == {"idle", "insertPasskey", "read", "insertAction", "rejectTx", "insertOp", "lockOp"}

\* A request that loads a row is about to ask the registry.
LEMMA LoadedFresh == ASSUME NEW q \in Request, NEW c PROVE Loaded(q, c).pc \in FreshPcs
<1>1. Idle.pc = "idle"
  BY DEF Idle
<1>2. [q EXCEPT !.pc = "read", !.cred = c, !.status = passkey[c], !.seen = "None"].pc = "read"
  BY DEF Request
<1> QED
  BY <1>1, <1>2 DEF Loaded, FreshPcs

\* A request that goes on with a status stores nothing.
LEMMA ResumedFresh ==
    ASSUME NEW q \in Request, NEW status, q.goal \in Refreshing
    PROVE  Resume(q, status).pc \in FreshPcs
<1>0. Idle.pc = "idle" /\ Idle.pc \in FreshPcs
  BY DEF Idle, FreshPcs
<1>1. CASE q.goal = "view"
  BY <1>0, <1>1 DEF Resume
<1>2. CASE q.goal = "draftKey" /\ q.signer = NoCred
  <2>1. Resume(q, status) = Idle \/ Resume(q, status) = Loaded([q EXCEPT !.signer = q.cred], q.target)
    BY <1>2 DEF Resume
  <2>2. [q EXCEPT !.signer = q.cred] \in Request
    BY DEF Request
  <2> QED
    BY <1>0, <2>1, <2>2, LoadedFresh
<1>3. CASE q.goal = "draftKey" /\ q.signer # NoCred
  <2>1. \/ Resume(q, status) = Idle
        \/ Resume(q, status) = [q EXCEPT !.pc = "insertAction", !.cred = NoCred, !.status = "None",
                                         !.seen = "None"]
    BY <1>3 DEF Resume
  <2> QED
    BY <1>0, <2>1 DEF Request, FreshPcs
<1>4. CASE q.goal = "reject"
  <2>1. \/ Resume(q, status) = Idle
        \/ Resume(q, status) = [q EXCEPT !.pc = "rejectTx", !.status = "None", !.seen = "None"]
    BY <1>4 DEF Resume
  <2> QED
    BY <1>0, <2>1 DEF Request, FreshPcs
<1>5. CASE q.goal = "draftOp"
  <2>1. \/ Resume(q, status) = Idle
        \/ Resume(q, status) = [Idle EXCEPT !.goal = "draftOp", !.pc = "insertOp", !.signer = q.cred]
    BY <1>5 DEF Resume
  <2> QED
    BY <1>0, <2>1 DEF Idle, FreshPcs
<1>6. CASE q.goal = "submitOp"
  <2>1. \/ Resume(q, status) = Idle
        \/ Resume(q, status) = [Idle EXCEPT !.goal = "submitOp", !.pc = "lockOp", !.signer = q.cred,
                                            !.id = q.id]
    BY <1>6 DEF Resume
  <2> QED
    BY <1>0, <2>1 DEF Idle, FreshPcs
<1> QED
  BY <1>1, <1>2, <1>3, <1>4, <1>5, <1>6 DEF Refreshing

\* The request r has just read a status of its key that is not the stored one.
ReadAnswer(r) ==
    /\ req'[r].pc = "write"
    /\ req'[r].cred = req[r].cred
    /\ \/ req'[r].seen = "ACTIVE" /\ registry[req[r].cred] = "active"
       \/ req'[r].seen = "REVOKED" /\ registry[req[r].cred] \notin {"absent", "active"}

\* The request r has just begun the transaction of a key action, after every stamp so far.
BeginsKeyTx(r) ==
    /\ req'[r].pc = "lockAction"
    /\ req'[r].stamp \in Nat
    /\ \A t \in Stamps : t < req'[r].stamp

\* A quiet step ends somewhere fresh, with an answer to store, or in a new transaction.
LEMMA QuietMoves ==
    ASSUME TypedLinks, NEW r \in Requests, QuietAction(r)
    PROVE  req'[r].pc \in FreshPcs \/ ReadAnswer(r) \/ BeginsKeyTx(r)
<1> DEFINE q == req[r]
<1>0. q \in Request /\ LinkOK(q, keyAction, op) /\ TypeOK
  BY DEF TypedLinks, Links, TypeOK
<1>01. \A n : Goto(r, n) => req'[r] = n
  BY <1>0 DEF Goto, TypeOK
<1>02. Idle \in Request /\ Idle.pc \in FreshPcs
  BY IdleRequest DEF Idle, FreshPcs
<1>1. ASSUME NEW c \in Creds, FinishRegistration(r, c)
      PROVE  req'[r].pc \in FreshPcs
  <2>1. req'[r] = [Idle EXCEPT !.goal = "finish", !.pc = "insertPasskey", !.cred = c]
    BY <1>1, <1>01 DEF FinishRegistration, Start
  <2> QED
    BY <2>1 DEF Idle, FreshPcs
<1>2. ASSUME NEW i \in Request, NEW c, Start(r, Loaded(i, c))
      PROVE  req'[r].pc \in FreshPcs
  BY <1>2, <1>01, LoadedFresh DEF Start
<1>3. ASSUME NEW c \in Creds, RejectKey(r, c)
      PROVE  req'[r].pc \in FreshPcs
  <2>1. [Idle EXCEPT !.goal = "reject"] \in Request
    BY <1>02 DEF Request, Goals, Idle
  <2> QED
    BY <1>2, <1>3, <2>1 DEF RejectKey
<1>4. ASSUME NEW u \in Users, ViewPasskey(r, u)
      PROVE  req'[r].pc \in FreshPcs
  <2>1. [Idle EXCEPT !.goal = "view"] \in Request
    BY <1>02 DEF Request, Goals, Idle
  <2> QED
    BY <1>2, <1>4, <2>1 DEF ViewPasskey
<1>5. ASSUME NEW u \in Users, DraftOperation(r, u)
      PROVE  req'[r].pc \in FreshPcs
  <2>1. [Idle EXCEPT !.goal = "draftOp"] \in Request
    BY <1>02 DEF Request, Goals, Idle
  <2> QED
    BY <1>2, <1>5, <2>1 DEF DraftOperation
<1>6. ASSUME NEW u \in Users, NEW t \in KeyTypes, NEW c \in Creds, DraftKeyAction(r, u, t, c)
      PROVE  req'[r].pc \in FreshPcs
  <2>1. [Idle EXCEPT !.goal = "draftKey", !.type = t, !.target = c] \in Request
    BY <1>02 DEF Request, Goals, Idle
  <2> QED
    BY <1>2, <1>6, <2>1 DEF DraftKeyAction
<1>7. ASSUME NEW o \in OpIds, SubmitOperation(r, o)
      PROVE  req'[r].pc \in FreshPcs
  <2>1. [Idle EXCEPT !.goal = "submitOp", !.id = o] \in Request
    BY <1>02 DEF Request, Goals, Idle, Ids
  <2> QED
    BY <1>2, <1>7, <2>1 DEF SubmitOperation
<1>8. ASSUME NEW a \in KeyIds, SubmitKeyAction(r, a)
      PROVE  BeginsKeyTx(r)
  <2>1. PICK now \in 1..MaxStamp :
           /\ IsNow(now)
           /\ Goto(r, [Idle EXCEPT !.goal = "submitKey", !.pc = "lockAction", !.id = a,
                                   !.type = keyAction[a].type, !.target = keyAction[a].target,
                                   !.signer = keyAction[a].signer, !.stamp = now])
    BY <1>8 DEF SubmitKeyAction, Start
  <2>2. req'[r] = [Idle EXCEPT !.goal = "submitKey", !.pc = "lockAction", !.id = a,
                               !.type = keyAction[a].type, !.target = keyAction[a].target,
                               !.signer = keyAction[a].signer, !.stamp = now]
    BY <2>1, <1>01
  <2>3. req'[r].pc = "lockAction" /\ req'[r].stamp = now
    BY <2>2 DEF Idle
  <2>4. now \in Nat
    BY KeyAssumption DEF KeyAssumption
  <2> QED
    BY <2>1, <2>3, <2>4 DEF BeginsKeyTx, IsNow
<1>9. CASE InsertPasskey(r) \/ RejectPendingPasskey(r) \/ Abort(r)
  BY <1>9, <1>01, <1>02 DEF InsertPasskey, RejectPendingPasskey, Abort
<1>10. CASE ReadRegistry(r)
  <2>1. q.pc = "read" /\ q.goal \in Refreshing
    BY <1>10, <1>0 DEF ReadRegistry, LinkOK
  <2>2. ASSUME NEW status, Goto(r, Resume(q, status))
        PROVE  req'[r].pc \in FreshPcs
    BY <2>1, <2>2, <1>0, <1>01, ResumedFresh
  <2>3. ASSUME NEW next \in {"ACTIVE", "REVOKED"}, Goto(r, [q EXCEPT !.pc = "write", !.seen = next]),
               registry[q.cred] # "absent",
               next = IF registry[q.cred] = "active" THEN "ACTIVE" ELSE "REVOKED"
        PROVE  ReadAnswer(r)
    <3>1. req'[r] = [q EXCEPT !.pc = "write", !.seen = next]
      BY <2>3, <1>01
    <3>2. req'[r].pc = "write" /\ req'[r].cred = q.cred /\ req'[r].seen = next
      BY <3>1, <1>0 DEF Request
    <3> QED
      BY <2>3, <3>2 DEF ReadAnswer
  <2> QED
    BY <1>10, <2>2, <2>3 DEF ReadRegistry
<1>11. CASE RegistryUnavailable(r) \/ UpdatePasskeyStatus(r)
  <2>1. q.goal \in Refreshing /\ \E status : Goto(r, Resume(q, status))
    BY <1>11, <1>0 DEF RegistryUnavailable, UpdatePasskeyStatus, LinkOK
  <2> QED
    BY <2>1, <1>0, <1>01, ResumedFresh
<1> QED
  BY <1>1, <1>3, <1>4, <1>5, <1>6, <1>7, <1>8, <1>9, <1>10, <1>11 DEF QuietAction

\* What a step may do to the row of c: it is inserted, rejected or refreshed.
RowStep(c) ==
    \/ passkey'[c] = passkey[c]
    \/ passkey[c] = "None" /\ passkey'[c] = "PENDING"
    \/ /\ passkey[c] = "PENDING" /\ passkey'[c] = "REJECTED"
       /\ RowFree(c) /\ ~LatestIn(c, {"SENT", "APPLIED"})
    \/ /\ RowFree(c)
       /\ \E r \in Requests : req[r].pc = "write" /\ req[r].cred = c /\ passkey'[c] = req[r].seen

\* Every quiet step does only that.
LEMMA QuietRows ==
    ASSUME TypedLinks, NEW r \in Requests, QuietAction(r), NEW c \in Creds
    PROVE  RowStep(c)
<1>0. passkey \in [Creds -> Statuses]
  BY DEF TypedLinks, TypeOK
<1>1. CASE UNCHANGED passkey
  BY <1>1 DEF RowStep
<1>2. CASE InsertPasskey(r)
  BY <1>0, <1>2 DEF InsertPasskey, RowStep
<1>3. CASE RejectPendingPasskey(r)
  BY <1>0, <1>3 DEF RejectPendingPasskey, RowStep
<1>4. CASE UpdatePasskeyStatus(r)
  BY <1>0, <1>4 DEF UpdatePasskeyStatus, RowStep
<1>5. CASE ReadRegistry(r) \/ RegistryUnavailable(r) \/ Abort(r)
  BY <1>1, <1>5 DEF ReadRegistry, RegistryUnavailable, Abort, dbVars
<1> QED
  BY <1>1, <1>2, <1>3, <1>4, <1>5
     DEF QuietAction, FinishRegistration, RejectKey, ViewPasskey, DraftOperation, DraftKeyAction,
         SubmitKeyAction, SubmitOperation, dbVars

\* No other step touches a row.
LEMMA OtherRows ==
    ASSUME WorldAction \/ (\E r \in Requests : LoudAction(r))
    PROVE  passkey' = passkey
BY DEF WorldAction, BeginRegistration, Restart, ExecuteNext, DropNext, Settle, OwnerRevokeKey,
       LoudAction, InsertKeyAction, LockAction, LockTarget, CommitKeyAction, InsertOperation,
       LockOperation, LockSigner, CheckRevoke, WriteActions, dbVars

\* The registry only moves on: from absent to active to revoked.
LEMMA RegistryMoves ==
    ASSUME TypedLinks, [Next]_vars, NEW c \in Creds
    PROVE  /\ registry[c] # "absent" => registry'[c] # "absent"
           /\ registry[c] = "revoked" => registry'[c] = "revoked"
<1>0. registry \in [Creds -> {"absent", "active", "revoked"}]
  BY DEF TypedLinks, TypeOK
<1>1. CASE registry' = registry
  BY <1>1
<1>2. CASE ExecuteNext
  <2> DEFINE a == outbox[done + 1]
  <2>1. CASE a \in KeyIds /\ Accepts(a)
    <3>1. a \notin OpIds
      BY <2>1, KeyAssumption DEF KeyAssumption
    <3>2. registry[keyAction[a].target] = IF keyAction[a].type = "KeyRegister" THEN "absent" ELSE "active"
      BY <2>1, <3>1 DEF Accepts
    <3>3. registry' = [registry EXCEPT ![keyAction[a].target] =
                          IF keyAction[a].type = "KeyRegister" THEN "active" ELSE "revoked"]
      BY <1>2, <2>1 DEF ExecuteNext
    <3> QED
      BY <1>0, <3>2, <3>3
  <2>2. CASE ~(a \in KeyIds /\ Accepts(a))
    BY <1>1, <1>2, <2>2 DEF ExecuteNext
  <2> QED
    BY <2>1, <2>2
<1>3. ASSUME NEW d \in Creds, OwnerRevokeKey(d)
      PROVE  /\ registry[c] # "absent" => registry'[c] # "absent"
             /\ registry[c] = "revoked" => registry'[c] = "revoked"
  BY <1>0, <1>3 DEF OwnerRevokeKey
<1>4. ASSUME NEW r \in Requests, QuietAction(r) \/ LoudAction(r)
      PROVE  registry' = registry
  <2>1. CASE QuietAction(r)
    BY <2>1, QuietStep DEF Quiet, chainVars
  <2>2. CASE LoudAction(r)
    BY <2>2 DEF LoudAction, InsertKeyAction, LockAction, LockTarget, CommitKeyAction, InsertOperation,
         LockOperation, LockSigner, CheckRevoke, WriteActions, chainVars
  <2> QED
    BY <1>4, <2>1, <2>2
<1>5. CASE WorldAction
  BY <1>1, <1>2, <1>3, <1>5
     DEF WorldAction, BeginRegistration, Restart, DropNext, Settle, chainVars
<1>6. CASE UNCHANGED vars
  BY <1>1, <1>6 DEF vars, chainVars
<1> QED
  BY <1>1, <1>4, <1>5, <1>6, NextCases

-----------------------------------------------------------------------------
(* A status is never ahead of the registry. *)

\* What a request read from the registry still stands there when it is stored.
SeenStands ==
    \A r \in Requests :
        req[r].pc = "write" =>
            \/ req[r].seen = "ACTIVE" /\ registry[req[r].cred] # "absent"
            \/ req[r].seen = "REVOKED" /\ registry[req[r].cred] = "revoked"

StatusInv == SeenStands /\ StatusFollowsRegistry

\* At the start nothing is read, and exactly the ACTIVE keys are registered.
LEMMA StatusInit == Init => StatusInv
<1> SUFFICES ASSUME Init PROVE StatusInv
  OBVIOUS
<1>1. SeenStands
  BY DEF Init, Idle, SeenStands
<1>2. StatusFollowsRegistry
  BY DEF Init, StatusFollowsRegistry
<1> QED
  BY <1>1, <1>2 DEF StatusInv

\* Who has an answer to store after a step had it before, or has just read it.
LEMMA WriteMoves ==
    ASSUME TypedLinks, [Next]_vars, NEW s \in Requests, req'[s].pc = "write"
    PROVE  req'[s] = req[s] \/ (ReadAnswer(s) /\ registry' = registry)
<1>0. req \in [Requests -> Request]
  BY DEF TypedLinks, TypeOK
<1>1. ASSUME NEW r \in Requests, QuietAction(r)
      PROVE  req'[s] = req[s] \/ (ReadAnswer(s) /\ registry' = registry)
  <2>1. Quiet(r) /\ req' = [req EXCEPT ![r] = req'[r]] /\ registry' = registry
    BY <1>1, QuietStep DEF Quiet, chainVars
  <2>2. req'[r].pc \in FreshPcs \/ ReadAnswer(r) \/ BeginsKeyTx(r)
    BY <1>1, QuietMoves
  <2> QED
    BY <1>0, <2>1, <2>2 DEF FreshPcs, BeginsKeyTx
<1>2. ASSUME NEW r \in Requests, LoudAction(r)
      PROVE  req'[s] = req[s]
  <2>1. CASE \E from, to : LockStep(r, from, to) /\ <<from, to>> \in KeyMoves \union OpMoves
    BY <1>0, <2>1, MoveFacts DEF KeyMoves, OpMoves
  <2>2. CASE req' = [req EXCEPT ![r] = Idle]
    BY <1>0, <2>2 DEF Idle
  <2> QED
    BY <1>2, <2>1, <2>2, LockSteps
       DEF LoudAction, InsertKeyAction, CommitKeyAction, InsertOperation, WriteActions, Goto,
           KeyMoves, OpMoves
<1>3. CASE WorldAction
  BY <1>3 DEF WorldAction, BeginRegistration, Restart, ExecuteNext, DropNext, Settle, OwnerRevokeKey, Idle
<1>4. CASE UNCHANGED vars
  BY <1>4 DEF vars
<1> QED
  BY <1>1, <1>2, <1>3, <1>4, NextCases

\* It is inductive, given the types and links.
LEMMA StatusStep == TypedLinks /\ StatusInv /\ [Next]_vars => StatusInv'
<1> SUFFICES ASSUME TypedLinks, StatusInv, [Next]_vars PROVE StatusInv'
  OBVIOUS
<1>1. registry \in [Creds -> {"absent", "active", "revoked"}]
  BY DEF TypedLinks, TypeOK
<1>2. SeenStands'
  <2> SUFFICES ASSUME NEW s \in Requests, req'[s].pc = "write"
               PROVE  \/ req'[s].seen = "ACTIVE" /\ registry'[req'[s].cred] # "absent"
                      \/ req'[s].seen = "REVOKED" /\ registry'[req'[s].cred] = "revoked"
    BY DEF SeenStands
  <2>1. CASE req'[s] = req[s]
    <3>1. req[s].cred \in Creds
      BY <2>1 DEF TypedLinks, Links, LinkOK
    <3> QED
      BY <2>1, <3>1, RegistryMoves DEF StatusInv, SeenStands
  <2>2. CASE ReadAnswer(s) /\ registry' = registry
    <3>1. req'[s].cred \in Creds
      BY TypedLinksStep DEF TypedLinks, Links, LinkOK
    <3> QED
      BY <1>1, <2>2, <3>1 DEF ReadAnswer
  <2> QED
    BY <2>1, <2>2, WriteMoves
<1>3. StatusFollowsRegistry'
  <2> SUFFICES ASSUME NEW c \in Creds
               PROVE  /\ passkey'[c] = "ACTIVE" => registry'[c] # "absent"
                      /\ passkey'[c] = "REVOKED" => registry'[c] = "revoked"
    BY DEF StatusFollowsRegistry
  <2>1. RowStep(c)
    BY NextCases, QuietRows, OtherRows DEF RowStep, vars, dbVars
  <2>2. CASE passkey'[c] = passkey[c]
    BY <2>2, RegistryMoves DEF StatusInv, StatusFollowsRegistry
  <2>3. CASE passkey'[c] \in {"PENDING", "REJECTED"}
    BY <2>3
  <2>4. CASE \E r \in Requests : req[r].pc = "write" /\ req[r].cred = c /\ passkey'[c] = req[r].seen
    BY <2>4, RegistryMoves DEF StatusInv, SeenStands
  <2> QED
    BY <2>1, <2>2, <2>3, <2>4 DEF RowStep
<1> QED
  BY <1>2, <1>3 DEF StatusInv

\* syncStatuses and confirmActive, with whatever delay between the registry's answer and the
\* write, and whatever order of the writes of several requests: a row is ACTIVE only after the
\* registration of its key and REVOKED only after the revocation.
THEOREM StatusCorrect == Spec => []StatusFollowsRegistry
<1>1. StatusInv => StatusFollowsRegistry
  BY DEF StatusInv
<1> QED
  BY <1>1, TypedLinksInit, TypedLinksStep, StatusInit, StatusStep, PTL DEF Spec

-----------------------------------------------------------------------------
(* The chain decides what the WMS accepted. *)

\* What was decided was taken from the outbox, and a row that is settled tells the decision.
DecidedIsTaken == \A a \in Ids : decided[a] # "None" => \E i \in 1..done : outbox[i] = a

SettledTellsDecision ==
    \A a \in Ids : /\ oe[a] = "FAILED" => decided[a] \in {"Rejected", "Dropped"}
                   /\ oe[a] = "COMMITTED" => decided[a] = "Applied"

\* A revocation of c the adapter has taken and the contract has applied is at i.
RevokedAt(i, c) ==
    /\ outbox[i] \in KeyIds
    /\ keyAction[outbox[i]].type = "KeyRevoke"
    /\ keyAction[outbox[i]].target = c
    /\ decided[outbox[i]] = "Applied"

\* A key that is revoked was revoked by the owner or by such an action.
RevokedByAction ==
    \A c \in Creds : registry[c] = "revoked" => c \in OwnerRevokes \/ \E i \in 1..done : RevokedAt(i, c)

\* The key of an operation that is submitted, or about to be, was registered.
SignerRegistered ==
    /\ \A r \in Requests : req[r].pc \in {"checkRevoke", "commitOp"} => registry[req[r].signer] # "absent"
    /\ \A o \in OpIds : op[o].submitted => op[o].signer \in Creds /\ registry[op[o].signer] # "absent"

\* A draft registers or revokes.
DraftsTyped == \A a \in KeyIds : keyAction[a] = NoAction \/ keyAction[a].type \in KeyTypes

ChainInv ==
    /\ DecidedIsTaken /\ SettledTellsDecision /\ RevokedByAction
    /\ SignerRegistered /\ DraftsTyped /\ AcceptedIsApplied

\* At the start nothing is decided, submitted or revoked.
LEMMA ChainInit == Init => ChainInv
<1> SUFFICES ASSUME Init PROVE ChainInv
  OBVIOUS
<1>1. DecidedIsTaken /\ SettledTellsDecision
  BY DEF Init, DecidedIsTaken, SettledTellsDecision
<1>2. RevokedByAction
  BY DEF Init, RevokedByAction
<1>3. SignerRegistered
  <2>1. \A r \in Requests : req[r].pc = "idle"
    BY DEF Init, Idle
  <2>2. \A o \in OpIds : op[o].submitted = FALSE
    BY DEF Init, NoOp
  <2> QED
    BY <2>1, <2>2 DEF SignerRegistered
<1>4. AcceptedIsApplied
  BY DEF Init, AcceptedIsApplied, Ids
<1>5. DraftsTyped
  BY DEF Init, DraftsTyped
<1> QED
  BY <1>1, <1>2, <1>3, <1>4, <1>5 DEF ChainInv

\* A row of key_actions is written when it is inserted and when it is submitted.
LEMMA DraftMoves ==
    ASSUME TypedLinks, [Next]_vars, NEW a \in KeyIds
    PROVE  \/ keyAction'[a] = keyAction[a]
           \/ /\ keyAction[a] = NoAction /\ keyAction'[a].type \in KeyTypes
              /\ keyAction'[a].submitted = 0
           \/ /\ keyAction[a] # NoAction
              /\ keyAction'[a].type = keyAction[a].type /\ keyAction'[a].target = keyAction[a].target
              /\ \E r \in Requests : CommitKeyAction(r) /\ req[r].id = a /\ keyAction'[a].submitted = req[r].stamp
<1>0. TypeOK
  BY DEF TypedLinks
<1>1. CASE keyAction' = keyAction
  BY <1>1
<1>2. ASSUME NEW r \in Requests, InsertKeyAction(r)
      PROVE  \/ keyAction'[a] = keyAction[a]
             \/ keyAction[a] = NoAction /\ keyAction'[a].type \in KeyTypes /\ keyAction'[a].submitted = 0
  <2>1. req[r].type \in KeyTypes
    BY <1>2 DEF InsertKeyAction, TypedLinks, Links, LinkOK
  <2>2. PICK b \in KeyIds :
           /\ keyAction[b] = NoAction
           /\ keyAction' = [keyAction EXCEPT ![b] = [type |-> req[r].type, target |-> req[r].target,
                                                     signer |-> req[r].signer, submitted |-> 0]]
    BY <1>2 DEF InsertKeyAction
  <2> QED
    BY <1>0, <2>1, <2>2 DEF TypeOK
<1>3. ASSUME NEW r \in Requests, CommitKeyAction(r)
      PROVE  \/ keyAction'[a] = keyAction[a]
             \/ /\ keyAction[a] # NoAction
                /\ keyAction'[a].type = keyAction[a].type /\ keyAction'[a].target = keyAction[a].target
                /\ req[r].id = a /\ keyAction'[a].submitted = req[r].stamp
  <2>1. /\ req[r].pc = "commitKey"
        /\ keyAction' = [keyAction EXCEPT ![req[r].id].submitted = req[r].stamp]
    BY <1>3 DEF CommitKeyAction
  <2>2. req[r].id \in KeyIds /\ keyAction[req[r].id] # NoAction
    BY <2>1 DEF TypedLinks, Links, LinkOK, KeyTxPcs
  <2> QED
    BY <1>0, <2>1, <2>2 DEF TypeOK
<1>4. ASSUME NEW r \in Requests, QuietAction(r)
      PROVE  keyAction' = keyAction
  BY <1>4, QuietStep DEF Quiet
<1>5. ASSUME NEW r \in Requests, LoudAction(r), ~CommitKeyAction(r), ~InsertKeyAction(r)
      PROVE  keyAction' = keyAction
  BY <1>5 DEF LoudAction, InsertOperation, LockAction, LockTarget, WriteActions,
       LockOperation, LockSigner, CheckRevoke, dbVars
<1>6. WorldAction \/ UNCHANGED vars => keyAction' = keyAction
  BY DEF WorldAction, BeginRegistration, Restart, ExecuteNext, DropNext, Settle, OwnerRevokeKey, vars, dbVars
<1> QED
  BY <1>1, <1>2, <1>3, <1>4, <1>5, <1>6, NextCases

\* Rows of the outbox stay where they are, and what is submitted is never changed.
LEMMA SubmittedKept ==
    ASSUME TypedLinks, LockInv, [Next]_vars
    PROVE  /\ \A i \in 1..Len(outbox) : i \in 1..Len(outbox') /\ outbox'[i] = outbox[i]
           /\ \A a \in KeyIds : keyAction[a].submitted > 0 => keyAction'[a] = keyAction[a]
           /\ \A o \in OpIds : op[o].submitted => op'[o] = op[o]
<1>0. TypeOK /\ outbox \in Seq(Ids)
  BY DEF TypedLinks, TypeOK
<1>1. CASE UNCHANGED <<keyAction, op, outbox>>
  BY <1>1
<1>2. ASSUME NEW r \in Requests, CommitKeyAction(r)
      PROVE  /\ \A i \in 1..Len(outbox) : i \in 1..Len(outbox') /\ outbox'[i] = outbox[i]
             /\ \A a \in KeyIds : keyAction[a].submitted > 0 => keyAction'[a] = keyAction[a]
             /\ op' = op
  <2>1. /\ req[r].pc = "commitKey" /\ op' = op
        /\ outbox' = Append(outbox, req[r].id)
        /\ keyAction' = [keyAction EXCEPT ![req[r].id].submitted = req[r].stamp]
    BY <1>2 DEF CommitKeyAction
  <2>2. req[r].id \in Ids /\ keyAction[req[r].id].submitted = 0
    BY <2>1 DEF TypedLinks, Links, LinkOK, KeyTxPcs, Ids, LockInv, LockedIsDraft, KeyLockPcs
  <2>3. \A i \in 1..Len(outbox) : i \in 1..Len(outbox') /\ outbox'[i] = outbox[i]
    BY <1>0, <2>1, <2>2, AppendTyped
  <2>4. \A a \in KeyIds : keyAction[a].submitted > 0 => keyAction'[a] = keyAction[a]
    BY <1>0, <2>1, <2>2 DEF TypeOK
  <2> QED
    BY <2>1, <2>3, <2>4
<1>3. ASSUME NEW r \in Requests, WriteActions(r)
      PROVE  /\ \A i \in 1..Len(outbox) : i \in 1..Len(outbox') /\ outbox'[i] = outbox[i]
             /\ keyAction' = keyAction
             /\ \A o \in OpIds : op[o].submitted => op'[o] = op[o]
  <2>1. /\ req[r].pc = "commitOp" /\ keyAction' = keyAction
        /\ outbox' = Append(outbox, req[r].id)
        /\ op' = [op EXCEPT ![req[r].id].submitted = TRUE]
    BY <1>3 DEF WriteActions
  <2>2. req[r].id \in Ids /\ ~op[req[r].id].submitted
    BY <2>1 DEF TypedLinks, Links, LinkOK, OpTxPcs, Ids, LockInv, LockedIsDraft, OpLockPcs
  <2>3. \A i \in 1..Len(outbox) : i \in 1..Len(outbox') /\ outbox'[i] = outbox[i]
    BY <1>0, <2>1, <2>2, AppendTyped
  <2>4. \A o \in OpIds : op[o].submitted => op'[o] = op[o]
    BY <1>0, <2>1, <2>2 DEF TypeOK
  <2> QED
    BY <2>1, <2>3, <2>4
<1>4. ASSUME NEW r \in Requests, InsertKeyAction(r)
      PROVE  /\ op' = op /\ outbox' = outbox
             /\ \A a \in KeyIds : keyAction[a].submitted > 0 => keyAction'[a] = keyAction[a]
  BY <1>0, <1>4 DEF InsertKeyAction, TypeOK, NoAction
<1>5. ASSUME NEW r \in Requests, InsertOperation(r)
      PROVE  /\ keyAction' = keyAction /\ outbox' = outbox
             /\ \A o \in OpIds : op[o].submitted => op'[o] = op[o]
  <2>1. PICK o \in OpIds : op[o] = NoOp /\ op' = [op EXCEPT ![o].signer = req[r].signer]
    BY <1>5 DEF InsertOperation
  <2>2. op[o].submitted = FALSE
    BY <2>1 DEF NoOp
  <2>3. \A p \in OpIds : p # o => op'[p] = op[p]
    BY <1>0, <2>1 DEF TypeOK
  <2> QED
    BY <1>5, <2>2, <2>3 DEF InsertOperation
<1>6. ASSUME NEW r \in Requests, QuietAction(r)
      PROVE  UNCHANGED <<keyAction, op, outbox>>
  BY <1>6, QuietStep DEF Quiet
<1>7. ASSUME NEW r \in Requests,
             LockAction(r) \/ LockTarget(r) \/ LockOperation(r) \/ LockSigner(r) \/ CheckRevoke(r)
      PROVE  UNCHANGED <<keyAction, op, outbox>>
  BY <1>7, LockSteps DEF LockStep, dbVars
<1>8. CASE WorldAction
  BY <1>1, <1>8 DEF WorldAction, BeginRegistration, Restart, ExecuteNext, DropNext, Settle, OwnerRevokeKey, dbVars
<1>9. CASE UNCHANGED vars
  BY <1>1, <1>9 DEF vars, dbVars
<1>10. ASSUME NEW r \in Requests, LoudAction(r)
       PROVE  /\ \A i \in 1..Len(outbox) : i \in 1..Len(outbox') /\ outbox'[i] = outbox[i]
              /\ \A a \in KeyIds : keyAction[a].submitted > 0 => keyAction'[a] = keyAction[a]
              /\ \A o \in OpIds : op[o].submitted => op'[o] = op[o]
  BY <1>2, <1>3, <1>4, <1>5, <1>7, <1>10 DEF LoudAction
<1> QED
  BY <1>1, <1>6, <1>8, <1>9, <1>10, NextCases

\* What the environment does: it takes the next row, settles one it has decided, or revokes.
ChainStep == ExecuteNext \/ DropNext \/ (\E a \in Ids : Settle(a)) \/ \E c \in Creds : OwnerRevokeKey(c)

\* Everything else leaves it alone.
LEMMA ChainCases ==
    ASSUME TypedLinks, [Next]_vars
    PROVE  ChainStep \/ UNCHANGED chainVars
<1>1. ASSUME NEW r \in Requests, QuietAction(r)
      PROVE  UNCHANGED chainVars
  BY <1>1, QuietStep DEF Quiet
<1>2. ASSUME NEW r \in Requests, LoudAction(r)
      PROVE  UNCHANGED chainVars
  BY <1>2 DEF LoudAction, InsertKeyAction, LockAction, LockTarget, CommitKeyAction, InsertOperation,
         LockOperation, LockSigner, CheckRevoke, WriteActions
<1>3. CASE WorldAction
  BY <1>3 DEF WorldAction, ChainStep, BeginRegistration, Restart
<1>4. CASE UNCHANGED vars
  BY <1>4 DEF vars
<1> QED
  BY <1>1, <1>2, <1>3, <1>4, NextCases

\* A row the adapter has not taken is not decided.
LEMMA NextIsUndecided ==
    ASSUME TypedLinks, OutboxInv, DecidedIsTaken, done < Len(outbox)
    PROVE  /\ done + 1 \in DOMAIN outbox /\ outbox[done + 1] \in Ids
           /\ decided[outbox[done + 1]] = "None"
           /\ \A i \in 1..done : outbox[i] # outbox[done + 1] /\ outbox[i] \in Ids
<1>1. outbox \in Seq(Ids) /\ done \in 0..Len(outbox)
  BY DEF TypedLinks, TypeOK
<1>2. done + 1 \in DOMAIN outbox /\ outbox[done + 1] \in Ids /\ \A i \in 1..done : i \in DOMAIN outbox
  BY <1>1
<1>3. \A i \in 1..done : outbox[i] # outbox[done + 1] /\ outbox[i] \in Ids
  BY <1>1, <1>2 DEF OutboxInv, SubmittedOnce
<1> QED
  BY <1>2, <1>3 DEF DecidedIsTaken

\* The verdict on an operation: its key is registered and, behind an applied revocation,
\* there is none of its operations.
LEMMA OperationAccepted ==
    ASSUME TypedLinks, OutboxInv, ChainInv, done < Len(outbox), outbox[done + 1] \in OpIds,
           ~Accepts(outbox[done + 1])
    PROVE  op[outbox[done + 1]].signer \in OwnerRevokes
<1> DEFINE o == outbox[done + 1]
           c == op[o].signer
<1>1. done + 1 \in DOMAIN outbox /\ done \in Nat
  BY NextIsUndecided DEF ChainInv, TypedLinks, TypeOK
<1>2. op[o].submitted
  BY <1>1 DEF OutboxInv, SubmittedOnce
<1>3. c \in Creds /\ registry[c] # "absent"
  BY <1>2 DEF ChainInv, SignerRegistered
<1>4. registry[c] = "revoked"
  BY <1>3 DEF Accepts, TypedLinks, TypeOK
<1>5. SUFFICES ASSUME c \notin OwnerRevokes PROVE FALSE
  OBVIOUS
<1>6. PICK i \in 1..done : RevokedAt(i, c)
  BY <1>3, <1>4, <1>5 DEF ChainInv, RevokedByAction
<1>7. i \in DOMAIN outbox /\ i < done + 1
  BY <1>1 DEF TypedLinks, TypeOK
<1>8. oe[outbox[i]] = "FAILED"
  BY <1>1, <1>6, <1>7 DEF RevokedAt, OutboxInv, OutboxOrder
<1> QED
  BY <1>6, <1>8 DEF RevokedAt, ChainInv, SettledTellsDecision, Ids

\* The adapter takes the next row and something is decided about it.
LEMMA TakeChain ==
    ASSUME TypedLinks, OutboxInv, ChainInv, [Next]_vars, NEW verdict \in {"Applied", "Rejected", "Dropped"},
           done < Len(outbox), done' = done + 1, UNCHANGED <<dbVars, sessions, req, oe>>,
           decided' = [decided EXCEPT ![outbox[done + 1]] = verdict]
    PROVE  /\ DecidedIsTaken' /\ SettledTellsDecision' /\ SignerRegistered'
           /\ \A c \in Creds, i \in 1..done : i \in 1..done' /\ (RevokedAt(i, c) => RevokedAt(i, c)')
           /\ decided'[outbox[done + 1]] = verdict
           /\ \A a \in Ids : a # outbox[done + 1] => decided'[a] = decided[a]
           /\ done + 1 \in 1..done'
<1> DEFINE b == outbox[done + 1]
<1>0. done \in Nat /\ decided \in [Ids -> {"None", "Applied", "Rejected", "Dropped"}]
  BY DEF TypedLinks, TypeOK
<1>1. b \in Ids /\ decided[b] = "None" /\ \A i \in 1..done : outbox[i] # b /\ outbox[i] \in Ids
  BY NextIsUndecided DEF ChainInv
<1>2. decided'[b] = verdict /\ \A a \in Ids : a # b => decided'[a] = decided[a]
  BY <1>0, <1>1
<1>3. done + 1 \in 1..done' /\ \A i \in 1..done : i \in 1..done'
  BY <1>0
<1>4. outbox' = outbox /\ keyAction' = keyAction /\ op' = op /\ oe' = oe /\ req' = req
  BY DEF dbVars
<1>5. DecidedIsTaken'
  <2> SUFFICES ASSUME NEW a \in Ids, decided'[a] # "None" PROVE \E i \in 1..done' : outbox[i] = a
    BY <1>4 DEF DecidedIsTaken
  <2>1. CASE a = b
    BY <2>1, <1>3
  <2>2. CASE a # b
    BY <2>2, <1>2, <1>3 DEF ChainInv, DecidedIsTaken
  <2> QED
    BY <2>1, <2>2
<1>6. SettledTellsDecision'
  <2> SUFFICES ASSUME NEW a \in Ids
               PROVE  /\ oe[a] = "FAILED" => decided'[a] \in {"Rejected", "Dropped"}
                      /\ oe[a] = "COMMITTED" => decided'[a] = "Applied"
    BY <1>4 DEF SettledTellsDecision
  <2>1. a # b \/ (oe[a] # "FAILED" /\ oe[a] # "COMMITTED")
    BY <1>1 DEF ChainInv, SettledTellsDecision
  <2> QED
    BY <2>1, <1>2 DEF ChainInv, SettledTellsDecision
<1>7. SignerRegistered'
  <2>1. \A r \in Requests : req[r].pc \in {"checkRevoke", "commitOp"} => req[r].signer \in Creds
    BY DEF TypedLinks, Links, LinkOK, OpTxPcs
  <2> QED
    BY <2>1, <1>4, RegistryMoves DEF ChainInv, SignerRegistered
<1>8. \A c \in Creds, i \in 1..done : RevokedAt(i, c) => RevokedAt(i, c)'
  BY <1>1, <1>2, <1>4 DEF RevokedAt
<1> QED
  BY <1>2, <1>3, <1>5, <1>6, <1>7, <1>8

\* The next row is executed.
LEMMA ExecuteChain ==
    ASSUME TypedLinks, OutboxInv, ChainInv, ExecuteNext
    PROVE  ChainInv'
<1> DEFINE b == outbox[done + 1]
           verdict == IF Accepts(b) THEN "Applied" ELSE "Rejected"
<1>1. /\ done < Len(outbox) /\ done' = done + 1 /\ UNCHANGED <<dbVars, sessions, req, oe>>
      /\ decided' = [decided EXCEPT ![b] = verdict]
      /\ verdict \in {"Applied", "Rejected", "Dropped"} /\ [Next]_vars
  BY DEF ExecuteNext, Next
<1>2. /\ DecidedIsTaken' /\ SettledTellsDecision' /\ SignerRegistered'
      /\ \A c \in Creds, i \in 1..done : i \in 1..done' /\ (RevokedAt(i, c) => RevokedAt(i, c)')
      /\ decided'[b] = verdict
      /\ \A a \in Ids : a # b => decided'[a] = decided[a]
      /\ done + 1 \in 1..done'
  <2> HIDE DEF verdict
  <2> QED
    BY <1>1, TakeChain
<1>3. outbox' = outbox /\ keyAction' = keyAction /\ op' = op
  BY <1>1 DEF dbVars
<1>4. RevokedByAction'
  <2> SUFFICES ASSUME NEW c \in Creds, registry'[c] = "revoked", c \notin OwnerRevokes
               PROVE  \E i \in 1..done' : RevokedAt(i, c)'
    BY DEF RevokedByAction
  <2>1. CASE registry[c] = "revoked"
    BY <2>1, <1>2 DEF ChainInv, RevokedByAction
  <2>2. CASE registry[c] # "revoked"
    <3>1. /\ b \in KeyIds /\ Accepts(b) /\ keyAction[b].target = c /\ keyAction[b].type # "KeyRegister"
      BY <2>2 DEF ExecuteNext, TypedLinks, TypeOK
    <3>2. b \notin OpIds
      BY <3>1, KeyAssumption DEF KeyAssumption
    <3>3. keyAction[b].type = "KeyRevoke"
      <4>1. keyAction[b].submitted > 0
        BY <3>1, <1>1, NextIsUndecided DEF OutboxInv, SubmittedOnce, ChainInv
      <4>2. keyAction[b].type \in KeyTypes
        BY <3>1, <4>1 DEF ChainInv, DraftsTyped, NoAction
      <4> QED
        BY <3>1, <4>2 DEF KeyTypes
    <3>4. decided'[b] = "Applied"
      BY <1>2, <3>1
    <3>5. PICK j \in 1..done' : j = done + 1
      BY <1>2
    <3>6. outbox'[j] = b
      BY <1>3, <3>5
    <3>7. RevokedAt(j, c)'
      BY <1>3, <3>1, <3>3, <3>4, <3>6 DEF RevokedAt
    <3> QED
      BY <3>7
  <2> QED
    BY <2>1, <2>2
<1>5. AcceptedIsApplied'
  <2> SUFFICES ASSUME NEW o \in OpIds, decided'[o] = "Rejected" PROVE op[o].signer \in OwnerRevokes
    BY <1>3 DEF AcceptedIsApplied
  <2>1. CASE o = b
    BY <2>1, <1>1, <1>2, OperationAccepted
  <2>2. CASE o # b
    BY <2>2, <1>2 DEF ChainInv, AcceptedIsApplied, Ids
  <2> QED
    BY <2>1, <2>2
<1>6. DraftsTyped'
  BY <1>3 DEF ChainInv, DraftsTyped
<1> QED
  BY <1>2, <1>4, <1>5, <1>6 DEF ChainInv

\* The next row is given up.
LEMMA DropChain ==
    ASSUME TypedLinks, OutboxInv, ChainInv, DropNext
    PROVE  ChainInv'
<1>1. /\ done < Len(outbox) /\ done' = done + 1 /\ UNCHANGED <<dbVars, sessions, req, oe>>
      /\ decided' = [decided EXCEPT ![outbox[done + 1]] = "Dropped"]
      /\ [Next]_vars /\ registry' = registry
  BY DEF DropNext, Next
<1>2. /\ DecidedIsTaken' /\ SettledTellsDecision' /\ SignerRegistered'
      /\ \A c \in Creds, i \in 1..done : i \in 1..done' /\ (RevokedAt(i, c) => RevokedAt(i, c)')
      /\ decided'[outbox[done + 1]] = "Dropped"
      /\ \A a \in Ids : a # outbox[done + 1] => decided'[a] = decided[a]
  BY <1>1, TakeChain
<1>3. RevokedByAction'
  BY <1>1, <1>2 DEF ChainInv, RevokedByAction
<1>4. AcceptedIsApplied' /\ DraftsTyped'
  BY <1>1, <1>2 DEF ChainInv, AcceptedIsApplied, DraftsTyped, Ids, dbVars
<1> QED
  BY <1>2, <1>3, <1>4 DEF ChainInv

\* A decided row is settled, or the owner revokes a key.
LEMMA SettleChain ==
    ASSUME TypedLinks, ChainInv, (\E a \in Ids : Settle(a)) \/ \E c \in Creds : OwnerRevokeKey(c)
    PROVE  ChainInv'
<1>1. UNCHANGED <<dbVars, req, decided, done>> /\ [Next]_vars
  BY DEF Settle, OwnerRevokeKey, Next
<1>2. DecidedIsTaken' /\ AcceptedIsApplied' /\ DraftsTyped'
  BY <1>1 DEF ChainInv, DecidedIsTaken, AcceptedIsApplied, DraftsTyped, dbVars
<1>3. \A c \in Creds, i \in 1..done : RevokedAt(i, c) <=> RevokedAt(i, c)'
  BY <1>1 DEF RevokedAt, dbVars
<1>4. SignerRegistered'
  <2>1. \A r \in Requests : req[r].pc \in {"checkRevoke", "commitOp"} => req[r].signer \in Creds
    BY DEF TypedLinks, Links, LinkOK, OpTxPcs
  <2> QED
    BY <2>1, <1>1, RegistryMoves DEF ChainInv, SignerRegistered, dbVars
<1>5. SettledTellsDecision'
  <2>1. ASSUME NEW b \in Ids, Settle(b)
        PROVE  SettledTellsDecision'
    <3>1. /\ decided[b] # "None" /\ decided' = decided
          /\ oe' = [oe EXCEPT ![b] = IF decided[b] = "Applied" THEN "COMMITTED" ELSE "FAILED"]
      BY <2>1 DEF Settle
    <3>2. decided[b] \in {"None", "Applied", "Rejected", "Dropped"} /\ oe \in [Ids -> {"NULL", "COMMITTED", "FAILED"}]
      BY DEF TypedLinks, TypeOK
    <3> QED
      BY <3>1, <3>2 DEF ChainInv, SettledTellsDecision
  <2>2. CASE oe' = oe
    BY <2>2, <1>1 DEF ChainInv, SettledTellsDecision
  <2> QED
    BY <2>1, <2>2 DEF OwnerRevokeKey
<1>6. RevokedByAction'
  <2>1. CASE registry' = registry
    BY <2>1, <1>1, <1>3 DEF ChainInv, RevokedByAction
  <2>2. ASSUME NEW d \in Creds, OwnerRevokeKey(d)
        PROVE  RevokedByAction'
    <3>1. d \in OwnerRevokes /\ \A c \in Creds : c # d => registry'[c] = registry[c]
      BY <2>2 DEF OwnerRevokeKey, TypedLinks, TypeOK
    <3> QED
      BY <3>1, <1>1, <1>3 DEF ChainInv, RevokedByAction
  <2> QED
    BY <2>1, <2>2 DEF Settle
<1> QED
  BY <1>2, <1>4, <1>5, <1>6 DEF ChainInv

\* Who is past LockSigner after a step was so before, with the same key, or has just seen
\* that its key is ACTIVE.
LEMMA SignerMoves ==
    ASSUME TypedLinks, [Next]_vars, NEW s \in Requests, req'[s].pc \in {"checkRevoke", "commitOp"}
    PROVE  /\ req'[s].signer = req[s].signer /\ req'[s].id = req[s].id
           /\ \/ req[s].pc \in {"checkRevoke", "commitOp"}
              \/ req[s].pc = "lockSigner" /\ passkey[req[s].signer] = "ACTIVE"
<1> DEFINE Was == /\ req'[s].signer = req[s].signer /\ req'[s].id = req[s].id
                  /\ \/ req[s].pc \in {"checkRevoke", "commitOp"}
                     \/ req[s].pc = "lockSigner" /\ passkey[req[s].signer] = "ACTIVE"
<1>0. req \in [Requests -> Request]
  BY DEF TypedLinks, TypeOK
<1>1. CASE req'[s] = req[s]
  BY <1>1
<1>2. ASSUME NEW r \in Requests, QuietAction(r)
      PROVE  req'[s] = req[s]
  BY <1>0, <1>2, QuietStep DEF Quiet, LockPcs
<1>3. ASSUME NEW r \in Requests, req' = [req EXCEPT ![r] = Idle]
      PROVE  req'[s] = req[s]
  BY <1>0, <1>3 DEF Idle
<1>4. ASSUME NEW r \in Requests, LockAction(r) \/ LockTarget(r) \/ LockOperation(r)
      PROVE  req'[s] = req[s]
  BY <1>4, LockSteps, MoveFacts DEF KeyMoves, OpMoves
<1>5. ASSUME NEW r \in Requests, LockSigner(r)
      PROVE  Was
  <2>1. /\ req'[r].pc = "checkRevoke" /\ req[r].pc = "lockSigner"
        /\ req'[r].id = req[r].id /\ req'[r].signer = req[r].signer
        /\ \A t \in Requests : t # r => req'[t] = req[t]
    <3>1. /\ LockStep(r, "lockSigner", "checkRevoke")
          /\ <<"lockSigner", "checkRevoke">> \in KeyMoves \union OpMoves
      BY <1>5, LockSteps DEF OpMoves
    <3> QED BY <3>1, MoveFacts
  <2>2. passkey[req[r].signer] = "ACTIVE"
    BY <1>5 DEF LockSigner
  <2> QED
    BY <1>1, <2>1, <2>2
<1>6. ASSUME NEW r \in Requests, CheckRevoke(r)
      PROVE  Was
  <2>1. /\ req'[r].pc = "commitOp" /\ req[r].pc = "checkRevoke"
        /\ req'[r].id = req[r].id /\ req'[r].signer = req[r].signer
        /\ \A t \in Requests : t # r => req'[t] = req[t]
    <3>1. /\ LockStep(r, "checkRevoke", "commitOp")
          /\ <<"checkRevoke", "commitOp">> \in KeyMoves \union OpMoves
      BY <1>6, LockSteps DEF OpMoves
    <3> QED BY <3>1, MoveFacts
  <2> QED
    BY <1>1, <2>1
<1>7. CASE WorldAction
  BY <1>1, <1>7 DEF WorldAction, BeginRegistration, Restart, ExecuteNext, DropNext, Settle, OwnerRevokeKey, Idle
<1>8. CASE UNCHANGED vars
  BY <1>1, <1>8 DEF vars
<1>9. ASSUME NEW r \in Requests, LoudAction(r)
      PROVE  Was
  BY <1>1, <1>3, <1>4, <1>5, <1>6, <1>9
     DEF LoudAction, InsertKeyAction, CommitKeyAction, InsertOperation, WriteActions, Goto
<1> QED
  BY <1>1, <1>2, <1>7, <1>8, <1>9, NextCases

\* An operation is submitted by a request past CheckRevoke.
LEMMA OperationMoves ==
    ASSUME TypedLinks, [Next]_vars, NEW o \in OpIds, op'[o].submitted
    PROVE  \/ op[o].submitted /\ op'[o] = op[o]
           \/ /\ op'[o].signer = op[o].signer
              /\ \E r \in Requests : req[r].pc = "commitOp" /\ req[r].id = o
<1>0. op \in [OpIds -> [signer : Creds \union {NoCred}, submitted : BOOLEAN]]
  BY DEF TypedLinks, TypeOK
<1>1. CASE op' = op
  BY <1>1
<1>2. ASSUME NEW r \in Requests, WriteActions(r)
      PROVE  \/ op[o].submitted /\ op'[o] = op[o]
             \/ op'[o].signer = op[o].signer /\ req[r].pc = "commitOp" /\ req[r].id = o
  <2>1. req[r].pc = "commitOp" /\ op' = [op EXCEPT ![req[r].id].submitted = TRUE]
    BY <1>2 DEF WriteActions
  <2> QED
    BY <1>0, <2>1
<1>3. ASSUME NEW r \in Requests, InsertOperation(r)
      PROVE  op[o].submitted /\ op'[o] = op[o]
  <2>1. PICK p \in OpIds : op[p] = NoOp /\ op' = [op EXCEPT ![p].signer = req[r].signer]
    BY <1>3 DEF InsertOperation
  <2>2. op'[p].submitted = FALSE
    <3>1. op'[p] = [op[p] EXCEPT !.signer = req[r].signer]
      BY <1>0, <2>1
    <3> QED
      BY <2>1, <3>1 DEF NoOp
  <2>3. o # p
    BY <2>2
  <2> QED
    BY <1>0, <2>1, <2>3
<1>4. ASSUME NEW r \in Requests, QuietAction(r)
      PROVE  op' = op
  BY <1>4, QuietStep DEF Quiet
<1>5. ASSUME NEW r \in Requests, LoudAction(r), ~WriteActions(r), ~InsertOperation(r)
      PROVE  op' = op
  BY <1>5 DEF LoudAction, InsertKeyAction, LockAction, LockTarget, CommitKeyAction,
       LockOperation, LockSigner, CheckRevoke, dbVars
<1>6. WorldAction \/ UNCHANGED vars => op' = op
  BY DEF WorldAction, BeginRegistration, Restart, ExecuteNext, DropNext, Settle, OwnerRevokeKey, vars, dbVars
<1> QED
  BY <1>1, <1>2, <1>3, <1>4, <1>5, <1>6, NextCases

\* A step of the WMS: what is decided, settled and revoked stays, and an operation is
\* submitted only with a key that was ACTIVE under its lock.
LEMMA WmsChain ==
    ASSUME TypedLinks, LockInv, OutboxInv, StatusInv, ChainInv, [Next]_vars, UNCHANGED chainVars
    PROVE  ChainInv'
<1>0. /\ oe' = oe /\ registry' = registry /\ decided' = decided /\ done' = done
      /\ done \in 0..Len(outbox) /\ outbox \in Seq(Ids)
  BY DEF chainVars, TypedLinks, TypeOK
<1>1. /\ \A i \in 1..Len(outbox) : i \in 1..Len(outbox') /\ outbox'[i] = outbox[i]
      /\ \A a \in KeyIds : keyAction[a].submitted > 0 => keyAction'[a] = keyAction[a]
      /\ \A o \in OpIds : op[o].submitted => op'[o] = op[o]
  BY SubmittedKept
<1>2. \A i \in 1..done : i \in 1..Len(outbox) /\ i \in DOMAIN outbox /\ outbox'[i] = outbox[i]
  BY <1>0, <1>1
<1>3. DecidedIsTaken' /\ SettledTellsDecision'
  BY <1>0, <1>2 DEF ChainInv, DecidedIsTaken, SettledTellsDecision
<1>4. RevokedByAction'
  <2>1. ASSUME NEW c \in Creds, NEW i \in 1..done, RevokedAt(i, c)
        PROVE  RevokedAt(i, c)'
    <3>1. outbox[i] \in KeyIds /\ keyAction[outbox[i]].submitted > 0
      BY <2>1, <1>2 DEF RevokedAt, OutboxInv, SubmittedOnce
    <3>2. keyAction'[outbox[i]] = keyAction[outbox[i]] /\ outbox'[i] = outbox[i]
      BY <3>1, <1>1, <1>2
    <3> QED
      BY <2>1, <3>2, <1>0 DEF RevokedAt
  <2> QED
    BY <2>1, <1>0 DEF ChainInv, RevokedByAction
<1>5. SignerRegistered'
  <2>1. ASSUME NEW s \in Requests, req'[s].pc \in {"checkRevoke", "commitOp"}
        PROVE  registry'[req'[s].signer] # "absent"
    <3>1. /\ req'[s].signer = req[s].signer
          /\ \/ req[s].pc \in {"checkRevoke", "commitOp"}
             \/ req[s].pc = "lockSigner" /\ passkey[req[s].signer] = "ACTIVE"
      BY <2>1, SignerMoves
    <3>2. req[s].signer \in Creds
      BY <3>1 DEF TypedLinks, Links, LinkOK, OpTxPcs
    <3> QED
      BY <3>1, <3>2, <1>0 DEF ChainInv, SignerRegistered, StatusInv, StatusFollowsRegistry
  <2>2. ASSUME NEW o \in OpIds, op'[o].submitted
        PROVE  op'[o].signer \in Creds /\ registry'[op'[o].signer] # "absent"
    <3>1. CASE op[o].submitted /\ op'[o] = op[o]
      BY <3>1, <1>0 DEF ChainInv, SignerRegistered
    <3>2. ASSUME op'[o].signer = op[o].signer,
                 NEW r \in Requests, req[r].pc = "commitOp", req[r].id = o
          PROVE  op'[o].signer \in Creds /\ registry'[op'[o].signer] # "absent"
      <4>1. req[r].signer \in Creds /\ op[o].signer = req[r].signer
        BY <3>2 DEF TypedLinks, Links, LinkOK, OpTxPcs
      <4> QED
        BY <3>2, <4>1, <1>0 DEF ChainInv, SignerRegistered
    <3> QED
      BY <2>2, <3>1, <3>2, OperationMoves
  <2> QED
    BY <2>1, <2>2 DEF SignerRegistered
<1>6. AcceptedIsApplied'
  <2> SUFFICES ASSUME NEW o \in OpIds, decided[o] = "Rejected" PROVE op'[o].signer \in OwnerRevokes
    BY <1>0 DEF AcceptedIsApplied
  <2>1. PICK i \in 1..done : outbox[i] = o
    BY DEF ChainInv, DecidedIsTaken, Ids
  <2>2. op[o].submitted
    BY <2>1, <1>2 DEF OutboxInv, SubmittedOnce
  <2> QED
    BY <2>2, <1>1 DEF ChainInv, AcceptedIsApplied
<1>7. DraftsTyped'
  BY DraftMoves DEF ChainInv, DraftsTyped
<1> QED
  BY <1>3, <1>4, <1>5, <1>6, <1>7 DEF ChainInv

\* The chain's part is inductive.
LEMMA ChainInvStep ==
    TypedLinks /\ LockInv /\ OutboxInv /\ StatusInv /\ ChainInv /\ [Next]_vars => ChainInv'
BY ChainCases, ExecuteChain, DropChain, SettleChain, WmsChain DEF ChainStep

\* ADR section 7, for any keys, drafts, requests and delays: an operation the WMS has accepted
\* is never rejected for its key, unless the contract's owner may revoke that key directly. The
\* order of the outbox does it, with the status that is never ahead of the registry.
THEOREM AcceptedCorrect == Spec => []AcceptedIsApplied
<1>1. ChainInv => AcceptedIsApplied
  BY DEF ChainInv
<1> QED
  BY <1>1, TypedLinksInit, TypedLinksStep, SafeInit, SafeStep, StatusInit, StatusStep,
     ChainInit, ChainInvStep, PTL DEF Spec

-----------------------------------------------------------------------------
(* One key action at a time, when nothing is settled while a key transaction is open. *)

Open(r) == req[r].pc \in KeyTxPcs

\* now() at BEGIN: the stamps of the submitted actions and the open transactions differ.
StampsDiffer ==
    /\ \A a, b \in KeyIds :
          keyAction[a].submitted > 0 /\ keyAction[a].submitted = keyAction[b].submitted => a = b
    /\ \A r, s \in Requests : Open(r) /\ Open(s) /\ req[r].stamp = req[s].stamp => r = s
    /\ \A r \in Requests, a \in KeyIds : Open(r) => keyAction[a].submitted # req[r].stamp

\* What is settled was stamped before every open transaction.
SettledBefore ==
    \A r \in Requests, a \in KeyIds :
        Open(r) /\ oe[a] # "NULL" => keyAction[a].submitted < req[r].stamp

\* An action in flight is the one keyActionInFlight looks at.
InFlightIsLatest == \A c \in Creds : \A a \in InFlight(c) : IsLatestSubmitted(a, c)

\* One transaction holds a row FOR UPDATE. The row keeps the status it was locked with and
\* the actions of its key are settled, for a registration as FAILED.
TargetExclusion ==
    \A r, s \in Requests :
        req[r].pc = "commitKey" /\ req[s].pc = "commitKey" /\ req[r].target = req[s].target => r = s

HeldOK(q) ==
    /\ passkey[q.target] = Want(q.type)
    /\ \A a \in Submitted(q.target) : oe[a] # "NULL" /\ (q.type = "KeyRegister" => oe[a] = "FAILED")

TargetHeld == \A r \in Requests : req[r].pc = "commitKey" /\ req[r].target \in Creds => HeldOK(req[r])

\* Of the actions of a key that was never active only the latest can be anything but FAILED,
\* and a key without a row has none.
PendingHistory ==
    \A c \in Creds :
        /\ passkey[c] \in {"PENDING", "REJECTED"} =>
              \A a \in Submitted(c) : oe[a] = "FAILED" \/ IsLatestSubmitted(a, c)
        /\ passkey[c] = "None" => Submitted(c) = {}

\* A registered key has a row, and while that is PENDING an action that was applied.
RegisteredByAction ==
    \A c \in Creds :
        registry[c] # "absent" =>
            /\ passkey[c] # "None"
            /\ passkey[c] \in {"PENDING", "REJECTED"} => \E a \in Submitted(c) : decided[a] = "Applied"

StampInv == StampsDiffer /\ SettledBefore
TargetInv == InFlightIsLatest /\ TargetExclusion /\ TargetHeld
HistoryInv == PendingHistory /\ RegisteredByAction /\ RejectedIsNotRegistered

PromptInv == SlowTransactions = FALSE /\ StampInv /\ TargetInv /\ HistoryInv

\* All that is known without an assumption on the transactions.
BaseInv == TypedLinks /\ LockInv /\ OutboxInv /\ StatusInv /\ ChainInv

\* At the start nothing is submitted and the registered keys are ACTIVE.
LEMMA PromptInit == Init /\ SlowTransactions = FALSE => PromptInv
<1> SUFFICES ASSUME Init, SlowTransactions = FALSE PROVE PromptInv
  OBVIOUS
<1>1. \A r \in Requests : req[r].pc = "idle"
  BY DEF Init, Idle
<1>2. \A a \in KeyIds : keyAction[a].submitted = 0
  BY DEF Init, NoAction
<1>3. \A c \in Creds : Submitted(c) = {} /\ InFlight(c) = {}
  BY <1>2 DEF Submitted, InFlight
<1>4. StampInv
  BY <1>1, <1>2 DEF StampInv, StampsDiffer, SettledBefore, Open, KeyTxPcs
<1>5. TargetInv
  BY <1>1, <1>3 DEF TargetInv, InFlightIsLatest, TargetExclusion, TargetHeld
<1>6. \A c \in Creds : /\ passkey[c] \in {"ACTIVE", "None"}
                       /\ passkey[c] = "None" => registry[c] = "absent"
  BY DEF Init
<1>7. HistoryInv
  BY <1>3, <1>6 DEF HistoryInv, PendingHistory, RegisteredByAction, RejectedIsNotRegistered
<1> QED
  BY <1>4, <1>5, <1>7 DEF PromptInv

\* A step that submits no key action.
NoSubmission ==
    \A a \in KeyIds : /\ keyAction'[a].submitted = keyAction[a].submitted
                      /\ keyAction[a].submitted > 0 => keyAction'[a] = keyAction[a]

\* Every step but CommitKeyAction is one.
LEMMA SubmissionCases ==
    ASSUME TypedLinks, [Next]_vars
    PROVE  NoSubmission \/ \E r \in Requests : CommitKeyAction(r)
BY DraftMoves DEF NoSubmission, NoAction

\* It leaves what is submitted for a key, and what is the latest of that.
LEMMA NoSubmissionKeeps ==
    ASSUME NoSubmission, NEW c
    PROVE  /\ Submitted(c)' = Submitted(c)
           /\ \A a \in Submitted(c) : keyAction'[a] = keyAction[a]
           /\ \A a \in KeyIds : IsLatestSubmitted(a, c) => IsLatestSubmitted(a, c)'
<1>1. \A a \in Submitted(c) : keyAction'[a] = keyAction[a]
  BY DEF NoSubmission, Submitted
<1>2. Submitted(c)' = Submitted(c)
  BY DEF NoSubmission, Submitted
<1> QED
  BY <1>1, <1>2 DEF IsLatestSubmitted

\* CommitKeyAction of a request q submits its draft and nothing else.
LEMMA CommitMoves ==
    ASSUME BaseInv, NEW r \in Requests, CommitKeyAction(r), NEW q, q = req[r]
    PROVE  /\ q.pc = "commitKey" /\ q.id \in KeyIds /\ q.stamp \in Nat /\ q.stamp > 0
           /\ keyAction[q.id].submitted = 0 /\ oe[q.id] = "NULL"
           /\ keyAction'[q.id].submitted = q.stamp
           /\ \A a \in KeyIds : a # q.id => keyAction'[a] = keyAction[a]
           /\ \A c : c # q.target => Submitted(c)' = Submitted(c)
           /\ \A c : c = q.target => Submitted(c)' = Submitted(c) \union {q.id}
           /\ req'[r].pc = "idle" /\ \A s \in Requests : s # r => req'[s] = req[s]
           /\ UNCHANGED <<passkey, oe, registry, decided>>
<1> USE DEF BaseInv
<1>1. /\ q.pc = "commitKey" /\ UNCHANGED <<passkey, oe, registry, decided>>
      /\ keyAction' = [keyAction EXCEPT ![q.id].submitted = q.stamp]
      /\ req' = [req EXCEPT ![r] = Idle]
  BY DEF CommitKeyAction, Goto, chainVars
<1>2. q \in Request /\ LinkOK(q, keyAction, op) /\ TypeOK
  BY DEF TypedLinks, Links, TypeOK
<1>3. q.id \in KeyIds /\ q.stamp > 0 /\ q.stamp \in Nat /\ keyAction[q.id].target = q.target
  BY <1>1, <1>2 DEF LinkOK, KeyTxPcs, Request
<1>4. keyAction[q.id].submitted = 0
  BY <1>1 DEF LockInv, LockedIsDraft, KeyLockPcs
<1>5. oe[q.id] = "NULL"
  <2>1. done \in 0..Len(outbox) /\ outbox \in Seq(Ids) /\ q.id \in Ids
    BY <1>2, <1>3 DEF TypeOK, Ids
  <2>2. \A i \in 1..done : outbox[i] # q.id
    BY <1>3, <1>4, <2>1 DEF OutboxInv, SubmittedOnce
  <2>3. decided[q.id] = "None"
    BY <2>1, <2>2 DEF ChainInv, DecidedIsTaken
  <2> QED
    BY <1>2, <2>1, <2>3 DEF ChainInv, SettledTellsDecision, TypeOK
<1>6. /\ \A a \in KeyIds : a # q.id => keyAction'[a] = keyAction[a]
      /\ keyAction'[q.id].submitted = q.stamp /\ keyAction'[q.id].target = q.target
  BY <1>1, <1>2, <1>3 DEF TypeOK
<1>7. /\ \A c : c # q.target => Submitted(c)' = Submitted(c)
      /\ \A c : c = q.target => Submitted(c)' = Submitted(c) \union {q.id}
  BY <1>3, <1>4, <1>6 DEF Submitted
<1>8. req'[r].pc = "idle" /\ \A s \in Requests : s # r => req'[s] = req[s]
  BY <1>1, <1>2 DEF TypeOK, Idle
<1> QED
  BY <1>1, <1>3, <1>4, <1>5, <1>6, <1>7, <1>8

\* How an open transaction came to be open.
LEMMA OpenMoves ==
    ASSUME TypedLinks, [Next]_vars, NEW s \in Requests, Open(s)'
    PROVE  \/ Open(s) /\ req'[s] = req[s]
           \/ /\ Open(s) /\ (LockAction(s) \/ LockTarget(s))
              /\ req'[s].stamp = req[s].stamp /\ req'[s].target = req[s].target
              /\ req'[s].type = req[s].type /\ req'[s].pc = IF LockTarget(s) THEN "commitKey" ELSE "lockTarget"
           \/ /\ BeginsKeyTx(s) /\ UNCHANGED <<keyAction, oe>>
              /\ \A t \in Requests : t # s => req'[t] = req[t]
<1>0. req \in [Requests -> Request] /\ Idle.pc \notin KeyTxPcs
  BY DEF TypedLinks, TypeOK, Idle, KeyTxPcs
<1>1. CASE req'[s] = req[s]
  BY <1>1 DEF Open
<1>2. ASSUME NEW r \in Requests, QuietAction(r)
      PROVE  \/ req'[s] = req[s]
             \/ /\ BeginsKeyTx(s) /\ UNCHANGED <<keyAction, oe>>
                /\ \A t \in Requests : t # s => req'[t] = req[t]
  <2>1. req' = [req EXCEPT ![r] = req'[r]] /\ UNCHANGED <<keyAction, oe>>
    BY <1>2, QuietStep DEF Quiet, chainVars
  <2>2. req'[r].pc \in FreshPcs \/ ReadAnswer(r) \/ BeginsKeyTx(r)
    BY <1>2, QuietMoves
  <2>3. CASE s # r
    BY <1>0, <2>1, <2>3
  <2>4. CASE s = r
    <3>1. BeginsKeyTx(r)
      BY <2>2, <2>4 DEF Open, FreshPcs, ReadAnswer, KeyTxPcs
    <3> QED
      BY <1>0, <2>1, <2>4, <3>1
  <2> QED
    BY <2>3, <2>4
<1>3. ASSUME NEW r \in Requests, req' = [req EXCEPT ![r] = Idle]
      PROVE  req'[s] = req[s]
  BY <1>0, <1>3 DEF Open
<1>4. ASSUME NEW r \in Requests, LockOperation(r) \/ LockSigner(r) \/ CheckRevoke(r)
      PROVE  req'[s] = req[s]
  <2>1. PICK from, to : LockStep(r, from, to) /\ <<from, to>> \in OpMoves
    BY <1>4, LockSteps DEF OpMoves
  <2>2. req'[r].pc = to /\ \A t \in Requests : t # r => req'[t] = req[t]
    BY <2>1, MoveFacts
  <2>3. s # r
    BY <2>1, <2>2 DEF OpMoves, Open, KeyTxPcs
  <2> QED
    BY <2>2, <2>3
<1>5. ASSUME NEW r \in Requests, LockAction(r) \/ LockTarget(r), req'[s] # req[s]
      PROVE  /\ Open(s) /\ (LockAction(s) \/ LockTarget(s))
             /\ req'[s].stamp = req[s].stamp /\ req'[s].target = req[s].target
             /\ req'[s].type = req[s].type /\ req'[s].pc = IF LockTarget(s) THEN "commitKey" ELSE "lockTarget"
  <2>1. PICK from, to : /\ LockStep(r, from, to) /\ <<from, to>> \in KeyMoves
                        /\ to = IF LockTarget(r) THEN "commitKey" ELSE "lockTarget"
    <3>1. LockAction(r) => ~LockTarget(r)
      BY DEF LockAction, LockTarget
    <3> QED
      BY <1>5, <3>1, LockSteps DEF KeyMoves
  <2>2. req' = [req EXCEPT ![r] = [req[r] EXCEPT !.pc = to]] /\ req[r].pc = from
    BY <2>1 DEF LockStep
  <2>3. s = r
    BY <1>0, <1>5, <2>2
  <2>4. Open(s)
    BY <2>1, <2>2, <2>3 DEF KeyMoves, Open, KeyTxPcs
  <2>5. req[s] \in Request
    BY <1>0
  <2>6. /\ req'[s].stamp = req[s].stamp /\ req'[s].target = req[s].target
        /\ req'[s].type = req[s].type /\ req'[s].pc = to
    BY <1>0, <2>2, <2>3, <2>5 DEF Request
  <2> QED
    BY <1>5, <2>1, <2>3, <2>4, <2>6
<1>6. ASSUME WorldAction
      PROVE  req'[s] = req[s]
  BY <1>0, <1>6 DEF WorldAction, BeginRegistration, Restart, ExecuteNext, DropNext, Settle, OwnerRevokeKey, Open
<1>7. CASE UNCHANGED vars
  BY <1>1, <1>7 DEF vars
<1>8. ASSUME NEW r \in Requests, LoudAction(r), ~(LockAction(r) \/ LockTarget(r))
      PROVE  req'[s] = req[s]
  BY <1>3, <1>4, <1>8
     DEF LoudAction, InsertKeyAction, CommitKeyAction, InsertOperation, WriteActions, Goto
<1> QED
  BY <1>1, <1>2, <1>5, <1>6, <1>7, <1>8, NextCases

\* Decisions and settlements are final; a settlement waits for the open transactions; and a
\* key enters the registry by the next row of the outbox.
LEMMA ChainMoves ==
    ASSUME BaseInv, [Next]_vars
    PROVE  /\ \A a \in Ids : decided[a] # "None" => decided'[a] = decided[a]
           /\ \A a \in Ids : oe[a] # "NULL" => oe'[a] = oe[a]
           /\ oe' # oe => req' = req /\ (SlowTransactions \/ ~TransactionOpen)
           /\ \A c \in Creds : registry[c] = "absent" /\ registry'[c] # "absent" =>
                 /\ UNCHANGED <<keyAction, passkey, oe>>
                 /\ \E a \in Submitted(c) : decided[a] = "None" /\ decided'[a] = "Applied"
<1> USE DEF BaseInv
<1>0. /\ oe \in [Ids -> {"NULL", "COMMITTED", "FAILED"}]
      /\ registry \in [Creds -> {"absent", "active", "revoked"}]
      /\ decided \in [Ids -> {"None", "Applied", "Rejected", "Dropped"}]
  BY DEF TypedLinks, TypeOK
<1>1. CASE UNCHANGED chainVars
  BY <1>1 DEF chainVars
<1>2. CASE ExecuteNext
  <2> DEFINE b == outbox[done + 1]
  <2>1. /\ UNCHANGED <<dbVars, sessions, req, oe>>
        /\ decided' = [decided EXCEPT ![b] = IF Accepts(b) THEN "Applied" ELSE "Rejected"]
        /\ done < Len(outbox)
    BY <1>2 DEF ExecuteNext
  <2>2. done + 1 \in DOMAIN outbox /\ b \in Ids /\ decided[b] = "None"
    BY <2>1, NextIsUndecided DEF ChainInv
  <2>3. \A a \in Ids : decided[a] # "None" => decided'[a] = decided[a]
    BY <1>0, <2>1, <2>2
  <2>4. ASSUME NEW c \in Creds, registry[c] = "absent", registry'[c] # "absent"
        PROVE  \E a \in Submitted(c) : decided[a] = "None" /\ decided'[a] = "Applied"
    <3>1. b \in KeyIds /\ Accepts(b) /\ keyAction[b].target = c
      BY <1>0, <1>2, <2>4 DEF ExecuteNext
    <3>2. keyAction[b].submitted > 0
      BY <2>2, <3>1 DEF OutboxInv, SubmittedOnce
    <3>3. b \in Submitted(c)
      BY <3>1, <3>2 DEF Submitted
    <3>4. decided'[b] = "Applied"
      BY <1>0, <2>1, <2>2, <3>1
    <3> QED
      BY <2>2, <3>3, <3>4
  <2> QED
    BY <2>1, <2>3, <2>4 DEF dbVars
<1>3. CASE DropNext
  <2>1. done < Len(outbox) /\ UNCHANGED <<req, oe, registry>>
        /\ decided' = [decided EXCEPT ![outbox[done + 1]] = "Dropped"]
    BY <1>3 DEF DropNext
  <2>2. outbox[done + 1] \in Ids /\ decided[outbox[done + 1]] = "None"
    BY <2>1, NextIsUndecided DEF ChainInv
  <2> QED
    BY <1>0, <2>1, <2>2
<1>4. ASSUME NEW b \in Ids, Settle(b)
      PROVE  /\ UNCHANGED <<decided, registry, req>> /\ (SlowTransactions \/ ~TransactionOpen)
             /\ \A a \in Ids : oe[a] # "NULL" => oe'[a] = oe[a]
  BY <1>0, <1>4 DEF Settle
<1>5. ASSUME NEW d \in Creds, OwnerRevokeKey(d)
      PROVE  UNCHANGED <<decided, oe>> /\ \A c \in Creds : registry[c] = "absent" => registry'[c] = "absent"
  BY <1>0, <1>5 DEF OwnerRevokeKey
<1> QED
  BY <1>1, <1>2, <1>3, <1>4, <1>5, ChainCases DEF ChainStep

\* now() is after every stamp that is submitted or held by an open transaction.
LEMMA StampStep ==
    ASSUME BaseInv, PromptInv, [Next]_vars
    PROVE  StampInv'
<1> USE DEF BaseInv
<1>0. /\ \A a \in KeyIds : keyAction[a].submitted \in Nat /\ keyAction[a].submitted \in Stamps
      /\ \A r \in Requests : req[r].stamp \in Nat /\ req[r].stamp \in Stamps
      /\ StampsDiffer /\ SettledBefore
  BY DEF TypedLinks, TypeOK, Request, Stamps, PromptInv, StampInv
<1>1. CASE NoSubmission
  <2>1. ASSUME NEW s \in Requests, Open(s)'
        PROVE  \/ Open(s) /\ req'[s].stamp = req[s].stamp
               \/ /\ BeginsKeyTx(s) /\ UNCHANGED <<keyAction, oe>>
                  /\ \A t \in Requests : t # s => req'[t] = req[t]
    BY <2>1, OpenMoves
  <2>2. \A a \in KeyIds : keyAction'[a].submitted = keyAction[a].submitted
    BY <1>1 DEF NoSubmission
  <2>3. ASSUME NEW r \in Requests, NEW s \in Requests, Open(r)', Open(s)', r # s
        PROVE  req'[r].stamp # req'[s].stamp
    <3>1. CASE Open(r) /\ Open(s) /\ req'[r].stamp = req[r].stamp /\ req'[s].stamp = req[s].stamp
      BY <2>3, <3>1, <1>0 DEF StampsDiffer
    <3>2. CASE BeginsKeyTx(r) /\ req'[s] = req[s]
      BY <3>2, <1>0 DEF BeginsKeyTx
    <3>3. CASE BeginsKeyTx(s) /\ req'[r] = req[r]
      BY <3>3, <1>0 DEF BeginsKeyTx
    <3> QED
      BY <2>1, <2>3, <3>1, <3>2, <3>3
  <2>4. ASSUME NEW s \in Requests, NEW a \in KeyIds, Open(s)'
        PROVE  keyAction'[a].submitted # req'[s].stamp
    BY <2>1, <2>2, <2>4, <1>0 DEF StampsDiffer, BeginsKeyTx
  <2>5. ASSUME NEW s \in Requests, NEW a \in KeyIds, Open(s)', oe'[a] # "NULL"
        PROVE  keyAction'[a].submitted < req'[s].stamp
    <3>1. CASE BeginsKeyTx(s)
      BY <3>1, <2>2, <1>0 DEF BeginsKeyTx
    <3>2. CASE Open(s) /\ req'[s].stamp = req[s].stamp
      <4>1. oe' = oe
        BY <3>2, ChainMoves DEF PromptInv, TransactionOpen, Open
      <4> QED
        BY <2>2, <2>5, <3>2, <4>1, <1>0 DEF SettledBefore
    <3> QED
      BY <2>1, <2>5, <3>1, <3>2
  <2>6. StampsDiffer'
    BY <2>2, <2>3, <2>4, <1>0 DEF StampsDiffer
  <2>7. SettledBefore'
    BY <2>5 DEF SettledBefore
  <2> QED
    BY <2>6, <2>7 DEF StampInv
<1>2. ASSUME NEW r \in Requests, CommitKeyAction(r)
      PROVE  StampInv'
  <2>0. PICK q : q = req[r]
    OBVIOUS
  <2>1. /\ q.pc = "commitKey" /\ q.id \in KeyIds /\ q.stamp \in Nat /\ q.stamp > 0
        /\ keyAction[q.id].submitted = 0 /\ oe[q.id] = "NULL"
        /\ keyAction'[q.id].submitted = q.stamp
        /\ \A a \in KeyIds : a # q.id => keyAction'[a] = keyAction[a]
        /\ req'[r].pc = "idle" /\ \A s \in Requests : s # r => req'[s] = req[s]
        /\ oe' = oe
    BY <1>2, <2>0, CommitMoves
  <2>2. Open(r)
    BY <2>0, <2>1 DEF Open, KeyTxPcs
  <2>3. \A s \in Requests : Open(s)' => s # r /\ Open(s) /\ req'[s] = req[s]
    BY <2>1 DEF Open, KeyTxPcs
  <2>4. \A s \in Requests : Open(s)' => req[s].stamp # q.stamp
    BY <2>0, <2>2, <2>3, <1>0 DEF StampsDiffer
  <2>5. \A a \in KeyIds : keyAction[a].submitted # q.stamp
    BY <2>0, <2>2, <1>0 DEF StampsDiffer
  <2>6. StampsDiffer'
    <3>1. \A a, b \in KeyIds :
             keyAction'[a].submitted > 0 /\ keyAction'[a].submitted = keyAction'[b].submitted => a = b
      BY <2>1, <2>5, <1>0 DEF StampsDiffer
    <3>2. \A s, t \in Requests : Open(s)' /\ Open(t)' /\ req'[s].stamp = req'[t].stamp => s = t
      BY <2>3, <1>0 DEF StampsDiffer
    <3>3. \A s \in Requests, a \in KeyIds : Open(s)' => keyAction'[a].submitted # req'[s].stamp
      BY <2>1, <2>3, <2>4, <1>0 DEF StampsDiffer
    <3> QED
      BY <3>1, <3>2, <3>3 DEF StampsDiffer
  <2>7. SettledBefore'
    BY <2>1, <2>3, <1>0 DEF SettledBefore
  <2> QED
    BY <2>6, <2>7 DEF StampInv
<1> QED
  BY <1>1, <1>2, SubmissionCases

\* The action a transaction has just submitted is the latest of its key.
LEMMA CommittedIsLatest ==
    ASSUME BaseInv, PromptInv, NEW r \in Requests, CommitKeyAction(r), NEW q, q = req[r],
           q.target \in Creds
    PROVE  \A c : c = q.target => IsLatestSubmitted(q.id, c)'
<1> SUFFICES ASSUME NEW c, c = q.target PROVE IsLatestSubmitted(q.id, c)'
  OBVIOUS
<1>1. /\ q.pc = "commitKey" /\ q.id \in KeyIds /\ q.stamp \in Nat
      /\ keyAction'[q.id].submitted = q.stamp
      /\ \A a \in KeyIds : a # q.id => keyAction'[a] = keyAction[a]
      /\ Submitted(c)' = Submitted(c) \union {q.id}
  BY CommitMoves
<1>2. HeldOK(q) /\ Open(r)
  BY <1>1 DEF PromptInv, TargetInv, TargetHeld, Open, KeyTxPcs
<1>3. \A b \in Submitted(c) : b \in KeyIds /\ keyAction[b].submitted < q.stamp
  BY <1>2 DEF HeldOK, PromptInv, StampInv, SettledBefore, Submitted
<1>4. \A b \in Submitted(c)' : keyAction'[b].submitted <= keyAction'[q.id].submitted
  <2> SUFFICES ASSUME NEW b \in Submitted(c)' PROVE keyAction'[b].submitted <= q.stamp
    BY <1>1
  <2>1. CASE b = q.id
    BY <1>1, <2>1
  <2>2. CASE b # q.id
    <3>1. b \in KeyIds /\ keyAction[b].submitted < q.stamp /\ keyAction'[b] = keyAction[b]
      BY <1>1, <1>3, <2>2
    <3>2. keyAction[b].submitted \in Nat
      BY <3>1 DEF BaseInv, TypedLinks, TypeOK
    <3> QED
      BY <1>1, <3>1, <3>2
  <2> QED
    BY <2>1, <2>2
<1>5. q.id \in Submitted(c)'
  BY <1>1
<1> QED
  BY <1>4, <1>5 DEF IsLatestSubmitted

\* An action in flight is its key's latest.
LEMMA LatestStep ==
    ASSUME BaseInv, PromptInv, [Next]_vars
    PROVE  InFlightIsLatest'
<1> SUFFICES ASSUME NEW c \in Creds, NEW a \in InFlight(c)' PROVE IsLatestSubmitted(a, c)'
  BY DEF InFlightIsLatest
<1>0. a \in Submitted(c)' /\ oe'[a] = "NULL" /\ a \in KeyIds /\ a \in Ids
  BY DEF InFlight, Submitted, Ids
<1>1. oe[a] = "NULL"
  BY <1>0, ChainMoves
<1>2. CASE NoSubmission
  <2>1. a \in InFlight(c)
    BY <1>0, <1>1, <1>2, NoSubmissionKeeps DEF InFlight
  <2>2. IsLatestSubmitted(a, c)
    BY <2>1 DEF PromptInv, TargetInv, InFlightIsLatest
  <2> QED
    BY <1>0, <1>2, <2>2, NoSubmissionKeeps
<1>3. ASSUME NEW r \in Requests, CommitKeyAction(r)
      PROVE  IsLatestSubmitted(a, c)'
  <2>0. PICK q : q = req[r]
    OBVIOUS
  <2>1. /\ q.pc = "commitKey" /\ q.id \in KeyIds
        /\ \A b \in KeyIds : b # q.id => keyAction'[b] = keyAction[b]
        /\ \A d : d # q.target => Submitted(d)' = Submitted(d)
        /\ \A d : d = q.target => Submitted(d)' = Submitted(d) \union {q.id}
    BY <1>3, <2>0, CommitMoves
  <2>2. CASE c = q.target
    <3>1. HeldOK(q)
      BY <2>0, <2>1, <2>2 DEF PromptInv, TargetInv, TargetHeld
    <3>2. a = q.id
      BY <1>0, <1>1, <2>1, <2>2, <3>1 DEF HeldOK
    <3> QED
      BY <1>3, <2>0, <2>2, <3>2, CommittedIsLatest
  <2>3. CASE c # q.target
    <3>1. Submitted(c)' = Submitted(c)
      BY <2>1, <2>3
    <3>2. a \in InFlight(c)
      BY <1>0, <1>1, <3>1 DEF InFlight
    <3>3. IsLatestSubmitted(a, c)
      BY <3>2 DEF PromptInv, TargetInv, InFlightIsLatest
    <3>4. q.id \notin Submitted(c)
      BY <1>3, <2>0, CommitMoves DEF Submitted
    <3>5. \A b \in Submitted(c) : keyAction'[b] = keyAction[b]
      BY <2>1, <3>4 DEF Submitted
    <3> QED
      BY <3>1, <3>3, <3>5 DEF IsLatestSubmitted
  <2> QED
    BY <2>2, <2>3
<1> QED
  BY <1>2, <1>3, SubmissionCases DEF BaseInv

\* A row locked FOR UPDATE is locked once, and nobody changes it or submits for its key.
LEMMA TargetStep ==
    ASSUME BaseInv, PromptInv, [Next]_vars
    PROVE  TargetExclusion' /\ TargetHeld'
<1> USE DEF BaseInv
<1>1. ASSUME NEW s \in Requests, req'[s].pc = "commitKey"
      PROVE  \/ req[s].pc = "commitKey" /\ req'[s] = req[s]
             \/ /\ LockTarget(s) /\ req'[s].target = req[s].target /\ req'[s].type = req[s].type
  <2>1. Open(s)'
    BY <1>1 DEF Open, KeyTxPcs
  <2> QED
    BY <1>1, <2>1, OpenMoves DEF BeginsKeyTx
<1>2. ASSUME NEW s \in Requests, LockTarget(s), NEW t \in Requests, t # s
      PROVE  req'[t] = req[t] /\ ~(req[t].pc = "commitKey" /\ req[t].target = req[s].target)
  <2>1. req'[t] = req[t]
    BY <1>2, LockSteps, MoveFacts DEF KeyMoves
  <2> QED
    BY <1>2, <2>1 DEF LockTarget, RowFree, LockedForUpdate, HoldsForUpdate
<1>3. TargetExclusion'
  <2> SUFFICES ASSUME NEW r \in Requests, NEW s \in Requests, req'[r].pc = "commitKey",
                      req'[s].pc = "commitKey", req'[r].target = req'[s].target, r # s
               PROVE  FALSE
    BY DEF TargetExclusion
  <2>1. CASE LockTarget(r)
    BY <1>1, <1>2, <2>1
  <2>2. CASE LockTarget(s)
    BY <1>1, <1>2, <2>2
  <2>3. CASE ~LockTarget(r) /\ ~LockTarget(s)
    BY <1>1, <2>3 DEF PromptInv, TargetInv, TargetExclusion
  <2> QED
    BY <2>1, <2>2, <2>3
<1>4. TargetHeld'
  <2> SUFFICES ASSUME NEW s \in Requests, req'[s].pc = "commitKey", req'[s].target \in Creds,
                      NEW q, q = req'[s]
               PROVE  HeldOK(q)'
    BY DEF TargetHeld
  <2>0. PICK c \in Creds : c = q.target
    OBVIOUS
  <2>1. CASE LockTarget(s)
    <3>1. /\ RowFree(req[s].target) /\ passkey[c] = Want(q.type) /\ ~KeyActionInFlight(c, q.type)
          /\ UNCHANGED <<passkey, keyAction, oe>>
      BY <1>1, <2>0, <2>1 DEF LockTarget, dbVars, chainVars
    <3>2. ASSUME NEW a \in Submitted(c)
          PROVE  oe[a] # "NULL" /\ (q.type = "KeyRegister" => oe[a] = "FAILED")
      <4>1. a \in KeyIds /\ oe[a] \in {"NULL", "COMMITTED", "FAILED"}
        BY DEF Submitted, TypedLinks, TypeOK, Ids
      <4>2. oe[a] # "NULL"
        <5> SUFFICES ASSUME oe[a] = "NULL" PROVE FALSE
          OBVIOUS
        <5>1. IsLatestSubmitted(a, c)
          BY DEF PromptInv, TargetInv, InFlightIsLatest, InFlight
        <5>2. ConfirmationStateOf(a) = "SENT"
          BY DEF ConfirmationStateOf
        <5> QED
          BY <3>1, <4>1, <5>1, <5>2 DEF KeyActionInFlight
      <4>3. ASSUME q.type = "KeyRegister", oe[a] # "FAILED"
            PROVE  FALSE
        <5>1. oe[a] = "COMMITTED"
          BY <4>1, <4>2, <4>3
        <5>2. passkey[c] = "PENDING"
          BY <3>1, <4>3 DEF Want
        <5>3. IsLatestSubmitted(a, c)
          BY <4>3, <5>2 DEF PromptInv, HistoryInv, PendingHistory
        <5>4. ConfirmationStateOf(a) = "APPLIED"
          BY <5>1 DEF ConfirmationStateOf
        <5> QED
          BY <3>1, <4>1, <4>3, <5>3, <5>4 DEF KeyActionInFlight
      <4> QED
        BY <4>2, <4>3
    <3> QED
      BY <2>0, <3>1, <3>2 DEF HeldOK, Submitted
  <2>2. CASE req[s].pc = "commitKey" /\ req'[s] = req[s]
    <3>1. HeldOK(q) /\ HoldsForUpdate(s, c)
      BY <2>0, <2>2 DEF PromptInv, TargetInv, TargetHeld, HoldsForUpdate
    <3>2. passkey'[c] = passkey[c]
      <4>1. RowStep(c)
        BY NextCases, QuietRows, OtherRows DEF RowStep, vars, dbVars
      <4>2. ~RowFree(c) /\ passkey[c] # "None"
        BY <2>0, <3>1 DEF RowFree, LockedForUpdate, HeldOK, Want
      <4> QED
        BY <4>1, <4>2 DEF RowStep
    <3>3. Submitted(c)' = Submitted(c)
      <4>1. CASE NoSubmission
        BY <4>1, NoSubmissionKeeps
      <4>2. ASSUME NEW r \in Requests, CommitKeyAction(r)
            PROVE  Submitted(c)' = Submitted(c)
        <5>0. PICK p : p = req[r]
          OBVIOUS
        <5>1. /\ p.pc = "commitKey" /\ req'[r].pc = "idle"
              /\ \A d : d # p.target => Submitted(d)' = Submitted(d)
          BY <4>2, <5>0, CommitMoves
        <5>2. r # s
          BY <5>1
        <5>3. p.target # c
          BY <2>0, <2>2, <5>0, <5>1, <5>2 DEF PromptInv, TargetInv, TargetExclusion
        <5> QED
          BY <5>1, <5>3
      <4> QED
        BY <4>1, <4>2, SubmissionCases
    <3>4. \A a \in Submitted(c) : oe[a] # "NULL" => oe'[a] = oe[a]
      BY ChainMoves DEF Submitted, Ids
    <3> QED
      BY <2>0, <3>1, <3>2, <3>3, <3>4 DEF HeldOK
  <2> QED
    BY <1>1, <2>1, <2>2
<1> QED
  BY <1>3, <1>4

\* What a step may make of the status of a key: PENDING comes from no row, REJECTED from
\* PENDING, and a row does not disappear.
LEMMA StatusMoves ==
    ASSUME BaseInv, [Next]_vars, NEW c \in Creds
    PROVE  /\ passkey'[c] = "None" => passkey[c] = "None"
           /\ passkey'[c] = "PENDING" => passkey[c] \in {"None", "PENDING"}
           /\ passkey'[c] = "REJECTED" =>
                 \/ passkey[c] = "REJECTED"
                 \/ passkey[c] = "PENDING" /\ ~LatestIn(c, {"SENT", "APPLIED"})
           /\ passkey'[c] # passkey[c] => UNCHANGED <<keyAction, oe, registry, decided>>
<1> USE DEF BaseInv
<1>1. CASE passkey'[c] = passkey[c]
  BY <1>1
<1>2. CASE passkey'[c] # passkey[c]
  <2>1. PICK r \in Requests : QuietAction(r)
    BY <1>2, NextCases, OtherRows DEF vars, dbVars
  <2>2. UNCHANGED <<keyAction, oe, registry, decided>>
    BY <2>1, QuietStep DEF Quiet, chainVars
  <2>3. RowStep(c)
    BY <2>1, QuietRows
  <2>4. \A s \in Requests : req[s].pc = "write" => req[s].seen \in {"ACTIVE", "REVOKED"}
    BY DEF StatusInv, SeenStands
  <2> QED
    BY <1>2, <2>2, <2>3, <2>4 DEF RowStep
<1> QED
  BY <1>1, <1>2

\* The latest action of a key is the only one that has not FAILED, until the key is ACTIVE.
LEMMA HistoryStep ==
    ASSUME BaseInv, PromptInv, [Next]_vars
    PROVE  PendingHistory'
<1> SUFFICES ASSUME NEW c \in Creds
             PROVE  /\ passkey'[c] \in {"PENDING", "REJECTED"} =>
                          \A a \in Submitted(c)' : oe'[a] = "FAILED" \/ IsLatestSubmitted(a, c)'
                    /\ passkey'[c] = "None" => Submitted(c)' = {}
  BY DEF PendingHistory
<1>0. \A a \in KeyIds : oe[a] = "FAILED" => oe'[a] = "FAILED"
  BY ChainMoves DEF Ids
<1>1. CASE NoSubmission
  <2>1. /\ Submitted(c)' = Submitted(c)
        /\ \A a \in KeyIds : IsLatestSubmitted(a, c) => IsLatestSubmitted(a, c)'
    BY <1>1, NoSubmissionKeeps
  <2>2. \A a \in Submitted(c) : a \in KeyIds
    BY DEF Submitted
  <2>3. passkey'[c] \in {"PENDING", "REJECTED"} => passkey[c] \in {"None", "PENDING", "REJECTED"}
    BY StatusMoves
  <2>4. /\ passkey[c] \in {"PENDING", "REJECTED"} =>
              \A a \in Submitted(c) : oe[a] = "FAILED" \/ IsLatestSubmitted(a, c)
        /\ passkey[c] = "None" => Submitted(c) = {}
    BY DEF PromptInv, HistoryInv, PendingHistory
  <2> QED
    BY <1>0, <2>1, <2>2, <2>3, <2>4, StatusMoves
<1>2. ASSUME NEW r \in Requests, CommitKeyAction(r)
      PROVE  /\ passkey'[c] \in {"PENDING", "REJECTED"} =>
                   \A a \in Submitted(c)' : oe'[a] = "FAILED" \/ IsLatestSubmitted(a, c)'
             /\ passkey'[c] = "None" => Submitted(c)' = {}
  <2>0. PICK q : q = req[r]
    OBVIOUS
  <2>1. /\ q.pc = "commitKey" /\ q.id \in KeyIds /\ keyAction[q.id].submitted = 0
        /\ \A b \in KeyIds : b # q.id => keyAction'[b] = keyAction[b]
        /\ \A d : d # q.target => Submitted(d)' = Submitted(d)
        /\ \A d : d = q.target => Submitted(d)' = Submitted(d) \union {q.id}
        /\ UNCHANGED <<passkey, oe>>
    BY <1>2, <2>0, CommitMoves
  <2>2. CASE c = q.target
    <3>1. HeldOK(q) /\ passkey[c] = Want(q.type)
      BY <2>0, <2>1, <2>2 DEF PromptInv, TargetInv, TargetHeld, HeldOK
    <3>2. passkey[c] # "None"
      BY <3>1 DEF Want
    <3>3. passkey[c] \in {"PENDING", "REJECTED"} => \A a \in Submitted(c) : oe[a] = "FAILED"
      BY <2>2, <3>1 DEF Want, HeldOK
    <3>4. IsLatestSubmitted(q.id, c)'
      BY <1>2, <2>0, <2>2, CommittedIsLatest
    <3> QED
      BY <2>1, <2>2, <3>2, <3>3, <3>4
  <2>3. CASE c # q.target
    <3>1. Submitted(c)' = Submitted(c) /\ \A b \in Submitted(c) : b \in KeyIds /\ keyAction'[b] = keyAction[b]
      BY <2>1, <2>3 DEF Submitted
    <3>2. \A a \in Submitted(c) : IsLatestSubmitted(a, c) => IsLatestSubmitted(a, c)'
      BY <3>1 DEF IsLatestSubmitted
    <3> QED
      BY <2>1, <3>1, <3>2 DEF PromptInv, HistoryInv, PendingHistory
  <2> QED
    BY <2>2, <2>3
<1> QED
  BY <1>1, <1>2, SubmissionCases DEF BaseInv

\* What is submitted for a key stays so.
LEMMA SubmittedGrows ==
    ASSUME BaseInv, [Next]_vars, NEW c
    PROVE  Submitted(c) \subseteq Submitted(c)'
<1>1. \A a \in KeyIds : keyAction[a].submitted > 0 => keyAction'[a] = keyAction[a]
  BY SubmittedKept DEF BaseInv
<1> QED
  BY <1>1 DEF Submitted

\* A key gets into the registry by an action of its own, which stays applied.
LEMMA RegisteredStep ==
    ASSUME BaseInv, PromptInv, [Next]_vars
    PROVE  RegisteredByAction'
<1> SUFFICES ASSUME NEW c \in Creds, registry'[c] # "absent"
             PROVE  /\ passkey'[c] # "None"
                    /\ passkey'[c] \in {"PENDING", "REJECTED"} =>
                          \E a \in Submitted(c)' : decided'[a] = "Applied"
  BY DEF RegisteredByAction
<1>0. Submitted(c) \subseteq Submitted(c)' /\ \A a \in Submitted(c) : a \in Ids
  BY SubmittedGrows DEF Submitted, Ids
<1>1. CASE registry[c] # "absent"
  <2>1. /\ passkey[c] # "None"
        /\ passkey[c] \in {"PENDING", "REJECTED"} => \E a \in Submitted(c) : decided[a] = "Applied"
    BY <1>1 DEF PromptInv, HistoryInv, RegisteredByAction
  <2>2. \A a \in Submitted(c) : decided[a] = "Applied" => decided'[a] = "Applied"
    BY <1>0, ChainMoves
  <2>3. /\ passkey'[c] # "None"
        /\ passkey'[c] \in {"PENDING", "REJECTED"} => passkey[c] \in {"PENDING", "REJECTED"}
    BY <2>1, StatusMoves
  <2> QED
    BY <1>0, <2>1, <2>2, <2>3
<1>2. CASE registry[c] = "absent"
  <2>1. PICK a \in Submitted(c) : decided'[a] = "Applied" /\ passkey' = passkey
    BY <1>2, ChainMoves
  <2>2. passkey[c] # "None"
    BY <2>1 DEF PromptInv, HistoryInv, PendingHistory
  <2> QED
    BY <1>0, <2>1, <2>2
<1> QED
  BY <1>1, <1>2

\* A rejected key stays out of the registry: its actions have FAILED and it gets no other.
LEMMA RejectedStep ==
    ASSUME BaseInv, PromptInv, [Next]_vars
    PROVE  RejectedIsNotRegistered'
<1> SUFFICES ASSUME NEW c \in Creds, passkey'[c] = "REJECTED"
             PROVE  registry'[c] = "absent" /\ InFlight(c)' = {}
  BY DEF RejectedIsNotRegistered
<1>0. \A a \in Submitted(c) : a \in KeyIds /\ a \in Ids /\ oe[a] \in {"NULL", "COMMITTED", "FAILED"}
  BY DEF Submitted, Ids, BaseInv, TypedLinks, TypeOK
<1>1. CASE passkey[c] = "REJECTED"
  <2>1. registry[c] = "absent" /\ InFlight(c) = {}
    BY <1>1 DEF PromptInv, HistoryInv, RejectedIsNotRegistered
  <2>2. \A a \in Submitted(c) : oe[a] # "NULL" /\ decided[a] # "None"
    <3>1. \A a \in Submitted(c) : oe[a] # "NULL"
      BY <2>1 DEF InFlight
    <3> QED
      BY <1>0, <3>1 DEF BaseInv, ChainInv, SettledTellsDecision
  <2>3. registry'[c] = "absent"
    BY <2>1, <2>2, ChainMoves
  <2>4. Submitted(c)' = Submitted(c)
    <3>1. CASE NoSubmission
      BY <3>1, NoSubmissionKeeps
    <3>2. ASSUME NEW r \in Requests, CommitKeyAction(r)
          PROVE  Submitted(c)' = Submitted(c)
      <4>0. PICK q : q = req[r]
        OBVIOUS
      <4>1. q.pc = "commitKey" /\ \A d : d # q.target => Submitted(d)' = Submitted(d)
        BY <3>2, <4>0, CommitMoves
      <4>2. c # q.target
        BY <1>1, <4>0, <4>1 DEF PromptInv, TargetInv, TargetHeld, HeldOK, Want
      <4> QED
        BY <4>1, <4>2
    <3> QED
      BY <3>1, <3>2, SubmissionCases DEF BaseInv
  <2>5. \A a \in Submitted(c) : oe'[a] # "NULL"
    BY <1>0, <2>2, ChainMoves
  <2> QED
    BY <2>3, <2>4, <2>5 DEF InFlight
<1>2. CASE passkey[c] = "PENDING" /\ ~LatestIn(c, {"SENT", "APPLIED"})
  <2>1. UNCHANGED <<keyAction, oe, registry, decided>>
    BY <1>2, StatusMoves
  <2>2. \A a \in Submitted(c) : oe[a] = "FAILED"
    <3> SUFFICES ASSUME NEW a \in Submitted(c), oe[a] # "FAILED" PROVE FALSE
      OBVIOUS
    <3>1. IsLatestSubmitted(a, c)
      BY <1>2 DEF PromptInv, HistoryInv, PendingHistory
    <3>2. ConfirmationStateOf(a) \in {"SENT", "APPLIED"}
      BY <1>0 DEF ConfirmationStateOf
    <3> QED
      BY <1>0, <1>2, <3>1, <3>2 DEF LatestIn
  <2>3. \A a \in Submitted(c) : decided[a] # "Applied"
    BY <1>0, <2>2 DEF BaseInv, ChainInv, SettledTellsDecision
  <2>4. registry[c] = "absent"
    BY <1>2, <2>3 DEF PromptInv, HistoryInv, RegisteredByAction
  <2>5. Submitted(c)' = Submitted(c)
    BY <2>1 DEF Submitted
  <2> QED
    BY <2>1, <2>2, <2>4, <2>5 DEF InFlight
<1> QED
  BY <1>1, <1>2, StatusMoves

\* All of it is inductive.
LEMMA PromptStep == BaseInv /\ PromptInv /\ [Next]_vars => PromptInv'
<1> SUFFICES ASSUME BaseInv, PromptInv, [Next]_vars PROVE PromptInv'
  OBVIOUS
<1>1. TargetInv'
  BY LatestStep, TargetStep DEF TargetInv
<1>2. HistoryInv'
  BY HistoryStep, RegisteredStep, RejectedStep DEF HistoryInv
<1>3. SlowTransactions = FALSE
  BY DEF PromptInv
<1> QED
  BY <1>1, <1>2, <1>3, StampStep DEF PromptInv

\* What holds of every behaviour without slow transactions.
LEMMA PromptSpec == SlowTransactions = FALSE /\ Spec => [](BaseInv /\ PromptInv)
<1>1. Init => BaseInv
  BY TypedLinksInit, SafeInit, StatusInit, ChainInit DEF BaseInv
<1>2. BaseInv /\ [Next]_vars => BaseInv'
  BY TypedLinksStep, SafeStep, StatusStep, ChainInvStep DEF BaseInv
<1> QED
  BY <1>1, <1>2, PromptInit, PromptStep, PTL DEF Spec

\* SubmitKeyAction, when nothing is settled while a key transaction is open: at most
\* one key action of a key waits for the chain, for any number of admins, drafts and requests.
\* (keyActionInFlight orders by submitted_at, the time of BEGIN; the stamps of open
\* transactions are what makes its answer the right one.)
THEOREM OneInFlightCorrect == SlowTransactions = FALSE /\ Spec => []OneKeyActionInFlight
<1>1. BaseInv /\ PromptInv => OneKeyActionInFlight
  <2> SUFFICES ASSUME BaseInv, PromptInv, NEW c \in Creds, NEW a \in InFlight(c), NEW b \in InFlight(c)
               PROVE  a = b
    BY DEF OneKeyActionInFlight
  <2>1. a \in Submitted(c) /\ b \in Submitted(c) /\ a \in KeyIds /\ b \in KeyIds
    BY DEF InFlight, Submitted
  <2>2. IsLatestSubmitted(a, c) /\ IsLatestSubmitted(b, c)
    BY DEF PromptInv, TargetInv, InFlightIsLatest
  <2>3. keyAction[a].submitted \in Nat /\ keyAction[b].submitted \in Nat
    BY <2>1 DEF BaseInv, TypedLinks, TypeOK
  <2>4. keyAction[a].submitted = keyAction[b].submitted /\ keyAction[a].submitted > 0
    BY <2>1, <2>2, <2>3 DEF IsLatestSubmitted, Submitted
  <2> QED
    BY <2>1, <2>4 DEF PromptInv, StampInv, StampsDiffer
<1> QED
  BY <1>1, PromptSpec, PTL

\* RejectPendingPasskey, under the same assumption: a key that an admin has rejected is not in
\* the registry, and no action is on its way that would register it.
THEOREM RejectedCorrect == SlowTransactions = FALSE /\ Spec => []RejectedIsNotRegistered
<1>1. PromptInv => RejectedIsNotRegistered
  BY DEF PromptInv, HistoryInv
<1> QED
  BY <1>1, PromptSpec, PTL
=============================================================================
