---------------------------- MODULE KeyLifecycle ----------------------------
(***************************************************************************)
(* The keys of the WMS and what they sign: passkey rows and their statuses, *)
(* key actions (an admin registers or revokes an operator's key) and signed *)
(* warehouse operations, from the draft to the outbox row.                 *)
(*                                                                         *)
(* A request is a sequence of statements; each is a step, so the requests  *)
(* of several users interleave between a read and the write that follows.  *)
(* PostgreSQL is READ COMMITTED: a statement sees what is committed when   *)
(* it runs, and a row lock is held to the end of the transaction. A request *)
(* that fails a check, times out or loses its connection is Abort: its     *)
(* transaction is rolled back.                                             *)
(*                                                                         *)
(* The adapter and the contracts are the environment: they take the outbox *)
(* in the order of its commits, decide every action and settle its row of  *)
(* onchain_events later. A row that is FAILED was not applied.             *)
(*                                                                         *)
(* One organization, a registry client that is configured, assertions that *)
(* verify: a request whose assertion does not is an Abort.                 *)
(***************************************************************************)
EXTENDS Naturals, Sequences, FiniteSets

CONSTANTS
    Creds,              \* credentials, and with them the keys
    Users,              \* users of one organization
    Owner,              \* credential -> user
    Admins,             \* users with the role ADMIN; the others are operators
    InitialKeys,        \* the sets of keys that may be registered and ACTIVE at the start
    Signers,            \* users who draft warehouse operations
    KeyIds,             \* action ids of key actions
    OpIds,              \* operations (the parts of one are written together)
    Requests,           \* requests running at the same time
    OwnerRevokes,       \* keys the contract's owner may revoke without the WMS
    SlowTransactions,   \* may an action be settled while a key transaction is open?
    MaxStamp,           \* bound on the time stamps of key transactions
    NoCred, NoId

Ids == KeyIds \union OpIds
Live == {"PENDING", "ACTIVE"}
Statuses == Live \union {"None", "REJECTED", "REVOKED"}
KeyTypes == {"KeyRegister", "KeyRevoke"}
Goals == {"none", "finish", "view", "draftKey", "submitKey", "reject", "draftOp", "submitOp"}
Pcs == {"idle", "insertPasskey", "read", "write", "insertAction", "rejectTx", "insertOp",
        "lockAction", "lockTarget", "commitKey", "lockOp", "lockSigner", "checkRevoke", "commitOp"}

ASSUME KeyAssumption ==
    /\ Owner \in [Creds -> Users]
    /\ Admins \subseteq Users
    /\ InitialKeys \subseteq SUBSET Creds
    /\ \A S \in InitialKeys : IsFiniteSet(S) /\ \A c, d \in S : Owner[c] = Owner[d] => c = d
    /\ Signers \subseteq Users
    /\ KeyIds \intersect OpIds = {}
    /\ OwnerRevokes \subseteq Creds
    /\ SlowTransactions \in BOOLEAN
    /\ MaxStamp \in Nat
    /\ NoCred \notin Creds /\ NoId \notin Ids

VARIABLES
    passkey,    \* passkey_credentials: credential -> status, "None" when there is no row
    created,    \* the credentials in the order of created_at
    sessions,   \* Service.sessions: users with a registration session
    keyAction,  \* key_actions: id -> draft, with the stamp of its submission (0: a draft)
    op,         \* warehouse_actions: operation -> signer and whether it is submitted
    outbox,     \* outbox_events, in the order of their commits
    oe,         \* onchain_events: id -> status; "NULL" stands for no row, PENDING and SENT
    req,        \* request -> where it is and what it has read
    registry,   \* the contract: key -> "absent", "active" or "revoked"
    decided,    \* the contracts and the adapter: id -> what became of the action
    done        \* how much of the outbox the adapter has taken

dbVars == <<passkey, created, keyAction, op, outbox>>
chainVars == <<oe, registry, decided, done>>
vars == <<dbVars, sessions, req, chainVars>>

Request == [goal : Goals, pc : Pcs, cred : Creds \union {NoCred}, status : Statuses,
            seen : Statuses, type : KeyTypes \union {"None"}, target : Creds \union {NoCred},
            signer : Creds \union {NoCred}, id : Ids \union {NoId}, stamp : Nat]

NoAction == [type |-> "None", target |-> NoCred, signer |-> NoCred, submitted |-> 0]
NoOp == [signer |-> NoCred, submitted |-> FALSE]
Idle == [goal |-> "none", pc |-> "idle", cred |-> NoCred, status |-> "None", seen |-> "None",
         type |-> "None", target |-> NoCred, signer |-> NoCred, id |-> NoId, stamp |-> 0]

Init ==
    /\ \E S \in InitialKeys :
          /\ passkey = [c \in Creds |-> IF c \in S THEN "ACTIVE" ELSE "None"]
          /\ registry = [c \in Creds |-> IF c \in S THEN "active" ELSE "absent"]
    /\ created \in [1..Cardinality({c \in Creds : passkey[c] # "None"}) -> Creds]
    /\ \A c \in Creds : passkey[c] # "None" <=> \E i \in DOMAIN created : created[i] = c
    /\ sessions = {}
    /\ keyAction = [a \in KeyIds |-> NoAction]
    /\ op = [o \in OpIds |-> NoOp]
    /\ outbox = <<>>
    /\ oe = [a \in Ids |-> "NULL"]
    /\ req = [r \in Requests |-> Idle]
    /\ decided = [a \in Ids |-> "None"]
    /\ done = 0

-----------------------------------------------------------------------------
(* What the statements read. *)

IsLatestPasskey(c, u) ==
    \E i \in DOMAIN created :
        /\ created[i] = c
        /\ Owner[c] = u
        /\ \A j \in DOMAIN created : j > i => Owner[created[j]] # u

\* ORDER BY created_at DESC LIMIT 1; NoCred when the user has no row.
LatestPasskey(u) ==
    IF \E c \in Creds : IsLatestPasskey(c, u)
    THEN CHOOSE c \in Creds : IsLatestPasskey(c, u)
    ELSE NoCred

EnsureNoLiveKey(u) == LatestPasskey(u) # NoCred => passkey[LatestPasskey(u)] \notin Live

\* The index passkey_credentials_one_live_per_user.
IndexAllows(c, status) ==
    status \in Live => \A d \in Creds \ {c} : Owner[d] = Owner[c] => passkey[d] \notin Live

\* FAILED with and without a reject_reason block nothing, so they are one.
ConfirmationStateOf(a) ==
    CASE oe[a] = "NULL"      -> "SENT"
      [] oe[a] = "COMMITTED" -> "APPLIED"
      [] oe[a] = "FAILED"    -> "FAILED"

Submitted(c) == {a \in KeyIds : keyAction[a].target = c /\ keyAction[a].submitted > 0}

\* ORDER BY submitted_at DESC LIMIT 1
IsLatestSubmitted(a, c) ==
    /\ a \in Submitted(c)
    /\ \A b \in Submitted(c) : keyAction[b].submitted <= keyAction[a].submitted

\* The state of the latest submitted action of c is one of states.
LatestIn(c, states) ==
    \E a \in KeyIds : IsLatestSubmitted(a, c) /\ ConfirmationStateOf(a) \in states

\* keyActionInFlight with the condition SubmitKeyAction puts on it.
KeyActionInFlight(c, type) ==
    \E a \in KeyIds :
        /\ IsLatestSubmitted(a, c)
        /\ \/ ConfirmationStateOf(a) = "SENT"
           \/ /\ ConfirmationStateOf(a) = "APPLIED"
              /\ type = "KeyRegister" \/ keyAction[a].type = "KeyRevoke"

\* The second statement of LockSigner.
RevokeSubmitted(c) ==
    \E a \in Submitted(c) : keyAction[a].type = "KeyRevoke" /\ oe[a] # "FAILED"

-----------------------------------------------------------------------------
(* Row locks, read off the requests that hold them. *)

KeyTxPcs == {"lockAction", "lockTarget", "commitKey"}

ActionLocked(a) == \E r \in Requests : req[r].id = a /\ req[r].pc \in {"lockTarget", "commitKey"}
OperationLocked(o) ==
    \E r \in Requests : req[r].id = o /\ req[r].pc \in {"lockSigner", "checkRevoke", "commitOp"}

HoldsForUpdate(r, c) == req[r].pc = "commitKey" /\ req[r].target = c
HoldsForShare(r, c) == req[r].pc \in {"checkRevoke", "commitOp"} /\ req[r].signer = c
LockedForUpdate(c) == \E r \in Requests : HoldsForUpdate(r, c)
LockedForShare(c) == \E r \in Requests : HoldsForShare(r, c)
RowFree(c) == ~LockedForUpdate(c) /\ ~LockedForShare(c)

\* now() is the time of BEGIN: the next after every stamp given so far.
Stamps == {0} \union {keyAction[a].submitted : a \in KeyIds} \union {req[r].stamp : r \in Requests}
IsNow(s) == (\A t \in Stamps : t < s) /\ \E t \in Stamps : s = t + 1

Goto(r, new) == req' = [req EXCEPT ![r] = new]
Start(r, new) == req[r].pc = "idle" /\ Goto(r, new)

-----------------------------------------------------------------------------
(* Registration of a passkey. *)

\* (Only while a credential is left to register: Creds is finite.)
BeginRegistration(u) ==
    /\ \E c \in Creds : Owner[c] = u /\ passkey[c] = "None"
    /\ EnsureNoLiveKey(u)
    /\ sessions' = sessions \union {u}
    /\ UNCHANGED <<dbVars, req, chainVars>>

FinishRegistration(r, c) ==
    /\ passkey[c] = "None"
    /\ EnsureNoLiveKey(Owner[c])
    /\ Owner[c] \in sessions
    /\ sessions' = sessions \ {Owner[c]}
    /\ Start(r, [Idle EXCEPT !.goal = "finish", !.pc = "insertPasskey", !.cred = c])
    /\ UNCHANGED <<dbVars, chainVars>>

InsertPasskey(r) ==
    LET c == req[r].cred
    IN  /\ req[r].pc = "insertPasskey"
        /\ passkey[c] = "None"
        /\ IndexAllows(c, "PENDING")
        /\ passkey' = [passkey EXCEPT ![c] = "PENDING"]
        /\ created' = Append(created, c)
        /\ Goto(r, Idle)
        /\ UNCHANGED <<sessions, keyAction, op, outbox, chainVars>>

-----------------------------------------------------------------------------
(* A status is refreshed from the registry: load, ask the adapter, write.  *)
(* confirmActive serves the signer of a draft or of an operation,          *)
(* syncStatuses everybody else.                                            *)

Confirming(q) == q.goal \in {"draftOp", "submitOp"} \/ (q.goal = "draftKey" /\ q.signer = NoCred)

Want(type) == IF type = "KeyRegister" THEN "PENDING" ELSE "ACTIVE"

\* The row of c is loaded; nobody goes on with a key that is not live.
Loaded(q, c) ==
    IF c = NoCred THEN Idle
    ELSE IF passkey[c] \notin Live THEN Idle
    ELSE [q EXCEPT !.pc = "read", !.cred = c, !.status = passkey[c], !.seen = "None"]

\* What the request q does once it takes status for the status of its key.
Resume(q, status) ==
    CASE q.goal = "view" -> Idle
      [] q.goal = "draftKey" /\ q.signer = NoCred ->
            IF status # "ACTIVE" THEN Idle
            ELSE Loaded([q EXCEPT !.signer = q.cred], q.target)
      [] q.goal = "draftKey" /\ q.signer # NoCred ->
            IF status # Want(q.type) THEN Idle
            ELSE [q EXCEPT !.pc = "insertAction", !.cred = NoCred, !.status = "None", !.seen = "None"]
      [] q.goal = "reject" ->
            IF status # "PENDING" \/ LatestIn(q.cred, {"SENT", "APPLIED"}) THEN Idle
            ELSE [q EXCEPT !.pc = "rejectTx", !.status = "None", !.seen = "None"]
      [] q.goal = "draftOp" ->
            IF status # "ACTIVE" THEN Idle
            ELSE [Idle EXCEPT !.goal = "draftOp", !.pc = "insertOp", !.signer = q.cred]
      [] q.goal = "submitOp" ->
            IF status # "ACTIVE" \/ op[q.id].signer # q.cred THEN Idle
            ELSE [Idle EXCEPT !.goal = "submitOp", !.pc = "lockOp", !.signer = q.cred, !.id = q.id]

\* Seeded fault: the registry's word is stored as it is.
ReadRegistryVerbatim(r) ==
    /\ req[r].pc = "read"
    /\ Goto(r, [req[r] EXCEPT !.pc = "write", !.seen = registry[req[r].cred]])
    /\ UNCHANGED <<dbVars, sessions, chainVars>>

\* Seeded fault: a key the registry does not know is taken for a revoked one.
ReadRegistryUnknownIsRevoked(r) ==
    LET q == req[r]
        next == IF registry[q.cred] = "active" THEN "ACTIVE" ELSE "REVOKED"
    IN  /\ q.pc = "read"
        /\ Goto(r, IF next = q.status THEN Resume(q, next) ELSE [q EXCEPT !.pc = "write", !.seen = next])
        /\ UNCHANGED <<dbVars, sessions, chainVars>>

\* GetRegistryKeys answered: the key is unknown, has the stored status, or another.
\* (An adapter that does not answer leaves syncStatuses where an unknown key does,
\* and ends confirmActive.)
ReadRegistry(r) ==
    LET q == req[r]
        found == registry[q.cred] # "absent"
        next == IF registry[q.cred] = "active" THEN "ACTIVE" ELSE "REVOKED"
    IN  /\ q.pc = "read"
        /\ \/ /\ ~found /\ ~Confirming(q)
              /\ Goto(r, Resume(q, q.status))
           \/ /\ found /\ next = q.status
              /\ Goto(r, Resume(q, next))
           \/ /\ found /\ next # q.status
              /\ Goto(r, [q EXCEPT !.pc = "write", !.seen = next])
        /\ UNCHANGED <<dbVars, sessions, chainVars>>

RegistryUnavailable(r) ==
    /\ req[r].pc = "read"
    /\ ~Confirming(req[r])
    /\ Goto(r, Resume(req[r], req[r].status))
    /\ UNCHANGED <<dbVars, sessions, chainVars>>

\* UpdatePasskeyStatus waits for the row's locks, looks at nothing and may break
\* the index. An error is logged: syncStatuses keeps the status it had loaded,
\* confirmActive the one the registry gave.
UpdatePasskeyStatus(r) ==
    LET q == req[r]
    IN  /\ q.pc = "write"
        /\ RowFree(q.cred)
        /\ \/ /\ IndexAllows(q.cred, q.seen)
              /\ passkey' = [passkey EXCEPT ![q.cred] = q.seen]
              /\ Goto(r, Resume(q, q.seen))
           \/ /\ Goto(r, Resume(q, IF Confirming(q) THEN q.seen ELSE q.status))
              /\ UNCHANGED passkey
        /\ UNCHANGED <<created, sessions, keyAction, op, outbox, chainVars>>

\* MyPasskey, Organization and AdminKeyExport show a user's latest key.
ViewPasskey(r, u) ==
    /\ Start(r, Loaded([Idle EXCEPT !.goal = "view"], LatestPasskey(u)))
    /\ UNCHANGED <<dbVars, sessions, chainVars>>

-----------------------------------------------------------------------------
(* Key actions. *)

OperatorKey(c) == passkey[c] # "None" /\ Owner[c] \notin Admins

DraftKeyAction(r, u, type, c) ==
    /\ u \in Admins
    /\ OperatorKey(c)
    /\ Start(r, Loaded([Idle EXCEPT !.goal = "draftKey", !.type = type, !.target = c],
                       LatestPasskey(u)))
    /\ UNCHANGED <<dbVars, sessions, chainVars>>

\* requireNoConfirmation, then the insert.
InsertKeyAction(r) ==
    LET q == req[r]
    IN  /\ q.pc = "insertAction"
        /\ ~LatestIn(q.target, IF q.type = "KeyRegister" THEN {"SENT", "APPLIED"} ELSE {"SENT"})
        /\ \E a \in KeyIds :
              /\ keyAction[a] = NoAction
              /\ keyAction' = [keyAction EXCEPT ![a] = [type |-> q.type, target |-> q.target,
                                                        signer |-> q.signer, submitted |-> 0]]
        /\ Goto(r, Idle)
        /\ UNCHANGED <<passkey, created, sessions, op, outbox, chainVars>>

\* SubmitKeyAction: the service's checks and BEGIN.
SubmitKeyAction(r, a) ==
    /\ keyAction[a] # NoAction
    /\ keyAction[a].submitted = 0
    /\ \E now \in 1..MaxStamp :
          /\ IsNow(now)
          /\ Start(r, [Idle EXCEPT !.goal = "submitKey", !.pc = "lockAction", !.id = a,
                                   !.type = keyAction[a].type, !.target = keyAction[a].target,
                                   !.signer = keyAction[a].signer, !.stamp = now])
    /\ UNCHANGED <<dbVars, sessions, chainVars>>

LockAction(r) ==
    /\ req[r].pc = "lockAction"
    /\ ~ActionLocked(req[r].id)
    /\ keyAction[req[r].id].submitted = 0
    /\ Goto(r, [req[r] EXCEPT !.pc = "lockTarget"])
    /\ UNCHANGED <<dbVars, sessions, chainVars>>

\* Seeded fault: the target's row is read without FOR UPDATE.
LockTargetWithoutLock(r) ==
    LET q == req[r]
    IN  /\ q.pc = "lockTarget"
        /\ passkey[q.target] = Want(q.type)
        /\ ~KeyActionInFlight(q.target, q.type)
        /\ Goto(r, [q EXCEPT !.pc = "commitKey"])
        /\ UNCHANGED <<dbVars, sessions, chainVars>>

\* The target's row FOR UPDATE with its status, then keyActionInFlight.
LockTarget(r) ==
    LET q == req[r]
    IN  /\ q.pc = "lockTarget"
        /\ RowFree(q.target)
        /\ passkey[q.target] = Want(q.type)
        /\ ~KeyActionInFlight(q.target, q.type)
        /\ Goto(r, [q EXCEPT !.pc = "commitKey"])
        /\ UNCHANGED <<dbVars, sessions, chainVars>>

\* The signer's row FOR SHARE, the outbox row, submitted_at, COMMIT.
CommitKeyAction(r) ==
    LET q == req[r]
    IN  /\ q.pc = "commitKey"
        /\ ~LockedForUpdate(q.signer)
        /\ passkey[q.signer] = "ACTIVE"
        /\ outbox' = Append(outbox, q.id)
        /\ keyAction' = [keyAction EXCEPT ![q.id].submitted = q.stamp]
        /\ Goto(r, Idle)
        /\ UNCHANGED <<passkey, created, sessions, op, chainVars>>

RejectKey(r, c) ==
    /\ OperatorKey(c)
    /\ Start(r, Loaded([Idle EXCEPT !.goal = "reject"], c))
    /\ UNCHANGED <<dbVars, sessions, chainVars>>

\* Seeded fault: the row is not locked.
RejectPendingPasskeyWithoutLock(r) ==
    LET c == req[r].cred
    IN  /\ req[r].pc = "rejectTx"
        /\ passkey[c] = "PENDING"
        /\ ~LatestIn(c, {"SENT", "APPLIED"})
        /\ passkey' = [passkey EXCEPT ![c] = "REJECTED"]
        /\ Goto(r, Idle)
        /\ UNCHANGED <<created, sessions, keyAction, op, outbox, chainVars>>

\* One transaction under the row's lock; nobody else changes what it reads.
RejectPendingPasskey(r) ==
    LET c == req[r].cred
    IN  /\ req[r].pc = "rejectTx"
        /\ RowFree(c)
        /\ passkey[c] = "PENDING"
        /\ ~LatestIn(c, {"SENT", "APPLIED"})
        /\ passkey' = [passkey EXCEPT ![c] = "REJECTED"]
        /\ Goto(r, Idle)
        /\ UNCHANGED <<created, sessions, keyAction, op, outbox, chainVars>>

-----------------------------------------------------------------------------
(* Signed warehouse operations: what the four flows (receiving, putaway,   *)
(* assembly, shipping) share.                                              *)

DraftOperation(r, u) ==
    /\ u \in Signers
    /\ Start(r, Loaded([Idle EXCEPT !.goal = "draftOp"], LatestPasskey(u)))
    /\ UNCHANGED <<dbVars, sessions, chainVars>>

InsertOperation(r) ==
    /\ req[r].pc = "insertOp"
    /\ \E o \in OpIds :
          /\ op[o] = NoOp
          /\ op' = [op EXCEPT ![o].signer = req[r].signer]
    /\ Goto(r, Idle)
    /\ UNCHANGED <<passkey, created, sessions, keyAction, outbox, chainVars>>

\* The operation is loaded; ActiveSigner follows.
SubmitOperation(r, o) ==
    /\ op[o] # NoOp
    /\ ~op[o].submitted
    /\ Start(r, Loaded([Idle EXCEPT !.goal = "submitOp", !.id = o],
                       LatestPasskey(Owner[op[o].signer])))
    /\ UNCHANGED <<dbVars, sessions, chainVars>>

\* Seeded fault: the rows are locked but submitted_at is not looked at again.
LockOperationUnchecked(r) ==
    /\ req[r].pc = "lockOp"
    /\ ~OperationLocked(req[r].id)
    /\ Goto(r, [req[r] EXCEPT !.pc = "lockSigner"])
    /\ UNCHANGED <<dbVars, sessions, chainVars>>

LockOperation(r) ==
    /\ req[r].pc = "lockOp"
    /\ ~OperationLocked(req[r].id)
    /\ ~op[req[r].id].submitted
    /\ Goto(r, [req[r] EXCEPT !.pc = "lockSigner"])
    /\ UNCHANGED <<dbVars, sessions, chainVars>>

\* Seeded fault: the row is read without FOR SHARE.
LockSignerWithoutLock(r) ==
    /\ req[r].pc = "lockSigner"
    /\ passkey[req[r].signer] = "ACTIVE"
    /\ Goto(r, [req[r] EXCEPT !.pc = "checkRevoke"])
    /\ UNCHANGED <<dbVars, sessions, chainVars>>

\* LockSigner, first statement.
LockSigner(r) ==
    /\ req[r].pc = "lockSigner"
    /\ ~LockedForUpdate(req[r].signer)
    /\ passkey[req[r].signer] = "ACTIVE"
    /\ Goto(r, [req[r] EXCEPT !.pc = "checkRevoke"])
    /\ UNCHANGED <<dbVars, sessions, chainVars>>

\* LockSigner, second statement.
CheckRevoke(r) ==
    /\ req[r].pc = "checkRevoke"
    /\ ~RevokeSubmitted(req[r].signer)
    /\ Goto(r, [req[r] EXCEPT !.pc = "commitOp"])
    /\ UNCHANGED <<dbVars, sessions, chainVars>>

\* The outbox rows, submitted_at and COMMIT.
WriteActions(r) ==
    LET o == req[r].id
    IN  /\ req[r].pc = "commitOp"
        /\ outbox' = Append(outbox, o)
        /\ op' = [op EXCEPT ![o].submitted = TRUE]
        /\ Goto(r, Idle)
        /\ UNCHANGED <<passkey, created, sessions, keyAction, chainVars>>

-----------------------------------------------------------------------------
(* Failures. *)

\* Every error return: a check that fails, a statement that fails, a client that leaves.
Abort(r) ==
    /\ req[r].pc # "idle"
    /\ Goto(r, Idle)
    /\ UNCHANGED <<dbVars, sessions, chainVars>>

\* The process dies: transactions are rolled back, registration sessions are lost.
Restart ==
    /\ sessions # {} \/ \E r \in Requests : req[r].pc # "idle"
    /\ req' = [r \in Requests |-> Idle]
    /\ sessions' = {}
    /\ UNCHANGED <<dbVars, chainVars>>

-----------------------------------------------------------------------------
(* The environment. *)

TransactionOpen == \E r \in Requests : req[r].pc \in KeyTxPcs

\* The contract's verdict on the next action of the outbox.
Accepts(a) ==
    IF a \in OpIds THEN registry[op[a].signer] = "active"
    ELSE /\ registry[keyAction[a].signer] = "active"
         /\ registry[keyAction[a].target] = IF keyAction[a].type = "KeyRegister" THEN "absent" ELSE "active"

ExecuteNext ==
    LET a == outbox[done + 1]
    IN  /\ done < Len(outbox)
        /\ done' = done + 1
        /\ decided' = [decided EXCEPT ![a] = IF Accepts(a) THEN "Applied" ELSE "Rejected"]
        /\ registry' = IF a \in KeyIds /\ Accepts(a)
                       THEN [registry EXCEPT ![keyAction[a].target] =
                                IF keyAction[a].type = "KeyRegister" THEN "active" ELSE "revoked"]
                       ELSE registry
        /\ UNCHANGED <<dbVars, sessions, req, oe>>

\* The adapter gives an action up before it is executed (dead letter).
DropNext ==
    /\ done < Len(outbox)
    /\ done' = done + 1
    /\ decided' = [decided EXCEPT ![outbox[done + 1]] = "Dropped"]
    /\ UNCHANGED <<dbVars, sessions, req, oe, registry>>

Settle(a) ==
    /\ decided[a] # "None"
    /\ oe[a] = "NULL"
    /\ SlowTransactions \/ ~TransactionOpen
    /\ oe' = [oe EXCEPT ![a] = IF decided[a] = "Applied" THEN "COMMITTED" ELSE "FAILED"]
    /\ UNCHANGED <<dbVars, sessions, req, registry, decided, done>>

OwnerRevokeKey(c) ==
    /\ c \in OwnerRevokes
    /\ registry[c] = "active"
    /\ registry' = [registry EXCEPT ![c] = "revoked"]
    /\ UNCHANGED <<dbVars, sessions, req, oe, decided, done>>

-----------------------------------------------------------------------------
Next ==
    \/ \E u \in Users : BeginRegistration(u)
    \/ \E r \in Requests :
          \/ \E c \in Creds : FinishRegistration(r, c) \/ RejectKey(r, c)
          \/ \E u \in Users : ViewPasskey(r, u) \/ DraftOperation(r, u)
          \/ \E u \in Users, t \in KeyTypes, c \in Creds : DraftKeyAction(r, u, t, c)
          \/ \E a \in KeyIds : SubmitKeyAction(r, a)
          \/ \E o \in OpIds : SubmitOperation(r, o)
          \/ InsertPasskey(r) \/ ReadRegistry(r) \/ RegistryUnavailable(r)
          \/ UpdatePasskeyStatus(r)
          \/ InsertKeyAction(r) \/ LockAction(r) \/ LockTarget(r) \/ CommitKeyAction(r)
          \/ RejectPendingPasskey(r)
          \/ InsertOperation(r) \/ LockOperation(r) \/ LockSigner(r) \/ CheckRevoke(r)
          \/ WriteActions(r)
          \/ Abort(r)
    \/ Restart
    \/ ExecuteNext \/ DropNext
    \/ \E a \in Ids : Settle(a)
    \/ \E c \in Creds : OwnerRevokeKey(c)

Spec == Init /\ [][Next]_vars

-----------------------------------------------------------------------------
(* Properties. *)

\* Type invariant: rows, requests and the environment keep their shapes, the
\* adapter never takes more of the outbox than there is.
TypeOK ==
    /\ passkey \in [Creds -> Statuses]
    /\ created \in Seq(Creds)
    /\ sessions \subseteq Users
    /\ keyAction \in [KeyIds -> [type : KeyTypes \union {"None"}, target : Creds \union {NoCred},
                                 signer : Creds \union {NoCred}, submitted : Nat]]
    /\ op \in [OpIds -> [signer : Creds \union {NoCred}, submitted : BOOLEAN]]
    /\ outbox \in Seq(Ids)
    /\ oe \in [Ids -> {"NULL", "COMMITTED", "FAILED"}]
    /\ req \in [Requests -> Request]
    /\ registry \in [Creds -> {"absent", "active", "revoked"}]
    /\ decided \in [Ids -> {"None", "Applied", "Rejected", "Dropped"}]
    /\ done \in 0..Len(outbox)

\* ADR §7: once the revocation of a key is committed to the outbox, no warehouse
\* operation signed by that key is committed behind it, unless the revocation has
\* FAILED. FOR SHARE in LockSigner, FOR UPDATE in SubmitKeyAction and the separate
\* second statement of LockSigner are there for this.
OutboxOrder ==
    \A i, j \in DOMAIN outbox :
        (/\ i < j
         /\ outbox[i] \in KeyIds /\ outbox[j] \in OpIds
         /\ keyAction[outbox[i]].type = "KeyRevoke"
         /\ keyAction[outbox[i]].target = op[outbox[j]].signer)
        => oe[outbox[i]] = "FAILED"

\* ADR §7: "the contract rejects only an action sent past the backend". An operation
\* the WMS has accepted is never rejected for its key, except for a key the contract's
\* owner revokes directly; not even when its status was refreshed from a stale answer
\* of the registry.
AcceptedIsApplied ==
    \A o \in OpIds : decided[o] = "Rejected" => op[o].signer \in OwnerRevokes

\* A draft gets into the outbox at most once, however many requests submit it, and is
\* marked as submitted exactly when it is there.
SubmittedOnce ==
    /\ \A i, j \in DOMAIN outbox : outbox[i] = outbox[j] => i = j
    /\ \A a \in KeyIds : keyAction[a].submitted > 0 <=> \E i \in DOMAIN outbox : outbox[i] = a
    /\ \A o \in OpIds : op[o].submitted <=> \E i \in DOMAIN outbox : outbox[i] = o

InFlight(c) == {a \in Submitted(c) : oe[a] = "NULL"}

\* SubmitKeyAction: at most one key action of a key waits for the chain, when nothing is
\* settled while a key transaction is open (SlowTransactions = FALSE).
OneKeyActionInFlight == \A c \in Creds, a, b \in KeyIds : {a, b} \subseteq InFlight(c) => a = b

\* RejectPendingPasskey: a key the admin has rejected is not in the registry and no
\* action is on its way that would register it (nothing reads the status of a rejected
\* key from the registry again).
RejectedIsNotRegistered ==
    \A c \in Creds : passkey[c] = "REJECTED" => registry[c] = "absent" /\ InFlight(c) = {}

\* syncStatuses and confirmActive: a status is never ahead of the registry. A key is
\* ACTIVE only after its registration and REVOKED only after its revocation there.
StatusFollowsRegistry ==
    \A c \in Creds : /\ passkey[c] = "ACTIVE" => registry[c] # "absent"
                     /\ passkey[c] = "REVOKED" => registry[c] = "revoked"
=============================================================================
