-------------------------------- MODULE Audit --------------------------------
(***************************************************************************)
(* The auditor: it reads the submitted actions and the chain one after the  *)
(* other, while the WMS submits, the adapter records and the chain decides, *)
(* and reports what does not agree. Custody is the world it looks at; the   *)
(* outcomes of its log are what the chain has decided (FAILED: the action   *)
(* never gets there), and row is what the database says about it.           *)
(*                                                                         *)
(* What the auditor recomputes for an action that is in both is the subject *)
(* of AuditClean in Inbound and Outbound.                                   *)
(***************************************************************************)
EXTENDS Custody

CONSTANT MaxActions     \* bound on the actions that are submitted

ASSUME AuditAssumption == MaxActions \in Nat

VARIABLES
    row,    \* onchain_events.status of the actions, "ABSENT" when there is no row
    old,    \* the first actions, submitted more than PendingStaleAfter ago
    audit   \* the audit that is running

auditVars == <<held, log, row, old, audit>>

RowStatuses == {"ABSENT", "PENDING", "SENT", "COMMITTED", "FAILED"}
Audits == {"product", "action", "all"}

\* about is the product or the action asked for; chain are the actions of the first reading of
\* the chain, db the actions read from the database with their status; before is a history
\* variable, the log when the audit began.
NoAudit == [of |-> "none", about |-> 0, step |-> "none", chain |-> {}, db |-> << >>,
            applied |-> {}, rejected |-> {}, before |-> << >>]

InitAudit == Init /\ row = [i \in DOMAIN log |-> "ABSENT"] /\ old = 0 /\ audit = NoAudit

-----------------------------------------------------------------------------
(* The world. *)

Submit ==
    /\ \E type \in ActionTypes, items \in SUBSET Products : items # {} /\ Advance(type, items)
    /\ Len(log') <= MaxActions
    /\ row' = row \o [k \in 1..(Len(log') - Len(log)) |-> "ABSENT"]
    /\ UNCHANGED <<old, audit>>

\* An action is recorded before it is sent.
Decide ==
    /\ Settle
    /\ \A i \in DOMAIN log : log'[i] # log[i] => row[i] # "ABSENT"
    /\ UNCHANGED <<row, old, audit>>

\* The adapter records an action, its transaction, and what the chain decided.
Record(i) ==
    /\ row' = [row EXCEPT ![i] =
         CASE @ = "ABSENT" -> "PENDING"
           [] @ = "PENDING" /\ log[i].outcome = "PENDING" -> "SENT"
           [] @ \in {"PENDING", "SENT"} /\ log[i].outcome = "COMMITTED" -> "COMMITTED"
           [] @ \in {"PENDING", "SENT"} /\ log[i].outcome \in {"FAILED", "REJECTED"} -> "FAILED"
           [] OTHER -> @]
    /\ row' # row
    /\ UNCHANGED <<held, log, old, audit>>

Age == old < Len(log) /\ old' = old + 1 /\ UNCHANGED <<held, log, row, audit>>

-----------------------------------------------------------------------------
(* What the auditor reads. *)

ActionIDsForItem(p) == {i \in DOMAIN log : log[i].outcome = "COMMITTED" /\ p \in log[i].items}

ReadActions(ids) == [i \in ids |-> row[i]]
ActionsForProduct(p) == ReadActions({i \in DOMAIN log : p \in log[i].items})
StoredAction(i) == ReadActions({i} \intersect DOMAIN log)
AllActions == ReadActions(DOMAIN log)

\* Seeded fault: the first reading of the chain is used again.
AppliedOfFirstRead(ids) == ids \intersect audit.chain

Applied(ids) == {i \in ids : log[i].outcome = "COMMITTED"}
Rejected(ids) == {i \in ids : log[i].outcome = "REJECTED"}

\* Seeded fault: only what the chain knows.
UnionChain(first, db) == first

Union(first, db) == first \union DOMAIN db

-----------------------------------------------------------------------------
(* The audits: of a product, of an action, of everything. *)

Continues(step, a) == audit.step = step /\ audit' = a /\ UNCHANGED <<held, log, row, old>>

ProductChain(p) ==
    Continues("none", [NoAudit EXCEPT !.of = "product", !.about = p, !.step = "db",
                                      !.chain = ActionIDsForItem(p), !.before = log])
BeginAction(i) ==
    Continues("none", [NoAudit EXCEPT !.of = "action", !.about = i, !.step = "db", !.before = log])
BeginAll ==
    Continues("none", [NoAudit EXCEPT !.of = "all", !.step = "db", !.before = log])

ReadDB ==
    Continues("db", [audit EXCEPT !.step = "applied",
                       !.db = CASE audit.of = "product" -> ActionsForProduct(audit.about)
                                [] audit.of = "action" -> StoredAction(audit.about)
                                [] audit.of = "all" -> AllActions])

\* The actions an audit is about; that of everything asks for all that is applied.
IDs(a) ==
    IF a.of = "all" THEN Union(a.applied, a.db)
    ELSE IF a.of = "action" THEN {a.about}
    ELSE Union(a.chain, a.db)

ReadApplied ==
    Continues("applied", [audit EXCEPT !.step = "rejected",
                            !.applied = Applied(IF audit.of = "all" THEN DOMAIN log ELSE IDs(audit))])

ReadRejected ==
    Continues("rejected", [audit EXCEPT !.step = "report",
                             !.rejected = Rejected(IF audit.of = "all" THEN DOMAIN audit.db ELSE IDs(audit))])

Report == Continues("report", NoAudit)

\* stage: what is said of an action.
Stage(i) ==
    IF i \notin DOMAIN audit.db THEN "MISSING_IN_DB"
    ELSE IF i \in audit.applied THEN "APPLIED"
    ELSE IF i \in audit.rejected THEN "REJECTED"
    ELSE IF audit.db[i] \in {"PENDING", "SENT"} /\ i > old THEN "PENDING"
    ELSE "MISSING_ON_CHAIN"

NextAudit ==
    \/ Submit \/ Decide \/ Age
    \/ \E i \in DOMAIN log : Record(i)
    \/ \E p \in Products : ProductChain(p)
    \/ \E i \in DOMAIN log : BeginAction(i)
    \/ BeginAll
    \/ ReadDB \/ ReadApplied \/ ReadRejected \/ Report

SpecAudit == InitAudit /\ [][NextAudit]_auditVars

-----------------------------------------------------------------------------

Reported == audit.step = "report"

\* The history is honest, and an audit that runs while it goes on raises no alarm over it. An
\* action is missing on the chain only when it failed on its way, is not recorded yet or has
\* been pending for too long: never because the chain was read before the database. Nothing is
\* missing in the database, but for an audit of everything, which reads the database first,
\* and an action that was submitted while it ran.
NoFalseAlarm ==
    Reported => \A i \in IDs(audit) :
        /\ Stage(i) = "MISSING_ON_CHAIN" => log[i].outcome = "FAILED" \/ audit.db[i] = "ABSENT" \/ i <= old
        /\ Stage(i) = "MISSING_IN_DB" => audit.of = "all" /\ i > Len(audit.before)

\* The report on a product, or on everything, covers every action that was submitted when the
\* audit began, and says of one the chain had decided what the chain decided.
ReportComplete ==
    Reported => \A i \in DOMAIN audit.before :
        (audit.of = "all" \/ (audit.of = "product" /\ audit.about \in audit.before[i].items)) =>
            /\ i \in IDs(audit)
            /\ audit.before[i].outcome = "COMMITTED" => Stage(i) = "APPLIED"
            /\ audit.before[i].outcome = "REJECTED" => Stage(i) = "REJECTED"

\* What the table of findings in docs says of MISSING_IN_DB, and TLC refutes for the audit of
\* everything: an action that is reported so is not in the database.
MissingInDBIsTrue == Reported => \A i \in IDs(audit) : Stage(i) # "MISSING_IN_DB"
=============================================================================
