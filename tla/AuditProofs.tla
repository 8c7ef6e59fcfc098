----------------------------- MODULE AuditProofs -----------------------------
(***************************************************************************)
(* Theorems about Audit, for any products, history and number of actions:   *)
(* an audit that runs while the WMS, the adapter and the chain go on raises *)
(* no alarm over what is only under way, and leaves nothing out.            *)
(***************************************************************************)
EXTENDS Audit, CustodyProofs

-----------------------------------------------------------------------------
(* The inductive invariant. *)

\* l is a later log than b: actions are appended, and what is decided stays so.
Grown(b, l) ==
    /\ Len(b) <= Len(l)
    /\ \A i \in 1..Len(b) : /\ l[i].items = b[i].items
                            /\ b[i].outcome # "PENDING" => l[i].outcome = b[i].outcome

\* The database says of an action what the chain decided, or nothing final.
Honest(db, l) ==
    \A i \in DOMAIN db : /\ db[i] = "COMMITTED" => l[i].outcome = "COMMITTED"
                         /\ db[i] = "FAILED" => l[i].outcome \in {"FAILED", "REJECTED"}

\* The actions that a run of the audit has to cover: those of its product, the action it was
\* asked for, all of them.
Subject(a) ==
    {i \in 1..Len(a.before) : \/ a.of = "product" /\ a.about \in a.before[i].items
                              \/ a.of = "action" /\ a.about = i
                              \/ a.of = "all"}

\* What the auditor knows after each of its readings, when the log is l.
Begun(a, l) ==
    /\ Grown(a.before, l)
    /\ a.of \in Audits
    /\ a.of = "product" => a.chain \subseteq Subject(a)
    /\ a.of = "action" => a.about \in 1..Len(a.before)

DBRead(a, l) ==
    /\ DOMAIN a.db \subseteq 1..Len(l)
    /\ Honest(a.db, l)
    /\ Subject(a) \subseteq DOMAIN a.db
    /\ a.of = "action" => DOMAIN a.db = {a.about}

AppliedRead(a, l) ==
    /\ a.applied \subseteq 1..Len(l)
    /\ \A i \in a.applied : l[i].outcome = "COMMITTED"
    /\ \A i \in DOMAIN a.db :
           \/ a.db[i] = "COMMITTED"
           \/ i \in 1..Len(a.before) /\ a.before[i].outcome = "COMMITTED"
           => i \in a.applied

RejectedRead(a, l) ==
    \A i \in DOMAIN a.db :
        \/ a.db[i] = "FAILED" /\ l[i].outcome = "REJECTED"
        \/ i \in 1..Len(a.before) /\ a.before[i].outcome = "REJECTED"
        => i \in a.rejected

Informed(a, l) ==
    /\ a.step \in {"db", "applied", "rejected", "report"} => Begun(a, l)
    /\ a.step \in {"applied", "rejected", "report"} => DBRead(a, l)
    /\ a.step \in {"rejected", "report"} => AppliedRead(a, l)
    /\ a.step = "report" => RejectedRead(a, l)

\* What is read of the database.
Readings == UNION {[S -> RowStatuses] : S \in SUBSET Nat}

AuditRecord ==
    [of : Audits \union {"none"}, about : Nat, step : {"none", "db", "applied", "rejected", "report"},
     chain : SUBSET Nat, db : Readings, applied : SUBSET Nat, rejected : SUBSET Nat, before : Seq(Action)]

Rows == row \in Seq(RowStatuses) /\ Len(row) = Len(log) /\ old \in 0..Len(log) /\ Honest(row, log)

AuditInv == Inv /\ Rows /\ audit \in AuditRecord /\ Informed(audit, log)

-----------------------------------------------------------------------------
(* The world goes on while the auditor reads. *)

\* A log that grows makes nothing untrue that the auditor was told.
LEMMA GrownTransitive ==
    ASSUME NEW b \in Seq(Action), NEW l \in Seq(Action), NEW m \in Seq(Action), Grown(b, l), Grown(l, m)
    PROVE  Grown(b, m)
<1>1. Len(b) \in Nat /\ Len(l) \in Nat /\ Len(m) \in Nat
  OBVIOUS
<1>2. Len(b) <= Len(m) /\ \A i \in 1..Len(b) : i \in 1..Len(l)
  BY <1>1 DEF Grown
<1> QED BY <1>1, <1>2 DEF Grown

LEMMA HonestGrown ==
    ASSUME NEW db, NEW l \in Seq(Action), NEW m \in Seq(Action), Grown(l, m), Honest(db, l), DOMAIN db \subseteq 1..Len(l)
    PROVE  Honest(db, m)
<1> SUFFICES ASSUME NEW i \in DOMAIN db
             PROVE  /\ db[i] = "COMMITTED" => m[i].outcome = "COMMITTED"
                    /\ db[i] = "FAILED" => m[i].outcome \in {"FAILED", "REJECTED"}
  BY DEF Honest
<1>1. i \in 1..Len(l)
  OBVIOUS
<1> QED BY <1>1 DEF Honest, Grown

LEMMA InformedGrown ==
    ASSUME NEW a \in AuditRecord, NEW l \in Seq(Action), NEW m \in Seq(Action), Grown(l, m), Informed(a, l)
    PROVE  Informed(a, m)
<1>1. a.before \in Seq(Action) /\ Len(a.before) \in Nat /\ Len(l) \in Nat /\ Len(m) \in Nat
  <2>1. a.before \in Seq(Action)
    BY DEF AuditRecord
  <2> QED BY <2>1
<1>2. Len(l) <= Len(m) /\ 1..Len(l) \subseteq 1..Len(m)
  BY <1>1 DEF Grown
<1>3. Begun(a, l) => Begun(a, m)
  BY <1>1, GrownTransitive DEF Begun
<1>4. DBRead(a, l) => DBRead(a, m)
  BY <1>2, HonestGrown DEF DBRead
<1>5. AppliedRead(a, l) => AppliedRead(a, m)
  <2> SUFFICES ASSUME AppliedRead(a, l) PROVE AppliedRead(a, m)
    OBVIOUS
  <2>1. \A i \in a.applied : m[i].outcome = "COMMITTED"
    BY DEF AppliedRead, Grown
  <2>2. a.applied \subseteq 1..Len(m)
    BY <1>2 DEF AppliedRead
  <2> QED BY <2>1, <2>2 DEF AppliedRead
<1>6. DBRead(a, l) /\ RejectedRead(a, l) => RejectedRead(a, m)
  <2> SUFFICES ASSUME DBRead(a, l), RejectedRead(a, l), NEW i \in DOMAIN a.db,
                      \/ a.db[i] = "FAILED" /\ m[i].outcome = "REJECTED"
                      \/ i \in 1..Len(a.before) /\ a.before[i].outcome = "REJECTED"
               PROVE  i \in a.rejected
    BY DEF RejectedRead
  <2>1. i \in 1..Len(l)
    BY DEF DBRead
  <2>2. a.db[i] = "FAILED" => l[i].outcome \in {"FAILED", "REJECTED"}
    BY DEF DBRead, Honest
  <2>3. l[i].outcome = "FAILED" => m[i].outcome = "FAILED"
    BY <2>1 DEF Grown
  <2> QED BY <2>2, <2>3 DEF RejectedRead
<1> QED BY <1>3, <1>4, <1>5, <1>6 DEF Informed

LEMMA FunctionIsSeq ==
    ASSUME NEW S, NEW n \in Nat, NEW r \in [1..n -> S]
    PROVE  r \in Seq(S) /\ Len(r) = n /\ DOMAIN r = 1..n
  OBVIOUS

LEMMA ConcatenationType ==
    ASSUME NEW S, NEW a \in Seq(S), NEW b \in Seq(S)
    PROVE  a \o b \in Seq(S) /\ Len(a \o b) = Len(a) + Len(b)
  OBVIOUS

LEMMA GrownSame ==
    ASSUME NEW l \in Seq(Action)
    PROVE  Grown(l, l)
<1>1. Len(l) \in Nat
  OBVIOUS
<1> QED BY <1>1 DEF Grown

LEMMA RowsType ==
    ASSUME AuditInv
    PROVE  /\ log \in Seq(Action) /\ Len(log) \in Nat /\ DOMAIN log = 1..Len(log)
           /\ row \in Seq(RowStatuses) /\ DOMAIN row = 1..Len(log) /\ old \in 0..Len(log)
           /\ \A i \in 1..Len(log) : row[i] \in RowStatuses
           /\ Honest(row, log)
<1>1. log \in Seq(Action)
  BY DEF AuditInv, Inv, Coherent
<1>2. row \in Seq(RowStatuses) /\ Len(row) = Len(log) /\ old \in 0..Len(log) /\ Honest(row, log)
  BY DEF AuditInv, Rows
<1> QED BY <1>1, <1>2

LEMMA NoAuditType == NoAudit \in AuditRecord
<1>1. << >> \in [{} -> RowStatuses] /\ << >> \in Seq(Action)
  OBVIOUS
<1>2. << >> \in Readings
  BY <1>1 DEF Readings
<1> HIDE DEF Readings
<1> QED BY <1>1, <1>2 DEF NoAudit, AuditRecord

LEMMA InitAuditInv == InitAudit => AuditInv
<1> SUFFICES ASSUME InitAudit PROVE AuditInv
  OBVIOUS
<1>1. Inv
  BY InitInv DEF InitAudit
<1>2. log \in Seq(Action) /\ Len(log) \in Nat /\ DOMAIN log = 1..Len(log)
  BY <1>1 DEF Inv, Coherent
<1>3. Rows
  <2>1. row = [i \in 1..Len(log) |-> "ABSENT"] /\ old = 0
    BY <1>2 DEF InitAudit
  <2>2. row \in [1..Len(log) -> RowStatuses] /\ \A i \in 1..Len(log) : row[i] = "ABSENT"
    BY <2>1 DEF RowStatuses
  <2>3. row \in Seq(RowStatuses) /\ Len(row) = Len(log) /\ DOMAIN row = 1..Len(log)
    BY <1>2, <2>2, FunctionIsSeq
  <2>4. Honest(row, log)
    BY <2>2, <2>3 DEF Honest
  <2>5. old \in 0..Len(log)
    BY <1>2, <2>1
  <2> QED BY <2>3, <2>4, <2>5 DEF Rows
<1>4. audit \in AuditRecord
  BY NoAuditType DEF InitAudit
<1>5. Informed(audit, log)
  BY DEF InitAudit, NoAudit, Informed
<1> QED BY <1>1, <1>3, <1>4, <1>5 DEF AuditInv

\* A submission appends pending actions.
LEMMA AdvanceGrows ==
    ASSUME log \in Seq(Action), NEW type \in ActionTypes, NEW items \in SUBSET Products, Advance(type, items)
    PROVE  log' \in Seq(Action) /\ Len(log) <= Len(log') /\ \A i \in 1..Len(log) : log'[i] = log[i]
<1> DEFINE s == Signed(type, items)
<1>1. s \in Seq(Action)
  BY SignedType
<1>2. log' = log \o s
  BY DEF Advance
<1> HIDE DEF s
<1> QED BY <1>1, <1>2, Concatenation

LEMMA SubmitInv ==
    ASSUME AuditInv, Submit
    PROVE  AuditInv'
<1>rows. /\ log \in Seq(Action) /\ Len(log) \in Nat /\ DOMAIN log = 1..Len(log)
         /\ row \in Seq(RowStatuses) /\ DOMAIN row = 1..Len(log) /\ old \in 0..Len(log)
         /\ \A i \in 1..Len(log) : row[i] \in RowStatuses
         /\ Honest(row, log)
  BY RowsType
<1> USE <1>rows
<1>1. PICK type \in ActionTypes, items \in SUBSET Products : items # {} /\ Advance(type, items)
  BY DEF Submit
<1>2. Inv'
  BY <1>1, AdvanceInv DEF AuditInv
<1>3. log' \in Seq(Action) /\ Len(log) <= Len(log') /\ \A i \in 1..Len(log) : log'[i] = log[i]
  BY <1>1, AdvanceGrows
<1>4. Len(log') \in Nat /\ Grown(log, log')
  BY <1>3 DEF Grown
<1> DEFINE k == Len(log') - Len(log)
           e == [j \in 1..k |-> "ABSENT"]
<1>5. k \in Nat /\ Len(log) + k = Len(log')
  BY <1>3, <1>4
<1> HIDE DEF k
<1>6. e \in Seq(RowStatuses) /\ Len(e) = k /\ \A j \in 1..k : e[j] = "ABSENT"
  <2>1. e \in [1..k -> RowStatuses] /\ \A j \in 1..k : e[j] = "ABSENT"
    BY DEF RowStatuses
  <2> HIDE DEF e
  <2> QED BY <1>5, <2>1, FunctionIsSeq
<1>7. row' = row \o e
  BY DEF Submit, k
<1> HIDE DEF e
<1>8. Len(row) = Len(log)
  BY DEF AuditInv, Rows
<1>9. /\ row' \in Seq(RowStatuses) /\ Len(row') = Len(log')
      /\ \A i \in 1..Len(log) : row'[i] = row[i]
      /\ \A i \in (Len(log) + 1)..Len(log') : row'[i] = "ABSENT"
  <2>1. row' \in Seq(RowStatuses) /\ Len(row') = Len(row) + Len(e)
    BY <1>6, <1>7, ConcatenationType
  <2>2. \A i \in 1..Len(log) : row'[i] = row[i]
    BY <1>6, <1>7, <1>8
  <2>3. \A i \in (Len(log) + 1)..Len(log') : row'[i] = e[i - Len(log)] /\ i - Len(log) \in 1..k
    BY <1>5, <1>6, <1>7, <1>8
  <2> QED BY <1>5, <1>6, <1>8, <2>1, <2>2, <2>3
<1>10. Honest(row', log')
  <2> SUFFICES ASSUME NEW i \in DOMAIN row'
               PROVE  /\ row'[i] = "COMMITTED" => log'[i].outcome = "COMMITTED"
                      /\ row'[i] = "FAILED" => log'[i].outcome \in {"FAILED", "REJECTED"}
    BY DEF Honest
  <2>1. i \in 1..Len(log) \/ i \in (Len(log) + 1)..Len(log')
    BY <1>4, <1>9
  <2>2. CASE i \in 1..Len(log)
    BY <1>3, <1>9, <2>2 DEF Honest
  <2>3. CASE i \in (Len(log) + 1)..Len(log')
    BY <1>9, <2>3
  <2> QED BY <2>1, <2>2, <2>3
<1>11. Rows'
  <2>1. old' = old
    BY DEF Submit
  <2> QED BY <1>3, <1>4, <1>9, <1>10, <2>1 DEF Rows
<1>12. audit' \in AuditRecord /\ Informed(audit', log')
  <2>1. audit' = audit
    BY DEF Submit
  <2> QED BY <1>3, <1>4, <2>1, InformedGrown DEF AuditInv
<1> QED BY <1>2, <1>11, <1>12 DEF AuditInv

LEMMA DecideInv ==
    ASSUME AuditInv, Decide
    PROVE  AuditInv'
<1>rows. /\ log \in Seq(Action) /\ Len(log) \in Nat /\ DOMAIN log = 1..Len(log)
         /\ row \in Seq(RowStatuses) /\ DOMAIN row = 1..Len(log) /\ old \in 0..Len(log)
         /\ \A i \in 1..Len(log) : row[i] \in RowStatuses
         /\ Honest(row, log)
  BY RowsType
<1> USE <1>rows
<1>1. Inv'
  BY SettleInv DEF AuditInv, Decide
<1>2. PICK i \in 1..Len(log) :
          /\ log[i].outcome = "PENDING"
          /\ \A j \in 1..Len(log) : j # i => log'[j] = log[j]
  BY SettledChange DEF Decide, Settle
<1>3. /\ log' \in Seq(Action) /\ Len(log') = Len(log)
      /\ \A j \in 1..Len(log) : log'[j].items = log[j].items
  BY SettledChange DEF Decide, Settle
<1>4. Grown(log, log')
  <2>1. \A j \in 1..Len(log) : log[j].outcome # "PENDING" => log'[j] = log[j]
    BY <1>2
  <2> QED BY <1>3, <2>1 DEF Grown
<1>5. row' = row /\ old' = old /\ audit' = audit
  BY DEF Decide
<1>6. Rows'
  <2>1. Honest(row, log')
    BY <1>3, <1>4, HonestGrown
  <2> QED BY <1>3, <1>5, <2>1 DEF AuditInv, Rows
<1>7. audit' \in AuditRecord /\ Informed(audit', log')
  BY <1>3, <1>4, <1>5, InformedGrown DEF AuditInv
<1> QED BY <1>1, <1>6, <1>7 DEF AuditInv

\* The adapter records what the chain decided.
LEMMA RecordInv ==
    ASSUME AuditInv, NEW i \in DOMAIN log, Record(i)
    PROVE  AuditInv'
<1>rows. /\ log \in Seq(Action) /\ Len(log) \in Nat /\ DOMAIN log = 1..Len(log)
         /\ row \in Seq(RowStatuses) /\ DOMAIN row = 1..Len(log) /\ old \in 0..Len(log)
         /\ \A n \in 1..Len(log) : row[n] \in RowStatuses
         /\ Honest(row, log)
  BY RowsType
<1> USE <1>rows
<1>1. held' = held /\ log' = log /\ old' = old /\ audit' = audit
  BY DEF Record
<1> DEFINE s == row'[i]
<1>2. /\ s \in RowStatuses
      /\ s = "COMMITTED" => log[i].outcome = "COMMITTED"
      /\ s = "FAILED" => log[i].outcome \in {"FAILED", "REJECTED"}
  <2>1. s = CASE row[i] = "ABSENT" -> "PENDING"
              [] row[i] = "PENDING" /\ log[i].outcome = "PENDING" -> "SENT"
              [] row[i] \in {"PENDING", "SENT"} /\ log[i].outcome = "COMMITTED" -> "COMMITTED"
              [] row[i] \in {"PENDING", "SENT"} /\ log[i].outcome \in {"FAILED", "REJECTED"} -> "FAILED"
              [] OTHER -> row[i]
    BY DEF Record
  <2>2. /\ row[i] \in RowStatuses
        /\ row[i] = "COMMITTED" => log[i].outcome = "COMMITTED"
        /\ row[i] = "FAILED" => log[i].outcome \in {"FAILED", "REJECTED"}
    BY DEF Honest
  <2> HIDE DEF s
  <2>3. CASE row[i] = "ABSENT"
    BY <2>1, <2>3 DEF RowStatuses
  <2>4. CASE row[i] # "ABSENT"
    BY <2>1, <2>2, <2>4 DEF RowStatuses
  <2> QED BY <2>3, <2>4
<1>3. row' = [row EXCEPT ![i] = s]
  BY DEF Record
<1> HIDE DEF s
<1>4. row' \in Seq(RowStatuses) /\ Len(row') = Len(row) /\ \A j \in 1..Len(log) : row'[j] = IF j = i THEN s ELSE row[j]
  BY <1>2, <1>3
<1>5. Honest(row', log)
  <2>1. DOMAIN row' = 1..Len(log)
    BY <1>3
  <2> QED BY <1>2, <1>4, <2>1 DEF Honest
<1>6. Rows'
  BY <1>1, <1>4, <1>5 DEF AuditInv, Rows
<1>7. Inv'
  BY <1>1 DEF AuditInv, Inv, Coherent, Prefix, StagesAgree
<1> QED BY <1>1, <1>6, <1>7 DEF AuditInv

LEMMA AgeInv ==
    ASSUME AuditInv, Age
    PROVE  AuditInv'
<1>1. /\ held' = held /\ log' = log /\ row' = row /\ audit' = audit
      /\ old < Len(log) /\ old' = old + 1
  BY DEF Age
<1>2. Len(log) \in Nat /\ old \in 0..Len(log)
  BY RowsType
<1>3. Rows'
  BY <1>1, <1>2 DEF AuditInv, Rows
<1>4. Inv'
  BY <1>1 DEF AuditInv, Inv, Coherent, Prefix, StagesAgree
<1> QED BY <1>1, <1>3, <1>4 DEF AuditInv

-----------------------------------------------------------------------------
(* The readings. *)

\* A step of the auditor changes nothing but the audit.
LEMMA ContinuesInv ==
    ASSUME AuditInv, NEW step, NEW a \in AuditRecord, Continues(step, a), Informed(a, log)
    PROVE  AuditInv'
<1>1. held' = held /\ log' = log /\ row' = row /\ old' = old /\ audit' = a
  BY DEF Continues
<1>2. Rows'
  BY <1>1 DEF AuditInv, Rows
<1>3. Inv'
  BY <1>1 DEF AuditInv, Inv, Coherent, Prefix, StagesAgree
<1> QED BY <1>1, <1>2, <1>3 DEF AuditInv

LEMMA BeginProductInv ==
    ASSUME AuditInv, NEW p \in Products, ProductChain(p)
    PROVE  AuditInv'
<1> DEFINE a == [NoAudit EXCEPT !.of = "product", !.about = p, !.step = "db",
                                !.chain = ActionIDsForItem(p), !.before = log]
<1>1. log \in Seq(Action) /\ DOMAIN log = 1..Len(log) /\ Len(log) \in Nat /\ p \in Nat
  BY RowsType, LogAssumption
<1>2. ActionIDsForItem(p) \subseteq {i \in 1..Len(log) : p \in log[i].items}
  BY <1>1 DEF ActionIDsForItem
<1>3. /\ a \in AuditRecord
      /\ a.of = "product" /\ a.about = p /\ a.step = "db" /\ a.chain = ActionIDsForItem(p) /\ a.before = log
  <2>1. ActionIDsForItem(p) \in SUBSET Nat
    BY <1>1, <1>2
  <2> HIDE DEF ActionIDsForItem, Readings
  <2> QED BY <1>1, <2>1, NoAuditType DEF AuditRecord, Audits
<1>4. Continues("none", a)
  BY DEF ProductChain
<1> HIDE DEF a
<1>5. Begun(a, log)
  BY <1>1, <1>2, <1>3, GrownSame DEF Begun, Subject, Audits
<1>6. Informed(a, log)
  BY <1>3, <1>5 DEF Informed
<1> QED BY <1>3, <1>4, <1>6, ContinuesInv

LEMMA BeginActionInv ==
    ASSUME AuditInv, NEW i \in DOMAIN log, BeginAction(i)
    PROVE  AuditInv'
<1> DEFINE a == [NoAudit EXCEPT !.of = "action", !.about = i, !.step = "db", !.before = log]
<1>1. log \in Seq(Action) /\ i \in 1..Len(log) /\ Len(log) \in Nat /\ i \in Nat
  BY RowsType
<1>2. /\ a \in AuditRecord
      /\ a.of = "action" /\ a.about = i /\ a.step = "db" /\ a.before = log
  <2> HIDE DEF Readings
  <2> QED BY <1>1, NoAuditType DEF AuditRecord, Audits
<1>3. Continues("none", a)
  BY DEF BeginAction
<1> HIDE DEF a
<1>4. Begun(a, log)
  BY <1>1, <1>2, GrownSame DEF Begun, Audits
<1>5. Informed(a, log)
  BY <1>2, <1>4 DEF Informed
<1> QED BY <1>2, <1>3, <1>5, ContinuesInv

LEMMA BeginAllInv ==
    ASSUME AuditInv, BeginAll
    PROVE  AuditInv'
<1> DEFINE a == [NoAudit EXCEPT !.of = "all", !.step = "db", !.before = log]
<1>1. log \in Seq(Action)
  BY RowsType
<1>2. /\ a \in AuditRecord
      /\ a.of = "all" /\ a.step = "db" /\ a.before = log
  <2> HIDE DEF Readings
  <2> QED BY <1>1, NoAuditType DEF AuditRecord, Audits
<1>3. Continues("none", a)
  BY DEF BeginAll
<1> HIDE DEF a
<1>4. Begun(a, log)
  BY <1>1, <1>2, GrownSame DEF Begun, Audits
<1>5. Informed(a, log)
  BY <1>2, <1>4 DEF Informed
<1> QED BY <1>2, <1>3, <1>5, ContinuesInv

\* What is read of the database is the rows of the actions asked for, as they are.
LEMMA ReadActionsType ==
    ASSUME AuditInv, NEW ids \in SUBSET (1..Len(log))
    PROVE  /\ ReadActions(ids) \in Readings /\ DOMAIN ReadActions(ids) = ids
           /\ Honest(ReadActions(ids), log)
<1>1. /\ Len(log) \in Nat /\ DOMAIN row = 1..Len(log) /\ Honest(row, log)
      /\ \A i \in 1..Len(log) : row[i] \in RowStatuses
  BY RowsType
<1>2. ReadActions(ids) \in [ids -> RowStatuses] /\ \A i \in ids : ReadActions(ids)[i] = row[i]
  BY <1>1 DEF ReadActions
<1>3. ids \in SUBSET Nat
  BY <1>1
<1>4. ReadActions(ids) \in Readings
  BY <1>2, <1>3 DEF Readings
<1>5. DOMAIN ReadActions(ids) = ids
  BY <1>2
<1>6. Honest(ReadActions(ids), log)
  BY <1>1, <1>2, <1>5 DEF Honest
<1> QED BY <1>4, <1>5, <1>6

\* A running audit.
LEMMA AuditType ==
    ASSUME AuditInv
    PROVE  /\ audit \in AuditRecord /\ Informed(audit, log)
           /\ audit.before \in Seq(Action) /\ Len(audit.before) \in Nat
<1>1. audit \in AuditRecord /\ Informed(audit, log)
  BY DEF AuditInv
<1>2. audit.before \in Seq(Action)
  BY <1>1 DEF AuditRecord
<1> QED BY <1>1, <1>2

LEMMA ReadDBInv ==
    ASSUME AuditInv, ReadDB
    PROVE  AuditInv'
<1> DEFINE ids == IF audit.of = "product" THEN {i \in DOMAIN log : audit.about \in log[i].items}
                  ELSE IF audit.of = "action" THEN {audit.about} \intersect DOMAIN log
                  ELSE DOMAIN log
           d == ReadActions(ids)
           a == [audit EXCEPT !.step = "applied", !.db = d]
<1>1. audit.step = "db" /\ Begun(audit, log)
  BY AuditType DEF ReadDB, Continues, Informed
<1>2. log \in Seq(Action) /\ Len(log) \in Nat /\ DOMAIN log = 1..Len(log)
  BY RowsType
<1>3. ids \in SUBSET (1..Len(log))
  BY <1>2
<1>4. d \in Readings /\ DOMAIN d = ids /\ Honest(d, log)
  BY <1>3, ReadActionsType
<1>5. Continues("db", a)
  <2>1. audit.of \in Audits
    BY <1>1 DEF Begun
  <2> QED BY <2>1 DEF ReadDB, ActionsForProduct, StoredAction, AllActions, Audits
<1> HIDE DEF d
<1>6. /\ a \in AuditRecord
      /\ a.of = audit.of /\ a.about = audit.about /\ a.step = "applied" /\ a.chain = audit.chain
      /\ a.before = audit.before /\ a.db = d
  <2> HIDE DEF Readings
  <2> QED BY <1>4, AuditType DEF AuditRecord
<1> HIDE DEF a
<1>7. Subject(a) = Subject(audit)
  BY <1>6 DEF Subject
<1>8. Begun(a, log)
  BY <1>1, <1>6, <1>7 DEF Begun
<1>9. Subject(audit) \subseteq ids
  <2> SUFFICES ASSUME NEW i \in Subject(audit) PROVE i \in ids
    OBVIOUS
  <2>1. i \in 1..Len(audit.before) /\ audit.before \in Seq(Action) /\ Len(audit.before) \in Nat
    BY AuditType DEF Subject
  <2>2. i \in 1..Len(log) /\ log[i].items = audit.before[i].items
    BY <1>1, <1>2, <2>1 DEF Begun, Grown
  <2> QED BY <1>1, <1>2, <2>2 DEF Subject, Begun, Audits
<1>10. audit.of = "action" => ids = {audit.about}
  <2> HAVE audit.of = "action"
  <2>1. audit.about \in 1..Len(audit.before) /\ Len(audit.before) <= Len(log) /\ Len(audit.before) \in Nat
    BY <1>1, AuditType DEF Begun, Grown
  <2>2. audit.about \in DOMAIN log
    BY <1>2, <2>1
  <2> QED BY <2>2
<1> HIDE DEF ids
<1>11. DBRead(a, log)
  BY <1>3, <1>4, <1>6, <1>7, <1>9, <1>10 DEF DBRead
<1>12. Informed(a, log)
  BY <1>6, <1>8, <1>11 DEF Informed
<1> QED BY <1>5, <1>6, <1>12, ContinuesInv

\* The audit of a product or of an action is about what it read from the database.
LEMMA IDsRead ==
    ASSUME NEW a \in AuditRecord, NEW l, Begun(a, l), DBRead(a, l), a.of # "all"
    PROVE  IDs(a) = DOMAIN a.db
<1>1. CASE a.of = "product"
  BY <1>1 DEF Begun, DBRead, IDs, Union
<1>2. CASE a.of = "action"
  BY <1>2 DEF Begun, DBRead, IDs
<1> QED BY <1>1, <1>2 DEF Begun, Audits

LEMMA ReadAppliedInv ==
    ASSUME AuditInv, ReadApplied
    PROVE  AuditInv'
<1> DEFINE ids == IF audit.of = "all" THEN DOMAIN log ELSE IDs(audit)
           a == [audit EXCEPT !.step = "rejected", !.applied = Applied(ids)]
<1>1. audit.step = "applied" /\ Begun(audit, log) /\ DBRead(audit, log)
  BY AuditType DEF ReadApplied, Continues, Informed
<1>2. log \in Seq(Action) /\ Len(log) \in Nat /\ DOMAIN log = 1..Len(log)
  BY RowsType
<1>3. ids \subseteq 1..Len(log) /\ DOMAIN audit.db \subseteq ids
  BY <1>1, <1>2, AuditType, IDsRead DEF DBRead
<1>4. Continues("applied", a)
  BY DEF ReadApplied
<1> HIDE DEF ids
<1>5. /\ Applied(ids) \subseteq 1..Len(log) /\ Applied(ids) \in SUBSET Nat
      /\ \A i \in ids : i \in Applied(ids) <=> log[i].outcome = "COMMITTED"
      /\ \A i \in Applied(ids) : log[i].outcome = "COMMITTED"
  <2>1. \A i \in ids : i \in Applied(ids) <=> log[i].outcome = "COMMITTED"
    BY DEF Applied
  <2>2. Applied(ids) \subseteq ids /\ \A i \in Applied(ids) : log[i].outcome = "COMMITTED"
    BY DEF Applied
  <2>3. 1..Len(log) \subseteq Nat
    BY <1>2
  <2> QED BY <1>3, <2>1, <2>2, <2>3
<1>6. /\ a \in AuditRecord
      /\ a.of = audit.of /\ a.about = audit.about /\ a.step = "rejected" /\ a.chain = audit.chain
      /\ a.before = audit.before /\ a.db = audit.db /\ a.applied = Applied(ids)
  <2> HIDE DEF Readings, Applied
  <2> QED BY <1>5, AuditType DEF AuditRecord
<1> HIDE DEF a
<1>7. Begun(a, log) /\ DBRead(a, log)
  BY <1>1, <1>6 DEF Begun, DBRead, Subject
<1>8. AppliedRead(a, log)
  <2> SUFFICES ASSUME NEW i \in DOMAIN audit.db,
                      \/ audit.db[i] = "COMMITTED"
                      \/ i \in 1..Len(audit.before) /\ audit.before[i].outcome = "COMMITTED"
               PROVE  log[i].outcome = "COMMITTED"
    BY <1>3, <1>5, <1>6 DEF AppliedRead
  <2>1. CASE audit.db[i] = "COMMITTED"
    BY <1>1, <2>1 DEF DBRead, Honest
  <2>2. CASE i \in 1..Len(audit.before) /\ audit.before[i].outcome = "COMMITTED"
    BY <1>1, <2>2 DEF Begun, Grown
  <2> QED BY <2>1, <2>2
<1>9. Informed(a, log)
  BY <1>6, <1>7, <1>8 DEF Informed
<1> QED BY <1>4, <1>6, <1>9, ContinuesInv

LEMMA ReadRejectedInv ==
    ASSUME AuditInv, ReadRejected
    PROVE  AuditInv'
<1> DEFINE ids == IF audit.of = "all" THEN DOMAIN audit.db ELSE IDs(audit)
           a == [audit EXCEPT !.step = "report", !.rejected = Rejected(ids)]
<1>1. audit.step = "rejected" /\ Begun(audit, log) /\ DBRead(audit, log) /\ AppliedRead(audit, log)
  BY AuditType DEF ReadRejected, Continues, Informed
<1>2. log \in Seq(Action) /\ Len(log) \in Nat /\ DOMAIN log = 1..Len(log)
  BY RowsType
<1>3. ids = DOMAIN audit.db /\ ids \subseteq 1..Len(log)
  BY <1>1, <1>2, AuditType, IDsRead DEF DBRead
<1>4. Continues("rejected", a)
  BY DEF ReadRejected
<1> HIDE DEF ids
<1>5. /\ Rejected(ids) \in SUBSET Nat
      /\ \A i \in ids : i \in Rejected(ids) <=> log[i].outcome = "REJECTED"
  <2>1. \A i \in ids : i \in Rejected(ids) <=> log[i].outcome = "REJECTED"
    BY DEF Rejected
  <2>2. Rejected(ids) \subseteq ids /\ 1..Len(log) \subseteq Nat
    BY <1>2 DEF Rejected
  <2> QED BY <1>3, <2>1, <2>2
<1>6. /\ a \in AuditRecord
      /\ a.of = audit.of /\ a.about = audit.about /\ a.step = "report" /\ a.chain = audit.chain
      /\ a.before = audit.before /\ a.db = audit.db /\ a.applied = audit.applied /\ a.rejected = Rejected(ids)
  <2> HIDE DEF Readings, Rejected
  <2> QED BY <1>5, AuditType DEF AuditRecord
<1> HIDE DEF a
<1>7. Begun(a, log) /\ DBRead(a, log) /\ AppliedRead(a, log)
  BY <1>1, <1>6 DEF Begun, DBRead, AppliedRead, Subject
<1>8. RejectedRead(a, log)
  <2> SUFFICES ASSUME NEW i \in DOMAIN audit.db, i \in 1..Len(audit.before), audit.before[i].outcome = "REJECTED"
               PROVE  log[i].outcome = "REJECTED"
    BY <1>3, <1>5, <1>6 DEF RejectedRead
  <2> QED BY <1>1 DEF Begun, Grown
<1>9. Informed(a, log)
  BY <1>6, <1>7, <1>8 DEF Informed
<1> QED BY <1>4, <1>6, <1>9, ContinuesInv

LEMMA ReportInv ==
    ASSUME AuditInv, Report
    PROVE  AuditInv'
<1>1. Continues("report", NoAudit)
  BY DEF Report
<1>2. Informed(NoAudit, log)
  BY DEF NoAudit, Informed
<1> QED BY <1>1, <1>2, NoAuditType, ContinuesInv

\* Every step keeps what the auditor knows true.
LEMMA AuditInductive == AuditInv /\ [NextAudit]_auditVars => AuditInv'
<1> SUFFICES ASSUME AuditInv, [NextAudit]_auditVars PROVE AuditInv'
  OBVIOUS
<1>1. CASE UNCHANGED auditVars
  <2>1. held' = held /\ log' = log /\ row' = row /\ old' = old /\ audit' = audit
    BY <1>1 DEF auditVars
  <2>2. Rows' /\ Inv'
    BY <2>1 DEF AuditInv, Rows, Inv, Coherent, Prefix, StagesAgree
  <2> QED BY <2>1, <2>2 DEF AuditInv
<1>2. CASE Submit
  BY <1>2, SubmitInv
<1>3. CASE Decide
  BY <1>3, DecideInv
<1>4. CASE Age
  BY <1>4, AgeInv
<1>5. ASSUME NEW i \in DOMAIN log, Record(i) PROVE AuditInv'
  BY <1>5, RecordInv
<1>6. ASSUME NEW p \in Products, ProductChain(p) PROVE AuditInv'
  BY <1>6, BeginProductInv
<1>7. ASSUME NEW i \in DOMAIN log, BeginAction(i) PROVE AuditInv'
  BY <1>7, BeginActionInv
<1>8. CASE BeginAll
  BY <1>8, BeginAllInv
<1>9. CASE ReadDB
  BY <1>9, ReadDBInv
<1>10. CASE ReadApplied
  BY <1>10, ReadAppliedInv
<1>11. CASE ReadRejected
  BY <1>11, ReadRejectedInv
<1>12. CASE Report
  BY <1>12, ReportInv
<1> QED BY <1>1, <1>2, <1>3, <1>4, <1>5, <1>6, <1>7, <1>8, <1>9, <1>10, <1>11, <1>12 DEF NextAudit

LEMMA SpecAuditInv == SpecAudit => []AuditInv
  BY InitAuditInv, AuditInductive, PTL DEF SpecAudit

-----------------------------------------------------------------------------
(* What a report says. *)

\* A report knows everything that was read.
LEMMA ReportKnows ==
    ASSUME AuditInv, Reported
    PROVE  /\ Begun(audit, log) /\ DBRead(audit, log) /\ AppliedRead(audit, log) /\ RejectedRead(audit, log)
           /\ Len(log) \in Nat /\ Len(audit.before) \in Nat
           /\ \A i \in DOMAIN audit.db : audit.db[i] \in RowStatuses
           /\ DOMAIN audit.before = 1..Len(audit.before)
<1>1. Begun(audit, log) /\ DBRead(audit, log) /\ AppliedRead(audit, log) /\ RejectedRead(audit, log)
  BY AuditType DEF Reported, Informed
<1>2. audit.before \in Seq(Action) /\ Len(audit.before) \in Nat /\ Len(log) \in Nat
  BY AuditType, RowsType
<1>3. audit.db \in Readings
  BY AuditType DEF AuditRecord
<1>4. PICK S \in SUBSET Nat : audit.db \in [S -> RowStatuses]
  BY <1>3 DEF Readings
<1>5. \A i \in DOMAIN audit.db : audit.db[i] \in RowStatuses
  BY <1>4
<1> QED BY <1>1, <1>2, <1>5

\* The auditor raises no alarm over an action that is only under way, and reports nothing as
\* missing in the database that was there when it began, whatever the WMS submits, the adapter
\* records and the chain decides between its readings.
THEOREM NoAlarmIsFalse == SpecAudit => []NoFalseAlarm
<1>1. AuditInv => NoFalseAlarm
  <2> SUFFICES ASSUME AuditInv, Reported, NEW i \in IDs(audit)
               PROVE  /\ Stage(i) = "MISSING_ON_CHAIN" => log[i].outcome = "FAILED" \/ audit.db[i] = "ABSENT" \/ i <= old
                      /\ Stage(i) = "MISSING_IN_DB" => audit.of = "all" /\ i > Len(audit.before)
    BY DEF NoFalseAlarm
  <2>1. /\ Begun(audit, log) /\ DBRead(audit, log) /\ AppliedRead(audit, log) /\ RejectedRead(audit, log)
        /\ Len(log) \in Nat /\ Len(audit.before) \in Nat
        /\ \A j \in DOMAIN audit.db : audit.db[j] \in RowStatuses
    BY ReportKnows
  <2>2. i \in 1..Len(log) /\ (audit.of # "all" => i \in DOMAIN audit.db)
    <3>1. CASE audit.of = "all"
      BY <2>1, <3>1 DEF IDs, Union, DBRead, AppliedRead
    <3>2. CASE audit.of # "all"
      <4>1. IDs(audit) = DOMAIN audit.db
        BY <2>1, <3>2, IDsRead, AuditType
      <4> QED BY <2>1, <4>1 DEF DBRead
    <3> QED BY <3>1, <3>2
  <2>3. CASE i \notin DOMAIN audit.db
    <3>1. Stage(i) = "MISSING_IN_DB" /\ audit.of = "all"
      BY <2>2, <2>3 DEF Stage
    <3>2. i \notin 1..Len(audit.before)
      BY <2>1, <2>3, <3>1 DEF DBRead, Subject
    <3>3. i > Len(audit.before)
      BY <2>1, <2>2, <3>2
    <3> QED BY <3>1, <3>3
  <2>4. CASE i \in DOMAIN audit.db
    <3>1. Stage(i) # "MISSING_IN_DB"
      BY <2>4 DEF Stage
    <3> SUFFICES ASSUME Stage(i) = "MISSING_ON_CHAIN"
                 PROVE  log[i].outcome = "FAILED" \/ audit.db[i] = "ABSENT" \/ i <= old
      BY <3>1
    <3>2. i \notin audit.applied /\ i \notin audit.rejected /\ (audit.db[i] \in {"PENDING", "SENT"} => ~(i > old))
      BY <2>4 DEF Stage
    <3>3. audit.db[i] # "COMMITTED"
      BY <2>1, <2>4, <3>2 DEF AppliedRead
    <3>4. audit.db[i] = "FAILED" => log[i].outcome = "FAILED"
      BY <2>1, <2>4, <3>2 DEF DBRead, Honest, RejectedRead
    <3>5. old \in 0..Len(log)
      BY RowsType
    <3>6. ~(i > old) => i <= old
      BY <2>1, <2>2, <3>5
    <3> QED BY <2>1, <2>4, <3>2, <3>3, <3>4, <3>6 DEF RowStatuses
  <2> QED BY <2>3, <2>4
<1> QED BY <1>1, SpecAuditInv, PTL

\* The report on a product, or on everything, says of every action that the chain had decided
\* when the audit began what the chain decided.
THEOREM ReportIsComplete == SpecAudit => []ReportComplete
<1>1. AuditInv => ReportComplete
  <2> SUFFICES ASSUME AuditInv, Reported, NEW i \in DOMAIN audit.before,
                      audit.of = "all" \/ (audit.of = "product" /\ audit.about \in audit.before[i].items)
               PROVE  /\ i \in IDs(audit)
                      /\ audit.before[i].outcome = "COMMITTED" => Stage(i) = "APPLIED"
                      /\ audit.before[i].outcome = "REJECTED" => Stage(i) = "REJECTED"
    BY DEF ReportComplete
  <2>1. /\ Begun(audit, log) /\ DBRead(audit, log) /\ AppliedRead(audit, log) /\ RejectedRead(audit, log)
        /\ i \in 1..Len(audit.before)
    BY ReportKnows
  <2>2. i \in DOMAIN audit.db
    BY <2>1 DEF DBRead, Subject
  <2>3. i \in IDs(audit)
    BY <2>2 DEF IDs, Union
  <2>4. audit.before[i].outcome = "COMMITTED" => Stage(i) = "APPLIED"
    BY <2>1, <2>2 DEF AppliedRead, Stage
  <2>5. audit.before[i].outcome = "REJECTED" => Stage(i) = "REJECTED"
    <3> HAVE audit.before[i].outcome = "REJECTED"
    <3>1. log[i].outcome = "REJECTED"
      BY <2>1 DEF Begun, Grown
    <3>2. i \notin audit.applied
      BY <2>1, <3>1 DEF AppliedRead
    <3>3. i \in audit.rejected
      BY <2>1, <2>2 DEF RejectedRead
    <3> QED BY <2>2, <3>2, <3>3 DEF Stage
  <2> QED BY <2>3, <2>4, <2>5
<1> QED BY <1>1, SpecAuditInv, PTL
=============================================================================
