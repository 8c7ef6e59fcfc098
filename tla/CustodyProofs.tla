---------------------------- MODULE CustodyProofs ----------------------------
(***************************************************************************)
(* Theorems about Custody, for any products, any size of a part and any     *)
(* number of failures: the ledger and the WMS agree about the stages.       *)
(***************************************************************************)
EXTENDS Custody, LedgerLogProofs

USE DEF Receive, PutAway, Pick, Ship, ActionTypes

-----------------------------------------------------------------------------
(* What the log says about the stages, whatever became of its actions. *)

\* An action is for stages its items have passed; a stage of an item is signed once, after
\* the stage before it; and every stage an item has passed is signed.
Bounded(h, l) == \A i \in 1..Len(l) : \A p \in l[i].items : l[i].type <= h[p]
Unique(l) == \A i, j \in 1..Len(l) : l[i].type = l[j].type /\ l[i].items \intersect l[j].items # {} => i = j
Chained(l) ==
    \A i \in 1..Len(l) : l[i].type # Receive =>
        \A p \in l[i].items : \E j \in 1..(i - 1) : l[j].type = l[i].type - 1 /\ p \in l[j].items
Complete(h, l) ==
    \A p \in Products : \A t \in 1..h[p] : \E j \in 1..Len(l) : l[j].type = t /\ p \in l[j].items

Coherent(h, l) ==
    /\ h \in [Products -> 0..4] /\ l \in Seq(Action)
    /\ Bounded(h, l) /\ Unique(l) /\ Chained(l) /\ Complete(h, l)

LEMMA CoherentStart == Coherent([p \in Products |-> 0], << >>)
<1>1. << >> \in Seq(Action) /\ Len(<< >>) = 0
  OBVIOUS
<1> QED BY <1>1 DEF Coherent, Bounded, Unique, Chained, Complete

\* A batch that passes a stage keeps the log coherent.
LEMMA CoherentAdvance ==
    ASSUME NEW h, NEW l, Coherent(h, l), NEW type \in ActionTypes, NEW items \in SUBSET Products,
           \A p \in items : h[p] = type - 1
    PROVE  Coherent([p \in Products |-> IF p \in items THEN type ELSE h[p]], l \o Signed(type, items))
<1> DEFINE h2 == [p \in Products |-> IF p \in items THEN type ELSE h[p]]
           s == Signed(type, items)
           l2 == l \o s
           N == Len(l)
           K == Parts(items)
<1>1. h \in [Products -> 0..4] /\ l \in Seq(Action) /\ N \in Nat /\ K \in Nat
  BY PartsType DEF Coherent
<1>2. /\ s \in Seq(Action) /\ Len(s) = K
      /\ \A k \in 1..K : s[k] = [type |-> type, items |-> Part(items, k), outcome |-> "PENDING"]
  BY SignedType
<1>3. /\ l2 \in Seq(Action) /\ Len(l2) = N + K
      /\ \A i \in 1..N : l2[i] = l[i]
      /\ \A i \in (N + 1)..(N + K) : l2[i] = s[i - N]
  BY <1>1, <1>2, Concatenation
<1>4. \A i \in (N + 1)..(N + K) : /\ i - N \in 1..K
                                  /\ l2[i].type = type /\ l2[i].items = Part(items, i - N)
  BY <1>1, <1>2, <1>3
<1>5. \A i \in 1..(N + K) : i \in 1..N \/ i \in (N + 1)..(N + K)
  BY <1>1
<1>6. h2 \in [Products -> 0..4] /\ \A p \in Products : h[p] <= h2[p] /\ (p \in items => h2[p] = type)
  BY <1>1
<1>7. \A k \in 1..K : Part(items, k) \subseteq items
  BY DEF Part
<1>8. \A i \in 1..N : l[i].type \in 1..4 /\ l[i].items \subseteq Products
  <2>1. \A i \in 1..N : l[i] \in Action
    BY <1>1
  <2> QED BY <2>1 DEF Action
<1>old. Bounded(h, l) /\ Unique(l) /\ Chained(l) /\ Complete(h, l)
  BY DEF Coherent
<1> HIDE DEF h2, s, l2, N, K
<1>9. Bounded(h2, l2)
  <2> SUFFICES ASSUME NEW i \in 1..(N + K), NEW p \in l2[i].items PROVE l2[i].type <= h2[p]
    BY <1>3 DEF Bounded
  <2>1. CASE i \in 1..N
    <3>1. l2[i].type = l[i].type /\ l[i].type \in 1..4 /\ p \in Products /\ p \in l[i].items
      BY <1>3, <1>8, <2>1
    <3>2. l[i].type <= h[p]
      BY <1>old, <2>1, <3>1 DEF Bounded, N
    <3>3. h[p] \in Int /\ h2[p] \in Int /\ h[p] <= h2[p]
      BY <1>1, <1>6, <3>1
    <3> QED BY <3>1, <3>2, <3>3
  <2>2. CASE i \in (N + 1)..(N + K)
    BY <1>4, <1>6, <1>7, <2>2
  <2> QED BY <1>5, <2>1, <2>2
<1>10. \A i \in 1..N, j \in (N + 1)..(N + K) : ~(l2[i].type = l2[j].type /\ l2[i].items \intersect l2[j].items # {})
  <2> SUFFICES ASSUME NEW i \in 1..N, NEW j \in (N + 1)..(N + K), NEW p \in l2[i].items \intersect l2[j].items,
                      l2[i].type = l2[j].type
               PROVE  FALSE
    OBVIOUS
  <2>1. p \in items /\ l[i].type = type /\ p \in l[i].items
    BY <1>3, <1>4, <1>7
  <2>2. type <= h[p]
    BY <1>old, <2>1 DEF Bounded, N
  <2> QED BY <2>1, <2>2
<1>11. Unique(l2)
  <2> SUFFICES ASSUME NEW i \in 1..(N + K), NEW j \in 1..(N + K),
                      l2[i].type = l2[j].type, l2[i].items \intersect l2[j].items # {}
               PROVE  i = j
    BY <1>3 DEF Unique
  <2>1. CASE i \in 1..N /\ j \in 1..N
    BY <1>old, <1>3, <2>1 DEF Unique, N
  <2>2. CASE i \in (N + 1)..(N + K) /\ j \in (N + 1)..(N + K)
    <3>1. i - N \in 1..K /\ j - N \in 1..K
      BY <1>4, <2>2
    <3>2. PICK p : p \in Part(items, i - N) \intersect Part(items, j - N)
      BY <1>4, <2>2
    <3>3. i - N = j - N
      BY <3>1, <3>2, PartsDisjoint
    <3> QED BY <1>1, <3>3
  <2> QED BY <1>5, <1>10, <2>1, <2>2
<1>12. Chained(l2)
  <2> SUFFICES ASSUME NEW i \in 1..(N + K), l2[i].type # Receive, NEW p \in l2[i].items
               PROVE  \E j \in 1..(i - 1) : l2[j].type = l2[i].type - 1 /\ p \in l2[j].items
    BY <1>3 DEF Chained
  <2>1. CASE i \in 1..N
    <3>1. PICK j \in 1..(i - 1) : l[j].type = l[i].type - 1 /\ p \in l[j].items
      BY <1>old, <1>3, <2>1 DEF Chained, N
    <3>2. j \in 1..N
      BY <1>1, <2>1
    <3> QED BY <1>3, <2>1, <3>1, <3>2
  <2>2. CASE i \in (N + 1)..(N + K)
    <3>1. p \in items /\ l2[i].type = type
      BY <1>4, <1>7, <2>2
    <3>2. h[p] = type - 1 /\ type - 1 \in 1..h[p] /\ p \in Products
      BY <3>1
    <3>3. PICK j \in 1..N : l[j].type = type - 1 /\ p \in l[j].items
      BY <1>old, <3>2 DEF Complete, N
    <3>4. j \in 1..(i - 1)
      BY <1>1, <2>2
    <3> QED BY <1>3, <3>1, <3>3, <3>4
  <2> QED BY <1>5, <2>1, <2>2
<1>13. Complete(h2, l2)
  <2> SUFFICES ASSUME NEW p \in Products, NEW t \in 1..h2[p]
               PROVE  \E j \in 1..(N + K) : l2[j].type = t /\ p \in l2[j].items
    BY <1>3 DEF Complete
  <2>1. CASE t \in 1..h[p]
    <3>1. PICK j \in 1..N : l[j].type = t /\ p \in l[j].items
      BY <1>old, <2>1 DEF Complete, N
    <3>2. j \in 1..(N + K)
      BY <1>1
    <3> QED BY <1>3, <3>1, <3>2
  <2>2. CASE t \notin 1..h[p]
    <3>1. p \in items /\ t = type
      BY <1>1, <2>2 DEF h2
    <3>2. PICK k \in 1..K : p \in Part(items, k)
      BY <3>1, PartsCover DEF K
    <3>3. N + k \in (N + 1)..(N + K) /\ N + k - N = k
      BY <1>1
    <3>4. N + k \in 1..(N + K)
      BY <1>1
    <3>5. l2[N + k].type = t /\ l2[N + k].items = Part(items, k)
      <4> DEFINE j == N + k
      <4>1. j \in (N + 1)..(N + K) /\ j - N = k
        BY <1>1, <3>3
      <4> HIDE DEF j
      <4>2. l2[j].type = type /\ l2[j].items = Part(items, j - N)
        BY <1>4, <4>1
      <4>3. l2[j].type = t /\ l2[j].items = Part(items, k)
        BY <3>1, <4>1, <4>2
      <4> QED BY <4>3 DEF j
    <3> QED BY <3>2, <3>4, <3>5
  <2> QED BY <2>1, <2>2
<1> QED BY <1>3, <1>6, <1>9, <1>11, <1>12, <1>13 DEF Coherent, h2, l2, s

\* Coherence does not depend on what became of the actions.
LEMMA CoherentOutcomes ==
    ASSUME NEW h, NEW l, Coherent(h, l), NEW l2 \in Seq(Action), Len(l2) = Len(l),
           \A i \in 1..Len(l) : l2[i].type = l[i].type /\ l2[i].items = l[i].items
    PROVE  Coherent(h, l2)
<1>1. Len(l) \in Nat
  BY DEF Coherent
<1>2. Bounded(h, l2) /\ Unique(l2) /\ Complete(h, l2)
  <2>1. Bounded(h, l2)
    BY DEF Coherent, Bounded
  <2>2. Unique(l2)
    BY DEF Coherent, Unique
  <2>3. Complete(h, l2)
    BY DEF Coherent, Complete
  <2> QED BY <2>1, <2>2, <2>3
<1>3. Chained(l2)
  <2> SUFFICES ASSUME NEW i \in 1..Len(l), l[i].type # Receive, NEW p \in l[i].items
               PROVE  \E j \in 1..(i - 1) : l2[j].type = l2[i].type - 1 /\ p \in l2[j].items
    BY DEF Chained
  <2>1. PICK j \in 1..(i - 1) : l[j].type = l[i].type - 1 /\ p \in l[j].items
    BY DEF Coherent, Chained
  <2>2. j \in 1..Len(l)
    BY <1>1
  <2> QED BY <2>1, <2>2
<1> QED BY <1>2, <1>3 DEF Coherent

-----------------------------------------------------------------------------
(* The inductive invariant. *)

\* The actions that are settled are the first ones.
Prefix == \A i, j \in 1..Len(log) : i < j /\ log[j].outcome # "PENDING" => log[i].outcome # "PENDING"

Inv == Coherent(held, log) /\ Prefix /\ StagesAgree

LEMMA InitInv == Init => Inv
<1> SUFFICES ASSUME Init PROVE Inv
  OBVIOUS
<1>1. CASE From = 0
  <2>1. held = [p \in Products |-> 0] /\ log = << >>
    BY <1>1 DEF Init, History
  <2>2. Coherent(held, log)
    BY <2>1, CoherentStart
  <2> QED BY <2>1, <2>2 DEF Inv, Prefix, StagesAgree
<1>2. CASE From = PutAway
  <2> DEFINE n == Parts(Products)
             s1 == Signed(Receive, Products)
             r == [k \in 1..n |-> [s1[k] EXCEPT !.outcome = "COMMITTED"]]
             s2 == Signed(PutAway, Products)
             h0 == [p \in Products |-> 0]
             h1 == [p \in Products |-> IF p \in Products THEN Receive ELSE h0[p]]
  <2>1. held = [p \in Products |-> PutAway] /\ log = r \o s2
    BY <1>2 DEF Init, History
  <2>2. /\ n \in Nat
        /\ s1 \in Seq(Action) /\ Len(s1) = n
        /\ \A k \in 1..n : s1[k] = [type |-> Receive, items |-> Part(Products, k), outcome |-> "PENDING"]
        /\ s2 \in Seq(Action) /\ Len(s2) = n
        /\ \A k \in 1..n : s2[k] = [type |-> PutAway, items |-> Part(Products, k), outcome |-> "PENDING"]
    BY PartsType, SignedType
  <2>3. /\ r \in Seq(Action) /\ Len(r) = n
        /\ \A k \in 1..n : r[k].type = s1[k].type /\ r[k].items = s1[k].items /\ r[k].outcome = "COMMITTED"
    <3>1. \A k \in 1..n : [s1[k] EXCEPT !.outcome = "COMMITTED"]
                              = [type |-> Receive, items |-> Part(Products, k), outcome |-> "COMMITTED"]
      <4> HIDE DEF n, s1
      <4> TAKE k \in 1..n
      <4>1. s1[k] = [type |-> Receive, items |-> Part(Products, k), outcome |-> "PENDING"]
        BY <2>2
      <4> QED BY <4>1
    <3>2. \A k \in 1..n : [type |-> Receive, items |-> Part(Products, k), outcome |-> "COMMITTED"] \in Action
      BY DEF Part, Action, Outcomes
    <3>3. r = [k \in 1..n |-> [type |-> Receive, items |-> Part(Products, k), outcome |-> "COMMITTED"]]
      BY <3>1
    <3> HIDE DEF r
    <3>4. r \in Seq(Action) /\ Len(r) = n
      BY <2>2, <3>2, <3>3
    <3>5. \A k \in 1..n : r[k] = [type |-> Receive, items |-> Part(Products, k), outcome |-> "COMMITTED"]
      BY <3>3
    <3> HIDE DEF n, s1
    <3> QED BY <2>2, <3>4, <3>5
  <2>4. Coherent(h1, << >> \o s1)
    <3>1. \A p \in Products : h0[p] = Receive - 1
      OBVIOUS
    <3>2. Coherent(h0, << >>)
      BY CoherentStart
    <3>3. Products \in SUBSET Products /\ Receive \in ActionTypes
      OBVIOUS
    <3> HIDE DEF h0
    <3> QED BY <3>1, <3>2, <3>3, CoherentAdvance
  <2>5. << >> \o s1 = s1
    BY <2>2
  <2>6. Coherent(h1, r)
    BY <2>2, <2>3, <2>4, <2>5, CoherentOutcomes
  <2>7. Coherent([p \in Products |-> IF p \in Products THEN PutAway ELSE h1[p]], r \o s2)
    <3>1. \A p \in Products : h1[p] = PutAway - 1
      OBVIOUS
    <3>2. Products \in SUBSET Products /\ PutAway \in ActionTypes
      OBVIOUS
    <3> HIDE DEF h1, r
    <3> QED BY <2>6, <3>1, <3>2, CoherentAdvance
  <2>8. held = [p \in Products |-> IF p \in Products THEN PutAway ELSE h1[p]]
    BY <2>1
  <2>9. Coherent(held, log)
    BY <2>1, <2>7, <2>8
  <2> HIDE DEF n, r, s1, s2
  <2>10. /\ log \in Seq(Action) /\ Len(log) = n + n
         /\ \A i \in 1..n : log[i] = r[i]
         /\ \A i \in (n + 1)..(n + n) : log[i] = s2[i - n]
    <3>1. r \in Seq(Action) /\ s2 \in Seq(Action) /\ Len(r) = n /\ Len(s2) = n
      BY <2>2, <2>3
    <3>2. /\ r \o s2 \in Seq(Action) /\ Len(r \o s2) = n + n
          /\ \A i \in 1..n : (r \o s2)[i] = r[i]
          /\ \A i \in (n + 1)..(n + n) : (r \o s2)[i] = s2[i - n]
      <4>1. /\ r \o s2 \in Seq(Action) /\ Len(r \o s2) = Len(r) + Len(s2)
            /\ \A i \in 1..Len(r) : (r \o s2)[i] = r[i]
            /\ \A i \in (Len(r) + 1)..(Len(r) + Len(s2)) : (r \o s2)[i] = s2[i - Len(r)]
        BY <3>1, Concatenation
      <4> QED BY <3>1, <4>1
    <3> QED BY <2>1, <3>2
  <2>11. /\ \A i \in 1..n : log[i].outcome = "COMMITTED"
         /\ \A i \in (n + 1)..(n + n) : log[i].outcome = "PENDING"
    <3>1. \A i \in 1..n : log[i].outcome = "COMMITTED"
      BY <2>3, <2>10
    <3>2. \A i \in (n + 1)..(n + n) : i - n \in 1..n
      BY <2>2
    <3>3. \A i \in (n + 1)..(n + n) : log[i].outcome = "PENDING"
      BY <2>2, <2>10, <3>2
    <3> QED BY <3>1, <3>3
  <2>12. \A i \in 1..Len(log) : i \in 1..n \/ i \in (n + 1)..(n + n)
    BY <2>2, <2>10
  <2>13. Prefix
    <3> SUFFICES ASSUME NEW i \in 1..Len(log), NEW j \in 1..Len(log), i < j, log[j].outcome # "PENDING"
                 PROVE  log[i].outcome # "PENDING"
      BY DEF Prefix
    <3>1. j \in 1..n
      BY <2>11, <2>12
    <3>2. i \in 1..n
      BY <2>2, <3>1
    <3> QED BY <2>11, <3>2
  <2>14. StagesAgree
    <3>1. \A i \in DOMAIN log : log[i].outcome # "REJECTED"
      BY <2>10, <2>11, <2>12
    <3> QED BY <3>1 DEF StagesAgree
  <2> QED BY <2>9, <2>13, <2>14 DEF Inv
<1> QED BY <1>1, <1>2, FromAssumption

LEMMA AdvanceInv ==
    ASSUME Inv, NEW type \in ActionTypes, NEW items \in SUBSET Products, Advance(type, items)
    PROVE  Inv'
<1> DEFINE s == Signed(type, items)
           N == Len(log)
           K == Len(s)
<1>1. Coherent(held, log)'
  <2>1. Coherent([p \in Products |-> IF p \in items THEN type ELSE held[p]], log \o Signed(type, items))
    BY CoherentAdvance DEF Advance, Inv
  <2> QED BY <2>1 DEF Advance
<1>2. log \in Seq(Action) /\ N \in Nat
  BY DEF Inv, Coherent
<1>3. s \in Seq(Action) /\ K \in Nat /\ \A k \in 1..K : s[k].outcome = "PENDING"
  <2>1. /\ s \in Seq(Action) /\ K = Parts(items)
        /\ \A k \in 1..Parts(items) : s[k] = [type |-> type, items |-> Part(items, k), outcome |-> "PENDING"]
    BY SignedType
  <2>2. K \in Nat
    BY <2>1, PartsType
  <2>3. ASSUME NEW k \in 1..K PROVE s[k].outcome = "PENDING"
    <3>1. s[k] = [type |-> type, items |-> Part(items, k), outcome |-> "PENDING"]
      BY <2>1
    <3> HIDE DEF s
    <3> QED BY <3>1
  <2> QED BY <2>1, <2>2, <2>3
<1>4. log' = log \o s
  BY DEF Advance
<1> HIDE DEF s
<1>5. /\ log' \in Seq(Action) /\ Len(log') = N + K
      /\ \A i \in 1..N : log'[i] = log[i]
      /\ \A i \in (N + 1)..(N + K) : log'[i] = s[i - N]
  BY <1>2, <1>3, <1>4, Concatenation
<1>6. \A i \in (N + 1)..(N + K) : log'[i].outcome = "PENDING"
  BY <1>2, <1>3, <1>5
<1>7. \A i \in 1..(N + K) : log'[i].outcome # "PENDING" => i \in 1..N
  <2>1. \A i \in 1..(N + K) : i \in 1..N \/ i \in (N + 1)..(N + K)
    BY <1>2, <1>3
  <2> QED BY <1>6, <2>1
<1>8. Prefix'
  <2> SUFFICES ASSUME NEW i \in 1..(N + K), NEW j \in 1..(N + K), i < j, log'[j].outcome # "PENDING"
               PROVE  log'[i].outcome # "PENDING"
    BY <1>5 DEF Prefix
  <2>1. j \in 1..N
    BY <1>7
  <2>2. i \in 1..N
    BY <1>2, <2>1
  <2> QED BY <1>5, <2>1, <2>2 DEF Inv, Prefix
<1>9. StagesAgree'
  <2> SUFFICES ASSUME NEW i \in 1..(N + K), log'[i].outcome = "REJECTED"
               PROVE  \E j \in 1..(i - 1) :
                          /\ log'[j].type = log'[i].type - 1 /\ log'[j].items \intersect log'[i].items # {}
                          /\ log'[j].outcome \in {"FAILED", "REJECTED"}
    <3>1. DOMAIN log' = 1..(N + K)
      BY <1>2, <1>3, <1>5
    <3> QED BY <3>1 DEF StagesAgree
  <2>1. i \in 1..N /\ i \in DOMAIN log
    BY <1>2, <1>7
  <2>2. log'[i] = log[i]
    BY <1>5, <2>1
  <2>3. PICK j \in 1..(i - 1) :
            /\ log[j].type = log[i].type - 1 /\ log[j].items \intersect log[i].items # {}
            /\ log[j].outcome \in {"FAILED", "REJECTED"}
    BY <2>1, <2>2 DEF Inv, StagesAgree
  <2>4. j \in 1..N
    BY <1>2, <2>1
  <2> QED BY <1>5, <2>2, <2>3, <2>4
<1> QED BY <1>1, <1>8, <1>9 DEF Inv

LEMMA SettleInv ==
    ASSUME Inv, Settle
    PROVE  Inv'
<1>1. log \in Seq(Action) /\ Len(log) \in Nat /\ DOMAIN log = 1..Len(log)
  BY DEF Inv, Coherent
<1>2. PICK i \in DOMAIN log :
          /\ NextToSettle(log, i)
          /\ \E o \in {Verdict(log, i)} \union (IF Failures(log) < MaxFailures THEN {"FAILED"} ELSE {}) :
                log' = [log EXCEPT ![i].outcome = o]
  BY DEF Settle, Settled
<1>3. PICK o \in {Verdict(log, i), "FAILED"} : log' = [log EXCEPT ![i].outcome = o]
  BY <1>2
<1>4. o \in Outcomes \ {"PENDING"} /\ (o = "REJECTED" => Verdict(log, i) = "REJECTED")
  BY <1>3 DEF Verdict, Outcomes
<1>5. /\ log[i].outcome = "PENDING"
      /\ \A j \in 1..(i - 1) : log[j].outcome # "PENDING"
  BY <1>2 DEF NextToSettle
<1>6. log[i] \in Action
  BY <1>1
<1>7. log'[i] = [type |-> log[i].type, items |-> log[i].items, outcome |-> o]
  BY <1>1, <1>3, <1>6 DEF Action
<1>8. log' \in Seq(Action) /\ Len(log') = Len(log) /\ \A j \in 1..Len(log) : j # i => log'[j] = log[j]
  <2>1. [log[i] EXCEPT !.outcome = o] \in Action
    BY <1>4, <1>6 DEF Action
  <2> QED BY <1>1, <1>3, <2>1
<1>9. \A j \in 1..Len(log) : log'[j].type = log[j].type /\ log'[j].items = log[j].items
  BY <1>7, <1>8
<1>10. Coherent(held, log)'
  <2>1. Coherent(held, log')
    BY <1>8, <1>9, CoherentOutcomes DEF Inv
  <2> QED BY <2>1 DEF Settle
<1>11. Prefix'
  <2> SUFFICES ASSUME NEW a \in 1..Len(log), NEW b \in 1..Len(log), a < b, log'[b].outcome # "PENDING"
               PROVE  log'[a].outcome # "PENDING"
    BY <1>8 DEF Prefix
  <2>1. CASE a = i
    BY <1>4, <1>7, <2>1
  <2>2. CASE a # i /\ b = i
    <3>1. a \in 1..(i - 1)
      BY <1>1, <2>2
    <3> QED BY <1>5, <1>8, <2>2, <3>1
  <2>3. CASE a # i /\ b # i
    BY <1>8, <2>3 DEF Inv, Prefix
  <2> QED BY <2>1, <2>2, <2>3
<1>12. o = "REJECTED" => \E j \in 1..(i - 1) :
          /\ log[j].type = log[i].type - 1 /\ log[j].items \intersect log[i].items # {}
          /\ log[j].outcome \in {"FAILED", "REJECTED"}
  <2> HAVE o = "REJECTED"
  <2>1. PICK p \in log[i].items : ~AtStageBefore(log, log[i].type, p)
    BY <1>4 DEF Verdict
  <2>2. ~OnLedger(log, log[i].type, p)
    <3> SUFFICES ASSUME NEW j \in DOMAIN log, log[j].type = log[i].type, p \in log[j].items, log[j].outcome = "COMMITTED"
                 PROVE  FALSE
      BY DEF OnLedger
    <3>1. i = j
      BY <1>1 DEF Inv, Coherent, Unique
    <3> QED BY <1>5, <3>1
  <2>3. log[i].type # Receive /\ ~OnLedger(log, log[i].type - 1, p)
    BY <2>1, <2>2 DEF AtStageBefore
  <2>4. PICK j \in 1..(i - 1) : log[j].type = log[i].type - 1 /\ p \in log[j].items
    BY <1>1, <2>3 DEF Inv, Coherent, Chained
  <2>5. j \in DOMAIN log
    BY <1>1
  <2>6. log[j].outcome # "COMMITTED"
    BY <2>3, <2>4, <2>5 DEF OnLedger
  <2>7. log[j].outcome \in Outcomes
    <3>1. log[j] \in Action
      BY <1>1, <2>5
    <3> QED BY <3>1 DEF Action
  <2> QED BY <1>5, <2>4, <2>6, <2>7 DEF Outcomes
<1>13. StagesAgree'
  <2> SUFFICES ASSUME NEW k \in 1..Len(log), log'[k].outcome = "REJECTED"
               PROVE  \E j \in 1..(k - 1) :
                          /\ log'[j].type = log'[k].type - 1 /\ log'[j].items \intersect log'[k].items # {}
                          /\ log'[j].outcome \in {"FAILED", "REJECTED"}
    <3>1. DOMAIN log' = 1..Len(log)
      BY <1>1, <1>8
    <3> QED BY <3>1 DEF StagesAgree
  <2>1. PICK j \in 1..(k - 1) :
            /\ log[j].type = log[k].type - 1 /\ log[j].items \intersect log[k].items # {}
            /\ log[j].outcome \in {"FAILED", "REJECTED"}
    <3>1. CASE k = i
      BY <1>7, <1>12, <3>1
    <3>2. CASE k # i
      BY <1>1, <1>8, <3>2 DEF Inv, StagesAgree
    <3> QED BY <3>1, <3>2
  <2>2. j \in 1..Len(log) /\ j # i
    BY <1>1, <1>5, <2>1
  <2> QED BY <1>8, <1>9, <2>1, <2>2
<1> QED BY <1>10, <1>11, <1>13 DEF Inv

\* The contract rejects an action of the WMS only when the stage before it of one of its
\* items failed, for any history of batches, splits and failures.
THEOREM LedgerAgrees == Spec => []StagesAgree
<1>1. Inv /\ [Next]_vars => Inv'
  <2> SUFFICES ASSUME Inv, [Next]_vars PROVE Inv'
    OBVIOUS
  <2>1. CASE UNCHANGED vars
    BY <2>1 DEF vars, Inv, Coherent, Prefix, StagesAgree
  <2>2. CASE Settle
    BY <2>2, SettleInv
  <2>3. CASE \E type \in ActionTypes, items \in SUBSET Products : Advance(type, items)
    BY <2>3, AdvanceInv
  <2> QED BY <2>1, <2>2, <2>3 DEF Next
<1>2. Inv => StagesAgree
  BY DEF Inv
<1> QED BY <1>1, <1>2, InitInv, PTL DEF Spec
=============================================================================
