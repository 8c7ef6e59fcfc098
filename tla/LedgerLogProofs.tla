--------------------------- MODULE LedgerLogProofs ---------------------------
(***************************************************************************)
(* Lemmas about LedgerLog, for the proofs of the modules that share it: the *)
(* parts of an operation are disjoint and cover its items, what a submission*)
(* appends, and what settling an action changes.                            *)
(***************************************************************************)
EXTENDS LedgerLog, TLAPS, FiniteSetTheorems

USE DEF Receive, PutAway, Pick, Ship, ActionTypes

-----------------------------------------------------------------------------
(* The parts of an operation. *)

\* Multiplication by a positive number keeps the order.
LEMMA MulMonotone ==
    ASSUME NEW m \in Nat \ {0}, NEW x \in Int, NEW y \in Int
    PROVE  x * m < y * m => x < y
  BY SMTT(30)

\* Integer division.
LEMMA DivBounds ==
    ASSUME NEW m \in Nat \ {0}, NEW x \in Nat
    PROVE  /\ x \div m \in Nat
           /\ (x \div m) * m <= x
           /\ x < (x \div m + 1) * m
  BY SMTT(30)

\* The place of an item is between 1 and the number of items.
LEMMA RankBounds ==
    ASSUME NEW items \in SUBSET Products, NEW p \in items
    PROVE  /\ Cardinality(items) \in Nat
           /\ Rank(items, p) \in 1..Cardinality(items)
<1> DEFINE S == {q \in items : q <= p}
<1>1. IsFiniteSet(items)
  BY LogAssumption, FS_Subset
<1>2. S \subseteq items /\ p \in S
  BY LogAssumption
<1>3. IsFiniteSet(S) /\ Cardinality(S) <= Cardinality(items)
  BY <1>1, <1>2, FS_Subset
<1>4. Cardinality(S) \in Nat /\ Cardinality(items) \in Nat
  BY <1>1, <1>3, FS_CardinalityType
<1>5. Cardinality(S) # 0
  BY <1>2, <1>3, FS_EmptySet
<1> QED BY <1>3, <1>4, <1>5 DEF Rank

LEMMA PartsType ==
    ASSUME NEW items \in SUBSET Products
    PROVE  Parts(items) \in Nat
<1>1. Cardinality(items) \in Nat
  BY LogAssumption, FS_Subset, FS_CardinalityType
<1>2. Cardinality(items) + MaxItems - 1 \in Nat /\ MaxItems \in Nat \ {0}
  BY <1>1, LogAssumption
<1> QED BY <1>2, DivBounds DEF Parts

\* An item is in no two parts.
LEMMA PartsDisjoint ==
    ASSUME NEW items \in SUBSET Products, NEW k \in Nat, NEW l \in Nat, NEW p \in Part(items, k) \intersect Part(items, l)
    PROVE  k = l
<1> DEFINE R == Rank(items, p)
<1>1. R \in Int /\ MaxItems \in Nat \ {0}
  <2>1. p \in items
    BY DEF Part
  <2>2. Cardinality(items) \in Nat /\ R \in 1..Cardinality(items)
    BY <2>1, RankBounds
  <2> QED BY <2>2, LogAssumption
<1>2. /\ (k - 1) * MaxItems < R /\ R <= k * MaxItems
      /\ (l - 1) * MaxItems < R /\ R <= l * MaxItems
  BY DEF Part
<1> HIDE DEF R
<1>3. /\ k * MaxItems \in Int /\ l * MaxItems \in Int
      /\ (k - 1) * MaxItems \in Int /\ (l - 1) * MaxItems \in Int
  BY <1>1
<1>4. (k - 1) * MaxItems < l * MaxItems /\ (l - 1) * MaxItems < k * MaxItems
  BY <1>1, <1>2, <1>3
<1>5. k - 1 < l /\ l - 1 < k
  BY <1>1, <1>4, MulMonotone
<1> QED BY <1>5

\* The action that holds an item is the one whose part the item is in.
LEMMA PartOf ==
    ASSUME NEW items \in SUBSET Products, NEW p \in items
    PROVE  /\ (Rank(items, p) - 1) \div MaxItems \in Nat
           /\ (Rank(items, p) - 1) \div MaxItems + 1 \in 1..Parts(items)
           /\ p \in Part(items, (Rank(items, p) - 1) \div MaxItems + 1)
<1> DEFINE R == Rank(items, p)
           n == Cardinality(items)
           m == MaxItems
           q == (R - 1) \div m
           d == (n + m - 1) \div m
<1>1. n \in Nat /\ R \in 1..n /\ m \in Nat \ {0}
  BY LogAssumption, RankBounds
<1>2. R - 1 \in Nat /\ n + m - 1 \in Nat
  BY <1>1
<1>3. q \in Nat /\ q * m <= R - 1 /\ R - 1 < (q + 1) * m
  BY <1>1, <1>2, DivBounds
<1>4. d \in Nat /\ n + m - 1 < (d + 1) * m
  BY <1>1, <1>2, DivBounds
<1>5. /\ (q + 1) * m = q * m + m
      /\ q * m \in Int /\ (q + 1) * m \in Int /\ (d + 1) * m \in Int
  BY <1>1, <1>3, <1>4
<1> HIDE DEF R, n, m, q, d
<1>6. (q + 1) * m < (d + 1) * m
  BY <1>1, <1>3, <1>4, <1>5
<1>7. q + 1 < d + 1
  <2>1. q + 1 \in Int /\ d + 1 \in Int
    BY <1>3, <1>4
  <2> QED BY <1>1, <1>6, <2>1, MulMonotone
<1>8. q + 1 \in 1..Parts(items)
  BY <1>3, <1>4, <1>7 DEF Parts, n, m, d
<1>9. q + 1 - 1 = q
  BY <1>3
<1>10. p \in Part(items, q + 1)
  <2> DEFINE k == q + 1
  <2>1. (k - 1) * MaxItems < Rank(items, p) /\ Rank(items, p) <= k * MaxItems
    BY <1>1, <1>3, <1>5, <1>9 DEF R, m
  <2> HIDE DEF k
  <2>2. p \in Part(items, k)
    BY <2>1 DEF Part
  <2> QED BY <2>2 DEF k
<1> QED BY <1>3, <1>8, <1>10 DEF q, R, m

\* Every item is in a part.
LEMMA PartsCover ==
    ASSUME NEW items \in SUBSET Products, NEW p \in items
    PROVE  \E k \in 1..Parts(items) : p \in Part(items, k)
  BY PartOf

\* Every place is taken: the items have different places, as many as there are items.
LEMMA RankOnto ==
    ASSUME NEW items \in SUBSET Products, NEW k \in 1..Cardinality(items)
    PROVE  \E p \in items : Rank(items, p) = k
<1> DEFINE n == Cardinality(items)
           f == [p \in items |-> Rank(items, p)]
<1>1. IsFiniteSet(items) /\ n \in Nat
  BY LogAssumption, FS_Subset, FS_CardinalityType
<1>2. \A p \in items : Rank(items, p) \in 1..n
  BY RankBounds
<1>3. ASSUME NEW p \in items, NEW q \in items, p < q PROVE Rank(items, p) < Rank(items, q)
  <2> DEFINE S == {x \in items : x <= p}
             T == {x \in items : x <= q}
  <2>1. p \in Nat /\ q \in Nat /\ \A x \in items : x \in Nat
    BY LogAssumption
  <2>2. S \subseteq T /\ q \in T /\ q \notin S
    <3>1. \A x \in items : x <= p => x <= q
      BY <1>3, <2>1
    <3>2. q <= q /\ ~(q <= p)
      BY <1>3, <2>1
    <3> QED BY <3>1, <3>2
  <2>3. IsFiniteSet(T) /\ IsFiniteSet(S)
    BY <1>1, FS_Subset
  <2>4. Cardinality(S) <= Cardinality(T) /\ Cardinality(S) # Cardinality(T)
    BY <2>2, <2>3, FS_Subset
  <2>5. Cardinality(S) \in Nat /\ Cardinality(T) \in Nat
    BY <2>3, FS_CardinalityType
  <2> HIDE DEF S, T
  <2>6. Cardinality(S) < Cardinality(T)
    BY <2>4, <2>5
  <2> QED BY <2>6 DEF S, T, Rank
<1>4. ASSUME NEW p \in items, NEW q \in items, Rank(items, p) = Rank(items, q) PROVE p = q
  <2>1. p \in Nat /\ q \in Nat /\ Rank(items, p) \in Nat /\ Rank(items, q) \in Nat
    BY <1>1, <1>2, LogAssumption
  <2>2. ~(p < q) /\ ~(q < p)
    BY <1>3, <1>4, <2>1
  <2> QED BY <2>1, <2>2
<1>5. f \in Injection(items, 1..n)
  <2>1. f \in [items -> 1..n] /\ \A p \in items : f[p] = Rank(items, p)
    BY <1>2
  <2> HIDE DEF f, n
  <2>2. \A p, q \in items : f[p] = f[q] => p = q
    BY <1>4, <2>1
  <2> QED BY <2>1, <2>2 DEF Injection, IsInjective
<1>6. IsFiniteSet(1..n) /\ Cardinality(1..n) = n
  BY <1>1, FS_Interval
<1> HIDE DEF f
<1>7. f \in Surjection(items, 1..n)
  BY <1>5, <1>6, FS_Injection
<1>8. PICK p \in items : f[p] = k
  BY <1>7 DEF Surjection
<1> QED BY <1>8 DEF f

\* No part is empty.
LEMMA PartNonempty ==
    ASSUME NEW items \in SUBSET Products, NEW k \in 1..Parts(items)
    PROVE  Part(items, k) # {}
<1> DEFINE n == Cardinality(items)
           m == MaxItems
           d == (n + m - 1) \div m
           x == (k - 1) * m
<1>1. n \in Nat /\ m \in Nat \ {0}
  BY LogAssumption, FS_Subset, FS_CardinalityType
<1>2. n + m - 1 \in Nat
  BY <1>1
<1>3. d \in Nat /\ d * m <= n + m - 1
  BY <1>1, <1>2, DivBounds
<1>4. k \in 1..d
  BY DEF Parts
<1> HIDE DEF n, m, d
<1>5. x \in Nat /\ k * m = x + m /\ d * m \in Int /\ k * m \in Int
  <2>1. k - 1 \in Nat /\ k \in Int /\ d \in Int /\ m \in Int
    BY <1>1, <1>3, <1>4
  <2>2. (k - 1) * m \in Nat
    BY <1>1, <2>1
  <2>3. k * m = (k - 1) * m + m
    BY <2>1
  <2> QED BY <2>1, <2>2, <2>3
<1> HIDE DEF x
<1>6. k * m <= d * m
  <2>1. ~(d * m < k * m)
    BY <1>1, <1>3, <1>4, MulMonotone
  <2> QED BY <1>5, <2>1
<1>7. x + 1 \in 1..n
  BY <1>1, <1>3, <1>5, <1>6
<1>8. PICK p \in items : Rank(items, p) = x + 1
  BY <1>7, RankOnto DEF n
<1>9. x < Rank(items, p) /\ Rank(items, p) <= x + m
  BY <1>1, <1>5, <1>8
<1>10. p \in Part(items, k)
  BY <1>5, <1>9 DEF Part, x, m
<1> QED BY <1>10

\* The action of an item is the only one whose part it is in.
LEMMA PartOfUnique ==
    ASSUME NEW items \in SUBSET Products, NEW k \in 1..Parts(items), NEW p \in items
    PROVE  p \in Part(items, k) <=> (Rank(items, p) - 1) \div MaxItems + 1 = k
<1> DEFINE j == (Rank(items, p) - 1) \div MaxItems + 1
<1>1. j \in 1..Parts(items) /\ p \in Part(items, j) /\ Parts(items) \in Nat
  BY PartOf, PartsType
<1> HIDE DEF j
<1>2. j \in Nat /\ k \in Nat
  BY <1>1
<1>3. p \in Part(items, k) => j = k
  BY <1>1, <1>2, PartsDisjoint
<1> QED BY <1>1, <1>3 DEF j

-----------------------------------------------------------------------------
(* The log. *)

\* What WriteActions appends to the log is one pending action for each part.
LEMMA SignedType ==
    ASSUME NEW type \in ActionTypes, NEW items \in SUBSET Products
    PROVE  /\ Signed(type, items) \in Seq(Action)
           /\ Len(Signed(type, items)) = Parts(items)
           /\ \A k \in 1..Parts(items) :
                  Signed(type, items)[k] = [type |-> type, items |-> Part(items, k), outcome |-> "PENDING"]
<1>1. Parts(items) \in Nat
  BY PartsType
<1>2. \A k \in 1..Parts(items) : [type |-> type, items |-> Part(items, k), outcome |-> "PENDING"] \in Action
  BY DEF Part, Action, Outcomes
<1> QED BY <1>1, <1>2 DEF Signed

LEMMA Concatenation ==
    ASSUME NEW a \in Seq(Action), NEW b \in Seq(Action)
    PROVE  /\ a \o b \in Seq(Action) /\ Len(a \o b) = Len(a) + Len(b)
           /\ \A i \in 1..Len(a) : (a \o b)[i] = a[i]
           /\ \A i \in (Len(a) + 1)..(Len(a) + Len(b)) : (a \o b)[i] = b[i - Len(a)]
  OBVIOUS

\* A step of the ledger decides one pending action, and changes nothing else.
LEMMA SettledChange ==
    ASSUME NEW l \in Seq(Action), NEW l2, Settled(l, l2)
    PROVE  /\ l2 \in Seq(Action) /\ Len(l2) = Len(l)
           /\ \A j \in 1..Len(l) : l2[j].type = l[j].type /\ l2[j].items = l[j].items
           /\ \E i \in 1..Len(l) :
                  /\ NextToSettle(l, i) /\ l[i].outcome = "PENDING"
                  /\ l2[i].outcome \in {Verdict(l, i), "FAILED"} /\ l2[i].outcome # "PENDING"
                  /\ \A j \in 1..Len(l) : j # i => l2[j] = l[j]
<1>1. Len(l) \in Nat /\ DOMAIN l = 1..Len(l)
  OBVIOUS
<1>2. PICK i \in DOMAIN l :
          /\ NextToSettle(l, i)
          /\ \E o \in {Verdict(l, i)} \union (IF Failures(l) < MaxFailures THEN {"FAILED"} ELSE {}) :
                l2 = [l EXCEPT ![i].outcome = o]
  BY DEF Settled
<1>3. PICK o \in {Verdict(l, i), "FAILED"} : l2 = [l EXCEPT ![i].outcome = o]
  BY <1>2
<1>4. o \in Outcomes \ {"PENDING"}
  BY <1>3 DEF Verdict, Outcomes
<1>5. l[i] \in Action
  BY <1>1
<1>6. l2[i] = [type |-> l[i].type, items |-> l[i].items, outcome |-> o]
  BY <1>1, <1>3, <1>5 DEF Action
<1>7. l2 \in Seq(Action) /\ Len(l2) = Len(l) /\ \A j \in 1..Len(l) : j # i => l2[j] = l[j]
  <2>1. [l[i] EXCEPT !.outcome = o] \in Action
    BY <1>4, <1>5 DEF Action
  <2> QED BY <1>1, <1>3, <2>1
<1>8. \A j \in 1..Len(l) : l2[j].type = l[j].type /\ l2[j].items = l[j].items
  BY <1>6, <1>7
<1>9. l2[i].outcome = o /\ l[i].outcome = "PENDING"
  BY <1>2, <1>6 DEF NextToSettle
<1>10. i \in 1..Len(l) /\ NextToSettle(l, i)
  BY <1>1, <1>2
<1> HIDE DEF NextToSettle, Verdict
<1> QED BY <1>3, <1>4, <1>7, <1>8, <1>9, <1>10
=============================================================================
