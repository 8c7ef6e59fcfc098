--------------------------- MODULE MCSignedLedger ---------------------------
(* Two organizations, two admins, an operator and an invalid key, two items, six ids. *)
EXTENDS SignedLedger, TLC

CONSTANTS o1, o2, a1, a2, op, fake, x1, x2, x3, x4, r1, r2

MCKeys == {a1, a2, op}
MCAllKeys == MCKeys \union {fake}

\* No envelope names an organization.
OrgSymmetry == Permutations(Orgs)

W(id, type, items, key, sig) ==
    [id |-> id, type |-> type, items |-> items, key |-> key, sig |-> sig]

K(id, type, target, key) ==
    [id |-> id, type |-> type, target |-> target, key |-> key, sig |-> TRUE]

\* x1 carries two validly signed envelopes; x2 is the next stage, with an unsorted and a
\* forged variant; x3 is empty, of a key type or the third stage; x4 is the last stage.
MCEnvelopes ==
    { W(x1, "Receive", <<1, 2>>, op, TRUE),
      W(x1, "PutAway", <<1>>, a1, TRUE),
      W(x2, "PutAway", <<1, 2>>, op, TRUE),
      W(x2, "PutAway", <<2, 1>>, op, TRUE),
      W(x2, "PutAway", <<1, 2>>, op, FALSE),
      W(x3, "Receive", <<>>, op, TRUE),
      W(x3, "KeyRevoke", <<1>>, op, TRUE),
      W(x3, "Pick", <<1>>, op, TRUE),
      W(x4, "Ship", <<1>>, op, TRUE) }

MCKeyEnvelopes ==
    { K(r1, "KeyRegister", op, a1),
      K(r1, "KeyRegister", op, op),
      K(r1, "KeyRegister", fake, a1),
      K(r2, "KeyRevoke", op, a1),
      K(r2, "KeyRevoke", op, a2),
      K(r2, "KeyRevoke", a1, a2),
      K(r2, "Receive", op, a2) }
=============================================================================
