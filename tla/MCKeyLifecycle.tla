--------------------------- MODULE MCKeyLifecycle ---------------------------
(***************************************************************************)
(* Instances of KeyLifecycle: one admin with one key, one operator with one *)
(* or two, two requests at a time.                                         *)
(***************************************************************************)
EXTENDS KeyLifecycle, TLC

CONSTANTS adm, k1, boss, worker

MCOwner == [c \in Creds |-> IF c = adm THEN boss ELSE worker]

\* Only the admin's key is registered.
MCFresh == {{adm}}

\* The operator has a key already.
MCWorking == {{adm, k1}}

\* Requests and ids are interchangeable; the keys are not (InitialKeys names k1).
Symm == Permutations(Requests) \union Permutations(KeyIds) \union Permutations(OpIds)
=============================================================================
