------------------------------ MODULE MCInbound ------------------------------
(***************************************************************************)
(* Instances of Inbound: one shipment of two cargoplaces, two requests.     *)
(***************************************************************************)
EXTENDS Inbound, TLC

Symm == Permutations(Requests) \union Permutations(Ops) \union Permutations(Cargoplaces) \union Permutations(Barcodes)
=============================================================================
