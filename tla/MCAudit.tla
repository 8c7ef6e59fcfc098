------------------------------- MODULE MCAudit -------------------------------
(* An instance of Audit: products are received, together or apart, and placed. *)
EXTENDS Audit
=============================================================================
