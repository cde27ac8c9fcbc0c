------------------------------ MODULE MCAudit ------------------------------
(* AuditChain with a few requests audited at once. *)
EXTENDS AuditChain, TLC

Interchangeable == Permutations(Calls)

=============================================================================
