----------------------------- MODULE MCTenantPool -----------------------------
(* TenantPool with one request more than there are connections. *)
EXTENDS TenantPool

=============================================================================
