------------------------------- MODULE MCVault -------------------------------
(* EvidenceVault with two records and two invocations; no symmetry, since  *)
(* the run checks liveness.                                                *)
EXTENDS EvidenceVault, TLC

=============================================================================
