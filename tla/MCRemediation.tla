---------------------------- MODULE MCRemediation ----------------------------
(* Remediation with a few requests on the same rows. *)
EXTENDS Remediation, TLC

Interchangeable == Permutations(Remediations) \cup Permutations(Requests)

=============================================================================
