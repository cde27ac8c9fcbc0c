----------------------------- MODULE MCEvidence -----------------------------
(* EvidenceChain with a few calls that race for the next position. *)
EXTENDS EvidenceChain, TLC

Interchangeable == Permutations(Calls)

=============================================================================
