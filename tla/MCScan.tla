------------------------------- MODULE MCScan -------------------------------
(* ScanLifecycle on a small tenant. *)
EXTENDS ScanLifecycle, TLC

Interchangeable ==
    Permutations(Jobs) \cup Permutations(Requests) \cup Permutations(Workers)

=============================================================================
