----------------------------- MODULE MCSessions -----------------------------
(* Sessions of one user with a few requests and tokens. *)
EXTENDS Sessions, TLC

Interchangeable ==
    Permutations(Tokens) \cup Permutations(Requests) \cup Permutations(ResetLinks)

=============================================================================
