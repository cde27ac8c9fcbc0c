------------------------------ MODULE MCBilling ------------------------------
(* Billing with two plans and two events of any content. *)
EXTENDS Billing, TLC

Interchangeable == Permutations(Keys) \cup Permutations(Handlers)

=============================================================================
