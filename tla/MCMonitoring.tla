---------------------------- MODULE MCMonitoring ----------------------------
(* Monitoring with one start. *)
EXTENDS Monitoring, TLC

=============================================================================
