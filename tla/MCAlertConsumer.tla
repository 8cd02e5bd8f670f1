-------------------------- MODULE MCAlertConsumer --------------------------
(* Instances of AlertConsumer for TLC. *)
EXTENDS AlertConsumer
=============================================================================
