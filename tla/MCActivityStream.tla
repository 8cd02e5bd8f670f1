-------------------------- MODULE MCActivityStream --------------------------
(* Instances of ActivityStream for TLC: one client reads, the other need not. *)
EXTENDS ActivityStream

CONSTANTS reading, stuck
=============================================================================
