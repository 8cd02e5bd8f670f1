---------------------------- MODULE MCRetention ----------------------------
(***************************************************************************)
(* Instances of Retention: an entity with an alert, its delivery and an    *)
(* evaluator state.  Each domain has one row, so that a batch of one takes *)
(* them all; the limit on batches is not reached.                          *)
(***************************************************************************)
EXTENDS Retention

CONSTANTS e1, a1, d1, s1

MCDomainOf ==
    [r \in Rows |-> CASE r = e1 -> "entities"
                      [] r = a1 -> "alerts"
                      [] r = d1 -> "notification_deliveries"
                      [] r = s1 -> "evaluator_state"]

MCParentOf ==
    [r \in Rows |-> CASE r = e1 -> NoRow
                      [] r = d1 -> a1
                      [] OTHER -> e1]

MCKeep == [d \in Domains |-> 1]
=============================================================================
