------------------------- MODULE MCAlertEvaluation -------------------------
(* Small instances of AlertEvaluation for TLC. *)
EXTENDS AlertEvaluation, TLC

CONSTANTS a, b, dwell, room, match

EverySecond(n) == [r \in Rules |-> n]
NoDelay == EverySecond(0)
OneSecond == EverySecond(1)
Two == EverySecond(2)

DwellType == [r \in Rules |-> "dwell"]
OccupancyType == [r \in Rules |-> "occupancy"]
EventTypesOfRules ==
    [r \in Rules |-> IF r = match THEN "event_match" ELSE "occupancy"]

EntitySymmetry == Permutations({a, b})
=============================================================================
