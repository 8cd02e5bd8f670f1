----------------------------- MODULE MCTimeline -----------------------------
(***************************************************************************)
(* One entity with an observation, a session in a zone and an alert that   *)
(* refers to the zone.  Everything that begins begins at time 1, so that   *)
(* the ids decide the order, and the closing times differ.                 *)
(***************************************************************************)
EXTENDS Timeline

MCRows == 1..4
MCKind == <<"entity", "session", "alert", "observation">>
MCEntityOf == <<1, 1, 1, 1>>
MCZoneOf == <<"none", "hall", "hall", "none">>
MCOpenAt == <<1, 1, 1, 2>>
MCCloseAt == <<3, 2, 3, 2>>

Query(types, entity, scoped, zone, after, before, sort, limit) ==
    [types |-> types, entity |-> entity, scoped |-> scoped, zone |-> zone,
     after |-> after, before |-> before, sort |-> sort, limit |-> limit]

\* A scan of everything in both directions, one in a zone, the timeline of
\* the entity with its observation, a recovery window; and requests that are
\* refused.
MCQueries == {
    Query({}, 0, FALSE, "none", 0, 0, "asc", 2),
    Query({}, 0, FALSE, "none", 0, 0, "desc", 3),
    Query({}, 0, FALSE, "hall", 0, 0, "desc", 1),
    Query({"observation_recorded", "entity_created", "zone_exited"},
          1, TRUE, "none", 0, 0, "asc", 1),
    Query({}, 0, FALSE, "none", 2, 3, "asc", 2),
    Query({}, 0, FALSE, "none", 3, 2, "asc", 2),
    Query({}, 0, FALSE, "none", 0, 0, "asc", 4) }
=============================================================================
