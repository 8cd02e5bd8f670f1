------------------------------ MODULE Timeline ------------------------------
(***************************************************************************)
(* The activity timeline: nothing is stored for it.  Three providers       *)
(* project events from the rows of entities, observations, zone sessions   *)
(* and alerts; the composer asks them one after another, each in a         *)
(* transaction of its own, merges their ordered streams into a page and    *)
(* hands out a cursor.  A client follows the cursors while transactions    *)
(* of other processes open and close rows, in any order of their times,    *)
(* and the retention worker removes rows.                                  *)
(*                                                                         *)
(* The constants open and close give a row the times it will have.  The    *)
(* filters on camera and label select rows just as the one on the entity   *)
(* does and are left out, with summaries and payloads.                     *)
(***************************************************************************)
EXTENDS TimelinePages

CONSTANTS
    Rows,        \* numbers: the order of the ids of the rows
    Kind,        \* "entity", "observation", "session" or "alert"
    EntityOf,    \* the entity a row belongs to, itself for an entity
    ZoneOf,      \* the zone of a session or an alert, or NoZone
    OpenAt,      \* first_seen, observed_at, entered_at, triggered_at
    CloseAt,     \* last_seen, exited_at, resolved_at
    NoZone, NoEntity,
    Queries,     \* the requests of the client
    MaximumLimit

TimelineAssumption ==
    /\ Rows \subseteq Nat /\ IsFiniteSet(Rows) /\ NoEntity \notin Rows
    /\ \A r \in Rows : /\ Kind[r] \in {"entity", "observation", "session", "alert"}
                       /\ OpenAt[r] \in Nat \ {0} /\ CloseAt[r] \in Nat
                       /\ OpenAt[r] <= CloseAt[r]
                       /\ EntityOf[r] \in Rows /\ Kind[EntityOf[r]] = "entity"
    /\ MaximumLimit \in Nat \ {0}
ASSUME TimelineAssumption

VARIABLES
    row,        \* of each row: "absent", "open", "closed" or "pruned"
    scan,       \* "idle", "between", "reading", "done", "refused"
    query,      \* the request being answered
    cursor,     \* where the next page begins
    turn,       \* the provider to be asked next
    streams,    \* what the providers asked so far returned
    items,      \* all the client received in this scan
    seen,       \* history: all matching events the providers of the page saw
    page,       \* history: the last page with the cursor and "seen" it is of
    steady      \* history: matching events visible since the scan began

vars == <<row, scan, query, cursor, turn, streams, items, seen, page, steady>>

-----------------------------------------------------------------------------
(* Stable ids and projections: one operator per SELECT of a provider.      *)

Prefix == [alert_resolved |-> 1, alert_triggered |-> 2, entity_closed |-> 3,
           entity_created |-> 4, observation_recorded |-> 5, zone_entered |-> 6,
           zone_exited |-> 7, zone_occupancy_changed |-> 8]
AllTypes == DOMAIN Prefix
DefaultTypes == AllTypes \ {"observation_recorded"}

Event(type, r, at, suffix) ==
    [type |-> type, at |-> at, id |-> <<Prefix[type], r, suffix>>]

Exist(kind)  == {r \in Rows : Kind[r] = kind /\ row[r] \in {"open", "closed"}}
Closed(kind) == {r \in Rows : Kind[r] = kind /\ row[r] = "closed"}

EntityCreated == {Event("entity_created", r, OpenAt[r], 0) : r \in Exist("entity")}
EntityClosed  == {Event("entity_closed", r, CloseAt[r], 0) : r \in Closed("entity")}
ObservationRecorded ==
    {Event("observation_recorded", r, OpenAt[r], 0) : r \in Exist("observation")}
ZoneEntered == {Event("zone_entered", r, OpenAt[r], 0) : r \in Exist("session")}
ZoneExited  == {Event("zone_exited", r, CloseAt[r], 0) : r \in Closed("session")}
OccupancyEntered ==
    {Event("zone_occupancy_changed", r, OpenAt[r], 1) : r \in Exist("session")}
OccupancyExited ==
    {Event("zone_occupancy_changed", r, CloseAt[r], 2) : r \in Closed("session")}
AlertTriggered == {Event("alert_triggered", r, OpenAt[r], 0) : r \in Exist("alert")}
AlertResolved  == {Event("alert_resolved", r, CloseAt[r], 0) : r \in Closed("alert")}

(* Providers in the order of their names. *)
Providers == <<"alert", "entity_lifecycle", "spatial">>
Owned == [alert |-> {"alert_triggered", "alert_resolved"},
          entity_lifecycle |-> {"entity_created", "entity_closed",
                                "observation_recorded"},
          spatial |-> {"zone_entered", "zone_exited", "zone_occupancy_changed"}]

AlertEvents     == AlertTriggered \cup AlertResolved
LifecycleEvents == EntityCreated \cup EntityClosed \cup ObservationRecorded
SpatialEvents   == ZoneEntered \cup ZoneExited \cup OccupancyEntered
                       \cup OccupancyExited
EventsOf(p) == CASE p = "alert"            -> AlertEvents
                 [] p = "entity_lifecycle" -> LifecycleEvents
                 [] p = "spatial"          -> SpatialEvents
Visible == UNION {EventsOf(p) : p \in DOMAIN Owned}

-----------------------------------------------------------------------------
(* GET /timeline/{event_id}: the owner of the prefix loads the row.        *)

NoEvent == [type |-> "none", at |-> 0, id |-> << >>]
HasPrefix(id, type) == id[1] = Prefix[type]
Loaded(r, kind)     == r \in Exist(kind)

LifecycleById(id) ==
    LET r == id[2]
    IN  CASE HasPrefix(id, "entity_created") /\ Loaded(r, "entity") ->
               Event("entity_created", r, OpenAt[r], 0)
          [] HasPrefix(id, "entity_closed") /\ r \in Closed("entity") ->
               Event("entity_closed", r, CloseAt[r], 0)
          [] HasPrefix(id, "observation_recorded") /\ Loaded(r, "observation") ->
               Event("observation_recorded", r, OpenAt[r], 0)
          [] OTHER -> NoEvent

SessionEvent(id) ==
    LET r == id[2]
    IN  CASE HasPrefix(id, "zone_entered") /\ Loaded(r, "session") ->
               Event("zone_entered", r, OpenAt[r], 0)
          [] HasPrefix(id, "zone_exited") /\ r \in Closed("session") ->
               Event("zone_exited", r, CloseAt[r], 0)
          [] OTHER -> NoEvent

OccupancyById(id) ==
    LET r == id[2]
    IN  CASE id[3] = 1 /\ Loaded(r, "session") ->
               Event("zone_occupancy_changed", r, OpenAt[r], 1)
          [] id[3] = 2 /\ r \in Closed("session") ->
               Event("zone_occupancy_changed", r, CloseAt[r], 2)
          [] OTHER -> NoEvent

SpatialById(id) == IF HasPrefix(id, "zone_occupancy_changed") THEN OccupancyById(id)
                                                              ELSE SessionEvent(id)

AlertByIdUnresolved(id) ==
    LET r == id[2]
    IN  IF ~Loaded(r, "alert") THEN NoEvent
        ELSE IF HasPrefix(id, "alert_triggered")
             THEN Event("alert_triggered", r, OpenAt[r], 0)
             ELSE Event("alert_resolved", r, CloseAt[r], 0)
AlertById(id) ==
    LET r == id[2]
    IN  CASE HasPrefix(id, "alert_triggered") /\ Loaded(r, "alert") ->
               Event("alert_triggered", r, OpenAt[r], 0)
          [] HasPrefix(id, "alert_resolved") /\ r \in Closed("alert") ->
               Event("alert_resolved", r, CloseAt[r], 0)
          [] OTHER -> NoEvent

GetEvent(id) ==
    LET owner == CHOOSE p \in DOMAIN Owned : \E t \in Owned[p] : HasPrefix(id, t)
    IN  CASE owner = "alert"            -> AlertById(id)
          [] owner = "entity_lifecycle" -> LifecycleById(id)
          [] owner = "spatial"          -> SpatialById(id)

-----------------------------------------------------------------------------
(* Requests: [types, entity, scoped, zone, after, before, sort, limit].    *)

ResolveTypes(q) == IF q.types = {} THEN DefaultTypes ELSE q.types
ValidLimit(q)   == q.limit \in 1..MaximumLimit
ValidRange(q)   == q.after = 0 \/ q.before = 0 \/ q.after <= q.before
\* The timeline of one entity requires that the entity exists.
EntityFound(q)  == q.scoped => q.entity \in Exist("entity")

Relevant(q, p) == ResolveTypes(q) \cap Owned[p]
CanContribute(q, p) ==
    /\ Relevant(q, p) # {}
    /\ p = "entity_lifecycle" => q.zone = NoZone

\* The WHERE clauses of the providers.
Matches(q, e) ==
    LET r == e.id[2]
    IN  /\ q.entity # NoEntity => EntityOf[r] = q.entity
        /\ q.zone # NoZone => ZoneOf[r] = q.zone
        /\ q.after # 0 => e.at >= q.after
        /\ q.before # 0 => e.at <= q.before

Selected(q, p) ==
    IF CanContribute(q, p)
    THEN {e \in EventsOf(p) : e.type \in Relevant(q, p) /\ Matches(q, e)}
    ELSE {}
Answering(q) == UNION {Selected(q, p) : p \in DOMAIN Owned}

\* A bound without the event that tells that there are more.
ProviderLimitBare(q) == q.limit
ProviderLimit(q) == q.limit + 1

ListEvents(q, p) ==
    FirstOf(AfterCursor(Selected(q, p), cursor, q.sort), ProviderLimit(q), q.sort)

-----------------------------------------------------------------------------
(* The k-way merge of the streams S: take the best head until n are taken  *)
(* or none is left.  Of stream i, pos[i] events are taken.                 *)

Heads(S, pos) == {i \in DOMAIN S : pos[i] < Len(S[i])}
HeadOf(S, pos, i) == S[i][pos[i] + 1]
Best(S, pos, sort) ==
    CHOOSE i \in Heads(S, pos) :
        \A j \in Heads(S, pos) \ {i} :
            Before(HeadOf(S, pos, i), HeadOf(S, pos, j), sort)

TakeBest(S, taken, sort) ==
    IF Heads(S, taken.pos) = {} THEN taken
    ELSE LET i == Best(S, taken.pos, sort)
         IN  [pos |-> [taken.pos EXCEPT ![i] = @ + 1],
              out |-> Append(taken.out, HeadOf(S, taken.pos, i))]

NoneTaken(S) == [pos |-> [i \in DOMAIN S |-> 0], out |-> << >>]

Merge(S, n, sort) ==
    LET Taken[k \in 0..n] ==
            IF k = 0 THEN NoneTaken(S) ELSE TakeBest(S, Taken[k - 1], sort)
    IN  Taken[n].out

-----------------------------------------------------------------------------
NoQuery == [types |-> {}, entity |-> NoEntity, scoped |-> FALSE, zone |-> NoZone,
            after |-> 0, before |-> 0, sort |-> "desc", limit |-> 1]
NoPage == [items |-> << >>, next |-> NoCursor, from |-> NoCursor, of |-> {}]

Init ==
    /\ row = [r \in Rows |-> "absent"]
    /\ scan = "idle"
    /\ query = NoQuery
    /\ cursor = NoCursor
    /\ turn = 1
    /\ streams = << >>
    /\ items = << >>
    /\ seen = {}
    /\ page = NoPage
    /\ steady = {}

(* Transactions of the other processes.  A transaction advances one row or *)
(* two, such as an entity with its zone session; a row needs its entity.   *)
Advanced(r) == IF row[r] = "absent" THEN "open" ELSE "closed"
MayAdvance(r, S) ==
    \/ row[r] = "absent" /\ (EntityOf[r] \in S \/ EntityOf[r] \in Exist("entity"))
    \/ row[r] = "open" /\ Kind[r] # "observation"

Commit ==
    \E a, b \in Rows :
        LET S == {a, b}
        IN  /\ a <= b
            /\ \A r \in S : MayAdvance(r, S)
            /\ row' = [r \in Rows |-> IF r \in S THEN Advanced(r) ELSE row[r]]
            /\ UNCHANGED <<scan, query, cursor, turn, streams, items, seen, page, steady>>

(* The retention worker removes a row that is over; an entity takes the    *)
(* rows that refer to it with it.                                          *)
Prune ==
    \E r \in Rows :
        /\ row[r] = "closed" \/ (Kind[r] = "observation" /\ row[r] = "open")
        /\ row' = [x \in Rows |->
                     IF x = r \/ (Kind[r] = "entity" /\ EntityOf[x] = r)
                     THEN "pruned" ELSE row[x]]
        /\ UNCHANGED <<scan, query, cursor, turn, streams, items, seen, page>>
        /\ steady' = steady \cap Answering(query)'

-----------------------------------------------------------------------------
(* The client's scan.  A request is refused, or its page is begun.         *)

BeginPage(q) ==
    /\ ValidLimit(q) /\ ValidRange(q) /\ EntityFound(q)
    /\ scan' = "reading"
    /\ turn' = 1
    /\ streams' = << >>
    /\ seen' = {}

Refuse(q) ==
    /\ ~(ValidLimit(q) /\ ValidRange(q) /\ EntityFound(q))
    /\ scan' = "refused"
    /\ UNCHANGED <<turn, streams, seen>>

\* GET /timeline or /entities/{id}/timeline without a cursor.
ListTimeline(q) ==
    /\ scan = "idle"
    /\ query' = q
    /\ BeginPage(q) \/ Refuse(q)
    /\ steady' = Answering(q)
    /\ UNCHANGED <<row, cursor, items, page>>

\* The same request with the cursor of the page before.
NextPage ==
    /\ scan = "between"
    /\ BeginPage(query) \/ Refuse(query)
    /\ UNCHANGED <<row, query, cursor, items, page, steady>>

\* The next provider is asked, in a transaction of its own; one that cannot
\* contribute selects nothing.
AskProvider ==
    /\ scan = "reading" /\ turn <= Len(Providers)
    /\ LET batch == ListEvents(query, Providers[turn])
       IN  streams' = IF batch = << >> THEN streams ELSE Append(streams, batch)
    /\ seen' = seen \cup AfterCursor(Selected(query, Providers[turn]), cursor, query.sort)
    /\ turn' = turn + 1
    /\ UNCHANGED <<row, scan, query, cursor, items, page, steady>>

\* A database failure: an error is answered and the client repeats the page.
Fail ==
    /\ scan = "reading" /\ turn <= Len(Providers)
    /\ scan' = "between"
    /\ UNCHANGED <<row, query, cursor, turn, streams, items, seen, page, steady>>

\* All were asked: the streams are merged and the page is returned.
ReturnPage ==
    /\ scan = "reading" /\ turn > Len(Providers)
    /\ LET result == Page(Merge(streams, ProviderLimit(query), query.sort), query.limit)
       IN  /\ page' = [items |-> result.items, next |-> result.next,
                       from |-> cursor, of |-> seen]
           /\ items' = items \o result.items
           /\ cursor' = result.next
           /\ scan' = IF result.next = NoCursor THEN "done" ELSE "between"
    /\ UNCHANGED <<row, query, turn, streams, seen, steady>>

\* A client begins again, with another request.
Leave ==
    /\ scan \in {"done", "refused"}
    /\ scan' = "idle"
    /\ cursor' = NoCursor
    /\ items' = << >>
    /\ page' = NoPage
    /\ query' = NoQuery
    /\ steady' = {}
    /\ streams' = << >> /\ seen' = {} /\ turn' = 1
    /\ UNCHANGED row

Next ==
    \/ Commit \/ Prune
    \/ \E q \in Queries : ListTimeline(q)
    \/ NextPage \/ AskProvider \/ Fail \/ ReturnPage \/ Leave

Spec == Init /\ [][Next]_vars

-----------------------------------------------------------------------------
Obtained == {items[i] : i \in DOMAIN items}

(* composer.list_events: although every provider returns at most N + 1     *)
(* events of its own, a page is the first N of ALL the events its          *)
(* providers had after the cursor, and there is a next cursor, that of the *)
(* last item, exactly when there were more.                                *)
PageIsFirstOfUnion ==
    page # NoPage =>
        /\ page.items = FirstOf(page.of, query.limit, query.sort)
        /\ page.next = IF Cardinality(page.of) > query.limit
                       THEN Position(page.items[query.limit]) ELSE NoCursor

(* Following the cursors returns no event twice and none out of order,     *)
(* whatever was committed and pruned in between, and passes over no event  *)
(* that was there all the time: those not received lie after the cursor.   *)
ScanIsFaithful ==
    /\ \A i, j \in DOMAIN items : i < j => Before(items[i], items[j], query.sort)
    /\ \A e \in steady \ Obtained :
            /\ scan # "done"
            /\ cursor # NoCursor => Before(cursor, e, query.sort)

(* get_event_by_id resolves exactly the ids that the providers list, each  *)
(* to the event they list: an event of a page is found until its row is    *)
(* pruned, and nothing is found that no page can show.                     *)
FoundById ==
    \A r \in Rows, p \in 1..Cardinality(AllTypes), suffix \in 0..2 :
        LET id     == <<p, r, suffix>>
            listed == {e \in Visible : e.id = id}
            wellformed == (suffix # 0) = (p = Prefix["zone_occupancy_changed"])
        IN  wellformed => GetEvent(id) = IF listed = {} THEN NoEvent
                                         ELSE CHOOSE e \in listed : TRUE
=============================================================================
