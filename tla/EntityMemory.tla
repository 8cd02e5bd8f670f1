---------------------------- MODULE EntityMemory ----------------------------
(***************************************************************************)
(* Object events of the vision process, the queue and worker thread of     *)
(* EntityMemoryService, its entities, and the zone sessions SpatialService *)
(* keeps in the same transaction, whose memory a rollback does not undo.   *)
(*                                                                         *)
(* An identity is the number of a track, which starts again at one with    *)
(* every process.  Aggregates and snapshots of an entity are left out, and *)
(* so is the check for a known source_event_id: the bus hands every event  *)
(* to the service once.                                                    *)
(*                                                                         *)
(* Every camera has a vision process of its own.  The entities and zones   *)
(* are those of one camera; of the processes of other cameras the module   *)
(* has what they do to its sessions: their stale passes.  Transactions of  *)
(* two processes follow one another.                                       *)
(***************************************************************************)
EXTENDS ZoneMembership, FiniteSets, Functions, FiniteSetsExt, SequencesExt

CONSTANTS
    NumZones,       \* zones of the camera, in the order of their names
    StaleLimit,     \* the limit of list_stale_open
    MaxTracks, MaxTime, MaxEvents, MaxQueue, MaxFaults, MaxRuns    \* bounds

ASSUME MemoryAssumption ==
    /\ NumZones \in Nat \ {0} /\ StaleLimit \in Nat \ {0}
    /\ MaxTracks \in Nat \ {0} /\ MaxTime \in Nat /\ MaxEvents \in Nat
    /\ MaxQueue \in Nat \ {0} /\ MaxFaults \in Nat /\ MaxRuns \in Nat \ {0}

VARIABLES
    clock,
    seen,           \* last_seen of each track of MemoryService, or Absent
    nextTrack,
    queue,          \* object events for the entity-memory-worker
    run,            \* number of this process
    serial,         \* transactions so far
    entities,       \* rows of entities
    membership,     \* SpatialService._membership, in memory
    sessions,       \* open rows of entity_zone_sessions
    reported,       \* occupancy in the latest event of each zone
    balance,        \* history: enter minus exit events of each pair
    streak,         \* history: latest equal answers for each pair
    followed,       \* history: tracks with a committed event, until they exit
    orphans,        \* history: tracks whose OBJECT_ENTERED was rolled back
    published, faults

vision == <<clock, seen, nextTrack, published>>
spatial == <<sessions, reported, balance>>
vars == <<vision, queue, run, serial, entities, membership, spatial, streak,
          followed, orphans, faults>>

Absent == -1
Tracks == 1..MaxTracks
Zones == 1..NumZones
Rows == 1..(MaxTracks * MaxRuns)
Pairs == Rows \X Zones
Kinds == {"entered", "updated", "exited"}
NoStreak == [last |-> "outside", length |-> 0]
MaxStreak == EnterConfirm + ExitConfirm

Init ==
    /\ clock = 0 /\ seen = [t \in Tracks |-> Absent] /\ nextTrack = 1
    /\ queue = <<>> /\ run = 1 /\ serial = 0 /\ entities = <<>>
    /\ membership = [k \in Pairs |-> Unknown]
    /\ sessions = [k \in Pairs |-> NoSession]
    /\ reported = [z \in Zones |-> 0] /\ balance = [k \in Pairs |-> 0]
    /\ streak = [k \in Pairs |-> NoStreak]
    /\ followed = {} /\ orphans = {}
    /\ published = 0 /\ faults = 0

-----------------------------------------------------------------------------
(* The vision process.                                                     *)

Tick ==
    /\ clock < MaxTime
    /\ clock' = clock + 1
    /\ UNCHANGED <<seen, nextTrack, published, queue, run, serial, entities,
                   membership, spatial, streak, followed, orphans, faults>>

\* handle_object_event puts the event on the queue.
Publish(kind, t, at) ==
    /\ published < MaxEvents /\ Len(queue) < MaxQueue
    /\ published' = published + 1
    /\ queue' = Append(queue, [kind |-> kind, track |-> t, at |-> at])
    /\ UNCHANGED <<clock, run, serial, entities, membership, spatial, streak,
                   followed, orphans, faults>>

\* An unmatched detection becomes a new track.
ObjectEntered ==
    /\ nextTrack \in Tracks
    /\ seen' = [seen EXCEPT ![nextTrack] = clock]
    /\ nextTrack' = nextTrack + 1
    /\ Publish("entered", nextTrack, clock)

ObjectUpdated(t) ==
    /\ seen[t] # Absent
    /\ seen' = [seen EXCEPT ![t] = clock]
    /\ Publish("updated", t, clock)
    /\ UNCHANGED nextTrack

\* A track missed for too long exits at the time it was last seen.
ObjectExited(t) ==
    /\ seen[t] # Absent
    /\ seen' = [seen EXCEPT ![t] = Absent]
    /\ Publish("exited", t, seen[t])
    /\ UNCHANGED nextTrack

\* The process ends, at any point, and starts again: nothing emits the
\* exits of the tracks it forgets.
Restart ==
    /\ run < MaxRuns
    /\ run' = run + 1
    /\ seen' = [t \in Tracks |-> Absent] /\ nextTrack' = 1
    /\ queue' = <<>>
    /\ membership' = [k \in Pairs |-> Unknown]
    /\ followed' = {} /\ orphans' = {}
    /\ UNCHANGED <<clock, published, serial, entities, spatial, streak, faults>>

-----------------------------------------------------------------------------
(* Which entity an event is about.                                         *)

RowsOf(t) == {i \in DOMAIN entities : entities[i].track = t}
Active(t) == {i \in RowsOf(t) : entities[i].active}

\* A late event of a closed entity is recorded and changes nothing else.
Late(event) ==
    /\ event.kind # "entered"
    /\ Active(event.track) = {} /\ RowsOf(event.track) # {}

RowReopened(event) ==
    IF RowsOf(event.track) # {} THEN Max(RowsOf(event.track))
    ELSE Len(entities) + 1

\* The active entity of the identity, of which there is one at most, or a new
\* one.
Row(event) ==
    IF Active(event.track) # {} THEN CHOOSE i \in Active(event.track) : TRUE
    ELSE Len(entities) + 1

\* apply_observation or create, and close if the object exited.
Written(event) ==
    LET r == Row(event)
        open == r \in DOMAIN entities => entities[r].active
        row == [track |-> event.track, active |-> open /\ event.kind # "exited"]
    IN  IF r \in DOMAIN entities THEN [entities EXCEPT ![r] = row]
        ELSE Append(entities, row)

-----------------------------------------------------------------------------
(* Zones, in the transaction of the event.                                 *)

OpenIn(table, z) == {k \in Pairs : k[2] = z /\ table[k] # NoSession}
OpenRemembered(table, r) ==
    {k \in Pairs : k[1] = r /\ membership[k].phase \in {"inside", "leaving"}}
OpenOf(table, r) == {k \in Pairs : k[1] = r /\ table[k] # NoSession}
Stale(now) == {k \in Pairs : IsStale(sessions[k], now)}

\* No open session outside the set is older than one inside.
OldestFirst(closed, all) ==
    \A k \in closed, l \in all \ closed : sessions[k].seen <= sessions[l].seen

\* What _maybe_reconcile_stale closes: nothing within a second of the last, or
\* the oldest, among which those of other cameras take up the limit.
MayReconcile(closed, now) ==
    /\ closed \subseteq Stale(now) /\ OldestFirst(closed, Stale(now))
    /\ Cardinality(closed) <= StaleLimit

Without(table, pairs, none) ==
    [k \in Pairs |-> IF k \in pairs THEN none ELSE table[k]]

\* The answers for the zones before this one have settled, this one's has
\* been counted, in a transaction on entity r.
MemberUpTo(zone, r, answers, mem, table) ==
    [k \in Pairs |->
        LET counted == Counted(mem[k], table[k], answers[k[2]])
        IN  CASE k[1] = r /\ k[2] < zone ->
                    SettledMember(counted, table[k], answers[k[2]], serial + 1)
              [] k = <<r, zone>> -> counted
              [] OTHER -> mem[k]]

Counts(r, answers, mem, table) ==
    [k \in Pairs |-> IF k[1] = r THEN Counted(mem[k], table[k], answers[k[2]])
                     ELSE mem[k]]

AnsweredOpening(r, answers, mem, table) ==
    {k \in Pairs : /\ k[1] = r
                   /\ Opens(Counts(r, answers, mem, table)[k], table[k],
                            answers[k[2]])}
AnsweredClosing(r, answers, mem, table) ==
    {k \in Pairs : /\ k[1] = r
                   /\ Closes(Counts(r, answers, mem, table)[k], table[k],
                             answers[k[2]])}

SettledSessions(r, answers, now, mem, table) ==
    [k \in Pairs |->
        IF k[1] # r THEN table[k]
        ELSE SettledSession(Counts(r, answers, mem, table)[k], table[k],
                            answers[k[2]], serial + 1, now)]

OccupancyAfter(table, z, entered, left) ==
    LET count == Cardinality(OpenIn(table, z)) + Cardinality({k \in entered : k[2] = z})
        less == Cardinality({k \in left : k[2] = z})
    IN  IF less > count THEN 0 ELSE count - less

\* Events of a zone carry the sessions counted before the change, plus or
\* minus one; a transaction closes one by one and counts every time.
Announce(entered, left) ==
    /\ balance' = [k \in Pairs |->
           balance[k] + (IF k \in entered THEN 1 ELSE 0)
                      - (IF k \in left THEN 1 ELSE 0)]
    /\ reported' = [z \in Zones |->
           IF \E k \in entered \cup left : k[2] = z
           THEN OccupancyAfter(sessions, z, entered, left)
           ELSE reported[z]]

Streaks(r, upTo, answers) ==
    [k \in Pairs |->
        IF k[1] # r \/ k[2] > upTo \/ answers[k[2]] = "skipped" THEN streak[k]
        ELSE [last |-> answers[k[2]],
              length |-> IF streak[k].last # answers[k[2]] THEN 1
                         ELSE IF streak[k].length = MaxStreak THEN MaxStreak
                         ELSE streak[k].length + 1]]

-----------------------------------------------------------------------------
(* The worker: one event, one transaction.                                 *)

Take(event) ==
    /\ queue # <<>> /\ event = Head(queue)
    /\ queue' = Tail(queue) /\ serial' = serial + 1
    /\ UNCHANGED <<vision, run>>

Committed(event) ==
    /\ Take(event)
    /\ followed' = IF event.kind = "exited" THEN followed \ {event.track}
                   ELSE followed \cup {event.track}
    /\ UNCHANGED <<orphans, faults>>

RecordLate(event) ==
    /\ Committed(event) /\ Late(event)
    /\ UNCHANGED <<entities, membership, spatial, streak>>

\* process_observation of an entity that is there.
Observe(event, closed, answers) ==
    LET r == Row(event)
        mem == Without(membership, closed, Unknown)
        table == Without(sessions, closed, NoSession)
    IN  /\ Committed(event) /\ ~Late(event) /\ event.kind # "exited"
        /\ MayReconcile(closed, event.at)
        /\ entities' = Written(event)
        /\ membership' = MemberUpTo(NumZones + 1, r, answers, mem, table)
        /\ sessions' = SettledSessions(r, answers, event.at, mem, table)
        /\ Announce(AnsweredOpening(r, answers, mem, table),
                    closed \cup AnsweredClosing(r, answers, mem, table))
        /\ streak' = Streaks(r, NumZones, answers)

\* force_close_entity.
CloseEntity(event, closed) ==
    LET r == Row(event)
        forced == OpenOf(sessions, r)
    IN  /\ Committed(event) /\ ~Late(event) /\ event.kind = "exited"
        /\ MayReconcile(closed, event.at)
        /\ entities' = Written(event)
        /\ membership' = Without(membership, closed \cup {k \in Pairs : k[1] = r}, Unknown)
        /\ sessions' = Without(sessions, closed \cup forced, NoSession)
        /\ Announce({}, closed \cup forced)
        /\ UNCHANGED streak

\* The id of an entity whose row was rolled back is never used again.
Forget(r, mem) ==
    [k \in Pairs |-> IF k[1] = r /\ r \notin DOMAIN entities THEN membership[k]
                     ELSE mem[k]]

\* How far SpatialService came in memory when the transaction failed: not at
\* all, between two stale sessions, in one of the zones or at the commit.
LeftInMemory(event) ==
    LET r == Row(event)
        unset(closed) == Without(membership, closed, Unknown)
        rest(closed) == Without(sessions, closed, NoSession)
    IN  \/ UNCHANGED <<membership, streak>>
        \/ \E closed \in SUBSET Stale(event.at) :
            /\ ~Late(event) /\ MayReconcile(closed, event.at)
            /\ membership' = unset(closed) /\ UNCHANGED streak
        \/ \E closed \in SUBSET Stale(event.at), answers \in [Zones -> Answers],
              zone \in 1..(NumZones + 1) :
            /\ ~Late(event) /\ event.kind # "exited"
            /\ MayReconcile(closed, event.at)
            /\ membership' = Forget(r, MemberUpTo(zone, r, answers, unset(closed), rest(closed)))
            /\ streak' = IF r \in DOMAIN entities THEN Streaks(r, zone, answers)
                         ELSE streak
        \/ \E closed \in SUBSET Stale(event.at) :
            /\ ~Late(event) /\ event.kind = "exited"
            /\ MayReconcile(closed, event.at)
            /\ \/ \E left \in SUBSET OpenOf(rest(closed), r) :
                    membership' = Without(unset(closed), left, Outside)
               \/ membership' = Without(unset(closed), {k \in Pairs : k[1] = r}, Unknown)
            /\ UNCHANGED streak

\* _process_event logs the failure and goes on with the next event.
RollBack(event) ==
    /\ faults < MaxFaults /\ faults' = faults + 1
    /\ Take(event)
    /\ LeftInMemory(event)
    /\ orphans' = IF event.kind = "entered" THEN orphans \cup {event.track}
                  ELSE orphans
    /\ UNCHANGED <<entities, spatial, followed>>

\* The process of another camera closes stale sessions, whose camera it does
\* not ask for, and forgets what it does not remember.
ReconcileElsewhere(closed) ==
    /\ closed # {} /\ MayReconcile(closed, clock)
    /\ sessions' = Without(sessions, closed, NoSession)
    /\ Announce({}, closed)
    /\ UNCHANGED <<vision, queue, run, serial, entities, membership, streak,
                   followed, orphans, faults>>

-----------------------------------------------------------------------------
Worker(event) ==
    \/ RecordLate(event)
    \/ \E closed \in SUBSET Stale(event.at) :
        \/ \E answers \in [Zones -> Answers] : Observe(event, closed, answers)
        \/ CloseEntity(event, closed)
    \/ RollBack(event)

Next ==
    \/ Tick \/ ObjectEntered \/ Restart
    \/ \E t \in Tracks : ObjectUpdated(t) \/ ObjectExited(t)
    \/ \E event \in Range(queue) : Worker(event)
    \/ \E closed \in SUBSET Stale(clock) : ReconcileElsewhere(closed)

Spec == Init /\ [][Next]_vars

-----------------------------------------------------------------------------
(* Properties.                                                             *)

\* The events a reader of the timeline or an alert rule gets tell the truth:
\* enter and exit of an entity alternate, the last one says whether a session
\* is open, and the last occupancy of a zone counts its open sessions.
EventsMatchSessions ==
    /\ \A k \in Pairs : balance[k] = IF sessions[k] = NoSession THEN 0 ELSE 1
    /\ \A z \in Zones : reported[z] = Cardinality(OpenIn(sessions, z))

\* Only an active entity is in a zone: whatever closes it takes it out of
\* every zone in the same transaction, known to this process or not.
ClosedEntityLeft ==
    \A k \in Pairs : sessions[k] # NoSession =>
        k[1] \in DOMAIN entities /\ entities[k[1]].active

\* An object on camera belongs to one active entity from its first committed
\* event to its exit, unless its OBJECT_ENTERED was rolled back.
ObjectHasEntity ==
    \A t \in Tracks :
        /\ Cardinality(Active(t)) <= 1
        /\ t \in followed \ orphans => Active(t) # {}

\* Closed in no transaction of this process.
ClosedElsewhere(k) ==
    serial' = serial /\ IsStale(sessions[k], clock) /\ sessions'[k] = NoSession

\* docs/spatial-intelligence.md:60 "Durable sessions open only on confirmed
\* enter and close on confirmed exit, entity close, or lost-track
\* reconciliation", for the answers of this and of earlier processes, through
\* rollbacks.
TransitionsConfirmed ==
    [][\A k \in Pairs :
        /\ sessions'[k].id \notin {0, sessions[k].id} =>
              streak'[k].last = "inside" /\ streak'[k].length >= EnterConfirm
        /\ sessions[k] # NoSession /\ sessions'[k].id # sessions[k].id =>
              \/ streak'[k].last = "outside" /\ streak'[k].length >= ExitConfirm
              \/ ~entities'[k[1]].active
              \/ ClosedElsewhere(k)
              \/ IsStale(sessions[k], Head(queue).at)]_vars

Agrees(k) ==
    \/ membership[k].phase = "unknown"
    \/ IF membership[k].phase \in {"inside", "leaving"}
       THEN sessions[k].id = membership[k].session ELSE sessions[k] = NoSession

\* What SpatialService remembers of a pair and the table come apart only in a
\* transaction that rolls back or when another camera's process closes the
\* session as stale.
CommitKeepsAgreement ==
    [][faults' = faults =>
          \A k \in Pairs : Agrees(k) => Agrees(k)' \/ ClosedElsewhere(k)]_vars
=============================================================================
