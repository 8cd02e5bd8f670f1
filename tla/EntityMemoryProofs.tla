------------------------- MODULE EntityMemoryProofs -------------------------
(***************************************************************************)
(* For any number of tracks, zones, processes and rollbacks: a closed      *)
(* entity has left every zone; an object on camera has one entity, from    *)
(* the order in which the vision process publishes, which the queue keeps; *)
(* zone events match the sessions, transitions are confirmed, and what is  *)
(* remembered of a pair agrees with the table until a rollback.            *)
(***************************************************************************)
EXTENDS EntityMemory, TLAPS, FiniteSetTheorems

USE MemoryAssumption

EntityType == [track : Tracks, active : BOOLEAN]
EventType == [kind : Kinds, track : Tracks, at : Int]

Typed ==
    /\ entities \in Seq(EntityType) /\ queue \in Seq(EventType)
    /\ run \in 1..MaxRuns /\ clock \in Int
    /\ seen \in [Tracks -> Int] /\ nextTrack \in Nat \ {0}
    /\ followed \subseteq Tracks /\ orphans \subseteq Tracks

\* No identity has two active entities.
OneActive ==
    \A i, j \in DOMAIN entities :
        /\ entities[i].active /\ entities[j].active
        /\ entities[i].track = entities[j].track
        => i = j

FollowedHasEntity == \A t \in followed \ orphans : Active(t) # {}

\* Events of a track before the i-th begin with its entry, unless that has
\* been handled; none follows its exit.
Begun(i) ==
    \/ queue[i].kind = "entered"
    \/ queue[i].track \in followed \cup orphans
    \/ \E j \in 1..(i - 1) : queue[j].kind = "entered" /\ queue[j].track = queue[i].track
Ended(i) ==
    queue[i].kind = "exited" =>
        /\ seen[queue[i].track] = Absent
        /\ \A j \in DOMAIN queue : j > i => queue[j].track # queue[i].track
QueueInv ==
    \A i \in DOMAIN queue : queue[i].track < nextTrack /\ Begun(i) /\ Ended(i)

\* A track that can still publish has been entered.
SeenInv ==
    \A t \in Tracks : seen[t] # Absent => t < nextTrack /\
       (\/ t \in followed \cup orphans
        \/ \E j \in DOMAIN queue : queue[j].kind = "entered" /\ queue[j].track = t)

IInv ==
    /\ Typed /\ ClosedEntityLeft /\ OneActive /\ FollowedHasEntity
    /\ QueueInv /\ SeenInv

-----------------------------------------------------------------------------
(* The row of an event.                                                    *)

\* The entity an event is about is the active one of its identity, or new,
\* and after the event the identity has no other active entity.
LEMMA WrittenRow ==
    ASSUME Typed, NEW event \in EventType,
           NEW r, r = Row(event), NEW rows, rows = Written(event)
    PROVE  /\ rows \in Seq(EntityType)
           /\ r \in DOMAIN rows /\ DOMAIN entities \subseteq DOMAIN rows
           /\ \A i \in DOMAIN rows : i # r =>
                 i \in DOMAIN entities /\ rows[i] = entities[i]
           /\ r \in DOMAIN entities =>
                 entities[r].active /\ entities[r].track = event.track
           /\ r \notin DOMAIN entities => Active(event.track) = {}
           /\ rows[r].track = event.track
           /\ rows[r].active <=> event.kind # "exited"
<1> DEFINE open == r \in DOMAIN entities => entities[r].active
           row == [track |-> event.track, active |-> open /\ event.kind # "exited"]
<1>1. rows = IF r \in DOMAIN entities THEN [entities EXCEPT ![r] = row]
             ELSE Append(entities, row)
  BY DEF Written
<1>2. CASE Active(event.track) # {}
  <2>1. r \in Active(event.track)
    BY <1>2 DEF Row
  <2>2. r \in DOMAIN entities /\ entities[r].active /\ entities[r].track = event.track
    BY <2>1 DEF Active, RowsOf
  <2>3. entities[r] \in EntityType
    BY <2>2 DEF Typed
  <2>4. open
    BY <2>2, <2>3 DEF EntityType
  <2>5. row \in EntityType
    BY <2>4 DEF Typed, EntityType, EventType
  <2>6. row.track = event.track /\ (row.active <=> event.kind # "exited")
    BY <2>4
  <2> HIDE DEF row
  <2>7. rows = [entities EXCEPT ![r] = row]
    BY <1>1, <2>2
  <2> QED BY <2>2, <2>5, <2>6, <2>7 DEF Typed
<1>3. CASE Active(event.track) = {}
  <2>1. r = Len(entities) + 1 /\ r \notin DOMAIN entities
    BY <1>3 DEF Row, Typed
  <2>2. row \in EntityType
    BY <2>1 DEF Typed, EntityType, EventType
  <2>3. row.track = event.track /\ (row.active <=> event.kind # "exited")
    BY <2>1
  <2> HIDE DEF row
  <2>4. rows = Append(entities, row)
    BY <1>1, <2>1
  <2> QED BY <1>3, <2>1, <2>2, <2>3, <2>4 DEF Typed
<1> QED BY <1>2, <1>3

\* An event that is taken shifts the queue, and leaves what is due of the
\* queue's order to the events behind it.
LEMMA HeadTaken ==
    ASSUME Typed, QueueInv, NEW event, Take(event)
    PROVE  /\ event = queue[1] /\ 1 \in DOMAIN queue /\ event \in EventType
           /\ DOMAIN queue' = 1..(Len(queue) - 1)
           /\ \A i \in DOMAIN queue' : queue'[i] = queue[i + 1] /\ i + 1 \in DOMAIN queue
           /\ event.kind # "entered" => event.track \in followed \cup orphans
           /\ UNCHANGED <<run, clock, seen, nextTrack>>
           /\ queue' \in Seq(EventType)
<1>1. Len(queue) \in Nat \ {0} /\ event = queue[1] /\ queue' = Tail(queue)
  BY DEF Typed, Take
<1>2. queue' \in Seq(EventType) /\ Len(queue') = Len(queue) - 1
  BY <1>1 DEF Typed
<1>3. \A i \in 1..(Len(queue) - 1) : queue'[i] = queue[i + 1]
  BY <1>1 DEF Typed
<1>4. 1 \in DOMAIN queue /\ event \in EventType
  BY <1>1 DEF Typed
<1>5. event.kind # "entered" => event.track \in followed \cup orphans
  BY <1>1, <1>4 DEF QueueInv, Begun
<1>6. UNCHANGED <<run, clock, seen, nextTrack>>
  BY DEF Take, vision
<1>7. DOMAIN queue' = 1..(Len(queue) - 1) /\ DOMAIN queue = 1..Len(queue)
  BY <1>2 DEF Typed
<1> QED BY <1>1, <1>2, <1>3, <1>4, <1>5, <1>6, <1>7

\* Rows after an event: still one active entity of each identity, and every
\* track but the event's own keeps its.
LEMMA RowsKept ==
    ASSUME Typed, OneActive, NEW event \in EventType, entities' = Written(event)
    PROVE  /\ OneActive'
           /\ \A t \in Tracks : t # event.track => Active(t) \subseteq Active(t)'
           /\ event.kind # "exited" => Active(event.track)' # {}
<1> DEFINE r == Row(event)
           rows == entities'
<1>0. r = Row(event) /\ rows = Written(event)
  OBVIOUS
<1> HIDE DEF r
<1>1. /\ r \in DOMAIN entities'
      /\ DOMAIN entities \subseteq DOMAIN entities'
      /\ \A i \in DOMAIN entities' : i # r =>
            i \in DOMAIN entities /\ entities'[i] = entities[i]
      /\ r \in DOMAIN entities => entities[r].active /\ entities[r].track = event.track
      /\ r \notin DOMAIN entities => Active(event.track) = {}
      /\ entities'[r].track = event.track
      /\ entities'[r].active <=> event.kind # "exited"
  BY <1>0, WrittenRow
<1>2. OneActive'
  <2> SUFFICES ASSUME NEW i \in DOMAIN entities', NEW j \in DOMAIN entities',
                      entities'[i].active, entities'[j].active,
                      entities'[i].track = entities'[j].track, i # j
               PROVE  FALSE
    BY DEF OneActive
  <2>1. \A k \in DOMAIN entities' : k # r /\ entities'[k].active
             /\ entities'[k].track = event.track => FALSE
    BY <1>1 DEF OneActive, Active, RowsOf
  <2> QED BY <1>1, <2>1 DEF OneActive
<1>3. \A t \in Tracks : t # event.track => Active(t) \subseteq Active(t)'
  BY <1>1 DEF Active, RowsOf
<1>4. event.kind # "exited" => Active(event.track)' # {}
  BY <1>1 DEF Active, RowsOf
<1> QED BY <1>2, <1>3, <1>4

\* What the queue promises survives the event at its head, if that event is
\* accounted for.
LEMMA QueueTaken ==
    ASSUME Typed, QueueInv, SeenInv, NEW event, Take(event),
           event.kind = "entered" => event.track \in followed' \cup orphans',
           \A t \in followed \cup orphans :
               t \in followed' \cup orphans' \/ (event.kind = "exited" /\ t = event.track)
    PROVE  QueueInv' /\ SeenInv'
<1>1. /\ event = queue[1] /\ 1 \in DOMAIN queue
      /\ DOMAIN queue' = 1..(Len(queue) - 1) /\ DOMAIN queue = 1..Len(queue)
      /\ \A i \in DOMAIN queue' : queue'[i] = queue[i + 1] /\ i + 1 \in DOMAIN queue
      /\ Len(queue) \in Nat
      /\ UNCHANGED <<seen, nextTrack>>
  BY HeadTaken DEF Typed
<1>2. \A j \in DOMAIN queue : j # 1 => j - 1 \in DOMAIN queue' /\ queue'[j - 1] = queue[j]
  BY <1>1
<1>3. ASSUME NEW i \in DOMAIN queue'
      PROVE  queue'[i].track < nextTrack' /\ Begun(i)' /\ Ended(i)'
  <2>1. queue'[i] = queue[i + 1] /\ i + 1 \in DOMAIN queue /\ i \in 1..(Len(queue) - 1)
    BY <1>1
  <2>2. queue[i + 1].track < nextTrack /\ Begun(i + 1) /\ Ended(i + 1) /\ Ended(1)
    BY <1>1, <2>1 DEF QueueInv
  <2>3. Begun(i)'
    <3>1. CASE queue[i + 1].track \in followed \cup orphans
      <4>1. ~(event.kind = "exited" /\ queue[i + 1].track = event.track)
        BY <1>1, <2>1, <2>2 DEF Ended
      <4> QED BY <2>1, <3>1, <4>1 DEF Begun
    <3>2. CASE \E j \in 1..i : queue[j].kind = "entered" /\ queue[j].track = queue[i + 1].track
      <4>1. PICK j \in 1..i : queue[j].kind = "entered" /\ queue[j].track = queue[i + 1].track
        BY <3>2
      <4>2. CASE j = 1
        BY <1>1, <2>1, <4>1, <4>2 DEF Begun
      <4>3. CASE j # 1
        <5>1. j \in DOMAIN queue /\ j - 1 \in 1..(i - 1) /\ queue'[j - 1] = queue[j]
          BY <1>1, <1>2, <2>1, <4>3
        <5> QED BY <2>1, <4>1, <5>1 DEF Begun
      <4> QED BY <4>2, <4>3
    <3>3. CASE queue[i + 1].kind = "entered"
      BY <2>1, <3>3 DEF Begun
    <3>4. (i + 1) - 1 = i
      BY <2>1
    <3> QED BY <2>2, <3>1, <3>2, <3>3, <3>4 DEF Begun
  <2>4. Ended(i)'
    BY <1>1, <2>1, <2>2 DEF Ended
  <2> QED BY <1>1, <2>1, <2>2, <2>3, <2>4
<1>4. ASSUME NEW t \in Tracks, seen'[t] # Absent
      PROVE  /\ t < nextTrack'
             /\ \/ t \in followed' \cup orphans'
                \/ \E j \in DOMAIN queue' : queue'[j].kind = "entered" /\ queue'[j].track = t
  <2>1. t < nextTrack /\ seen[t] # Absent
    BY <1>1, <1>4 DEF SeenInv
  <2>2. CASE t \in followed \cup orphans
    BY <1>1, <2>1, <2>2 DEF QueueInv, Ended
  <2>3. CASE \E j \in DOMAIN queue : queue[j].kind = "entered" /\ queue[j].track = t
    <3>1. PICK j \in DOMAIN queue : queue[j].kind = "entered" /\ queue[j].track = t
      BY <2>3
    <3> QED BY <1>1, <1>2, <2>1, <3>1
  <2> QED BY <1>4, <2>1, <2>2, <2>3, <1>1 DEF SeenInv
<1>5. QueueInv'
  BY <1>3 DEF QueueInv
<1>6. SeenInv'
  BY <1>4 DEF SeenInv
<1> QED BY <1>5, <1>6

\* And the event that is put at its end, if it comes from a track that may
\* publish it.
LEMMA QueuePublished ==
    ASSUME Typed, QueueInv, SeenInv,
           NEW kind \in Kinds, NEW t \in Tracks, NEW at \in Int, Publish(kind, t, at),
           seen' \in [Tracks -> Int], nextTrack' \in Nat,
           nextTrack <= nextTrack', t < nextTrack',
           \A u \in Tracks : u # t => seen'[u] = seen[u],
           IF kind = "entered" THEN nextTrack <= t ELSE seen[t] # Absent,
           kind = "exited" => seen'[t] = Absent
    PROVE  queue' \in Seq(EventType) /\ QueueInv' /\ SeenInv'
<1> DEFINE event == [kind |-> kind, track |-> t, at |-> at]
           n == Len(queue) + 1
<1>0. \A u \in Tracks : u < nextTrack => u < nextTrack'
  BY DEF Typed, Tracks
<1>1. /\ queue' = Append(queue, event) /\ event \in EventType
      /\ UNCHANGED <<followed, orphans>>
  BY DEF Publish, EventType
<1>2. /\ queue' \in Seq(EventType) /\ n \in Nat
      /\ DOMAIN queue = 1..(n - 1) /\ DOMAIN queue' = 1..n
      /\ n \in DOMAIN queue' /\ queue'[n] = event
      /\ \A i \in DOMAIN queue : i \in DOMAIN queue' /\ queue'[i] = queue[i] /\ i < n
                                 /\ queue[i].track \in Tracks
  <2> HIDE DEF event
  <2>1. Len(queue) \in Nat /\ DOMAIN queue = 1..Len(queue)
        /\ \A i \in DOMAIN queue : queue[i] \in EventType
    BY DEF Typed
  <2>2. queue' \in Seq(EventType) /\ Len(queue') = n /\ queue'[n] = event
        /\ \A i \in 1..Len(queue) : queue'[i] = queue[i]
    BY <1>1 DEF Typed
  <2>3. DOMAIN queue' = 1..n
    BY <2>2
  <2>4. \A i \in DOMAIN queue : queue[i].track \in Tracks
    BY <2>1 DEF EventType
  <2> QED BY <2>1, <2>2, <2>3, <2>4
<1>3. event.kind = kind /\ event.track = t
  OBVIOUS
<1> HIDE DEF event, n
<1>4. \A i \in DOMAIN queue : queue[i].kind = "exited" => queue[i].track # t
  <2>1. CASE kind = "entered"
    BY <1>2, <2>1 DEF QueueInv, Typed, Tracks
  <2>2. CASE kind # "entered"
    BY <2>2 DEF QueueInv, Ended
  <2> QED BY <2>1, <2>2
<1>5. ASSUME NEW i \in DOMAIN queue'
      PROVE  queue'[i].track < nextTrack' /\ Begun(i)' /\ Ended(i)'
  <2>1. CASE i = n
    <3>1. Begun(i)'
      <4>1. CASE kind = "entered"
        BY <1>2, <1>3, <2>1, <4>1 DEF Begun
      <4>2. CASE t \in followed \cup orphans
        BY <1>1, <1>2, <1>3, <2>1, <4>2 DEF Begun
      <4>3. CASE \E j \in DOMAIN queue : queue[j].kind = "entered" /\ queue[j].track = t
        BY <1>2, <1>3, <2>1, <4>3 DEF Begun
      <4> QED BY <4>1, <4>2, <4>3 DEF SeenInv
    <3>2. Ended(i)'
      BY <1>2, <1>3, <2>1 DEF Ended
    <3> QED BY <1>2, <1>3, <2>1, <3>1, <3>2
  <2>2. CASE i \in DOMAIN queue
    <3>1. queue[i].track < nextTrack /\ Begun(i) /\ Ended(i) /\ queue'[i] = queue[i]
          /\ queue[i].track \in Tracks
      BY <1>2, <2>2 DEF QueueInv
    <3>2. queue'[i].track < nextTrack'
      BY <1>0, <3>1
    <3>3. Begun(i)'
      BY <1>1, <1>2, <2>2, <3>1 DEF Begun
    <3>4. ASSUME queue[i].kind = "exited"
          PROVE  /\ seen'[queue'[i].track] = Absent
                 /\ \A j \in DOMAIN queue' : j > i => queue'[j].track # queue'[i].track
      <4>1. /\ seen[queue[i].track] = Absent /\ queue[i].track # t
            /\ \A j \in DOMAIN queue : j > i => queue[j].track # queue[i].track
        BY <1>4, <2>2, <3>1, <3>4 DEF Ended
      <4>2. seen'[queue[i].track] = Absent
        BY <1>2, <3>1, <4>1
      <4>3. ASSUME NEW j \in DOMAIN queue', j > i
            PROVE  queue'[j].track # queue[i].track
        <5>1. CASE j = n
          BY <1>2, <1>3, <4>1, <5>1
        <5>2. CASE j \in DOMAIN queue
          BY <1>2, <4>1, <4>3, <5>2
        <5> QED BY <1>2, <5>1, <5>2
      <4> QED BY <3>1, <4>2, <4>3
    <3>5. Ended(i)'
      BY <3>1, <3>4 DEF Ended
    <3> QED BY <3>2, <3>3, <3>5
  <2> QED BY <1>2, <2>1, <2>2
<1>6. ASSUME NEW u \in Tracks, seen'[u] # Absent
      PROVE  /\ u < nextTrack'
             /\ \/ u \in followed' \cup orphans'
                \/ \E j \in DOMAIN queue' : queue'[j].kind = "entered" /\ queue'[j].track = u
  <2>1. CASE kind = "entered" /\ u = t
    BY <1>2, <1>3, <2>1
  <2>2. CASE seen[u] # Absent
    <3>1. u < nextTrack'
      <4>1. u < nextTrack
        BY <2>2 DEF SeenInv
      <4> QED BY <4>1 DEF Typed, Tracks
    <3>2. CASE u \in followed \cup orphans
      BY <1>1, <3>1, <3>2
    <3>3. CASE \E j \in DOMAIN queue : queue[j].kind = "entered" /\ queue[j].track = u
      BY <1>2, <3>1, <3>3
    <3> QED BY <2>2, <3>2, <3>3 DEF SeenInv
  <2> QED BY <1>6, <2>1, <2>2
<1>7. QueueInv'
  BY <1>5 DEF QueueInv
<1>8. SeenInv'
  BY <1>6 DEF SeenInv
<1> QED BY <1>2, <1>7, <1>8

-----------------------------------------------------------------------------
LEMMA InitIInv == Init => IInv
<1> SUFFICES ASSUME Init PROVE IInv
  OBVIOUS
<1>1. Typed
  BY DEF Init, Typed, Tracks, Absent
<1>2. ClosedEntityLeft
  BY DEF Init, ClosedEntityLeft, Pairs
<1>3. OneActive /\ FollowedHasEntity /\ QueueInv /\ SeenInv
  BY DEF Init, OneActive, FollowedHasEntity, QueueInv, SeenInv
<1> QED BY <1>1, <1>2, <1>3 DEF IInv

LEMMA StepIInv == IInv /\ [Next]_vars => IInv'
<1> SUFFICES ASSUME IInv, [Next]_vars PROVE IInv'
  OBVIOUS
<1> USE DEF IInv
<1>1. CASE UNCHANGED vars
  BY <1>1 DEF vars, vision, spatial, Typed, ClosedEntityLeft, OneActive,
     FollowedHasEntity, Active, RowsOf, QueueInv, Begun, Ended, SeenInv, OpenIn
<1>2. CASE Tick
  <2>1. UNCHANGED <<seen, nextTrack, queue, run, entities, sessions, followed, orphans>>
    BY <1>2 DEF Tick, spatial
  <2>2. Typed'
    BY <1>2, <2>1 DEF Tick, Typed
  <2> QED BY <2>1, <2>2 DEF ClosedEntityLeft, OneActive, FollowedHasEntity,
          Active, RowsOf, QueueInv, Begun, Ended, SeenInv
<1>3. ASSUME NEW kind \in Kinds, NEW t \in Tracks, NEW at \in Int,
             Publish(kind, t, at), queue' \in Seq(EventType), QueueInv', SeenInv',
             seen' \in [Tracks -> Int], nextTrack' \in Nat \ {0}
      PROVE  IInv'
  <2>1. UNCHANGED <<clock, run, entities, sessions, followed, orphans>>
    BY <1>3 DEF Publish, spatial
  <2> QED BY <1>3, <2>1 DEF Typed, ClosedEntityLeft, OneActive,
          FollowedHasEntity, Active, RowsOf
<1>4. CASE ObjectEntered
  <2>1. /\ nextTrack \in Tracks /\ "entered" \in Kinds /\ clock \in Int
        /\ Publish("entered", nextTrack, clock)
        /\ seen' = [seen EXCEPT ![nextTrack] = clock] /\ nextTrack' = nextTrack + 1
    BY <1>4 DEF ObjectEntered, Kinds, Typed
  <2>2. /\ seen' \in [Tracks -> Int] /\ nextTrack' \in Nat \ {0} /\ nextTrack < nextTrack'
        /\ \A u \in Tracks : u # nextTrack => seen'[u] = seen[u]
    BY <2>1 DEF Typed
  <2>3. queue' \in Seq(EventType) /\ QueueInv' /\ SeenInv'
    BY <2>1, <2>2, QueuePublished DEF Typed
  <2> QED BY <1>3, <2>1, <2>2, <2>3
<1>5. ASSUME NEW t \in Tracks, ObjectUpdated(t) PROVE IInv'
  <2>1. /\ seen[t] # Absent /\ "updated" \in Kinds /\ clock \in Int
        /\ Publish("updated", t, clock) /\ nextTrack' = nextTrack
        /\ seen' = [seen EXCEPT ![t] = clock]
    BY <1>5 DEF ObjectUpdated, Kinds, Typed
  <2>2. /\ seen' \in [Tracks -> Int] /\ nextTrack' \in Nat \ {0}
        /\ nextTrack <= nextTrack' /\ t < nextTrack'
        /\ \A u \in Tracks : u # t => seen'[u] = seen[u]
    BY <2>1 DEF Typed, SeenInv
  <2>3. queue' \in Seq(EventType) /\ QueueInv' /\ SeenInv'
    BY <2>1, <2>2, QueuePublished
  <2> QED BY <1>3, <2>1, <2>2, <2>3
<1>6. ASSUME NEW t \in Tracks, ObjectExited(t) PROVE IInv'
  <2>1. /\ seen[t] # Absent /\ "exited" \in Kinds /\ seen[t] \in Int
        /\ Publish("exited", t, seen[t]) /\ nextTrack' = nextTrack
        /\ seen' = [seen EXCEPT ![t] = Absent]
    BY <1>6 DEF ObjectExited, Kinds, Typed
  <2>2. /\ seen' \in [Tracks -> Int] /\ nextTrack' \in Nat \ {0}
        /\ nextTrack <= nextTrack' /\ t < nextTrack' /\ seen'[t] = Absent
        /\ \A u \in Tracks : u # t => seen'[u] = seen[u]
    BY <2>1 DEF Typed, SeenInv, Absent
  <2>3. queue' \in Seq(EventType) /\ QueueInv' /\ SeenInv'
    BY <2>1, <2>2, QueuePublished
  <2> QED BY <1>3, <2>1, <2>2, <2>3
<1>7. CASE Restart
  <2>1. /\ run' = run + 1 /\ run < MaxRuns /\ nextTrack' = 1 /\ queue' = <<>>
        /\ seen' = [t \in Tracks |-> Absent] /\ followed' = {} /\ orphans' = {}
        /\ UNCHANGED <<clock, entities, sessions>>
    BY <1>7 DEF Restart, spatial
  <2>2. Typed'
    BY <2>1 DEF Typed, Absent
  <2>3. FollowedHasEntity' /\ QueueInv' /\ SeenInv'
    BY <2>1 DEF FollowedHasEntity, QueueInv, SeenInv
  <2> QED BY <2>1, <2>2, <2>3 DEF ClosedEntityLeft, OneActive
<1>8. ASSUME NEW event, Take(event) PROVE
         /\ event \in EventType /\ UNCHANGED <<run, clock, seen, nextTrack>>
         /\ queue' \in Seq(EventType)
  BY <1>8, HeadTaken
<1>9. ASSUME NEW event, RecordLate(event) PROVE IInv'
  <2>1. /\ Take(event) /\ Late(event) /\ UNCHANGED <<orphans, sessions, entities>>
        /\ followed' = IF event.kind = "exited" THEN followed \ {event.track}
                       ELSE followed \cup {event.track}
    BY <1>9 DEF RecordLate, Committed, spatial
  <2>2. /\ event \in EventType /\ UNCHANGED <<run, clock, seen, nextTrack>>
        /\ queue' \in Seq(EventType)
    BY <1>8, <2>1
  <2>3. event.kind # "entered" /\ event.track \in followed \cup orphans
        /\ Active(event.track) = {}
    BY <2>1, HeadTaken DEF Late
  <2>4. /\ entities' \in Seq(EntityType) /\ DOMAIN entities' = DOMAIN entities
        /\ \A i \in DOMAIN entities : entities'[i].track = entities[i].track
                                      /\ entities'[i].active = entities[i].active
    BY <2>1 DEF Typed
  <2>5. Typed'
    BY <2>1, <2>2, <2>4 DEF Typed, EventType
  <2>6. QueueInv' /\ SeenInv'
    <3>1. \A t \in followed \cup orphans :
             t \in followed' \cup orphans' \/ (event.kind = "exited" /\ t = event.track)
      BY <2>1
    <3> QED BY <2>1, <2>3, <3>1, QueueTaken
  <2>7. FollowedHasEntity'
    <3>1. event.track \notin followed \ orphans
      BY <2>3 DEF FollowedHasEntity
    <3>2. followed' \ orphans' \subseteq followed \ orphans
      BY <2>1, <2>3, <3>1
    <3>3. \A t \in Tracks : Active(t)' = Active(t)
      BY <2>4 DEF Active, RowsOf
    <3> QED BY <2>5, <3>2, <3>3 DEF FollowedHasEntity, Typed
  <2>8. OneActive' /\ ClosedEntityLeft'
    BY <2>1, <2>4 DEF OneActive, ClosedEntityLeft
  <2> QED BY <2>5, <2>6, <2>7, <2>8
<1>10. ASSUME NEW event, Committed(event), entities' = Written(event)
       PROVE  Typed' /\ OneActive' /\ FollowedHasEntity' /\ QueueInv' /\ SeenInv'
  <2>1. /\ Take(event) /\ UNCHANGED orphans
        /\ followed' = IF event.kind = "exited" THEN followed \ {event.track}
                       ELSE followed \cup {event.track}
    BY <1>10 DEF Committed
  <2>2. /\ event \in EventType /\ UNCHANGED <<run, clock, seen, nextTrack>>
        /\ queue' \in Seq(EventType)
    BY <1>8, <2>1
  <2>3. entities' \in Seq(EntityType)
    BY <1>10, <2>2, WrittenRow
  <2>4. Typed'
    BY <2>1, <2>2, <2>3 DEF Typed, EventType
  <2>5. /\ OneActive'
        /\ \A t \in Tracks : t # event.track => Active(t) \subseteq Active(t)'
        /\ event.kind # "exited" => Active(event.track)' # {}
    BY <1>10, <2>2, RowsKept
  <2>6. FollowedHasEntity'
    BY <2>1, <2>4, <2>5 DEF FollowedHasEntity, Typed
  <2>7. QueueInv' /\ SeenInv'
    <3>1. \A t \in followed \cup orphans :
             t \in followed' \cup orphans' \/ (event.kind = "exited" /\ t = event.track)
      BY <2>1
    <3>2. event.kind = "entered" => event.track \in followed' \cup orphans'
      BY <2>1
    <3> QED BY <2>1, <3>1, <3>2, QueueTaken
  <2> QED BY <2>4, <2>5, <2>6, <2>7
<1>11. ASSUME NEW event, NEW closed, NEW answers, Observe(event, closed, answers)
       PROVE  IInv'
  <2> DEFINE r == Row(event)
             mem == Without(membership, closed, Unknown)
             table == Without(sessions, closed, NoSession)
  <2>1. /\ Committed(event) /\ Take(event) /\ event.kind # "exited"
        /\ entities' = Written(event)
        /\ sessions' = SettledSessions(r, answers, event.at, mem, table)
    BY <1>11 DEF Observe, Committed
  <2>2. event \in EventType
    BY <1>8, <2>1
  <2> HIDE DEF r, mem
  <2>3. \A k \in Pairs : k[1] # r /\ sessions'[k] # NoSession => sessions[k] # NoSession
    BY <2>1 DEF SettledSessions, Without
  <2>4. /\ r \in DOMAIN entities' /\ entities'[r].active
        /\ DOMAIN entities \subseteq DOMAIN entities'
        /\ \A i \in DOMAIN entities' : i # r => entities'[i] = entities[i]
    <3>1. r = Row(event)
      BY DEF r
    <3> QED BY <2>1, <2>2, <3>1, WrittenRow
  <2>5. ClosedEntityLeft'
    BY <2>3, <2>4 DEF ClosedEntityLeft
  <2> QED BY <1>10, <2>1, <2>5
<1>12. ASSUME NEW event, NEW closed, CloseEntity(event, closed) PROVE IInv'
  <2> DEFINE r == Row(event)
  <2>1. /\ Committed(event) /\ Take(event)
        /\ entities' = Written(event)
        /\ sessions' = Without(sessions, closed \cup OpenOf(sessions, r), NoSession)
    BY <1>12 DEF CloseEntity, Committed
  <2>2. event \in EventType
    BY <1>8, <2>1
  <2> HIDE DEF r
  <2>3. \A k \in Pairs : sessions'[k] # NoSession => sessions[k] # NoSession /\ k[1] # r
    BY <2>1 DEF Without, OpenOf
  <2>4. /\ DOMAIN entities \subseteq DOMAIN entities'
        /\ \A i \in DOMAIN entities' : i # r => entities'[i] = entities[i]
    <3>1. r = Row(event)
      BY DEF r
    <3> QED BY <2>1, <2>2, <3>1, WrittenRow
  <2>5. ClosedEntityLeft'
    BY <2>3, <2>4 DEF ClosedEntityLeft
  <2> QED BY <1>10, <2>1, <2>5
<1>13. ASSUME NEW event, RollBack(event) PROVE IInv'
  <2>1. /\ Take(event) /\ UNCHANGED <<entities, sessions, followed>>
        /\ orphans' = IF event.kind = "entered" THEN orphans \cup {event.track}
                      ELSE orphans
    BY <1>13 DEF RollBack, spatial
  <2>2. /\ event \in EventType /\ UNCHANGED <<run, clock, seen, nextTrack>>
        /\ queue' \in Seq(EventType)
    BY <1>8, <2>1
  <2>3. Typed'
    BY <2>1, <2>2 DEF Typed, EventType
  <2>4. QueueInv' /\ SeenInv'
    <3>1. \A t \in followed \cup orphans : t \in followed' \cup orphans'
      BY <2>1
    <3>2. event.kind = "entered" => event.track \in followed' \cup orphans'
      BY <2>1
    <3> QED BY <2>1, <3>1, <3>2, QueueTaken
  <2>5. FollowedHasEntity' /\ OneActive' /\ ClosedEntityLeft'
    BY <2>1 DEF FollowedHasEntity, OneActive, ClosedEntityLeft, Active, RowsOf
  <2> QED BY <2>3, <2>4, <2>5
<1>14. CASE \E event \in Range(queue) : Worker(event)
  BY <1>9, <1>11, <1>12, <1>13, <1>14 DEF Worker
<1>15. ASSUME NEW closed, ReconcileElsewhere(closed) PROVE IInv'
  <2>1. /\ sessions' = Without(sessions, closed, NoSession)
        /\ UNCHANGED <<queue, run, clock, seen, nextTrack, entities, followed, orphans>>
    BY <1>15 DEF ReconcileElsewhere, vision
  <2>2. ClosedEntityLeft'
    BY <2>1 DEF ClosedEntityLeft, Without
  <2>3. Typed' /\ OneActive' /\ FollowedHasEntity'
    BY <2>1 DEF Typed, OneActive, FollowedHasEntity, Active, RowsOf
  <2>4. QueueInv' /\ SeenInv'
    BY <2>1 DEF QueueInv, Begun, Ended, SeenInv
  <2> QED BY <2>2, <2>3, <2>4
<1> QED BY <1>1, <1>2, <1>4, <1>5, <1>6, <1>7, <1>14, <1>15 DEF Next

LEMMA Invariance == Spec => []IInv
BY InitIInv, StepIInv, PTL DEF Spec

-----------------------------------------------------------------------------
\* A closed entity has left every zone.
THEOREM ClosedEntityLeftHolds == Spec => []ClosedEntityLeft
<1>1. IInv => ClosedEntityLeft
  BY DEF IInv
<1> QED BY <1>1, Invariance, PTL

\* An identity has one active entity at most, and a track with a committed
\* event has one until it exits, unless its entry was rolled back.
THEOREM ObjectHasEntityHolds == Spec => []ObjectHasEntity
<1>1. IInv => ObjectHasEntity
  <2> SUFFICES ASSUME IInv, NEW t \in Tracks
               PROVE  /\ Cardinality(Active(t)) <= 1
                      /\ t \in followed \ orphans => Active(t) # {}
    BY DEF ObjectHasEntity
  <2>1. CASE Active(t) = {}
    BY <2>1, FS_EmptySet DEF IInv, FollowedHasEntity
  <2>2. CASE Active(t) # {}
    <3>1. PICK i : i \in Active(t)
      BY <2>2
    <3>2. Active(t) = {i}
      BY <3>1 DEF Active, RowsOf, IInv, OneActive
    <3>3. Cardinality(Active(t)) = 1
      BY <3>2, FS_Singleton
    <3> QED BY <2>2, <3>3
  <2> QED BY <2>1, <2>2
<1> QED BY <1>1, Invariance, PTL
-----------------------------------------------------------------------------
(* One pair of an entity and a zone: m and s are what is remembered and in  *)
(* the table, str is the latest run of equal answers.                       *)

MemberType == [phase : Phases, enter : Nat, exit : Nat, session : Nat]
SessionType == [id : Nat, seen : Int]
StreakType == [last : {"inside", "outside"}, length : 0..MaxStreak]

Longer(str, answer) ==
    IF answer = "skipped" THEN str
    ELSE [last |-> answer,
          length |-> IF str.last # answer THEN 1
                     ELSE IF str.length = MaxStreak THEN MaxStreak
                     ELSE str.length + 1]

\* Every confirmation that was counted is an answer of the latest run.
Supported(m, str) ==
    /\ m.phase \in {"unknown", "outside"} => m.enter = 0
    /\ m.phase = "entering" =>
          str.last = "inside" /\ (str.length >= m.enter \/ str.length = MaxStreak)
    /\ m.phase = "inside" => m.exit = 0
    /\ m.phase = "leaving" =>
          str.last = "outside" /\ (str.length >= m.exit \/ str.length = MaxStreak)

AgreesOn(m, s) ==
    \/ m.phase = "unknown"
    \/ IF m.phase \in {"inside", "leaving"} THEN s.id = m.session
       ELSE s = NoSession

LEMMA StreakLength == MaxStreak \in Nat /\ EnterConfirm <= MaxStreak /\ ExitConfirm <= MaxStreak
BY ConfirmAssumption DEF MaxStreak

LEMMA LongerType ==
    ASSUME NEW str \in StreakType, NEW a \in Answers
    PROVE  /\ Longer(str, a) \in StreakType
           /\ a # "skipped" => Longer(str, a).last = a /\ Longer(str, a).length >= 1
<1>1. MaxStreak \in Nat /\ 1 <= MaxStreak /\ str.length \in 0..MaxStreak
  BY StreakLength, ConfirmAssumption DEF StreakType
<1> QED
  BY <1>1 DEF Longer, StreakType, Answers

\* One more answer is counted in memory and in the run of answers alike.
LEMMA CountedSupported ==
    ASSUME NEW m \in MemberType, NEW s \in SessionType, NEW str \in StreakType,
           NEW a \in Answers, Supported(m, str)
    PROVE  /\ Counted(m, s, a) \in MemberType
           /\ Supported(Counted(m, s, a), Longer(str, a))
<1> DEFINE rec == Recovered(m, s)
           c == Counted(m, s, a)
           now == Longer(str, a)
<1>1. /\ rec \in MemberType
      /\ rec.phase \in {"unknown", "outside"} => rec.enter = 0
      /\ rec.phase = "inside" => rec.exit = 0
      /\ rec.phase \in {"entering", "leaving"} => rec = m
  BY DEF Recovered, Inside, Member, MemberType, SessionType, Phases, Supported
<1>2. now \in StreakType
  BY LongerType
<1>3. CASE a = "skipped"
  BY <1>3 DEF Counted, Longer
<1>4. CASE a = "inside"
  <2>1. c = CountInside(rec) /\ now.last = "inside"
    BY <1>4, LongerType DEF Counted
  <2> SUFFICES c \in MemberType /\ Supported(c, now)
    OBVIOUS
  <2> HIDE DEF rec, c, now
  <2>2. CASE rec.phase \in {"inside", "leaving"}
    <3>1. c = [rec EXCEPT !.phase = "inside", !.exit = 0]
      BY <2>1, <2>2 DEF CountInside
    <3>2. c \in MemberType /\ c.phase = "inside" /\ c.exit = 0
      BY <1>1, <3>1 DEF MemberType, Phases
    <3> QED
      BY <3>2 DEF Supported
  <2>3. CASE rec.phase \notin {"inside", "leaving"}
    <3>1. c = [rec EXCEPT !.phase = "entering", !.enter = @ + 1, !.exit = 0]
      BY <2>1, <2>3 DEF CountInside
    <3>2. c \in MemberType /\ c.phase = "entering" /\ c.enter = rec.enter + 1
      <4>1. rec.enter + 1 \in Nat /\ rec.session \in Nat
        BY <1>1 DEF MemberType
      <4>2. c = [phase |-> "entering", enter |-> rec.enter + 1, exit |-> 0,
                 session |-> rec.session]
        BY <1>1, <3>1 DEF MemberType
      <4> QED
        BY <4>1, <4>2 DEF MemberType, Phases
    <3>3. rec.enter = 0 \/ (rec = m /\ rec.phase = "entering")
      BY <1>1, <2>3 DEF MemberType, Phases
    <3>4. now.length >= c.enter \/ now.length = MaxStreak
      <4>1. CASE rec.enter = 0
        BY <1>4, <3>2, <4>1, LongerType DEF now
      <4>2. CASE rec = m /\ rec.phase = "entering"
        <5>1. str.last = "inside" /\ (str.length >= m.enter \/ str.length = MaxStreak)
          BY <4>2 DEF Supported
        <5>2. now.length = IF str.length = MaxStreak THEN MaxStreak ELSE str.length + 1
          BY <1>4, <5>1 DEF Longer, now
        <5>3. m.enter \in Nat /\ str.length \in 0..MaxStreak
          BY DEF MemberType, StreakType
        <5> QED
          BY <3>2, <4>2, <5>1, <5>2, <5>3, StreakLength
      <4> QED
        BY <3>3, <4>1, <4>2
    <3> QED
      BY <2>1, <3>2, <3>4 DEF Supported
  <2> QED
    BY <2>2, <2>3
<1>5. CASE a = "outside"
  <2>1. c = CountOutside(rec) /\ now.last = "outside"
    BY <1>5, LongerType DEF Counted
  <2> SUFFICES c \in MemberType /\ Supported(c, now)
    OBVIOUS
  <2> HIDE DEF rec, c, now
  <2>2. CASE rec.phase = "unknown"
    <3>1. c = rec
      BY <2>1, <2>2 DEF CountOutside
    <3> QED
      BY <1>1, <2>2, <3>1 DEF Supported
  <2>3. CASE rec.phase \in {"outside", "entering"}
    <3>1. c = Outside
      BY <2>1, <2>3 DEF CountOutside
    <3> QED
      BY <3>1 DEF Supported, Outside, Member, MemberType, Phases
  <2>4. CASE rec.phase \in {"inside", "leaving"}
    <3>1. c = [rec EXCEPT !.phase = "leaving", !.exit = @ + 1, !.enter = 0]
      BY <2>1, <2>4 DEF CountOutside
    <3>2. c \in MemberType /\ c.phase = "leaving" /\ c.exit = rec.exit + 1
      <4>1. rec.exit + 1 \in Nat /\ rec.session \in Nat
        BY <1>1 DEF MemberType
      <4>2. c = [phase |-> "leaving", enter |-> 0, exit |-> rec.exit + 1,
                 session |-> rec.session]
        BY <1>1, <3>1 DEF MemberType
      <4> QED
        BY <4>1, <4>2 DEF MemberType, Phases
    <3>3. rec.exit = 0 \/ (rec = m /\ rec.phase = "leaving")
      BY <1>1, <2>4
    <3>4. now.length >= c.exit \/ now.length = MaxStreak
      <4>1. CASE rec.exit = 0
        BY <1>5, <3>2, <4>1, LongerType DEF now
      <4>2. CASE rec = m /\ rec.phase = "leaving"
        <5>1. str.last = "outside" /\ (str.length >= m.exit \/ str.length = MaxStreak)
          BY <4>2 DEF Supported
        <5>2. now.length = IF str.length = MaxStreak THEN MaxStreak ELSE str.length + 1
          BY <1>5, <5>1 DEF Longer, StreakType, now
        <5>3. m.exit \in Nat /\ str.length \in 0..MaxStreak
          BY DEF MemberType, StreakType
        <5> QED
          BY <3>2, <4>2, <5>1, <5>2, <5>3, StreakLength
      <4> QED
        BY <3>3, <4>1, <4>2
    <3> QED
      BY <2>1, <3>2, <3>4 DEF Supported
  <2> QED
    BY <1>1, <2>2, <2>3, <2>4 DEF MemberType, Phases
<1> QED
  BY <1>3, <1>4, <1>5 DEF Answers

\* The answer settles: a session is opened and closed only with enough equal
\* answers, and what is remembered keeps agreeing with the table.
LEMMA SettledPair ==
    ASSUME NEW m \in MemberType, NEW s \in SessionType, NEW str \in StreakType,
           NEW a \in Answers, NEW id \in Nat \ {0}, NEW now \in Int,
           Supported(m, str), s # NoSession => s.id # 0,
           NEW c, c = Counted(m, s, a),
           NEW mem, mem = SettledMember(c, s, a, id),
           NEW row, row = SettledSession(c, s, a, id, now),
           NEW longer, longer = Longer(str, a)
    PROVE  /\ mem \in MemberType /\ row \in SessionType /\ longer \in StreakType
           /\ Supported(mem, longer)
           /\ Opens(c, s, a) => /\ s = NoSession /\ row = Session(id, now)
                                /\ longer.last = "inside" /\ longer.length >= EnterConfirm
           /\ Closes(c, s, a) => /\ s # NoSession /\ row = NoSession
                                 /\ longer.last = "outside" /\ longer.length >= ExitConfirm
           /\ ~Opens(c, s, a) /\ ~Closes(c, s, a) =>
                 row.id = s.id /\ (row = NoSession <=> s = NoSession)
           /\ AgreesOn(m, s) => AgreesOn(mem, row)
<1>1. c \in MemberType /\ Supported(c, longer) /\ longer \in StreakType
  BY CountedSupported, LongerType
<1>2. mem \in MemberType /\ Supported(mem, longer)
  BY <1>1 DEF SettledMember, Inside, Outside, Member, MemberType, SessionType,
              Phases, Supported, NoSession
<1>3. row \in SessionType
  BY DEF SettledSession, Session, NoSession, SessionType
<1>4. ASSUME Opens(c, s, a)
      PROVE  /\ s = NoSession /\ row = Session(id, now)
             /\ longer.last = "inside" /\ longer.length >= EnterConfirm
  <2>1. a = "inside" /\ c.phase = "entering" /\ c.enter >= EnterConfirm /\ s = NoSession
    BY <1>4 DEF Opens, EnterConfirmed
  <2>2. row = Session(id, now)
    <3>1. ~Closes(c, s, a)
      BY <2>1 DEF Closes
    <3>2. ~Touches(c, s, a)
      BY <2>1 DEF Touches
    <3> QED
      BY <1>4, <3>1, <3>2, Zenon DEF SettledSession
  <2>3. longer.last = "inside" /\ (longer.length >= c.enter \/ longer.length = MaxStreak)
    BY <1>1, <2>1 DEF Supported
  <2>4. c.enter \in Nat /\ longer.length \in 0..MaxStreak
    BY <1>1 DEF MemberType, StreakType
  <2> QED
    BY <2>1, <2>2, <2>3, <2>4, StreakLength, ConfirmAssumption
<1>5. ASSUME Closes(c, s, a)
      PROVE  /\ s # NoSession /\ row = NoSession
             /\ longer.last = "outside" /\ longer.length >= ExitConfirm
  <2>1. a = "outside" /\ c.phase = "leaving" /\ c.exit >= ExitConfirm /\ s # NoSession
    BY <1>5 DEF Closes, ExitConfirmed
  <2>2. row = NoSession
    <3>1. ~Opens(c, s, a)
      BY <2>1 DEF Opens
    <3>2. ~Touches(c, s, a)
      BY <2>1 DEF Touches
    <3> QED
      BY <1>5, <3>1, <3>2, Zenon DEF SettledSession
  <2>3. longer.last = "outside" /\ (longer.length >= c.exit \/ longer.length = MaxStreak)
    BY <1>1, <2>1 DEF Supported
  <2>4. c.exit \in Nat /\ longer.length \in 0..MaxStreak
    BY <1>1 DEF MemberType, StreakType
  <2> QED
    BY <2>1, <2>2, <2>3, <2>4, StreakLength, ConfirmAssumption
<1>6. ASSUME ~Opens(c, s, a), ~Closes(c, s, a)
      PROVE  row.id = s.id /\ (row = NoSession <=> s = NoSession)
  <2>1. row = IF Touches(c, s, a) THEN Session(s.id, now) ELSE s
    BY <1>6 DEF SettledSession
  <2>2. Touches(c, s, a) => s # NoSession
    BY DEF Touches
  <2>3. Session(s.id, now).id = s.id
    BY DEF Session
  <2> QED
    BY <2>1, <2>2, <2>3 DEF NoSession
<1>7. ASSUME AgreesOn(m, s) PROVE AgreesOn(mem, row)
  <2>1. AgreesOn(Recovered(m, s), s) /\ Recovered(m, s) \in MemberType
    BY <1>7 DEF AgreesOn, Recovered, Inside, Member, MemberType, SessionType, Phases
  <2>2. Recovered(m, s).phase = "unknown" => s = NoSession
    BY DEF Recovered, Inside, Member
  <2>3. a # "skipped" => AgreesOn(c, s)
    <3> DEFINE rec == Recovered(m, s)
    <3>1. rec \in MemberType /\ AgreesOn(rec, s) /\ (rec.phase = "unknown" => s = NoSession)
      BY <2>1, <2>2
    <3>2. /\ a = "inside" => c = CountInside(rec)
          /\ a = "outside" => c = CountOutside(rec)
      BY DEF Counted
    <3> HIDE DEF rec
    <3>3. AgreesOn(CountInside(rec), s)
      BY <3>1 DEF CountInside, AgreesOn, MemberType, Phases
    <3>4. AgreesOn(CountOutside(rec), s)
      BY <3>1 DEF CountOutside, AgreesOn, Outside, Member, MemberType, Phases
    <3> QED
      BY <3>2, <3>3, <3>4 DEF Answers
  <2>4. CASE a = "skipped"
    BY <1>7, <2>4 DEF Counted, SettledMember, SettledSession, Opens, Closes, Touches
  <2>5. CASE a = "inside"
    <3>1. CASE EnterConfirmed(c)
      <4>1. mem = Inside(IF s = NoSession THEN id ELSE s.id)
        BY <2>5, <3>1 DEF SettledMember
      <4>2. row = IF s = NoSession THEN Session(id, now) ELSE Session(s.id, now)
        BY <2>5, <3>1 DEF SettledSession, Opens, Closes, Touches
      <4> QED
        BY <4>1, <4>2 DEF AgreesOn, Inside, Member, Session
    <3>2. CASE ~EnterConfirmed(c)
      <4>1. mem = c
        BY <2>5, <3>2 DEF SettledMember
      <4>2. row.id = s.id /\ (row = NoSession <=> s = NoSession)
        BY <1>6, <2>5, <3>2 DEF Opens, Closes
      <4> QED
        BY <2>3, <2>5, <4>1, <4>2 DEF AgreesOn
    <3> QED
      BY <3>1, <3>2
  <2>6. CASE a = "outside"
    <3>1. CASE ExitConfirmed(c)
      <4>1. mem = Outside
        BY <2>6, <3>1 DEF SettledMember
      <4>2. row = NoSession
        BY <2>6, <3>1 DEF SettledSession, Opens, Closes, Touches
      <4> QED
        BY <4>1, <4>2 DEF AgreesOn, Outside, Member
    <3>2. CASE ~ExitConfirmed(c)
      <4>1. mem = c
        BY <2>6, <3>2 DEF SettledMember
      <4>2. row.id = s.id /\ (row = NoSession <=> s = NoSession)
        BY <1>6, <2>6, <3>2 DEF Opens, Closes
      <4> QED
        BY <2>3, <2>6, <4>1, <4>2 DEF AgreesOn
    <3> QED
      BY <3>1, <3>2
  <2> QED
    BY <2>4, <2>5, <2>6 DEF Answers
<1> QED
  BY <1>1, <1>2, <1>3, <1>4, <1>5, <1>6, <1>7

-----------------------------------------------------------------------------
(* Every pair: rows of the table are of transactions so far, and what is    *)
(* counted in memory is supported by the answers.                           *)

SpatialTyped ==
    /\ serial \in Nat /\ faults \in Nat
    /\ membership \in [Pairs -> MemberType]
    /\ sessions \in [Pairs -> SessionType]
    /\ \A k \in Pairs : sessions[k] # NoSession => sessions[k].id \in 1..serial
    /\ streak \in [Pairs -> StreakType]

CountsInv == \A k \in Pairs : Supported(membership[k], streak[k])

SpatialInv == Typed /\ SpatialTyped /\ CountsInv

LEMMA PairType ==
    ASSUME NEW k \in Pairs, NEW answers \in [Zones -> Answers]
    PROVE  k = <<k[1], k[2]>> /\ k[1] \in Rows /\ k[2] \in Zones /\ answers[k[2]] \in Answers
BY DEF Pairs

\* Stale sessions are closed before the answers are heard.
LEMMA RestPair ==
    ASSUME SpatialInv, NEW closed, NEW k \in Pairs,
           NEW m, m = Without(membership, closed, Unknown)[k],
           NEW s, s = Without(sessions, closed, NoSession)[k]
    PROVE  /\ m \in MemberType /\ s \in SessionType
           /\ s # NoSession => s.id \in 1..serial
           /\ Supported(m, streak[k]) /\ streak[k] \in StreakType
           /\ k \in closed => m = Unknown /\ s = NoSession
           /\ k \notin closed => m = membership[k] /\ s = sessions[k]
<1>1. CASE k \in closed
  <2>1. m = Unknown /\ s = NoSession
    BY <1>1 DEF Without
  <2> QED
    BY <1>1, <2>1 DEF SpatialInv, SpatialTyped, Supported, Unknown, Member,
                     NoSession, MemberType, SessionType, Phases
<1>2. CASE k \notin closed
  <2>1. m = membership[k] /\ s = sessions[k]
    BY <1>2 DEF Without
  <2> QED
    BY <1>2, <2>1 DEF SpatialInv, SpatialTyped, CountsInv
<1> QED
  BY <1>1, <1>2

\* However far the zones of an observation came, what is remembered of every
\* pair is supported by the answers that were heard.
LEMMA UpToSupported ==
    ASSUME SpatialInv, NEW closed, NEW answers \in [Zones -> Answers], NEW r,
           NEW zone \in Nat, NEW k \in Pairs,
           NEW mem, mem = Without(membership, closed, Unknown),
           NEW table, table = Without(sessions, closed, NoSession)
    PROVE  /\ MemberUpTo(zone, r, answers, mem, table)[k] \in MemberType
           /\ Streaks(r, zone, answers)[k] \in StreakType
           /\ Supported(MemberUpTo(zone, r, answers, mem, table)[k],
                        Streaks(r, zone, answers)[k])
<1> DEFINE a == answers[k[2]]
           counted == Counted(mem[k], table[k], a)
           after == MemberUpTo(zone, r, answers, mem, table)[k]
           heard == Streaks(r, zone, answers)[k]
<1>1. /\ mem[k] \in MemberType /\ table[k] \in SessionType
      /\ table[k] # NoSession => table[k].id \in 1..serial
      /\ Supported(mem[k], streak[k]) /\ streak[k] \in StreakType
  BY RestPair
<1>2. k = <<k[1], k[2]>> /\ k[2] \in Nat /\ a \in Answers /\ serial \in Nat
  BY PairType DEF SpatialInv, SpatialTyped, Zones
<1>3. heard = IF k[1] # r \/ k[2] > zone THEN streak[k] ELSE Longer(streak[k], a)
  BY DEF Streaks, Longer
<1>4. after = IF k[1] = r /\ k[2] < zone
              THEN SettledMember(counted, table[k], a, serial + 1)
              ELSE IF k = <<r, zone>> THEN counted ELSE mem[k]
  BY DEF MemberUpTo
<1>5. counted \in MemberType /\ Supported(counted, Longer(streak[k], a))
      /\ Longer(streak[k], a) \in StreakType
  BY <1>1, <1>2, CountedSupported, LongerType
<1>6. LET settled == SettledMember(counted, table[k], a, serial + 1)
      IN  settled \in MemberType /\ Supported(settled, Longer(streak[k], a))
  <2>1. serial + 1 \in Nat \ {0} /\ (table[k] # NoSession => table[k].id # 0)
    BY <1>1, <1>2
  <2> QED
    BY <1>1, <1>2, <2>1, SettledPair
<1> SUFFICES after \in MemberType /\ heard \in StreakType /\ Supported(after, heard)
  OBVIOUS
<1> HIDE DEF after, heard, counted, a
<1>7. CASE k[1] = r /\ k[2] < zone
  BY <1>2, <1>3, <1>4, <1>5, <1>6, <1>7
<1>8. CASE k[1] = r /\ k[2] = zone
  BY <1>2, <1>3, <1>4, <1>5, <1>8
<1>9. CASE k[1] # r \/ k[2] > zone
  <2>1. k # <<r, zone>>
    BY <1>2, <1>9
  <2> QED
    BY <1>1, <1>2, <1>3, <1>4, <1>9, <2>1
<1> QED
  BY <1>2, <1>7, <1>8, <1>9

\* What an observation does to one pair, whose session was closed first if it
\* was among the stale ones.
LEMMA ObservedPair ==
    ASSUME SpatialInv, NEW event \in EventType, NEW closed, NEW answers \in [Zones -> Answers],
           Observe(event, closed, answers), NEW k \in Pairs,
           NEW r, r = Row(event),
           NEW m, m = Without(membership, closed, Unknown)[k],
           NEW s, s = Without(sessions, closed, NoSession)[k],
           NEW a, a = answers[k[2]], NEW c, c = Counted(m, s, a)
    PROVE  /\ k \in AnsweredOpening(r, answers, Without(membership, closed, Unknown),
                                    Without(sessions, closed, NoSession))
                 <=> k[1] = r /\ Opens(c, s, a)
           /\ k \in AnsweredClosing(r, answers, Without(membership, closed, Unknown),
                                    Without(sessions, closed, NoSession))
                 <=> k[1] = r /\ Closes(c, s, a)
           /\ k[1] # r => membership'[k] = m /\ sessions'[k] = s /\ streak'[k] = streak[k]
           /\ k[1] = r => /\ membership'[k] = SettledMember(c, s, a, serial + 1)
                          /\ sessions'[k] = SettledSession(c, s, a, serial + 1, event.at)
                          /\ streak'[k] = Longer(streak[k], a)
<1> DEFINE mem == Without(membership, closed, Unknown)
           table == Without(sessions, closed, NoSession)
<1>1. /\ membership' = MemberUpTo(NumZones + 1, r, answers, mem, table)
      /\ sessions' = SettledSessions(r, answers, event.at, mem, table)
      /\ streak' = Streaks(r, NumZones, answers)
  BY DEF Observe
<1>2. m = mem[k] /\ s = table[k]
  OBVIOUS
<1>3. k = <<k[1], k[2]>> /\ k[2] \in 1..NumZones /\ NumZones \in Nat
  BY PairType DEF Zones
<1> HIDE DEF mem, table
<1>4. Counts(r, answers, mem, table)[k] = IF k[1] = r THEN c ELSE m
  BY <1>2 DEF Counts
<1>5. /\ k \in AnsweredOpening(r, answers, mem, table) <=> k[1] = r /\ Opens(c, s, a)
      /\ k \in AnsweredClosing(r, answers, mem, table) <=> k[1] = r /\ Closes(c, s, a)
  BY <1>2, <1>4 DEF AnsweredOpening, AnsweredClosing
<1>6. sessions'[k] = IF k[1] # r THEN s ELSE SettledSession(c, s, a, serial + 1, event.at)
  BY <1>1, <1>2, <1>4 DEF SettledSessions
<1>7. membership'[k] = IF k[1] = r THEN SettledMember(c, s, a, serial + 1) ELSE m
  <2>1. k[2] < NumZones + 1 /\ k # <<r, NumZones + 1>>
    BY <1>3
  <2> QED
    BY <1>1, <1>2, <2>1 DEF MemberUpTo
<1>8. streak'[k] = IF k[1] # r THEN streak[k] ELSE Longer(streak[k], a)
  BY <1>1, <1>3 DEF Streaks, Longer
<1> QED
  BY <1>5, <1>6, <1>7, <1>8 DEF mem, table

\* The same in terms of what may go wrong with the pair.
LEMMA ObservedOutcome ==
    ASSUME SpatialInv, NEW event \in EventType, NEW closed, NEW answers \in [Zones -> Answers],
           Observe(event, closed, answers), NEW k \in Pairs,
           NEW entered, NEW left,
           entered = AnsweredOpening(Row(event), answers, Without(membership, closed, Unknown),
                                     Without(sessions, closed, NoSession)),
           left = AnsweredClosing(Row(event), answers, Without(membership, closed, Unknown),
                                  Without(sessions, closed, NoSession)),
           NEW s, s = Without(sessions, closed, NoSession)[k]
    PROVE  /\ sessions'[k] \in SessionType
           /\ sessions'[k] # NoSession => sessions'[k].id \in 1..(serial + 1)
           /\ k \in entered =>
                 /\ s = NoSession /\ sessions'[k] # NoSession
                 /\ streak'[k].last = "inside" /\ streak'[k].length >= EnterConfirm
           /\ k \in left =>
                 /\ s # NoSession /\ sessions'[k] = NoSession
                 /\ streak'[k].last = "outside" /\ streak'[k].length >= ExitConfirm
           /\ k \notin entered /\ k \notin left =>
                 sessions'[k].id = s.id /\ (sessions'[k] = NoSession <=> s = NoSession)
           /\ Agrees(k) => Agrees(k)'
<1> DEFINE r == Row(event)
           m == Without(membership, closed, Unknown)[k]
           a == answers[k[2]]
           c == Counted(m, s, a)
           mem == SettledMember(c, s, a, serial + 1)
           row == SettledSession(c, s, a, serial + 1, event.at)
           longer == Longer(streak[k], a)
<1>1. /\ k \in entered <=> k[1] = r /\ Opens(c, s, a)
      /\ k \in left <=> k[1] = r /\ Closes(c, s, a)
      /\ k[1] # r => membership'[k] = m /\ sessions'[k] = s /\ streak'[k] = streak[k]
      /\ k[1] = r => membership'[k] = mem /\ sessions'[k] = row /\ streak'[k] = longer
  BY ObservedPair
<1>2. /\ m \in MemberType /\ s \in SessionType
      /\ s # NoSession => s.id \in 1..serial
      /\ Supported(m, streak[k]) /\ streak[k] \in StreakType
      /\ k \in closed => m = Unknown /\ s = NoSession
      /\ k \notin closed => m = membership[k] /\ s = sessions[k]
  BY RestPair
<1>3. a \in Answers /\ event.at \in Int /\ serial \in Nat /\ serial + 1 \in Nat \ {0}
      /\ (s # NoSession => s.id # 0)
  BY <1>2, PairType DEF SpatialInv, SpatialTyped, EventType
<1>4. Agrees(k) => AgreesOn(m, s)
  <2>1. CASE k \in closed
    BY <1>2, <2>1 DEF AgreesOn, Unknown, Member
  <2>2. CASE k \notin closed
    BY <1>2, <2>2 DEF AgreesOn, Agrees
  <2> QED
    BY <2>1, <2>2
<1>5. Agrees(k)' <=> AgreesOn(membership'[k], sessions'[k])
  BY DEF Agrees, AgreesOn
<1> HIDE DEF m, a
<1>6. /\ row \in SessionType
      /\ Opens(c, s, a) => /\ s = NoSession /\ row = Session(serial + 1, event.at)
                           /\ longer.last = "inside" /\ longer.length >= EnterConfirm
      /\ Closes(c, s, a) => /\ s # NoSession /\ row = NoSession
                            /\ longer.last = "outside" /\ longer.length >= ExitConfirm
      /\ ~Opens(c, s, a) /\ ~Closes(c, s, a) =>
            row.id = s.id /\ (row = NoSession <=> s = NoSession)
      /\ AgreesOn(m, s) => AgreesOn(mem, row)
  BY <1>2, <1>3, SettledPair
<1>7. Session(serial + 1, event.at) # NoSession
      /\ Session(serial + 1, event.at).id = serial + 1 /\ NoSession.id = 0
  BY <1>3 DEF Session, NoSession
<1> HIDE DEF c, mem, row, longer, r
<1>8. CASE k[1] # r
  BY <1>1, <1>2, <1>3, <1>4, <1>5, <1>8
<1>9. CASE k[1] = r
  <2>1. row # NoSession => row.id \in 1..(serial + 1)
    <3>1. CASE Opens(c, s, a)
      BY <1>3, <1>6, <1>7, <3>1
    <3>2. CASE Closes(c, s, a)
      BY <1>6, <3>2
    <3>3. CASE ~Opens(c, s, a) /\ ~Closes(c, s, a)
      BY <1>2, <1>3, <1>6, <3>3
    <3> QED
      BY <3>1, <3>2, <3>3
  <2> QED
    BY <1>1, <1>4, <1>5, <1>6, <1>7, <1>9, <2>1
<1> QED
  BY <1>8, <1>9

LEMMA SpatialInit == Init => SpatialTyped /\ CountsInv
<1>1. Unknown \in MemberType /\ NoSession \in SessionType /\ NoStreak \in StreakType
      /\ Supported(Unknown, NoStreak)
  BY StreakLength DEF Unknown, Member, MemberType, Phases, NoSession, SessionType,
                      NoStreak, StreakType, Supported
<1> QED
  BY <1>1 DEF Init, SpatialTyped, CountsInv

\* The part of a worker's step that is about memory, failed or not: pairs are
\* either left alone, forgotten or counted with what they hear.
LEMMA SpatialStep == IInv /\ SpatialInv /\ [Next]_vars => SpatialTyped' /\ CountsInv'
<1> SUFFICES ASSUME IInv, SpatialInv, [Next]_vars PROVE SpatialTyped' /\ CountsInv'
  OBVIOUS
<1> USE DEF SpatialInv
<1>1. CASE UNCHANGED <<serial, faults, membership, sessions, streak>>
  BY <1>1 DEF SpatialTyped, CountsInv
<1>2. Unknown \in MemberType /\ Outside \in MemberType /\ NoSession \in SessionType
      /\ \A str : Supported(Unknown, str) /\ Supported(Outside, str)
  BY DEF Unknown, Outside, Member, MemberType, Phases, NoSession, SessionType, Supported
<1>3. ASSUME NEW event, Take(event)
      PROVE  event \in EventType /\ serial' = serial + 1
             /\ \A n \in 1..serial : n \in 1..(serial + 1)
  BY <1>3, HeadTaken DEF Take, IInv, SpatialTyped
<1>4. CASE Restart
  <2>1. UNCHANGED <<serial, faults, sessions, streak>>
        /\ membership' = [k \in Pairs |-> Unknown]
    BY <1>4 DEF Restart, spatial
  <2> QED
    BY <1>2, <2>1 DEF SpatialTyped, CountsInv
<1>5. ASSUME NEW event, RecordLate(event) PROVE SpatialTyped' /\ CountsInv'
  <2>1. Take(event) /\ UNCHANGED <<faults, membership, sessions, streak>>
    BY <1>5 DEF RecordLate, Committed, spatial
  <2> QED
    BY <1>3, <2>1 DEF SpatialTyped, CountsInv
<1>6. ASSUME NEW event, NEW closed, NEW answers \in [Zones -> Answers],
             Observe(event, closed, answers)
      PROVE  SpatialTyped' /\ CountsInv'
  <2> DEFINE mem == Without(membership, closed, Unknown)
             table == Without(sessions, closed, NoSession)
             r == Row(event)
  <2>1. Take(event) /\ faults' = faults
    BY <1>6 DEF Observe, Committed
  <2>2. event \in EventType /\ serial' = serial + 1
    BY <1>3, <2>1
  <2>3. /\ membership' = MemberUpTo(NumZones + 1, r, answers, mem, table)
        /\ sessions' = SettledSessions(r, answers, event.at, mem, table)
        /\ streak' = Streaks(r, NumZones, answers)
    BY <1>6 DEF Observe
  <2>4. Streaks(r, NumZones, answers) = Streaks(r, NumZones + 1, answers)
    <3>1. \A k \in Pairs : ~(k[2] > NumZones) /\ ~(k[2] > NumZones + 1)
      BY PairType DEF Pairs, Zones
    <3> QED
      BY <3>1 DEF Streaks
  <2>5. ASSUME NEW k \in Pairs
        PROVE  /\ membership'[k] \in MemberType /\ streak'[k] \in StreakType
               /\ Supported(membership'[k], streak'[k])
    BY <2>3, <2>4, UpToSupported
  <2>6. ASSUME NEW k \in Pairs
        PROVE  /\ sessions'[k] \in SessionType
               /\ sessions'[k] # NoSession => sessions'[k].id \in 1..(serial + 1)
    BY <1>6, <2>2, ObservedOutcome
  <2>7. /\ membership' = [k \in Pairs |-> membership'[k]]
        /\ sessions' = [k \in Pairs |-> sessions'[k]]
        /\ streak' = [k \in Pairs |-> streak'[k]]
    BY <2>3 DEF MemberUpTo, SettledSessions, Streaks
  <2> HIDE DEF mem, table, r
  <2>8. /\ membership' \in [Pairs -> MemberType]
        /\ sessions' \in [Pairs -> SessionType]
        /\ streak' \in [Pairs -> StreakType]
    BY <2>5, <2>6, <2>7
  <2> QED
    BY <2>1, <2>2, <2>5, <2>6, <2>8 DEF SpatialTyped, CountsInv
<1>7. ASSUME NEW event, NEW closed, CloseEntity(event, closed)
      PROVE  SpatialTyped' /\ CountsInv'
  <2>1. PICK here, gone :
           /\ Take(event) /\ UNCHANGED <<faults, streak>>
           /\ membership' = Without(membership, here, Unknown)
           /\ sessions' = Without(sessions, gone, NoSession)
    BY <1>7 DEF CloseEntity, Committed
  <2> QED
    BY <1>2, <1>3, <2>1 DEF SpatialTyped, CountsInv, Without
<1>8. ASSUME NEW event, RollBack(event) PROVE SpatialTyped' /\ CountsInv'
  <2>1. Take(event) /\ faults' = faults + 1 /\ LeftInMemory(event) /\ sessions' = sessions
    BY <1>8 DEF RollBack, spatial
  <2>2. ASSUME /\ membership' \in [Pairs -> MemberType]
               /\ streak' \in [Pairs -> StreakType]
               /\ \A k \in Pairs : Supported(membership'[k], streak'[k])
        PROVE  SpatialTyped' /\ CountsInv'
    BY <1>3, <2>1, <2>2 DEF SpatialTyped, CountsInv
  <2>3. ASSUME NEW closed, membership' = Without(membership, closed, Unknown),
               UNCHANGED streak
        PROVE  SpatialTyped' /\ CountsInv'
    BY <1>2, <2>2, <2>3 DEF SpatialTyped, CountsInv, Without
  <2>4. ASSUME NEW closed, NEW answers \in [Zones -> Answers], NEW zone \in Nat, NEW r,
               membership' = Forget(r, MemberUpTo(zone, r, answers,
                                Without(membership, closed, Unknown),
                                Without(sessions, closed, NoSession))),
               streak' = IF r \in DOMAIN entities THEN Streaks(r, zone, answers)
                         ELSE streak
        PROVE  SpatialTyped' /\ CountsInv'
    <3> DEFINE mem == MemberUpTo(zone, r, answers,
                                Without(membership, closed, Unknown),
                                Without(sessions, closed, NoSession))
               heard == Streaks(r, zone, answers)
    <3>1. \A k \in Pairs : /\ mem[k] \in MemberType /\ heard[k] \in StreakType
                           /\ Supported(mem[k], heard[k])
      BY UpToSupported
    <3>2. \A k \in Pairs : k[1] # r => heard[k] = streak[k]
      BY DEF Streaks
    <3>3. membership' = Forget(r, mem)
          /\ streak' = IF r \in DOMAIN entities THEN heard ELSE streak
      BY <2>4, Zenon
    <3>6. heard = [k \in Pairs |-> heard[k]]
      BY DEF Streaks
    <3> HIDE DEF mem, heard
    <3>4. CASE r \in DOMAIN entities
      <4>1. membership' = [k \in Pairs |-> mem[k]] /\ streak' = heard
        BY <3>3, <3>4 DEF Forget
      <4> QED
        BY <2>2, <3>1, <3>6, <4>1
    <3>5. CASE r \notin DOMAIN entities
      <4>1. membership' = [k \in Pairs |-> IF k[1] = r THEN membership[k] ELSE mem[k]]
            /\ streak' = streak
        BY <3>3, <3>5 DEF Forget
      <4>2. ASSUME NEW k \in Pairs
            PROVE  membership'[k] \in MemberType /\ Supported(membership'[k], streak'[k])
        BY <3>1, <3>2, <4>1 DEF SpatialTyped, CountsInv
      <4> QED
        BY <2>2, <4>1, <4>2 DEF SpatialTyped
    <3> QED
      BY <3>4, <3>5
  <2>5. ASSUME NEW closed, NEW pairs, NEW none \in {Unknown, Outside},
               membership' = Without(Without(membership, closed, Unknown), pairs, none),
               UNCHANGED streak
        PROVE  SpatialTyped' /\ CountsInv'
    BY <1>2, <2>2, <2>5 DEF SpatialTyped, CountsInv, Without
  <2>6. 1..(NumZones + 1) \subseteq Nat
    OBVIOUS
  <2>7. CASE UNCHANGED <<membership, streak>>
    BY <2>2, <2>7 DEF SpatialTyped, CountsInv
  <2> QED
    BY <2>1, <2>3, <2>4, <2>5, <2>6, <2>7 DEF LeftInMemory
<1>9. CASE Tick \/ ObjectEntered
  BY <1>1, <1>9 DEF Tick, ObjectEntered, Publish, spatial
<1>10. ASSUME NEW t \in Tracks, ObjectUpdated(t) \/ ObjectExited(t)
       PROVE  SpatialTyped' /\ CountsInv'
  BY <1>1, <1>10 DEF ObjectUpdated, ObjectExited, Publish, spatial
<1>11. CASE UNCHANGED vars
  BY <1>1, <1>11 DEF vars, spatial
<1>12. ASSUME NEW event, Worker(event) PROVE SpatialTyped' /\ CountsInv'
  BY <1>5, <1>6, <1>7, <1>8, <1>12 DEF Worker
<1>13. ASSUME NEW closed, ReconcileElsewhere(closed) PROVE SpatialTyped' /\ CountsInv'
  <2>1. /\ sessions' = Without(sessions, closed, NoSession)
        /\ UNCHANGED <<serial, faults, membership, streak>>
    BY <1>13 DEF ReconcileElsewhere
  <2> QED
    BY <1>2, <2>1 DEF SpatialTyped, CountsInv, Without
<1> QED
  BY <1>4, <1>9, <1>10, <1>11, <1>12, <1>13 DEF Next

LEMMA SpatialInvariance == Spec => [](IInv /\ SpatialInv)
<1>1. Init => IInv /\ SpatialInv
  BY InitIInv, SpatialInit DEF SpatialInv, IInv
<1>2. IInv /\ SpatialInv /\ [Next]_vars => (IInv /\ SpatialInv)'
  BY StepIInv, SpatialStep DEF SpatialInv, IInv
<1> QED
  BY <1>1, <1>2, PTL DEF Spec

-----------------------------------------------------------------------------
(* Events and sessions.                                                     *)

LEMMA PairsFinite == IsFiniteSet(Pairs)
<1>1. MaxTracks * MaxRuns \in Int
  OBVIOUS
<1>2. IsFiniteSet(Rows) /\ IsFiniteSet(Zones)
  BY <1>1, FS_Interval DEF Rows, Zones
<1> QED
  BY <1>2, FS_Product DEF Pairs

\* Events tell the truth if an exit is announced only of a pair that was in,
\* and an enter only of one that was out or has just exited.
LEMMA Announced ==
    ASSUME EventsMatchSessions, NEW entered \in SUBSET Pairs, NEW left \in SUBSET Pairs,
           Announce(entered, left),
           \A k \in left : sessions[k] # NoSession,
           \A k \in entered : sessions[k] = NoSession \/ k \in left,
           \A k \in Pairs : sessions'[k] # NoSession <=>
               k \in entered \/ (sessions[k] # NoSession /\ k \notin left)
    PROVE  EventsMatchSessions'
<1>1. ASSUME NEW k \in Pairs
      PROVE  balance'[k] = IF sessions'[k] = NoSession THEN 0 ELSE 1
  <2>1. balance'[k] = balance[k] + (IF k \in entered THEN 1 ELSE 0)
                                 - (IF k \in left THEN 1 ELSE 0)
    BY DEF Announce
  <2>2. balance[k] = IF sessions[k] = NoSession THEN 0 ELSE 1
    BY DEF EventsMatchSessions
  <2> QED
    BY <2>1, <2>2
<1>2. ASSUME NEW z \in Zones
      PROVE  reported'[z] = Cardinality(OpenIn(sessions', z))
  <2> DEFINE open == OpenIn(sessions, z)
             in == {k \in entered : k[2] = z}
             out == {k \in left : k[2] = z}
  <2>1. OpenIn(sessions', z) = (open \ out) \cup in
    BY DEF OpenIn
  <2>2. out \subseteq open /\ (open \ out) \cap in = {}
    BY DEF OpenIn
  <2>3. open \subseteq Pairs /\ in \subseteq Pairs /\ out \subseteq Pairs
    BY DEF OpenIn
  <2>4. reported[z] = Cardinality(open)
    BY DEF EventsMatchSessions
  <2>5. reported'[z] = IF \E k \in entered \cup left : k[2] = z
                       THEN OccupancyAfter(sessions, z, entered, left) ELSE reported[z]
    BY DEF Announce
  <2>6. OccupancyAfter(sessions, z, entered, left) =
           LET count == Cardinality(open) + Cardinality(in)
           IN  IF Cardinality(out) > count THEN 0 ELSE count - Cardinality(out)
    BY DEF OccupancyAfter
  <2>7. (\E k \in entered \cup left : k[2] = z) <=> in # {} \/ out # {}
    OBVIOUS
  <2> HIDE DEF open, in, out
  <2>8. IsFiniteSet(open) /\ IsFiniteSet(in) /\ IsFiniteSet(out)
    BY <2>3, PairsFinite, FS_Subset
  <2>9. /\ IsFiniteSet(open \ out)
        /\ Cardinality(open \ out) = Cardinality(open) - Cardinality(out)
    <3>1. open \cap out = out
      BY <2>2
    <3> QED
      BY <2>8, <3>1, FS_Difference
  <2>10. Cardinality((open \ out) \cup in) = Cardinality(open \ out) + Cardinality(in)
    <3>1. /\ Cardinality((open \ out) \cup in) =
               Cardinality(open \ out) + Cardinality(in) - Cardinality({})
          /\ Cardinality(open \ out) \in Nat /\ Cardinality(in) \in Nat
      BY <2>2, <2>8, <2>9, FS_Union, FS_CardinalityType
    <3> QED
      BY <3>1, FS_EmptySet
  <2>11. /\ Cardinality(open) \in Nat /\ Cardinality(in) \in Nat /\ Cardinality(out) \in Nat
         /\ Cardinality(out) <= Cardinality(open)
    BY <2>2, <2>8, FS_CardinalityType, FS_Subset
  <2>12. CASE in = {} /\ out = {}
    BY <2>1, <2>4, <2>5, <2>7, <2>12
  <2>13. CASE in # {} \/ out # {}
    <3>1. reported'[z] = Cardinality(open) + Cardinality(in) - Cardinality(out)
      BY <2>5, <2>6, <2>7, <2>11, <2>13
    <3> QED
      BY <2>1, <2>9, <2>10, <2>11, <3>1
  <2> QED
    BY <2>12, <2>13
<1> QED
  BY <1>1, <1>2 DEF EventsMatchSessions, OpenIn

\* Enter and exit events of an entity alternate, the last one says whether a
\* session is open, and the last occupancy of a zone counts its sessions:
\* through stale sessions closed on the way and transactions rolled back.
THEOREM EventsMatchSessionsHold == Spec => []EventsMatchSessions
<1>1. Init => EventsMatchSessions
  <2> SUFFICES ASSUME Init PROVE EventsMatchSessions
    OBVIOUS
  <2>1. ASSUME NEW z \in Zones PROVE OpenIn(sessions, z) = {}
    BY DEF Init, OpenIn
  <2> QED
    BY <2>1, FS_EmptySet DEF Init, EventsMatchSessions
<1>2. EventsMatchSessions /\ IInv /\ SpatialInv /\ [Next]_vars => EventsMatchSessions'
  <2> SUFFICES ASSUME EventsMatchSessions, IInv, SpatialInv, [Next]_vars
               PROVE  EventsMatchSessions'
    OBVIOUS
  <2>1. CASE UNCHANGED spatial
    BY <2>1 DEF spatial, EventsMatchSessions, OpenIn
  <2>2. ASSUME NEW event, NEW closed \in SUBSET Stale(event.at),
               NEW answers \in [Zones -> Answers], Observe(event, closed, answers)
        PROVE  EventsMatchSessions'
    <3> DEFINE mem == Without(membership, closed, Unknown)
               table == Without(sessions, closed, NoSession)
               entered == AnsweredOpening(Row(event), answers, mem, table)
               leaving == AnsweredClosing(Row(event), answers, mem, table)
    <3>1. event \in EventType
      BY <2>2, HeadTaken DEF Observe, Committed, IInv
    <3>2. Announce(entered, closed \cup leaving)
      BY <2>2 DEF Observe
    <3>3. closed \subseteq Pairs /\ \A k \in closed : sessions[k] # NoSession
      BY DEF Stale, IsStale
    <3>4. entered \subseteq Pairs /\ leaving \subseteq Pairs
      BY DEF AnsweredOpening, AnsweredClosing
    <3>5. ASSUME NEW k \in Pairs
          PROVE  /\ k \in entered => table[k] = NoSession /\ sessions'[k] # NoSession
                 /\ k \in leaving => table[k] # NoSession /\ sessions'[k] = NoSession
                 /\ k \notin entered /\ k \notin leaving =>
                       (sessions'[k] = NoSession <=> table[k] = NoSession)
                 /\ k \in closed => table[k] = NoSession
                 /\ k \notin closed => table[k] = sessions[k]
      BY <2>2, <3>1, ObservedOutcome, RestPair
    <3> HIDE DEF mem, table, entered, leaving
    <3>6. \A k \in closed \cup leaving : sessions[k] # NoSession
      BY <3>3, <3>4, <3>5
    <3>7. \A k \in entered : sessions[k] = NoSession \/ k \in closed \cup leaving
      BY <3>4, <3>5
    <3>8. \A k \in Pairs : sessions'[k] # NoSession <=>
              k \in entered \/ (sessions[k] # NoSession /\ k \notin closed \cup leaving)
      BY <3>3, <3>5
    <3> QED
      BY <3>2, <3>3, <3>4, <3>6, <3>7, <3>8, Announced
  <2>3. ASSUME NEW event, NEW closed \in SUBSET Stale(event.at), CloseEntity(event, closed)
        PROVE  EventsMatchSessions'
    <3> DEFINE left == closed \cup OpenOf(sessions, Row(event))
    <3>1. Announce({}, left) /\ sessions' = Without(sessions, left, NoSession)
      BY <2>3 DEF CloseEntity
    <3>2. left \subseteq Pairs /\ \A k \in left : sessions[k] # NoSession
      BY DEF Stale, IsStale, OpenOf
    <3> HIDE DEF left
    <3>3. \A k \in Pairs : sessions'[k] # NoSession <=> sessions[k] # NoSession /\ k \notin left
      BY <3>1 DEF Without
    <3> QED
      BY <3>1, <3>2, <3>3, Announced
  <2>4. ASSUME NEW event, Worker(event) PROVE EventsMatchSessions'
    BY <2>1, <2>2, <2>3, <2>4 DEF Worker, RecordLate, RollBack
  <2>5. CASE Tick \/ ObjectEntered \/ Restart
    BY <2>1, <2>5 DEF Tick, ObjectEntered, Publish, Restart
  <2>6. ASSUME NEW t \in Tracks, ObjectUpdated(t) \/ ObjectExited(t)
        PROVE  EventsMatchSessions'
    BY <2>1, <2>6 DEF ObjectUpdated, ObjectExited, Publish
  <2>7. CASE UNCHANGED vars
    BY <2>1, <2>7 DEF vars
  <2>8. ASSUME NEW closed \in SUBSET Stale(clock), ReconcileElsewhere(closed)
        PROVE  EventsMatchSessions'
    <3>1. Announce({}, closed) /\ sessions' = Without(sessions, closed, NoSession)
      BY <2>8 DEF ReconcileElsewhere
    <3>2. closed \subseteq Pairs /\ \A k \in closed : sessions[k] # NoSession
      BY DEF Stale, IsStale
    <3>3. \A k \in Pairs : sessions'[k] # NoSession <=> sessions[k] # NoSession /\ k \notin closed
      BY <3>1 DEF Without
    <3> QED
      BY <3>1, <3>2, <3>3, Announced
  <2> QED
    BY <2>4, <2>5, <2>6, <2>7, <2>8 DEF Next
<1> QED
  BY <1>1, <1>2, SpatialInvariance, PTL DEF Spec

\* What SpatialService remembers of a pair and the table of sessions come
\* apart only in a transaction that rolls back, or when another camera's process
\* closes the session as stale: any other step, whatever it closes and opens,
\* keeps a pair that agrees in agreement.
THEOREM CommitKeepsAgreementHolds == Spec => CommitKeepsAgreement
<1>1. IInv /\ SpatialInv /\ [Next]_vars =>
         [faults' = faults =>
            \A k \in Pairs : Agrees(k) => Agrees(k)' \/ ClosedElsewhere(k)]_vars
  <2> SUFFICES ASSUME IInv, SpatialInv, [Next]_vars, faults' = faults,
                      NEW k \in Pairs, Agrees(k)
               PROVE  Agrees(k)' \/ ClosedElsewhere(k)
    BY DEF vars
  <2>1. ASSUME UNCHANGED <<membership, sessions>> PROVE Agrees(k)'
    BY <2>1 DEF Agrees
  <2>2. ASSUME membership'[k] = Unknown PROVE Agrees(k)'
    BY <2>2 DEF Agrees, Unknown, Member
  <2>3. ASSUME NEW event, NEW closed, NEW answers \in [Zones -> Answers],
               Observe(event, closed, answers)
        PROVE  Agrees(k)'
    <3>1. event \in EventType
      BY <2>3, HeadTaken DEF Observe, Committed, IInv
    <3> QED
      BY <2>3, <3>1, ObservedOutcome
  <2>4. ASSUME NEW event, NEW closed, CloseEntity(event, closed) PROVE Agrees(k)'
    <3> DEFINE forced == OpenOf(sessions, Row(event))
               own == {l \in Pairs : l[1] = Row(event)}
    <3>1. /\ membership' = Without(membership, closed \cup own, Unknown)
          /\ sessions' = Without(sessions, closed \cup forced, NoSession)
      BY <2>4 DEF CloseEntity
    <3>2. forced \subseteq own
      BY DEF OpenOf
    <3> HIDE DEF forced, own
    <3>3. CASE k \in closed \cup own
      BY <2>2, <3>1, <3>3 DEF Without
    <3>4. CASE k \notin closed \cup own
      <4>1. membership'[k] = membership[k] /\ sessions'[k] = sessions[k]
        BY <3>1, <3>2, <3>4 DEF Without
      <4> QED
        BY <4>1 DEF Agrees
    <3> QED
      BY <3>3, <3>4
  <2>5. ASSUME NEW event PROVE ~RollBack(event)
    BY DEF RollBack, SpatialInv, SpatialTyped
  <2>6. CASE Restart
    BY <2>2, <2>6 DEF Restart
  <2>7. ASSUME NEW event, Worker(event) PROVE Agrees(k)'
    BY <2>1, <2>3, <2>4, <2>5, <2>7 DEF Worker, RecordLate, spatial
  <2>8. CASE Tick \/ ObjectEntered
    BY <2>1, <2>8 DEF Tick, ObjectEntered, Publish, spatial
  <2>9. ASSUME NEW t \in Tracks, ObjectUpdated(t) \/ ObjectExited(t) PROVE Agrees(k)'
    BY <2>1, <2>9 DEF ObjectUpdated, ObjectExited, Publish, spatial
  <2>10. CASE UNCHANGED vars
    BY <2>1, <2>10 DEF vars, spatial
  <2>11. ASSUME NEW closed \in SUBSET Stale(clock), ReconcileElsewhere(closed)
         PROVE  Agrees(k)' \/ ClosedElsewhere(k)
    <3>1. /\ sessions' = Without(sessions, closed, NoSession)
          /\ UNCHANGED <<serial, membership>>
      BY <2>11 DEF ReconcileElsewhere
    <3>2. CASE k \in closed
      BY <3>1, <3>2 DEF Without, Stale, ClosedElsewhere
    <3>3. CASE k \notin closed
      <4>1. sessions'[k] = sessions[k]
        BY <3>1, <3>3 DEF Without
      <4> QED
        BY <3>1, <4>1 DEF Agrees
    <3> QED
      BY <3>2, <3>3
  <2> QED
    BY <2>6, <2>7, <2>8, <2>9, <2>10, <2>11 DEF Next
<1> QED
  BY <1>1, SpatialInvariance, PTL DEF Spec, CommitKeepsAgreement

\* A session is opened only after enough answers "inside" in a row, and one
\* is closed only after enough answers "outside" in a row, or with its entity,
\* or once nothing was seen of it for the timeout: in this process and across
\* processes, whatever transactions rolled back in between.
THEOREM TransitionsConfirmedHolds == Spec => TransitionsConfirmed
<1> DEFINE Opened(k) == sessions'[k].id \notin {0, sessions[k].id} =>
               streak'[k].last = "inside" /\ streak'[k].length >= EnterConfirm
           Closed(k) == sessions[k] # NoSession /\ sessions'[k].id # sessions[k].id =>
               \/ streak'[k].last = "outside" /\ streak'[k].length >= ExitConfirm
               \/ ~entities'[k[1]].active
               \/ ClosedElsewhere(k)
               \/ IsStale(sessions[k], Head(queue).at)
<1>1. IInv /\ SpatialInv /\ [Next]_vars =>
      [\A k \in Pairs :
        /\ sessions'[k].id \notin {0, sessions[k].id} =>
              streak'[k].last = "inside" /\ streak'[k].length >= EnterConfirm
        /\ sessions[k] # NoSession /\ sessions'[k].id # sessions[k].id =>
              \/ streak'[k].last = "outside" /\ streak'[k].length >= ExitConfirm
              \/ ~entities'[k[1]].active
              \/ ClosedElsewhere(k)
              \/ IsStale(sessions[k], Head(queue).at)]_vars
  <2> SUFFICES ASSUME IInv, SpatialInv, [Next]_vars, NEW k \in Pairs
               PROVE  Opened(k) /\ Closed(k)
    OBVIOUS
  <2>1. CASE sessions' = sessions
    BY <2>1
  <2>2. NoSession.id = 0
    BY DEF NoSession
  <2>3. ASSUME NEW event, NEW closed \in SUBSET Stale(event.at),
               NEW answers \in [Zones -> Answers], Observe(event, closed, answers)
        PROVE  Opened(k) /\ Closed(k)
    <3> DEFINE s == Without(sessions, closed, NoSession)[k]
               entered == AnsweredOpening(Row(event), answers, Without(membership, closed, Unknown),
                                     Without(sessions, closed, NoSession))
               left == AnsweredClosing(Row(event), answers, Without(membership, closed, Unknown),
                                  Without(sessions, closed, NoSession))
    <3>1. event \in EventType /\ event = Head(queue)
      BY <2>3, HeadTaken DEF Observe, Committed, Take, IInv
    <3>2. /\ k \in entered =>
                /\ s = NoSession /\ sessions'[k] # NoSession
                /\ streak'[k].last = "inside" /\ streak'[k].length >= EnterConfirm
          /\ k \in left =>
                /\ s # NoSession /\ sessions'[k] = NoSession
                /\ streak'[k].last = "outside" /\ streak'[k].length >= ExitConfirm
          /\ k \notin entered /\ k \notin left => sessions'[k].id = s.id
      BY <2>3, <3>1, ObservedOutcome
    <3>3. /\ k \in closed => s = NoSession
          /\ k \notin closed => s = sessions[k]
      BY RestPair
    <3>4. k \in closed => IsStale(sessions[k], Head(queue).at)
      BY <3>1 DEF Stale
    <3> HIDE DEF s, entered, left
    <3> QED
      BY <2>2, <3>2, <3>3, <3>4
  <2>4. ASSUME NEW event, NEW closed \in SUBSET Stale(event.at), CloseEntity(event, closed)
        PROVE  Opened(k) /\ Closed(k)
    <3>1. event \in EventType /\ event = Head(queue)
      BY <2>4, HeadTaken DEF CloseEntity, Committed, Take, IInv
    <3>2. /\ sessions' = Without(sessions, closed \cup OpenOf(sessions, Row(event)), NoSession)
          /\ entities' = Written(event) /\ event.kind = "exited"
      BY <2>4 DEF CloseEntity
    <3>3. ~entities'[Row(event)].active
      BY <3>1, <3>2, WrittenRow DEF SpatialInv
    <3>4. k \in closed => IsStale(sessions[k], Head(queue).at)
      BY <3>1 DEF Stale
    <3>5. k \in OpenOf(sessions, Row(event)) => k[1] = Row(event)
      BY DEF OpenOf
    <3>6. \/ sessions'[k] = sessions[k]
          \/ /\ sessions'[k] = NoSession
             /\ k \in closed \/ k \in OpenOf(sessions, Row(event))
      BY <3>2 DEF Without
    <3> QED
      BY <2>2, <3>3, <3>4, <3>5, <3>6
  <2>5. ASSUME NEW event, Worker(event) PROVE Opened(k) /\ Closed(k)
    BY <2>1, <2>3, <2>4, <2>5 DEF Worker, RecordLate, RollBack, spatial
  <2>6. CASE Tick \/ ObjectEntered \/ Restart
    BY <2>1, <2>6 DEF Tick, ObjectEntered, Publish, Restart, spatial
  <2>7. ASSUME NEW t \in Tracks, ObjectUpdated(t) \/ ObjectExited(t)
        PROVE  Opened(k) /\ Closed(k)
    BY <2>1, <2>7 DEF ObjectUpdated, ObjectExited, Publish, spatial
  <2>8. CASE UNCHANGED vars
    BY <2>1, <2>8 DEF vars, spatial
  <2>9. ASSUME NEW closed \in SUBSET Stale(clock), ReconcileElsewhere(closed)
        PROVE  Opened(k) /\ Closed(k)
    <3>1. sessions' = Without(sessions, closed, NoSession) /\ UNCHANGED serial
      BY <2>9 DEF ReconcileElsewhere
    <3> QED
      BY <2>1, <2>2, <3>1 DEF Without, Stale, ClosedElsewhere
  <2> QED
    BY <2>5, <2>6, <2>7, <2>8, <2>9 DEF Next
<1> QED
  BY <1>1, SpatialInvariance, PTL DEF Spec, TransitionsConfirmed
=============================================================================
