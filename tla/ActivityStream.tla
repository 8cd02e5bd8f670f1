--------------------------- MODULE ActivityStream ---------------------------
(***************************************************************************)
(* The fan-out of timeline events to WebSocket clients:                    *)
(* ActivityStreamBroker and, for each connection, the three coroutines of  *)
(* activity_ws: the handler that receives, the sender and the heartbeat.   *)
(*                                                                         *)
(* All of it runs on one event loop, so what happens between two awaits is *)
(* one action.  The broker's lock is never held across an await, and       *)
(* publish enqueues for all its clients without one.                       *)
(***************************************************************************)
EXTENDS Integers, SequencesExt

CONSTANTS
    Clients,            \* connections; each is used once
    Readers,            \* the clients that read what they are sent
    QueueSize,          \* client_queue_size
    MaxConnections,     \* max_connections
    MaxEvents, MaxHeartbeats, MaxUpdates    \* bounds

ASSUME StreamAssumption ==
    /\ Readers \subseteq Clients
    /\ QueueSize \in Nat \ {0} /\ MaxConnections \in Nat \ {0}
    /\ MaxEvents \in Nat /\ MaxHeartbeats \in Nat /\ MaxUpdates \in Nat

VARIABLES
    published,      \* kinds of the published events, which are numbered
    registered,     \* keys of _clients
    closed,         \* clients whose closed flag is set
    observing,      \* clients whose subscription includes observations
    queue,          \* outbound messages of each client
    handler,        \* where the handler of each connection is
    sender,         \* what the sender of each connection does
    wsClosed,       \* code with which the server closed the connection
    offered,        \* history: events published to a client
    sent,           \* history: events a client was sent
    heartbeats, updates

streamVars == <<published, registered, closed, observing, queue, handler, sender,
          wsClosed, offered, sent, heartbeats, updates>>

Kinds == {"lifecycle", "observation"}
Event(n) == [type |-> "event", n |-> n]
Heartbeat == [type |-> "heartbeat", n |-> 0]
Warning == [type |-> "warning", n |-> 0]
Close(code) == [type |-> "close", n |-> code]
Shutdown == 1001
SlowConsumer == 4002
Codes == {Shutdown, SlowConsumer}

Messages == {Event(n) : n \in 1..MaxEvents} \cup {Close(c) : c \in Codes}
            \cup {Heartbeat, Warning}
Handlers == {"none", "starting", "receiving", "ended", "failed"}
NotSending == {[does |-> d] : d \in {"none", "waiting", "stopped"}}
Sending(m) == [does |-> "sending", message |-> m]

StreamInit ==
    /\ published = <<>>
    /\ registered = {} /\ closed = {} /\ observing = {}
    /\ queue = [c \in Clients |-> <<>>]
    /\ handler = [c \in Clients |-> "none"]
    /\ sender = [c \in Clients |-> [does |-> "none"]]
    /\ wsClosed = [c \in Clients |-> 0]
    /\ offered = [c \in Clients |-> {}] /\ sent = [c \in Clients |-> <<>>]
    /\ heartbeats = 0 /\ updates = 0

-----------------------------------------------------------------------------
(* The queue of a client.                                                  *)

IsObservation(kinds, m) == m.type = "event" /\ kinds[m.n] = "observation"

Full(q) == Len(q) >= QueueSize

\* put_nowait, with QueueFull ignored.
PutIfRoom(q, m) == IF Full(q) THEN q ELSE Append(q, m)

DropOldest(q, kinds) == Tail(q)

\* _drop_oldest_observation of a queue that has one.
DropOldestObservation(q, kinds) ==
    RemoveAt(q, Min({i \in DOMAIN q : IsObservation(kinds, q[i])}))

EnqueuedBesideClose(q, m, kinds) ==
    IF ~Full(q) THEN [queue |-> Append(q, m), slow |-> FALSE]
    ELSE IF \E i \in DOMAIN q : IsObservation(kinds, q[i])
    THEN [queue |-> PutIfRoom(Append(DropOldestObservation(q, kinds), m), Warning),
          slow |-> FALSE]
    ELSE [queue |-> Append(q, Close(SlowConsumer)), slow |-> TRUE]

\* _enqueue: the queue it leaves, and whether the client is found slow.
Enqueued(q, m, kinds) ==
    IF ~Full(q) THEN [queue |-> Append(q, m), slow |-> FALSE]
    ELSE IF \E i \in DOMAIN q : IsObservation(kinds, q[i])
    THEN [queue |-> PutIfRoom(Append(DropOldestObservation(q, kinds), m), Warning),
          slow |-> FALSE]
    ELSE [queue |-> Append(Tail(q), Close(SlowConsumer)), slow |-> TRUE]

-----------------------------------------------------------------------------
(* The broker.                                                             *)

Matches(c, kind) == kind = "lifecycle" \/ c \in observing

\* publish: every registered client that is not closed and subscribes.
Publish(kind) ==
    /\ Len(published) < MaxEvents
    /\ published' = Append(published, kind)
    /\ LET n == Len(published) + 1
           targets == {c \in registered \ closed : Matches(c, kind)}
           result(c) == Enqueued(queue[c], Event(n), published')
       IN  /\ queue' = [c \in Clients |->
                          IF c \in targets THEN result(c).queue ELSE queue[c]]
           /\ closed' = closed \cup {c \in targets : result(c).slow}
           /\ offered' = [c \in Clients |->
                            IF c \in targets THEN offered[c] \cup {n}
                            ELSE offered[c]]
    /\ UNCHANGED <<registered, observing, handler, sender, wsClosed, sent,
                   heartbeats, updates>>

\* update_subscription, asked by the client.
UpdateSubscription(c) ==
    /\ handler[c] = "receiving" /\ c \in registered
    /\ updates < MaxUpdates
    /\ updates' = updates + 1
    /\ observing' = IF c \in observing THEN observing \ {c}
                    ELSE observing \cup {c}
    /\ UNCHANGED <<published, registered, closed, queue, handler, sender,
                   wsClosed, offered, sent, heartbeats>>

\* close_all, at shutdown.
CloseAll ==
    /\ registered # {}
    /\ registered' = {}
    /\ closed' = closed \cup registered
    /\ queue' = [c \in Clients |->
                   IF c \in registered THEN PutIfRoom(queue[c], Close(Shutdown))
                   ELSE queue[c]]
    /\ UNCHANGED <<published, observing, handler, sender, wsClosed, offered,
                   sent, heartbeats, updates>>

-----------------------------------------------------------------------------
(* One connection.                                                         *)

\* The handler registers; the sender does not run before the client has
\* accepted and was told connection.ready.
Connect(c) ==
    /\ handler[c] = "none"
    /\ Cardinality(registered) < MaxConnections
    /\ registered' = registered \cup {c}
    /\ handler' = [handler EXCEPT ![c] = "starting"]
    /\ UNCHANGED <<published, closed, observing, queue, sender, wsClosed,
                   offered, sent, heartbeats, updates>>

Ready(c) ==
    /\ handler[c] = "starting"
    /\ handler' = [handler EXCEPT ![c] = "receiving"]
    /\ sender' = [sender EXCEPT
            ![c].does = IF c \in closed THEN "stopped" ELSE "waiting"]
    /\ UNCHANGED <<published, registered, closed, observing, queue, wsClosed,
                   offered, sent, heartbeats, updates>>

\* accept or the first send raises, outside the try of the handler.
FailsToStart(c) ==
    /\ handler[c] = "starting"
    /\ handler' = [handler EXCEPT ![c] = "failed"]
    /\ UNCHANGED <<published, registered, closed, observing, queue, sender,
                   wsClosed, offered, sent, heartbeats, updates>>

\* The sender with m in hand: it closes the connection or starts a send.
Handles(c, m) ==
    IF m.type = "close"
    THEN /\ wsClosed' = [wsClosed EXCEPT ![c] = m.n]
         /\ sender' = [sender EXCEPT ![c] = [does |-> "stopped"]]
    ELSE /\ sender' = [sender EXCEPT ![c] = Sending(m)]
         /\ UNCHANGED wsClosed

\* queue.get of the sender that waits.
Get(c) ==
    /\ sender[c].does = "waiting" /\ queue[c] # <<>>
    /\ queue' = [queue EXCEPT ![c] = Tail(@)]
    /\ Handles(c, Head(queue[c]))
    /\ UNCHANGED <<published, registered, closed, observing, handler, offered,
                   sent, heartbeats, updates>>

ContinuesByPolling(c) ==
    IF c \in closed \/ queue[c] = <<>>
    THEN /\ sender' = [sender EXCEPT ![c] = [does |-> "stopped"]]
         /\ UNCHANGED <<queue, wsClosed>>
    ELSE /\ queue' = [queue EXCEPT ![c] = Tail(@)]
         /\ Handles(c, Head(queue[c]))

\* The head of the sender's loop: it stops when the client is closed, takes a
\* message that is there at once, and otherwise waits.
Continues(c) ==
    IF c \in closed \/ queue[c] = <<>>
    THEN /\ sender' = [sender EXCEPT ![c] =
                         [does |-> IF c \in closed THEN "stopped" ELSE "waiting"]]
         /\ UNCHANGED <<queue, wsClosed>>
    ELSE /\ queue' = [queue EXCEPT ![c] = Tail(@)]
         /\ Handles(c, Head(queue[c]))

\* send_json returns: the client has taken the message.
Sent(c) ==
    /\ sender[c].does = "sending"
    /\ sent' = IF sender[c].message.type = "event"
               THEN [sent EXCEPT ![c] = Append(@, sender[c].message.n)]
               ELSE sent
    /\ Continues(c)
    /\ UNCHANGED <<published, registered, closed, observing, handler, offered,
                   heartbeats, updates>>

\* One round of the heartbeat.
Beat(c) ==
    /\ handler[c] = "receiving" /\ c \notin closed
    /\ heartbeats < MaxHeartbeats
    /\ heartbeats' = heartbeats + 1
    /\ queue' = [queue EXCEPT ![c] = PutIfRoom(@, Heartbeat)]
    /\ UNCHANGED <<published, registered, closed, observing, handler, sender,
                   wsClosed, offered, sent, updates>>

\* The client goes away, or answers the server's close: a send in progress
\* fails, the handler cancels the other coroutines and unregisters.
Disconnect(c) ==
    /\ handler[c] = "receiving"
    /\ handler' = [handler EXCEPT ![c] = "ended"]
    /\ sender' = [sender EXCEPT ![c] = [does |-> "stopped"]]
    /\ registered' = registered \ {c}
    /\ closed' = closed \cup {c}
    /\ UNCHANGED <<published, observing, queue, wsClosed, offered, sent,
                   heartbeats, updates>>

-----------------------------------------------------------------------------
StreamNext ==
    \/ \E k \in Kinds : Publish(k)
    \/ CloseAll
    \/ \E c \in Clients :
          \/ Connect(c) \/ Ready(c) \/ FailsToStart(c) \/ Disconnect(c)
          \/ Get(c) \/ Sent(c) \/ Beat(c) \/ UpdateSubscription(c)

StreamSpec == StreamInit /\ [][StreamNext]_streamVars

\* The loop runs what is ready.  Readers take what they are sent and answer a
\* close of the server; of the others nothing is assumed.
FairStreamSpec ==
    /\ StreamSpec
    /\ \A c \in Clients :
          WF_streamVars(Ready(c) \/ FailsToStart(c)) /\ WF_streamVars(Get(c))
    /\ \A c \in Readers :
          WF_streamVars(Sent(c)) /\ WF_streamVars(wsClosed[c] # 0 /\ Disconnect(c))

-----------------------------------------------------------------------------
(* Properties.                                                             *)

\* The type invariant.
TypeOK ==
    /\ published \in Seq(Kinds) /\ Len(published) <= MaxEvents
    /\ registered \subseteq Clients /\ closed \subseteq Clients
    /\ Cardinality(registered) <= MaxConnections
    /\ observing \subseteq Clients
    /\ \A c \in Clients : queue[c] \in Seq(Messages) /\ Len(queue[c]) <= QueueSize
    /\ handler \in [Clients -> Handlers]
    /\ \A c \in Clients :
          sender[c] \in NotSending \cup {Sending(m) : m \in Messages}
    /\ wsClosed \in [Clients -> Codes \cup {0}]
    /\ offered \in [Clients -> SUBSET (1..MaxEvents)]
    /\ \A c \in Clients : sent[c] \in Seq(1..MaxEvents)
    /\ heartbeats \in 0..MaxHeartbeats /\ updates \in 0..MaxUpdates

\* The events in a queue, in the order in which they are in it.
EventsIn(q) == {i \in DOMAIN q : q[i].type = "event"}
Numbers(q) == {q[i].n : i \in EventsIn(q)}
Sorted(q) == \A i, j \in EventsIn(q) : i < j => q[i].n < q[j].n

\* The event client c is being sent.
InHand(c) ==
    IF sender[c].does = "sending" /\ sender[c].message.type = "event"
    THEN {sender[c].message.n} ELSE {}

Before(earlier, later) == \A m \in earlier, n \in later : m < n

\* What a client that is not closed was, is being and will be sent are the
\* events it was offered, in the order of publication, each once, and without
\* observations at most: the queue is drained and filled again on overflow and
\* a lifecycle event is never what is dropped.
OnlyObservationsDropped ==
    \A c \in registered \ closed :
        LET line == Range(sent[c]) \cup InHand(c) \cup Numbers(queue[c])
        IN  /\ \A i, j \in DOMAIN sent[c] : i < j => sent[c][i] < sent[c][j]
            /\ Before(Range(sent[c]), InHand(c) \cup Numbers(queue[c]))
            /\ Before(InHand(c), Numbers(queue[c]))
            /\ Sorted(queue[c])
            /\ line \subseteq offered[c]
            /\ \A n \in offered[c] \ line : published[n] = "observation"

\* A lifecycle event published to a client that reads reaches it, however slow
\* the other clients are, or the client is closed or never starts.
LifecycleReachesReaders ==
    \A c \in Readers : \A n \in 1..MaxEvents :
        (n \in offered[c] /\ published[n] = "lifecycle")
            ~> (n \in Range(sent[c]) \/ c \in closed \/ handler[c] = "failed")
=============================================================================
