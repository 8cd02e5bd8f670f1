--------------------------- MODULE AlertConsumer ---------------------------
(***************************************************************************)
(* How a committed zone event reaches rule evaluation: NOTIFY, the         *)
(* listener, the bounded queue of AlertCommittedEventConsumer, its         *)
(* checkpoint and its catch-up at startup.                                 *)
(*                                                                         *)
(* An event is its position in the timeline, the order of (occurred_at,    *)
(* id), and events commit in another order: a track that is lost for       *)
(* max_missed_frames exits at the time it was last seen; entities of one   *)
(* frame share their occurred_at, commit one by one and are ordered by     *)
(* their random ids; the vision processes of several cameras commit at     *)
(* their own pace.  Lag bounds how many positions behind the newest an     *)
(* event may commit; all positions lie within replay_overlap_seconds of    *)
(* each other.  A page of the catch-up asks the provider of the entities'  *)
(* events first and that of the zones' events next, each in a transaction  *)
(* of its own.                                                             *)
(***************************************************************************)
EXTENDS Integers, SequencesExt

CONSTANTS
    QueueSize,      \* queue_size
    PageSize,       \* the 100 of _catch_up
    CatchUpLimit,   \* startup_catchup_limit
    Lag, MaxEvents, MaxFaults    \* bounds

ASSUME ConsumerAssumption ==
    /\ QueueSize \in Nat \ {0} /\ PageSize \in Nat \ {0}
    /\ CatchUpLimit \in Nat \ {0}
    /\ Lag \in Nat /\ MaxEvents \in Nat /\ MaxFaults \in Nat

VARIABLES
    log,        \* committed source events, in the order of commit
    wire,       \* notifications on their way to the listener
    listening,  \* the LISTEN connection is up
    queue,      \* asyncio.Queue of the consumer
    phase,      \* of the process and its consumer task
    catchUp,    \* rest of the page in hand, cursor, remaining, next_cursor; whether
                \* the first provider has been asked, and what it has not seen
    current,    \* event in _process_and_checkpoint, if any
    checkpoint, \* position of last_event_id; 0 when there is none
    done,       \* history: events in the order of their first evaluation
    faults,
    excuses     \* history: why an event may stay without evaluation

vars == <<log, wire, listening, queue, phase, catchUp, current, checkpoint,
          done, faults, excuses>>

Events == 1..MaxEvents
None == 0
Phases == {"down", "starting", "catching", "live", "finishing", "closing"}
Excuses ==
    {"disconnected", "unresolved", "queue", "failed", "limit", "late", "between"}

Committed == Range(log)
Latest == IF log = <<>> THEN 0 ELSE Max(Committed)
NoEvent == [event |-> None, evaluated |-> FALSE]
CatchUpFrom(cursor, remaining, more) ==
    [page |-> {}, cursor |-> cursor, remaining |-> remaining, more |-> more,
     asked |-> FALSE, unseen |-> {}]
NoCatchUp == CatchUpFrom(0, 0, FALSE)

Init ==
    /\ log = <<>> /\ wire = <<>> /\ listening = FALSE /\ queue = <<>>
    /\ phase = "down" /\ catchUp = NoCatchUp
    /\ current = NoEvent
    /\ checkpoint = 0 /\ done = <<>>
    /\ faults = 0 /\ excuses = [e \in Events |-> {}]

Excuse(events, why) ==
    [e \in Events |-> IF e \in events THEN excuses[e] \cup {why} ELSE excuses[e]]

\* Committed events that are neither evaluated nor on their way.
Missed ==
    Committed \ (Range(done) \cup Range(queue) \cup Range(wire) \cup {current.event})

Fault == faults < MaxFaults /\ faults' = faults + 1

-----------------------------------------------------------------------------
(* Writers and the listener.                                               *)

\* A transaction of the vision process commits an event; pg_notify reaches
\* the sessions that listen at that moment.  A page that has asked the first
\* provider misses the event if it is one of that provider's.
Commit(e) ==
    /\ e \in Events \ Committed
    /\ e \in (Latest - Lag)..(Latest + 1 + Lag)
    /\ log' = Append(log, e)
    /\ wire' = IF listening THEN Append(wire, e) ELSE wire
    /\ excuses' = IF ~listening /\ phase \in {"catching", "live"}
                  THEN Excuse({e}, "disconnected") ELSE excuses
    /\ \/ UNCHANGED catchUp
       \/ catchUp.asked /\ catchUp' = [catchUp EXCEPT !.unseen = @ \cup {e}]
    /\ UNCHANGED <<listening, queue, phase, current, checkpoint, done,
                   faults>>

\* The connection of _listen_loop is up (again).  Nothing is replayed.
Listen ==
    /\ phase \in {"starting", "catching", "live"} /\ ~listening
    /\ listening' = TRUE
    /\ UNCHANGED <<log, wire, queue, phase, catchUp, current, checkpoint, done,
                   faults, excuses>>

Disconnect ==
    /\ listening /\ Fault
    /\ listening' = FALSE /\ wire' = <<>>
    /\ excuses' = Excuse(Range(wire), "disconnected")
    /\ UNCHANGED <<log, queue, phase, catchUp, current, checkpoint, done>>

\* put_nowait of submit.
Submitted(e) ==
    IF Len(queue) < QueueSize
    THEN queue' = Append(queue, e) /\ UNCHANGED excuses
    ELSE UNCHANGED queue /\ excuses' = Excuse({e}, "queue")

\* _handle_notify: get_event, then the handlers.
HandleNotify ==
    /\ wire # <<>>
    /\ wire' = Tail(wire)
    /\ Submitted(Head(wire))
    /\ UNCHANGED <<log, listening, phase, catchUp, current, checkpoint, done,
                   faults>>

\* get_event raises: the notification is dropped.
ResolveFails ==
    /\ wire # <<>> /\ Fault
    /\ wire' = Tail(wire)
    /\ excuses' = Excuse({Head(wire)}, "unresolved")
    /\ UNCHANGED <<log, listening, queue, phase, catchUp, current, checkpoint,
                   done>>

-----------------------------------------------------------------------------
(* Start, catch-up and the live loop of the consumer.                      *)

StartProcess ==
    /\ phase = "down"
    /\ phase' = "starting"
    /\ UNCHANGED <<log, wire, listening, queue, catchUp, current, checkpoint,
                   done, faults, excuses>>

\* lifespan waits for the listener, up to a time limit, then starts the
\* consumer, whose _catch_up begins at the checkpoint.
StartConsumer ==
    /\ phase = "starting"
    /\ \/ listening /\ UNCHANGED faults
       \/ ~listening /\ Fault
    /\ phase' = "catching"
    /\ catchUp' = CatchUpFrom(checkpoint, CatchUpLimit, TRUE)
    /\ excuses' = Excuse({e \in Missed : e < checkpoint}, "late")
    /\ UNCHANGED <<log, wire, listening, queue, current, checkpoint, done>>

\* What the transactions of the page read after the cursor.
After(cursor) == {e \in Committed \ catchUp.unseen : e > cursor}

PageBackwards(cursor, limit) ==
    {e \in After(cursor) : Cardinality({x \in After(cursor) : x > e}) < limit}

\* list_timeline after the cursor: the first events in timeline order.
Page(cursor, limit) ==
    {e \in After(cursor) : Cardinality({x \in After(cursor) : x < e}) < limit}

\* The page after the cursor, one event longer when there are more.
PageAndNext(cursor, limit) == Page(cursor, limit + 1)

NextCursorPastExtra(cursor, limit) == Max(PageAndNext(cursor, limit))

\* TimelineComposer.list_events: next_cursor is the last event of the page,
\* not the extra one that tells there are more.
NextCursor(cursor, limit) == Max(Page(cursor, limit))

\* The thread of _catch_up runs; a stop does not end it.
CatchingUp == phase \in {"catching", "finishing"}

\* _catch_up between two pages has no event in hand.
BetweenPages == CatchingUp /\ catchUp.page = {} /\ current = NoEvent

\* The loop of _catch_up goes round.
Reading == BetweenPages /\ catchUp.more /\ catchUp.remaining > 0

\* The composer asks the first provider.
AskFirstProvider ==
    /\ Reading /\ ~catchUp.asked
    /\ catchUp' = [catchUp EXCEPT !.asked = TRUE]
    /\ UNCHANGED <<log, wire, listening, queue, phase, current, checkpoint, done,
                   faults, excuses>>

\* It asks the second and merges what both have answered.
ReadPage ==
    /\ Reading /\ catchUp.asked
    /\ After(catchUp.cursor) # {}
    /\ LET limit == IF PageSize < catchUp.remaining THEN PageSize
                    ELSE catchUp.remaining
           page == Page(catchUp.cursor, limit)
           next == NextCursor(catchUp.cursor, limit)
       IN  /\ catchUp' = [CatchUpFrom(next, catchUp.remaining - Cardinality(page),
                              PageAndNext(catchUp.cursor, limit) # page)
                             EXCEPT !.page = page]
           /\ excuses' = Excuse({e \in catchUp.unseen : e < next}, "between")
    /\ UNCHANGED <<log, wire, listening, queue, phase, current, checkpoint, done,
                   faults>>

\* What _catch_up leaves behind is lost to this run of the process.
LeaveCatchUp(lost, why) ==
    /\ catchUp' = NoCatchUp
    /\ IF phase = "catching"
       THEN phase' = "live" /\ excuses' = Excuse(lost, why)
       ELSE phase' = "closing" /\ UNCHANGED excuses

\* _catch_up returns: nothing is left, or the limit is reached.
EndCatchUp ==
    /\ BetweenPages
    /\ \/ ~catchUp.more \/ catchUp.remaining = 0
       \/ catchUp.asked /\ After(catchUp.cursor) = {}
    /\ LeaveCatchUp(IF catchUp.more /\ catchUp.remaining = 0 THEN Missed ELSE {},
                    "limit")
    /\ UNCHANGED <<log, wire, listening, queue, current, checkpoint, done,
                   faults>>

\* The next event of the page, in its order, or of the queue once the catch-up
\* is over.
Take ==
    /\ current = NoEvent
    /\ \/ /\ CatchingUp /\ catchUp.page # {}
          /\ current' = [event |-> Min(catchUp.page), evaluated |-> FALSE]
          /\ catchUp' = [catchUp EXCEPT !.page = @ \ {Min(@)}]
          /\ UNCHANGED queue
       \/ /\ phase = "live" /\ queue # <<>>
          /\ current' = [event |-> Head(queue), evaluated |-> FALSE]
          /\ queue' = Tail(queue)
          /\ UNCHANGED catchUp
    /\ UNCHANGED <<log, wire, listening, phase, checkpoint, done, faults,
                   excuses>>

\* process_source_event commits.
Evaluate ==
    /\ current # NoEvent /\ ~current.evaluated
    /\ current' = [current EXCEPT !.evaluated = TRUE]
    /\ done' = IF current.event \in Range(done) THEN done
               ELSE Append(done, current.event)
    /\ UNCHANGED <<log, wire, listening, queue, phase, catchUp, checkpoint,
                   faults, excuses>>

SaveCheckpointFirst ==
    /\ current # NoEvent
    /\ checkpoint' = current.event
    /\ current' = IF current.evaluated THEN NoEvent ELSE current
    /\ checkpoint # checkpoint' \/ current # current'
    /\ UNCHANGED <<log, wire, listening, queue, phase, catchUp, done, faults,
                   excuses>>

\* checkpoints.save, a transaction of its own.
SaveCheckpoint ==
    /\ current.evaluated
    /\ checkpoint' = current.event
    /\ current' = NoEvent
    /\ UNCHANGED <<log, wire, listening, queue, phase, catchUp, done, faults,
                   excuses>>

\* Reading the checkpoint or a page, evaluating an event or saving the
\* checkpoint raises: the catch-up is over.
CatchUpFails ==
    /\ CatchingUp /\ Fault
    /\ current' = NoEvent
    /\ LeaveCatchUp(Missed \cup ({current.event} \ Range(done)), "failed")
    /\ UNCHANGED <<log, wire, listening, queue, checkpoint, done>>

\* The live loop goes on with the next event.
ProcessingFails ==
    /\ ~CatchingUp /\ current # NoEvent /\ Fault
    /\ current' = NoEvent
    /\ excuses' = IF phase = "live" THEN Excuse({current.event} \ Range(done), "failed")
                  ELSE excuses
    /\ UNCHANGED <<log, wire, listening, queue, phase, catchUp, checkpoint, done>>

\* stop() cancels the consumer's task and the queue is gone, as is the
\* connection; a thread that evaluates or catches up runs on.
Stop ==
    /\ phase \in {"starting", "catching", "live"} /\ Fault
    /\ phase' = IF phase = "catching" THEN "finishing" ELSE "closing"
    /\ listening' = FALSE
    /\ wire' = <<>> /\ queue' = <<>>
    /\ UNCHANGED <<log, catchUp, current, checkpoint, done, excuses>>

\* The process ends with its last thread.
ProcessEnds ==
    /\ phase = "closing" /\ current = NoEvent
    /\ phase' = "down"
    /\ UNCHANGED <<log, wire, listening, queue, catchUp, current, checkpoint, done,
                   faults, excuses>>

\* The process dies: queue and connection are gone.
Crash ==
    /\ phase # "down" /\ Fault
    /\ phase' = "down" /\ listening' = FALSE
    /\ wire' = <<>> /\ queue' = <<>>
    /\ catchUp' = NoCatchUp /\ current' = NoEvent
    /\ UNCHANGED <<log, checkpoint, done, excuses>>

-----------------------------------------------------------------------------
ConsumerStep ==
    AskFirstProvider \/ ReadPage \/ EndCatchUp \/ Take \/ Evaluate \/ SaveCheckpoint
StartStep == StartProcess \/ StartConsumer \/ ProcessEnds

Next ==
    \/ \E e \in Events : Commit(e)
    \/ Listen \/ Disconnect \/ HandleNotify \/ ResolveFails
    \/ StartStep \/ ConsumerStep \/ CatchUpFails \/ ProcessingFails
    \/ Stop \/ Crash

Spec == Init /\ [][Next]_vars

\* The loops of the listener and the consumer run, and a process that died is
\* started again.
FairSpec ==
    /\ Spec
    /\ WF_vars(Listen) /\ WF_vars(HandleNotify)
    /\ WF_vars(StartStep) /\ WF_vars(ConsumerStep)

-----------------------------------------------------------------------------
(* Properties.                                                             *)

\* Whatever dies or fails between evaluation and checkpoint, the checkpoint
\* names an event whose evaluation has committed.
CheckpointEvaluated == checkpoint \in Range(done) \cup {None}

\* log[i] was newer than every event before it.
InOrderAtCommit(i) == \A k \in 1..(i - 1) : log[k] < log[i]

\* Events that commit in timeline order are first evaluated in that order,
\* across catch-up, queue, stops and restarts, unless the earlier one was lost
\* or committed between the two transactions of a page that shows a later one.
FirstEvaluationsInOrder ==
    \A i, j \in DOMAIN log :
        /\ i < j /\ InOrderAtCommit(i) /\ InOrderAtCommit(j)
        /\ excuses[log[i]] = {} /\ log[j] \in Range(done)
        => \E k, l \in DOMAIN done : done[k] = log[i] /\ done[l] = log[j] /\ k < l

\* A committed event is evaluated in the end, through crashes and restarts at
\* any point, unless the connection, its look-up, a full queue, a failed
\* evaluation, a failed or limited catch-up, a page read in two transactions or
\* its lateness lost it.
EvaluatedUnlessExcused ==
    \A e \in Events :
        e \in Committed ~> (e \in Range(done) \/ excuses[e] # {})
=============================================================================
