----------------------------- MODULE ApiProcess -----------------------------
(***************************************************************************)
(* One run of the API process: load_app_config, the services that          *)
(* create_app builds from the configuration, and the lifespan that starts  *)
(* and stops them.  The services are asyncio tasks that hand their work to *)
(* the threads of one pool (asyncio.to_thread); stopping a task neither    *)
(* waits for its threads nor interrupts them, and cancels only what the    *)
(* task awaits: not the deliveries that a failed gather left behind.       *)
(***************************************************************************)
EXTENDS Configuration, SequencesExt

CONSTANTS
    PoolSize,       \* threads of the default executor
    Concurrency,    \* max_concurrent_deliveries of the worker
    MaxSiblings,    \* bound on the deliveries that outlive their gathers
    MaxQueue        \* bound on the queue of the pool, which tasks add to below it

ASSUME ApiProcessAssumption ==
    PoolSize \in Nat \ {0} /\ Concurrency \in Nat \ {0} /\ MaxSiblings \in Nat
    /\ MaxQueue \in Nat

VARIABLES
    enabled,        \* services the configuration enables
    phase,          \* of the process
    at,             \* position in StartOrder or StopOrder
    tasks,          \* services whose task runs
    ready,          \* services whose _ready is set
    stopped,        \* services whose stop() has returned
    siblings,       \* deliveries of failed gathers that have yet to ask for a thread
    waiting,        \* queue of the pool: whose each job is, or Cancelled
    busy,           \* threads at work for each service, and for siblings
    heard,          \* history: LISTEN has been up
    gaveUp          \* history: lifespan went on without the listener

processVars ==
    <<enabled, phase, at, tasks, ready, stopped, siblings, waiting, busy, heard, gaveUp>>
vars == <<loaderVars, processVars>>

Services == {"listener", "consumer", "reconciler", "worker", "retention"}
Cancelled == "cancelled"
Sibling == "sibling"    \* whose a delivery is that outlived its gather
Owners == Services \cup {Sibling}

ConsumerFirst == <<"consumer", "listener", "reconciler", "worker", "retention">>
StartOrder == <<"listener", "consumer", "reconciler", "worker", "retention">>
StopOrder == <<"retention", "worker", "reconciler", "consumer", "listener">>

\* Jobs a service may have with the pool at a time: _cycle gathers several.
Width(s) == IF s = "worker" THEN Concurrency ELSE 1
Occurrences(q, s) == Cardinality({i \in DOMAIN q : q[i] = s})
Queued(s) == Occurrences(waiting, s)
Jobs(s) == busy[s] + Queued(s)
Outliving == siblings + Jobs(Sibling)
Threads == FoldFunctionOnSet(+, 0, busy, Owners)

Init ==
    /\ LoaderInit
    /\ enabled = {} /\ phase = "loading" /\ at = 1
    /\ tasks = {} /\ ready = {} /\ stopped = {}
    /\ siblings = 0 /\ waiting = <<>> /\ busy = [s \in Owners |-> 0]
    /\ heard = FALSE /\ gaveUp = FALSE

LoadStep == phase = "loading" /\ Load /\ UNCHANGED processVars

EnabledBy(vals) ==
    {s \in Services :
        \/ s = "listener" /\ vals.activity_stream.enabled = Bool(TRUE)
        \/ s \in {"consumer", "reconciler"} /\ vals.alerts.enabled = Bool(TRUE)
        \/ s = "worker" /\ vals.notifications.enabled = Bool(TRUE)
        \/ s = "retention" /\ vals.ops.retention[2].enabled = Bool(TRUE)}

\* build_app_from_loaded_config and create_app, then uvicorn.run, which fails
\* on a log level that it does not know.  All that matters of the configuration
\* from here on is which services it enables; the rest of it is forgotten.
Wire ==
    /\ phase = "loading" /\ stage = "accepted"
    /\ enabled' = EnabledBy(values)
    /\ phase' = IF ServerLogs(values) THEN "starting" ELSE "failed"
    /\ stage' = "built" /\ values' = DefaultValues
    /\ input' = NoInput
    /\ UNCHANGED <<at, tasks, ready, stopped, siblings, waiting, busy, heard, gaveUp>>

-----------------------------------------------------------------------------
(* Startup.                                                                *)

\* start() of the next service; a disabled one does nothing and is not waited for.
StartNext ==
    /\ phase = "starting" /\ at <= Len(StartOrder)
    /\ LET s == StartOrder[at]
       IN  IF s \in enabled
           THEN /\ phase' = "awaiting" /\ tasks' = tasks \cup {s}
                /\ ready' = IF s \in {"worker", "reconciler", "retention"}
                            THEN ready \cup {s} ELSE ready
                /\ UNCHANGED at
           ELSE at' = at + 1 /\ UNCHANGED <<phase, tasks, ready>>
    /\ UNCHANGED <<loaderVars, enabled, stopped, siblings, waiting, busy, heard, gaveUp>>

\* LISTEN succeeds, at once or after reconnections.
ListenerReady ==
    /\ "listener" \in tasks /\ "listener" \notin ready
    /\ ready' = ready \cup {"listener"} /\ heard' = TRUE
    /\ UNCHANGED <<loaderVars, enabled, phase, at, tasks, stopped, siblings, waiting, busy,
                   gaveUp>>

\* The connection fails, until the listener has another.
ListenerLost ==
    /\ "listener" \in ready
    /\ ready' = ready \ {"listener"}
    /\ UNCHANGED <<loaderVars, enabled, phase, at, tasks, stopped, siblings, waiting, busy,
                   heard, gaveUp>>

AwaitForever ==
    /\ phase = "awaiting" /\ StartOrder[at] \in ready
    /\ phase' = "starting" /\ at' = at + 1
    /\ UNCHANGED <<loaderVars, enabled, tasks, ready, stopped, siblings, waiting, busy, heard, gaveUp>>

\* wait_until_ready returns: the service is ready, or its time is over.
Await ==
    /\ phase = "awaiting"
    /\ phase' = "starting" /\ at' = at + 1
    /\ gaveUp' = (gaveUp \/ (StartOrder[at] = "listener" /\ "listener" \notin ready))
    /\ UNCHANGED <<loaderVars, enabled, tasks, ready, stopped, siblings, waiting, busy, heard>>

Serve ==
    /\ phase = "starting" /\ at > Len(StartOrder)
    /\ phase' = "serving"
    /\ UNCHANGED <<loaderVars, enabled, at, tasks, ready, stopped, siblings, waiting, busy,
                   heard, gaveUp>>

-----------------------------------------------------------------------------
(* Work.                                                                   *)

\* A task awaits asyncio.to_thread.
AskForThread(s) ==
    /\ s \in tasks /\ Jobs(s) < Width(s) /\ Len(waiting) < MaxQueue
    /\ s = "listener" => s \in ready
    /\ waiting' = Append(waiting, s)
    /\ UNCHANGED <<loaderVars, enabled, phase, at, tasks, ready, stopped, siblings, busy,
                   heard, gaveUp>>

\* A thread of the pool takes the oldest job, and drops it if it is cancelled.
BeginJob ==
    /\ waiting # <<>> /\ Threads < PoolSize
    /\ busy' = IF Head(waiting) = Cancelled THEN busy
               ELSE [busy EXCEPT ![Head(waiting)] = @ + 1]
    /\ waiting' = Tail(waiting)
    /\ UNCHANGED <<loaderVars, enabled, phase, at, tasks, ready, stopped, siblings, heard, gaveUp>>

\* A job returns or raises.  The first one of the consumer is its catch-up.
EndJob(s) ==
    /\ busy[s] > 0
    /\ busy' = [busy EXCEPT ![s] = @ - 1]
    /\ ready' = IF s = "consumer" /\ s \in tasks THEN ready \cup {s} ELSE ready
    /\ UNCHANGED <<loaderVars, enabled, phase, at, tasks, stopped, siblings, waiting, heard, gaveUp>>

\* A delivery of the worker raises: gather raises at once, and neither awaits
\* nor cancels its siblings.  Those with a thread keep it, those in the queue of
\* the pool stay there, and those that wait for their semaphore, any number of
\* them, will ask for a thread later.
GatherFails ==
    /\ "worker" \in tasks /\ busy["worker"] > 0
    /\ busy' = [busy EXCEPT !["worker"] = 0, ![Sibling] = @ + busy["worker"] - 1]
    /\ waiting' = [i \in DOMAIN waiting |->
                      IF waiting[i] = "worker" THEN Sibling ELSE waiting[i]]
    /\ LET left == Outliving + Jobs("worker") - 1
       IN  /\ left <= MaxSiblings
           /\ siblings' \in siblings..siblings + (MaxSiblings - left)
    /\ UNCHANGED <<loaderVars, enabled, phase, at, tasks, ready, stopped, heard, gaveUp>>

\* A sibling gets its semaphore, at any time here, and awaits asyncio.to_thread.
SiblingAsks ==
    /\ siblings > 0 /\ siblings' = siblings - 1
    /\ waiting' = Append(waiting, Sibling)
    /\ UNCHANGED <<loaderVars, enabled, phase, at, tasks, ready, stopped, busy, heard, gaveUp>>

-----------------------------------------------------------------------------
(* Shutdown.                                                               *)

Signal ==
    /\ phase = "serving"
    /\ phase' = "stopping" /\ at' = 1
    /\ UNCHANGED <<loaderVars, enabled, tasks, ready, stopped, siblings, waiting, busy, heard, gaveUp>>

StopLeavesJobs ==
    /\ phase = "stopping" /\ at <= Len(StopOrder)
    /\ tasks' = tasks \ {StopOrder[at]} /\ ready' = ready \ {StopOrder[at]}
    /\ stopped' = stopped \cup {StopOrder[at]} /\ at' = at + 1
    /\ UNCHANGED <<loaderVars, enabled, phase, siblings, waiting, busy, heard, gaveUp>>

\* The jobs of an owner that no thread has taken yet are cancelled, and stay in
\* the queue until a thread drops them.
WithoutJobs(owner) ==
    [i \in DOMAIN waiting |-> IF waiting[i] = owner THEN Cancelled ELSE waiting[i]]

\* stop() of the next service: the task is cancelled, and with it the jobs that
\* it awaits; a thread at work goes on, and so does every sibling.
StopNext ==
    /\ phase = "stopping" /\ at <= Len(StopOrder)
    /\ LET s == StopOrder[at]
       IN  /\ tasks' = tasks \ {s} /\ ready' = ready \ {s}
           /\ stopped' = stopped \cup {s}
           /\ waiting' = WithoutJobs(s)
    /\ at' = at + 1
    /\ UNCHANGED <<loaderVars, enabled, phase, siblings, busy, heard, gaveUp>>

\* The engine is disposed of; threads at work keep their connections.
Dispose ==
    /\ phase = "stopping" /\ at > Len(StopOrder)
    /\ phase' = "disposed"
    /\ UNCHANGED <<loaderVars, enabled, at, tasks, ready, stopped, siblings, waiting, busy,
                   heard, gaveUp>>

\* The server is done: asyncio.run cancels the tasks that are left.
LoopEnds ==
    /\ phase = "disposed"
    /\ phase' = "closing" /\ siblings' = 0 /\ waiting' = WithoutJobs(Sibling)
    /\ UNCHANGED <<loaderVars, enabled, at, tasks, ready, stopped, busy, heard, gaveUp>>

\* The event loop waits for the threads of its pool before the process ends.
End ==
    /\ phase = "closing" /\ Threads = 0
    /\ phase' = "ended"
    /\ UNCHANGED <<loaderVars, enabled, at, tasks, ready, stopped, siblings, waiting, busy,
                   heard, gaveUp>>

-----------------------------------------------------------------------------
Lifespan ==
    Wire \/ StartNext \/ Await \/ Serve \/ StopNext \/ Dispose \/ LoopEnds \/ End

Next ==
    \/ LoadStep \/ Lifespan \/ ListenerReady \/ ListenerLost \/ Signal
    \/ GatherFails \/ SiblingAsks \/ BeginJob
    \/ \E s \in Services : AskForThread(s)
    \/ \E s \in Owners : EndJob(s)

Spec == Init /\ [][Next]_vars

\* The loop runs lifespan, and the jobs end: each is one transaction, one
\* webhook with its time limit, or one catch-up or cycle with its limits.
\* Nothing is assumed of LISTEN.
FairSpec ==
    /\ Spec
    /\ WF_vars(LoadStep) /\ WF_vars(Lifespan)
    /\ WF_vars(BeginJob) /\ \A s \in Owners : WF_vars(EndJob(s))

-----------------------------------------------------------------------------
(* Properties.                                                             *)

\* The consumer starts, and reads its catch-up, after LISTEN has come up, so
\* that no event falls between the two, unless LISTEN did not come up in time
\* or the configuration has no listener.  (AlertConsumer builds on this.)
NoGapAtStart ==
    "consumer" \in tasks =>
        \/ heard \/ gaveUp
        \/ "listener" \notin enabled

\* No thread begins anything for a service whose stop() has returned, however
\* long the queue of the pool was, except for the worker the deliveries that
\* gathers which failed before had left behind: no other joins them.
StopIsFinal ==
    [][/\ \A s \in stopped : busy'[s] <= busy[s]
       /\ "worker" \in stopped => Outliving' <= Outliving]_vars

\* A process with an accepted configuration serves in the end, whether or not
\* LISTEN ever succeeds, unless uvicorn refuses its log level, and one that was
\* told to stop ends, whatever a failed gather left behind.
StartsAndEnds ==
    /\ stage = "accepted" /\ ServerLogs(values) ~> phase = "serving"
    /\ phase = "stopping" ~> phase = "ended"
=============================================================================
