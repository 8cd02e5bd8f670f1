------------------------------- MODULE Console -------------------------------
(***************************************************************************)
(* The live activity page: it loads the newest page of the timeline, then  *)
(* opens the activity stream, and after every later connection asks the    *)
(* timeline, page by page, for what it missed while live events wait in a  *)
(* buffer.  Older pages and reloads run beside that, several reloads at    *)
(* once; every request is an await during which events, disconnects and    *)
(* other replies are handled, so that the replies come in any order.       *)
(*                                                                         *)
(* A page of the timeline is what Timeline shows it to be, the first N of  *)
(* the events committed (TimelinePages); it is taken as read at one        *)
(* instant.  The stream gives a connected console each published event     *)
(* once, as ActivityStream does, and nothing to one that is not connected. *)
(* Filters are left out: the events are those the filters admit.           *)
(***************************************************************************)
EXTENDS TimelinePages

CONSTANTS
    Events,       \* records [at, id]
    Cap,          \* of the store
    HistoryPage,  \* events of a page of history
    RecoveryPage, \* DEFAULT_PAGE_LIMIT
    MaxPages,     \* pages one recovery asks for
    Overlap,      \* DEFAULT_OVERLAP_MS
    MaxLoads,         \* bound of the model: calls of loadInitialHistory at once
    MaxDisturbances   \* bound of the model: disconnects, failed requests,
                      \* reloads and older pages together

ConsoleAssumption ==
    /\ IsFiniteSet(Events)
    /\ Events \subseteq [at : Nat \ {0}, id : Seq(Nat)]
    /\ \A e, f \in Events : Len(e.id) = Len(f.id)
    /\ {Cap, HistoryPage, RecoveryPage, MaxPages} \subseteq Nat \ {0}
    /\ Overlap \in Nat
    /\ MaxLoads \in Nat \ {0} /\ MaxDisturbances \in Nat
ASSUME ConsoleAssumption

VARIABLES
    committed,    \* events the timeline can show
    published,    \* events whose notification was broadcast
    connected, wire,   \* the socket and the messages on it
    disturbances,      \* what the bound counts
    store,        \* the events shown
    lastProcessed,
    connectedOnce,\* hasConnectedOnce
    recovery,     \* the recovery: its stage, window, cursor, pages, collected
    liveBuffer,
    history,      \* each call of loadInitialHistory: its stage and reply
    older,        \* the request of loadOlder: its stage, cursor and reply
    nextCursor,   \* of the history
    loadingHistory,
    started,      \* init has its first page and opens the socket
    reach,        \* history: how far back the pages loaded so far reach
    excused       \* history: events missing for a known reason

stream == <<committed, published>>
socket == <<connected, wire>>
feed   == <<store, lastProcessed, connectedOnce>>
recov  == <<recovery, liveBuffer>>
pages  == <<history, older, nextCursor, loadingHistory, started, reach>>
consoleVars == <<stream, socket, feed, recov, pages, disturbances, excused>>

Ready == [kind |-> "connection.ready"]
LiveEvent(e) == [kind |-> "timeline.event", event |-> e]

-----------------------------------------------------------------------------
(* Pages and the store.                                                    *)

ServedPage(S, cursor, sort, n) ==
    Page(FirstOf(AfterCursor(S, cursor, sort), n + 1, sort), n)
NoReply == [items |-> << >>, next |-> NoCursor]

\* enforceCap: the newest Cap events stay.
UpsertMany(S, new) ==
    LET all == S \cup new
    IN  {e \in all : Rank(all, e, "desc") < Cap}

\* noteProcessed of each event of S.
NoteProcessed(last, S) ==
    LET all == {Position(e) : e \in S} \cup ({last} \ {NoCursor})
    IN  IF all = {} THEN NoCursor
        ELSE CHOOSE p \in all : \A q \in all \ {p} : Before(q, p, "asc")

NewerOrAt(p, e) == p = NoCursor \/ ~Before(p, e, "desc")
\* Dropped by the cap: older than all of a full store.
BelowCap(e) == Cardinality(store) = Cap /\ \A s \in store : Before(e, s, "asc")

NotRecovering == [stage |-> "none", after |-> 0, cursor |-> NoCursor, pages |-> 0,
                  collected |-> {}, reply |-> NoReply]
Recovering == recovery.stage # "none"
Idle(c) == [stage |-> "none", cursor |-> c, reply |-> NoReply]
AskedFor(c) == [stage |-> "asked", cursor |-> c, reply |-> NoReply]

\* A call takes the first place free; until started, place 1 is init's.
Loads == 1..MaxLoads
Free == {l \in Loads : /\ history[l].stage = "none"
                       /\ \A k \in 1..(l - 1) : history[k].stage # "none"}

\* What the console has or still has under way.
OnWire == {wire[i].event : i \in {j \in DOMAIN wire : wire[j] # Ready}}
UnderWay == store \cup liveBuffer \cup OnWire
                \cup recovery.collected \cup ItemsOf(recovery.reply)

-----------------------------------------------------------------------------
ConsoleInit ==
    /\ committed = {} /\ published = {}
    /\ connected = FALSE /\ wire = << >>
    /\ disturbances = 0
    /\ store = {} /\ lastProcessed = NoCursor /\ connectedOnce = FALSE
    /\ recovery = NotRecovering /\ liveBuffer = {}
    /\ history = [l \in Loads |->
                     [Idle(NoCursor) EXCEPT !.stage = IF l = 1 THEN "due" ELSE "none"]]
    /\ older = Idle(NoCursor)
    /\ nextCursor = NoCursor /\ loadingHistory = FALSE /\ started = FALSE
    /\ reach = NoCursor /\ excused = {}

(* The other processes: an event is committed and, later and in any order, *)
(* broadcast to the consoles that are connected.                           *)
CommitEvent ==
    \E e \in Events \ committed :
        /\ committed' = committed \cup {e}
        /\ UNCHANGED <<published, socket, feed, recov, pages, disturbances, excused>>

PublishEvent ==
    \E e \in committed \ published :
        /\ published' = published \cup {e}
        /\ wire' = IF connected THEN Append(wire, LiveEvent(e)) ELSE wire
        /\ UNCHANGED <<committed, connected, feed, recov, pages, disturbances, excused>>

-----------------------------------------------------------------------------
(* ws.js.  The server registers the connection and says so first; what is  *)
(* on the wire is lost when it breaks, and the socket is opened again.     *)

Connect ==
    /\ started /\ ~connected
    /\ connected' = TRUE
    /\ wire' = <<Ready>>
    /\ UNCHANGED <<stream, feed, recov, pages, disturbances, excused>>

Disconnect ==
    /\ connected /\ disturbances < MaxDisturbances
    /\ connected' = FALSE
    /\ wire' = << >>
    /\ disturbances' = disturbances + 1
    /\ UNCHANGED <<stream, feed, recov, pages, excused>>

Received(kind) == wire # << >> /\ Head(wire).kind = kind

\* The first connection is live at once; what was broadcast after the first
\* page was read and before the registration is never asked for.
FirstReady ==
    /\ Received("connection.ready") /\ ~connectedOnce
    /\ wire' = Tail(wire)
    /\ connectedOnce' = TRUE
    /\ excused' = excused \cup {e \in published \ UnderWay : NewerOrAt(reach, e)}
    /\ UNCHANGED <<stream, connected, store, lastProcessed, recov, pages, disturbances>>

WindowStart ==
    IF lastProcessed.at > Overlap THEN lastProcessed.at - Overlap ELSE 0

\* Every later one runs the recovery.  What the window does not cover stays
\* missing.
RunRecovery ==
    /\ Received("connection.ready") /\ connectedOnce /\ ~Recovering
    /\ wire' = Tail(wire)
    /\ recovery' = [NotRecovering EXCEPT !.stage = "asked", !.after = WindowStart]
    /\ liveBuffer' = {}
    /\ excused' = excused \cup {e \in published \ UnderWay : e.at < WindowStart}
    /\ UNCHANGED <<stream, connected, feed, pages, disturbances>>

\* A connection made while the recovery of the one before still runs: no
\* recovery of its own.
ReadyWhileRecovering ==
    /\ Received("connection.ready") /\ connectedOnce /\ Recovering
    /\ wire' = Tail(wire)
    /\ excused' = excused \cup {e \in published \ UnderWay : NewerOrAt(reach, e)}
    /\ UNCHANGED <<stream, connected, feed, recov, pages, disturbances>>

\* main.js onEvent.
OnEvent ==
    /\ Received("timeline.event")
    /\ wire' = Tail(wire)
    /\ LET e == Head(wire).event
       IN  IF Recovering
           THEN /\ liveBuffer' = liveBuffer \cup {e}
                /\ UNCHANGED <<store, lastProcessed>>
           ELSE /\ store' = UpsertMany(store, {e})
                /\ lastProcessed' = NoteProcessed(lastProcessed, {e})
                /\ UNCHANGED liveBuffer
    /\ UNCHANGED <<stream, connected, connectedOnce, recovery, pages, disturbances, excused>>

-----------------------------------------------------------------------------
(* recovery.js fetchOverlapWindow: the server answers a page, then the     *)
(* console goes on with it.                                                *)

ServeRecoveryPage ==
    /\ recovery.stage = "asked"
    /\ LET window == {e \in committed : e.at >= recovery.after}
       IN  recovery' = [recovery EXCEPT
             !.stage = "answered",
             !.reply = ServedPage(window, recovery.cursor, "asc", RecoveryPage)]
    /\ UNCHANGED <<stream, socket, feed, liveBuffer, pages, disturbances, excused>>

Collected == recovery.collected \cup ItemsOf(recovery.reply)
LastPage ==
    \/ recovery.reply.next = NoCursor
    \/ recovery.pages + 1 >= MaxPages

\* The page is asked for again, uncounted.
TakeSamePage ==
    /\ recovery.stage = "answered" /\ ~LastPage
    /\ recovery' = [recovery EXCEPT !.stage = "asked",
                                    !.collected = Collected,
                                    !.reply = NoReply]
    /\ UNCHANGED <<stream, socket, feed, liveBuffer, pages, disturbances, excused>>
TakeRecoveryPage ==
    /\ recovery.stage = "answered" /\ ~LastPage
    /\ recovery' = [recovery EXCEPT !.stage = "asked",
                                    !.cursor = recovery.reply.next,
                                    !.pages = @ + 1,
                                    !.collected = Collected,
                                    !.reply = NoReply]
    /\ UNCHANGED <<stream, socket, feed, liveBuffer, pages, disturbances, excused>>

\* The buffer is forgotten.
MergedWithoutBuffer == UpsertMany(store, Collected)
Merged == UpsertMany(UpsertMany(store, Collected), liveBuffer)

FinishRecovery ==
    /\ recovery.stage = "answered" /\ LastPage
    /\ store' = Merged
    /\ lastProcessed' = NoteProcessed(lastProcessed, store')
    /\ recovery' = NotRecovering
    /\ liveBuffer' = {}
    /\ excused' = IF recovery.reply.next = NoCursor THEN excused
                  ELSE excused \cup {e \in published \ UnderWay :
                                        Before(recovery.reply.next, e, "asc")}
    /\ UNCHANGED <<stream, socket, connectedOnce, pages, disturbances>>

\* After a failure the recovery is over too ("finally").
FailRecovery ==
    /\ Recovering /\ disturbances < MaxDisturbances
    /\ disturbances' = disturbances + 1
    /\ store' = UpsertMany(store, liveBuffer)
    /\ recovery' = NotRecovering
    /\ liveBuffer' = {}
    /\ excused' = excused \cup {e \in published \ (store \cup liveBuffer \cup OnWire) :
                                   NewerOrAt(reach, e)}
    /\ UNCHANGED <<stream, socket, lastProcessed, connectedOnce, pages>>

-----------------------------------------------------------------------------
(* main.js: the history.                                                   *)

\* init calls it after the health probe; the form of the filters is wired
\* before, and nothing holds it back while a page is under way.
LoadInitialHistory ==
    /\ \/ /\ history[1].stage = "due"
          /\ history' = [history EXCEPT ![1] = AskedFor(NoCursor)]
          /\ UNCHANGED disturbances
       \/ /\ disturbances < MaxDisturbances
          /\ disturbances' = disturbances + 1
          /\ \E l \in Free : history' = [history EXCEPT ![l] = AskedFor(NoCursor)]
    /\ loadingHistory' = TRUE
    /\ nextCursor' = NoCursor
    /\ UNCHANGED <<stream, socket, feed, recov, older, started, reach, excused>>

ServeHistory(l) ==
    /\ history[l].stage = "asked"
    /\ history' = [history EXCEPT
                     ![l].stage = "answered",
                     ![l].reply = ServedPage(committed, NoCursor, "desc", HistoryPage)]
    /\ UNCHANGED <<stream, socket, feed, recov, older, nextCursor, loadingHistory,
                   started, reach, disturbances, excused>>

\* The page replaces the store, also one read before a page taken since: lost
\* is what it lacks of its span though it was shown, dropped by the cap, or
\* still to be loaded as older.
TakeHistory(l) ==
    /\ history[l].stage = "answered"
    /\ LET items == ItemsOf(history[l].reply)
           end == history[l].reply.next
           had == store \cup {e \in published : BelowCap(e) \/ ~NewerOrAt(reach, e)}
       IN  /\ store' = UpsertMany({}, items)
           /\ lastProcessed' = NoteProcessed(lastProcessed, items)
           /\ nextCursor' = end
           /\ reach' = end
           /\ excused' = excused \cup {e \in had \ items : NewerOrAt(end, e)}
    /\ history' = [history EXCEPT ![l] = Idle(NoCursor)]
    /\ loadingHistory' = FALSE
    /\ started' = (started \/ l = 1)
    /\ UNCHANGED <<stream, socket, connectedOnce, recov, older, disturbances>>

FailHistory(l) ==
    /\ history[l].stage \in {"asked", "answered"} /\ disturbances < MaxDisturbances
    /\ disturbances' = disturbances + 1
    /\ history' = [history EXCEPT ![l] = Idle(NoCursor)]
    /\ loadingHistory' = FALSE
    /\ started' = (started \/ l = 1)
    /\ UNCHANGED <<stream, socket, feed, recov, older, nextCursor, reach, excused>>

LoadOlder ==
    /\ older.stage = "none" /\ ~loadingHistory /\ nextCursor # NoCursor
    /\ disturbances < MaxDisturbances
    /\ disturbances' = disturbances + 1
    /\ older' = AskedFor(nextCursor)
    /\ UNCHANGED <<stream, socket, feed, recov, history, nextCursor, loadingHistory,
                   started, reach, excused>>

ServeOlder ==
    /\ older.stage = "asked"
    /\ older' = [older EXCEPT !.stage = "answered",
                   !.reply = ServedPage(committed, older.cursor, "desc", HistoryPage)]
    /\ UNCHANGED <<stream, socket, feed, recov, history, nextCursor, loadingHistory,
                   started, reach, disturbances, excused>>

\* A reply that a reload has overtaken moves the cursor past what lies between
\* the new page and this one.
TakeOlder ==
    /\ older.stage = "answered"
    /\ LET items == ItemsOf(older.reply)
       IN  /\ store' = UpsertMany(store, items)
           /\ excused' = excused \cup
                {e \in published \ (store \cup items) :
                    Before(reach, e, "desc") /\ NewerOrAt(older.reply.next, e)}
    /\ nextCursor' = older.reply.next
    /\ reach' = older.reply.next
    /\ older' = Idle(NoCursor)
    /\ UNCHANGED <<stream, socket, lastProcessed, connectedOnce, recov, history, loadingHistory,
                   started, disturbances>>

FailOlder ==
    /\ older.stage # "none" /\ disturbances < MaxDisturbances
    /\ disturbances' = disturbances + 1
    /\ older' = Idle(NoCursor)
    /\ UNCHANGED <<stream, socket, feed, recov, history, nextCursor, loadingHistory,
                   started, reach, excused>>

-----------------------------------------------------------------------------
ConsoleNext ==
    \/ CommitEvent \/ PublishEvent
    \/ Connect \/ Disconnect
    \/ FirstReady \/ RunRecovery \/ ReadyWhileRecovering \/ OnEvent
    \/ ServeRecoveryPage \/ TakeRecoveryPage \/ FinishRecovery \/ FailRecovery
    \/ LoadInitialHistory
    \/ \E l \in Loads : ServeHistory(l) \/ TakeHistory(l) \/ FailHistory(l)
    \/ LoadOlder \/ ServeOlder \/ TakeOlder \/ FailOlder

\* A request is answered and its answer handled.
Fairness == WF_recovery(ServeRecoveryPage \/ TakeRecoveryPage \/ FinishRecovery)

ConsoleSpec == ConsoleInit /\ [][ConsoleNext]_consoleVars /\ Fairness

-----------------------------------------------------------------------------
\* Live: connected, told so, and no recovery under way.
Settled == /\ connected /\ Ready \notin {wire[i] : i \in DOMAIN wire}
           /\ connectedOnce /\ ~Recovering

(* A console that is live has every event that was broadcast, but for      *)
(* those older than the pages it has loaded, those its cap dropped, and    *)
(* those of the gaps of the protocol: before the first connection, behind  *)
(* the window or past the last page of a recovery, of a recovery that      *)
(* failed or was skipped because another still ran, events a reload lost   *)
(* by replacing the store with an older reading, and those an older page   *)
(* skipped because a reload had overtaken it.  Whatever else is            *)
(* interleaved loses nothing.                                              *)
NoGapUnlessExcused ==
    Settled => \A e \in published \ (UnderWay \cup excused) :
                   BelowCap(e) \/ ~NewerOrAt(reach, e)

(* runRecovery always comes to an end, however many live events and        *)
(* disconnects come in between, so that live events do not stay in the     *)
(* buffer: the pages are bounded and a failure ends it too.                *)
RecoveryEnds == []<>~Recovering
=============================================================================
