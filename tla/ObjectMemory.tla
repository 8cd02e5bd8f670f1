---------------------------- MODULE ObjectMemory ----------------------------
(***************************************************************************)
(* The vision process.  jarvis_ai.main starts the services, publishes the  *)
(* detections of one frame after another and stops the services.           *)
(* MemoryService matches detections with the objects it remembers and      *)
(* publishes their life, which IdentityHistoryService sums up.             *)
(*                                                                         *)
(* There is one thread and the bus calls handlers in it, so a frame is     *)
(* handled step by step in the order of the code.  Only a                  *)
(* KeyboardInterrupt, which the bus does not catch, ends it half way.      *)
(* Of an object the model keeps its label and its box.                     *)
(***************************************************************************)
EXTENDS Integers, Sequences, FiniteSets

CONSTANTS
    Detections,             \* label and box of what the detector may report
    IouNum, IouDen,         \* iou_threshold
    MaxMissed,              \* max_missed_frames
    MaxDetections, MaxFrames        \* bounds

\* Without an area a detection is dropped by _decode_output.
ASSUME DetectionsAssumption ==
    \A d \in Detections :
       /\ d.box \in [x1 : Int, y1 : Int, x2 : Int, y2 : Int]
       /\ d.box.x1 < d.box.x2 /\ d.box.y1 < d.box.y2
ASSUME MemoryAssumption ==
    /\ IouNum \in Nat /\ IouDen \in Nat \ {0} /\ IouNum <= IouDen
    /\ MaxMissed \in Nat /\ MaxDetections \in Nat /\ MaxFrames \in Nat

VARIABLES
    stage,              \* of main
    subscribers,        \* services subscribed to the bus
    frame_id,
    detections,         \* of the last frame
    phase,              \* of handle_frame
    candidates,         \* pairs of a track and a detection that overlap
    matched,            \* the detection of each matched track
    index,              \* of the loop over new detections
    tracks, next_track_id,
    histories, session_frames,      \* by identity
    interrupted         \* in the middle of handle_frame

frameVars == <<detections, candidates, matched, index>>
trackVars == <<tracks, next_track_id>>
historyVars == <<histories, session_frames>>
mainVars == <<stage, subscribers, frame_id>>
vars == <<mainVars, phase, frameVars, trackVars, historyVars, interrupted>>

Labels == {d.label : d \in Detections}
Boxes == {d.box : d \in Detections}
TrackIds == Nat \ {0}
Identities == Labels \X TrackIds        \* label-track_id

Tracked == [label : Labels, box : Boxes, last_seen : Nat,
            frames_seen : Nat \ {0}, missed_frames : Nat]
History == [appearance_count : Nat \ {0}, total_frames_seen : Nat,
            active : BOOLEAN]

Starting == <<"persistence", "history", "entity_memory", "memory">>
Stopping == <<"memory", "entity_memory", "persistence", "history">>
Services == {"persistence", "history", "entity_memory", "memory"}

Init ==
    /\ stage = "starting" /\ subscribers = {} /\ frame_id = 0
    /\ detections = <<>> /\ phase = "idle"
    /\ candidates = {} /\ matched = <<>> /\ index = 1
    /\ tracks = <<>> /\ next_track_id = 1
    /\ histories = <<>> /\ session_frames = <<>>
    /\ interrupted = FALSE
-----------------------------------------------------------------------------
(* The overlap of two boxes, as the fraction Intersection / Union.         *)

Larger(a, b) == IF a >= b THEN a ELSE b
Smaller(a, b) == IF a <= b THEN a ELSE b

Area(b) == (b.x2 - b.x1) * (b.y2 - b.y1)

Intersection(a, b) ==
    Larger(0, Smaller(a.x2, b.x2) - Larger(a.x1, b.x1))
      * Larger(0, Smaller(a.y2, b.y2) - Larger(a.y1, b.y1))

Union(a, b) == Area(a) + Area(b) - Intersection(a, b)

CloseEnough(a, b) == Intersection(a, b) * IouDen >= IouNum * Union(a, b)

Candidates(ds) ==
    {[track |-> p[1], detection |-> p[2],
      shared |-> Intersection(tracks[p[1]].box, ds[p[2]].box),
      union |-> Union(tracks[p[1]].box, ds[p[2]].box)] :
       p \in {q \in (DOMAIN tracks) \X (DOMAIN ds) :
                /\ tracks[q[1]].label = ds[q[2]].label
                /\ CloseEnough(tracks[q[1]].box, ds[q[2]].box)}}

Overlaps(c, d) == c.shared * d.union > d.shared * c.union

PrecedesAscending(c, d) ==
    \/ Overlaps(d, c)
    \/ ~ Overlaps(c, d) /\ c.track < d.track
    \/ /\ ~ Overlaps(c, d) /\ c.track = d.track
       /\ c.detection < d.detection
\* The stable sort leaves ties in the order of tracks, then of detections.
Precedes(c, d) ==
    \/ Overlaps(c, d)
    \/ /\ ~ Overlaps(d, c)
       /\ \/ c.track < d.track
          \/ c.track = d.track /\ c.detection < d.detection

Taken == {matched[t] : t \in DOMAIN matched}

Open == {c \in candidates : /\ c.track \notin DOMAIN matched
                            /\ c.detection \notin Taken}

Expired == {t \in DOMAIN tracks : tracks[t].missed_frames > MaxMissed}

New == {k \in DOMAIN detections : k >= index /\ k \notin Taken}

Put(f, k, v) == [x \in (DOMAIN f) \union {k} |-> IF x = k THEN v ELSE f[x]]
Without(f, k) == [x \in (DOMAIN f) \ {k} |-> f[x]]
-----------------------------------------------------------------------------
(* IdentityHistoryService.handle_object_event.                             *)

Identity(t, track) == <<track.label, t>>

FirstHeard(kind, track) ==
    [appearance_count |-> 1, total_frames_seen |-> track.frames_seen,
     active |-> kind # "exited"]

Entered(h, track) ==
    [appearance_count |-> h.appearance_count + 1,
     total_frames_seen |-> h.total_frames_seen + track.frames_seen,
     active |-> TRUE]

ContinuedWhole(kind, h, previous, track) ==
    [appearance_count |-> h.appearance_count,
     total_frames_seen |-> h.total_frames_seen + track.frames_seen,
     active |-> kind # "exited"]
\* Frames are cumulative within an appearance: only the new ones count.
Continued(kind, h, previous, track) ==
    [appearance_count |-> h.appearance_count,
     total_frames_seen |->
        h.total_frames_seen + Larger(0, track.frames_seen - previous),
     active |-> kind # "exited"]

PreviousFrames(i) == IF i \in DOMAIN session_frames THEN session_frames[i] ELSE 0

HistoryAfter(kind, i, track) ==
    IF i \notin DOMAIN histories THEN FirstHeard(kind, track)
    ELSE IF kind = "entered" THEN Entered(histories[i], track)
    ELSE Continued(kind, histories[i], PreviousFrames(i), track)

Hear(kind, i, track) ==
    /\ histories' = Put(histories, i, HistoryAfter(kind, i, track))
    /\ session_frames' = IF kind = "exited" THEN Without(session_frames, i)
                         ELSE Put(session_frames, i, track.frames_seen)

\* The track has changed; the event reaches its subscribers, or the program is
\* interrupted before.
PublishTrack(kind, t, track) ==
    \/ /\ IF "history" \in subscribers THEN Hear(kind, Identity(t, track), track)
          ELSE UNCHANGED historyVars
       /\ UNCHANGED <<mainVars, interrupted>>
    \/ /\ stage' = "closing" /\ interrupted' = TRUE
       /\ UNCHANGED <<subscribers, frame_id, historyVars>>
-----------------------------------------------------------------------------
(* MemoryService.handle_frame.                                             *)

Frames == UNION {[1 .. n -> Detections] : n \in 0 .. MaxDetections}

\* One turn of main's loop: read, detect and publish_frame_processed.
ProcessFrame(ds) ==
    /\ stage = "running" /\ phase = "idle" /\ "memory" \in subscribers
    /\ frame_id < MaxFrames
    /\ frame_id' = frame_id + 1
    /\ detections' = ds
    /\ candidates' = Candidates(ds) /\ matched' = <<>> /\ index' = 1
    /\ phase' = "match"
    /\ UNCHANGED <<stage, subscribers, trackVars, historyVars, interrupted>>

Matched(t, d) == [label |-> tracks[t].label, box |-> d.box,
                  last_seen |-> frame_id,
                  frames_seen |-> tracks[t].frames_seen + 1,
                  missed_frames |-> 0]

MatchBest ==
    /\ stage = "running" /\ phase = "match"
    /\ \E c \in Open :
         /\ \A d \in Open \ {c} : Precedes(c, d)
         /\ LET track == Matched(c.track, detections[c.detection]) IN
              /\ tracks' = Put(tracks, c.track, track)
              /\ matched' = Put(matched, c.track, c.detection)
              /\ PublishTrack("updated", c.track, track)
    /\ UNCHANGED <<phase, detections, candidates, index, next_track_id>>

Missing(track) == [track EXCEPT !.missed_frames = @ + 1]

CountMissing ==
    /\ stage = "running" /\ phase = "match" /\ Open = {}
    /\ tracks' = [t \in DOMAIN tracks |->
                    IF t \in DOMAIN matched THEN tracks[t] ELSE Missing(tracks[t])]
    /\ phase' = "expire"
    /\ UNCHANGED <<mainVars, frameVars, next_track_id, historyVars, interrupted>>

ExpireOldest ==
    /\ stage = "running" /\ phase = "expire"
    /\ \E t \in Expired :
         /\ \A u \in Expired : t <= u
         /\ tracks' = Without(tracks, t)
         /\ PublishTrack("exited", t, tracks[t])
    /\ UNCHANGED <<phase, frameVars, next_track_id>>

AllExpired ==
    /\ stage = "running" /\ phase = "expire" /\ Expired = {}
    /\ phase' = "enter"
    /\ UNCHANGED <<mainVars, frameVars, trackVars, historyVars, interrupted>>

NewTrack(d) == [label |-> d.label, box |-> d.box, last_seen |-> frame_id,
                frames_seen |-> 1, missed_frames |-> 0]

FreeNumber == CHOOSE n \in 1 .. next_track_id : /\ n \notin DOMAIN tracks
                                               /\ 1 .. n - 1 \subseteq DOMAIN tracks
Number == next_track_id
NumberAfter == next_track_id + 1

EnterNext ==
    /\ stage = "running" /\ phase = "enter"
    /\ \E k \in New :
         /\ \A j \in New : k <= j
         /\ LET track == NewTrack(detections[k]) IN
              /\ tracks' = Put(tracks, Number, track)
              /\ PublishTrack("entered", Number, track)
         /\ index' = k + 1
    /\ next_track_id' = NumberAfter
    /\ UNCHANGED <<phase, detections, candidates, matched>>

FrameDone ==
    /\ stage = "running" /\ phase = "enter" /\ New = {}
    /\ phase' = "idle" /\ candidates' = {} /\ matched' = <<>> /\ index' = 1
    /\ UNCHANGED <<mainVars, detections, trackVars, historyVars, interrupted>>
-----------------------------------------------------------------------------
(* jarvis_ai.main.                                                         *)

Fail == /\ stage' = "closing"
        /\ UNCHANGED <<subscribers, frame_id>>

\* The first service in an order for which P holds.
First(order, k, P) == P[order[k]] /\ \A j \in 1 .. k - 1 : ~ P[order[j]]

\* create_run of the persistence service may fail.
StartService ==
    /\ stage = "starting"
    /\ \E k \in DOMAIN Starting :
         /\ First(Starting, k, [s \in Services |-> s \notin subscribers])
         /\ \/ /\ subscribers' = subscribers \union {Starting[k]}
               /\ UNCHANGED <<stage, frame_id>>
            \/ Starting[k] = "persistence" /\ Fail
    /\ UNCHANGED <<phase, frameVars, trackVars, historyVars, interrupted>>

OpenCamera ==
    /\ stage = "starting" /\ subscribers = Services
    /\ \/ stage' = "running" /\ UNCHANGED <<subscribers, frame_id>>
       \/ Fail
    /\ UNCHANGED <<phase, frameVars, trackVars, historyVars, interrupted>>

\* The user quits, the camera gives no frame, the detector fails or times out.
EndLoop ==
    /\ stage = "running" /\ phase = "idle" /\ Fail
    /\ UNCHANGED <<phase, frameVars, trackVars, historyVars, interrupted>>

StopService ==
    /\ stage = "closing"
    /\ \/ \E k \in DOMAIN Stopping :
            /\ First(Stopping, k, [s \in Services |-> s \in subscribers])
            /\ subscribers' = subscribers \ {Stopping[k]}
            /\ UNCHANGED stage
       \/ subscribers = {} /\ stage' = "down" /\ UNCHANGED subscribers
    /\ UNCHANGED <<frame_id, phase, frameVars, trackVars, historyVars, interrupted>>

HandleFrame == MatchBest \/ CountMissing \/ ExpireOldest \/ AllExpired
               \/ EnterNext \/ FrameDone

Next == \/ StartService \/ OpenCamera \/ EndLoop \/ StopService
        \/ \E ds \in Frames : ProcessFrame(ds)
        \/ HandleFrame

Spec == Init /\ [][Next]_vars
-----------------------------------------------------------------------------
(* Properties.                                                             *)

\* Once the candidates of a frame are matched, no track and detection would
\* both rather have each other: a pair was left only for one of its two sides
\* that overlaps at least as much (handle_frame's greedy matching).
StableMatching ==
    phase \in {"expire", "enter"} =>
       \A c \in candidates : \E m \in candidates :
          /\ m.track \in DOMAIN matched /\ matched[m.track] = m.detection
          /\ m.track = c.track \/ m.detection = c.detection
          /\ ~ Overlaps(c, m)

\* The histories are those of the tracks: one appearance each, active as long as
\* the track is remembered, and every frame of it counted once, although the
\* service adds up differences of cumulative counts.
HistoriesOfTracks ==
    ~ interrupted =>
       \A i \in Labels \X (1 .. next_track_id - 1) :
          LET t == i[2]
              now == t \in DOMAIN tracks /\ tracks[t].label = i[1] IN
          /\ now => i \in DOMAIN histories
          /\ i \in DOMAIN histories =>
               /\ histories[i].appearance_count = 1
               /\ histories[i].active <=> now
               /\ now => histories[i].total_frames_seen = tracks[t].frames_seen

\* The histories go through the life of a track as its listeners expect it.
HistoryOf(t) == {i \in DOMAIN histories : i[2] = t}

Lives == INSTANCE TrackLifecycle WITH
    TrackIds <- 1 .. MaxFrames * MaxDetections,
    life <- [t \in 1 .. MaxFrames * MaxDetections |->
               IF HistoryOf(t) = {} THEN "unseen"
               ELSE IF \E i \in HistoryOf(t) : histories[i].active THEN "present"
               ELSE "gone"],
    frames <- [t \in 1 .. MaxFrames * MaxDetections |->
                 IF HistoryOf(t) = {} THEN 0
                 ELSE histories[CHOOSE i \in HistoryOf(t) : TRUE].total_frames_seen]

\* What is published about a track is its life: entered once and in order, then
\* updated by one frame at a time, then exited for good.
TrackLives == Lives!LifeSpec
=============================================================================
