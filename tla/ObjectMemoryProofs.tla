------------------------- MODULE ObjectMemoryProofs -------------------------
(***************************************************************************)
(* The matching of a frame is stable, the histories are those of the       *)
(* tracks, and what is published about a track is its life, for any        *)
(* detections, thresholds and number of frames, and wherever the program   *)
(* is interrupted.                                                         *)
(***************************************************************************)
EXTENDS ObjectMemory, TLAPS

USE DetectionsAssumption, MemoryAssumption

Candidate == [track : Nat, detection : Nat, shared : Int, union : Int]

Typed ==
    /\ frame_id \in 0 .. MaxFrames
    /\ detections \in Seq(Detections) /\ Len(detections) <= MaxDetections
    /\ phase \in {"idle", "match", "expire", "enter"}
    /\ candidates \subseteq Candidate
    /\ matched \in [DOMAIN matched -> Nat]
    /\ index \in Nat \ {0} /\ next_track_id \in Nat \ {0}
    /\ tracks \in [DOMAIN tracks -> Tracked]
    /\ DOMAIN tracks \subseteq 1 .. next_track_id - 1
    /\ histories \in [DOMAIN histories -> History]
    /\ DOMAIN histories \subseteq Labels \X (1 .. next_track_id - 1)

\* What is heard is complete while frames are handled, as every service
\* subscribes before the first frame and leaves after the last one.
Subscribed ==
    /\ interrupted \in BOOLEAN
    /\ stage = "running" => subscribers = Services
    /\ interrupted => stage \in {"closing", "down"}

\* Whatever was matched of a frame: a candidate is open still or was left for
\* one with a side of it that overlaps at least as much.
LeftFor(c) ==
    \E m \in candidates :
       /\ m.track \in DOMAIN matched /\ matched[m.track] = m.detection
       /\ m.track = c.track \/ m.detection = c.detection
       /\ ~ Overlaps(c, m)

Matching ==
    /\ phase = "match" => \A c \in candidates : /\ c.track \in DOMAIN tracks
                                                /\ c.detection \in DOMAIN detections
    /\ phase = "match" => \A c \in candidates : c \in Open \/ LeftFor(c)

\* A frame gives at most MaxDetections numbers to tracks.
Quota(frames) == frames * MaxDetections
Numbered ==
    IF phase = "idle" THEN next_track_id <= Quota(frame_id) + 1
    ELSE /\ frame_id \in Nat \ {0} /\ index <= Len(detections) + 1
         /\ next_track_id <= Quota(frame_id - 1) + index

\* Every number given has one history, in step with the track.
Present(i) == i[2] \in DOMAIN tracks /\ tracks[i[2]].label = i[1]
InStep ==
    ~ interrupted =>
       /\ \A t \in 1 .. next_track_id - 1 : HistoryOf(t) # {}
       /\ \A i, j \in DOMAIN histories : i[2] = j[2] => i = j
       /\ \A i \in DOMAIN histories :
             /\ histories[i].appearance_count = 1
             /\ histories[i].active <=> Present(i)
             /\ Present(i) => histories[i].total_frames_seen = tracks[i[2]].frames_seen
       /\ \A t \in DOMAIN tracks :
             LET i == Identity(t, tracks[t]) IN
             /\ i \in DOMAIN histories
             /\ PreviousFrames(i) = tracks[t].frames_seen

IInv == Typed /\ Subscribed /\ Matching /\ Numbered /\ InStep /\ StableMatching
-----------------------------------------------------------------------------
(* Overlaps and quotas.                                                    *)

LEMMA OverlapType ==
    ASSUME NEW a \in Boxes, NEW b \in Boxes
    PROVE  Intersection(a, b) \in Int /\ Union(a, b) \in Int
<1>1. /\ a.x1 \in Int /\ a.y1 \in Int /\ a.x2 \in Int /\ a.y2 \in Int
      /\ b.x1 \in Int /\ b.y1 \in Int /\ b.x2 \in Int /\ b.y2 \in Int
  BY DEF Boxes
<1>2. \A x, y \in Int : Larger(x, y) \in Int /\ Smaller(x, y) \in Int
  BY DEF Larger, Smaller
<1>3. \A x, y \in Int : x * y \in Int /\ x - y \in Int /\ x + y \in Int
  OBVIOUS
<1>4. Intersection(a, b) \in Int
  <2> DEFINE wide == Larger(0, Smaller(a.x2, b.x2) - Larger(a.x1, b.x1))
             high == Larger(0, Smaller(a.y2, b.y2) - Larger(a.y1, b.y1))
  <2>1. wide \in Int /\ high \in Int
    BY <1>1 DEF Larger, Smaller
  <2>2. Intersection(a, b) = wide * high
    BY DEF Intersection
  <2> HIDE DEF wide, high
  <2> QED
    BY <1>3, <2>1, <2>2
<1>5. Area(a) \in Int /\ Area(b) \in Int
  BY <1>1, <1>3 DEF Area
<1> QED
  BY <1>3, <1>4, <1>5 DEF Union

\* Of two candidates at most one overlaps more.
LEMMA OverlapsOneWay ==
    ASSUME NEW c \in Candidate, NEW d \in Candidate, Overlaps(c, d)
    PROVE  ~ Overlaps(d, c)
<1>1. /\ c.shared * d.union \in Int /\ d.shared * c.union \in Int
      /\ c.shared * d.union > d.shared * c.union
  BY DEF Candidate, Overlaps
<1>2. ~ (d.shared * c.union > c.shared * d.union)
  BY <1>1
<1> QED
  BY <1>2 DEF Overlaps

LEMMA CandidatesType ==
    ASSUME Typed, NEW ds \in Seq(Detections), NEW c \in Candidates(ds)
    PROVE  c \in Candidate /\ c.track \in DOMAIN tracks /\ c.detection \in DOMAIN ds
<1>1. PICK p \in (DOMAIN tracks) \X (DOMAIN ds) :
        c = [track |-> p[1], detection |-> p[2],
             shared |-> Intersection(tracks[p[1]].box, ds[p[2]].box),
             union |-> Union(tracks[p[1]].box, ds[p[2]].box)]
  BY DEF Candidates
<1>2. p[1] \in DOMAIN tracks /\ p[2] \in DOMAIN ds /\ p[1] \in Nat /\ p[2] \in Nat
  BY DEF Typed
<1>3. tracks[p[1]].box \in Boxes /\ ds[p[2]].box \in Boxes
  <2>1. tracks[p[1]] \in Tracked /\ ds[p[2]] \in Detections
    BY <1>2 DEF Typed
  <2> QED
    BY <2>1 DEF Tracked, Boxes
<1> QED
  BY <1>1, <1>2, <1>3, OverlapType DEF Candidate

LEMMA QuotaFacts ==
    ASSUME NEW n \in Nat
    PROVE  /\ Quota(n) \in Nat /\ Quota(n + 1) = Quota(n) + MaxDetections
           /\ \A m \in Nat : m <= n => Quota(m) <= Quota(n)
<1>1. MaxDetections \in Nat
  OBVIOUS
<1>2. Quota(n) \in Nat /\ Quota(n + 1) = Quota(n) + MaxDetections
  BY <1>1 DEF Quota
<1>3. ASSUME NEW m \in Nat, m <= n PROVE Quota(m) <= Quota(n)
  <2>1. PICK k \in Nat : n = m + k
    <3>1. n - m \in Nat /\ n = m + (n - m)
      BY <1>3
    <3> QED
      BY <3>1
  <2>2. Quota(n) = Quota(m) + k * MaxDetections /\ k * MaxDetections \in Nat
        /\ Quota(m) \in Nat
    BY <1>1, <2>1 DEF Quota
  <2> QED
    BY <2>2
<1> QED
  BY <1>2, <1>3

-----------------------------------------------------------------------------
(* What is heard.                                                          *)

\* An event is heard by the histories, unless the program is interrupted.
LEMMA Published ==
    ASSUME Subscribed, stage = "running", NEW kind, NEW t, NEW track,
           PublishTrack(kind, t, track)
    PROVE  /\ Subscribed' /\ frame_id' = frame_id
           /\ \/ ~ interrupted' /\ Hear(kind, Identity(t, track), track)
              \/ interrupted' /\ UNCHANGED historyVars
<1>1. "history" \in subscribers /\ interrupted = FALSE
  BY DEF Subscribed, Services
<1>2. CASE Hear(kind, Identity(t, track), track) /\ UNCHANGED <<mainVars, interrupted>>
  BY <1>1, <1>2 DEF Subscribed, mainVars
<1>3. CASE /\ stage' = "closing" /\ interrupted' = TRUE
           /\ UNCHANGED <<subscribers, frame_id, historyVars>>
  BY <1>3 DEF Subscribed
<1> QED
  BY <1>1, <1>2, <1>3 DEF PublishTrack

\* The history of one track goes on, begins or ends; no other changes.
OthersKept(i) ==
    \A j \in DOMAIN histories : j # i => histories'[j] = histories[j]
GoesOn(i) ==
    /\ i \in DOMAIN histories /\ DOMAIN histories' = DOMAIN histories
    /\ histories[i].active /\ histories'[i].active
    /\ histories'[i].total_frames_seen = histories[i].total_frames_seen + 1
    /\ OthersKept(i)
Begins(i) ==
    /\ HistoryOf(next_track_id) = {} /\ i[2] = next_track_id
    /\ DOMAIN histories' = DOMAIN histories \union {i}
    /\ histories'[i].active /\ histories'[i].total_frames_seen = 1
    /\ OthersKept(i)
Ends(i) ==
    /\ i \in DOMAIN histories /\ DOMAIN histories' = DOMAIN histories
    /\ histories[i].active /\ ~ histories'[i].active
    /\ histories'[i].total_frames_seen = histories[i].total_frames_seen
    /\ OthersKept(i)

\* A track that is updated: its history goes on with one frame more.
LEMMA UpdateHeard ==
    ASSUME Typed, InStep, ~ interrupted, NEW t \in DOMAIN tracks, NEW track \in Tracked,
           track.label = tracks[t].label, track.frames_seen = tracks[t].frames_seen + 1,
           Hear("updated", Identity(t, track), track),
           tracks' = Put(tracks, t, track), next_track_id' = next_track_id,
           NEW i, i = Identity(t, track)
    PROVE  GoesOn(i) /\ histories' \in [DOMAIN histories -> History] /\ InStep'
<1> DEFINE h == Continued("updated", histories[i], PreviousFrames(i), track)
<1>1. /\ i = <<tracks[t].label, t>> /\ i[1] = tracks[t].label /\ i[2] = t
      /\ i = Identity(t, tracks[t])
  BY DEF Identity
<1>2. i \in DOMAIN histories /\ PreviousFrames(i) = tracks[t].frames_seen
  BY <1>1 DEF InStep
<1>3. Present(i)
  BY <1>1 DEF Present
<1>4. /\ histories[i] \in History /\ histories[i].active /\ histories[i].appearance_count = 1
      /\ histories[i].total_frames_seen = tracks[t].frames_seen
      /\ tracks[t].frames_seen \in Nat
  BY <1>1, <1>2, <1>3 DEF InStep, Typed, Tracked
<1>5. /\ histories' = Put(histories, i, h)
      /\ session_frames' = Put(session_frames, i, track.frames_seen)
  BY <1>2 DEF Hear, HistoryAfter
<1>6. Larger(0, track.frames_seen - PreviousFrames(i)) = 1
  BY <1>2, <1>4 DEF Larger
<1>7. h.active /\ h.appearance_count = 1 /\ h.total_frames_seen = tracks[t].frames_seen + 1
      /\ h \in History
  BY <1>4, <1>6 DEF Continued, History
<1> HIDE DEF h
<1>8. /\ DOMAIN histories' = DOMAIN histories /\ histories'[i] = h
      /\ \A j \in DOMAIN histories : j # i => histories'[j] = histories[j]
      /\ histories' \in [DOMAIN histories -> History]
  <2>1. /\ DOMAIN histories' = DOMAIN histories \union {i} /\ histories'[i] = h
        /\ \A j \in DOMAIN histories : j # i => histories'[j] = histories[j]
        /\ histories' \in [DOMAIN histories \union {i} -> History]
    BY <1>5, <1>7 DEF Typed, Put
  <2>2. DOMAIN histories \union {i} = DOMAIN histories
    BY <1>2
  <2> QED
    BY <2>1, <2>2
<1>9. /\ DOMAIN tracks' = DOMAIN tracks /\ tracks'[t] = track
      /\ \A u \in DOMAIN tracks : u # t => tracks'[u] = tracks[u]
  <2>1. DOMAIN tracks \union {t} = DOMAIN tracks
    OBVIOUS
  <2> QED
    BY <2>1 DEF Put
<1>10. \A j \in DOMAIN histories : Present(j)' <=> Present(j)
  BY <1>9 DEF Present
<1>11. \A j \in DOMAIN histories : j[2] = t => j = i
  BY <1>1, <1>2 DEF InStep
<1>12. ASSUME NEW j \in DOMAIN histories
       PROVE  /\ histories'[j].appearance_count = 1
              /\ histories'[j].active <=> Present(j)'
              /\ Present(j)' => histories'[j].total_frames_seen = tracks'[j[2]].frames_seen
  <2>1. CASE j = i
    BY <1>1, <1>3, <1>7, <1>8, <1>9, <1>10, <2>1
  <2>2. CASE j # i
    <3>1. j[2] # t /\ histories'[j] = histories[j]
      BY <1>8, <1>11, <2>2
    <3>2. Present(j) => tracks'[j[2]] = tracks[j[2]]
      BY <1>9, <3>1 DEF Present
    <3> QED
      BY <1>10, <3>1, <3>2 DEF InStep
  <2> QED
    BY <2>1, <2>2
<1>13. ASSUME NEW u \in DOMAIN tracks, NEW j, j = Identity(u, tracks'[u])
       PROVE  j \in DOMAIN histories /\ PreviousFrames(j)' = tracks'[u].frames_seen
  <2>1. CASE u = t
    <3>1. j = i /\ i \in DOMAIN session_frames' /\ session_frames'[i] = track.frames_seen
      BY <1>5, <1>9, <1>13, <2>1 DEF Put
    <3> QED
      BY <1>2, <1>9, <2>1, <3>1 DEF PreviousFrames
  <2>2. CASE u # t
    <3>1. j = Identity(u, tracks[u]) /\ j # i /\ tracks'[u] = tracks[u]
      BY <1>1, <1>9, <1>13, <2>2 DEF Identity
    <3>2. /\ j \in DOMAIN session_frames' <=> j \in DOMAIN session_frames
          /\ j \in DOMAIN session_frames => session_frames'[j] = session_frames[j]
      BY <1>5, <3>1 DEF Put
    <3>3. PreviousFrames(j)' = PreviousFrames(j)
      BY <3>2 DEF PreviousFrames
    <3> QED
      BY <3>1, <3>3 DEF InStep
  <2> QED
    BY <2>1, <2>2
<1>14. \A u : HistoryOf(u)' = HistoryOf(u)
  BY <1>8 DEF HistoryOf
<1>15. InStep'
  BY <1>8, <1>9, <1>12, <1>13, <1>14 DEF InStep
<1> QED
  BY <1>2, <1>4, <1>7, <1>8, <1>15 DEF GoesOn, OthersKept

\* A new track: its number has no history yet, and gets one of one frame.
LEMMA EntryHeard ==
    ASSUME Typed, InStep, ~ interrupted, NEW track \in Tracked, track.frames_seen = 1,
           Hear("entered", Identity(next_track_id, track), track),
           tracks' = Put(tracks, next_track_id, track),
           next_track_id' = next_track_id + 1,
           NEW i, i = Identity(next_track_id, track)
    PROVE  /\ Begins(i)
           /\ histories' \in [DOMAIN histories \union {i} -> History]
           /\ i \in Labels \X (1 .. next_track_id)
           /\ InStep'
<1> DEFINE t == next_track_id
           h == FirstHeard("entered", track)
<1>1. i = <<track.label, t>> /\ i[1] = track.label /\ i[2] = t /\ t \in Nat \ {0}
      /\ i \in Labels \X (1 .. t)
  BY DEF Identity, Typed, Tracked
<1>2. \A j \in DOMAIN histories : j[2] \in 1 .. t - 1 /\ j[2] # t
  BY <1>1 DEF Typed
<1>3. i \notin DOMAIN histories /\ HistoryOf(t) = {}
  BY <1>1, <1>2 DEF HistoryOf
<1>4. /\ histories' = Put(histories, i, h)
      /\ session_frames' = Put(session_frames, i, track.frames_seen)
  BY <1>3 DEF Hear, HistoryAfter
<1>5. h.active /\ h.appearance_count = 1 /\ h.total_frames_seen = 1 /\ h \in History
  <2>1. h.active
    BY DEF FirstHeard
  <2>2. h.appearance_count = 1 /\ h.total_frames_seen = 1
    BY DEF FirstHeard
  <2>3. track.frames_seen \in Nat
    BY DEF Tracked
  <2>4. h \in History
    BY <2>3 DEF FirstHeard, History
  <2> QED
    BY <2>1, <2>2, <2>4
<1> HIDE DEF h
<1>6. /\ DOMAIN histories' = DOMAIN histories \union {i} /\ histories'[i] = h
      /\ \A j \in DOMAIN histories : histories'[j] = histories[j]
      /\ histories' \in [DOMAIN histories \union {i} -> History]
  BY <1>3, <1>4, <1>5 DEF Typed, Put
<1>7. t \notin DOMAIN tracks
  BY <1>1 DEF Typed
<1>8. /\ DOMAIN tracks' = DOMAIN tracks \union {t} /\ tracks'[t] = track
      /\ \A u \in DOMAIN tracks : tracks'[u] = tracks[u]
  BY <1>7 DEF Put
<1>9. ASSUME NEW j \in DOMAIN histories'
      PROVE  /\ histories'[j].appearance_count = 1
             /\ histories'[j].active <=> Present(j)'
             /\ Present(j)' => histories'[j].total_frames_seen = tracks'[j[2]].frames_seen
  <2>1. CASE j = i
    BY <1>1, <1>5, <1>6, <1>8, <2>1 DEF Present
  <2>2. CASE j # i
    <3>1. j \in DOMAIN histories /\ j[2] # t /\ histories'[j] = histories[j]
      BY <1>2, <1>6, <2>2
    <3>2. (Present(j)' <=> Present(j)) /\ (Present(j) => tracks'[j[2]] = tracks[j[2]])
      BY <1>8, <3>1 DEF Present
    <3> QED
      BY <3>1, <3>2 DEF InStep
  <2> QED
    BY <2>1, <2>2
<1>10. ASSUME NEW u \in DOMAIN tracks', NEW j, j = Identity(u, tracks'[u])
       PROVE  j \in DOMAIN histories' /\ PreviousFrames(j)' = tracks'[u].frames_seen
  <2>1. CASE u = t
    <3>1. j = i /\ i \in DOMAIN session_frames' /\ session_frames'[i] = track.frames_seen
      BY <1>4, <1>8, <1>10, <2>1 DEF Put
    <3> QED
      BY <1>6, <1>8, <2>1, <3>1 DEF PreviousFrames
  <2>2. CASE u # t
    <3>1. u \in DOMAIN tracks /\ tracks'[u] = tracks[u] /\ j = Identity(u, tracks[u]) /\ j # i
      BY <1>1, <1>8, <1>10, <2>2 DEF Identity
    <3>2. /\ j \in DOMAIN session_frames' <=> j \in DOMAIN session_frames
          /\ j \in DOMAIN session_frames => session_frames'[j] = session_frames[j]
      BY <1>4, <3>1 DEF Put
    <3>3. PreviousFrames(j)' = PreviousFrames(j)
      BY <3>2 DEF PreviousFrames
    <3> QED
      BY <1>6, <3>1, <3>3 DEF InStep
  <2> QED
    BY <2>1, <2>2
<1>11. \A u \in 1 .. next_track_id' - 1 : HistoryOf(u)' # {}
  <2> SUFFICES ASSUME NEW u \in 1 .. t PROVE HistoryOf(u)' # {}
    BY <1>1
  <2>1. CASE u = t
    BY <1>1, <1>6, <2>1 DEF HistoryOf
  <2>2. CASE u # t
    <3>1. u \in 1 .. t - 1
      BY <1>1, <2>2
    <3> QED
      BY <1>6, <3>1 DEF InStep, HistoryOf
  <2> QED
    BY <2>1, <2>2
<1>12. \A j, k \in DOMAIN histories' : j[2] = k[2] => j = k
  BY <1>1, <1>2, <1>6 DEF InStep
<1>13. InStep'
  BY <1>9, <1>10, <1>11, <1>12 DEF InStep
<1> QED
  BY <1>1, <1>3, <1>5, <1>6, <1>13 DEF Begins, OthersKept

\* A track that exits: its history ends with the frames it has.
LEMMA ExitHeard ==
    ASSUME Typed, InStep, ~ interrupted, NEW t \in DOMAIN tracks,
           Hear("exited", Identity(t, tracks[t]), tracks[t]),
           tracks' = Without(tracks, t), next_track_id' = next_track_id,
           NEW i, i = Identity(t, tracks[t])
    PROVE  Ends(i) /\ histories' \in [DOMAIN histories -> History] /\ InStep'
<1> DEFINE h == Continued("exited", histories[i], PreviousFrames(i), tracks[t])
<1>1. i = <<tracks[t].label, t>> /\ i[1] = tracks[t].label /\ i[2] = t
  BY DEF Identity
<1>2. i \in DOMAIN histories /\ PreviousFrames(i) = tracks[t].frames_seen
  BY <1>1 DEF InStep
<1>3. Present(i)
  BY <1>1 DEF Present
<1>4. /\ histories[i] \in History /\ histories[i].active /\ histories[i].appearance_count = 1
      /\ tracks[t].frames_seen \in Nat
  BY <1>1, <1>2, <1>3 DEF InStep, Typed, Tracked
<1>5. /\ histories' = Put(histories, i, h)
      /\ session_frames' = Without(session_frames, i)
  BY <1>2 DEF Hear, HistoryAfter
<1>6. Larger(0, tracks[t].frames_seen - PreviousFrames(i)) = 0
  BY <1>2, <1>4 DEF Larger
<1>7. /\ ~ h.active /\ h.appearance_count = 1 /\ h \in History
      /\ h.total_frames_seen = histories[i].total_frames_seen
  <2>1. ~ h.active
    BY DEF Continued
  <2>2. h.appearance_count = histories[i].appearance_count
        /\ h.total_frames_seen = histories[i].total_frames_seen + 0
    BY <1>6 DEF Continued
  <2>3. histories[i].total_frames_seen \in Nat
    BY <1>4 DEF History
  <2>4. h \in History
    BY <1>4, <1>6, <2>3 DEF Continued, History
  <2> QED
    BY <1>4, <2>1, <2>2, <2>3, <2>4
<1> HIDE DEF h
<1>8. /\ DOMAIN histories' = DOMAIN histories /\ histories'[i] = h
      /\ \A j \in DOMAIN histories : j # i => histories'[j] = histories[j]
      /\ histories' \in [DOMAIN histories -> History]
  BY <1>2, <1>5, <1>7 DEF Typed, Put
<1>9. /\ DOMAIN tracks' = DOMAIN tracks \ {t}
      /\ \A u \in DOMAIN tracks' : tracks'[u] = tracks[u]
  BY DEF Without
<1>10. \A j \in DOMAIN histories : j[2] = t => j = i
  BY <1>1, <1>2 DEF InStep
<1>11. ASSUME NEW j \in DOMAIN histories
       PROVE  /\ histories'[j].appearance_count = 1
              /\ histories'[j].active <=> Present(j)'
              /\ Present(j)' => histories'[j].total_frames_seen = tracks'[j[2]].frames_seen
  <2>1. CASE j = i
    <3>1. ~ Present(j)'
      BY <1>1, <1>9, <2>1 DEF Present
    <3> QED
      BY <1>7, <1>8, <2>1, <3>1
  <2>2. CASE j # i
    <3>1. j[2] # t /\ histories'[j] = histories[j]
      BY <1>8, <1>10, <2>2
    <3>2. (Present(j)' <=> Present(j)) /\ (Present(j)' => tracks'[j[2]] = tracks[j[2]])
      BY <1>9, <3>1 DEF Present
    <3> QED
      BY <3>1, <3>2 DEF InStep
  <2> QED
    BY <2>1, <2>2
<1>12. ASSUME NEW u \in DOMAIN tracks', NEW j, j = Identity(u, tracks'[u])
       PROVE  j \in DOMAIN histories /\ PreviousFrames(j)' = tracks'[u].frames_seen
  <2>1. u \in DOMAIN tracks /\ tracks'[u] = tracks[u] /\ j = Identity(u, tracks[u]) /\ j # i
    BY <1>1, <1>9, <1>12 DEF Identity
  <2>2. /\ j \in DOMAIN session_frames' <=> j \in DOMAIN session_frames
        /\ j \in DOMAIN session_frames => session_frames'[j] = session_frames[j]
    BY <1>5, <2>1 DEF Without
  <2>3. PreviousFrames(j)' = PreviousFrames(j)
    BY <2>2 DEF PreviousFrames
  <2> QED
    BY <2>1, <2>3 DEF InStep
<1>13. \A u : HistoryOf(u)' = HistoryOf(u)
  BY <1>8 DEF HistoryOf
<1>14. InStep'
  BY <1>8, <1>11, <1>12, <1>13 DEF InStep
<1> QED
  BY <1>2, <1>4, <1>7, <1>8, <1>14 DEF Ends, OthersKept
-----------------------------------------------------------------------------
(* The invariant.                                                          *)

LEMMA InitIInv == Init => IInv
<1> SUFFICES ASSUME Init PROVE IInv
  OBVIOUS
<1>1. DOMAIN tracks = {} /\ DOMAIN histories = {} /\ DOMAIN matched = {}
  BY DEF Init
<1>2. Typed
  BY <1>1 DEF Init, Typed
<1>3. Numbered
  BY QuotaFacts DEF Init, Numbered
<1>4. InStep
  BY <1>1 DEF Init, InStep
<1> QED
  BY <1>2, <1>3, <1>4 DEF Init, IInv, Subscribed, Matching, StableMatching

\* Matching the best open candidate leaves every other that shares a side
\* with it for it.
LEMMA MatchBestStep ==
    ASSUME IInv, MatchBest
    PROVE  IInv' /\ (UNCHANGED histories \/ \E i : GoesOn(i))
<1> USE DEF IInv
<1>1. PICK c \in Open :
        /\ \A d \in Open \ {c} : Precedes(c, d)
        /\ tracks' = Put(tracks, c.track, Matched(c.track, detections[c.detection]))
        /\ matched' = Put(matched, c.track, c.detection)
        /\ PublishTrack("updated", c.track, Matched(c.track, detections[c.detection]))
  BY DEF MatchBest
<1>2. /\ stage = "running" /\ phase = "match"
      /\ UNCHANGED <<phase, detections, candidates, index, next_track_id>>
  BY DEF MatchBest
<1> DEFINE t == c.track
           track == Matched(t, detections[c.detection])
           i == Identity(t, track)
<1>3. /\ c \in candidates /\ c \in Candidate /\ t \in DOMAIN tracks
      /\ c.detection \in DOMAIN detections /\ t \notin DOMAIN matched
      /\ c.detection \notin Taken
  BY <1>2 DEF Open, Matching, Typed
<1>4. track \in Tracked /\ track.label = tracks[t].label
      /\ track.frames_seen = tracks[t].frames_seen + 1
  <2>1. tracks[t] \in Tracked /\ detections[c.detection] \in Detections /\ frame_id \in Nat
    BY <1>3 DEF Typed
  <2>2. detections[c.detection].box \in Boxes
    BY <2>1 DEF Boxes
  <2> QED
    BY <2>1, <2>2 DEF Matched, Tracked
<1>5. /\ Subscribed' /\ frame_id' = frame_id
      /\ \/ ~ interrupted' /\ Hear("updated", i, track)
         \/ interrupted' /\ UNCHANGED historyVars
  BY <1>1, <1>2, Published
<1>6. ~ interrupted
  BY <1>2 DEF Subscribed
<1> HIDE DEF track
<1>7. /\ DOMAIN tracks' = DOMAIN tracks /\ tracks' \in [DOMAIN tracks' -> Tracked]
  BY <1>1, <1>3, <1>4 DEF Typed, Put, track
<1>8. Hear("updated", i, track) =>
         /\ DOMAIN histories' = DOMAIN histories
         /\ histories' \in [DOMAIN histories -> History]
         /\ InStep'
  BY <1>1, <1>2, <1>3, <1>4, <1>6, UpdateHeard DEF track, GoesOn
<1>9. /\ DOMAIN histories' = DOMAIN histories
      /\ histories' \in [DOMAIN histories -> History] /\ InStep'
  BY <1>5, <1>8 DEF historyVars, InStep, Typed
<1>15. UNCHANGED histories \/ GoesOn(i)
  <2>1. Hear("updated", i, track) => GoesOn(i)
    BY <1>1, <1>2, <1>3, <1>4, <1>6, UpdateHeard DEF track
  <2> QED
    BY <1>5, <2>1 DEF historyVars
<1>10. /\ DOMAIN matched' = DOMAIN matched \union {t} /\ matched'[t] = c.detection
       /\ \A u \in DOMAIN matched : matched'[u] = matched[u]
       /\ matched' \in [DOMAIN matched' -> Nat]
  BY <1>1, <1>3 DEF Put, Typed, Candidate
<1>11. Typed'
  BY <1>2, <1>5, <1>7, <1>9, <1>10 DEF Typed
<1>12. ASSUME NEW d \in candidates PROVE d \in Open' \/ LeftFor(d)'
  <2>1. CASE LeftFor(d)
    <3>1. PICK m \in candidates :
             /\ m.track \in DOMAIN matched /\ matched[m.track] = m.detection
             /\ m.track = d.track \/ m.detection = d.detection
             /\ ~ Overlaps(d, m)
      BY <2>1 DEF LeftFor
    <3> QED
      BY <1>2, <1>10, <3>1 DEF LeftFor
  <2>2. CASE d \in Open
    <3>1. d \in Candidate
      BY DEF Typed
    <3>2. CASE d.track = t \/ d.detection = c.detection
      <4>1. ~ Overlaps(d, c)
        <5>1. CASE d = c
          BY <1>3, <5>1, OverlapsOneWay
        <5>2. CASE d # c
          BY <1>1, <1>3, <2>2, <3>1, <5>2, OverlapsOneWay DEF Precedes
        <5> QED
          BY <5>1, <5>2
      <4> QED
        BY <1>2, <1>3, <1>10, <3>2, <4>1 DEF LeftFor
    <3>3. CASE d.track # t /\ d.detection # c.detection
      <4>1. d.track \notin DOMAIN matched' /\ d.detection \notin Taken'
        BY <1>10, <2>2, <3>3 DEF Open, Taken
      <4> QED
        BY <1>2, <4>1 DEF Open
    <3> QED
      BY <3>2, <3>3
  <2> QED
    BY <1>2, <2>1, <2>2 DEF Matching
<1>13. Matching'
  BY <1>2, <1>7, <1>12 DEF Matching
<1>14. Numbered' /\ StableMatching'
  BY <1>2, <1>5 DEF Numbered, StableMatching
<1> QED
  BY <1>5, <1>9, <1>11, <1>13, <1>14, <1>15

LEMMA ExpireOldestStep ==
    ASSUME IInv, ExpireOldest
    PROVE  IInv' /\ (UNCHANGED histories \/ \E i : Ends(i))
<1> USE DEF IInv
<1>1. PICK t \in Expired : /\ tracks' = Without(tracks, t)
                           /\ PublishTrack("exited", t, tracks[t])
  BY DEF ExpireOldest
<1>2. /\ stage = "running" /\ phase = "expire"
      /\ UNCHANGED <<phase, detections, candidates, matched, index, next_track_id>>
  BY DEF ExpireOldest, frameVars
<1>3. t \in DOMAIN tracks /\ ~ interrupted
  BY <1>2 DEF Expired, Subscribed
<1>4. /\ Subscribed' /\ frame_id' = frame_id
      /\ \/ ~ interrupted' /\ Hear("exited", Identity(t, tracks[t]), tracks[t])
         \/ interrupted' /\ UNCHANGED historyVars
  BY <1>1, <1>2, Published
<1>5. Hear("exited", Identity(t, tracks[t]), tracks[t]) =>
         /\ DOMAIN histories' = DOMAIN histories
         /\ histories' \in [DOMAIN histories -> History]
         /\ InStep'
  BY <1>1, <1>2, <1>3, ExitHeard DEF Ends
<1>6. /\ DOMAIN histories' = DOMAIN histories
      /\ histories' \in [DOMAIN histories -> History] /\ InStep'
  BY <1>4, <1>5 DEF historyVars, InStep, Typed
<1>7. DOMAIN tracks' \subseteq DOMAIN tracks /\ tracks' \in [DOMAIN tracks' -> Tracked]
  BY <1>1 DEF Without, Typed
<1>8. Typed'
  BY <1>2, <1>4, <1>6, <1>7 DEF Typed
<1>9. Matching' /\ Numbered' /\ StableMatching'
  BY <1>2, <1>4 DEF Matching, Numbered, StableMatching
<1>10. UNCHANGED histories \/ Ends(Identity(t, tracks[t]))
  <2>1. Hear("exited", Identity(t, tracks[t]), tracks[t]) => Ends(Identity(t, tracks[t]))
    BY <1>1, <1>2, <1>3, ExitHeard
  <2> QED
    BY <1>4, <2>1 DEF historyVars
<1> QED
  BY <1>4, <1>6, <1>8, <1>9, <1>10

\* A new track takes the next number, of which the frame has one for each
\* detection.
LEMMA EnterNextStep ==
    ASSUME IInv, EnterNext
    PROVE  /\ IInv' /\ next_track_id' = next_track_id + 1 /\ ~ interrupted
           /\ UNCHANGED histories \/ \E i : Begins(i)
<1> USE DEF IInv
<1>1. PICK k \in New :
        /\ tracks' = Put(tracks, next_track_id, NewTrack(detections[k]))
        /\ PublishTrack("entered", next_track_id, NewTrack(detections[k]))
        /\ index' = k + 1
  BY DEF EnterNext, Number
<1>2. /\ stage = "running" /\ phase = "enter" /\ next_track_id' = next_track_id + 1
      /\ UNCHANGED <<phase, detections, candidates, matched>>
  BY DEF EnterNext, NumberAfter
<1> DEFINE t == next_track_id
           track == NewTrack(detections[k])
           i == Identity(t, track)
<1>3. /\ k \in 1 .. Len(detections) /\ k >= index /\ detections[k] \in Detections
      /\ frame_id \in Nat /\ t \in Nat \ {0} /\ ~ interrupted
  BY <1>2 DEF New, Typed, Subscribed
<1>4. track \in Tracked /\ track.frames_seen = 1
  <2>1. detections[k].box \in Boxes /\ detections[k].label \in Labels
    BY <1>3 DEF Boxes, Labels
  <2> QED
    BY <1>3, <2>1 DEF NewTrack, Tracked
<1>5. /\ Subscribed' /\ frame_id' = frame_id
      /\ \/ ~ interrupted' /\ Hear("entered", i, track)
         \/ interrupted' /\ UNCHANGED historyVars
  BY <1>1, <1>2, Published
<1> HIDE DEF track
<1>6. Hear("entered", i, track) =>
         /\ DOMAIN histories' = DOMAIN histories \union {i}
         /\ histories' \in [DOMAIN histories \union {i} -> History]
         /\ i \in Labels \X (1 .. t)
         /\ InStep'
  BY <1>1, <1>2, <1>3, <1>4, EntryHeard DEF track, Begins
<1>7. 1 .. t - 1 \subseteq 1 .. t /\ t' - 1 = t
  BY <1>2, <1>3
<1>8. /\ histories' \in [DOMAIN histories' -> History] /\ InStep'
      /\ DOMAIN histories' \subseteq Labels \X (1 .. t)
  <2>1. DOMAIN histories \subseteq Labels \X (1 .. t)
    BY <1>7 DEF Typed
  <2>2. CASE Hear("entered", i, track)
    BY <1>6, <2>1, <2>2
  <2>3. CASE interrupted' /\ UNCHANGED historyVars
    BY <2>1, <2>3 DEF historyVars, InStep, Typed
  <2> QED
    BY <1>5, <2>2, <2>3
<1>9. /\ DOMAIN tracks' = DOMAIN tracks \union {t}
      /\ tracks' \in [DOMAIN tracks' -> Tracked]
  BY <1>1, <1>4 DEF Put, Typed, track
<1>10. DOMAIN tracks' \subseteq 1 .. t
  BY <1>3, <1>7, <1>9 DEF Typed
<1>11. Typed'
  <2>1. index' \in Nat \ {0} /\ next_track_id' \in Nat \ {0}
    BY <1>1, <1>2, <1>3
  <2>2. DOMAIN tracks' \subseteq 1 .. next_track_id' - 1
        /\ DOMAIN histories' \subseteq Labels \X (1 .. next_track_id' - 1)
    BY <1>7, <1>8, <1>10
  <2>3. UNCHANGED <<frame_id, detections, phase, candidates, matched>>
    BY <1>2, <1>5
  <2>4. Typed
    OBVIOUS
  <2> HIDE DEF IInv
  <2> QED
    BY <1>8, <1>9, <2>1, <2>2, <2>3, <2>4 DEF Typed
<1>12. /\ frame_id - 1 \in Nat /\ frame_id <= MaxFrames /\ index \in Nat
       /\ index <= k /\ k <= MaxDetections /\ k \in Nat
       /\ t <= Quota(frame_id - 1) + index /\ Quota(frame_id - 1) \in Nat
  <2>1. /\ frame_id - 1 \in Nat /\ frame_id <= MaxFrames /\ index \in Nat
        /\ index <= k /\ k <= MaxDetections /\ k \in Nat
        /\ t <= Quota(frame_id - 1) + index
    BY <1>2, <1>3 DEF Numbered, Typed
  <2> QED
    BY <2>1, QuotaFacts
<1>13. Numbered'
  <2>1. index' <= Len(detections') + 1 /\ frame_id' \in Nat \ {0}
    BY <1>1, <1>2, <1>3, <1>5, <1>12
  <2>2. next_track_id' <= Quota(frame_id' - 1) + index'
    BY <1>1, <1>2, <1>3, <1>5, <1>12
  <2> HIDE DEF IInv
  <2> QED
    BY <1>2, <2>1, <2>2 DEF Numbered
<1>14. UNCHANGED histories \/ Begins(i)
  <2>1. Hear("entered", i, track) => Begins(i)
    BY <1>1, <1>2, <1>3, <1>4, EntryHeard DEF track
  <2> QED
    BY <1>5, <2>1 DEF historyVars
<1>15. Matching' /\ StableMatching'
  BY <1>2 DEF Matching, StableMatching
<1> QED
  BY <1>2, <1>3, <1>5, <1>8, <1>11, <1>13, <1>14, <1>15

LEMMA StepIInv == IInv /\ [Next]_vars => IInv'
<1> SUFFICES ASSUME IInv, [Next]_vars PROVE IInv'
  OBVIOUS
<1> USE DEF IInv
<1>1. ASSUME UNCHANGED <<frame_id, phase, frameVars, trackVars, historyVars, interrupted>>,
             Subscribed'
      PROVE  IInv'
  BY <1>1 DEF frameVars, trackVars, historyVars, Typed, Matching, Open, Taken, LeftFor,
              Numbered, InStep, Present, HistoryOf, PreviousFrames, StableMatching
<1>2. CASE StartService
  BY <1>1, <1>2 DEF StartService, Fail, Subscribed
<1>3. CASE OpenCamera
  BY <1>1, <1>3 DEF OpenCamera, Fail, Subscribed
<1>4. CASE EndLoop
  BY <1>1, <1>4 DEF EndLoop, Fail, Subscribed
<1>5. CASE StopService
  BY <1>1, <1>5 DEF StopService, Subscribed
<1>6. ASSUME NEW ds \in Frames, ProcessFrame(ds) PROVE IInv'
  <2>1. /\ phase = "idle" /\ frame_id < MaxFrames /\ frame_id' = frame_id + 1
        /\ detections' = ds /\ candidates' = Candidates(ds) /\ matched' = <<>>
        /\ index' = 1 /\ phase' = "match"
        /\ UNCHANGED <<stage, subscribers, tracks, next_track_id, histories,
                       session_frames, interrupted>>
    BY <1>6 DEF ProcessFrame, trackVars, historyVars
  <2>2. ds \in Seq(Detections) /\ Len(ds) <= MaxDetections /\ Len(ds) \in Nat
    BY DEF Frames
  <2>3. \A c \in candidates' : /\ c \in Candidate /\ c.track \in DOMAIN tracks
                               /\ c.detection \in DOMAIN ds
    BY <2>1, <2>2, CandidatesType
  <2>4. DOMAIN matched' = {} /\ Taken' = {}
    BY <2>1 DEF Taken
  <2>5. Typed'
    <3>1. Typed
      OBVIOUS
    <3> HIDE DEF IInv
    <3>2. frame_id' \in 0 .. MaxFrames
      BY <2>1, <3>1 DEF Typed
    <3>3. candidates' \subseteq Candidate /\ matched' \in [DOMAIN matched' -> Nat]
      BY <2>1, <2>3, <2>4
    <3> QED
      BY <2>1, <2>2, <3>1, <3>2, <3>3 DEF Typed
  <2>6. Matching'
    <3>1. \A c \in candidates' : c \in Open'
      BY <2>4 DEF Open
    <3>2. \A c \in candidates' : c.track \in DOMAIN tracks' /\ c.detection \in DOMAIN detections'
      BY <2>1, <2>3
    <3> QED
      BY <3>1, <3>2 DEF Matching
  <2>7. Numbered'
    <3>0. frame_id \in Nat /\ frame_id' = frame_id + 1
      BY <2>1 DEF Typed
    <3>1. frame_id' \in Nat \ {0} /\ frame_id' - 1 = frame_id
      BY ONLY <3>0
    <3>2. next_track_id <= Quota(frame_id) + 1
      BY <2>1 DEF Numbered
    <3> QED
      BY <2>1, <2>2, <3>1, <3>2 DEF Numbered
  <2>8. InStep'
    BY <2>1 DEF InStep, Present, HistoryOf, PreviousFrames
  <2> QED
    BY <2>1, <2>5, <2>6, <2>7, <2>8 DEF Subscribed, StableMatching
<1>7. CASE CountMissing
  <2>1. /\ phase = "match" /\ Open = {} /\ phase' = "expire"
        /\ tracks' = [t \in DOMAIN tracks |->
                        IF t \in DOMAIN matched THEN tracks[t] ELSE Missing(tracks[t])]
        /\ UNCHANGED <<stage, subscribers, frame_id, detections, candidates, matched,
                       index, next_track_id, histories, session_frames, interrupted>>
    BY <1>7 DEF CountMissing, mainVars, frameVars, historyVars
  <2>2. ASSUME NEW t \in DOMAIN tracks
        PROVE  /\ tracks'[t] \in Tracked /\ tracks'[t].label = tracks[t].label
               /\ tracks'[t].frames_seen = tracks[t].frames_seen
    <3>1. tracks[t] \in Tracked
      BY DEF Typed
    <3>2. tracks'[t] = tracks[t] \/ tracks'[t] = Missing(tracks[t])
      BY <2>1
    <3> QED
      BY <3>1, <3>2 DEF Missing, Tracked
  <2>3. DOMAIN tracks' = DOMAIN tracks /\ tracks' \in [DOMAIN tracks' -> Tracked]
    BY <2>1, <2>2
  <2>4. Typed'
    BY <2>1, <2>3 DEF Typed
  <2>5. InStep'
    BY <2>1, <2>2, <2>3 DEF InStep, Present, HistoryOf, PreviousFrames, Identity
  <2>6. \A c \in candidates : LeftFor(c)
    BY <2>1 DEF Matching
  <2>7. StableMatching'
    BY <2>1, <2>6 DEF StableMatching, LeftFor
  <2> QED
    BY <2>1, <2>4, <2>5, <2>7 DEF Subscribed, Matching, Numbered
<1>8. CASE AllExpired
  <2>1. /\ phase = "expire" /\ phase' = "enter"
        /\ UNCHANGED <<stage, subscribers, frame_id, detections, candidates, matched,
               index, tracks, next_track_id, histories, session_frames, interrupted>>
    BY <1>8 DEF AllExpired, mainVars, frameVars, trackVars, historyVars
  <2> QED
    BY <2>1 DEF Typed, Subscribed, Matching, Numbered, InStep, Present, HistoryOf,
                PreviousFrames, StableMatching
<1>9. CASE FrameDone
  <2>1. /\ phase = "enter" /\ phase' = "idle" /\ candidates' = {} /\ matched' = <<>>
        /\ index' = 1
        /\ UNCHANGED <<stage, subscribers, frame_id, detections,
                       tracks, next_track_id, histories, session_frames, interrupted>>
    BY <1>9 DEF FrameDone, mainVars, trackVars, historyVars
  <2>2. Numbered'
    <3>1. /\ frame_id - 1 \in Nat /\ frame_id = (frame_id - 1) + 1
          /\ index <= Len(detections) + 1 /\ Len(detections) <= MaxDetections
          /\ Len(detections) \in Nat /\ index \in Nat /\ next_track_id \in Nat
          /\ next_track_id <= Quota(frame_id - 1) + index
      BY <2>1 DEF Numbered, Typed
    <3>2. Quota(frame_id) = Quota(frame_id - 1) + MaxDetections
          /\ Quota(frame_id - 1) \in Nat
      BY <3>1, QuotaFacts
    <3>3. next_track_id <= Quota(frame_id) + 1
      BY <3>1, <3>2
    <3> QED
      BY <2>1, <3>3 DEF Numbered
  <2>3. Typed'
    BY <2>1 DEF Typed
  <2>4. InStep'
    BY <2>1 DEF InStep, Present, HistoryOf, PreviousFrames
  <2> QED
    BY <2>1, <2>2, <2>3, <2>4 DEF Subscribed, Matching, StableMatching
<1>10. CASE UNCHANGED vars
  BY <1>1, <1>10 DEF vars, mainVars, Subscribed
<1> QED
  BY <1>2, <1>3, <1>4, <1>5, <1>6, <1>7, <1>8, <1>9, <1>10, MatchBestStep,
     ExpireOldestStep, EnterNextStep DEF Next, HandleFrame

LEMMA Invariance == Spec => []IInv
BY InitIInv, StepIInv, PTL DEF Spec

-----------------------------------------------------------------------------
(* What the runs check.                                                    *)

\* Once the candidates of a frame are matched, a pair that overlaps was left
\* only for one of its two sides that overlaps at least as much.
THEOREM StableMatchingHolds == Spec => []StableMatching
<1>1. IInv => StableMatching
  BY DEF IInv
<1> QED
  BY <1>1, Invariance, PTL

\* The histories are those of the tracks, frame by frame, although the service
\* adds up differences of cumulative counts.
THEOREM HistoriesOfTracksHold == Spec => []HistoriesOfTracks
<1>1. IInv => HistoriesOfTracks
  <2> SUFFICES ASSUME IInv, ~ interrupted, NEW i \in Labels \X (1 .. next_track_id - 1)
               PROVE  /\ Present(i) => i \in DOMAIN histories
                      /\ i \in DOMAIN histories =>
                           /\ histories[i].appearance_count = 1
                           /\ histories[i].active <=> Present(i)
                           /\ Present(i) =>
                                histories[i].total_frames_seen = tracks[i[2]].frames_seen
    BY DEF HistoriesOfTracks, Present
  <2>1. Present(i) => i \in DOMAIN histories
    <3>1. i = <<i[1], i[2]>>
      OBVIOUS
    <3>2. Present(i) => i[2] \in DOMAIN tracks /\ i = Identity(i[2], tracks[i[2]])
      BY <3>1 DEF Present, Identity
    <3> QED
      BY <3>2 DEF IInv, InStep
  <2> QED
    BY <2>1 DEF IInv, InStep
<1> QED
  BY <1>1, Invariance, PTL

-----------------------------------------------------------------------------
(* The life of a track, as its histories tell it.                          *)

LifeAt(t) == IF HistoryOf(t) = {} THEN "unseen"
             ELSE IF \E i \in HistoryOf(t) : histories[i].active THEN "present"
             ELSE "gone"
FramesAt(t) == IF HistoryOf(t) = {} THEN 0
               ELSE histories[CHOOSE i \in HistoryOf(t) : TRUE].total_frames_seen

\* Numbers run out with the frames.
NumbersLast == next_track_id <= MaxFrames * MaxDetections + 1
LEMMA NumberBound == ASSUME IInv PROVE NumbersLast
<1> SUFFICES next_track_id <= Quota(MaxFrames) + 1
  BY DEF NumbersLast, Quota
<1>1. /\ frame_id \in Nat /\ frame_id <= MaxFrames /\ MaxFrames \in Nat
      /\ next_track_id \in Nat /\ MaxDetections \in Nat
  BY DEF IInv, Typed
<1>2. /\ Quota(frame_id) <= Quota(MaxFrames)
      /\ Quota(frame_id) \in Nat /\ Quota(MaxFrames) \in Nat
  BY <1>1, QuotaFacts
<1>3. CASE phase = "idle"
  BY <1>1, <1>2, <1>3 DEF IInv, Numbered
<1>4. CASE phase # "idle"
  <2>1. /\ frame_id - 1 \in Nat /\ frame_id = (frame_id - 1) + 1
        /\ index <= Len(detections) + 1 /\ Len(detections) <= MaxDetections
        /\ Len(detections) \in Nat /\ index \in Nat
        /\ next_track_id <= Quota(frame_id - 1) + index
    BY <1>1, <1>4 DEF IInv, Numbered, Typed
  <2>2. Quota(frame_id) = Quota(frame_id - 1) + MaxDetections /\ Quota(frame_id - 1) \in Nat
    BY <2>1, QuotaFacts
  <2>3. next_track_id <= Quota(frame_id) + 1
    BY <1>1, <2>1, <2>2
  <2> QED
    BY <1>1, <1>2, <2>3
<1> QED
  BY <1>3, <1>4

\* A track has one history while frames are handled.
LEMMA OneHistory ==
    ASSUME IInv, ~ interrupted, NEW i \in DOMAIN histories
    PROVE  /\ HistoryOf(i[2]) = {i} /\ i[2] \in 1 .. next_track_id - 1
           /\ i[2] \in 1 .. MaxFrames * MaxDetections
           /\ LifeAt(i[2]) = (IF histories[i].active THEN "present" ELSE "gone")
           /\ FramesAt(i[2]) = histories[i].total_frames_seen
<1>1. HistoryOf(i[2]) = {i}
  BY DEF IInv, InStep, HistoryOf
<1>2. i[2] \in 1 .. next_track_id - 1 /\ next_track_id \in Nat
  BY DEF IInv, Typed
<1>3. i[2] \in 1 .. MaxFrames * MaxDetections
  BY <1>2, NumberBound DEF NumbersLast
<1>4. (CHOOSE j \in HistoryOf(i[2]) : TRUE) = i
  BY <1>1
<1> QED
  BY <1>1, <1>2, <1>3, <1>4 DEF LifeAt, FramesAt

\* What is heard of one track changes no other.
LEMMA OthersLive ==
    ASSUME IInv, ~ interrupted, NEW i, OthersKept(i),
           DOMAIN histories' = DOMAIN histories \union {i},
           NEW u, u # i[2]
    PROVE  LifeAt(u)' = LifeAt(u) /\ FramesAt(u)' = FramesAt(u)
<1>1. HistoryOf(u)' = HistoryOf(u) /\ HistoryOf(u) \subseteq DOMAIN histories
      /\ i \notin HistoryOf(u)
  BY DEF HistoryOf
<1>2. \A j \in HistoryOf(u) : histories'[j] = histories[j]
  BY <1>1 DEF OthersKept
<1>3. HistoryOf(u) # {} => (CHOOSE j \in HistoryOf(u) : TRUE) \in HistoryOf(u)
  OBVIOUS
<1> QED
  BY <1>1, <1>2, <1>3 DEF LifeAt, FramesAt

\* What is published about a track is its life: it enters once and in the
\* order of the numbers, is updated by one frame at a time, and exits for good.
THEOREM TrackLivesHold == Spec => TrackLives
<1> DEFINE N == 1 .. MaxFrames * MaxDetections
           L == [t \in N |-> LifeAt(t)]
           F == [t \in N |-> FramesAt(t)]
<1>0. IInv /\ Init => Lives!LifeInit
  <2> SUFFICES ASSUME Init PROVE Lives!LifeInit
    OBVIOUS
  <2>1. \A t : HistoryOf(t) = {}
    BY DEF Init, HistoryOf
  <2> QED
    BY <2>1 DEF Lives!LifeInit
<1>3. IInv => NumbersLast
  BY NumberBound
<1>4. IInv' => NumbersLast'
  BY <1>3, PTL
<1>1. IInv /\ IInv' /\ [Next]_vars => [Lives!LifeNext]_(Lives!lifeVars)
  <2> SUFFICES ASSUME IInv, IInv', [Next]_vars
               PROVE  [Lives!LifeNext]_(Lives!lifeVars)
    OBVIOUS
  <2>1. ASSUME UNCHANGED histories PROVE [Lives!LifeNext]_(Lives!lifeVars)
    BY <2>1 DEF Lives!lifeVars, HistoryOf
  <2>2. ASSUME NEW i, GoesOn(i), ~ interrupted PROVE Lives!LifeNext
    <3>1. /\ i \in DOMAIN histories /\ DOMAIN histories' = DOMAIN histories \union {i}
          /\ OthersKept(i)
      BY <2>2 DEF GoesOn
    <3>2. i[2] \in N /\ HistoryOf(i[2]) = {i}
          /\ LifeAt(i[2]) = "present" /\ FramesAt(i[2]) = histories[i].total_frames_seen
      BY <2>2, <3>1, OneHistory DEF GoesOn
    <3>3. HistoryOf(i[2])' = {i}
      BY <2>2, <3>2 DEF GoesOn, HistoryOf
    <3>4. LifeAt(i[2])' = "present" /\ FramesAt(i[2])' = FramesAt(i[2]) + 1
      BY <2>2, <3>2, <3>3 DEF GoesOn, LifeAt, FramesAt
    <3>5. \A u \in N : u # i[2] => LifeAt(u)' = LifeAt(u) /\ FramesAt(u)' = FramesAt(u)
      BY <2>2, <3>1, OthersLive
    <3>6. L[i[2]] = "present" /\ L' = L /\ F' = [F EXCEPT ![i[2]] = @ + 1]
      BY <3>2, <3>4, <3>5
    <3>7. Lives!Update(i[2])
      BY <3>6 DEF Lives!Update, LifeAt, FramesAt
    <3> QED
      BY <3>2, <3>7 DEF Lives!LifeNext
  <2>3. ASSUME NEW i, Ends(i), ~ interrupted PROVE Lives!LifeNext
    <3>1. /\ i \in DOMAIN histories /\ DOMAIN histories' = DOMAIN histories \union {i}
          /\ OthersKept(i)
      BY <2>3 DEF Ends
    <3>2. i[2] \in N /\ HistoryOf(i[2]) = {i}
          /\ LifeAt(i[2]) = "present" /\ FramesAt(i[2]) = histories[i].total_frames_seen
      BY <2>3, <3>1, OneHistory DEF Ends
    <3>3. HistoryOf(i[2])' = {i}
      BY <2>3, <3>2 DEF Ends, HistoryOf
    <3>4. LifeAt(i[2])' = "gone" /\ FramesAt(i[2])' = FramesAt(i[2])
      BY <2>3, <3>2, <3>3 DEF Ends, LifeAt, FramesAt
    <3>5. \A u \in N : u # i[2] => LifeAt(u)' = LifeAt(u) /\ FramesAt(u)' = FramesAt(u)
      BY <2>3, <3>1, OthersLive
    <3>6. L[i[2]] = "present" /\ L' = [L EXCEPT ![i[2]] = "gone"] /\ F' = F
      BY <3>2, <3>4, <3>5
    <3>7. Lives!Exit(i[2])
      BY <3>6 DEF Lives!Exit, LifeAt, FramesAt
    <3> QED
      BY <3>2, <3>7 DEF Lives!LifeNext
  <2>4. ASSUME NEW i, Begins(i), ~ interrupted, next_track_id' = next_track_id + 1
        PROVE  Lives!LifeNext
    <3>1. /\ i[2] = next_track_id /\ HistoryOf(i[2]) = {}
          /\ DOMAIN histories' = DOMAIN histories \union {i} /\ OthersKept(i)
      BY <2>4 DEF Begins
    <3>2. i[2] \in N
      <4>1. next_track_id' <= MaxFrames * MaxDetections + 1
        BY <1>4 DEF NumbersLast
      <4>2. next_track_id \in Nat \ {0} /\ MaxFrames * MaxDetections \in Int
        BY DEF IInv, Typed
      <4> QED
        BY <2>4, <3>1, <4>1, <4>2
    <3>3. HistoryOf(i[2])' = {i}
      BY <3>1 DEF HistoryOf
    <3>4. /\ LifeAt(i[2]) = "unseen"
          /\ LifeAt(i[2])' = "present" /\ FramesAt(i[2])' = 1
      BY <2>4, <3>1, <3>3 DEF Begins, LifeAt, FramesAt
    <3>5. \A u \in N : u # i[2] => LifeAt(u)' = LifeAt(u) /\ FramesAt(u)' = FramesAt(u)
      BY <2>4, <3>1, OthersLive
    <3>6. \A u \in N : u < i[2] => LifeAt(u) # "unseen"
      <4>1. ASSUME NEW u \in N, u < i[2] PROVE HistoryOf(u) # {}
        <5>1. u \in 1 .. next_track_id - 1
          BY <3>1, <4>1 DEF IInv, Typed
        <5> QED
          BY <2>4, <5>1 DEF IInv, InStep
      <4> QED
        BY <4>1 DEF LifeAt
    <3>7. /\ L[i[2]] = "unseen" /\ \A u \in N : u < i[2] => L[u] # "unseen"
          /\ L' = [L EXCEPT ![i[2]] = "present"] /\ F' = [F EXCEPT ![i[2]] = 1]
      BY <3>2, <3>4, <3>5, <3>6
    <3>8. Lives!Enter(i[2])
      BY <3>7 DEF Lives!Enter, LifeAt, FramesAt
    <3> QED
      BY <3>2, <3>8 DEF Lives!LifeNext
  <2>5. CASE MatchBest
    <3>1. ~ interrupted
      BY <2>5 DEF MatchBest, IInv, Subscribed
    <3> QED
      BY <2>1, <2>2, <2>5, <3>1, MatchBestStep
  <2>6. CASE ExpireOldest
    <3>1. ~ interrupted
      BY <2>6 DEF ExpireOldest, IInv, Subscribed
    <3> QED
      BY <2>1, <2>3, <2>6, <3>1, ExpireOldestStep
  <2>7. CASE EnterNext
    BY <2>1, <2>4, <2>7, EnterNextStep
  <2>8. CASE \/ StartService \/ OpenCamera \/ EndLoop \/ StopService
             \/ \E ds \in Frames : ProcessFrame(ds)
             \/ CountMissing \/ AllExpired \/ FrameDone
    BY <2>1, <2>8 DEF StartService, OpenCamera, EndLoop, StopService, ProcessFrame,
                      CountMissing, AllExpired, FrameDone, historyVars
  <2>9. CASE UNCHANGED vars
    BY <2>1, <2>9 DEF vars, historyVars
  <2> QED
    BY <2>5, <2>6, <2>7, <2>8, <2>9 DEF Next, HandleFrame
<1>2. Init => IInv
  BY InitIInv
<1> QED
  BY <1>0, <1>1, <1>2, Invariance, PTL DEF Spec, TrackLives, Lives!LifeSpec
=============================================================================
