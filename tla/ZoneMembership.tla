--------------------------- MODULE ZoneMembership ---------------------------
(***************************************************************************)
(* SpatialService for one entity in one zone: what it remembers (a         *)
(* _MembershipState), the open EntityZoneSession, if any, and what one     *)
(* observation does to both.  An observation first counts, in memory, and  *)
(* then settles, in the database.                                          *)
(***************************************************************************)
EXTENDS Integers

CONSTANTS
    EnterConfirm,   \* enter_confirm_observations
    ExitConfirm,    \* exit_confirm_observations
    LostAfter       \* lost_track_timeout_seconds

ASSUME ConfirmAssumption ==
    /\ EnterConfirm \in Nat \ {0} /\ ExitConfirm \in Nat \ {0}
    /\ LostAfter \in Nat \ {0}

\* An entity that has no _MembershipState is "unknown".
Phases == {"unknown", "outside", "entering", "inside", "leaving"}

Member(phase, enter, exit, id) ==
    [phase |-> phase, enter |-> enter, exit |-> exit, session |-> id]
Unknown == Member("unknown", 0, 0, 0)
Outside == Member("outside", 0, 0, 0)
Inside(id) == Member("inside", 0, 0, id)

NoSession == [id |-> 0, seen |-> 0]
Session(id, now) == [id |-> id, seen |-> now]

\* A zone that does not apply (disabled, or no valid geometry) is skipped.
Answers == {"inside", "outside", "skipped"}

\* After a restart the membership is recovered from the open session.
Recovered(m, s) ==
    IF m.phase = "unknown" /\ s # NoSession THEN Inside(s.id) ELSE m

CountInsideKept(m) ==
    IF m.phase \in {"inside", "leaving"} THEN [m EXCEPT !.phase = "inside"]
    ELSE [m EXCEPT !.phase = "entering", !.enter = @ + 1, !.exit = 0]

CountInside(m) ==
    IF m.phase \in {"inside", "leaving"}
    THEN [m EXCEPT !.phase = "inside", !.exit = 0]
    ELSE [m EXCEPT !.phase = "entering", !.enter = @ + 1, !.exit = 0]

CountOutside(m) ==
    CASE m.phase = "unknown" -> m
      [] m.phase \in {"outside", "entering"} -> Outside
      [] OTHER -> [m EXCEPT !.phase = "leaving", !.exit = @ + 1, !.enter = 0]

\* The part of _observe_inside and _observe_outside under the lock.
Counted(m, s, answer) ==
    CASE answer = "inside" -> CountInside(Recovered(m, s))
      [] answer = "outside" -> CountOutside(Recovered(m, s))
      [] OTHER -> m

EnterConfirmed(m) == m.phase = "entering" /\ m.enter >= EnterConfirm
ExitConfirmed(m) == m.phase = "leaving" /\ m.exit >= ExitConfirm

\* _confirm_enter opens a session unless it finds an open one;
\* _confirm_exit closes the one it finds.
OpensAgain(m, s, answer) == answer = "inside" /\ EnterConfirmed(m)
Opens(m, s, answer) == answer = "inside" /\ EnterConfirmed(m) /\ s = NoSession
Closes(m, s, answer) == answer = "outside" /\ ExitConfirmed(m) /\ s # NoSession

\* touch_session finds the row by its id, and only while it is open.
Touches(m, s, answer) ==
    /\ answer = "inside" /\ s # NoSession
    /\ EnterConfirmed(m) \/ (m.phase = "inside" /\ m.session = s.id)

\* m has counted the answer already; id is the uuid of a new session.
SettledSession(m, s, answer, id, now) ==
    CASE Opens(m, s, answer) -> Session(id, now)
      [] Closes(m, s, answer) -> NoSession
      [] Touches(m, s, answer) -> Session(s.id, now)
      [] OTHER -> s

SettledMemberKept(m, s, answer, id) ==
    IF answer = "inside" /\ EnterConfirmed(m)
    THEN Inside(IF s = NoSession THEN id ELSE s.id) ELSE m

SettledMember(m, s, answer, id) ==
    CASE answer = "inside" /\ EnterConfirmed(m) ->
            Inside(IF s = NoSession THEN id ELSE s.id)
      [] answer = "outside" /\ ExitConfirmed(m) -> Outside
      [] OTHER -> m

\* list_stale_open at the time of an observation.
IsStale(s, now) == s # NoSession /\ s.seen < now - LostAfter
=============================================================================
