--------------------------- MODULE TrackLifecycle ---------------------------
(* What the tracker promises to everyone who listens to its events: a track *)
(* is announced once, in the order of the track numbers, then updated with   *)
(* one more frame at a time, then it exits and is never heard of again.      *)
(* EntityMemory takes this for granted of the events it receives.            *)
EXTENDS Naturals

CONSTANT TrackIds

VARIABLES life, frames

lifeVars == <<life, frames>>

LifeInit == /\ life = [i \in TrackIds |-> "unseen"]
            /\ frames = [i \in TrackIds |-> 0]

Enter(i) == /\ life[i] = "unseen"
            /\ \A j \in TrackIds : j < i => life[j] # "unseen"
            /\ life' = [life EXCEPT ![i] = "present"]
            /\ frames' = [frames EXCEPT ![i] = 1]

Update(i) == /\ life[i] = "present"
             /\ frames' = [frames EXCEPT ![i] = @ + 1]
             /\ UNCHANGED life

Exit(i) == /\ life[i] = "present"
           /\ life' = [life EXCEPT ![i] = "gone"]
           /\ UNCHANGED frames

LifeNext == \E i \in TrackIds : Enter(i) \/ Update(i) \/ Exit(i)

LifeSpec == LifeInit /\ [][LifeNext]_lifeVars
=============================================================================
