-------------------------- MODULE DeliveryContract --------------------------
(***************************************************************************)
(* What the outbox promises of a logical delivery, with no worker, lock or *)
(* retry in sight: success is reported only of what the receiver answered, *)
(* only what an alert asked for is sent, and every request gets a verdict. *)
(***************************************************************************)
CONSTANT Deliveries

VARIABLES
    wanted,    \* deliveries an alert has asked for
    answered,  \* deliveries a receiver has answered with success
    verdict    \* what the outbox says of each: "open", "delivered", "exhausted"

cvars == <<wanted, answered, verdict>>

Init ==
    /\ wanted = {}
    /\ answered = {}
    /\ verdict = [d \in Deliveries |-> "open"]

\* One alert may ask for several deliveries at once.
Ask(S) ==
    /\ wanted' = wanted \cup S
    /\ UNCHANGED <<answered, verdict>>

Answer(d) ==
    /\ d \in wanted
    /\ answered' = answered \cup {d}
    /\ UNCHANGED <<wanted, verdict>>

\* A verdict on a request, a new one when attempts overlapped.
Decide(d, v) ==
    /\ d \in wanted
    /\ v = "delivered" => d \in answered
    /\ verdict' = [verdict EXCEPT ![d] = v]
    /\ UNCHANGED <<wanted, answered>>

\* A retry by hand, or a late attempt that overwrites the verdict.
Reopen(d) ==
    /\ verdict' = [verdict EXCEPT ![d] = "open"]
    /\ UNCHANGED <<wanted, answered>>

Next ==
    \/ \E S \in SUBSET Deliveries : Ask(S)
    \/ \E d \in Deliveries :
         \/ Answer(d)
         \/ \E v \in {"delivered", "exhausted"} : Decide(d, v)
         \/ Reopen(d)

Spec == Init /\ [][Next]_cvars

FairSpec ==
    /\ Spec
    /\ \A d \in Deliveries :
         WF_cvars(\E v \in {"delivered", "exhausted"} :
                     verdict[d] = "open" /\ Decide(d, v))
=============================================================================
