------------------------ MODULE MCNotificationOutbox ------------------------
(* Small instances of NotificationOutbox for TLC. *)
EXTENDS NotificationOutbox

CONSTANTS e1, t1, w1, w2

OneMatch == [e \in Events |-> {t1}]
=============================================================================
