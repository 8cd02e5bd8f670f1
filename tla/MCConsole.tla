------------------------------ MODULE MCConsole ------------------------------
(***************************************************************************)
(* Three events, two of them close together, and one so much later that the *)
(* window of a recovery no longer reaches back to the first.               *)
(***************************************************************************)
EXTENDS Console

Ev(n, at) == [at |-> at, id |-> <<n>>]
MCEvents == {Ev(1, 1), Ev(2, 2), Ev(3, 4)}
=============================================================================
