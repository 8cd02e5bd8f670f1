--------------------------- MODULE MCObjectMemory ---------------------------
(* Two labels; three boxes of a person in a row, each overlapping the next   *)
(* alike and the one after that just enough; a cup at the place of one.      *)
EXTENDS ObjectMemory

At(x) == [x1 |-> x, y1 |-> 0, x2 |-> x + 4, y2 |-> 2]

MCDetections == {[label |-> "person", box |-> At(x)] : x \in {0, 1, 2}}
                \union {[label |-> "cup", box |-> At(1)]}
=============================================================================
