---------------------------- MODULE MCMapUpdater ----------------------------
(* MapUpdater with a plain map p and a dungeon d with instances i and j.     *)
EXTENDS MapUpdater

CONSTANTS u, v, w, p, d, i, j

MCThree == {u, v, w}
MCBase == {p, d}
MCInstance == {i, j}
MCParent == [x \in {i, j} |-> d]

=============================================================================
