-------------------------- MODULE MCDungeonFinder --------------------------
(* DungeonFinder with dungeons for three players, of whom one must be p1:    *)
(* the others can all take the place of each other.                         *)
EXTENDS DungeonFinder, TLC

CONSTANTS p1, p2, p3, p4, g1, g2

MCFour == {p1, p2, p3, p4}
MCGroup == {g1, g2}
MCSleepers == {p1}
MCOneTank == {S \in SUBSET Player : Cardinality(S) = Size /\ p1 \in S}

Alike == {p @@ q : p \in Permutations({p2, p3, p4}), q \in Permutations(MCGroup)}
=============================================================================
