------------------------------ MODULE MCCombat ------------------------------
(* Combat for TLC: a creature with a threat list, which players may charm,  *)
(* and two players; or three players who fight each other.                  *)
EXTENDS Combat, TLC

CONSTANTS c1, p1, p2

MCUnit        == {c1, p1, p2}
MCThreatOwner == {c1}
MCPlayer      == {p1, p2}
MCCharmable   == {c1}
MCFickle      == {{c1, p1}, {c1, p2}}
MCNone        == {}
Players       == Permutations({p1, p2})

=============================================================================
