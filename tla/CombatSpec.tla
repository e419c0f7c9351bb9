----------------------------- MODULE CombatSpec -----------------------------
(***************************************************************************)
(* What the developer documentation of CombatManager.h and ThreatManager.h *)
(* promises the rest of the game, without maps, GUIDs and shared objects:  *)
(* fights between two distinct units, which side of a fight takes part in  *)
(* it, who is in combat, and who hates whom.                               *)
(***************************************************************************)
CONSTANT Unit

VARIABLES
  fight,     \* {u, v}: u and v are in combat with each other
  active,    \* <<u, v>>: u takes part in its fight with v (not suppressed)
  inCombat,  \* the units everybody sees as being in combat
  hate       \* <<c, v>>: v is on the threat list of c

vars == <<fight, active, inCombat, hate>>

(* Nobody fights itself, only fighters take part in a fight or hate anyone, *)
(* and a unit is in combat iff it takes part in some fight.                 *)
Consistent ==
  /\ \A f \in fight : \E u, v \in Unit : u # v /\ f = {u, v}
  /\ \A p \in active \cup hate : {p[1], p[2]} \in fight
  /\ inCombat = {u \in Unit : \E v \in Unit : <<u, v>> \in active}

Init == fight = {} /\ active = {} /\ inCombat = {} /\ hate = {}

(* An attack: it ends no fight, takes nobody out of one, forgives nothing.  *)
Start == fight \subseteq fight' /\ active \subseteq active' /\ hate \subseteq hate'

(* Everything else: it only ends fights, lets units drop out, or forgives.  *)
Stop == fight' \subseteq fight /\ active' \subseteq active /\ hate' \subseteq hate

Next == Consistent' /\ (Start \/ Stop)

Spec == Init /\ [][Next]_vars

=============================================================================
