---------------------------- MODULE MCAdmission -----------------------------
(* Admission with the accounts a and b, and c, who may skip the queue.      *)
EXTENDS Admission

CONSTANTS a, b, c

MCAccount == {a, b, c}
MCSession == {<<a, 0>>, <<a, 1>>, <<b, 0>>, <<b, 1>>, <<c, 0>>}
MCSkips   == {c}

(* The accounts that may not skip the queue are alike.                       *)
Alike == Permutations({a, b})

=============================================================================
