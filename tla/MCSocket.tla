------------------------------ MODULE MCSocket -------------------------------
(* Socket with two threads of the world, w and m, beside the network thread. *)
EXTENDS Socket

CONSTANTS net, w, m, challenge, answer, p1, p2, p3

MCNode     == {challenge, answer, p1, p2, p3}
MCThread   == {net, w, m}
MCSender   == (p1 :> w) @@ (p2 :> w) @@ (p3 :> m)
              @@ (challenge :> net) @@ (answer :> net)

=============================================================================
