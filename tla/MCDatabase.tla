----------------------------- MODULE MCDatabase -----------------------------
(* Two workers and one synchronous connection; transactions that write two  *)
(* rows in either order, one of them directly and one refused, and a single *)
(* statement.                                                               *)
EXTENDS Database, TLC

CONSTANTS w1, w2, s1, t, u, d, p, A, B

MCWorker == {w1, w2}
MCSync == {s1}
MCOp == {t, u, d, p}
MCTransaction == {t, u, d}
MCDirect == {d}
MCFaulty == {u}
MCRow == {A, B}
MCRows == (t :> <<A, B>>) @@ (u :> <<B, A>>) @@ (d :> <<B, A>>) @@ (p :> <<A>>)

=============================================================================
