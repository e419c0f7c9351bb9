------------------------------ MODULE MCThreat ------------------------------
(* Threat for three victims.  From level 10 level 12 breaks 110% but not    *)
(* 130%, from level 0 each of the others breaks both.                       *)
EXTENDS Threat

CONSTANTS v1, v2, v3

MCThree == {v1, v2, v3}
MCTwo   == {v1, v2}
MCOne   == {v1}

MCLevel == {0, 10, 12}

=============================================================================
