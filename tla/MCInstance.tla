----------------------------- MODULE MCInstance -----------------------------
(* Instance for one party of two, or for one or two players without a group.*)
EXTENDS Instance

CONSTANTS a, b, g

MCParty == {a, b}
MCOther == {b}
MCNobody == {}
MCGroup == {g}
MCLeader == [x \in {g} |-> a]
MCNoLeader == <<>>
MCPartyOf == [p \in {a, b} |-> g]
MCAlone == [p \in {a, b} |-> None]

=============================================================================
