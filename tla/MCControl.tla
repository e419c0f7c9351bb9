----------------------------- MODULE MCControl ------------------------------
(* Control for TLC: a player with a pet, a player with two guardians of one *)
(* entry and a puppet, and a creature that charms whoever is around.        *)
EXTENDS Control, TLC

CONSTANTS warlock, summoner, siren, imp, wolf1, wolf2, eye

MCPlayer   == {warlock, summoner}
MCCreature == {siren}
MCPet      == {imp}
MCGuardian == {wolf1, wolf2}
MCPuppet   == {eye}
MCMaster   == imp :> warlock @@ wolf1 :> summoner @@ wolf2 :> summoner @@ eye :> summoner
MCEntry    == imp :> 1 @@ wolf1 :> 2 @@ wolf2 :> 2 @@ eye :> 3
MCAddress  == warlock :> 1 @@ summoner :> 2 @@ siren :> 3 @@ imp :> 4
              @@ wolf1 :> 5 @@ wolf2 :> 6 @@ eye :> 7

MCCharmable == {siren, warlock, summoner, wolf1}
MCMortal == {siren, warlock, summoner, imp, wolf1}
MCFighter == {imp, wolf1}
=============================================================================
