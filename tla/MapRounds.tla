----------------------------- MODULE MapRounds ------------------------------
(* What MapManager::Update promises to the rest of the server, whoever does *)
(* the work: a round updates every loaded map once, at most one thread at a *)
(* time in each of them, except for maps that are due to be unloaded; and   *)
(* between two rounds the world thread is alone with all the maps.          *)
EXTENDS FiniteSets

CONSTANTS Map

VARIABLES
  inRound,    \* are maps being updated?
  loaded,     \* the maps there are
  updating,   \* the maps that some thread is updating
  updated,    \* the maps whose update is over, of this or the last round
  skipped     \* the maps that are due to be unloaded

vars == <<inRound, loaded, updating, updated, skipped>>

TypeOK ==
  /\ inRound \in BOOLEAN
  /\ loaded \subseteq Map /\ updating \subseteq loaded
  /\ updated \subseteq Map /\ skipped \subseteq loaded

Init ==
  /\ ~ inRound /\ loaded \subseteq Map
  /\ updating = {} /\ updated = {} /\ skipped = {}

Load(m) ==
  /\ ~ inRound /\ loaded' = loaded \cup {m}
  /\ UNCHANGED <<inRound, updating, updated, skipped>>

Unload(M) ==
  /\ ~ inRound /\ loaded' = loaded \ M /\ skipped' = {}
  /\ UNCHANGED <<inRound, updating, updated>>

Begin ==
  /\ ~ inRound /\ skipped = {}
  /\ inRound' = TRUE /\ updated' = {}
  /\ UNCHANGED <<loaded, updating, skipped>>

Start(m) ==
  /\ inRound /\ m \in loaded \ (updating \cup updated \cup skipped)
  /\ updating' = updating \cup {m}
  /\ UNCHANGED <<inRound, loaded, updated, skipped>>

Skip(m) ==
  /\ inRound /\ m \in loaded \ (updating \cup updated)
  /\ skipped' = skipped \cup {m}
  /\ UNCHANGED <<inRound, loaded, updating, updated>>

Finish(m) ==
  /\ m \in updating
  /\ updating' = updating \ {m} /\ updated' = updated \cup {m}
  /\ UNCHANGED <<inRound, loaded, skipped>>

End ==
  /\ inRound /\ updating = {} /\ loaded \subseteq updated \cup skipped
  /\ inRound' = FALSE
  /\ UNCHANGED <<loaded, updating, updated, skipped>>

Next ==
  \/ \E m \in Map : Load(m) \/ Start(m) \/ Skip(m) \/ Finish(m)
  \/ \E M \in SUBSET Map : Unload(M)
  \/ Begin \/ End

Spec == Init /\ [][Next]_vars

=============================================================================
