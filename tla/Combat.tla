------------------------------- MODULE Combat -------------------------------
(***************************************************************************)
(* The combat references of src/server/game/Combat/CombatManager.{h,cpp}   *)
(* and the threat references of ThreatManager that hang on them.           *)
(*                                                                         *)
(* Every unit of a map owns a CombatManager with two maps from GUIDs to    *)
(* CombatReference objects (_pveRefs and _pvpRefs) and a ThreatManager     *)
(* with its own threat list and the list of entries others hold about it   *)
(* (_threatenedByMe).  One reference object is shared by both units, so    *)
(* the same fact is stored in four places that the operations must keep    *)
(* in step: the two maps, the IN_COMBAT flag of each unit and the threat   *)
(* lists.  A map of one unit is the set of pairs <<u, v>> "u has an entry  *)
(* for v", the fields of the shared object are sets of such pairs too.     *)
(*                                                                         *)
(* A map is updated by one thread, so a call runs to its end before the    *)
(* next one starts: one call is one action, with all its loops.  What a    *)
(* script does when it is notified at the end of a call is a later action; *)
(* CombatHandoff looks at the notifications in the middle of a call.       *)
(***************************************************************************)
EXTENDS Integers

CONSTANTS
  Unit,          \* the units of one map
  ThreatOwner,   \* those for which ThreatManager::CanHaveThreatList holds
  PvPTimeout,    \* PVP_COMBAT_TIMEOUT in update ticks
  Player,        \* the units that are controlled by a player at first
  Charmable,     \* the units whose controller may change
  Fickle         \* the pairs that may be friends at one time, foes at another

UnitPairs == {{p[1], p[2]} : p \in {q \in Unit \X Unit : q[1] # q[2]}}

ASSUME CombatAssumption ==
  /\ ThreatOwner \subseteq Unit
  /\ PvPTimeout \in Nat \ {0}
  /\ Player \subseteq Unit
  /\ Charmable \subseteq Unit
  /\ Fickle \subseteq UnitPairs

VARIABLES
  pve,         \* <<u, v>>: u's _pveRefs has an entry for v
  pvp,         \* <<u, v>>: u's _pvpRefs has an entry for v
  first,       \* <<u, v>>: the PvP reference of u and v has first = u
  suppressed,  \* <<u, v>>: the reference of u and v is suppressed for u
  timer,       \* _combatTimer of the PvP reference <<first, second>>
  flag,        \* units with UNIT_FLAG_IN_COMBAT
  list,        \* <<c, v>>: c's threat list has an entry for v
  byMe,        \* <<v, c>>: v's _threatenedByMe has an entry for c
  present,     \* units that are in the world and alive
  controlled,  \* units with IsControlledByPlayer()
  foes         \* {a, b}: every other condition of CanBeginCombat holds

refVars    == <<pve, pvp, first, suppressed, timer, flag>>
threatVars == <<list, byMe>>
envVars    == <<present, controlled, foes>>
vars       == <<pve, pvp, first, suppressed, timer, flag,
                list, byMe, present, controlled, foes>>

Pairs == Unit \X Unit
Flip(P) == {<<p[2], p[1]>> : p \in P}
Both(P) == P \cup Flip(P)
Ends(P) == {p[1] : p \in P} \cup {p[2] : p \in P}
Refs    == pve \cup pvp

TypeOK ==
  /\ pve \subseteq Pairs /\ pvp \subseteq Pairs
  /\ first \subseteq Pairs /\ suppressed \subseteq Pairs
  /\ timer \in [Pairs -> 0 .. PvPTimeout]
  /\ flag \subseteq Unit
  /\ list \subseteq Pairs /\ byMe \subseteq Pairs
  /\ present \subseteq Unit /\ controlled \subseteq Unit
  /\ foes \subseteq UnitPairs

-----------------------------------------------------------------------------
(* CombatManager: the pieces every operation is made of.                   *)

CanBeginCombat(a, b) == a # b /\ a \in present /\ b \in present /\ {a, b} \in foes

IsInCombatWith(u, v) == <<u, v>> \in pve \/ <<u, v>> \in pvp

HasCombat(u) == \E v \in Unit : IsInCombatWith(u, v) /\ <<u, v>> \notin suppressed

(* UpdateOwnerCombatState, called for the units in W when the maps and the  *)
(* suppression marks have their new values.                                 *)
UpdateOwnerCombatStateBefore(W) == flag' = (flag \ W) \cup {u \in W : HasCombat(u)}

UpdateOwnerCombatState(W) == flag' = (flag \ W) \cup {u \in W : HasCombat(u)'}

(* SetInCombatWith for each <<owner, who>> in P: an existing reference is   *)
(* refreshed (timer and both marks), a missing one is created if combat can *)
(* begin, marked for who if the pair is in quiet (addSecondUnitSuppressed). *)
New(P) == {p \in P \ Refs : CanBeginCombat(p[1], p[2])}

NewPvP(P) == {p \in New(P) : p[1] \in controlled /\ p[2] \in controlled}

RefreshedOneSided(P) == P \cap Refs

Refreshed(P) == Both(P \cap Refs)

SetInCombat(P, quiet) ==
  /\ pve' = pve \cup Both(New(P) \ NewPvP(P))
  /\ pvp' = pvp \cup Both(NewPvP(P))
  /\ first' = first \cup NewPvP(P)
  /\ suppressed' = (suppressed \ Refreshed(P)) \cup Flip(New(P) \cap quiet)
  /\ timer' = [p \in Pairs |-> IF p \in NewPvP(P) \cup (Refreshed(P) \cap first)
                                THEN PvPTimeout ELSE timer[p]]
  /\ UpdateOwnerCombatState(Ends(P))

(* ThreatReference::UnregisterAndFree for each reference <<owner, victim>>.*)
FreeThreat(T) == list' = list \ T /\ byMe' = byMe \ Flip(T)

(* PurgeReference on both sides for each reference in E, and its deletion.  *)
PurgeReferenceOfFirst(E) ==
  /\ pve' = pve \ E
  /\ pvp' = pvp \ E
  /\ first' = first \ Both(E)

PurgeReference(E) ==
  /\ pve' = pve \ Both(E)
  /\ pvp' = pvp \ Both(E)
  /\ first' = first \ Both(E)

StoppedTimers(E) == [p \in Pairs |-> IF p \in Both(E) THEN 0 ELSE timer[p]]

(* CombatReference::EndCombat for each reference in E: the threat between   *)
(* the two units goes first (T is threat the caller removed before), then   *)
(* both map entries, then the flags.                                        *)
EndCombat(E, T) ==
  /\ FreeThreat(T \cup Both(E))
  /\ PurgeReference(E)
  /\ suppressed' = suppressed \ Both(E)
  /\ timer' = StoppedTimers(E)
  /\ UpdateOwnerCombatState(Ends(E))

PvERefs(u)  == {p \in pve : p[1] = u}
PvPRefs(u)  == {p \in pvp : p[1] = u}

ThreatOf(u) == {p \in list : p[1] = u}

(* Every threat reference u is part of, as a pair <<owner, victim>>: those  *)
(* RemoveMeFromThreatLists finds in _threatenedByMe, and u's own list.      *)
ThreatAround(u) == Flip({p \in byMe : p[1] = u}) \cup ThreatOf(u)

-----------------------------------------------------------------------------
(* Operations that start or refresh combat.                                *)

(* Unit::SetInCombatWith; quiet is addSecondUnitSuppressed, TRUE for a      *)
(* spell that is still on its way to the target.                            *)
SetInCombatWith(u, v, quiet) ==
  /\ SetInCombat({<<u, v>>}, IF quiet THEN {<<u, v>>} ELSE {})
  /\ UNCHANGED <<threatVars, envVars>>

(* ThreatManager::AddThreat of a creature with a threat list: the target,   *)
(* and the units part of its threat is redirected to.  Each gets an entry   *)
(* if SetInCombatWith succeeded for it.                                     *)
Granted(P) == (P \cap Refs) \cup New(P)

AddThreatUnchecked(c, T) ==
  /\ c \in ThreatOwner
  /\ SetInCombat({c} \X T, {})
  /\ list' = list \cup ({c} \X T)
  /\ byMe' = byMe \cup Flip({c} \X T)
  /\ UNCHANGED envVars

AddThreat(c, T) ==
  /\ c \in ThreatOwner
  /\ SetInCombat({c} \X T, {})
  /\ list' = list \cup Granted({c} \X T)
  /\ byMe' = byMe \cup Flip(Granted({c} \X T))
  /\ UNCHANGED envVars

(* AddThreat of a unit without a threat list: combat only, with the target  *)
(* and then with the redirect targets it is not fighting yet.               *)
AddThreatNoList(u, v, R) ==
  LET P == {<<u, v>>} \cup {p \in {u} \X R : p \notin Refs}
  IN /\ u \notin ThreatOwner
     /\ <<u, v>> \in Refs \/ CanBeginCombat(u, v)
     /\ SetInCombat(P, {})
     /\ UNCHANGED <<threatVars, envVars>>

(* InheritCombatStatesFrom: u fights whoever w fights, except the units its *)
(* immunity excludes (skip); a PvE reference u has already is left alone.   *)
InheritCombatStatesFrom(u, w, skip) ==
  LET T == {v \in Unit \ skip :
              \/ <<w, v>> \in pve /\ <<u, v>> \notin Refs
              \/ <<w, v>> \in pvp}
  IN /\ SetInCombat({u} \X T, {})
     /\ UNCHANGED <<threatVars, envVars>>

-----------------------------------------------------------------------------
(* Operations that end or suppress combat.                                 *)

(* CombatManager::Update: only the first unit of a PvP reference counts its *)
(* timer down, and ends the reference when it has run out.                  *)
CountedIfActive(u) == {p \in first : p[1] = u /\ p \notin suppressed}

Counted(u) == {p \in first : p[1] = u}

ExpiredNever(u) == {}

Expired(u) == {p \in Counted(u) : timer[p] <= 1}

Update(u) ==
  /\ u \in present
  /\ FreeThreat(Both(Expired(u)))
  /\ PurgeReference(Expired(u))
  /\ suppressed' = suppressed \ Both(Expired(u))
  /\ timer' = [p \in Pairs |-> IF p \in Counted(u) \ Expired(u) THEN timer[p] - 1
                               ELSE StoppedTimers(Expired(u))[p]]
  /\ UpdateOwnerCombatState(Ends(Expired(u)))
  /\ UNCHANGED envVars

(* EndCombatBeyondRange, SetImmuneToPC, SetImmuneToNPC, StopAttackFaction:  *)
(* the references of u with some units end, those too far away or of a      *)
(* kind; PvP references only if the caller says so.                         *)
EndCombatWith(u, S, includingPvP) ==
  /\ EndCombat({p \in PvERefs(u) : p[2] \in S}
               \cup {p \in PvPRefs(u) : includingPvP /\ p[2] \in S}, {})
  /\ UNCHANGED envVars

(* CombatStop, with EndAllPvECombat first dropping all of u's threat.       *)
CombatStopPvE(u) == EndCombat(PvERefs(u), ThreatAround(u))

CombatStop(u) == EndCombat(PvERefs(u) \cup PvPRefs(u), ThreatAround(u))

EndAllCombat(u) == CombatStop(u) /\ UNCHANGED envVars

(* CombatStop without mutualPvP (vanish, feign death): PvE combat ends, PvP *)
(* combat goes on for the others but not for u.                             *)
Vanish(u) ==
  LET E == PvERefs(u)
  IN /\ FreeThreat(ThreatAround(u) \cup Both(E))
     /\ PurgeReference(E)
     /\ suppressed' = (suppressed \ Both(E)) \cup PvPRefs(u)
     /\ timer' = StoppedTimers(E)
     /\ UpdateOwnerCombatState(Ends(E) \cup {u})
     /\ UNCHANGED envVars

(* CombatReference::SuppressFor(u) on the reference of u and v.             *)
SuppressForQuietly(u, v) ==
  /\ IsInCombatWith(u, v)
  /\ suppressed' = suppressed \cup {<<u, v>>}
  /\ UNCHANGED <<pve, pvp, first, timer, flag>>
  /\ UNCHANGED <<threatVars, envVars>>

SuppressFor(u, v) ==
  /\ IsInCombatWith(u, v)
  /\ suppressed' = suppressed \cup {<<u, v>>}
  /\ UNCHANGED <<pve, pvp, first, timer>>
  /\ UpdateOwnerCombatState({u})
  /\ UNCHANGED <<threatVars, envVars>>

(* ThreatManager::ClearThreat and ClearAllThreat on their own keep combat.  *)
ClearThreat(c, T) ==
  /\ FreeThreat(list \cap ({c} \X T))
  /\ UNCHANGED <<refVars, envVars>>

-----------------------------------------------------------------------------
(* What happens to the units.                                              *)

(* setDeathState and the removal from the world or the map stop combat.     *)
Leave(u) ==
  /\ u \in present
  /\ present' = present \ {u}
  /\ CombatStop(u)
  /\ UNCHANGED <<controlled, foes>>

Return(u) ==
  /\ u \notin present
  /\ present' = present \cup {u}
  /\ UNCHANGED <<refVars, threatVars, controlled, foes>>

(* Factions, phases, evading, flying, GM mode: combat that has begun stays. *)
FoesWith(F) == (UnitPairs \ Fickle) \cup F

ChangeFoes(F) ==
  /\ foes' = FoesWith(F)
  /\ UNCHANGED <<refVars, threatVars, present, controlled>>

(* SetCharmedBy and RemoveCharmedBy change u's controller and faction and   *)
(* then call RevalidateCombat: references that could not begin now end.     *)
Charm(u, byPlayer, F) ==
  /\ u \in Charmable
  /\ UNCHANGED present
  /\ foes' = FoesWith({q \in Fickle : IF u \in q THEN q \in F ELSE q \in foes})
  /\ controlled' = IF byPlayer THEN controlled \cup {u} ELSE controlled \ {u}
  /\ EndCombat({p \in PvERefs(u) \cup PvPRefs(u) :
                  ~ CanBeginCombat(p[1], p[2])'}, {})

-----------------------------------------------------------------------------
Init ==
  /\ pve = {} /\ pvp = {} /\ first = {} /\ suppressed = {}
  /\ timer = [p \in Pairs |-> 0]
  /\ flag = {} /\ list = {} /\ byMe = {}
  /\ present = Unit
  /\ controlled = Player
  /\ foes = UnitPairs

Opponents(u) == {v \in Unit : <<u, v>> \in Refs}

(* The steps that attack someone.                                           *)
Attack ==
  \E u \in Unit :
    \/ \E v \in Unit \ {u}, quiet \in BOOLEAN : SetInCombatWith(u, v, quiet)
    \/ \E T \in SUBSET (Unit \ {u}) : AddThreat(u, T)
    \/ \E v \in Unit \ {u} : \E R \in SUBSET (Unit \ {u, v}) : AddThreatNoList(u, v, R)
    \/ \E w \in Unit \ {u} : \E skip \in SUBSET Opponents(w) : InheritCombatStatesFrom(u, w, skip)

Next ==
  \/ Attack
  \/ \E u \in Unit :
       \/ Update(u) \/ EndAllCombat(u) \/ Vanish(u) \/ Leave(u) \/ Return(u)
       \/ \E S \in (SUBSET Opponents(u)) \ {{}}, pvpToo \in BOOLEAN : EndCombatWith(u, S, pvpToo)
       \/ \E v \in Unit : SuppressFor(u, v)
       \/ \E T \in SUBSET {p[2] : p \in ThreatOf(u)} : ClearThreat(u, T)
       \/ \E byPlayer \in BOOLEAN, F \in SUBSET Fickle : Charm(u, byPlayer, F)
  \/ \E F \in SUBSET Fickle : ChangeFoes(F)

(* Every unit in the world is updated again and again by its map.           *)
Spec == Init /\ [][Next]_vars /\ \A u \in Unit : WF_vars(Update(u))

-----------------------------------------------------------------------------
(* Properties.                                                             *)

(* A reference is in the maps of both of its units, of the same kind, never *)
(* twice and never with itself; the timer of a PvP reference counts for one. *)
(* PutReference and PurgeReference work on the two maps one after the other.*)
(* So do the threat list of an owner and the threatened-by-me lists.        *)
RefsMatched ==
  /\ pve = Flip(pve) /\ pvp = Flip(pvp) /\ pve \cap pvp = {}
  /\ pvp = Both(first) /\ first \cap Flip(first) = {}
  /\ \A u \in Unit : <<u, u>> \notin Refs
  /\ suppressed \subseteq Refs
  /\ byMe = Flip(list)

(* "A unit is in combat iff it has one or more non-suppressed               *)
(* CombatReference entries in its CombatManager. No exceptions."  The flag  *)
(* is cached, and only refreshed for the units an operation names.          *)
FlagIffActiveRef == \A u \in Unit : u \in flag <=> HasCombat(u)

(* "threat => combat is a strong guarantee": every threat reference has a   *)
(* combat reference between the same units, on every path that ends combat. *)
ThreatImpliesCombat == list \subseteq Refs

(* "Both first and second are currently in the world": no path leaves a     *)
(* reference to a unit that died or left, whoever held it.                  *)
RefsOnlyPresent == \A p \in Refs : p[1] \in present /\ p[2] \in present

(* A suppressed side becomes active again only when the two units interact: *)
(* then the other side is active too and a PvP timer starts over.           *)
ReactivationIsMutual ==
  [][\A p \in Pairs :
       (p \in suppressed /\ p \in Refs /\ p \in Refs' /\ p \notin suppressed')
       => /\ <<p[2], p[1]>> \notin suppressed'
          /\ \A q \in Both({p}) \cap first' : timer'[q] = PvPTimeout]_vars

(* Once nobody attacks any more all PvP combat ends, although only one of   *)
(* the two units counts the timer of their reference down.                  *)
PvPCombatExpires == (<>[][~ Attack]_vars) => <>[](pvp = {})

(* What the two managers promise together: no call both starts and ends     *)
(* something, and after each one the flags and the threat agree with it.    *)
Promise == INSTANCE CombatSpec WITH
  fight    <- {{p[1], p[2]} : p \in Refs},
  active   <- Refs \ suppressed,
  inCombat <- flag,
  hate     <- list

ImplementsCombatSpec == Promise!Spec

=============================================================================
