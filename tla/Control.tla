------------------------------ MODULE Control ------------------------------
(***************************************************************************)
(* Who controls whom: pets, guardians, puppets and charms, as kept by       *)
(* Entities/Unit/Unit, Entities/Player/Player, Entities/Pet/Pet and         *)
(* Entities/Creature/TemporarySummon.                                      *)
(*                                                                         *)
(* One fact is written down in many places: the minion's owner, the owner's *)
(* m_Controlled, m_SummonSlot[0] (PetGUID) and UNIT_FIELD_SUMMON, the        *)
(* current pet of the stable, the charm's two GUIDs and its aura, and the    *)
(* cache UNIT_FLAG_PET_IN_COMBAT.  The functions that change them call each  *)
(* other: a pet that is saved loses its auras, with which a charm ends,      *)
(* with which the pet may be removed.  What they keep is one record, w, and  *)
(* the calls are operators that take it and return it.                     *)
(*                                                                         *)
(* Left out: vehicles, totems, companions and ghouls; stabled pets and       *)
(* hunters' pets that are released for good; script reloads; auras that end  *)
(* when combat does.  Who fights whom is in Combat: here units enter combat  *)
(* and leave it.                                                            *)
(***************************************************************************)
EXTENDS Naturals, FiniteSets

CONSTANTS
  Player, Creature,
  Pet,        \* pets of players, one each
  Guardian,   \* guardians whose summon properties are SUMMON_CATEGORY_PET
  Puppet,     \* creatures that exist to be possessed by their owner
  Master,     \* the owner of each of these
  Entry,      \* and its creature template
  Address,    \* the order of the pointers in m_Controlled
  Charmable,  \* bound: units on whom charms are cast
  Area,       \* units that charm whoever is around them
  Mortal,     \* bound: units that die
  Fighter,    \* bound: units that fight
  Strays,     \* bound: pets that go out of their owner's sight
  None

Summon   == Pet \cup Guardian \cup Puppet
Unit     == Player \cup Creature \cup Summon
NoneOr(S) == S \cup {None}

ASSUME ControlAssumption ==
  /\ None \notin Unit /\ IsFiniteSet(Unit)
  /\ Cardinality(Unit) = Cardinality(Player) + Cardinality(Creature)
                         + Cardinality(Pet) + Cardinality(Guardian) + Cardinality(Puppet)
  /\ Master \in [Summon -> Player \cup Creature]
  /\ \A m \in Pet \cup Puppet : Master[m] \in Player
  /\ \A m, n \in Pet : Master[m] = Master[n] => m = n
  /\ Address \in [Unit -> Nat] /\ DOMAIN Entry = Summon
  /\ \A t, u \in Unit : Address[t] = Address[u] => t = u
  /\ Charmable \cup Area \cup Mortal \cup Fighter \subseteq Unit /\ Strays \subseteq Pet

VARIABLE w    \* world       who is in the world
              \* alive       who is not dead
              \* controlled  m_Controlled
              \* charmed     UNIT_FIELD_CHARM of players, with m_charmed
              \* charmer     UNIT_FIELD_CHARMEDBY, with m_charmer
              \* pet         m_SummonSlot[SUMMON_SLOT_PET]
              \* minion      UNIT_FIELD_SUMMON
              \* current     PetStable::CurrentPet of players
              \* away        players with m_temporaryUnsummonedPetNumber
              \* mounted     players with UNIT_FLAG_MOUNT
              \* auras       charm and possess auras, from caster to target
              \* combat      units with UNIT_FLAG_IN_COMBAT
              \* flag        units with UNIT_FLAG_PET_IN_COMBAT
              \* far         pets beyond their owner's visibility range
              \* calm        who leaves combat when this step revalidates his
              \* failed      an assertion has failed: the server is down

Init ==
  w = [world      |-> Player \cup Creature,
       alive      |-> Player \cup Creature,
       controlled |-> [u \in Unit |-> {}],
       charmed    |-> [p \in Player |-> None],
       charmer    |-> [u \in Unit |-> None],
       pet        |-> [u \in Unit |-> None],
       minion     |-> [u \in Unit |-> None],
       current    |-> [p \in Player |-> None],
       away |-> {}, mounted |-> {}, auras |-> {}, combat |-> {}, flag |-> {}, far |-> {},
       calm |-> None, failed |-> FALSE]

OwnerOf(u)   == IF u \in Summon THEN Master[u] ELSE None
IsMinionOf(m, u) == OwnerOf(m) = u
IsGuardianPet(m) == m \in Pet \cup Guardian
CharmerOrOwner(v, u) == IF v.charmer[u] # None THEN v.charmer[u] ELSE OwnerOf(u)
IsPresent(v, u) == u \in v.world /\ u \in v.alive

Check(v, cond) == [v EXCEPT !.failed = @ \/ ~ cond]

-----------------------------------------------------------------------------
(* Combat as far as it matters here.                                       *)

UpdatePetCombatState(v, u) ==
  LET fights == v.controlled[u] \cap v.combat # {}
  IN Check([v EXCEPT !.flag = IF fights THEN @ \cup {u} ELSE @ \ {u}], u \notin Pet)

UpdateOwnerCombatStateOfOwner(v, u) ==
  IF OwnerOf(u) = None THEN v ELSE UpdatePetCombatState(v, OwnerOf(u))

UpdateOwnerCombatState(v, u) ==
  IF CharmerOrOwner(v, u) = None THEN v ELSE UpdatePetCombatState(v, CharmerOrOwner(v, u))

CombatStop(v, u) ==
  IF u \notin v.combat THEN v
  ELSE UpdateOwnerCombatState([v EXCEPT !.combat = @ \ {u}], u)

RevalidateCombat(v, u) == IF v.calm = u THEN CombatStop(v, u) ELSE v

-----------------------------------------------------------------------------
(* SetCharm(t, true) and (t, false) of c.                                  *)

SetCharm(v, c, t) ==
  LET free == v.charmer[t] = None /\ (c \in Player => v.charmed[c] = None)
      x == [v EXCEPT !.charmer[t] = c, !.controlled[c] = @ \cup {t}]
      y == IF c \in Player THEN [x EXCEPT !.charmed[c] = t] ELSE x
  IN UpdatePetCombatState(Check(y, free), c)

ReleaseCharmAndMinion(v, c, t) ==
  LET x == [v EXCEPT !.charmer[t] = None, !.controlled[c] = @ \ {t}]
      y == IF c \in Player THEN [x EXCEPT !.charmed[c] = None] ELSE x
  IN UpdatePetCombatState(Check(y, v.charmer[t] = c), c)

ReleaseCharm(v, c, t) ==
  LET mine == v.charmer[t] = c /\ (c \in Player => v.charmed[c] = t)
      x == [v EXCEPT !.charmer[t] = None,
                     !.controlled[c] = IF IsMinionOf(t, c) THEN @ ELSE @ \ {t}]
      y == IF c \in Player THEN [x EXCEPT !.charmed[c] = None] ELSE x
  IN UpdatePetCombatState(Check(y, mine), c)

(* Without a caster (he is not in the world any more) by whoever it is.    *)
RemoveCharmedBy(v, t, caster) ==
  LET c == v.charmer[t]
  IN IF c = None THEN v
     ELSE RevalidateCombat(ReleaseCharm(Check(v, caster \in {None, c}), c, t), t)

-----------------------------------------------------------------------------
(* SetMinion(m, false) of its owner.  If m was in UNIT_FIELD_SUMMON another  *)
(* minion takes its place.                                                 *)
First(S) == CHOOSE u \in S : \A t \in S : Address[u] <= Address[t]

UnsetMinion(v, m) ==
  LET o == Master[m]
      x == [v EXCEPT !.controlled[o] = @ \ {m}, !.pet[o] = IF @ = m THEN None ELSE @]
      others == {u \in x.controlled[o] : x.charmer[u] # o}
      heirs  == {u \in others : IsGuardianPet(u)}
      y == [x EXCEPT !.minion[o] = IF heirs = {} THEN None ELSE First(heirs)]
  IN UpdatePetCombatState(
       IF v.minion[o] = m THEN Check(y, \A u \in others : IsMinionOf(u, o)) ELSE x, o)

-----------------------------------------------------------------------------
(* The end of charms and of minions; these operators call each other.      *)

RECURSIVE RemoveCharmAuras(_, _), EndAura(_, _, _), SavePetToDB(_, _, _),
          RemovePet(_, _, _, _), UnSummon(_, _), StopCastingCharm(_, _),
          ReleaseAll(_, _), RemoveFromWorld(_, _), AddObjectToRemoveList(_, _)

RemoveCharmAuras(v, t) ==
  LET casters == {c \in Unit : <<c, t>> \in v.auras}
  IN IF casters = {} THEN v
     ELSE RemoveCharmAuras(EndAura(v, First(casters), t), t)

(* The aura is unapplied.  Of those on a pet by its owner (MOD_POSSESS_PET)  *)
(* the end takes the pet with it, if that has gone out of sight.           *)
IsPossessPet(c, t) == t \in Pet /\ c = Master[t]

EndAura(v, c, t) ==
  LET x == [v EXCEPT !.auras = @ \ {<<c, t>>}]
      caster == IF c \in v.world THEN c ELSE None
      y == RemoveCharmedBy(x, t, caster)
  IN IF ~ IsPossessPet(c, t) THEN y
     ELSE IF caster = None THEN x
     ELSE IF t \in v.far THEN RemovePet(y, t, "not in slot", TRUE) ELSE y

(* Saving and removing a pet takes it for granted that it is the current one*)
(* of the stable.  m_removed is set as soon as the pet has left the world.  *)
CheckIsCurrent(v, m) == Check(v, v.current[Master[m]] = m)

SavePetToDB(v, m, slot) ==
  CheckIsCurrent(IF slot = "not in slot" THEN RemoveCharmAuras(v, m) ELSE v, m)

LeaveSlot(v, m, slot) ==
  IF slot = "current" THEN v ELSE [v EXCEPT !.current[Master[m]] = None]

RemovePet(v, m, slot, returnreagent) ==
  IF m \notin v.world THEN v
  ELSE LET x == IF returnreagent THEN [v EXCEPT !.away = @ \ {Master[m]}] ELSE v
           saved == SavePetToDB(CombatStop(x, m), m, slot)
       IN AddObjectToRemoveList(UnsetMinion(LeaveSlot(saved, m, slot), m), m)

CheckIsGone(v, m) == Check(v, m \notin v.world)

UnSummon(v, m) ==
  IF m \in Pet THEN CheckIsGone(RemovePet(v, m, "not in slot", FALSE), m)
  ELSE AddObjectToRemoveList(v, m)

(* The puppet goes, then the auras; a charm that is left after that has to  *)
(* have lost its charmer.                                                  *)
DropCharmAuras(v, p, t) == IF v.charmed[p] = None THEN v ELSE RemoveCharmAuras(v, t)
DropCharm(v, p, t) ==
  IF v.charmed[p] = None THEN v
  ELSE ReleaseCharm(Check(v, v.charmer[t] = None), p, t)

StopCastingCharm(v, p) ==
  LET t == v.charmed[p]
      x == IF t \in Puppet THEN UnSummon(v, t) ELSE v
  IN IF t = None THEN v ELSE DropCharm(DropCharmAuras(x, p, t), p, t)

LetGo(v, u) == IF u \in Player THEN StopCastingCharm(v, u) ELSE v

(* Everything in m_Controlled is taken out of it first and then let go.     *)
ReleaseNext(v, u) ==
  LET t == First(v.controlled[u])
      x == [v EXCEPT !.controlled[u] = @ \ {t}]
  IN IF v.charmer[t] = u THEN RemoveCharmAuras(x, t)
     ELSE IF IsMinionOf(t, u) THEN UnSummon(x, t) ELSE x

ReleaseAll(v, u) ==
  IF v.controlled[u] # {} THEN ReleaseAll(ReleaseNext(v, u), u)
  ELSE IF u \in Pet THEN v ELSE [v EXCEPT !.flag = @ \ {u}]

RemoveAllControlled(v, u) == ReleaseAll(LetGo(v, u), u)

GetPet(v, p) == IF v.pet[p] \in Pet /\ p \in v.world THEN v.pet[p] ELSE None

UnsummonPetTemporaryIfAny(v, p) ==
  IF GetPet(v, p) = None THEN v
  ELSE RemovePet([v EXCEPT !.away = @ \cup {p}], GetPet(v, p), "current", FALSE)

(* What a player, a minion (but a pet, of which RemovePet takes care) and   *)
(* every unit do when they leave the world.                                *)
Depart(v, u) ==
  [Check(v, /\ u \in Player => v.charmed[u] = None
            /\ v.charmer[u] = None
            /\ OwnerOf(u) # None => u \notin v.controlled[OwnerOf(u)])
     EXCEPT !.world = @ \ {u}, !.far = @ \ {u},
            !.alive = IF u \in Player THEN @ ELSE @ \ {u}]

RemoveFromWorld(v, u) ==
  LET x == IF u \in Player THEN UnsummonPetTemporaryIfAny(StopCastingCharm(v, u), u)
           ELSE IF u \in Guardian \cup Puppet THEN UnsetMinion(v, u) ELSE v
  IN IF u \notin v.world THEN v
     ELSE Depart(RemoveCharmedBy(RemoveAllControlled(RemoveCharmAuras(x, u), u), u, None), u)

AddObjectToRemoveList(v, u) == CombatStop(RemoveCharmAuras(RemoveFromWorld(v, u), u), u)

-----------------------------------------------------------------------------
(* Minions are made.  SetMinion(m, true) of the owner, before m is added to *)
(* the map: a guardian or pet dismisses another one, unless both are         *)
(* guardians of one entry.                                                  *)
Replaces(v, m) ==
  LET old == v.pet[Master[m]]
  IN /\ IsGuardianPet(m) /\ old \notin {None, m}
     /\ old \in Pet \/ m \in Pet \/ Entry[old] # Entry[m]

TakePetSlot(v, m) ==
  IF ~ IsGuardianPet(m) THEN v
  ELSE [v EXCEPT !.pet[Master[m]] = m, !.minion[Master[m]] = None]

TakePetBar(v, m) ==
  IF IsGuardianPet(m) /\ v.minion[Master[m]] = None
  THEN [v EXCEPT !.minion[Master[m]] = m] ELSE v

SetMinion(v, m) ==
  LET o == Master[m]
      x == [v EXCEPT !.controlled[o] = @ \cup {m}]
      y == CASE Replaces(v, m)    -> TakePetSlot(UnSummon(x, v.pet[o]), m)
             [] v.pet[o] = None   -> TakePetSlot(x, m)
             [] OTHER             -> x
  IN UpdatePetCombatState(TakePetBar(y, m), o)

AddToMap(v, m) == [v EXCEPT !.world = @ \cup {m}, !.alive = @ \cup {m}]

(* A pet is loaded from the stable, as the current one from now on.         *)
LoadPetFromDB(v, m) ==
  AddToMap(SetMinion([v EXCEPT !.current[Master[m]] = m], m), m)

ResummonPetTemporaryUnSummonedIfAny(v, p) ==
  LET pets == {m \in Pet : Master[m] = p}
  IN IF p \notin v.away \/ p \in v.mounted \/ ~ IsPresent(v, p) \/ v.pet[p] # None THEN v
     ELSE LoadPetFromDB([v EXCEPT !.away = @ \ {p}], CHOOSE m \in pets : TRUE)

-----------------------------------------------------------------------------
(* Charms begin.  c, with or without an aura, takes control of t: whoever of*)
(* them is a player lets go of his own charm first.                         *)
CanBeCharmed(v, c, t) == t # c /\ v.charmer[t] = None

BeginCharm(v, c, t, aura) ==
  IF t \notin v.world \/ ~ aura \subseteq v.auras THEN v
  ELSE RevalidateCombat(SetCharm(v, c, t), t)

SetCharmedBy(v, c, t, aura) ==
  IF CanBeCharmed(v, c, t) THEN BeginCharm(LetGo(LetGo(v, c), t), c, t, aura) ELSE v

(* A charm aura ends the others on its target (SPELL_SPECIFIC_CHARM).  It    *)
(* does nothing to a player who is aboard a ship.                          *)
ApplyAuraBeside(v, c, t, aboard) ==
  LET y == [v EXCEPT !.auras = @ \cup {<<c, t>>}]
  IN IF aboard THEN y ELSE SetCharmedBy(y, c, t, {<<c, t>>})

ApplyAura(v, c, t, aboard) ==
  LET x == RemoveCharmAuras(v, t)
      y == [x EXCEPT !.auras = @ \cup {<<c, t>>}]
  IN IF aboard THEN y ELSE SetCharmedBy(y, c, t, {<<c, t>>})

-----------------------------------------------------------------------------
(* The steps.  calm is who will leave combat, if the step revalidates his.  *)
(* A step ends with all of its calls; nothing comes between them, as all     *)
(* that is in a map belongs to one thread.                                  *)

Step(v) == w' = [v EXCEPT !.calm = None]

(* DISMISS_PET: the spell sends the old pet away before its effect.         *)
DismissPet(v, u) == IF v.pet[u] = None THEN v ELSE UnSummon(v, v.pet[u])

(* EffectSummonType: one guardian, or several of one entry.                 *)
RECURSIVE SummonAll(_, _)
SummonAll(v, S) ==
  IF S = {} THEN v
  ELSE LET m == First(S) IN SummonAll(AddToMap(SetMinion(v, m), m), S \ {m})

SummonGuardian(S, dismisses) ==
  \E o \in Player \cup Creature :
    /\ S # {} /\ IsPresent(w, o)
    /\ \A m \in S : Master[m] = o /\ m \notin w.world
    /\ \A m, n \in S : Entry[m] = Entry[n]
    /\ dismisses \/ w.pet[o] = None
    /\ o \in Player => w.charmed[o] = None
    /\ Step(SummonAll(IF dismisses THEN DismissPet(w, o) ELSE w, S))

CheckIsCharmed(v, p, m) == Check(v, v.charmer[m] = p)

SummonPuppet(m) ==
  LET p == Master[m]
      x == AddToMap(SetMinion(w, m), m)
  IN /\ IsPresent(w, p) /\ m \notin w.world /\ w.charmed[p] = None
     /\ Step(CheckIsCharmed(SetCharmedBy(x, p, m, {}), p, m))

(* EffectSummonPet: not if he is there already.                             *)
SummonPet(m) ==
  LET p == Master[m]
  IN /\ IsPresent(w, p) /\ p \notin w.mounted
     /\ m \notin w.world /\ w.charmed[p] = None
     /\ Step(LoadPetFromDB(w, m))

(* A spell with a charm effect, on one target or on whoever is around.  No  *)
(* minion casts one.                                                        *)
Hit(v, c, t, aboard) == IF t \in v.world THEN ApplyAura(v, c, t, aboard) ELSE v

Charm(c, t, dismisses, aboard, calm) ==
  LET v == [w EXCEPT !.calm = calm]
      single == /\ dismisses \/ w.pet[c] = None
                /\ c \in Player => w.charmed[c] = None
                /\ OwnerOf(t) \notin Player
  IN /\ IsPresent(w, c) /\ IsPresent(w, t) /\ w.charmer[c] = None
     /\ {c, t} \cap w.mounted = {} /\ CanBeCharmed(w, c, t)
     /\ single \/ (c \in Area /\ ~ dismisses)
     /\ aboard => t \in Player
     /\ Step(Hit(IF dismisses THEN DismissPet(v, c) ELSE v, c, t, aboard))

PossessPet(p, calm) ==
  LET m == GetPet(w, p)
  IN /\ IsPresent(w, p) /\ p \notin w.mounted
     /\ m # None /\ m \in w.alive /\ w.charmer[m] = None
     /\ Step(ApplyAura([w EXCEPT !.calm = calm], p, m, FALSE))

(* It expires, is dispelled or cancelled, or its channel is interrupted.    *)
AuraEnds(c, t, calm) ==
  /\ <<c, t>> \in w.auras
  /\ Step(EndAura([w EXCEPT !.calm = calm], c, t))

(* COMMAND_ABANDON: the player lets go of his charm or dismisses a minion.  *)
Abandon(p, t, calm) ==
  LET v == [w EXCEPT !.calm = calm]
  IN /\ IsPresent(w, p)
     /\ \/ w.charmer[t] = p /\ Step(StopCastingCharm(v, p))
        \/ /\ w.charmer[t] # p /\ t \in w.world /\ IsMinionOf(t, p)
           /\ Step(UnSummon(v, t))

(* A guardian's or puppet's time is up, or his corpse goes.                 *)
Despawn(m) ==
  /\ m \in w.world \ Pet /\ m \in Summon
  /\ Step(UnSummon(w, m))

PetUpdate(m) ==
  LET p == Master[m]
      lost == (m \in w.far /\ w.charmer[m] # p) \/ w.pet[p] = None
  IN /\ m \in w.world
     /\ m \notin w.alive \/ lost \/ w.pet[p] # m
     /\ Step(RemovePet(w, m, "not in slot", m \in w.alive /\ lost))

-----------------------------------------------------------------------------
(* Death, and the way out of the world and into it.                        *)

(* setDeathState of a unit; of a guardian, whose owner gets another of the  *)
(* same entry for his pet bar; and of a player, who loses his pet first.    *)
UnitDies(v, u) ==
  RemoveCharmAuras(RemoveAllControlled(CombatStop([v EXCEPT !.alive = @ \ {u}], u), u), u)

Heirs(v, m) ==
  {n \in v.controlled[Master[m]] \cap Summon : Entry[n] = Entry[m] /\ n \in v.alive}

HandOver(v, m) ==
  LET o == Master[m]
  IN IF o \in Creature \/ v.minion[o] # m \/ Heirs(v, m) = {} THEN v
     ELSE [v EXCEPT !.minion[o] = First(Heirs(v, m)), !.pet[o] = First(Heirs(v, m))]

GuardianDies(v, m) == HandOver(UnitDies(v, m), m)

PlayerDies(v, p) ==
  LET m == GetPet(v, p)
      x == IF m # None THEN RemovePet(v, m, "not in slot", TRUE)
           ELSE [v EXCEPT !.away = @ \ {p}, !.current[p] = None]
  IN [UnitDies(x, p) EXCEPT !.mounted = @ \ {p}]

Die(u, calm) ==
  LET v == [w EXCEPT !.calm = calm]
  IN /\ u \in Mortal /\ IsPresent(w, u)
     /\ Step(CASE u \in Player   -> PlayerDies(v, u)
               [] u \in Guardian -> GuardianDies(v, u)
               [] OTHER          -> UnitDies(v, u))

Resurrect(u) ==
  /\ u \in (Player \cup Creature) \ w.alive /\ u \in w.world
  /\ Step([w EXCEPT !.alive = @ \cup {u}])

(* A player teleports to another map; a creature despawns with its grid.    *)
LeaveWorld(u, calm) ==
  LET v == [w EXCEPT !.calm = calm]
  IN /\ u \in w.world \ Summon
     /\ Step(IF u \in Player
             THEN RemoveFromWorld(UnsummonPetTemporaryIfAny(CombatStop(v, u), u), u)
             ELSE AddObjectToRemoveList(v, u))

EnterWorld(u) ==
  LET x == [w EXCEPT !.world = @ \cup {u}]
  IN /\ u \in (Player \cup Creature) \ w.world
     /\ Step(IF u \in Player THEN ResummonPetTemporaryUnSummonedIfAny(x, u)
             ELSE [x EXCEPT !.alive = @ \cup {u}])

Mount(p) ==
  /\ IsPresent(w, p) /\ p \notin w.mounted
  /\ Step([UnsummonPetTemporaryIfAny(w, p) EXCEPT !.mounted = @ \cup {p}])

Dismount(p) ==
  /\ IsPresent(w, p) /\ p \in w.mounted
  /\ LET x == [w EXCEPT !.mounted = @ \ {p}]
     IN Step(IF GetPet(x, p) # None THEN x ELSE ResummonPetTemporaryUnSummonedIfAny(x, p))

-----------------------------------------------------------------------------
(* What happens around them.                                               *)

Stray(m)  == m \in (Strays \cap w.world) \ w.far /\ Step([w EXCEPT !.far = @ \cup {m}])
Return(m) == m \in w.far /\ Step([w EXCEPT !.far = @ \ {m}])

EnterCombat(u) ==
  /\ u \in Fighter /\ IsPresent(w, u) /\ u \notin w.combat
  /\ Step(UpdateOwnerCombatState([w EXCEPT !.combat = @ \cup {u}], u))

LeaveCombat(u) == u \in w.combat /\ Step(CombatStop(w, u))

Calm == NoneOr(w.combat)

(* An assertion that fails ends the process: there is no next step.         *)
IsDown == w.failed /\ UNCHANGED w

Running ==
  /\ ~ w.failed
  /\ \/ \E S \in SUBSET Guardian, dismisses \in BOOLEAN : SummonGuardian(S, dismisses)
     \/ \E m \in Puppet : SummonPuppet(m)
     \/ \E m \in Pet : SummonPet(m) \/ PetUpdate(m) \/ Stray(m) \/ Return(m)
     \/ \E calm \in Calm, c \in Player \cup Creature, t \in Charmable,
           dismisses, aboard \in BOOLEAN :
          Charm(c, t, dismisses, aboard, calm)
     \/ \E calm \in Calm, c, t \in Unit : AuraEnds(c, t, calm)
     \/ \E calm \in Calm, p \in Player : PossessPet(p, calm)
     \/ \E calm \in Calm, p \in Player, t \in Unit : Abandon(p, t, calm)
     \/ \E calm \in Calm, u \in Unit : Die(u, calm) \/ LeaveWorld(u, calm)
     \/ \E m \in Summon : Despawn(m)
     \/ \E u \in Unit : Resurrect(u) \/ EnterWorld(u) \/ EnterCombat(u) \/ LeaveCombat(u)
     \/ \E p \in Player : Mount(p) \/ Dismount(p)

Next == Running \/ IsDown

Spec == Init /\ [][Next]_w

-----------------------------------------------------------------------------
(* Safety.                                                                 *)

TypeOK ==
  /\ w.alive \subseteq Unit /\ w.world \subseteq Unit
  /\ w.away \cup w.mounted \subseteq Player /\ w.far \subseteq Pet
  /\ w.auras \subseteq Unit \X Unit /\ w.calm = None /\ w.failed \in BOOLEAN
  /\ w.flag \subseteq Unit \ Pet

(* As long as the server runs, who controls whom is written the same        *)
(* everywhere, and names nobody who is gone; a present pet is its owner's    *)
(* pet and the current one of his stable; and no charm stays without the    *)
(* aura that will end it.                                                  *)
Minions(u) == {m \in Summon \cap w.world : Master[m] = u}
Charms(u)  == {t \in Unit : w.charmer[t] = u}

RegistersAgree ==
  /\ TypeOK
  /\ ~ w.failed =>
       /\ \A u \in Unit :
            /\ w.controlled[u] = Minions(u) \cup Charms(u)
            /\ w.controlled[u] # {} => IsPresent(w, u)
            /\ w.controlled[u] \subseteq w.world
            /\ {w.pet[u], w.minion[u]} \subseteq NoneOr(Minions(u) \ Puppet)
            /\ \A t \in Charms(u) : <<u, t>> \in w.auras \/ (t \in Puppet /\ Master[t] = u)
       /\ \A p \in Player :
            Charms(p) = IF w.charmed[p] = None THEN {} ELSE {w.charmed[p]}
       /\ \A m \in Pet \cap w.world : w.pet[Master[m]] = m /\ w.current[Master[m]] = m
       /\ w.combat \subseteq w.world

(* UNIT_FLAG_PET_IN_COMBAT says whether a minion or charm is in combat, of  *)
(* those whose minions nobody else may charm: of a minion that is charmed    *)
(* only the charmer hears when it enters or leaves combat.                  *)
FlagIsRight ==
  ~ w.failed =>
    \A u \in Player \cup Creature :
      (\A m \in Charmable : OwnerOf(m) # u)
        => (u \in w.flag <=> w.controlled[u] \cap w.combat # {})

(* The ASSERTs and ABORTs of these functions, about the current pet          *)
(* (SavePetToDB), the charmer (SetCharm), the minions of others (SetMinion)  *)
(* and what is left when a unit goes (RemoveFromWorld), fail in one case     *)
(* only, and in that one always: a player dies who possesses his pet by an   *)
(* aura of his while it is out of his sight.  Player::setDeathState removes  *)
(* the pet, SavePetToDB ends the possession, HandleModPossessPet removes the *)
(* pet for being too far away, and the pet that SavePetToDB goes on to save  *)
(* is not the current one any more (Pet.cpp:506).                           *)
DiesPossessingStray(p) ==
  /\ p \in w.alive \ w'.alive
  /\ \E m \in w.far : IsMinionOf(m, p) /\ <<p, m>> \in w.auras

OnlyDyingPossessorsFail ==
  [][w'.failed <=> w.failed \/ \E p \in Player : DiesPossessingStray(p)]_w

=============================================================================
