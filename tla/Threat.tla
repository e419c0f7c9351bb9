------------------------------- MODULE Threat -------------------------------
(***************************************************************************)
(* How a creature picks its victim: the threat list of one ThreatManager   *)
(* of src/server/game/Combat/ThreatManager.{h,cpp}.                        *)
(*                                                                         *)
(* Combat models which units have an entry on which list; this module what *)
(* an entry holds and who is attacked.  What an entry says about its victim*)
(* is a cache: the online state is only refreshed by UpdateVictim and by   *)
(* threat the victim causes, the suppression only when a new effect is put *)
(* on the victim, the taunt state only when an aura changes.  Threat is a  *)
(* member of a small set of levels, an operation that changes it says only *)
(* which level it may reach; 110% and 130% are computed on the levels.     *)
(*                                                                         *)
(* Threat that is redirected or forwarded to another unit is an AddThreat  *)
(* of its own, and so is what a script does from JustStartedThreateningMe. *)
(***************************************************************************)
EXTENDS Integers, Sequences

CONSTANTS
  Victim,      \* units the creature may be threatened by
  None,        \* no unit
  Level,       \* values of ThreatReference::GetThreat
  Hidden,      \* victims that may become unattackable and attackable again
  Shielded,    \* victims that may get an immunity or a breakable stun
  Mobile,      \* victims that may enter and leave melee range
  Taunter      \* victims with taunt and detaunt auras

ASSUME ThreatAssumption ==
  /\ None \notin Victim
  /\ 0 \in Level /\ Level \subseteq Nat
  /\ Hidden \subseteq Victim /\ Shielded \subseteq Victim
  /\ Mobile \subseteq Victim /\ Taunter \subseteq Victim

VARIABLES
  list,         \* _myThreatListEntries, a function on the victims with an entry
  current,      \* _currentVictimRef
  fixate,       \* _fixateRef
  attackable,   \* victims for which ShouldBeOffline is FALSE
  inopportune,  \* victims with an effect ShouldBeSuppressed looks for
  melee,        \* victims within melee range
  taunts,       \* the casters of the taunt auras on the creature, oldest first
  detaunted     \* victims with a detaunt aura of the creature

tactics == <<attackable, inopportune, melee>>
auras   == <<taunts, detaunted>>
vars    == <<list, current, fixate, attackable, inopportune, melee, taunts, detaunted>>

OFFLINE    == 0
SUPPRESSED == 1
ONLINE     == 2

DETAUNT == 0
NONE    == 1
TAUNT   == 2   \* and above: the later the aura, the higher the state

Reference == [online  : {OFFLINE, SUPPRESSED, ONLINE},
              taunted : Nat,
              threat  : Level]

Entries == DOMAIN list

IsAvailable(r) == r.online > OFFLINE

IsTaunting(r) == r.taunted >= TAUNT

(* The current and the fixated victim are pointers to entries: whoever      *)
(* frees an entry must clear both, or the next selection reads freed memory.*)
(* No taunt state outlives the aura that gave it.                           *)
TypeOK ==
  /\ Entries \subseteq Victim /\ list \in [Entries -> Reference]
  /\ {current, fixate} \subseteq Entries \cup {None}
  /\ \A v \in Entries : IsTaunting(list[v]) => \E i \in 1 .. Len(taunts) : taunts[i] = v
  /\ attackable \subseteq Victim /\ inopportune \subseteq Victim
  /\ melee \subseteq Victim /\ detaunted \subseteq Victim
  /\ taunts \in Seq(Taunter)

-----------------------------------------------------------------------------
(* ThreatReference.                                                        *)

(* "a taunting victim can never be suppressed"                              *)
ShouldBeSuppressed(v, r) == ~ IsTaunting(r) /\ v \in inopportune

UpdateOffline(v, r) ==
  [r EXCEPT !.online =
     IF v \notin attackable THEN OFFLINE
     ELSE IF @ # OFFLINE THEN @
     ELSE IF ShouldBeSuppressed(v, r) THEN SUPPRESSED
     ELSE ONLINE]

(* ThreatReference::UpdateTauntState for the state given by the auras.      *)
TauntState(v, T) ==
  LET ofV == {i \in 1 .. Len(T) : T[i] = v}
  IN IF ofV # {} THEN TAUNT + (CHOOSE i \in ofV : \A j \in ofV : j <= i) - 1
     ELSE NONE

UpdateTauntState(v, r, T, D) ==
  [r EXCEPT !.taunted =
     IF TauntState(v, T) < TAUNT /\ v \in D THEN DETAUNT ELSE TauntState(v, T)]

(* EvaluateSuppressed of the victim's ThreatManager, for its entry r on     *)
(* this list, when the victims of inopp have an effect that suppresses.     *)
EvaluateSuppressed(v, r, inopp, canExpire) ==
  LET should == ~ IsTaunting(r) /\ v \in inopp
  IN [r EXCEPT !.online =
        IF @ = ONLINE /\ should THEN SUPPRESSED
        ELSE IF canExpire /\ @ = SUPPRESSED /\ ~ should THEN ONLINE
        ELSE @]

(* CompareReferencesLT: is a, its threat weighted by pct percent, below b?  *)
Below(a, b, pct) ==
  \/ a.online < b.online
  \/ a.online = b.online /\ a.taunted < b.taunted
  \/ /\ a.online = b.online /\ a.taunted = b.taunted
     /\ a.threat * pct < b.threat * 100

(* What the heap may have on top, among the victims in S.                   *)
Top(L, S) == {v \in S : \A w \in S : ~ Below(L[v], L[w], 100)}

-----------------------------------------------------------------------------
(* Selection.                                                              *)

(* All victims above 110% of the old one, near or far.                     *)
ChallengersAnywhere(L, old) == {v \in DOMAIN L : Below(L[old], L[v], 110)}

(* The part of ReselectVictim after the fixated target, with h on top: the  *)
(* old victim stays unless h is above 130% of it, or someone in melee above *)
(* 110%, of whom the highest is taken.                                      *)
Challengers(L, old) == {v \in DOMAIN L \cap melee : Below(L[old], L[v], 110)}

SelectInMelee(L, old, h) ==
  IF ~ IsAvailable(L[h]) THEN {None}
  ELSE IF old \in {None, h} THEN {h}
  ELSE IF Challengers(L, old) = {} THEN {old}
  ELSE Top(L, Challengers(L, old))

SelectByThreat(L, old, h) ==
  IF ~ IsAvailable(L[h]) THEN {None}
  ELSE IF old \in {None, h} \/ Below(L[old], L[h], 130) THEN {h}
  ELSE IF Challengers(L, old) = {} THEN {old}
  ELSE Top(L, Challengers(L, old))

ReselectVictim(L, old, fix) ==
  IF DOMAIN L = {} THEN {None}
  ELSE IF fix # None /\ IsAvailable(L[fix]) THEN {fix}
  ELSE LET oldVictimRef == IF old # None /\ IsAvailable(L[old]) THEN old ELSE None
       IN UNION {SelectByThreat(L, oldVictimRef, h) : h \in Top(L, DOMAIN L)}

(* UpdateVictim on the list L when old and fix are selected before.         *)
UpdateVictim(L, old, fix) ==
  /\ list' = [v \in DOMAIN L |-> UpdateOffline(v, L[v])]
  /\ current' \in ReselectVictim(list', old, fix)
  /\ fixate' = fix

Keep(L, old, fix) == list' = L /\ current' = old /\ fixate' = fix

-----------------------------------------------------------------------------
(* Operations on the threat list.                                          *)

NewReference == [online |-> OFFLINE, taunted |-> NONE, threat |-> 0]

(* The end of AddThreat: only an online entry receives the threat.          *)
Receive(r, a) == [r EXCEPT !.threat = IF r.online = ONLINE THEN a ELSE @]

(* "SUPPRESSED threat states don't go back to ONLINE until threat is caused *)
(* by them"                                                                 *)
Wake(v, r) ==
  [r EXCEPT !.online =
     IF @ = SUPPRESSED /\ ~ ShouldBeSuppressed(v, r) THEN ONLINE ELSE @]

With(v, r) == [w \in Entries \cup {v} |-> IF w = v THEN r ELSE list[w]]

(* AddThreat(v) that brings v to threat a, when v and the creature can be   *)
(* in combat.                                                               *)
AddThreat(v, a) ==
  /\ \/ /\ v \in Entries
        /\ Keep(With(v, Receive(Wake(v, list[v]), a)), current, fixate)
     \/ LET L == With(v, Receive(UpdateOffline(v, NewReference), a))
        IN /\ v \notin Entries
           /\ IF current = None THEN UpdateVictim(L, current, fixate)
              ELSE Keep(L, current, fixate)
  /\ UNCHANGED <<tactics, auras>>

(* MatchUnitThreatToHighestThreat, which skips a taunting top entry if the  *)
(* next one has more threat.                                                *)
MatchUnitThreatToHighestThreat(v) ==
  /\ Entries # {}
  /\ \E h \in Top(list, Entries) :
       /\ IsAvailable(list[h])
       /\ LET S == Entries \ {h}
              Next2 == {a \in Top(list, S) : /\ IsTaunting(list[h]) /\ IsAvailable(list[a])
                                             /\ list[a].threat > list[h].threat}
          IN \/ Next2 = {} /\ AddThreat(v, list[h].threat)
             \/ \E a \in Next2 : AddThreat(v, list[a].threat)

(* ScaleThreat, ModifyThreatByPercent, a new _tempModifier.                 *)
ScaleThreat(v, a) ==
  /\ v \in Entries
  /\ Keep(With(v, [list[v] EXCEPT !.threat = a]), current, fixate)
  /\ UNCHANGED <<tactics, auras>>

ResetAllThreat ==
  /\ Keep([v \in Entries |-> [list[v] EXCEPT !.threat = 0]], current, fixate)
  /\ UNCHANGED <<tactics, auras>>

(* PurgeThreatListRef for the entries of S: nothing keeps a pointer to one. *)
PurgeKeepingFixate(S) ==
  [list    |-> [v \in Entries \ S |-> list[v]],
   current |-> IF current \in S THEN None ELSE current,
   fixate  |-> fixate]

Purge(S) ==
  [list    |-> [v \in Entries \ S |-> list[v]],
   current |-> IF current \in S THEN None ELSE current,
   fixate  |-> IF fixate \in S THEN None ELSE fixate]

ClearThreatLazily(v) ==
  /\ v \in Entries
  /\ LET p == Purge({v}) IN Keep(p.list, p.current, p.fixate)
  /\ UNCHANGED <<tactics, auras>>

ClearThreat(v) ==
  /\ v \in Entries
  /\ LET p == Purge({v})
     IN IF p.current = None THEN UpdateVictim(p.list, p.current, p.fixate)
        ELSE Keep(p.list, p.current, p.fixate)
  /\ UNCHANGED <<tactics, auras>>

ClearAllThreat ==
  /\ LET p == Purge(Entries) IN Keep(p.list, p.current, p.fixate)
  /\ UNCHANGED <<tactics, auras>>

(* FixateTarget: a target that is not on the list clears the fixate.        *)
FixateTarget(v) ==
  /\ Keep(list, current, IF v \in Entries THEN v ELSE None)
  /\ UNCHANGED <<tactics, auras>>

(* Update once the interval is over: "IsThreatListEmpty(true)" counts the   *)
(* offline entries too.                                                     *)
UpdateIfAvailable ==
  /\ \E v \in Entries : IsAvailable(list[v])
  /\ UpdateVictim(list, current, fixate)
  /\ UNCHANGED <<tactics, auras>>

Update ==
  /\ Entries # {}
  /\ UpdateVictim(list, current, fixate)
  /\ UNCHANGED <<tactics, auras>>

(* GetCurrentVictim of an AI.                                               *)
GetCurrentVictim ==
  /\ current \notin attackable
  /\ UpdateVictim(list, current, fixate)
  /\ UNCHANGED <<tactics, auras>>

-----------------------------------------------------------------------------
(* Auras and movement.                                                     *)

(* TauntUpdate with the taunt auras T and the detaunt auras D.  Its last    *)
(* call, EvaluateSuppressed(true), is about the creature's own entries on   *)
(* the lists of others: see TauntUpdateOf.                                  *)
TauntUpdate(T, D) ==
  /\ taunts' = T /\ detaunted' = D
  /\ Keep([v \in Entries |-> UpdateTauntState(v, list[v], T, D)], current, fixate)
  /\ UNCHANGED tactics

Taunt(v) ==
  /\ \A i \in 1 .. Len(taunts) : taunts[i] # v
  /\ TauntUpdate(Append(taunts, v), detaunted)

TauntFades(v) ==
  \E i \in 1 .. Len(taunts) :
    /\ taunts[i] = v
    /\ TauntUpdate(SubSeq(taunts, 1, i - 1) \o SubSeq(taunts, i + 1, Len(taunts)), detaunted)

Detaunt(v) == TauntUpdate(taunts, detaunted \cup {v})

DetauntFades(v) == v \in detaunted /\ TauntUpdate(taunts, detaunted \ {v})

Evaluate(v, inopp, canExpire) ==
  Keep([w \in Entries |-> IF w = v THEN EvaluateSuppressed(w, list[w], inopp, canExpire)
                          ELSE list[w]], current, fixate)

(* A victim that is a creature is taunted itself, by or on whomever: "taunt *)
(* aura update also re-evaluates all suppressed states", and here one may   *)
(* end without a threat.                                                    *)
TauntUpdateOf(v) ==
  /\ Evaluate(v, inopportune, TRUE)
  /\ UNCHANGED <<tactics, auras>>

(* An immunity, a confusion, a stun damage breaks: HandleAuraModDmgImmunity *)
(* and the like call EvaluateSuppressed when it comes, not when it goes.    *)
Shield(v) ==
  /\ inopportune' = inopportune \cup {v}
  /\ Evaluate(v, inopportune', FALSE)
  /\ UNCHANGED <<attackable, melee, auras>>

ShieldFades(v) ==
  /\ inopportune' = inopportune \ {v}
  /\ UNCHANGED <<list, current, fixate, attackable, melee, auras>>

(* Invisibility, GM mode, immunity flags, evading: nobody tells the list.   *)
Hide(H) ==
  /\ attackable' = (attackable \ Hidden) \cup H
  /\ UNCHANGED <<list, current, fixate, inopportune, melee, auras>>

Move(M) ==
  /\ melee' = (melee \ Mobile) \cup M
  /\ UNCHANGED <<list, current, fixate, attackable, inopportune, auras>>

-----------------------------------------------------------------------------
Init ==
  /\ list = [v \in {} |-> NewReference]
  /\ current = None /\ fixate = None
  /\ attackable = Victim /\ inopportune = {} /\ melee = Victim \ Mobile
  /\ taunts = <<>> /\ detaunted = {}

NextButClearFixate ==
  \/ \E v \in Victim :
       \/ \E a \in Level : AddThreat(v, a)
       \/ \E a \in Level : ScaleThreat(v, a)
       \/ MatchUnitThreatToHighestThreat(v)
       \/ ClearThreat(v)
       \/ FixateTarget(v)
  \/ \E v \in Taunter : Taunt(v) \/ TauntFades(v) \/ Detaunt(v) \/ DetauntFades(v)
  \/ \E v \in Shielded : Shield(v) \/ ShieldFades(v) \/ TauntUpdateOf(v)
  \/ \E H \in SUBSET Hidden : Hide(H)
  \/ \E M \in SUBSET Mobile : Move(M)
  \/ ResetAllThreat \/ ClearAllThreat
  \/ Update \/ GetCurrentVictim

ClearFixate == FixateTarget(None)

Next == NextButClearFixate \/ ClearFixate

(* Creature::Update calls Update of a living creature in every map tick.    *)
Spec == Init /\ [][Next]_vars /\ WF_vars(Update)

-----------------------------------------------------------------------------
(* Properties.                                                             *)

(* The creature has a victim exactly if it has somebody to attack: an       *)
(* offline entry is never the current victim (the assertion of              *)
(* GetCurrentVictim), although the states of entries and the victim change  *)
(* separately, and every path that takes the victim away, or lists someone, *)
(* selects again.                                                           *)
CurrentIsAvailable ==
  IF current = None THEN \A v \in Entries : ~ IsAvailable(list[v])
                    ELSE IsAvailable(list[current])

(* A victim that is still available loses the creature to one of the same   *)
(* online and taunt state only from 110% of its threat in melee or 130% at  *)
(* range, unless the creature is fixated.                                   *)
LosesByTheRules ==
  (current \in DOMAIN list' /\ current' \notin {current, None, fixate'}) =>
    LET old == list'[current]  new == list'[current']
    IN \/ ~ IsAvailable(old)
       \/ <<old.online, old.taunted>> # <<new.online, new.taunted>>
       \/ new.threat * 100 > old.threat * (IF current' \in melee THEN 110 ELSE 130)

VictimIsSticky == [][LosesByTheRules]_vars

(* After an update nobody deserves the creature more than its victim: not a *)
(* better online or taunt state, not 130% of its threat, not 110% in melee. *)
SelectsTheWorthiest ==
  (Update /\ current' \notin {None, fixate'}) =>
    \A v \in Entries :
      LET victim == list'[current']  other == list'[v]
      IN /\ victim.online >= other.online
         /\ victim.online = other.online => victim.taunted >= other.taunted
         /\ <<victim.online, victim.taunted>> = <<other.online, other.taunted>> =>
              victim.threat * (IF v \in melee THEN 110 ELSE 130) >= other.threat * 100

NobodyOvertakes == [][SelectsTheWorthiest]_vars

(* If some target stays attackable on the list the creature comes to attack *)
(* and does not stop: offline entries are looked at again.                  *)
TargetIsAttacked ==
  \A v \in Victim : (<>[](v \in Entries /\ v \in attackable)) => <>[](current # None)

(* What ThreatManager.cpp:121 says of taunting victims.                     *)
TauntingIsNeverSuppressed ==
  \A v \in Entries : IsTaunting(list[v]) => list[v].online # SUPPRESSED

(* What ThreatManager.h:168 says: a fixate stays until it is cleared, and    *)
(* fixating a target that is not on the list does nothing to it.            *)
SpecNobodyClears == Init /\ [][NextButClearFixate]_vars

FixateStays == [][fixate # None /\ fixate \in DOMAIN list' => fixate' # None]_vars

=============================================================================
