---------------------------- MODULE ThreatProofs ----------------------------
(***************************************************************************)
(* Theorems about Threat, for all sets of victims and all levels of threat:*)
(* the pointers of the creature and its victim are valid after every call, *)
(* and a victim is lost only by the rules.                                 *)
(*                                                                         *)
(* Everything rests on what one selection returns (ReselectionMeans): its  *)
(* three cases give that the victim is available, that it is lost by 110%  *)
(* or 130% only, and that nobody is passed over.  The other operations     *)
(* either leave the online states as they are or select again.             *)
(***************************************************************************)
EXTENDS Threat, SequenceTheorems, TLAPS

(* The entries are references of victims; those that taunt have an aura     *)
(* among T.                                                                 *)
ListOK(L) == DOMAIN L \subseteq Victim /\ L \in [DOMAIN L -> Reference]

TauntsHaveAuras(L, T) ==
  \A v \in DOMAIN L : IsTaunting(L[v]) => \E i \in 1 .. Len(T) : T[i] = v

Distinct(T) == \A i, j \in 1 .. Len(T) : T[i] = T[j] => i = j

(* c is a proper victim for the entries L.                                  *)
Deserves(L, c) ==
  IF c = None THEN \A v \in DOMAIN L : ~ IsAvailable(L[v]) ELSE IsAvailable(L[c])

SurroundingsOK ==
  /\ attackable \subseteq Victim /\ inopportune \subseteq Victim
  /\ melee \subseteq Victim /\ detaunted \subseteq Victim

IInv == TypeOK /\ CurrentIsAvailable /\ Distinct(taunts)

-----------------------------------------------------------------------------
(* References.                                                             *)

(* A taunt state is one of an aura of that victim.  Nobody has two auras, so *)
(* that the last of them is the only one.                                   *)
LEMMA TauntStateMeans ==
  ASSUME NEW S, NEW T \in Seq(S), Distinct(T), NEW v
  PROVE  /\ TauntState(v, T) \in Nat
         /\ TauntState(v, T) >= TAUNT => \E i \in 1 .. Len(T) : T[i] = v
<1> DEFINE ofV == {i \in 1 .. Len(T) : T[i] = v}
           last == CHOOSE i \in ofV : \A j \in ofV : j <= i
<1>1. CASE ofV = {}
  BY <1>1 DEF TauntState, TAUNT, NONE
<1>2. CASE ofV # {}
  <2>1. \E i \in ofV : \A j \in ofV : j <= i
    BY <1>2 DEF Distinct
  <2>2. last \in ofV
    <3> HIDE DEF ofV
    <3> QED BY <2>1
  <2>3. TauntState(v, T) = TAUNT + last - 1
    BY <1>2 DEF TauntState
  <2>4. last \in 1 .. Len(T) /\ T[last] = v
    BY <2>2
  <2>5. Len(T) \in Nat
    OBVIOUS
  <2> HIDE DEF last
  <2> QED BY <2>3, <2>4, <2>5 DEF TAUNT
<1> QED BY <1>1, <1>2

(* What the functions of ThreatReference leave alone.                       *)
LEMMA UpdateOfflineKeeps ==
  ASSUME NEW v, NEW r \in Reference
  PROVE  /\ UpdateOffline(v, r) \in Reference
         /\ UpdateOffline(v, r).taunted = r.taunted
BY DEF UpdateOffline, Reference, OFFLINE, SUPPRESSED, ONLINE

LEMMA UpdateTauntStateKeeps ==
  ASSUME NEW v, NEW r \in Reference, NEW S, NEW T \in Seq(S), Distinct(T), NEW D
  PROVE  LET q == UpdateTauntState(v, r, T, D)
         IN /\ q \in Reference /\ q.online = r.online
            /\ IsTaunting(q) => \E i \in 1 .. Len(T) : T[i] = v
<1>1. TauntState(v, T) \in Nat
  BY TauntStateMeans
<1>2. TauntState(v, T) >= TAUNT => \E i \in 1 .. Len(T) : T[i] = v
  BY TauntStateMeans
<1> DEFINE t == IF TauntState(v, T) < TAUNT /\ v \in D THEN DETAUNT ELSE TauntState(v, T)
           q == UpdateTauntState(v, r, T, D)
<1>3. t \in Nat /\ (t >= TAUNT => TauntState(v, T) >= TAUNT)
  BY <1>1 DEF DETAUNT, TAUNT
<1>4. q = [r EXCEPT !.taunted = t]
  BY DEF UpdateTauntState
<1> HIDE DEF t, q
<1>5. q \in Reference /\ q.online = r.online /\ q.taunted = t
  BY <1>3, <1>4 DEF Reference
<1>6. IsTaunting(q) => \E i \in 1 .. Len(T) : T[i] = v
  BY <1>2, <1>3, <1>5 DEF IsTaunting
<1> QED BY <1>5, <1>6 DEF q

LEMMA EvaluateSuppressedKeeps ==
  ASSUME NEW v, NEW r \in Reference, NEW S, NEW b
  PROVE  LET q == EvaluateSuppressed(v, r, S, b)
         IN /\ q \in Reference /\ q.taunted = r.taunted
            /\ IsAvailable(q) <=> IsAvailable(r)
BY DEF EvaluateSuppressed, Reference, IsAvailable, OFFLINE, SUPPRESSED, ONLINE

LEMMA ReceiveKeeps ==
  ASSUME NEW r \in Reference, NEW a \in Level
  PROVE  /\ Receive(r, a) \in Reference
         /\ Receive(r, a).taunted = r.taunted /\ Receive(r, a).online = r.online
BY DEF Receive, Reference

LEMMA WakeKeeps ==
  ASSUME NEW v, NEW r \in Reference
  PROVE  /\ Wake(v, r) \in Reference /\ Wake(v, r).taunted = r.taunted
         /\ IsAvailable(Wake(v, r)) <=> IsAvailable(r)
BY DEF Wake, Reference, IsAvailable, OFFLINE, SUPPRESSED, ONLINE

-----------------------------------------------------------------------------
(* Selection.                                                              *)


(* The victim of before, if it can be kept.                                 *)
Old(L, old) == IF old # None /\ IsAvailable(L[old]) THEN old ELSE None

(* The ways in which c is selected when h is on top and o is the old victim.*)
ByHeight(L, o, h, c) ==
  \/ c = h /\ (o \in {None, h} \/ Below(L[o], L[h], 130))
  \/ /\ o \notin {None, h} /\ ~ Below(L[o], L[h], 130)
     /\ \/ c = o /\ Challengers(L, o) = {}
        \/ c \in Top(L, Challengers(L, o))

LEMMA ReselectionMeans ==
  ASSUME NEW L, ListOK(L), NEW old \in DOMAIN L \cup {None},
         NEW fix \in DOMAIN L \cup {None},
         NEW c \in ReselectVictim(L, old, fix)
  PROVE  \/ c = None /\ \A v \in DOMAIN L : ~ IsAvailable(L[v])
         \/ c = fix /\ c \in DOMAIN L /\ IsAvailable(L[c])
         \/ \E h \in Top(L, DOMAIN L) :
              IsAvailable(L[h]) /\ ByHeight(L, Old(L, old), h, c)
<1>1. CASE DOMAIN L = {}
  BY <1>1 DEF ReselectVictim
<1>2. CASE DOMAIN L # {} /\ fix # None /\ IsAvailable(L[fix])
  BY <1>2 DEF ReselectVictim
<1>3. CASE DOMAIN L # {} /\ ~ (fix # None /\ IsAvailable(L[fix]))
  <2>1. PICK h \in Top(L, DOMAIN L) : c \in SelectByThreat(L, Old(L, old), h)
    BY <1>3 DEF ReselectVictim, Old
  <2>2. CASE IsAvailable(L[h])
    BY <2>1, <2>2 DEF SelectByThreat, ByHeight
  <2>3. CASE ~ IsAvailable(L[h])
    <3>1. c = None
      BY <2>1, <2>3 DEF SelectByThreat
    <3>2. ASSUME NEW v \in DOMAIN L PROVE ~ IsAvailable(L[v])
      <4>1. h \in DOMAIN L /\ ~ Below(L[h], L[v], 100)
        BY <3>2 DEF Top
      <4>2. L[h].online \in Nat /\ L[v].online \in Nat
        BY <3>2, <4>1 DEF ListOK, Reference, OFFLINE, SUPPRESSED, ONLINE
      <4> QED BY <2>3, <4>1, <4>2 DEF Below, IsAvailable, OFFLINE
    <3> QED BY <3>1, <3>2
  <2> QED BY <2>2, <2>3
<1> QED BY <1>1, <1>2, <1>3

(* The victim that is selected has an available entry.                      *)
LEMMA SelectedDeserves ==
  ASSUME NEW L, ListOK(L), NEW old \in DOMAIN L \cup {None},
         NEW fix \in DOMAIN L \cup {None},
         NEW c \in ReselectVictim(L, old, fix)
  PROVE  c \in DOMAIN L \cup {None} /\ Deserves(L, c)
<1>0. None \notin DOMAIN L
  BY ThreatAssumption DEF ListOK
<1>1. CASE c = None /\ \A v \in DOMAIN L : ~ IsAvailable(L[v])
  BY <1>1 DEF Deserves
<1>2. CASE c = fix /\ c \in DOMAIN L /\ IsAvailable(L[c])
  BY <1>0, <1>2 DEF Deserves
<1>3. ASSUME NEW h \in Top(L, DOMAIN L), IsAvailable(L[h]), ByHeight(L, Old(L, old), h, c)
      PROVE  c \in DOMAIN L /\ IsAvailable(L[c])
  <2>1. h \in DOMAIN L
    BY DEF Top
  <2>2. CASE c = h
    BY <1>3, <2>1, <2>2
  <2>3. CASE c # h
    <3>1. Old(L, old) \in DOMAIN L /\ IsAvailable(L[Old(L, old)])
      BY <1>3, <2>3 DEF ByHeight, Old
    <3>2. CASE c = Old(L, old)
      BY <3>1, <3>2
    <3>3. CASE c \in Challengers(L, Old(L, old))
      <4>1. c \in DOMAIN L /\ Below(L[Old(L, old)], L[c], 110)
        BY <3>3 DEF Challengers
      <4>2. L[Old(L, old)].online \in Nat /\ L[c].online \in Nat
        BY <3>1, <4>1 DEF ListOK, Reference, OFFLINE, SUPPRESSED, ONLINE
      <4>3. L[Old(L, old)].online <= L[c].online
        BY <4>1, <4>2 DEF Below
      <4> QED BY <3>1, <4>1, <4>2, <4>3 DEF IsAvailable, OFFLINE
    <3> QED BY <1>3, <2>3, <3>2, <3>3 DEF ByHeight, Top
  <2> QED BY <2>2, <2>3
<1> QED BY <1>0, <1>1, <1>2, <1>3, ReselectionMeans DEF Deserves

(* A victim that could have been kept is lost to a worthier one.            *)
LEMMA SelectedIsWorthy ==
  ASSUME NEW L, ListOK(L), NEW old \in DOMAIN L, NEW fix \in DOMAIN L \cup {None},
         NEW c \in ReselectVictim(L, old, fix), c \notin {old, None, fix},
         IsAvailable(L[old]),
         L[old].online = L[c].online, L[old].taunted = L[c].taunted
  PROVE  L[c].threat * 100 > L[old].threat * (IF c \in melee THEN 110 ELSE 130)
<1>0. None \notin DOMAIN L
  BY ThreatAssumption DEF ListOK
<1>1. Old(L, old) = old
  BY <1>0 DEF Old
<1>2. PICK h \in Top(L, DOMAIN L) : ByHeight(L, old, h, c)
  BY <1>1, ReselectionMeans
<1>3. c \in DOMAIN L /\ h \in DOMAIN L
  BY SelectedDeserves DEF Top
<1>4. L[old].threat \in Nat /\ L[c].threat \in Nat
  BY <1>3, ThreatAssumption DEF ListOK, Reference
<1>5. CASE c = h /\ Below(L[old], L[h], 130)
  <2>1. L[c].threat * 100 > L[old].threat * 130
    BY <1>4, <1>5 DEF Below, ListOK, Reference, OFFLINE, SUPPRESSED, ONLINE
  <2> QED BY <1>4, <2>1
<1>6. CASE c \in Challengers(L, old)
  <2>1. L[c].threat * 100 > L[old].threat * 110
    BY <1>4, <1>6 DEF Challengers, Below, ListOK, Reference, OFFLINE, SUPPRESSED, ONLINE
  <2>2. c \in melee
    BY <1>6 DEF Challengers
  <2> QED BY <2>1, <2>2
<1> QED BY <1>0, <1>2, <1>5, <1>6 DEF ByHeight, Top

(* What nobody has when c is the victim: a better state, or too much threat.*)
Overtakes(L, v, c) ==
  \/ L[c].online < L[v].online
  \/ L[c].online = L[v].online /\ L[c].taunted < L[v].taunted
  \/ /\ L[c].online = L[v].online /\ L[c].taunted = L[v].taunted
     /\ L[c].threat * (IF v \in melee THEN 110 ELSE 130) < L[v].threat * 100

(* Nobody is passed over: by the top of the heap for the victims at range,  *)
(* by the walk through the challengers for those in melee.                  *)
LEMMA NobodyIsPassedOver ==
  ASSUME NEW L, ListOK(L), NEW old \in DOMAIN L \cup {None},
         NEW fix \in DOMAIN L \cup {None},
         NEW c \in ReselectVictim(L, old, fix), c \notin {None, fix},
         NEW v \in DOMAIN L
  PROVE  ~ Overtakes(L, v, c)
<1>0. None \notin DOMAIN L
  BY ThreatAssumption DEF ListOK
<1> DEFINE o == Old(L, old)
<1>1. PICK h \in Top(L, DOMAIN L) : ByHeight(L, o, h, c)
  BY ReselectionMeans
<1>2. c \in DOMAIN L /\ h \in DOMAIN L
  BY SelectedDeserves DEF Top
<1>3. ASSUME NEW w \in DOMAIN L
      PROVE  L[w].online \in Nat /\ L[w].taunted \in Nat /\ L[w].threat \in Nat
  BY ThreatAssumption DEF ListOK, Reference, OFFLINE, SUPPRESSED, ONLINE
<1>4. ~ Below(L[h], L[v], 100)
  BY DEF Top
<1>5. CASE c = h
  <2>1. ~ Below(L[c], L[v], 100)
    BY <1>4, <1>5
  <2> QED BY <1>2, <1>3, <2>1 DEF Below, Overtakes
<1>6. CASE c # h
  <2>1. o \in DOMAIN L /\ ~ Below(L[o], L[h], 130)
    BY <1>1, <1>6 DEF ByHeight, Old
  <2>2. ~ Below(L[o], L[v], 130)
    <3>1. L[o].online \in Nat /\ L[o].taunted \in Nat /\ L[o].threat \in Nat
      BY <1>3, <2>1
    <3>2. L[h].online \in Nat /\ L[h].taunted \in Nat /\ L[h].threat \in Nat
      BY <1>2, <1>3
    <3>3. L[v].online \in Nat /\ L[v].taunted \in Nat /\ L[v].threat \in Nat
      BY <1>3
    <3> QED BY <1>4, <2>1, <3>1, <3>2, <3>3 DEF Below
  <2>3. CASE c = o /\ Challengers(L, o) = {}
    <3>1. v \in melee => ~ Below(L[o], L[v], 110)
      BY <2>3 DEF Challengers
    <3> QED BY <1>2, <1>3, <2>2, <2>3, <3>1 DEF Below, Overtakes
  <2>4. CASE c \in Top(L, Challengers(L, o))
    <3>1. Below(L[o], L[c], 110)
      BY <2>4 DEF Top, Challengers
    <3>2. v \in melee => ~ Below(L[o], L[v], 110) \/ ~ Below(L[c], L[v], 100)
      BY <2>4 DEF Top, Challengers
    <3>3. L[o].online \in Nat /\ L[o].taunted \in Nat /\ L[o].threat \in Nat
      BY <1>3, <2>1
    <3>4. L[c].online \in Nat /\ L[c].taunted \in Nat /\ L[c].threat \in Nat
      BY <1>2, <1>3
    <3>5. L[v].online \in Nat /\ L[v].taunted \in Nat /\ L[v].threat \in Nat
      BY <1>3
    <3> QED BY <2>2, <3>1, <3>2, <3>3, <3>4, <3>5 DEF Below, Overtakes
  <2> QED BY <1>1, <1>6, <2>3, <2>4 DEF ByHeight
<1> QED BY <1>5, <1>6

-----------------------------------------------------------------------------
(* The invariant.                                                          *)

(* Entries L, current victim c and fixated victim f are as they should be.  *)
EntriesOK(L, c, f, T) ==
  /\ ListOK(L) /\ TauntsHaveAuras(L, T)
  /\ {c, f} \subseteq DOMAIN L \cup {None}
  /\ Deserves(L, c)

AurasOK == taunts \in Seq(Taunter) /\ Distinct(taunts)

LEMMA InvariantMeans ==
  IInv <=> EntriesOK(list, current, fixate, taunts) /\ AurasOK /\ SurroundingsOK
BY DEF IInv, TypeOK, CurrentIsAvailable, EntriesOK, ListOK, TauntsHaveAuras, Deserves,
       AurasOK, SurroundingsOK, Entries

(* A selection mends the victim, whatever it was.                           *)
LEMMA UpdateVictimKeeps ==
  ASSUME NEW L, NEW T, ListOK(L), TauntsHaveAuras(L, T),
         NEW old \in DOMAIN L \cup {None}, NEW fix \in DOMAIN L \cup {None},
         UpdateVictim(L, old, fix)
  PROVE  /\ EntriesOK(list', current', fixate', T)
         /\ DOMAIN list' = DOMAIN L /\ fixate' = fix
         /\ current' \in ReselectVictim(list', old, fix)
<1>1. list' = [v \in DOMAIN L |-> UpdateOffline(v, L[v])]
  BY DEF UpdateVictim
<1>2. DOMAIN list' = DOMAIN L
  BY <1>1
<1>3. \A v \in DOMAIN L : /\ list'[v] \in Reference
                          /\ list'[v].taunted = L[v].taunted
  <2>1. TAKE v \in DOMAIN L
  <2>2. L[v] \in Reference
    BY DEF ListOK
  <2>3. list'[v] = UpdateOffline(v, L[v])
    BY <1>1
  <2> QED BY <2>2, <2>3, UpdateOfflineKeeps
<1>4. list' \in [DOMAIN list' -> Reference]
  BY <1>1, <1>2, <1>3
<1>5. ListOK(list')
  BY <1>2, <1>4 DEF ListOK
<1>6. TauntsHaveAuras(list', T)
  BY <1>2, <1>3 DEF TauntsHaveAuras, IsTaunting
<1>7. current' \in ReselectVictim(list', old, fix) /\ fixate' = fix
  BY DEF UpdateVictim
<1>8. current' \in DOMAIN list' \cup {None} /\ Deserves(list', current')
  <2> DEFINE M == list'
             c == current'
  <2>1. ListOK(M) /\ old \in DOMAIN M \cup {None} /\ fix \in DOMAIN M \cup {None}
    BY <1>2, <1>5
  <2>2. c \in ReselectVictim(M, old, fix)
    BY <1>7
  <2> HIDE DEF M, c
  <2>3. c \in DOMAIN M \cup {None} /\ Deserves(M, c)
    BY <2>1, <2>2, SelectedDeserves
  <2> QED BY <2>3 DEF M, c
<1>9. EntriesOK(list', current', fixate', T)
  BY <1>2, <1>5, <1>6, <1>7, <1>8 DEF EntriesOK
<1> QED BY <1>2, <1>7, <1>9

LEMMA KeepKeeps ==
  ASSUME NEW L, NEW c, NEW f, NEW T, EntriesOK(L, c, f, T), Keep(L, c, f)
  PROVE  EntriesOK(list', current', fixate', T)
BY DEF Keep

(* A call that neither adds nor removes entries, nor changes who is         *)
(* available, keeps the victim.                                             *)
LEMMA SameAvailability ==
  ASSUME NEW L, NEW M, NEW c, NEW f, NEW T, NEW U, EntriesOK(L, c, f, T),
         DOMAIN M = DOMAIN L, M \in [DOMAIN M -> Reference],
         TauntsHaveAuras(M, U),
         \A v \in DOMAIN L : IsAvailable(M[v]) <=> IsAvailable(L[v])
  PROVE  EntriesOK(M, c, f, U)
BY ThreatAssumption DEF EntriesOK, ListOK, Deserves

(* Entries of a list whose taunt states have not grown.                     *)
LEMMA SameTaunts ==
  ASSUME NEW L, NEW M, NEW T, TauntsHaveAuras(L, T), DOMAIN M \subseteq DOMAIN L,
         \A v \in DOMAIN M : M[v].taunted = L[v].taunted
  PROVE  TauntsHaveAuras(M, T)
BY DEF TauntsHaveAuras, IsTaunting

(* ...Step: each operation keeps the part of the invariant it can disturb.  *)
(* Threat is added to an entry, or to a new one.                            *)
LEMMA AddThreatStep ==
  ASSUME EntriesOK(list, current, fixate, taunts),
         NEW v \in Victim, NEW a \in Level, AddThreat(v, a)
  PROVE  EntriesOK(list', current', fixate', taunts)
<1> DEFINE D == Entries \cup {v}
<1>1. CASE v \in Entries /\ Keep(With(v, Receive(Wake(v, list[v]), a)), current, fixate)
  <2> DEFINE r == Receive(Wake(v, list[v]), a)
             M == With(v, r)
  <2>1. list[v] \in Reference
    BY <1>1 DEF EntriesOK, ListOK, Entries
  <2>2. /\ r \in Reference /\ r.taunted = list[v].taunted
        /\ IsAvailable(r) <=> IsAvailable(list[v])
    BY <2>1, ReceiveKeeps, WakeKeeps DEF IsAvailable
  <2> HIDE DEF r
  <2>3. DOMAIN M = Entries /\ M \in [DOMAIN M -> Reference]
    BY <1>1, <2>2 DEF With, EntriesOK, ListOK, Entries
  <2>4. \A w \in DOMAIN M : /\ M[w].taunted = list[w].taunted
                            /\ IsAvailable(M[w]) <=> IsAvailable(list[w])
    BY <1>1, <2>2 DEF With
  <2> HIDE DEF M
  <2>5. TauntsHaveAuras(M, taunts)
    BY <2>3, <2>4, SameTaunts DEF Entries, EntriesOK
  <2>6. EntriesOK(M, current, fixate, taunts)
    BY <2>3, <2>4, <2>5, SameAvailability DEF Entries
  <2> QED BY <1>1, <2>6, KeepKeeps DEF M, r
<1>2. CASE v \notin Entries
  <2> DEFINE q == UpdateOffline(v, NewReference)
             r == Receive(q, a)
             M == With(v, r)
  <2>1. NewReference \in Reference /\ NewReference.taunted = NONE
    BY ThreatAssumption DEF NewReference, Reference, OFFLINE, SUPPRESSED, ONLINE, NONE
  <2>2. r \in Reference /\ ~ IsTaunting(r)
    BY <2>1, UpdateOfflineKeeps, ReceiveKeeps DEF IsTaunting, NONE, TAUNT
  <2> HIDE DEF r
  <2>3. DOMAIN M = D /\ M[v] = r /\ \A w \in Entries : M[w] = list[w]
    BY <1>2 DEF With
  <2>4. M \in [DOMAIN M -> Reference]
    BY <1>2, <2>2 DEF With, EntriesOK, ListOK, Entries
  <2> HIDE DEF M
  <2>5. ListOK(M)
    BY <2>3, <2>4 DEF ListOK, EntriesOK, Entries
  <2>6. TauntsHaveAuras(M, taunts)
    BY <2>2, <2>3 DEF TauntsHaveAuras, EntriesOK, Entries
  <2>7. {current, fixate} \subseteq DOMAIN M \cup {None}
    BY <2>3 DEF EntriesOK, Entries
  <2>8. CASE current = None /\ UpdateVictim(M, current, fixate)
    <3>1. current \in DOMAIN M \cup {None} /\ fixate \in DOMAIN M \cup {None}
      BY <2>7
    <3> QED BY <2>5, <2>6, <2>8, <3>1, UpdateVictimKeeps
  <2>9. CASE current # None /\ Keep(M, current, fixate)
    <3>1. Deserves(M, current)
      BY <2>3, <2>9 DEF EntriesOK, Deserves, Entries
    <3>2. EntriesOK(M, current, fixate, taunts)
      BY <2>5, <2>6, <2>7, <3>1 DEF EntriesOK
    <3> QED BY <2>9, <3>2, KeepKeeps
  <2> QED BY <1>2, <2>8, <2>9 DEF AddThreat, M, r
<1> QED BY <1>1, <1>2 DEF AddThreat

(* The match adds threat that another entry has.                            *)
LEMMA MatchStep ==
  ASSUME EntriesOK(list, current, fixate, taunts),
         NEW v \in Victim, MatchUnitThreatToHighestThreat(v)
  PROVE  EntriesOK(list', current', fixate', taunts) /\ UNCHANGED <<tactics, auras>>
<1>1. PICK w \in Entries : AddThreat(v, list[w].threat)
  BY DEF MatchUnitThreatToHighestThreat, Top
<1>2. list[w].threat \in Level
  BY DEF EntriesOK, ListOK, Entries, Reference
<1>3. UNCHANGED <<tactics, auras>>
  BY <1>1 DEF AddThreat
<1> QED BY <1>1, <1>2, <1>3, AddThreatStep

(* Scaling and resetting threat change neither who is available nor taunts. *)
LEMMA ScaleThreatStep ==
  ASSUME EntriesOK(list, current, fixate, taunts),
         NEW v \in Victim, NEW a \in Level, ScaleThreat(v, a) \/ ResetAllThreat
  PROVE  EntriesOK(list', current', fixate', taunts)
<1> DEFINE M1 == With(v, [list[v] EXCEPT !.threat = a])
           M2 == [w \in Entries |-> [list[w] EXCEPT !.threat = 0]]
<1>1. PICK M : /\ Keep(M, current, fixate)
               /\ DOMAIN M = Entries
               /\ \A w \in Entries : \/ M[w] = list[w]
                                     \/ \E b \in Level : M[w] = [list[w] EXCEPT !.threat = b]
               /\ M \in [DOMAIN M -> Reference]
  <2>0. \A w \in Entries : list[w] \in Reference
    BY DEF EntriesOK, ListOK, Entries
  <2>1. CASE ScaleThreat(v, a)
    <3>1. Keep(M1, current, fixate) /\ DOMAIN M1 = Entries
      BY <2>1 DEF ScaleThreat, With
    <3>2. \A w \in Entries : M1[w] = list[w] \/ M1[w] = [list[w] EXCEPT !.threat = a]
      BY DEF With
    <3>3. [list[v] EXCEPT !.threat = a] \in Reference
      BY <2>0, <2>1 DEF ScaleThreat, Reference
    <3>4. M1 \in [DOMAIN M1 -> Reference]
      BY <2>0, <3>1, <3>3 DEF With
    <3> QED BY <3>1, <3>2, <3>4
  <2>2. CASE ResetAllThreat
    <3>1. \A w \in Entries : [list[w] EXCEPT !.threat = 0] \in Reference
      BY <2>0, ThreatAssumption DEF Reference
    <3>2. Keep(M2, current, fixate) /\ DOMAIN M2 = Entries
      BY <2>2 DEF ResetAllThreat
    <3>3. \A w \in Entries : M2[w] = [list[w] EXCEPT !.threat = 0]
      OBVIOUS
    <3>4. M2 \in [DOMAIN M2 -> Reference]
      BY <3>1
    <3> QED BY <3>2, <3>3, <3>4, ThreatAssumption
  <2> QED BY <2>1, <2>2
<1>2. \A w \in DOMAIN M : M[w].taunted = list[w].taunted /\ M[w].online = list[w].online
  BY <1>1 DEF EntriesOK, ListOK, Entries, Reference
<1>3. TauntsHaveAuras(M, taunts)
  BY <1>1, <1>2, SameTaunts DEF EntriesOK, Entries
<1>4. EntriesOK(M, current, fixate, taunts)
  BY <1>1, <1>2, <1>3, SameAvailability DEF Entries, IsAvailable
<1> QED BY <1>1, <1>4, KeepKeeps

(* Entries are freed: pointers to them are cleared, and a victim that is    *)
(* lost is replaced.                                                        *)
LEMMA PurgeKeeps ==
  ASSUME EntriesOK(list, current, fixate, taunts), NEW S
  PROVE  LET p == Purge(S)
         IN /\ ListOK(p.list) /\ TauntsHaveAuras(p.list, taunts)
            /\ p.current \in DOMAIN p.list \cup {None}
            /\ p.fixate \in DOMAIN p.list \cup {None}
            /\ p.current # None => Deserves(p.list, p.current)
            /\ DOMAIN p.list = Entries \ S
            /\ p.current \in {current, None}
            /\ p.current = None => current \in S \cup {None}
<1> DEFINE M == [v \in Entries \ S |-> list[v]]
           c == IF current \in S THEN None ELSE current
           f == IF fixate \in S THEN None ELSE fixate
<1>1. Purge(S).list = M /\ Purge(S).current = c /\ Purge(S).fixate = f
  BY DEF Purge
<1>2. DOMAIN M = Entries \ S /\ \A v \in Entries \ S : M[v] = list[v]
  OBVIOUS
<1>3. ListOK(M)
  BY DEF EntriesOK, ListOK, Entries
<1>4. TauntsHaveAuras(M, taunts)
  BY DEF EntriesOK, TauntsHaveAuras, Entries
<1>5. c \in DOMAIN M \cup {None} /\ f \in DOMAIN M \cup {None}
  BY DEF EntriesOK, Entries
<1>6. c # None => Deserves(M, c)
  BY <1>2, <1>5 DEF EntriesOK, Deserves
<1> HIDE DEF M, f
<1> QED BY <1>1, <1>2, <1>3, <1>4, <1>5, <1>6

LEMMA ClearThreatStep ==
  ASSUME EntriesOK(list, current, fixate, taunts), NEW v \in Victim, ClearThreat(v)
  PROVE  EntriesOK(list', current', fixate', taunts)
<1> DEFINE p == Purge({v})
<1>1. IF p.current = None THEN UpdateVictim(p.list, p.current, p.fixate)
      ELSE Keep(p.list, p.current, p.fixate)
  BY DEF ClearThreat
<1>2. /\ ListOK(p.list) /\ TauntsHaveAuras(p.list, taunts)
      /\ p.current \in DOMAIN p.list \cup {None}
      /\ p.fixate \in DOMAIN p.list \cup {None}
      /\ p.current # None => Deserves(p.list, p.current)
  BY PurgeKeeps
<1> HIDE DEF p
<1>3. CASE p.current = None
  BY <1>1, <1>2, <1>3, UpdateVictimKeeps
<1>4. CASE p.current # None
  <2>1. EntriesOK(p.list, p.current, p.fixate, taunts)
    BY <1>2, <1>4 DEF EntriesOK
  <2> QED BY <1>1, <1>4, <2>1, KeepKeeps
<1> QED BY <1>3, <1>4

LEMMA ClearAllThreatStep ==
  ASSUME EntriesOK(list, current, fixate, taunts), ClearAllThreat
  PROVE  EntriesOK(list', current', fixate', taunts)
<1> DEFINE p == Purge(Entries)
<1>1. Keep(p.list, p.current, p.fixate)
  BY DEF ClearAllThreat
<1>2. /\ ListOK(p.list) /\ TauntsHaveAuras(p.list, taunts)
      /\ p.current \in DOMAIN p.list \cup {None}
      /\ p.fixate \in DOMAIN p.list \cup {None}
      /\ DOMAIN p.list = {}
  BY PurgeKeeps
<1> HIDE DEF p
<1>3. EntriesOK(p.list, p.current, p.fixate, taunts)
  BY <1>2 DEF EntriesOK, Deserves
<1> QED BY <1>1, <1>3, KeepKeeps

(* A fixate points to an entry or to nobody.                                *)
LEMMA FixateTargetStep ==
  ASSUME EntriesOK(list, current, fixate, taunts), NEW v, FixateTarget(v)
  PROVE  EntriesOK(list', current', fixate', taunts)
BY DEF EntriesOK, FixateTarget, Keep, Entries

(* Update and GetCurrentVictim select again.                                *)
LEMMA SelectStep ==
  ASSUME EntriesOK(list, current, fixate, taunts), UpdateVictim(list, current, fixate)
  PROVE  EntriesOK(list', current', fixate', taunts)
<1>1. /\ ListOK(list) /\ TauntsHaveAuras(list, taunts)
      /\ current \in DOMAIN list \cup {None} /\ fixate \in DOMAIN list \cup {None}
  BY DEF EntriesOK
<1> QED BY <1>1, UpdateVictimKeeps

-----------------------------------------------------------------------------
(* Auras and surroundings.                                                 *)

(* The taunt states are computed anew from the auras there are now.         *)
LEMMA TauntUpdateKeeps ==
  ASSUME EntriesOK(list, current, fixate, taunts), NEW T \in Seq(Taunter), Distinct(T),
         NEW D, TauntUpdate(T, D)
  PROVE  EntriesOK(list', current', fixate', taunts') /\ AurasOK' /\ UNCHANGED tactics
<1> DEFINE M == [v \in Entries |-> UpdateTauntState(v, list[v], T, D)]
<1>1. Keep(M, current, fixate) /\ taunts' = T /\ UNCHANGED tactics
  BY DEF TauntUpdate
<1>2. \A v \in Entries : list[v] \in Reference
  BY DEF EntriesOK, ListOK, Entries
<1>3. DOMAIN M = Entries /\ \A v \in Entries : M[v] = UpdateTauntState(v, list[v], T, D)
  OBVIOUS
<1>4. \A v \in Entries : /\ M[v] \in Reference /\ M[v].online = list[v].online
                         /\ IsTaunting(M[v]) => \E i \in 1 .. Len(T) : T[i] = v
  <2>1. TAKE v \in Entries
  <2>2. LET q == UpdateTauntState(v, list[v], T, D)
        IN /\ q \in Reference /\ q.online = list[v].online
           /\ IsTaunting(q) => \E i \in 1 .. Len(T) : T[i] = v
    BY <1>2, UpdateTauntStateKeeps
  <2> QED BY <1>3, <2>2
<1>5. M \in [DOMAIN M -> Reference]
  BY <1>3, <1>4
<1> HIDE DEF M
<1>6. TauntsHaveAuras(M, T)
  BY <1>3, <1>4 DEF TauntsHaveAuras
<1>7. EntriesOK(M, current, fixate, T)
  BY <1>3, <1>4, <1>5, <1>6, SameAvailability DEF Entries, IsAvailable
<1>8. EntriesOK(list', current', fixate', T)
  BY <1>1, <1>7, KeepKeeps
<1>9. AurasOK'
  BY <1>1 DEF AurasOK, Distinct
<1> QED BY <1>1, <1>8, <1>9

(* One aura more of somebody who has none, or one less.                     *)
LEMMA AppendKeeps ==
  ASSUME AurasOK, NEW v \in Taunter, \A i \in 1 .. Len(taunts) : taunts[i] # v
  PROVE  Append(taunts, v) \in Seq(Taunter) /\ Distinct(Append(taunts, v))
<1> DEFINE T == Append(taunts, v)
<1>1. taunts \in Seq(Taunter) /\ Len(taunts) \in Nat /\ Distinct(taunts)
  BY DEF AurasOK
<1>2. /\ T \in Seq(Taunter) /\ Len(T) = Len(taunts) + 1 /\ T[Len(taunts) + 1] = v
      /\ \A i \in 1 .. Len(taunts) : T[i] = taunts[i]
  BY <1>1
<1> HIDE DEF T
<1>3. Distinct(T)
  BY <1>1, <1>2 DEF Distinct
<1> QED BY <1>2, <1>3 DEF T

LEMMA RemoveKeeps ==
  ASSUME AurasOK, NEW i \in 1 .. Len(taunts)
  PROVE  LET T == SubSeq(taunts, 1, i - 1) \o SubSeq(taunts, i + 1, Len(taunts))
         IN T \in Seq(Taunter) /\ Distinct(T)
<1> DEFINE n == Len(taunts)
           A == SubSeq(taunts, 1, i - 1)
           B == SubSeq(taunts, i + 1, n)
           T == A \o B
<1>1. taunts \in Seq(Taunter) /\ n \in Nat /\ Distinct(taunts)
  BY DEF AurasOK
<1>2. A \in Seq(Taunter) /\ Len(A) = i - 1 /\ \A j \in 1 .. i - 1 : A[j] = taunts[j]
  BY <1>1, SubSeqProperties
<1>3. /\ B \in Seq(Taunter) /\ Len(B) = n - i
      /\ \A j \in 1 .. n - i : B[j] = taunts[i + j]
  BY <1>1, SubSeqProperties
<1> HIDE DEF A, B
<1> i \in 1 .. n
  OBVIOUS
<1> HIDE DEF n
<1>4. /\ T \in Seq(Taunter) /\ Len(T) = n - 1
      /\ \A j \in 1 .. n - 1 : T[j] = IF j <= i - 1 THEN A[j] ELSE B[j - (i - 1)]
  <2>1. /\ T \in Seq(Taunter) /\ Len(T) = Len(A) + Len(B)
        /\ \A j \in 1 .. Len(A) + Len(B) :
              T[j] = IF j <= Len(A) THEN A[j] ELSE B[j - Len(A)]
    <3> HIDE DEF T
    <3> QED BY <1>2, <1>3, ConcatProperties DEF T
  <2>2. Len(A) + Len(B) = n - 1
    BY <1>1, <1>2, <1>3
  <2> HIDE DEF T
  <2> QED BY <1>2, <2>1, <2>2
<1> HIDE DEF T
<1>5. \A j \in 1 .. n - 1 : T[j] = taunts[IF j < i THEN j ELSE j + 1]
  <2>1. TAKE j \in 1 .. n - 1
  <2>2. CASE j < i
    BY <1>1, <1>2, <1>4, <2>2
  <2>3. CASE ~ (j < i)
    <3>1. j - (i - 1) \in 1 .. n - i /\ i + (j - (i - 1)) = j + 1
      BY <1>1, <2>3
    <3>2. T[j] = B[j - (i - 1)]
      BY <1>1, <1>4, <2>3
    <3> QED BY <1>3, <2>3, <3>1, <3>2
  <2> QED BY <2>2, <2>3
<1>6. Distinct(T)
  <2>1. SUFFICES ASSUME NEW j \in 1 .. n - 1, NEW k \in 1 .. n - 1, T[j] = T[k]
                 PROVE  j = k
    BY <1>4 DEF Distinct
  <2>2. T[j] = taunts[IF j < i THEN j ELSE j + 1] /\ T[k] = taunts[IF k < i THEN k ELSE k + 1]
    BY <1>5
  <2>3. (IF j < i THEN j ELSE j + 1) = (IF k < i THEN k ELSE k + 1)
    <3> DEFINE a == IF j < i THEN j ELSE j + 1
               b == IF k < i THEN k ELSE k + 1
    <3>1. a \in 1 .. n /\ b \in 1 .. n
      BY <1>1, <2>1
    <3>2. taunts[a] = taunts[b]
      BY <2>1, <2>2
    <3> HIDE DEF a, b
    <3>3. a = b
      BY <1>1, <3>1, <3>2 DEF Distinct, n
    <3> QED BY <3>3 DEF a, b
  <2> QED BY <1>1, <2>3
<1> QED BY <1>4, <1>6 DEF T, A, B, n

LEMMA AuraStep ==
  ASSUME EntriesOK(list, current, fixate, taunts), AurasOK, SurroundingsOK,
         NEW v \in Taunter, Taunt(v) \/ TauntFades(v) \/ Detaunt(v) \/ DetauntFades(v)
  PROVE  EntriesOK(list', current', fixate', taunts') /\ AurasOK' /\ SurroundingsOK'
<1>0. v \in Victim
  BY ThreatAssumption
<1>1. PICK T \in Seq(Taunter), D \in SUBSET Victim : Distinct(T) /\ TauntUpdate(T, D)
  <2>1. CASE Taunt(v)
    <3>1. Append(taunts, v) \in Seq(Taunter) /\ Distinct(Append(taunts, v))
      BY <2>1, AppendKeeps DEF Taunt
    <3>2. detaunted \in SUBSET Victim /\ TauntUpdate(Append(taunts, v), detaunted)
      BY <2>1 DEF Taunt, SurroundingsOK
    <3> QED BY <3>1, <3>2
  <2>2. CASE TauntFades(v)
    <3>1. PICK i \in 1 .. Len(taunts) :
            TauntUpdate(SubSeq(taunts, 1, i - 1) \o SubSeq(taunts, i + 1, Len(taunts)), detaunted)
      BY <2>2 DEF TauntFades
    <3> DEFINE T == SubSeq(taunts, 1, i - 1) \o SubSeq(taunts, i + 1, Len(taunts))
    <3>2. T \in Seq(Taunter) /\ Distinct(T)
      BY RemoveKeeps
    <3>3. detaunted \in SUBSET Victim
      BY DEF SurroundingsOK
    <3> HIDE DEF T
    <3> QED BY <3>1, <3>2, <3>3 DEF T
  <2>3. CASE Detaunt(v)
    BY <1>0, <2>3 DEF Detaunt, AurasOK, SurroundingsOK
  <2>4. CASE DetauntFades(v)
    BY <2>4 DEF DetauntFades, AurasOK, SurroundingsOK
  <2> QED BY <2>1, <2>2, <2>3, <2>4
<1>2. EntriesOK(list', current', fixate', taunts') /\ AurasOK' /\ UNCHANGED tactics
  BY <1>1, TauntUpdateKeeps
<1>3. detaunted' = D
  BY <1>1 DEF TauntUpdate
<1> QED BY <1>2, <1>3 DEF SurroundingsOK, tactics

(* A suppression that comes or goes leaves an entry available.              *)
LEMMA EvaluateStep ==
  ASSUME EntriesOK(list, current, fixate, taunts), NEW v, NEW S, NEW b, Evaluate(v, S, b)
  PROVE  EntriesOK(list', current', fixate', taunts)
<1> DEFINE M == [w \in Entries |-> IF w = v THEN EvaluateSuppressed(w, list[w], S, b)
                                   ELSE list[w]]
<1>1. Keep(M, current, fixate)
  BY DEF Evaluate
<1>2. \A w \in Entries : list[w] \in Reference
  BY DEF EntriesOK, ListOK, Entries
<1>3. DOMAIN M = Entries
  OBVIOUS
<1>4. \A w \in Entries : /\ M[w] \in Reference /\ M[w].taunted = list[w].taunted
                         /\ IsAvailable(M[w]) <=> IsAvailable(list[w])
  BY <1>2, EvaluateSuppressedKeeps
<1>5. M \in [DOMAIN M -> Reference]
  BY <1>3, <1>4
<1> HIDE DEF M
<1>6. TauntsHaveAuras(M, taunts)
  BY <1>3, <1>4, SameTaunts DEF EntriesOK, Entries
<1>7. EntriesOK(M, current, fixate, taunts)
  BY <1>3, <1>4, <1>5, <1>6, SameAvailability DEF Entries
<1> QED BY <1>1, <1>7 DEF Keep

LEMMA ShieldStep ==
  ASSUME EntriesOK(list, current, fixate, taunts), AurasOK, SurroundingsOK,
         NEW v \in Shielded, Shield(v)
  PROVE  EntriesOK(list', current', fixate', taunts') /\ AurasOK' /\ SurroundingsOK'
<1>1. /\ Evaluate(v, inopportune', FALSE) /\ UNCHANGED <<attackable, melee, auras>>
      /\ inopportune' = inopportune \cup {v}
  BY DEF Shield
<1>2. EntriesOK(list', current', fixate', taunts)
  BY <1>1, EvaluateStep
<1> QED BY <1>1, <1>2, ThreatAssumption DEF AurasOK, SurroundingsOK, auras

-----------------------------------------------------------------------------
(* The theorems.                                                           *)

LEMMA InitInvariant == Init => IInv
<1> SUFFICES ASSUME Init PROVE IInv
  OBVIOUS
<1>2. list \in [{} -> Reference] /\ DOMAIN list = {}
  BY DEF Init
<1>3. EntriesOK(list, current, fixate, taunts)
  BY <1>2 DEF Init, EntriesOK, ListOK, TauntsHaveAuras, Deserves
<1>4. AurasOK
  <2>1. <<>> \in Seq(Taunter)
    OBVIOUS
  <2> QED BY <2>1 DEF Init, AurasOK, Distinct
<1>5. SurroundingsOK
  BY DEF Init, SurroundingsOK
<1> QED BY <1>3, <1>4, <1>5, InvariantMeans

LEMMA NextInvariant ==
  ASSUME IInv, [Next]_vars
  PROVE  IInv'
<1>0. EntriesOK(list, current, fixate, taunts) /\ AurasOK /\ SurroundingsOK
  BY InvariantMeans
<1> SUFFICES EntriesOK(list', current', fixate', taunts') /\ AurasOK' /\ SurroundingsOK'
  BY InvariantMeans DEF IInv, TypeOK, CurrentIsAvailable, EntriesOK, ListOK,
     TauntsHaveAuras, Deserves, AurasOK, SurroundingsOK, Entries
<1>1. ASSUME UNCHANGED <<tactics, auras>>, EntriesOK(list', current', fixate', taunts)
      PROVE  EntriesOK(list', current', fixate', taunts') /\ AurasOK' /\ SurroundingsOK'
  BY <1>0, <1>1 DEF AurasOK, SurroundingsOK, tactics, auras
<1>2. ASSUME NEW v \in Victim, NEW a \in Level, AddThreat(v, a)
      PROVE  EntriesOK(list', current', fixate', taunts) /\ UNCHANGED <<tactics, auras>>
  BY <1>0, <1>2, AddThreatStep DEF AddThreat
<1>3. ASSUME NEW v \in Victim, NEW a \in Level, ScaleThreat(v, a) \/ ResetAllThreat
      PROVE  EntriesOK(list', current', fixate', taunts) /\ UNCHANGED <<tactics, auras>>
  BY <1>0, <1>3, ScaleThreatStep DEF ScaleThreat, ResetAllThreat
<1>4. ASSUME NEW v \in Victim, MatchUnitThreatToHighestThreat(v)
      PROVE  EntriesOK(list', current', fixate', taunts) /\ UNCHANGED <<tactics, auras>>
  BY <1>0, <1>4, MatchStep
<1>5. ASSUME NEW v \in Victim, ClearThreat(v)
      PROVE  EntriesOK(list', current', fixate', taunts) /\ UNCHANGED <<tactics, auras>>
  BY <1>0, <1>5, ClearThreatStep DEF ClearThreat
<1>6. ASSUME NEW v, FixateTarget(v)
      PROVE  EntriesOK(list', current', fixate', taunts) /\ UNCHANGED <<tactics, auras>>
  BY <1>0, <1>6, FixateTargetStep DEF FixateTarget
<1>7. CASE ClearAllThreat
  <2>1. EntriesOK(list', current', fixate', taunts) /\ UNCHANGED <<tactics, auras>>
    BY <1>0, <1>7, ClearAllThreatStep DEF ClearAllThreat
  <2> QED BY <1>1, <2>1
<1>8. CASE Update \/ GetCurrentVictim
  <2>1. EntriesOK(list', current', fixate', taunts) /\ UNCHANGED <<tactics, auras>>
    BY <1>0, <1>8, SelectStep DEF Update, GetCurrentVictim
  <2> QED BY <1>1, <2>1
<1>9. CASE \E v \in Taunter : Taunt(v) \/ TauntFades(v) \/ Detaunt(v) \/ DetauntFades(v)
  BY <1>0, <1>9, AuraStep
<1>10. CASE \E v \in Shielded : Shield(v) \/ ShieldFades(v) \/ TauntUpdateOf(v)
  <2>1. ASSUME NEW v \in Shielded, ShieldFades(v)
        PROVE  EntriesOK(list', current', fixate', taunts') /\ AurasOK' /\ SurroundingsOK'
    <3>1. UNCHANGED <<list, current, fixate, attackable, melee, auras>>
      BY <2>1 DEF ShieldFades
    <3>2. inopportune' \subseteq Victim
      BY <1>0, <2>1 DEF ShieldFades, SurroundingsOK
    <3> QED BY <1>0, <3>1, <3>2 DEF AurasOK, SurroundingsOK, auras
  <2>2. ASSUME NEW v \in Shielded, TauntUpdateOf(v)
        PROVE  EntriesOK(list', current', fixate', taunts') /\ AurasOK' /\ SurroundingsOK'
    <3>1. Evaluate(v, inopportune, TRUE) /\ UNCHANGED <<tactics, auras>>
      BY <2>2 DEF TauntUpdateOf
    <3>2. EntriesOK(list', current', fixate', taunts)
      BY <1>0, <3>1, EvaluateStep
    <3> QED BY <1>1, <3>1, <3>2
  <2> QED BY <1>0, <1>10, <2>1, <2>2, ShieldStep
<1>11. CASE (\E H \in SUBSET Hidden : Hide(H)) \/ (\E M \in SUBSET Mobile : Move(M))
  <2>1. UNCHANGED <<list, current, fixate, inopportune, auras>>
    BY <1>11 DEF Hide, Move
  <2>2. attackable' \subseteq Victim /\ melee' \subseteq Victim
    BY <1>0, <1>11, ThreatAssumption DEF Hide, Move, SurroundingsOK
  <2> QED BY <1>0, <2>1, <2>2 DEF AurasOK, SurroundingsOK, auras
<1>12. CASE UNCHANGED vars
  BY <1>0, <1>12 DEF vars, AurasOK, SurroundingsOK
<1>13. CASE ResetAllThreat
  <2>1. CASE Victim # {}
    BY <1>1, <1>3, <1>13, <2>1, ThreatAssumption
  <2>2. CASE Victim = {}
    <3>1. Entries = {}
      BY <1>0, <2>2 DEF EntriesOK, ListOK, Entries
    <3>2. DOMAIN list' = {} /\ list' \in [{} -> Reference]
      BY <1>13, <3>1 DEF ResetAllThreat, Keep
    <3>3. current' = None /\ fixate' = None /\ UNCHANGED <<tactics, auras>>
      BY <1>0, <1>13, <3>1 DEF ResetAllThreat, Keep, EntriesOK, Entries
    <3>4. EntriesOK(list', current', fixate', taunts)
      BY <3>2, <3>3 DEF EntriesOK, ListOK, TauntsHaveAuras, Deserves
    <3> QED BY <1>1, <3>3, <3>4
  <2> QED BY <2>1, <2>2
<1>14. CASE \E v \in Victim :
              \/ \E a \in Level : AddThreat(v, a)
              \/ \E a \in Level : ScaleThreat(v, a)
              \/ MatchUnitThreatToHighestThreat(v)
              \/ ClearThreat(v)
              \/ FixateTarget(v)
  BY <1>1, <1>2, <1>3, <1>4, <1>5, <1>6, <1>14
<1>15. CASE ClearFixate
  BY <1>1, <1>6, <1>15 DEF ClearFixate
<1> QED BY <1>7, <1>8, <1>9, <1>10, <1>11, <1>12, <1>13, <1>14, <1>15
      DEF Next, NextButClearFixate

LEMMA SpecInvariant == Spec => []IInv
<1>1. Init => IInv
  BY InitInvariant
<1>2. IInv /\ [Next]_vars => IInv'
  BY NextInvariant
<1> QED BY <1>1, <1>2, PTL DEF Spec

(* The pointers to the current and the fixated victim are to entries, and   *)
(* who counts as taunting has an aura: whatever is freed, matched, cleared  *)
(* or selected in whatever order.                                           *)
THEOREM TypeCorrect == Spec => []TypeOK
<1>1. IInv => TypeOK
  BY DEF IInv
<1> QED BY <1>1, SpecInvariant, PTL

(* The creature has a victim exactly if an entry is available               *)
(* (GetCurrentVictim).                                                      *)
THEOREM VictimIsAvailable == Spec => []CurrentIsAvailable
<1>1. IInv => CurrentIsAvailable
  BY DEF IInv
<1> QED BY <1>1, SpecInvariant, PTL

-----------------------------------------------------------------------------
(* How a victim is lost.                                                   *)

(* An update loses a victim by the rules of the selection.                  *)
LEMMA UpdateIsSticky ==
  ASSUME IInv, UpdateVictim(list, current, fixate)
  PROVE  LosesByTheRules
<1>0. /\ ListOK(list) /\ TauntsHaveAuras(list, taunts)
      /\ current \in DOMAIN list \cup {None} /\ fixate \in DOMAIN list \cup {None}
  BY InvariantMeans DEF EntriesOK
<1>1. /\ ListOK(list') /\ DOMAIN list' = DOMAIN list /\ fixate' = fixate
      /\ current' \in ReselectVictim(list', current, fixate)
  BY <1>0, UpdateVictimKeeps DEF EntriesOK
<1> DEFINE M == list'
           c == current'
<1> SUFFICES ASSUME current \in DOMAIN M, c \notin {current, None, fixate},
                    IsAvailable(M[current]),
                    M[current].online = M[c].online, M[current].taunted = M[c].taunted
             PROVE  M[c].threat * 100 > M[current].threat * (IF c \in melee THEN 110 ELSE 130)
  BY <1>1 DEF LosesByTheRules
<1>2. ListOK(M) /\ fixate \in DOMAIN M \cup {None} /\ c \in ReselectVictim(M, current, fixate)
  BY <1>0, <1>1
<1> HIDE DEF M, c
<1> QED BY <1>2, SelectedIsWorthy

(* Every other call either leaves the victim or clears it, or selects when  *)
(* there was none or its entry is gone.                                     *)
LEMMA StepIsSticky ==
  ASSUME IInv, Next
  PROVE  LosesByTheRules
<1>0. EntriesOK(list, current, fixate, taunts)
  BY InvariantMeans
<1>1. IInv'
  BY NextInvariant
<1>2. None \notin DOMAIN list'
  BY <1>1, ThreatAssumption DEF IInv, TypeOK, Entries
<1>3. ASSUME current' \in {current, None} \/ current \notin DOMAIN list'
      PROVE  LosesByTheRules
  BY <1>3 DEF LosesByTheRules
<1>4. ASSUME NEW v \in Victim, NEW a, AddThreat(v, a)
      PROVE  LosesByTheRules
  BY <1>2, <1>3, <1>4 DEF AddThreat, Keep
<1>5. ASSUME NEW v \in Victim, ClearThreat(v)
      PROVE  LosesByTheRules
  <2> DEFINE p == Purge({v})
  <2>1. IF p.current = None THEN UpdateVictim(p.list, p.current, p.fixate)
        ELSE Keep(p.list, p.current, p.fixate)
    BY <1>5 DEF ClearThreat
  <2>2. /\ p.current \in {current, None} /\ DOMAIN p.list = Entries \ {v}
        /\ p.current = None => current \in {v, None}
    BY <1>0, PurgeKeeps
  <2> HIDE DEF p
  <2>3. CASE p.current = None
    <3>1. DOMAIN list' = DOMAIN p.list
      BY <2>1, <2>3 DEF UpdateVictim
    <3> QED BY <1>2, <1>3, <2>2, <2>3, <3>1
  <2>4. CASE p.current # None
    <3>1. current' = p.current
      BY <2>1, <2>4 DEF Keep
    <3> QED BY <1>3, <2>2, <3>1
  <2> QED BY <2>3, <2>4
<1>6. CASE Update \/ GetCurrentVictim
  BY <1>6, UpdateIsSticky DEF Update, GetCurrentVictim
<1>7. CASE ClearAllThreat
  BY <1>3, <1>7 DEF ClearAllThreat, Purge, Keep
<1>8. CASE ResetAllThreat \/ ClearFixate
  BY <1>3, <1>8 DEF ResetAllThreat, ClearFixate, FixateTarget, Keep
<1>9. CASE \E v \in Victim : \/ \E a \in Level : AddThreat(v, a)
                             \/ \E a \in Level : ScaleThreat(v, a)
                             \/ MatchUnitThreatToHighestThreat(v)
                             \/ ClearThreat(v)
                             \/ FixateTarget(v)
  BY <1>3, <1>4, <1>5, <1>9
     DEF ScaleThreat, MatchUnitThreatToHighestThreat, FixateTarget, Keep
<1>10. CASE \E v \in Taunter : Taunt(v) \/ TauntFades(v) \/ Detaunt(v) \/ DetauntFades(v)
  BY <1>3, <1>10 DEF Taunt, TauntFades, Detaunt, DetauntFades, TauntUpdate, Keep
<1>11. CASE \/ \E v \in Shielded : Shield(v) \/ ShieldFades(v) \/ TauntUpdateOf(v)
            \/ \E H \in SUBSET Hidden : Hide(H)
            \/ \E M \in SUBSET Mobile : Move(M)
  BY <1>3, <1>11 DEF Shield, ShieldFades, TauntUpdateOf, Evaluate, Hide, Move, Keep
<1> QED BY <1>6, <1>7, <1>8, <1>9, <1>10, <1>11 DEF Next, NextButClearFixate

(* A victim that could be kept is lost only from 110% of its threat in      *)
(* melee and 130% at range (ReselectVictim).                                *)
THEOREM VictimsAreLostByTheRules == Spec => VictimIsSticky
<1>1. IInv /\ [Next]_vars => [LosesByTheRules]_vars
  BY StepIsSticky
<1> QED BY <1>1, SpecInvariant, PTL DEF Spec, VictimIsSticky

(* After an update nobody deserves the creature more than its victim.       *)
THEOREM TheWorthiestIsSelected == Spec => NobodyOvertakes
<1>1. ASSUME IInv PROVE SelectsTheWorthiest
  <2> SUFFICES ASSUME Update, current' \notin {None, fixate'}, NEW v \in Entries
               PROVE  LET victim == list'[current']  other == list'[v]
                      IN /\ victim.online >= other.online
                         /\ victim.online = other.online => victim.taunted >= other.taunted
                         /\ <<victim.online, victim.taunted>> = <<other.online, other.taunted>> =>
                              victim.threat * (IF v \in melee THEN 110 ELSE 130)
                                >= other.threat * 100
    BY DEF SelectsTheWorthiest
  <2>0. /\ ListOK(list) /\ TauntsHaveAuras(list, taunts)
        /\ current \in DOMAIN list \cup {None} /\ fixate \in DOMAIN list \cup {None}
    BY <1>1, InvariantMeans DEF EntriesOK
  <2>1. /\ ListOK(list') /\ DOMAIN list' = DOMAIN list /\ fixate' = fixate
        /\ current' \in ReselectVictim(list', current, fixate)
        /\ current' \in DOMAIN list' \cup {None}
    BY <2>0, UpdateVictimKeeps DEF EntriesOK, Update
  <2> DEFINE M == list'
             c == current'
  <2>2. /\ ListOK(M) /\ current \in DOMAIN M \cup {None} /\ fixate \in DOMAIN M \cup {None}
        /\ c \in ReselectVictim(M, current, fixate)
        /\ c \notin {None, fixate} /\ c \in DOMAIN M /\ v \in DOMAIN M
    BY <2>0, <2>1 DEF Entries
  <2> HIDE DEF M, c
  <2>3. ~ Overtakes(M, v, c)
    BY <2>2, NobodyIsPassedOver
  <2>4. \A w \in {c, v} : M[w].online \in Nat /\ M[w].taunted \in Nat /\ M[w].threat \in Nat
    BY <2>2, ThreatAssumption DEF ListOK, Reference, OFFLINE, SUPPRESSED, ONLINE
  <2>5. /\ M[c].online >= M[v].online
        /\ M[c].online = M[v].online => M[c].taunted >= M[v].taunted
        /\ M[c].online = M[v].online /\ M[c].taunted = M[v].taunted =>
             M[c].threat * (IF v \in melee THEN 110 ELSE 130) >= M[v].threat * 100
    BY <2>3, <2>4 DEF Overtakes
  <2> QED BY <2>5 DEF M, c
<1> QED BY <1>1, SpecInvariant, PTL DEF Spec, NobodyOvertakes

=============================================================================
