--------------------------- MODULE InstanceProofs ----------------------------
(***************************************************************************)
(* Proofs about Instance, for any players, groups, number of ids and reset  *)
(* delay.                                                                   *)
(***************************************************************************)
EXTENDS Instance, FiniteSetTheorems, SequenceTheorems, WellFoundedInduction, TLAPS

-----------------------------------------------------------------------------
(* The least of some numbers.                                               *)

LEMMA LeastExists ==
  ASSUME NEW S, S \subseteq Nat, S # {}
  PROVE  \E x \in S : \A y \in S : x <= y
<1>1. IsWellFoundedOn(OpToRel(<, Nat), Nat)
  BY NatLessThanWellFounded
<1>2. PICK x \in S : \A y \in S : ~ (<<y, x>> \in OpToRel(<, Nat))
  BY <1>1, WFMin
<1>3. \A y \in S : ~ (y < x)
  BY <1>2 DEF OpToRel
<1> QED
  BY <1>3

LEMMA LeastOf ==
  ASSUME NEW S, S \subseteq Nat, S # {}
  PROVE  Min(S) \in S /\ \A y \in S : Min(S) <= y
BY LeastExists DEF Min

LEMMA LeastIs ==
  ASSUME NEW S, S \subseteq Nat, NEW x \in S, \A y \in S : x <= y
  PROVE  Min(S) = x
<1>1. Min(S) \in S /\ Min(S) <= x /\ x <= Min(S)
  BY LeastOf
<1>2. x \in Nat /\ Min(S) \in Nat
  BY <1>1
<1> QED
  BY <1>1, <1>2

(* Times are not natural numbers: the past is -1.                           *)
LEMMA LeastTime ==
  ASSUME NEW S, S \subseteq Time, S # {}
  PROVE  Min(S) \in S
<1>1. ResetDelay \in Nat
  BY InstanceAssumption DEF InstanceAssumption
<1>2. \A t \in S : t \in Int /\ -1 <= t
  BY <1>1 DEF Time
<1> DEFINE T == {t + 1 : t \in S}
<1>3. T \subseteq Nat /\ T # {}
  BY <1>2
<1>4. PICK x \in T : \A y \in T : x <= y
  BY <1>3, LeastExists
<1>5. PICK s \in S : x = s + 1
  BY <1>4
<1>6. \A t \in S : s <= t
  BY <1>2, <1>4, <1>5
<1> QED
  BY <1>6 DEF Min

-----------------------------------------------------------------------------
(* The types of what the operators yield.                                   *)

Over(f, D, T) == DOMAIN f \subseteq D /\ f \in [DOMAIN f -> T]

LEMMA WithProperties ==
  ASSUME NEW f, NEW x, NEW v
  PROVE  /\ DOMAIN With(f, x, v) = DOMAIN f \cup {x}
         /\ \A y \in DOMAIN f \cup {x} : With(f, x, v)[y] = IF y = x THEN v ELSE f[y]
         /\ \A D, T : Over(f, D, T) /\ x \in D /\ v \in T => Over(With(f, x, v), D, T)
BY DEF With, Over

LEMMA WithoutProperties ==
  ASSUME NEW f, NEW x
  PROVE  /\ DOMAIN Without(f, x) = DOMAIN f \ {x}
         /\ \A y \in DOMAIN f \ {x} : Without(f, x)[y] = f[y]
         /\ \A D, T : Over(f, D, T) => Over(Without(f, x), D, T)
BY DEF Without, Restrict, Over

LEMMA Numbers ==
  /\ MaxId \in Nat /\ MaxId > 0 /\ ResetDelay \in Nat /\ ResetDelay > 0
  /\ Id \subseteq Nat /\ 0 \notin Id /\ NoId \notin Id /\ MaxId + 1 \notin Id
  /\ ResetDelay \in Time
BY InstanceAssumption DEF InstanceAssumption, Id, NoId, Time

LEMMA NextAfterType ==
  ASSUME NEW F, F \subseteq Id, NEW id \in Nat
  PROVE  NextAfter(F, id) \in 1 .. MaxId + 1
<1> DEFINE S == {f \in F : f > id} \cup {MaxId + 1}
<1>1. S \subseteq 1 .. MaxId + 1
  <2>1. Id \subseteq 1 .. MaxId + 1
    BY Numbers DEF Id
  <2>2. MaxId + 1 \in 1 .. MaxId + 1
    BY Numbers
  <2> QED
    BY <2>1, <2>2
<1>2. S \subseteq Nat /\ S # {}
  BY <1>1, Numbers
<1>3. Min(S) \in S
  BY <1>2, LeastOf
<1> QED
  BY <1>1, <1>3 DEF NextAfter

LEMMA FreeType ==
  ASSUME free \subseteq Id, nextId \in 1 .. MaxId + 1, NEW freed, freed \subseteq Id,
         FreeInstanceIds(freed)
  PROVE  free' \subseteq Id /\ nextId' \in 1 .. MaxId + 1
<1> DEFINE S == freed \cup {nextId}
<1>1. S \subseteq 1 .. MaxId + 1
  BY Numbers DEF Id
<1>2. S \subseteq Nat /\ S # {}
  BY <1>1, Numbers
<1>3. Min(S) \in S
  BY <1>2, LeastOf
<1> QED
  BY <1>1, <1>3 DEF FreeInstanceIds

LEMMA SaveWith ==
  ASSUME NEW save \in Save, NEW p \in Player, NEW g \in Group, NEW t \in Time
  PROVE  /\ [save EXCEPT !.players = @ \cup {p}] \in Save
         /\ [save EXCEPT !.groups = @ \cup {g}] \in Save
         /\ [save EXCEPT !.players = @ \ {p}] \in Save
         /\ [save EXCEPT !.groups = @ \ {g}] \in Save
         /\ [save EXCEPT !.reset = t] \in Save
BY DEF Save

LEMMA NewSaveType == ASSUME NEW t \in Time PROVE NewSave(t) \in Save
BY DEF NewSave, Save

LEMMA MapWith ==
  ASSUME NEW m \in Map
  PROVE  /\ NewMap \in Map /\ ResetEmpty(m) \in Map /\ ResetFull(m) \in Map
         /\ FreeOnUnload(m) \in Map
BY DEF Map, NewMap, ResetEmpty, ResetFull, FreeOnUnload

LEMMA ScheduleType ==
  ASSUME NEW on, NEW Q, Q \subseteq Id \X Time, NEW S, Over(S, Id, Save), NEW id \in Id,
         NEW linked
  PROVE  SetResetSchedule(on, Q, S, id, linked) \subseteq Id \X Time
<1>1. CASE linked # {} \/ id \notin DOMAIN S
  BY <1>1 DEF SetResetSchedule
<1>2. CASE ~ (linked # {} \/ id \notin DOMAIN S)
  <2>1. S[id].reset \in Time
    BY <1>2 DEF Over, Save
  <2> QED
    BY <1>2, <2>1 DEF SetResetSchedule, ScheduleReset, CancelReset
<1> QED
  BY <1>1, <1>2

LEMMA UnloadType ==
  ASSUME NEW S, Over(S, Id, Save), NEW id, NEW linked, Over(row, Id, Time),
         UnloadInstanceSave(S, id, linked)
  PROVE  Over(saves', Id, Save) /\ Over(row', Id, Time)
<1>1. Over(saves', Id, Save)
  BY WithoutProperties DEF UnloadInstanceSave
<1>2. CASE IsUnloaded(S, id, linked) /\ id \in DOMAIN row
  <2>1. S[id].reset \in Time
    BY <1>2 DEF IsUnloaded, Over, Save
  <2> QED
    BY <1>1, <1>2, <2>1 DEF UnloadInstanceSave, Over
<1>3. CASE ~ (IsUnloaded(S, id, linked) /\ id \in DOMAIN row)
  BY <1>1, <1>3 DEF UnloadInstanceSave
<1> QED
  BY <1>2, <1>3

-----------------------------------------------------------------------------
(* The type invariant, in two parts: the types of the variables, and that   *)
(* no player is left without his map.                                       *)
Types ==
  /\ phase \in {"sessions", "maps", "events", "resets"}
  /\ where \in [Player -> Place] /\ at \in [Player -> NoneOr]
  /\ bind \in [Player -> NoneOr] /\ gbind \in [Group -> NoneOr]
  /\ Over(saves, Id, Save) /\ queue \subseteq Id \X Time
  /\ events \in Seq(Event)
  /\ Over(maps, Id, Map) /\ pending \subseteq Id
  /\ free \subseteq Id /\ nextId \in 1 .. MaxId + 1
  /\ Over(row, Id, Time)
  /\ prow \in [Player -> NoneOr] /\ grow \in [Group -> NoneOr]
  /\ respawn \subseteq Id

HasItsMap(p) ==
  /\ where[p] = "outside" => at[p] = NoId
  /\ where[p] \in {"inside", "leaving"} => at[p] \in DOMAIN maps
  /\ where[p] = "inside" => maps[at[p]].unload = "never"

LEMMA TypeParts ==
  /\ TypeOK <=> Types /\ \A p \in Player : HasItsMap(p)
  /\ TypeOK' <=> Types' /\ \A p \in Player : HasItsMap(p)'
BY DEF TypeOK, Types, HasItsMap, Over

(* The types of the rest, when a part is left alone.                        *)
LEMMA Joined ==
  ASSUME Types, NEW p \in Player
  PROVE  /\ GroupOf[p] # None => GroupOf[p] \in Group
         /\ \A id : Linked(id) \subseteq Player
         /\ \A id \in Id : NoneOr = Id \cup {NoId} /\ id # NoId
BY InstanceAssumption, Numbers DEF InstanceAssumption, Linked, NoneOr

LEMMA InitTypes == ASSUME Init PROVE TypeOK
<1>1. Types
  <2>1. <<>> = [x \in {} |-> 0] /\ Over(saves, Id, Save) /\ Over(maps, Id, Map)
        /\ Over(row, Id, Time)
    BY DEF Init, Over
  <2>2. nextId \in 1 .. MaxId + 1
    BY Numbers DEF Init
  <2> QED
    BY <2>1, <2>2 DEF Init, Types, Place, NoneOr
<1>2. \A p \in Player : HasItsMap(p)
  BY DEF Init, HasItsMap
<1> QED
  BY <1>1, <1>2, TypeParts

(* The last player to leave a map is the only one who refers to it.         *)
LEMMA TimerStarts ==
  ASSUME TypeOK, NEW p \in Player, where[p] \in {"inside", "leaving"},
         NEW q \in Player, q # p, where[q] = "inside"
  PROVE  /\ Over(StartUnloadTimer(maps, at[p]), Id, Map)
         /\ DOMAIN StartUnloadTimer(maps, at[p]) = DOMAIN maps
         /\ StartUnloadTimer(maps, at[p])[at[q]].unload = "never"
<1> DEFINE L == Linked(at[p])
<1>1. IsFiniteSet(L)
  BY FS_Subset, InstanceAssumption DEF Linked, InstanceAssumption
<1>2. CASE at[p] = at[q]
  <2>1. p \in L /\ q \in L
    BY <1>2 DEF Linked
  <2>2. Cardinality(L) # 1
    BY <1>1, <2>1, FS_Singleton
  <2>3. StartUnloadTimer(maps, at[p]) = maps
    BY <2>2 DEF StartUnloadTimer
  <2> QED
    BY <2>3, TypeParts DEF Types, HasItsMap
<1>3. CASE at[p] # at[q]
  BY <1>3, TypeParts DEF Types, HasItsMap, StartUnloadTimer, Over, Map
<1> QED
  BY <1>2, <1>3

LEMMA TimerTypes ==
  ASSUME TypeOK, NEW id \in DOMAIN maps
  PROVE  /\ Over(StartUnloadTimer(maps, id), Id, Map)
         /\ DOMAIN StartUnloadTimer(maps, id) = DOMAIN maps
BY TypeParts DEF Types, StartUnloadTimer, Over, Map

LEMMA PlayerLeftTypes ==
  ASSUME Types, NEW S, Over(S, Id, Save), NEW id \in Id, NEW linked, PlayerLeft(S, id, linked)
  PROVE  Over(saves', Id, Save) /\ Over(row', Id, Time) /\ queue' \subseteq Id \X Time
BY ScheduleType, UnloadType DEF Types, PlayerLeft

LEMMA UnboundTypes ==
  ASSUME NEW S, Over(S, Id, Save), NEW p \in Player, NEW id
  PROVE  Over(Unbound(S, p, id), Id, Save) /\ DOMAIN Unbound(S, p, id) = DOMAIN S
BY DEF Unbound, Over, Save

LEMMA UnsavedTypes ==
  ASSUME NEW D, NEW f \in [D -> NoneOr], NEW id
  PROVE  Unsaved(f, id) \in [D -> NoneOr]
BY DEF Unsaved, NoneOr

LEMMA CreateTypes ==
  ASSUME NEW M, Over(M, Id, Map), NEW id \in Id
  PROVE  /\ Over(CreateInstance(M, id), Id, Map)
         /\ DOMAIN CreateInstance(M, id) = DOMAIN M \cup {id}
         /\ \A i \in DOMAIN M : CreateInstance(M, id)[i] = M[i]
<1>1. NewMap \in Map
  BY DEF NewMap, Map
<1>2. CASE id \in DOMAIN M
  BY <1>2 DEF CreateInstance
<1>3. CASE id \notin DOMAIN M
  <2>1. CreateInstance(M, id) = With(M, id, NewMap)
    BY <1>3 DEF CreateInstance
  <2>2. /\ DOMAIN With(M, id, NewMap) = DOMAIN M \cup {id}
        /\ \A i \in DOMAIN M : With(M, id, NewMap)[i] = M[i]
    BY <1>3 DEF With
  <2>3. Over(With(M, id, NewMap), Id, Map)
    BY <1>1 DEF With, Over
  <2> QED
    BY <2>1, <2>2, <2>3
<1> QED
  BY <1>2, <1>3

(* What AddPlayerToMap leaves behind, when the saves and the binds it starts*)
(* from are of the right type.                                              *)
LEMMA AddPlayerTypes ==
  ASSUME TypeOK, NEW p \in Player, NEW id \in Id, NEW S, Over(S, Id, Save),
         NEW B \in [Player -> NoneOr], AddPlayerToMap(p, id, S, maps, B)
  PROVE  /\ Over(saves', Id, Save) /\ queue' \subseteq Id \X Time
         /\ Over(row', Id, Time) /\ bind' \in [Player -> NoneOr]
         /\ prow' \in [Player -> NoneOr] /\ gbind' \in [Group -> NoneOr]
         /\ grow' \in [Group -> NoneOr] /\ Over(maps', Id, Map)
         /\ where' \in [Player -> Place] /\ at' \in [Player -> NoneOr]
         /\ \A q \in Player : HasItsMap(q)'
<1> DEFINE grp == GroupOf[p]
           found == id \in DOMAIN S
           save == IF found THEN S[id] ELSE NewSave(ResetDelay)
           bound == IF grp = None THEN [save EXCEPT !.players = @ \cup {p}]
                    ELSE [save EXCEPT !.groups = @ \cup {grp}]
           Q == IF found THEN queue ELSE ScheduleReset(queue, id, ResetDelay)
           C == CreateInstance(maps, id)
<1>t. Types
  BY TypeParts
<1>g. grp = None \/ grp \in Group
  BY InstanceAssumption DEF InstanceAssumption
<1>1. bound \in Save
  <2>1. save \in Save
    BY Numbers, NewSaveType DEF Over
  <2> QED
    BY <2>1, <1>g DEF Save
<1>2. Over(With(S, id, bound), Id, Save)
  BY <1>1, WithProperties
<1> HIDE DEF bound
<1>3. /\ saves' = With(S, id, bound)
      /\ queue' = SetResetSchedule(FALSE, Q, saves', id, Linked(id) \cup {p})
      /\ row' = IF found THEN row ELSE With(row, id, ResetDelay)
  BY DEF AddPlayerToMap, bound
<1>4. Over(saves', Id, Save)
  BY <1>2, <1>3
<1>5. Q \subseteq Id \X Time
  BY <1>t, Numbers DEF Types, ScheduleReset
<1>6. queue' \subseteq Id \X Time
  BY <1>3, <1>4, <1>5, ScheduleType
<1>7. Over(row', Id, Time)
  BY <1>t, <1>3, WithProperties, Numbers DEF Types
<1>8. /\ bind' \in [Player -> NoneOr] /\ prow' \in [Player -> NoneOr]
      /\ gbind' \in [Group -> NoneOr] /\ grow' \in [Group -> NoneOr]
  BY <1>t, <1>g DEF AddPlayerToMap, Types, NoneOr
<1>9. where' \in [Player -> Place] /\ at' \in [Player -> NoneOr]
  BY <1>t DEF AddPlayerToMap, Types, NoneOr, Place
<1>10. /\ maps' = [C EXCEPT ![id].unload = "never", ![id].whenEmpty = FALSE,
                            ![id].wipe = FALSE]
       /\ where' = [where EXCEPT ![p] = "inside"] /\ at' = [at EXCEPT ![p] = id]
  BY DEF AddPlayerToMap
<1>11. /\ Over(C, Id, Map) /\ DOMAIN C = DOMAIN maps \cup {id}
       /\ \A i \in DOMAIN maps : C[i] = maps[i]
  BY <1>t, CreateTypes DEF Types
<1> HIDE DEF C
<1>12. /\ Over(maps', Id, Map) /\ DOMAIN maps' = DOMAIN C /\ maps'[id].unload = "never"
       /\ \A i \in DOMAIN C : i # id => maps'[i] = C[i]
  <2> DEFINE m == [C[id] EXCEPT !.unload = "never", !.whenEmpty = FALSE, !.wipe = FALSE]
  <2>1. C[id] \in Map
    BY <1>11 DEF Over
  <2>2. m \in Map /\ m.unload = "never"
    BY <2>1 DEF Map
  <2>3. maps' = [C EXCEPT ![id] = m]
    BY <1>10, <1>11, <2>1 DEF Over, Map
  <2> HIDE DEF m
  <2> QED
    BY <1>11, <2>2, <2>3 DEF Over
<1>13. ASSUME NEW q \in Player PROVE HasItsMap(q)'
  <2>1. CASE q = p
    BY <2>1, <1>t, <1>10, <1>11, <1>12 DEF HasItsMap, Types
  <2>2. CASE q # p
    <3>1. where'[q] = where[q] /\ at'[q] = at[q] /\ HasItsMap(q)
      BY <2>2, <1>10, <1>t, TypeParts DEF Types
    <3> QED
      BY <3>1, <1>11, <1>12 DEF HasItsMap
  <2> QED
    BY <2>1, <2>2
<1> QED
  BY <1>4, <1>6, <1>7, <1>8, <1>9, <1>12, <1>13

LEMMA SaveOfType ==
  ASSUME Types, NEW p \in Player, NEW B \in [Player -> NoneOr]
  PROVE  SaveOf(p, B) \in NoneOr
BY Joined DEF SaveOf, Types

LEMMA LoadedTypes ==
  ASSUME Types, NEW p \in Player
  PROVE  LoadedBind(p) \in [Player -> NoneOr] /\ Over(LoadedSaves(p), Id, Save)
<1>1. LoadedBind(p) \in [Player -> NoneOr]
  BY DEF LoadedBind, Types, NoneOr, Over
<1>2. CASE prow[p] \in DOMAIN row
  <2> DEFINE save == IF prow[p] \in DOMAIN saves THEN saves[prow[p]]
                     ELSE NewSave(row[prow[p]])
  <2>1. prow[p] \in Id /\ save \in Save
    BY <1>2, NewSaveType DEF Types, Over
  <2>2. [save EXCEPT !.players = @ \cup {p}] \in Save
    BY <2>1 DEF Save
  <2> QED
    BY <1>1, <1>2, <2>1, <2>2, WithProperties DEF LoadedSaves, Types
<1>3. CASE prow[p] \notin DOMAIN row
  BY <1>1, <1>3 DEF LoadedSaves, Types
<1> QED
  BY <1>2, <1>3

(* Every action keeps the types.                                            *)
LEMMA EnterTypes ==
  ASSUME TypeOK, NEW p \in Player, EnterSaved(p) \/ EnterFresh(p)
  PROVE  TypeOK'
<1>t. Types
  BY TypeParts
<1>b. bind \in [Player -> NoneOr] /\ Over(saves, Id, Save)
  BY <1>t DEF Types
<1>1. CASE EnterSaved(p)
  <2>1. SaveOf(p, bind) \in Id
    BY <1>b, <1>t, <1>1, SaveOfType DEF EnterSaved, NoneOr
  <2>2. AddPlayerToMap(p, SaveOf(p, bind), saves, maps, bind)
    BY <1>1 DEF EnterSaved
  <2>3. UNCHANGED <<phase, events, pending, ids, respawn>>
    BY <1>1 DEF EnterSaved
  <2> QED
    BY <1>t, <1>b, <2>1, <2>2, <2>3, AddPlayerTypes, TypeParts DEF Types, ids
<1>2. CASE EnterFresh(p)
  <2>1. nextId \in Id /\ AddPlayerToMap(p, nextId, saves, maps, bind)
    BY <1>2 DEF EnterFresh, GenerateInstanceId
  <2>2. UNCHANGED <<phase, events, pending, respawn>>
    BY <1>2 DEF EnterFresh
  <2>3. free' \subseteq Id /\ nextId' \in 1 .. MaxId + 1
    BY <1>t, <1>2, <2>1, NextAfterType, Numbers DEF EnterFresh, GenerateInstanceId, Types
  <2> QED
    BY <1>t, <1>b, <2>1, <2>2, <2>3, AddPlayerTypes, TypeParts DEF Types
<1> QED
  BY <1>1, <1>2

LEMMA LoginInsideTypes ==
  ASSUME TypeOK, NEW p \in Player, LoginInside(p)
  PROVE  /\ TypeOK'
         /\ (IF LoginInstanceId(p) # NoId THEN LoginInstanceId(p)
             ELSE SaveOf(p, LoadedBind(p))) \in Id
<1>t. Types
  BY TypeParts
<1> DEFINE B == LoadedBind(p)
           id == IF LoginInstanceId(p) # NoId THEN LoginInstanceId(p) ELSE SaveOf(p, B)
<1>1. B \in [Player -> NoneOr] /\ Over(LoadedSaves(p), Id, Save)
  BY <1>t, LoadedTypes
<1>2. SaveOf(p, B) \in NoneOr /\ at[p] \in NoneOr /\ at[p] # NoId
  BY <1>t, <1>1, SaveOfType DEF LoginInside, Types
<1>3. id \in Id
  BY <1>2 DEF LoginInstanceId, NoneOr
<1>4. AddPlayerToMap(p, id, LoadedSaves(p), maps, B)
  BY DEF LoginInside
<1>5. UNCHANGED <<phase, events, pending, ids, respawn>>
  BY DEF LoginInside
<1> HIDE DEF id, B
<1>6. TypeOK'
  BY <1>t, <1>1, <1>3, <1>4, <1>5, AddPlayerTypes, TypeParts DEF Types, ids
<1> QED
  BY <1>3, <1>6 DEF id, B

LEMMA LoginOutsideTypes ==
  ASSUME TypeOK, NEW p \in Player, LoginOutside(p)
  PROVE  TypeOK'
<1>t. Types
  BY TypeParts
<1>1. LoadedBind(p) \in [Player -> NoneOr] /\ Over(LoadedSaves(p), Id, Save)
  BY <1>t, LoadedTypes
<1>2. Types'
  BY <1>t, <1>1 DEF Types, LoginOutside, NoneOr, Place, world, ids
<1>3. ASSUME NEW q \in Player PROVE HasItsMap(q)'
  BY <1>t, TypeParts DEF Types, LoginOutside, HasItsMap, world
<1> QED
  BY <1>2, <1>3, TypeParts

LEMMA LogoutInsideTypes ==
  ASSUME TypeOK, NEW p \in Player, LogoutInside(p)
  PROVE  TypeOK'
<1>t. Types
  BY TypeParts
<1>1. where[p] = "inside" /\ at[p] \in DOMAIN maps /\ at[p] \in Id
  BY <1>t, TypeParts DEF LogoutInside, HasItsMap, Types, Over
<1>2. Over(Unbound(saves, p, bind[p]), Id, Save)
  BY <1>t, UnboundTypes DEF Types
<1>3. /\ maps' = StartUnloadTimer(maps, at[p])
      /\ PlayerLeft(Unbound(saves, p, bind[p]), at[p], Linked(at[p]) \ {p})
      /\ where' = [where EXCEPT ![p] = "offline"] /\ bind' = [bind EXCEPT ![p] = NoId]
      /\ UNCHANGED <<phase, at, gbind, events, pending, ids, prow, grow, respawn>>
  BY DEF LogoutInside
<1>4. Over(saves', Id, Save) /\ Over(row', Id, Time) /\ queue' \subseteq Id \X Time
  BY <1>t, <1>1, <1>2, <1>3, PlayerLeftTypes
<1>5. Over(maps', Id, Map) /\ DOMAIN maps' = DOMAIN maps
  BY <1>1, <1>3, TimerTypes
<1>6. Types'
  BY <1>t, <1>3, <1>4, <1>5 DEF Types, NoneOr, Place, ids
<1>7. ASSUME NEW q \in Player PROVE HasItsMap(q)'
  <2>1. at'[q] = at[q] /\ HasItsMap(q) /\ where'[q] \in {where[q], "offline"}
        /\ where'[p] = "offline"
    BY <1>t, <1>3, TypeParts DEF Types
  <2>2. CASE where'[q] = "inside"
    <3>1. q # p /\ where[q] = "inside"
      BY <2>1, <2>2
    <3>2. maps'[at[q]].unload = "never"
      BY <3>1, <1>1, <1>3, TimerStarts
    <3> QED
      BY <2>1, <2>2, <3>1, <3>2, <1>5 DEF HasItsMap
  <2>3. CASE where'[q] # "inside"
    BY <2>1, <2>3, <1>5 DEF HasItsMap
  <2> QED
    BY <2>2, <2>3
<1> QED
  BY <1>6, <1>7, TypeParts

LEMMA LogoutOutsideTypes ==
  ASSUME TypeOK, NEW p \in Player, LogoutOutside(p)
  PROVE  TypeOK'
<1>t. Types
  BY TypeParts
<1>1. Over(Unbound(saves, p, bind[p]), Id, Save)
  BY <1>t, UnboundTypes DEF Types
<1>2. Over(saves', Id, Save) /\ Over(row', Id, Time)
  BY <1>t, <1>1, UnloadType DEF Types, LogoutOutside
<1>3. Types'
  BY <1>t, <1>2 DEF Types, LogoutOutside, NoneOr, Place, ids, world
<1>4. ASSUME NEW q \in Player PROVE HasItsMap(q)'
  BY <1>t, TypeParts DEF Types, LogoutOutside, HasItsMap, world
<1> QED
  BY <1>3, <1>4, TypeParts

LEMMA ArriveTypes ==
  ASSUME TypeOK, NEW p \in Player, Arrive(p)
  PROVE  TypeOK'
<1>t. Types
  BY TypeParts
<1>1. Types'
  BY <1>t DEF Types, Arrive, NoneOr, Place, ids, world, manager, db
<1>2. ASSUME NEW q \in Player PROVE HasItsMap(q)'
  BY <1>t, TypeParts DEF Types, Arrive, HasItsMap, world
<1> QED
  BY <1>1, <1>2, TypeParts

LEMMA LeaveTypes ==
  ASSUME TypeOK, NEW p \in Player, Leave(p)
  PROVE  TypeOK'
<1>t. Types
  BY TypeParts
<1>1. where[p] = "inside" /\ at[p] \in DOMAIN maps /\ at[p] \in Id
  BY <1>t, TypeParts DEF Leave, HasItsMap, Types, Over
<1>2. /\ maps' = StartUnloadTimer(maps, at[p])
      /\ where' = [where EXCEPT ![p] = "leaving"]
      /\ UNCHANGED <<phase, at, bind, gbind, pending, ids, prow, grow, respawn>>
  BY DEF Leave
<1>3. /\ Over(saves', Id, Save) /\ Over(row', Id, Time) /\ queue' \subseteq Id \X Time
      /\ events' \in Seq(Event)
  <2>1. CASE IsUpdatingMaps
    <3>1. [type |-> "PLAYER_LEFT", id |-> at[p]] \in Event
      BY <1>1 DEF Event
    <3>2. /\ events' = Append(events, [type |-> "PLAYER_LEFT", id |-> at[p]])
          /\ UNCHANGED <<queue, saves, row>>
      BY <2>1 DEF Leave
    <3>3. events' \in Seq(Event)
      BY <1>t, <3>1, <3>2, AppendProperties DEF Types
    <3> QED
      BY <1>t, <3>2, <3>3 DEF Types
  <2>2. CASE ~ IsUpdatingMaps
    BY <1>t, <1>1, <2>2, PlayerLeftTypes DEF Leave, Types
  <2> QED
    BY <2>1, <2>2
<1>4. Over(maps', Id, Map) /\ DOMAIN maps' = DOMAIN maps
  BY <1>1, <1>2, TimerTypes
<1>5. Types'
  BY <1>t, <1>2, <1>3, <1>4 DEF Types, NoneOr, Place, ids
<1>6. ASSUME NEW q \in Player PROVE HasItsMap(q)'
  <2>1. at'[q] = at[q] /\ HasItsMap(q) /\ where'[p] = "leaving"
        /\ (q # p => where'[q] = where[q])
    BY <1>t, <1>2, TypeParts DEF Types
  <2>2. CASE where'[q] = "inside"
    <3>1. q # p /\ where[q] = "inside"
      BY <2>1, <2>2
    <3>2. maps'[at[q]].unload = "never"
      BY <3>1, <1>1, <1>2, TimerStarts
    <3> QED
      BY <2>1, <2>2, <3>1, <3>2, <1>4 DEF HasItsMap
  <2>3. CASE where'[q] # "inside"
    BY <1>1, <2>1, <2>3, <1>4 DEF HasItsMap
  <2> QED
    BY <2>2, <2>3
<1> QED
  BY <1>5, <1>6, TypeParts

LEMMA ResetTypes ==
  ASSUME TypeOK, NEW id \in Id, IsEmpty(id), NEW S, Over(S, Id, Save), ResetInstance(id, S)
  PROVE  /\ Over(saves', Id, Save) /\ Over(row', Id, Time) /\ Over(maps', Id, Map)
         /\ prow' \in [Player -> NoneOr] /\ grow' \in [Group -> NoneOr]
         /\ DOMAIN maps' = DOMAIN maps
         /\ \A q \in Player : where[q] = "inside" => maps'[at[q]].unload = "never"
<1>t. Types
  BY TypeParts
<1>1. Over(saves', Id, Save)
  BY WithoutProperties DEF ResetInstance
<1>2. Over(row', Id, Time)
  BY <1>t, WithoutProperties DEF ResetInstance, DeleteInstanceFromDB, Types
<1>3. prow' \in [Player -> NoneOr] /\ grow' \in [Group -> NoneOr]
  BY <1>t, UnsavedTypes DEF ResetInstance, DeleteInstanceFromDB, Types
<1>4. CASE id \in DOMAIN maps
  <2> DEFINE m == ResetEmpty(maps[id])
  <2>1. m \in Map
    BY <1>t, <1>4, MapWith DEF Types, Over
  <2>2. maps' = [maps EXCEPT ![id] = m]
    BY <1>4 DEF ResetInstance
  <2> HIDE DEF m
  <2>3. Over(maps', Id, Map) /\ DOMAIN maps' = DOMAIN maps
        /\ \A i \in DOMAIN maps : i # id => maps'[i] = maps[i]
    BY <1>t, <2>1, <2>2 DEF Types, Over
  <2>4. ASSUME NEW q \in Player, where[q] = "inside" PROVE at[q] # id
    BY <1>4, <2>4 DEF IsEmpty, Linked
  <2>5. ASSUME NEW q \in Player, where[q] = "inside" PROVE maps'[at[q]].unload = "never"
    BY <2>3, <2>4, <2>5, TypeParts DEF HasItsMap
  <2> QED
    BY <1>1, <1>2, <1>3, <2>3, <2>5
<1>5. CASE id \notin DOMAIN maps
  <2>1. maps' = maps
    BY <1>5 DEF ResetInstance
  <2> QED
    BY <1>t, <1>1, <1>2, <1>3, <2>1, TypeParts DEF HasItsMap, Types
<1> QED
  BY <1>4, <1>5

LEMMA ResetInstancesTypes ==
  ASSUME TypeOK, NEW p \in Player, ResetInstances(p)
  PROVE  TypeOK'
<1>t. Types
  BY TypeParts
<1>1. bind[p] \in Id /\ IsEmpty(bind[p])
  BY <1>t DEF ResetInstances, Types, NoneOr
<1>2. Over(Unbound(saves, p, bind[p]), Id, Save)
  BY <1>t, UnboundTypes DEF Types
<1>3. /\ ResetInstance(bind[p], Unbound(saves, p, bind[p]))
      /\ bind' = [bind EXCEPT ![p] = NoId]
      /\ UNCHANGED <<phase, where, at, queue, gbind, events, pending, ids, respawn>>
  BY DEF ResetInstances
<1>4. /\ Over(saves', Id, Save) /\ Over(row', Id, Time) /\ Over(maps', Id, Map)
      /\ prow' \in [Player -> NoneOr] /\ grow' \in [Group -> NoneOr]
      /\ DOMAIN maps' = DOMAIN maps
      /\ \A q \in Player : where[q] = "inside" => maps'[at[q]].unload = "never"
  BY <1>1, <1>2, <1>3, ResetTypes
<1>5. Types'
  BY <1>t, <1>3, <1>4 DEF Types, NoneOr, ids
<1>6. ASSUME NEW q \in Player PROVE HasItsMap(q)'
  BY <1>3, <1>4, TypeParts DEF HasItsMap
<1> QED
  BY <1>5, <1>6, TypeParts

LEMMA ResetGroupTypes ==
  ASSUME TypeOK, NEW g \in Group, ResetGroupInstances(g)
  PROVE  TypeOK'
<1>t. Types
  BY TypeParts
<1>1. gbind[g] \in Id /\ IsEmpty(gbind[g])
  BY <1>t DEF ResetGroupInstances, Types, NoneOr
<1> DEFINE S == [saves EXCEPT ![gbind[g]].groups = @ \ {g}]
<1>2. Over(S, Id, Save)
  BY <1>t DEF Types, Over, Save
<1>3. /\ ResetInstance(gbind[g], S)
      /\ gbind' = [gbind EXCEPT ![g] = NoId]
      /\ at' = [p \in Player |->
           IF GroupOf[p] = g /\ where[p] = "offline" /\ gbind[g] \in DOMAIN maps
           THEN NoId ELSE at[p]]
      /\ UNCHANGED <<phase, where, bind, queue, events, pending, ids, respawn>>
  BY DEF ResetGroupInstances
<1> HIDE DEF S
<1>4. /\ Over(saves', Id, Save) /\ Over(row', Id, Time) /\ Over(maps', Id, Map)
      /\ prow' \in [Player -> NoneOr] /\ grow' \in [Group -> NoneOr]
      /\ DOMAIN maps' = DOMAIN maps
      /\ \A q \in Player : where[q] = "inside" => maps'[at[q]].unload = "never"
  BY <1>1, <1>2, <1>3, ResetTypes
<1>5. at' \in [Player -> NoneOr] /\ gbind' \in [Group -> NoneOr]
  BY <1>t, <1>3 DEF Types, NoneOr
<1>6. Types'
  BY <1>t, <1>3, <1>4, <1>5 DEF Types, ids
<1>7. ASSUME NEW q \in Player PROVE HasItsMap(q)'
  <2>1. where'[q] = where[q] /\ (at'[q] = at[q] \/ (where[q] = "offline"))
    BY <1>3
  <2> QED
    BY <2>1, <1>4, TypeParts DEF HasItsMap
<1> QED
  BY <1>6, <1>7, TypeParts

LEMMA StartMapsTypes ==
  ASSUME TypeOK, NEW elapsed, StartMaps(elapsed)
  PROVE  /\ TypeOK' /\ DOMAIN maps' = DOMAIN maps
         /\ \A id \in DOMAIN maps :
              maps'[id] = IF id \in elapsed THEN [maps[id] EXCEPT !.unload = "now"] ELSE maps[id]
<1>t. Types
  BY TypeParts
<1>1. /\ elapsed \subseteq {id \in DOMAIN maps : maps[id].unload = "delayed"}
      /\ phase' = "maps"
      /\ maps' = [id \in DOMAIN maps |->
                    IF id \in elapsed THEN [maps[id] EXCEPT !.unload = "now"] ELSE maps[id]]
      /\ pending' = {id \in DOMAIN maps : maps'[id].unload = "now"}
      /\ UNCHANGED <<players, manager, events, ids, db>>
  BY DEF StartMaps
<1>2. \A id \in DOMAIN maps : [maps[id] EXCEPT !.unload = "now"] \in Map
  BY <1>t DEF Types, Over, Map
<1>3. DOMAIN maps' = DOMAIN maps /\ Over(maps', Id, Map)
      /\ \A id \in DOMAIN maps :
           maps'[id] = IF id \in elapsed THEN [maps[id] EXCEPT !.unload = "now"] ELSE maps[id]
  BY <1>t, <1>1, <1>2 DEF Types, Over
<1>4. pending' \subseteq Id
  BY <1>t, <1>1 DEF Types, Over
<1>5. Types'
  BY <1>t, <1>1, <1>3, <1>4 DEF Types, players, manager, ids, db
<1>6. ASSUME NEW q \in Player PROVE HasItsMap(q)'
  <2>1. where' = where /\ at' = at /\ HasItsMap(q)
    BY <1>1, TypeParts DEF players
  <2>2. \A id \in DOMAIN maps : maps[id].unload = "never" => maps'[id] = maps[id]
    BY <1>1, <1>3
  <2> QED
    BY <2>1, <2>2, <1>3 DEF HasItsMap
<1> QED
  BY <1>3, <1>5, <1>6, TypeParts

(* What leaves the players and the maps alone leaves them each other.       *)
LEMMA MapsStay ==
  ASSUME TypeOK, UNCHANGED <<where, at, maps>>
  PROVE  \A q \in Player : HasItsMap(q)'
BY TypeParts DEF HasItsMap

LEMMA KillTypes ==
  ASSUME TypeOK, NEW id \in DOMAIN maps, Kill(id)
  PROVE  TypeOK'
<1>t. Types
  BY TypeParts
<1>1. id \in Id
  BY <1>t DEF Types, Over
<1> DEFINE event == [type |-> "NORMAL_RESET_TIME", id |-> id]
<1>2. event \in Event
  BY <1>1 DEF Event
<1>3. /\ events' = Append(events, event) /\ respawn' = respawn \cup {id}
      /\ UNCHANGED <<phase, players, manager, maps, pending, ids, row, prow, grow>>
  BY DEF Kill
<1> HIDE DEF event
<1>4. events' \in Seq(Event)
  BY <1>t, <1>2, <1>3, AppendProperties DEF Types
<1>5. Types'
  BY <1>t, <1>1, <1>3, <1>4 DEF Types, players, manager, ids
<1> QED
  BY <1>3, <1>5, MapsStay, TypeParts DEF players

LEMMA HeadTypes ==
  ASSUME Types, events # <<>>
  PROVE  Head(events).id \in Id /\ Tail(events) \in Seq(Event)
<1>1. Head(events) \in Event /\ Tail(events) \in Seq(Event)
  BY HeadTailProperties DEF Types
<1> QED
  BY <1>1 DEF Event

LEMMA ProcessTypes ==
  ASSUME TypeOK, ProcessPlayerLeft \/ ProcessNormalResetTime
  PROVE  TypeOK'
<1>t. Types
  BY TypeParts
<1>1. CASE ProcessPlayerLeft
  <2>1. /\ PlayerLeft(saves, Head(events).id, Linked(Head(events).id))
        /\ events # <<>> /\ events' = Tail(events)
        /\ UNCHANGED <<phase, players, gbind, maps, pending, ids, prow, grow, respawn>>
    BY <1>1 DEF ProcessPlayerLeft
  <2>2. Head(events).id \in Id /\ events' \in Seq(Event)
    BY <1>t, <2>1, HeadTypes
  <2>3. Over(saves', Id, Save) /\ Over(row', Id, Time) /\ queue' \subseteq Id \X Time
    BY <1>t, <2>1, <2>2, PlayerLeftTypes DEF Types
  <2>4. Types'
    BY <1>t, <2>1, <2>2, <2>3 DEF Types, players, ids
  <2> QED
    BY <2>1, <2>4, MapsStay, TypeParts DEF players
<1>2. CASE ProcessNormalResetTime
  <2>1. /\ saves' = IF Head(events).id \in DOMAIN saves
                    THEN [saves EXCEPT ![Head(events).id].reset = ResetDelay] ELSE saves
        /\ events # <<>> /\ events' = Tail(events)
        /\ UNCHANGED <<phase, players, queue, gbind, maps, pending, ids, db>>
    BY <1>2 DEF ProcessNormalResetTime
  <2>2. events' \in Seq(Event)
    BY <1>t, <2>1, HeadTypes
  <2>3. Over(saves', Id, Save)
    BY <1>t, <2>1, Numbers DEF Types, Over, Save
  <2>4. Types'
    BY <1>t, <2>1, <2>2, <2>3 DEF Types, players, ids, db
  <2> QED
    BY <2>1, <2>4, MapsStay, TypeParts DEF players
<1> QED
  BY <1>1, <1>2

LEMMA DestroyTypes ==
  ASSUME TypeOK, DestroyPendingInstances
  PROVE  TypeOK'
<1>t. Types
  BY TypeParts
<1>1. /\ phase' = "resets" /\ maps' = Restrict(maps, DOMAIN maps \ Destroyed)
      /\ FreeInstanceIds(Released)
      /\ respawn' = respawn \ {id \in Destroyed : maps[id].wipe}
      /\ pending' = {} /\ UNCHANGED <<players, manager, events, row, prow, grow>>
  BY DEF DestroyPendingInstances
<1>2. Destroyed \subseteq Id /\ Released \subseteq Id
  BY <1>t DEF Types, Destroyed, Released
<1>3. free' \subseteq Id /\ nextId' \in 1 .. MaxId + 1
  BY <1>t, <1>1, <1>2, FreeType DEF Types
<1>4. /\ Over(maps', Id, Map) /\ DOMAIN maps' = DOMAIN maps \ Destroyed
      /\ \A i \in DOMAIN maps' : maps'[i] = maps[i]
  BY <1>t, <1>1 DEF Types, Over, Restrict
<1>5. Types'
  BY <1>t, <1>1, <1>3, <1>4 DEF Types, players, manager
<1>6. ASSUME NEW q \in Player PROVE HasItsMap(q)'
  <2>1. where' = where /\ at' = at /\ HasItsMap(q)
    BY <1>1, TypeParts DEF players
  <2>2. where[q] \in {"inside", "leaving"} => at[q] \notin Destroyed
    BY DEF Destroyed, Linked
  <2> QED
    BY <2>1, <2>2, <1>4 DEF HasItsMap
<1> QED
  BY <1>5, <1>6, TypeParts

LEMMA ResetDueTypes ==
  ASSUME TypeOK, NEW id \in Id, ResetDue(id)
  PROVE  TypeOK'
<1>t. Types
  BY TypeParts
<1> DEFINE m == FreeOnUnload(IF Linked(id) = {} THEN ResetEmpty(maps[id])
                             ELSE ResetFull(maps[id]))
<1>1. /\ queue' = queue \ {<<id, -1>>}
      /\ bind' = Unsaved(bind, id) /\ gbind' = Unsaved(gbind, id)
      /\ saves' = Without(saves, id) /\ DeleteInstanceFromDB(id)
      /\ respawn' = respawn \ {id} /\ FreeInstanceIds(ReleasedAtReset(id))
      /\ maps' = IF id \notin DOMAIN maps THEN maps ELSE [maps EXCEPT ![id] = m]
      /\ UNCHANGED <<phase, where, at, events, pending>>
  BY DEF ResetDue
<1>2. id \in DOMAIN maps =>
        m \in Map /\ (Linked(id) # {} => m.unload = maps[id].unload)
  <2>1. ASSUME id \in DOMAIN maps PROVE maps[id] \in Map
    BY <1>t, <2>1 DEF Types, Over
  <2> QED
    BY <2>1 DEF Map, FreeOnUnload, ResetEmpty, ResetFull
<1> HIDE DEF m
<1>3. /\ Over(maps', Id, Map) /\ DOMAIN maps' = DOMAIN maps
      /\ \A i \in DOMAIN maps : i # id => maps'[i] = maps[i]
      /\ id \in DOMAIN maps /\ Linked(id) # {} => maps'[id].unload = maps[id].unload
  BY <1>t, <1>1, <1>2 DEF Types, Over
<1>4. /\ bind' \in [Player -> NoneOr] /\ gbind' \in [Group -> NoneOr]
      /\ prow' \in [Player -> NoneOr] /\ grow' \in [Group -> NoneOr]
  BY <1>t, <1>1, UnsavedTypes DEF Types, DeleteInstanceFromDB
<1>5. Over(saves', Id, Save) /\ Over(row', Id, Time)
  BY <1>t, <1>1, WithoutProperties DEF Types, DeleteInstanceFromDB
<1>6. free' \subseteq Id /\ nextId' \in 1 .. MaxId + 1
  BY <1>t, <1>1, FreeType DEF Types, ReleasedAtReset
<1>7. Types'
  BY <1>t, <1>1, <1>3, <1>4, <1>5, <1>6 DEF Types
<1>8. ASSUME NEW q \in Player PROVE HasItsMap(q)'
  <2>1. where' = where /\ at' = at /\ HasItsMap(q)
    BY <1>1, TypeParts
  <2>2. where[q] = "inside" /\ at[q] = id => Linked(id) # {}
    BY DEF Linked
  <2> QED
    BY <2>1, <2>2, <1>3 DEF HasItsMap
<1> QED
  BY <1>7, <1>8, TypeParts

LEMMA EarlierType == ASSUME NEW t \in Time PROVE Earlier(t) \in Time
BY Numbers DEF Time, Earlier

LEMMA TimePassesTypes ==
  ASSUME TypeOK, TimePasses
  PROVE  TypeOK'
<1>t. Types
  BY TypeParts
<1>1. /\ phase' = "sessions"
      /\ queue' = {<<e[1], Earlier(e[2])>> : e \in queue}
      /\ saves' = [id \in DOMAIN saves |-> [saves[id] EXCEPT !.reset = Earlier(@)]]
      /\ row' = [id \in DOMAIN row |-> Earlier(row[id])]
      /\ UNCHANGED <<players, gbind, world, ids, prow, grow, respawn>>
  BY DEF TimePasses
<1>2. queue' \subseteq Id \X Time
  <2>1. \A e \in queue : <<e[1], Earlier(e[2])>> \in Id \X Time
    BY <1>t, EarlierType DEF Types
  <2> QED
    BY <1>1, <2>1
<1>3. Over(saves', Id, Save)
  <2>1. ASSUME NEW id \in DOMAIN saves
        PROVE  [saves[id] EXCEPT !.reset = Earlier(@)] \in Save
    <3>1. saves[id] \in Save /\ saves[id].reset \in Time
      BY <1>t DEF Types, Over, Save
    <3>2. Earlier(saves[id].reset) \in Time
      BY <3>1, EarlierType
    <3> QED
      BY <3>1, <3>2 DEF Save
  <2> QED
    BY <1>t, <1>1, <2>1 DEF Types, Over
<1>4. Over(row', Id, Time)
  BY <1>t, <1>1, EarlierType DEF Types, Over
<1>5. Types'
  BY <1>t, <1>1, <1>2, <1>3, <1>4 DEF Types, players, world, ids
<1> QED
  BY <1>1, <1>5, MapsStay, TypeParts DEF players, world

LEMMA RestartTypes ==
  ASSUME TypeOK, Restart
  PROVE  TypeOK'
<1>t. Types
  BY TypeParts
<1>k. /\ LoadedRows \subseteq DOMAIN row /\ LoadedRows \subseteq Id
      /\ \A id : Known(id) \in NoneOr
  BY <1>t DEF LoadedRows, Types, Over, Known, NoneOr
<1>1. /\ phase' = "sessions" /\ where' = [p \in Player |-> "offline"]
      /\ at' \in [Player -> NoneOr] /\ bind' = [p \in Player |-> NoId]
      /\ gbind' = [g \in Group |-> Known(grow[g])]
      /\ saves' = [id \in {i \in LoadedRows : GroupsOf(i) # {}} |->
                     [NewSave(row[id]) EXCEPT !.groups = GroupsOf(id)]]
      /\ queue' = {<<id, row[id]>> : id \in {i \in LoadedRows : row[i] > 0}}
      /\ events' = <<>> /\ maps' = <<>> /\ pending' = {}
      /\ free' = Id \ LoadedRows /\ nextId' = NextAfter(free', NoId)
      /\ row' = Restrict(row, LoadedRows)
      /\ prow' = [p \in Player |-> Known(prow[p])]
      /\ grow' = [g \in Group |-> Known(grow[g])]
      /\ respawn' = respawn \cap LoadedRows
  BY DEF Restart
<1>2. Over(saves', Id, Save)
  <2>1. ASSUME NEW id \in LoadedRows
        PROVE  [NewSave(row[id]) EXCEPT !.groups = GroupsOf(id)] \in Save
    BY <1>t, <1>k DEF Types, Over, NewSave, Save, GroupsOf
  <2> QED
    BY <1>1, <1>k, <2>1 DEF Over
<1>3. queue' \subseteq Id \X Time
  BY <1>t, <1>1, <1>k DEF Types, Over
<1>4. Over(row', Id, Time)
  BY <1>t, <1>1, <1>k DEF Types, Over, Restrict
<1>5. free' \subseteq Id /\ nextId' \in 1 .. MaxId + 1
  BY <1>1, NextAfterType, Numbers DEF NoId
<1>6. maps' = [x \in {} |-> 0] /\ Over(maps', Id, Map)
  BY <1>1 DEF Over
<1>7. /\ where' \in [Player -> Place] /\ bind' \in [Player -> NoneOr]
      /\ gbind' \in [Group -> NoneOr]
      /\ prow' \in [Player -> NoneOr] /\ grow' \in [Group -> NoneOr]
  BY <1>1, <1>k DEF Place, NoneOr
<1>8. Types'
  BY <1>t, <1>1, <1>2, <1>3, <1>4, <1>5, <1>6, <1>7 DEF Types
<1>9. \A q \in Player : HasItsMap(q)'
  BY <1>1 DEF HasItsMap
<1> QED
  BY <1>8, <1>9, TypeParts

LEMMA NextTypes == ASSUME TypeOK, [Next]_vars PROVE TypeOK'
<1>t. Types
  BY TypeParts
<1>1. ASSUME NEW p \in Player,
             \/ EnterSaved(p) \/ EnterFresh(p) \/ LoginInside(p) \/ LoginOutside(p)
             \/ LogoutInside(p) \/ LogoutOutside(p) \/ Leave(p) \/ Arrive(p)
             \/ ResetInstances(p)
      PROVE  TypeOK'
  BY <1>1, EnterTypes, LoginInsideTypes, LoginOutsideTypes, LogoutInsideTypes,
     LogoutOutsideTypes, LeaveTypes, ArriveTypes, ResetInstancesTypes
<1>2. CASE \/ \E g \in Group : ResetGroupInstances(g)
           \/ \E elapsed \in SUBSET DOMAIN maps : StartMaps(elapsed)
           \/ \E id \in DOMAIN maps : Kill(id)
           \/ ProcessPlayerLeft \/ ProcessNormalResetTime \/ DestroyPendingInstances
           \/ \E id \in Id : ResetDue(id)
           \/ TimePasses \/ Restart
  BY <1>2, ResetGroupTypes, StartMapsTypes, KillTypes, ProcessTypes, DestroyTypes,
     ResetDueTypes, TimePassesTypes, RestartTypes
<1>3. CASE EndMaps \/ EndUpdate \/ UNCHANGED vars
  <2>1. /\ phase' \in {"sessions", "maps", "events", "resets"}
        /\ UNCHANGED <<players, manager, world, ids, db>>
    BY <1>t, <1>3 DEF Types, EndMaps, EndUpdate, vars, players, manager, world, ids, db
  <2>2. Types'
    BY <1>t, <2>1 DEF Types, players, manager, world, ids, db
  <2> QED
    BY <2>1, <2>2, MapsStay, TypeParts DEF players, world
<1> QED
  BY <1>1, <1>2, <1>3 DEF Next

(* Every variable has its type and no player is ever left without his map.  *)
THEOREM MapsOutliveTheirPlayers == Spec => []TypeOK
BY InitTypes, NextTypes, PTL DEF Spec

-----------------------------------------------------------------------------
(* The next id is the lowest of the free ones.                              *)

LEMMA IdRange == \A f \in Id : f \in Nat /\ f > NoId /\ f <= MaxId /\ 1 <= f
BY Numbers DEF Id, NoId

LEMMA LowestIs ==
  ASSUME NEW F, F \subseteq Id, NEW n \in F \cup {MaxId + 1}, \A f \in F : n <= f
  PROVE  NextAfter(F, NoId) = n
<1> DEFINE S == {f \in F : f > NoId} \cup {MaxId + 1}
<1>1. \A f \in F : f \in Nat /\ f > NoId /\ f <= MaxId
  BY IdRange
<1>2. S = F \cup {MaxId + 1} /\ S \subseteq Nat
  <2>1. {f \in F : f > NoId} = F
    BY <1>1, Zenon
  <2>2. F \subseteq Nat /\ MaxId + 1 \in Nat
    BY <1>1, Numbers
  <2> QED
    BY <2>1, <2>2
<1>3. \A y \in S : n <= y
  BY <1>1, <1>2, Numbers
<1>4. Min(S) = n
  BY <1>2, <1>3, LeastIs
<1> QED
  BY <1>4 DEF NextAfter

LEMMA LowestOf ==
  ASSUME NEW F, F \subseteq Id
  PROVE  /\ NextAfter(F, NoId) \in F \cup {MaxId + 1}
         /\ \A f \in F : NextAfter(F, NoId) <= f
<1> DEFINE S == {f \in F : f > NoId} \cup {MaxId + 1}
<1>1. \A f \in F : f \in Nat /\ f > NoId /\ f <= MaxId
  BY IdRange
<1>2. S = F \cup {MaxId + 1} /\ S \subseteq Nat /\ S # {}
  <2>1. {f \in F : f > NoId} = F
    BY <1>1, Zenon
  <2>2. F \subseteq Nat /\ MaxId + 1 \in Nat
    BY <1>1, Numbers
  <2> QED
    BY <2>1, <2>2
<1>3. Min(S) \in S /\ \A y \in S : Min(S) <= y
  BY <1>2, LeastOf
<1> QED
  BY <1>2, <1>3 DEF NextAfter

LEMMA GenerateLowest ==
  ASSUME TypeOK, NextIsLowestFree, GenerateInstanceId
  PROVE  /\ NextIsLowestFree' /\ nextId \in free
<1>1. free \subseteq Id /\ (\A f \in free : f \in Nat) /\ MaxId + 1 \in Nat
  BY Numbers, IdRange DEF TypeOK
<1>2. nextId \in free /\ \A f \in free : nextId <= f
  BY <1>1, LowestOf, Numbers DEF NextIsLowestFree, GenerateInstanceId
<1> DEFINE S == {f \in free : f > nextId} \cup {MaxId + 1}
<1>3. {f \in free : f > nextId} = free \ {nextId}
  BY <1>1, <1>2
<1>4. S \subseteq Nat /\ S # {} /\ S = (free \ {nextId}) \cup {MaxId + 1}
  BY <1>1, <1>3
<1>5. Min(S) \in S /\ \A y \in S : Min(S) <= y
  BY <1>4, LeastOf
<1>6. nextId' = Min(S) /\ free' = free \ {nextId}
  BY DEF GenerateInstanceId, NextAfter
<1> HIDE DEF S
<1>7. NextAfter(free', NoId) = nextId'
  BY <1>1, <1>4, <1>5, <1>6, LowestIs
<1> QED
  BY <1>2, <1>7 DEF NextIsLowestFree

LEMMA FreeLowest ==
  ASSUME TypeOK, NextIsLowestFree, NEW freed, freed \subseteq Id, FreeInstanceIds(freed)
  PROVE  NextIsLowestFree'
<1>1. free \subseteq Id /\ (\A f \in free : f \in Nat) /\ MaxId + 1 \in Nat
      /\ \A f \in freed : f \in Nat
  BY Numbers, IdRange DEF TypeOK
<1>2. nextId \in free \cup {MaxId + 1} /\ \A f \in free : nextId <= f
  BY <1>1, LowestOf DEF NextIsLowestFree
<1> DEFINE S == freed \cup {nextId}
<1>3. S \subseteq Nat /\ S # {}
  BY <1>1, <1>2
<1>4. Min(S) \in S /\ \A y \in S : Min(S) <= y
  BY <1>3, LeastOf
<1>5. nextId' = Min(S) /\ free' = free \cup freed
  BY DEF FreeInstanceIds
<1>6. Min(S) <= nextId /\ Min(S) \in Nat /\ nextId \in Nat /\ free \subseteq Nat
  BY <1>1, <1>2, <1>3, <1>4
<1>7. \A f \in free' : nextId' <= f
  BY <1>2, <1>4, <1>5, <1>6
<1>8. nextId' \in free' \cup {MaxId + 1} /\ free' \subseteq Id
  BY <1>1, <1>2, <1>4, <1>5
<1> QED
  BY <1>7, <1>8, LowestIs DEF NextIsLowestFree

LEMMA InitLowest == ASSUME Init PROVE NextIsLowestFree
<1>1. 1 \in Id /\ \A f \in Id : 1 <= f
  BY Numbers, IdRange DEF Id
<1>2. NextAfter(Id, NoId) = 1
  BY <1>1, LowestIs
<1> QED
  BY <1>2 DEF Init, NextIsLowestFree

LEMMA NextLowest == ASSUME TypeOK, NextIsLowestFree, [Next]_vars PROVE NextIsLowestFree'
<1>1. ASSUME NEW p \in Player, EnterFresh(p) PROVE NextIsLowestFree'
  BY <1>1, GenerateLowest DEF EnterFresh
<1>2. CASE DestroyPendingInstances
  <2>1. Released \subseteq Id
    BY DEF TypeOK, Released, Destroyed
  <2> QED
    BY <1>2, <2>1, FreeLowest DEF DestroyPendingInstances
<1>3. ASSUME NEW id \in Id, ResetDue(id) PROVE NextIsLowestFree'
  BY <1>3, FreeLowest DEF ResetDue, ReleasedAtReset
<1>4. CASE Restart
  BY <1>4 DEF Restart, NextIsLowestFree
<1>5. CASE UNCHANGED <<free, nextId>>
  BY <1>5 DEF NextIsLowestFree
<1>6. ASSUME NEW p \in Player,
             \/ EnterSaved(p) \/ LoginInside(p) \/ LoginOutside(p) \/ LogoutInside(p)
             \/ LogoutOutside(p) \/ Leave(p) \/ Arrive(p) \/ ResetInstances(p)
      PROVE  UNCHANGED <<free, nextId>>
  BY <1>6 DEF EnterSaved, LoginInside, LoginOutside, LogoutInside, LogoutOutside, Leave,
     Arrive, ResetInstances, ids
<1>7. ASSUME \/ \E g \in Group : ResetGroupInstances(g)
             \/ \E elapsed \in SUBSET DOMAIN maps : StartMaps(elapsed)
             \/ \E id \in DOMAIN maps : Kill(id)
             \/ EndMaps \/ ProcessPlayerLeft \/ ProcessNormalResetTime
             \/ EndUpdate \/ TimePasses \/ UNCHANGED vars
      PROVE  UNCHANGED <<free, nextId>>
  BY <1>7 DEF ResetGroupInstances, StartMaps, Kill, EndMaps, ProcessPlayerLeft,
     ProcessNormalResetTime, EndUpdate, TimePasses, ids, vars
<1> QED
  BY <1>1, <1>2, <1>3, <1>4, <1>5, <1>6, <1>7 DEF Next

(* However an id was freed, GenerateInstanceId yields the lowest free one.  *)
THEOREM TheLowestFreeIdIsNext == Spec => []NextIsLowestFree
BY InitLowest, NextLowest, MapsOutliveTheirPlayers, PTL DEF Spec

-----------------------------------------------------------------------------
(* The binds and the saves name each other.  Only that a player offline has *)
(* no bind is needed besides: what LoadFromDB adds to the saves is then the *)
(* only one.  For the rows of character_instance, those of the players      *)
(* online are considered: that of a player offline may well be another's.   *)

OnlineBind(p) ==
  /\ where[p] = "offline" => bind[p] = NoId
  /\ GroupOf[p] # None => bind[p] = NoId /\ prow[p] = NoId
  /\ where[p] # "offline" => prow[p] \in {NoId, bind[p]}

SaveInv == TypeOK /\ SavesAgree /\ \A p \in Player : OnlineBind(p)

(* A player or a group is bound where it is not bound elsewhere.            *)
LEMMA BindAgrees ==
  ASSUME NEW B \in [Player -> NoneOr], NEW GB \in [Group -> NoneOr], NEW S, Over(S, Id, Save),
         Agree(B, GB, S), NEW id \in Id, NEW save \in Save,
         id \in DOMAIN S => save.players = S[id].players /\ save.groups = S[id].groups,
         id \notin DOMAIN S => save.players = {} /\ save.groups = {}
  PROVE  /\ \A p \in Player : B[p] \in {NoId, id} =>
              Agree([B EXCEPT ![p] = id], GB,
                    With(S, id, [save EXCEPT !.players = @ \cup {p}]))
         /\ \A g \in Group : GB[g] \in {NoId, id} =>
              Agree(B, [GB EXCEPT ![g] = id],
                    With(S, id, [save EXCEPT !.groups = @ \cup {g}]))
<1>0. NoId \notin Id
  BY Numbers
<1>1. ASSUME NEW p \in Player, B[p] \in {NoId, id}
      PROVE  Agree([B EXCEPT ![p] = id], GB, With(S, id, [save EXCEPT !.players = @ \cup {p}]))
  <2> DEFINE bound == [save EXCEPT !.players = @ \cup {p}]
             T == With(S, id, bound)
  <2>1. bound.players = save.players \cup {p} /\ bound.groups = save.groups
    BY DEF Save
  <2>2. DOMAIN T = DOMAIN S \cup {id} /\ T[id] = bound
        /\ \A i \in DOMAIN S : i # id => T[i] = S[i]
    BY DEF With
  <2> HIDE DEF bound, T
  <2>3. ASSUME NEW q \in Player, NEW i \in Id
        PROVE  [B EXCEPT ![p] = id][q] = i <=> i \in DOMAIN T /\ q \in T[i].players
    <3>1. B[q] = i <=> i \in DOMAIN S /\ q \in S[i].players
      BY DEF Agree
    <3>2. CASE i = id
      BY <2>1, <2>2, <3>1, <3>2
    <3>3. CASE i # id
      BY <1>0, <1>1, <2>2, <3>1, <3>3
    <3> QED
      BY <3>2, <3>3
  <2>4. ASSUME NEW g \in Group, NEW i \in Id
        PROVE  GB[g] = i <=> i \in DOMAIN T /\ g \in T[i].groups
    <3>1. GB[g] = i <=> i \in DOMAIN S /\ g \in S[i].groups
      BY DEF Agree
    <3> QED
      BY <2>1, <2>2, <3>1
  <2> QED
    BY <2>3, <2>4 DEF Agree, T, bound
<1>2. ASSUME NEW g \in Group, GB[g] \in {NoId, id}
      PROVE  Agree(B, [GB EXCEPT ![g] = id], With(S, id, [save EXCEPT !.groups = @ \cup {g}]))
  <2> DEFINE bound == [save EXCEPT !.groups = @ \cup {g}]
             T == With(S, id, bound)
  <2>1. bound.groups = save.groups \cup {g} /\ bound.players = save.players
    BY DEF Save
  <2>2. DOMAIN T = DOMAIN S \cup {id} /\ T[id] = bound
        /\ \A i \in DOMAIN S : i # id => T[i] = S[i]
    BY DEF With
  <2> HIDE DEF bound, T
  <2>3. ASSUME NEW h \in Group, NEW i \in Id
        PROVE  [GB EXCEPT ![g] = id][h] = i <=> i \in DOMAIN T /\ h \in T[i].groups
    <3>1. GB[h] = i <=> i \in DOMAIN S /\ h \in S[i].groups
      BY DEF Agree
    <3>2. CASE i = id
      BY <2>1, <2>2, <3>1, <3>2
    <3>3. CASE i # id
      BY <1>0, <1>2, <2>2, <3>1, <3>3
    <3> QED
      BY <3>2, <3>3
  <2>4. ASSUME NEW q \in Player, NEW i \in Id
        PROVE  B[q] = i <=> i \in DOMAIN T /\ q \in T[i].players
    <3>1. B[q] = i <=> i \in DOMAIN S /\ q \in S[i].players
      BY DEF Agree
    <3> QED
      BY <2>1, <2>2, <3>1
  <2> QED
    BY <2>3, <2>4 DEF Agree, T, bound
<1> QED
  BY <1>1, <1>2

(* A player or a group is unbound, and a save nobody is bound to is dropped.*)
LEMMA UnbindAgrees ==
  ASSUME NEW B \in [Player -> NoneOr], NEW GB \in [Group -> NoneOr], NEW S, Over(S, Id, Save),
         Agree(B, GB, S), NEW p \in Player
  PROVE  Agree([B EXCEPT ![p] = NoId], GB, Unbound(S, p, B[p]))
<1>0. NoId \notin Id
  BY Numbers
<1> DEFINE T == Unbound(S, p, B[p])
<1>1. /\ DOMAIN T = DOMAIN S
      /\ \A i \in DOMAIN S :
           /\ T[i].groups = S[i].groups
           /\ T[i].players = IF i = B[p] THEN S[i].players \ {p} ELSE S[i].players
  BY DEF Unbound, Over, Save
<1> HIDE DEF T
<1>2. ASSUME NEW q \in Player, NEW i \in Id
      PROVE  [B EXCEPT ![p] = NoId][q] = i <=> i \in DOMAIN T /\ q \in T[i].players
  <2>1. /\ B[q] = i <=> i \in DOMAIN S /\ q \in S[i].players
        /\ B[p] = i <=> i \in DOMAIN S /\ p \in S[i].players
    BY DEF Agree
  <2> QED
    BY <1>0, <1>1, <2>1
<1>3. ASSUME NEW g \in Group, NEW i \in Id
      PROVE  GB[g] = i <=> i \in DOMAIN T /\ g \in T[i].groups
  BY <1>1 DEF Agree
<1> QED
  BY <1>2, <1>3 DEF Agree, T

LEMMA UnbindGroupAgrees ==
  ASSUME NEW B \in [Player -> NoneOr], NEW GB \in [Group -> NoneOr], NEW S, Over(S, Id, Save),
         Agree(B, GB, S), NEW g \in Group
  PROVE  Agree(B, [GB EXCEPT ![g] = NoId], [S EXCEPT ![GB[g]].groups = @ \ {g}])
<1>0. NoId \notin Id
  BY Numbers
<1> DEFINE T == [S EXCEPT ![GB[g]].groups = @ \ {g}]
<1>1. /\ DOMAIN T = DOMAIN S
      /\ \A i \in DOMAIN S :
           /\ T[i].players = S[i].players
           /\ T[i].groups = IF i = GB[g] THEN S[i].groups \ {g} ELSE S[i].groups
  BY DEF Over, Save
<1> HIDE DEF T
<1>2. ASSUME NEW h \in Group, NEW i \in Id
      PROVE  [GB EXCEPT ![g] = NoId][h] = i <=> i \in DOMAIN T /\ h \in T[i].groups
  <2>1. /\ GB[h] = i <=> i \in DOMAIN S /\ h \in S[i].groups
        /\ GB[g] = i <=> i \in DOMAIN S /\ g \in S[i].groups
    BY DEF Agree
  <2> QED
    BY <1>0, <1>1, <2>1
<1>3. ASSUME NEW q \in Player, NEW i \in Id
      PROVE  B[q] = i <=> i \in DOMAIN T /\ q \in T[i].players
  BY <1>1 DEF Agree
<1> QED
  BY <1>2, <1>3 DEF Agree, T

LEMMA DropAgrees ==
  ASSUME NEW B, NEW GB, NEW S, Agree(B, GB, S), NEW id, NEW linked,
         NEW T, T = IF IsUnloaded(S, id, linked) THEN Without(S, id) ELSE S
  PROVE  Agree(B, GB, T)
<1>1. CASE IsUnloaded(S, id, linked)
  <2>1. S[id].players = {} /\ S[id].groups = {}
    BY <1>1 DEF IsUnloaded
  <2>2. DOMAIN T = DOMAIN S \ {id} /\ \A i \in DOMAIN S \ {id} : T[i] = S[i]
    BY <1>1, WithoutProperties
  <2> QED
    BY <2>1, <2>2 DEF Agree
<1> QED
  BY <1>1

(* The steps keep SaveInv.                                                  *)
LEMMA AddPlayerAgrees ==
  ASSUME SaveInv, NEW p \in Player, NEW id \in Id, NEW S, Over(S, Id, Save),
         NEW B \in [Player -> NoneOr], AddPlayerToMap(p, id, S, maps, B),
         Agree(B, gbind, S),
         \A q \in Player : q # p => B[q] = bind[q],
         GroupOf[p] = None => B[p] \in {NoId, id},
         GroupOf[p] # None => B[p] = NoId /\ gbind[GroupOf[p]] \in {NoId, id}
  PROVE  SavesAgree' /\ \A q \in Player : OnlineBind(q)'
<1> DEFINE grp == GroupOf[p]
           save == IF id \in DOMAIN S THEN S[id] ELSE NewSave(ResetDelay)
<1>t. Types /\ \A q \in Player : OnlineBind(q)
  BY TypeParts DEF SaveInv
<1>1. /\ save \in Save
      /\ id \in DOMAIN S => save.players = S[id].players /\ save.groups = S[id].groups
      /\ id \notin DOMAIN S => save.players = {} /\ save.groups = {}
  BY Numbers DEF Over, NewSave, Save
<1>2. /\ saves' = With(S, id, IF grp = None THEN [save EXCEPT !.players = @ \cup {p}]
                              ELSE [save EXCEPT !.groups = @ \cup {grp}])
      /\ bind' = IF grp = None THEN [B EXCEPT ![p] = id] ELSE B
      /\ prow' = IF grp = None THEN [prow EXCEPT ![p] = id] ELSE prow
      /\ gbind' = IF grp = None THEN gbind ELSE [gbind EXCEPT ![grp] = id]
      /\ where' = [where EXCEPT ![p] = "inside"]
  BY DEF AddPlayerToMap
<1> HIDE DEF save
<1>3. gbind \in [Group -> NoneOr] /\ (grp # None => grp \in Group)
  BY <1>t, Joined DEF Types
<1>4. CASE grp = None
  <2>1. /\ saves' = With(S, id, [save EXCEPT !.players = @ \cup {p}])
        /\ bind' = [B EXCEPT ![p] = id] /\ gbind' = gbind
        /\ prow' = [prow EXCEPT ![p] = id]
    BY <1>2, <1>4
  <2>2. Agree(bind', gbind', saves')
    BY <1>1, <1>3, <1>4, <2>1, BindAgrees
  <2>3. ASSUME NEW q \in Player PROVE OnlineBind(q)'
    BY <1>t, <1>2, <1>4, <2>1 DEF OnlineBind, Types
  <2> QED
    BY <2>2, <2>3 DEF SavesAgree
<1>5. CASE grp # None
  <2>1. /\ saves' = With(S, id, [save EXCEPT !.groups = @ \cup {grp}])
        /\ bind' = B /\ gbind' = [gbind EXCEPT ![grp] = id] /\ prow' = prow
    BY <1>2, <1>5
  <2>2. Agree(bind', gbind', saves')
    BY <1>1, <1>3, <1>5, <2>1, BindAgrees
  <2>3. ASSUME NEW q \in Player PROVE OnlineBind(q)'
    BY <1>t, <1>2, <1>5, <2>1 DEF OnlineBind, Types
  <2> QED
    BY <2>2, <2>3 DEF SavesAgree
<1> QED
  BY <1>4, <1>5

(* What a player is saved to, when he comes in.                             *)
LEMMA SavedTo ==
  ASSUME SaveInv, NEW p \in Player
  PROVE  /\ GroupOf[p] = None => SaveOf(p, bind) = bind[p]
         /\ GroupOf[p] # None => /\ SaveOf(p, bind) = gbind[GroupOf[p]]
                                 /\ bind[p] = NoId /\ prow[p] = NoId
         /\ where[p] # "offline" =>
              SaveOf(p, LoadedBind(p)) \in {NoId, SaveOf(p, bind)}
<1>t. Types /\ OnlineBind(p)
  BY TypeParts DEF SaveInv
<1>1. LoadedBind(p)[p] \in {NoId, prow[p]}
  BY <1>t DEF LoadedBind, Types
<1> QED
  BY <1>t, <1>1, Joined DEF SaveOf, OnlineBind

LEMMA EnterAgrees ==
  ASSUME SaveInv, NEW p \in Player, EnterSaved(p) \/ EnterFresh(p)
  PROVE  SaveInv'
<1>t. Types /\ TypeOK' /\ Agree(bind, gbind, saves)
  BY TypeParts, EnterTypes DEF SaveInv, SavesAgree
<1> DEFINE id == IF SaveOf(p, bind) = NoId THEN nextId ELSE SaveOf(p, bind)
<1>1. id \in Id
  BY <1>t, SaveOfType DEF EnterSaved, EnterFresh, GenerateInstanceId, NoneOr, Types
<1>2. AddPlayerToMap(p, id, saves, maps, bind)
  BY DEF EnterSaved, EnterFresh
<1>3. /\ GroupOf[p] = None => bind[p] \in {NoId, id}
      /\ GroupOf[p] # None => bind[p] = NoId /\ gbind[GroupOf[p]] \in {NoId, id}
  BY SavedTo
<1>4. Over(saves, Id, Save) /\ bind \in [Player -> NoneOr]
  BY <1>t DEF Types
<1> HIDE DEF id
<1>5. SavesAgree' /\ \A q \in Player : OnlineBind(q)'
  BY <1>t, <1>1, <1>2, <1>3, <1>4, AddPlayerAgrees
<1> QED
  BY <1>t, <1>5 DEF SaveInv

LEMMA LoadedAgrees ==
  ASSUME SaveInv, NEW p \in Player, where[p] = "offline"
  PROVE  /\ Agree(LoadedBind(p), gbind, LoadedSaves(p))
         /\ LoadedBind(p) \in [Player -> NoneOr] /\ Over(LoadedSaves(p), Id, Save)
         /\ \A q \in Player : q # p => LoadedBind(p)[q] = bind[q]
         /\ LoadedBind(p)[p] = IF prow[p] \in DOMAIN row THEN prow[p] ELSE NoId
         /\ DOMAIN LoadedSaves(p) = DOMAIN saves \cup ({prow[p]} \cap DOMAIN row)
<1>t. Types /\ OnlineBind(p) /\ Agree(bind, gbind, saves)
  BY TypeParts DEF SaveInv, SavesAgree
<1>1. bind[p] = NoId
  BY <1>t DEF OnlineBind
<1>2. /\ LoadedBind(p) \in [Player -> NoneOr] /\ Over(LoadedSaves(p), Id, Save)
      /\ \A q \in Player : q # p => LoadedBind(p)[q] = bind[q]
      /\ LoadedBind(p)[p] = IF prow[p] \in DOMAIN row THEN prow[p] ELSE NoId
  BY <1>t, LoadedTypes DEF LoadedBind, Types
<1>3. CASE prow[p] \in DOMAIN row
  <2> DEFINE id == prow[p]
             save == IF id \in DOMAIN saves THEN saves[id] ELSE NewSave(row[id])
  <2>1. id \in Id /\ row[id] \in Time
    BY <1>t, <1>3 DEF Types, Over
  <2>2. /\ save \in Save
        /\ id \in DOMAIN saves => save.players = saves[id].players /\ save.groups = saves[id].groups
        /\ id \notin DOMAIN saves => save.players = {} /\ save.groups = {}
    BY <1>t, <2>1 DEF Over, NewSave, Save, Types
  <2>3. /\ LoadedSaves(p) = With(saves, id, [save EXCEPT !.players = @ \cup {p}])
        /\ LoadedBind(p) = [bind EXCEPT ![p] = id]
    BY <1>3 DEF LoadedSaves, LoadedBind
  <2> HIDE DEF id, save
  <2>4. /\ bind \in [Player -> NoneOr] /\ gbind \in [Group -> NoneOr]
        /\ Over(saves, Id, Save) /\ bind[p] \in {NoId, id}
    BY <1>t, <1>1 DEF Types
  <2>5. Agree([bind EXCEPT ![p] = id], gbind,
              With(saves, id, [save EXCEPT !.players = @ \cup {p}]))
    BY <1>t, <2>1, <2>2, <2>4, BindAgrees
  <2>6. Agree(LoadedBind(p), gbind, LoadedSaves(p))
    BY <2>3, <2>5
  <2>7. DOMAIN LoadedSaves(p) = DOMAIN saves \cup {id}
    BY <2>3, WithProperties
  <2> QED
    BY <1>2, <1>3, <2>6, <2>7 DEF id
<1>4. CASE prow[p] \notin DOMAIN row
  <2>1. LoadedBind(p) = bind /\ LoadedSaves(p) = saves
    BY <1>t, <1>1, <1>4 DEF LoadedBind, LoadedSaves, Types
  <2> QED
    BY <1>t, <1>2, <1>4, <2>1
<1> QED
  BY <1>3, <1>4

(* A player who logs in enters what he is saved to, if he is.               *)
LEMMA LoginTo ==
  ASSUME SaveInv, NEW p \in Player, LoginInside(p),
         NEW id, id = IF LoginInstanceId(p) # NoId THEN LoginInstanceId(p)
                      ELSE SaveOf(p, LoadedBind(p))
  PROVE  /\ id \in Id /\ SaveOf(p, LoadedBind(p)) \in {NoId, id}
         /\ GroupOf[p] = None => LoadedBind(p)[p] \in {NoId, id}
         /\ GroupOf[p] # None =>
              LoadedBind(p)[p] = NoId /\ gbind[GroupOf[p]] \in {NoId, id}
<1>t. Types /\ OnlineBind(p) /\ TypeOK
  BY TypeParts DEF SaveInv
<1>1. id \in Id
  BY <1>t, LoginInsideTypes
<1>2. SaveOf(p, LoadedBind(p)) \in {NoId, id}
  BY DEF LoginInstanceId
<1>3. GroupOf[p] # None => prow[p] = NoId /\ NoId \notin DOMAIN row
  BY <1>t, Numbers DEF OnlineBind, Types, Over
<1>4. GroupOf[p] # None => LoadedBind(p)[p] = NoId
  BY <1>t, <1>3 DEF LoadedBind, Types
<1> QED
  BY <1>1, <1>2, <1>4 DEF SaveOf

LEMMA LoginInsideAgrees ==
  ASSUME SaveInv, NEW p \in Player, LoginInside(p)
  PROVE  SaveInv'
<1> DEFINE id == IF LoginInstanceId(p) # NoId THEN LoginInstanceId(p)
                 ELSE SaveOf(p, LoadedBind(p))
<1>1. AddPlayerToMap(p, id, LoadedSaves(p), maps, LoadedBind(p)) /\ where[p] = "offline"
  BY DEF LoginInside
<1>2. TypeOK'
  BY LoginInsideTypes DEF SaveInv
<1> HIDE DEF id
<1>3. /\ id \in Id
      /\ GroupOf[p] = None => LoadedBind(p)[p] \in {NoId, id}
      /\ GroupOf[p] # None =>
           LoadedBind(p)[p] = NoId /\ gbind[GroupOf[p]] \in {NoId, id}
  BY LoginTo DEF id
<1>4. SavesAgree' /\ \A q \in Player : OnlineBind(q)'
  BY <1>1, <1>3, LoadedAgrees, AddPlayerAgrees
<1> QED
  BY <1>2, <1>4 DEF SaveInv

LEMMA LoginOutsideAgrees ==
  ASSUME SaveInv, NEW p \in Player, LoginOutside(p)
  PROVE  SaveInv'
<1>t. Types /\ \A q \in Player : OnlineBind(q)
  BY TypeParts DEF SaveInv
<1>1. /\ where[p] = "offline" /\ where' = [where EXCEPT ![p] = "outside"]
      /\ bind' = LoadedBind(p) /\ prow' = [prow EXCEPT ![p] = LoadedBind(p)[p]]
      /\ saves' = LoadedSaves(p) /\ gbind' = gbind
  BY DEF LoginOutside
<1>2. TypeOK' /\ SavesAgree'
  BY <1>1, LoadedAgrees, LoginOutsideTypes DEF SaveInv, SavesAgree
<1>3. NoId \notin DOMAIN row
  BY <1>t, Numbers DEF Types, Over
<1>4. ASSUME NEW q \in Player PROVE OnlineBind(q)'
  BY <1>t, <1>1, <1>3, LoadedAgrees DEF OnlineBind, Types
<1> QED
  BY <1>2, <1>4 DEF SaveInv

LEMMA LogoutAgrees ==
  ASSUME SaveInv, NEW p \in Player, LogoutInside(p) \/ LogoutOutside(p)
  PROVE  SaveInv'
<1> DEFINE S == Unbound(saves, p, bind[p])
<1>t. Types /\ \A q \in Player : OnlineBind(q)
  BY TypeParts DEF SaveInv
<1>1. Agree([bind EXCEPT ![p] = NoId], gbind, S)
  BY <1>t, UnbindAgrees DEF SaveInv, SavesAgree, Types
<1>2. /\ bind' = [bind EXCEPT ![p] = NoId] /\ gbind' = gbind
      /\ where' = [where EXCEPT ![p] = "offline"] /\ prow' = prow
  BY DEF LogoutInside, LogoutOutside
<1>3. PICK id, linked : saves' = IF IsUnloaded(S, id, linked) THEN Without(S, id) ELSE S
  BY DEF LogoutInside, LogoutOutside, PlayerLeft, UnloadInstanceSave
<1> HIDE DEF S
<1>4. SavesAgree'
  BY <1>1, <1>2, <1>3, DropAgrees DEF SavesAgree
<1>5. ASSUME NEW q \in Player PROVE OnlineBind(q)'
  BY <1>t, <1>2 DEF OnlineBind, Types
<1>6. TypeOK'
  BY LogoutInsideTypes, LogoutOutsideTypes DEF SaveInv
<1> QED
  BY <1>4, <1>5, <1>6 DEF SaveInv

(* Steps that bind and unbind nobody.                                       *)
LEMMA BindsStay ==
  ASSUME SaveInv, TypeOK', UNCHANGED <<bind, gbind, prow>>, SavesAgree',
         \A p \in Player : where'[p] = where[p] \/ (where[p] # "offline" /\ where'[p] # "offline")
  PROVE  SaveInv'
BY DEF SaveInv, OnlineBind

LEMMA LeaveAgrees ==
  ASSUME SaveInv, NEW p \in Player, Leave(p) \/ Arrive(p)
  PROVE  SaveInv'
<1>1. TypeOK' /\ Types
  BY LeaveTypes, ArriveTypes, TypeParts DEF SaveInv
<1>2. UNCHANGED <<bind, gbind, prow>>
  BY DEF Leave, Arrive, manager, db
<1>3. SavesAgree'
  <2>1. CASE saves' = saves
    BY <1>2, <2>1 DEF SaveInv, SavesAgree
  <2>2. CASE \E id, linked : PlayerLeft(saves, id, linked)
    BY <1>2, <2>2, DropAgrees DEF SaveInv, SavesAgree, PlayerLeft, UnloadInstanceSave
  <2> QED
    BY <2>1, <2>2 DEF Leave, Arrive, manager
<1>4. \A q \in Player : where'[q] = where[q] \/ (where[q] # "offline" /\ where'[q] # "offline")
  BY <1>1 DEF Leave, Arrive, Types
<1> QED
  BY <1>1, <1>2, <1>3, <1>4, BindsStay

LEMMA ProcessAgrees ==
  ASSUME SaveInv, ProcessPlayerLeft \/ ProcessNormalResetTime
  PROVE  SaveInv'
<1>1. TypeOK' /\ Types
  BY ProcessTypes, TypeParts DEF SaveInv
<1>2. UNCHANGED <<where, bind, gbind, prow>>
  BY DEF ProcessPlayerLeft, ProcessNormalResetTime, players, db
<1>3. SavesAgree'
  <2>1. CASE ProcessPlayerLeft
    BY <1>2, <2>1, DropAgrees
    DEF SaveInv, SavesAgree, ProcessPlayerLeft, PlayerLeft, UnloadInstanceSave
  <2>2. CASE ProcessNormalResetTime
    <3>1. /\ DOMAIN saves' = DOMAIN saves
          /\ \A i \in DOMAIN saves : /\ saves'[i].players = saves[i].players
                                     /\ saves'[i].groups = saves[i].groups
      BY <1>1, <2>2 DEF ProcessNormalResetTime, Types, Over, Save
    <3> QED
      BY <1>2, <3>1 DEF SaveInv, SavesAgree, Agree
  <2> QED
    BY <2>1, <2>2
<1> QED
  BY <1>1, <1>2, <1>3, BindsStay

LEMMA TimePassesAgrees == ASSUME SaveInv, TimePasses PROVE SaveInv'
<1>1. TypeOK' /\ Types
  BY TimePassesTypes, TypeParts DEF SaveInv
<1>2. UNCHANGED <<where, bind, gbind, prow>>
  BY DEF TimePasses, players
<1>3. /\ DOMAIN saves' = DOMAIN saves
      /\ \A i \in DOMAIN saves : /\ saves'[i].players = saves[i].players
                                 /\ saves'[i].groups = saves[i].groups
  BY <1>1 DEF TimePasses, Types, Over, Save
<1>4. SavesAgree'
  BY <1>2, <1>3 DEF SaveInv, SavesAgree, Agree
<1> QED
  BY <1>1, <1>2, <1>4, BindsStay

LEMMA ResetInstancesAgrees ==
  ASSUME SaveInv, NEW p \in Player, ResetInstances(p)
  PROVE  SaveInv'
<1> DEFINE S == Unbound(saves, p, bind[p])
<1>t. Types /\ (\A q \in Player : OnlineBind(q)) /\ TypeOK'
  BY TypeParts, ResetInstancesTypes DEF SaveInv
<1>1. Agree([bind EXCEPT ![p] = NoId], gbind, S)
  BY <1>t, UnbindAgrees DEF SaveInv, SavesAgree, Types
<1>2. /\ bind' = [bind EXCEPT ![p] = NoId] /\ gbind' = gbind /\ where' = where
      /\ prow' = Unsaved(prow, bind[p]) /\ where[p] # "offline"
      /\ saves' = IF IsUnloaded(S, bind[p], Linked(bind[p])) THEN Without(S, bind[p]) ELSE S
  BY DEF ResetInstances, ResetInstance, DeleteInstanceFromDB
<1> HIDE DEF S
<1>3. SavesAgree'
  BY <1>1, <1>2, DropAgrees DEF SavesAgree
<1>4. ASSUME NEW q \in Player PROVE OnlineBind(q)'
  BY <1>t, <1>2 DEF OnlineBind, Types, Unsaved
<1> QED
  BY <1>t, <1>3, <1>4 DEF SaveInv

LEMMA ResetGroupAgrees ==
  ASSUME SaveInv, NEW g \in Group, ResetGroupInstances(g)
  PROVE  SaveInv'
<1> DEFINE S == [saves EXCEPT ![gbind[g]].groups = @ \ {g}]
<1>t. Types /\ (\A q \in Player : OnlineBind(q)) /\ TypeOK'
  BY TypeParts, ResetGroupTypes DEF SaveInv
<1>1. Agree(bind, [gbind EXCEPT ![g] = NoId], S)
  BY <1>t, UnbindGroupAgrees DEF SaveInv, SavesAgree, Types
<1>2. /\ bind' = bind /\ gbind' = [gbind EXCEPT ![g] = NoId] /\ where' = where
      /\ prow' = Unsaved(prow, gbind[g])
      /\ saves' = IF IsUnloaded(S, gbind[g], Linked(gbind[g])) THEN Without(S, gbind[g]) ELSE S
  BY DEF ResetGroupInstances, ResetInstance, DeleteInstanceFromDB
<1> HIDE DEF S
<1>3. SavesAgree'
  BY <1>1, <1>2, DropAgrees DEF SavesAgree
<1>4. ASSUME NEW q \in Player PROVE OnlineBind(q)'
  BY <1>t, <1>2 DEF OnlineBind, Types, Unsaved
<1> QED
  BY <1>t, <1>3, <1>4 DEF SaveInv

LEMMA ResetDueAgrees ==
  ASSUME SaveInv, NEW id \in Id, ResetDue(id)
  PROVE  SaveInv'
<1>t. Types /\ (\A q \in Player : OnlineBind(q)) /\ TypeOK'
  BY TypeParts, ResetDueTypes DEF SaveInv
<1>1. /\ bind' = Unsaved(bind, id) /\ gbind' = Unsaved(gbind, id) /\ where' = where
      /\ prow' = Unsaved(prow, id) /\ saves' = Without(saves, id)
  BY DEF ResetDue, DeleteInstanceFromDB
<1>2. /\ DOMAIN saves' = DOMAIN saves \ {id}
      /\ \A i \in DOMAIN saves \ {id} : saves'[i] = saves[i]
  BY <1>1, WithoutProperties
<1>3. /\ \A q \in Player : bind'[q] = IF bind[q] = id THEN NoId ELSE bind[q]
      /\ \A g \in Group : gbind'[g] = IF gbind[g] = id THEN NoId ELSE gbind[g]
      /\ \A q \in Player : prow'[q] = IF prow[q] = id THEN NoId ELSE prow[q]
  BY <1>t, <1>1 DEF Types, Unsaved
<1>4. SavesAgree'
  BY <1>2, <1>3, Numbers DEF SaveInv, SavesAgree, Agree
<1>5. ASSUME NEW q \in Player PROVE OnlineBind(q)'
  BY <1>t, <1>1, <1>3 DEF OnlineBind
<1> QED
  BY <1>t, <1>4, <1>5 DEF SaveInv

LEMMA RestartAgrees == ASSUME SaveInv, Restart PROVE SaveInv'
<1>t. Types /\ (\A q \in Player : OnlineBind(q)) /\ TypeOK'
  BY TypeParts, RestartTypes DEF SaveInv
<1>k. /\ LoadedRows \subseteq Id
      /\ \A i : Known(i) \in LoadedRows \cup {NoId} /\ (i \in LoadedRows => Known(i) = i)
  BY <1>t DEF LoadedRows, Known, Types, Over
<1>1. /\ where' = [p \in Player |-> "offline"] /\ bind' = [p \in Player |-> NoId]
      /\ gbind' = [g \in Group |-> Known(grow[g])]
      /\ prow' = [p \in Player |-> Known(prow[p])]
      /\ saves' = [id \in {i \in LoadedRows : GroupsOf(i) # {}} |->
                     [NewSave(row[id]) EXCEPT !.groups = GroupsOf(id)]]
  BY DEF Restart
<1>2. /\ DOMAIN saves' = {i \in LoadedRows : GroupsOf(i) # {}}
      /\ \A i \in DOMAIN saves' : saves'[i].players = {} /\ saves'[i].groups = GroupsOf(i)
  BY <1>1 DEF NewSave
<1>3. ASSUME NEW p \in Player, NEW id \in Id
      PROVE  bind'[p] = id <=> id \in DOMAIN saves' /\ p \in saves'[id].players
  BY <1>1, <1>2, Numbers
<1>4. ASSUME NEW g \in Group, NEW id \in Id
      PROVE  gbind'[g] = id <=> id \in DOMAIN saves' /\ g \in saves'[id].groups
  <2>1. gbind'[g] = IF grow[g] \in LoadedRows THEN grow[g] ELSE NoId
    BY <1>1 DEF Known
  <2>2. g \in GroupsOf(id) <=> grow[g] = id
    BY DEF GroupsOf
  <2> QED
    BY <1>2, <2>1, <2>2, Numbers
<1>5. SavesAgree'
  BY <1>3, <1>4 DEF SavesAgree, Agree
<1>6. ASSUME NEW q \in Player PROVE OnlineBind(q)'
  <2>1. NoId \notin LoadedRows
    BY <1>k, Numbers
  <2> QED
    BY <1>t, <1>1, <2>1 DEF OnlineBind, Known
<1> QED
  BY <1>t, <1>5, <1>6 DEF SaveInv

LEMMA InitAgrees == ASSUME Init PROVE SaveInv
<1>1. TypeOK
  BY InitTypes
<1>2. SavesAgree
  <2>1. DOMAIN saves = {} /\ \A p \in Player : bind[p] = NoId
    BY DEF Init
  <2>2. \A g \in Group : gbind[g] = NoId
    BY DEF Init
  <2> QED
    BY <2>1, <2>2, Numbers DEF SavesAgree, Agree
<1>3. \A p \in Player : OnlineBind(p)
  BY DEF Init, OnlineBind
<1> QED
  BY <1>1, <1>2, <1>3 DEF SaveInv

LEMMA NextAgrees == ASSUME SaveInv, [Next]_vars PROVE SaveInv'
<1>1. ASSUME NEW p \in Player,
             \/ EnterSaved(p) \/ EnterFresh(p) \/ LoginInside(p) \/ LoginOutside(p)
             \/ LogoutInside(p) \/ LogoutOutside(p) \/ Leave(p) \/ Arrive(p)
             \/ ResetInstances(p)
      PROVE  SaveInv'
  BY <1>1, EnterAgrees, LoginInsideAgrees, LoginOutsideAgrees, LogoutAgrees, LeaveAgrees,
     ResetInstancesAgrees
<1>2. CASE \/ \E g \in Group : ResetGroupInstances(g)
           \/ ProcessPlayerLeft \/ ProcessNormalResetTime
           \/ \E id \in Id : ResetDue(id)
           \/ TimePasses \/ Restart
  BY <1>2, ResetGroupAgrees, ProcessAgrees, ResetDueAgrees, TimePassesAgrees, RestartAgrees
<1>3. ASSUME \/ \E elapsed \in SUBSET DOMAIN maps : StartMaps(elapsed)
             \/ \E id \in DOMAIN maps : Kill(id)
             \/ DestroyPendingInstances \/ EndMaps \/ EndUpdate \/ UNCHANGED vars
      PROVE  SaveInv'
  <2>1. TypeOK'
    BY NextTypes DEF SaveInv
  <2>2. UNCHANGED <<where, bind, gbind, prow, saves>>
    BY <1>3 DEF StartMaps, Kill, DestroyPendingInstances, EndMaps, EndUpdate, vars, players,
       manager, db
  <2>3. SavesAgree'
    BY <2>2 DEF SaveInv, SavesAgree
  <2> QED
    BY <2>1, <2>2, <2>3, BindsStay
<1> QED
  BY <1>1, <1>2, <1>3 DEF Next

(* Who is bound to a save is in its lists, and who is in its lists is bound *)
(* to it: no save that is deleted leaves a pointer behind.                  *)
THEOREM NoBindDangles == Spec => []SavesAgree
<1>1. SaveInv => SavesAgree
  BY DEF SaveInv
<1> QED
  BY <1>1, InitAgrees, NextAgrees, PTL DEF Spec

(* Nobody comes into another's instance while he has one of his own, whoever*)
(* else comes and goes and however often the server goes down.              *)
THEOREM NobodyEntersAnothers == Spec => EntersOwnInstance
<1>1. ASSUME SaveInv, [Next]_vars, NEW p \in Player, where[p] # "inside", where'[p] = "inside"
      PROVE  SaveOf(p, LoadedBind(p)) \in {NoId, at'[p]}
  <2>t. where \in [Player -> Place] /\ at \in [Player -> NoneOr]
    BY <1>1 DEF SaveInv, TypeOK
  <2>1. ASSUME NEW q \in Player, EnterSaved(q) \/ EnterFresh(q)
        PROVE  SaveOf(p, LoadedBind(p)) \in {NoId, at'[p]}
    <3>1. where' = [where EXCEPT ![q] = "inside"] /\ where[q] = "outside"
          /\ at' = [at EXCEPT ![q] = IF SaveOf(q, bind) = NoId THEN nextId ELSE SaveOf(q, bind)]
      BY <2>1 DEF EnterSaved, EnterFresh, AddPlayerToMap
    <3>2. p = q
      BY <1>1, <2>t, <3>1
    <3> QED
      BY <1>1, <2>t, <3>1, <3>2, SavedTo
  <2>2. ASSUME NEW q \in Player, LoginInside(q)
        PROVE  SaveOf(p, LoadedBind(p)) \in {NoId, at'[p]}
    <3> DEFINE id == IF LoginInstanceId(q) # NoId THEN LoginInstanceId(q)
                     ELSE SaveOf(q, LoadedBind(q))
    <3>1. where' = [where EXCEPT ![q] = "inside"] /\ at' = [at EXCEPT ![q] = id]
      BY <2>2 DEF LoginInside, AddPlayerToMap
    <3>2. p = q
      BY <1>1, <2>t, <3>1
    <3>3. SaveOf(q, LoadedBind(q)) \in {NoId, id}
      BY <1>1, <2>2, LoginTo
    <3> HIDE DEF id
    <3> QED
      BY <2>t, <3>1, <3>2, <3>3
  <2>3. ASSUME NEW q \in Player,
               \/ LoginOutside(q) \/ LogoutInside(q) \/ LogoutOutside(q) \/ Leave(q)
               \/ Arrive(q) \/ ResetInstances(q)
        PROVE  FALSE
    BY <1>1, <2>t, <2>3 DEF LoginOutside, LogoutInside, LogoutOutside, Leave, Arrive,
       ResetInstances
  <2>4. ASSUME \/ \E g \in Group : ResetGroupInstances(g)
               \/ \E elapsed \in SUBSET DOMAIN maps : StartMaps(elapsed)
               \/ \E id \in DOMAIN maps : Kill(id)
               \/ EndMaps \/ ProcessPlayerLeft \/ ProcessNormalResetTime
               \/ DestroyPendingInstances
               \/ \E id \in Id : ResetDue(id)
               \/ EndUpdate \/ TimePasses \/ UNCHANGED vars
        PROVE  FALSE
    <3>1. where' = where
      BY <2>4 DEF ResetGroupInstances, StartMaps, Kill, EndMaps, ProcessPlayerLeft,
         ProcessNormalResetTime, DestroyPendingInstances, ResetDue, EndUpdate, TimePasses,
         players, vars
    <3> QED
      BY <1>1, <3>1
  <2>5. ~ Restart
    BY <1>1 DEF Restart
  <2> QED
    BY <1>1, <2>1, <2>2, <2>3, <2>4, <2>5 DEF Next
<1>2. ASSUME SaveInv, [Next]_vars
      PROVE  [\A p \in Player :
                where[p] # "inside" /\ where'[p] = "inside"
                  => SaveOf(p, LoadedBind(p)) \in {NoId, at'[p]}]_vars
  BY <1>1, <1>2
<1> QED
  BY <1>2, InitAgrees, NextAgrees, PTL DEF Spec, EntersOwnInstance

-----------------------------------------------------------------------------
(* The rows of the database.  ResetInstances deletes the rows of an instance*)
(* whoever else is saved to it, so the binds agree with the rows only as    *)
(* long as no two players or groups are saved to the same instance.         *)

Sole ==
  /\ \A p, q \in Player : bind[p] = bind[q] /\ bind[p] # NoId => p = q
  /\ \A g, h \in Group : gbind[g] = gbind[h] /\ gbind[g] # NoId => g = h
  /\ \A p \in Player, g \in Group : bind[p] = gbind[g] => bind[p] = NoId

LEMMA AddPlayerRows ==
  ASSUME SaveInv, RowsAgree, NEW p \in Player, NEW id \in Id, NEW S, Over(S, Id, Save),
         NEW B \in [Player -> NoneOr], AddPlayerToMap(p, id, S, maps, B),
         DOMAIN S \subseteq DOMAIN row, \A q \in Player : B[q] # NoId => prow[q] = B[q]
  PROVE  RowsAgree'
<1> DEFINE grp == GroupOf[p]
<1>t. Types /\ (grp # None => grp \in Group)
  BY TypeParts, Joined DEF SaveInv
<1>1. /\ bind' = IF grp = None THEN [B EXCEPT ![p] = id] ELSE B
      /\ prow' = IF grp = None THEN [prow EXCEPT ![p] = id] ELSE prow
      /\ gbind' = IF grp = None THEN gbind ELSE [gbind EXCEPT ![grp] = id]
      /\ grow' = IF grp = None THEN grow ELSE [grow EXCEPT ![grp] = id]
      /\ row' = IF id \in DOMAIN S THEN row ELSE With(row, id, ResetDelay)
  BY DEF AddPlayerToMap
<1>2. DOMAIN saves' = DOMAIN S \cup {id}
  BY WithProperties DEF AddPlayerToMap
<1>3. DOMAIN saves' \subseteq DOMAIN row'
  <2>1. DOMAIN With(row, id, ResetDelay) = DOMAIN row \cup {id}
    BY WithProperties
  <2> QED
    BY <1>1, <1>2, <2>1
<1>4. ASSUME NEW q \in Player, bind'[q] # NoId PROVE prow'[q] = bind'[q]
  BY <1>t, <1>1, <1>4 DEF Types
<1>5. ASSUME NEW g \in Group, gbind'[g] # NoId PROVE grow'[g] = gbind'[g]
  BY <1>t, <1>1, <1>5 DEF Types, RowsAgree
<1> QED
  BY <1>3, <1>4, <1>5 DEF RowsAgree

(* The save of an instance that is reset is dropped with its rows.          *)
LEMMA ResetRows ==
  ASSUME SaveInv, RowsAgree, NEW id \in Id, IsEmpty(id), NEW S, Over(S, Id, Save),
         ResetInstance(id, S), DOMAIN S = DOMAIN saves,
         id \in DOMAIN S => S[id].players = {} /\ S[id].groups = {},
         \A q \in Player : bind'[q] # NoId => bind'[q] = bind[q] /\ bind[q] # id,
         \A g \in Group : gbind'[g] # NoId => gbind'[g] = gbind[g] /\ gbind[g] # id
  PROVE  RowsAgree'
<1>t. TypeOK /\ Types
  BY TypeParts DEF SaveInv
<1>1. Linked(id) = {}
  BY <1>t, TypeParts DEF IsEmpty, Linked, HasItsMap
<1>2. /\ saves' = IF IsUnloaded(S, id, Linked(id)) THEN Without(S, id) ELSE S
      /\ row' = Without(row, id) /\ prow' = Unsaved(prow, id) /\ grow' = Unsaved(grow, id)
  BY DEF ResetInstance, DeleteInstanceFromDB
<1>3. DOMAIN saves' = DOMAIN saves \ {id}
  <2>1. CASE id \in DOMAIN S
    <3>1. saves' = Without(S, id)
      BY <1>1, <1>2, <2>1 DEF IsUnloaded
    <3>2. DOMAIN Without(S, id) = DOMAIN S \ {id}
      BY DEF Without, Restrict
    <3> QED
      BY <3>1, <3>2
  <2>2. CASE id \notin DOMAIN S
    <3>1. saves' = S
      BY <1>2, <2>2 DEF IsUnloaded
    <3> QED
      BY <2>2, <3>1
  <2> QED
    BY <2>1, <2>2
<1>4. DOMAIN row' = DOMAIN row \ {id}
  BY <1>2, WithoutProperties
<1>5. ASSUME NEW q \in Player, bind'[q] # NoId PROVE prow'[q] = bind'[q]
  BY <1>t, <1>2, <1>5 DEF Types, RowsAgree, Unsaved
<1>6. ASSUME NEW g \in Group, gbind'[g] # NoId PROVE grow'[g] = gbind'[g]
  BY <1>t, <1>2, <1>6 DEF Types, RowsAgree, Unsaved
<1> QED
  BY <1>3, <1>4, <1>5, <1>6 DEF RowsAgree

LEMMA ResetInstancesRows ==
  ASSUME SaveInv, Sole, RowsAgree, NEW p \in Player, ResetInstances(p)
  PROVE  RowsAgree'
<1> DEFINE id == bind[p]
           S == Unbound(saves, p, id)
<1>t. Types
  BY TypeParts DEF SaveInv
<1>1. id \in Id /\ IsEmpty(id)
  BY <1>t DEF ResetInstances, Types, NoneOr
<1>2. Over(S, Id, Save) /\ DOMAIN S = DOMAIN saves
  BY <1>t, UnboundTypes DEF Types
<1>3. /\ ResetInstance(id, S) /\ bind' = [bind EXCEPT ![p] = NoId] /\ gbind' = gbind
  BY DEF ResetInstances
<1>4. id \in DOMAIN S => S[id].players = {} /\ S[id].groups = {}
  <2>1. id \in DOMAIN saves =>
          S[id].players = saves[id].players \ {p} /\ S[id].groups = saves[id].groups
    BY <1>t DEF Unbound, Types, Over, Save
  <2>2. id \in DOMAIN saves => saves[id].players \subseteq Player /\ saves[id].groups \subseteq Group
    BY <1>t DEF Types, Over, Save
  <2>b. /\ \A q \in Player : bind[q] = id <=> id \in DOMAIN saves /\ q \in saves[id].players
        /\ \A g \in Group : gbind[g] = id <=> id \in DOMAIN saves /\ g \in saves[id].groups
        /\ id # NoId
    BY <1>1, Numbers DEF SaveInv, SavesAgree, Agree
  <2>3. \A q \in Player : id \in DOMAIN saves /\ q \in saves[id].players => q = p
    BY <2>b DEF Sole
  <2>4. \A g \in Group : ~ (id \in DOMAIN saves /\ g \in saves[id].groups)
    BY <2>b DEF Sole
  <2> QED
    BY <1>2, <2>1, <2>2, <2>3, <2>4
<1>5. \A q \in Player : bind'[q] # NoId => bind'[q] = bind[q] /\ bind[q] # id
  BY <1>t, <1>1, <1>3 DEF Sole, Types
<1>6. \A g \in Group : gbind'[g] # NoId => gbind'[g] = gbind[g] /\ gbind[g] # id
  BY <1>1, <1>3, Numbers DEF Sole
<1> HIDE DEF id, S
<1> QED
  BY <1>1, <1>2, <1>3, <1>4, <1>5, <1>6, ResetRows

LEMMA ResetGroupRows ==
  ASSUME SaveInv, Sole, RowsAgree, NEW g \in Group, ResetGroupInstances(g)
  PROVE  RowsAgree'
<1> DEFINE id == gbind[g]
           S == [saves EXCEPT ![id].groups = @ \ {g}]
<1>t. Types
  BY TypeParts DEF SaveInv
<1>1. id \in Id /\ IsEmpty(id)
  BY <1>t DEF ResetGroupInstances, Types, NoneOr
<1>2. Over(S, Id, Save) /\ DOMAIN S = DOMAIN saves
  BY <1>t DEF Types, Over, Save
<1>3. /\ ResetInstance(id, S) /\ gbind' = [gbind EXCEPT ![g] = NoId] /\ bind' = bind
  BY DEF ResetGroupInstances
<1>4. id \in DOMAIN S => S[id].players = {} /\ S[id].groups = {}
  <2>1. id \in DOMAIN saves =>
          S[id].groups = saves[id].groups \ {g} /\ S[id].players = saves[id].players
    BY <1>t DEF Types, Over, Save
  <2>2. id \in DOMAIN saves => saves[id].players \subseteq Player /\ saves[id].groups \subseteq Group
    BY <1>t DEF Types, Over, Save
  <2>b. /\ \A q \in Player : bind[q] = id <=> id \in DOMAIN saves /\ q \in saves[id].players
        /\ \A h \in Group : gbind[h] = id <=> id \in DOMAIN saves /\ h \in saves[id].groups
        /\ id # NoId
    BY <1>1, Numbers DEF SaveInv, SavesAgree, Agree
  <2>3. \A h \in Group : id \in DOMAIN saves /\ h \in saves[id].groups => h = g
    BY <2>b DEF Sole
  <2>4. \A q \in Player : ~ (id \in DOMAIN saves /\ q \in saves[id].players)
    BY <2>b DEF Sole
  <2> QED
    BY <1>2, <2>1, <2>2, <2>3, <2>4
<1>5. \A h \in Group : gbind'[h] # NoId => gbind'[h] = gbind[h] /\ gbind[h] # id
  BY <1>t, <1>1, <1>3 DEF Sole, Types
<1>6. \A q \in Player : bind'[q] # NoId => bind'[q] = bind[q] /\ bind[q] # id
  BY <1>1, <1>3, Numbers DEF Sole
<1> HIDE DEF id, S
<1> QED
  BY <1>1, <1>2, <1>3, <1>4, <1>5, <1>6, ResetRows

LEMMA RestartRows == ASSUME SaveInv, Restart PROVE RowsAgree'
<1>t. Types /\ LoadedRows \subseteq DOMAIN row
  BY TypeParts DEF SaveInv, LoadedRows
<1>1. /\ bind' = [p \in Player |-> NoId]
      /\ gbind' = [g \in Group |-> Known(grow[g])]
      /\ grow' = [g \in Group |-> Known(grow[g])]
      /\ row' = Restrict(row, LoadedRows)
      /\ DOMAIN saves' = {i \in LoadedRows : GroupsOf(i) # {}}
  BY DEF Restart
<1>2. DOMAIN row' = LoadedRows
  BY <1>t, <1>1 DEF Restrict
<1> QED
  BY <1>1, <1>2 DEF RowsAgree

(* What neither binds nor deletes keeps the rows.                           *)
LEMMA RowsStay ==
  ASSUME RowsAgree, UNCHANGED <<bind, gbind, prow, grow>>,
         DOMAIN saves' \subseteq DOMAIN saves, DOMAIN row \subseteq DOMAIN row'
  PROVE  RowsAgree'
BY DEF RowsAgree

LEMMA UnloadDomains ==
  ASSUME NEW S, NEW id, NEW linked, UnloadInstanceSave(S, id, linked)
  PROVE  DOMAIN saves' \subseteq DOMAIN S /\ DOMAIN row' = DOMAIN row
<1>1. DOMAIN Without(S, id) = DOMAIN S \ {id}
  BY DEF Without, Restrict
<1> QED
  BY <1>1 DEF UnloadInstanceSave

LEMMA NextRows ==
  ASSUME SaveInv, Sole, RowsAgree, [Next]_vars
  PROVE  RowsAgree'
<1>t. TypeOK /\ Types
  BY TypeParts DEF SaveInv
<1>1. ASSUME NEW p \in Player, EnterSaved(p) \/ EnterFresh(p) PROVE RowsAgree'
  <2> DEFINE id == IF SaveOf(p, bind) = NoId THEN nextId ELSE SaveOf(p, bind)
  <2>1. id \in Id
    BY <1>t, <1>1, SaveOfType DEF EnterSaved, EnterFresh, GenerateInstanceId, NoneOr, Types
  <2>2. AddPlayerToMap(p, id, saves, maps, bind)
    BY <1>1 DEF EnterSaved, EnterFresh
  <2>3. Over(saves, Id, Save) /\ bind \in [Player -> NoneOr]
    BY <1>t DEF Types
  <2>4. DOMAIN saves \subseteq DOMAIN row /\ \A q \in Player : bind[q] # NoId => prow[q] = bind[q]
    BY DEF RowsAgree
  <2> HIDE DEF id
  <2> QED
    BY <2>1, <2>2, <2>3, <2>4, AddPlayerRows
<1>2. ASSUME NEW p \in Player, LoginInside(p) PROVE RowsAgree'
  <2> DEFINE id == IF LoginInstanceId(p) # NoId THEN LoginInstanceId(p)
                   ELSE SaveOf(p, LoadedBind(p))
  <2>1. AddPlayerToMap(p, id, LoadedSaves(p), maps, LoadedBind(p)) /\ where[p] = "offline"
    BY <1>2 DEF LoginInside
  <2>2. id \in Id
    BY <1>2, LoginTo
  <2>3. DOMAIN LoadedSaves(p) \subseteq DOMAIN row
    BY <2>1, LoadedAgrees DEF RowsAgree
  <2>4. \A q \in Player : LoadedBind(p)[q] # NoId => prow[q] = LoadedBind(p)[q]
    BY <2>1, LoadedAgrees DEF RowsAgree
  <2> HIDE DEF id
  <2> QED
    BY <2>1, <2>2, <2>3, <2>4, LoadedAgrees, AddPlayerRows
<1>3. ASSUME NEW p \in Player, LoginOutside(p) PROVE RowsAgree'
  <2>1. /\ where[p] = "offline" /\ bind' = LoadedBind(p) /\ saves' = LoadedSaves(p)
        /\ prow' = [prow EXCEPT ![p] = LoadedBind(p)[p]]
        /\ UNCHANGED <<gbind, row, grow>>
    BY <1>3 DEF LoginOutside
  <2>2. ASSUME NEW q \in Player, bind'[q] # NoId PROVE prow'[q] = bind'[q]
    BY <1>t, <2>1, <2>2, LoadedAgrees DEF RowsAgree, Types
  <2>3. DOMAIN LoadedSaves(p) = DOMAIN saves \cup ({prow[p]} \cap DOMAIN row)
    BY <2>1, LoadedAgrees
  <2>4. DOMAIN saves' \subseteq DOMAIN row'
    BY <2>1, <2>3 DEF RowsAgree
  <2> QED
    BY <2>1, <2>2, <2>4 DEF RowsAgree
<1>4. ASSUME NEW p \in Player, LogoutInside(p) \/ LogoutOutside(p) PROVE RowsAgree'
  <2>1. /\ bind' = [bind EXCEPT ![p] = NoId] /\ UNCHANGED <<gbind, prow, grow>>
    BY <1>4 DEF LogoutInside, LogoutOutside
  <2>2. PICK id, linked : UnloadInstanceSave(Unbound(saves, p, bind[p]), id, linked)
    BY <1>4 DEF LogoutInside, LogoutOutside, PlayerLeft
  <2>3. DOMAIN saves' \subseteq DOMAIN saves /\ DOMAIN row' = DOMAIN row
    BY <1>t, <2>2, UnloadDomains, UnboundTypes DEF Types
  <2> QED
    BY <1>t, <2>1, <2>3 DEF RowsAgree, Types
<1>5. ASSUME NEW id \in Id, ResetDue(id) PROVE RowsAgree'
  <2>1. /\ bind' = Unsaved(bind, id) /\ gbind' = Unsaved(gbind, id)
        /\ prow' = Unsaved(prow, id) /\ grow' = Unsaved(grow, id)
        /\ saves' = Without(saves, id) /\ row' = Without(row, id)
    BY <1>5 DEF ResetDue, DeleteInstanceFromDB
  <2>2. DOMAIN saves' = DOMAIN saves \ {id} /\ DOMAIN row' = DOMAIN row \ {id}
    BY <2>1 DEF Without, Restrict
  <2>3. \A q \in Player : /\ bind'[q] = IF bind[q] = id THEN NoId ELSE bind[q]
                          /\ prow'[q] = IF prow[q] = id THEN NoId ELSE prow[q]
    BY <1>t, <2>1 DEF Unsaved, Types
  <2>4. \A g \in Group : /\ gbind'[g] = IF gbind[g] = id THEN NoId ELSE gbind[g]
                         /\ grow'[g] = IF grow[g] = id THEN NoId ELSE grow[g]
    BY <1>t, <2>1 DEF Unsaved, Types
  <2> QED
    BY <2>2, <2>3, <2>4 DEF RowsAgree
<1>6. ASSUME NEW p \in Player, Leave(p) \/ Arrive(p) PROVE RowsAgree'
  <2>1. UNCHANGED <<bind, gbind, prow, grow>>
    BY <1>6 DEF Leave, Arrive, manager, db
  <2>2. \/ UNCHANGED <<saves, row>>
        \/ \E id, linked : UnloadInstanceSave(saves, id, linked)
    BY <1>6 DEF Leave, Arrive, manager, db, PlayerLeft
  <2>3. DOMAIN saves' \subseteq DOMAIN saves /\ DOMAIN row \subseteq DOMAIN row'
    BY <2>2, UnloadDomains
  <2> QED
    BY <2>1, <2>3, RowsStay
<1>7. CASE ProcessPlayerLeft \/ ProcessNormalResetTime \/ TimePasses
  <2>1. UNCHANGED <<bind, gbind, prow, grow>>
    BY <1>7 DEF ProcessPlayerLeft, ProcessNormalResetTime, TimePasses, players, db
  <2>2. \/ \E id, linked : UnloadInstanceSave(saves, id, linked)
        \/ DOMAIN saves' = DOMAIN saves /\ DOMAIN row' = DOMAIN row
    BY <1>7 DEF ProcessPlayerLeft, ProcessNormalResetTime, TimePasses, db, PlayerLeft
  <2> QED
    BY <2>1, <2>2, UnloadDomains, RowsStay
<1>8. ASSUME \/ \E elapsed \in SUBSET DOMAIN maps : StartMaps(elapsed)
             \/ \E id \in DOMAIN maps : Kill(id)
             \/ DestroyPendingInstances \/ EndMaps \/ EndUpdate \/ UNCHANGED vars
      PROVE  RowsAgree'
  <2>1. UNCHANGED <<bind, gbind, prow, grow, saves, row>>
    BY <1>8 DEF StartMaps, Kill, DestroyPendingInstances, EndMaps, EndUpdate, vars, players,
       manager, db
  <2> QED
    BY <2>1, RowsStay
<1> QED
  BY <1>1, <1>2, <1>3, <1>4, <1>5, <1>6, <1>7, <1>8, ResetInstancesRows, ResetGroupRows,
     RestartRows DEF Next

LEMMA InitRows == ASSUME Init PROVE RowsAgree
BY DEF Init, RowsAgree

(* One party, or one player by himself.                                     *)
OneOwner ==
  \/ (\A p \in Player : GroupOf[p] # None) /\ \A g, h \in Group : g = h
  \/ Group = {} /\ \A p, q \in Player : p = q

LEMMA OneIsSole == ASSUME OneOwner, SaveInv PROVE Sole
BY DEF OneOwner, SaveInv, OnlineBind, Sole

(* The binds of one party or of one player agree with the saves and with the*)
(* rows of the database, through any logouts, logins and crashes.           *)
THEOREM OneOwnersBindsAgree == ASSUME OneOwner PROVE Spec => []BindsAgree
<1>1. ASSUME SaveInv, RowsAgree, [Next]_vars PROVE SaveInv' /\ RowsAgree'
  BY <1>1, NextAgrees, NextRows, OneIsSole
<1>2. SaveInv /\ RowsAgree => BindsAgree
  BY DEF SaveInv, BindsAgree
<1> QED
  BY <1>1, <1>2, InitAgrees, InitRows, PTL DEF Spec

-----------------------------------------------------------------------------
(* While nobody logs out and the server stays up, each id is free, or has   *)
(* one reset to come, or its map will free it.                              *)

NobodyQuits == Quitter = {} /\ Crashes = FALSE

Queued(id) == \E t : <<id, t>> \in queue
Dying(id) == id \in DOMAIN maps /\ maps[id].freeId

FreeOrUsed(id) ==
  /\ id \in free => /\ ~ Queued(id)
                    /\ id \notin DOMAIN saves \cup DOMAIN maps \cup DOMAIN row \cup respawn
  /\ id \notin free => Queued(id) \/ Dying(id)
  /\ Dying(id) => ~ Queued(id) /\ maps[id].wipe /\ id \notin DOMAIN row

(* The players of an event of the maps' update are still on their way when  *)
(* it is processed.                                                         *)
EventsHavePlayers ==
  /\ phase \in {"sessions", "resets"} => events = <<>>
  /\ \A i \in DOMAIN events : events[i].type = "PLAYER_LEFT"
       => \E p \in Player : where[p] = "leaving" /\ at[p] = events[i].id

StayInv ==
  /\ SaveInv /\ NextIsLowestFree /\ RowsAgree /\ Sole
  /\ \A p \in Player : where[p] # "offline"
  /\ \A id \in Id : FreeOrUsed(id)
  /\ \A e, f \in queue : e[1] = f[1] => e = f
  /\ pending \subseteq DOMAIN maps
  /\ EventsHavePlayers

(* What a step leaves of an id it does not bring into use, free or reset.   *)
SameUse(id) ==
  /\ id \in free' <=> id \in free
  /\ Queued(id)' <=> Queued(id)
  /\ id \in DOMAIN maps' <=> id \in DOMAIN maps
  /\ id \in DOMAIN maps => /\ maps'[id].freeId = maps[id].freeId
                           /\ maps[id].wipe => maps'[id].wipe
  /\ id \in DOMAIN saves' => id \in DOMAIN saves
  /\ id \in DOMAIN row' => id \in DOMAIN row
  /\ id \in respawn' => id \in respawn \cup DOMAIN maps

LEMMA SameUseKeeps ==
  ASSUME NEW id \in Id, FreeOrUsed(id), SameUse(id)
  PROVE  FreeOrUsed(id)'
BY DEF FreeOrUsed, SameUse, Dying

(* A player who is on his way out, or only just about to leave, keeps the   *)
(* reset schedule and the save as they are.                                 *)
LEMMA LinkedKeeps ==
  ASSUME NEW S, NEW id, NEW linked, linked # {}, PlayerLeft(S, id, linked)
  PROVE  queue' = queue /\ saves' = S /\ row' = row
BY DEF PlayerLeft, SetResetSchedule, UnloadInstanceSave, IsUnloaded

LEMMA AddPlayerUse ==
  ASSUME TypeOK, NEW p \in Player, NEW id \in Id, NEW S, NEW B,
         AddPlayerToMap(p, id, S, maps, B)
  PROVE  /\ DOMAIN saves' = DOMAIN S \cup {id}
         /\ DOMAIN row' = IF id \in DOMAIN S THEN DOMAIN row ELSE DOMAIN row \cup {id}
         /\ queue' = IF id \in DOMAIN S THEN queue ELSE queue \cup {<<id, ResetDelay>>}
         /\ DOMAIN maps' = DOMAIN maps \cup {id}
         /\ \A i \in DOMAIN maps : i # id => maps'[i] = maps[i]
         /\ maps'[id].freeId <=> Dying(id)
<1> DEFINE C == CreateInstance(maps, id)
<1>t. Types
  BY TypeParts
<1>1. /\ DOMAIN saves' = DOMAIN S \cup {id}
      /\ DOMAIN row' = IF id \in DOMAIN S THEN DOMAIN row ELSE DOMAIN row \cup {id}
  BY WithProperties DEF AddPlayerToMap
<1>2. queue' = IF id \in DOMAIN S THEN queue ELSE queue \cup {<<id, ResetDelay>>}
  <2>1. p \in Linked(id) \cup {p}
    OBVIOUS
  <2> QED
    BY <2>1 DEF AddPlayerToMap, SetResetSchedule, ScheduleReset
<1>3. /\ Over(C, Id, Map) /\ DOMAIN C = DOMAIN maps \cup {id}
      /\ \A i \in DOMAIN maps : C[i] = maps[i]
  BY <1>t, CreateTypes DEF Types
<1>4. C[id].freeId <=> Dying(id)
  <2>1. CASE id \in DOMAIN maps
    BY <1>3, <2>1 DEF Dying
  <2>2. CASE id \notin DOMAIN maps
    <3>1. C[id] = NewMap
      BY <2>2 DEF CreateInstance, With
    <3> QED
      BY <2>2, <3>1 DEF Dying, NewMap
  <2> QED
    BY <2>1, <2>2
<1>5. maps' = [C EXCEPT ![id].unload = "never", ![id].whenEmpty = FALSE, ![id].wipe = FALSE]
  BY DEF AddPlayerToMap
<1> HIDE DEF C
<1>6. /\ DOMAIN maps' = DOMAIN C /\ maps'[id].freeId = C[id].freeId
      /\ \A i \in DOMAIN C : i # id => maps'[i] = C[i]
  <2>1. C[id] \in Map /\ id \in DOMAIN C
    BY <1>3 DEF Over
  <2> QED
    BY <1>3, <1>5, <2>1 DEF Over, Map
<1> QED
  BY <1>1, <1>2, <1>3, <1>4, <1>6

LEMMA EnterUse ==
  ASSUME StayInv, NEW p \in Player, EnterSaved(p) \/ EnterFresh(p)
  PROVE  /\ \A i \in Id : FreeOrUsed(i)'
         /\ \A e, f \in queue' : e[1] = f[1] => e = f
         /\ pending' \subseteq DOMAIN maps' /\ Sole'
<1>t. TypeOK /\ Types /\ SaveInv /\ Agree(bind, gbind, saves) /\ NoId \notin Id
  BY TypeParts, Numbers DEF StayInv, SaveInv, SavesAgree
<1> DEFINE grp == GroupOf[p]
<1>0. PICK id : id = IF SaveOf(p, bind) = NoId THEN nextId ELSE SaveOf(p, bind)
  OBVIOUS
<1>1. id \in Id
  BY <1>0, <1>t, SaveOfType DEF EnterSaved, EnterFresh, GenerateInstanceId, NoneOr, Types
<1>2. AddPlayerToMap(p, id, saves, maps, bind)
  BY <1>0 DEF EnterSaved, EnterFresh
<1>3. \/ id = SaveOf(p, bind) /\ id \in DOMAIN saves /\ free' = free
      \/ id \in free /\ SaveOf(p, bind) = NoId /\ free' = free \ {id}
  <2>1. CASE EnterSaved(p)
    <3>1. id = SaveOf(p, bind) /\ free' = free
      BY <1>0, <2>1 DEF EnterSaved, ids
    <3>2. CASE grp = None
      BY <1>t, <1>1, <3>1, <3>2, SavedTo DEF Agree
    <3>3. CASE grp # None
      BY <1>t, <1>1, <3>1, <3>3, SavedTo, Joined DEF Agree
    <3> QED
      BY <3>1, <3>2, <3>3
  <2>2. CASE EnterFresh(p)
    BY <1>0, <1>t, <2>2, GenerateLowest DEF EnterFresh, GenerateInstanceId, StayInv
  <2> QED
    BY <2>1, <2>2
<1>4. FreeOrUsed(id) /\ (id \in DOMAIN saves => id \in DOMAIN row)
  BY <1>1 DEF StayInv, RowsAgree
<1>5. /\ id \in free => id \notin DOMAIN saves /\ ~ Queued(id)
      /\ id \in DOMAIN saves => id \notin free /\ Queued(id)
      /\ ~ Dying(id)
  BY <1>3, <1>4 DEF FreeOrUsed, Dying
<1>6. /\ DOMAIN saves' = DOMAIN saves \cup {id}
      /\ DOMAIN row' = IF id \in DOMAIN saves THEN DOMAIN row ELSE DOMAIN row \cup {id}
      /\ queue' = IF id \in DOMAIN saves THEN queue ELSE queue \cup {<<id, ResetDelay>>}
      /\ DOMAIN maps' = DOMAIN maps \cup {id}
      /\ \A i \in DOMAIN maps : i # id => maps'[i] = maps[i]
      /\ ~ maps'[id].freeId
  BY <1>t, <1>1, <1>2, <1>5, AddPlayerUse
<1>7. UNCHANGED <<respawn, pending>>
  BY DEF EnterSaved, EnterFresh
<1>8. ASSUME NEW i \in Id PROVE FreeOrUsed(i)'
  <2>1. CASE i = id
    <3>1. Queued(id)' /\ id \notin free' /\ ~ Dying(id)'
      BY <1>3, <1>5, <1>6 DEF Queued, Dying
    <3> QED
      BY <2>1, <3>1 DEF FreeOrUsed
  <2>2. CASE i # id
    <3>1. Queued(i)' <=> Queued(i)
      BY <1>6, <2>2 DEF Queued
    <3>2. SameUse(i)
      BY <1>3, <1>6, <1>7, <2>2, <3>1 DEF SameUse
    <3> QED
      BY <3>2, SameUseKeeps DEF StayInv
  <2> QED
    BY <2>1, <2>2
<1>9. \A e, f \in queue' : e[1] = f[1] => e = f
  <2>1. CASE id \in DOMAIN saves
    BY <1>6, <2>1 DEF StayInv
  <2>2. CASE id \notin DOMAIN saves
    <3>0. ~ Queued(id)
      BY <1>3, <1>5, <2>2
    <3>1. ASSUME NEW e \in queue PROVE e[1] # id
      <4>1. e = <<e[1], e[2]>>
        BY <1>t DEF Types
      <4> QED
        BY <3>0, <4>1 DEF Queued
    <3> QED
      BY <1>6, <2>2, <3>1 DEF StayInv
  <2> QED
    BY <2>1, <2>2
<1>10. Sole'
  <2>1. /\ bind' = IF grp = None THEN [bind EXCEPT ![p] = id] ELSE bind
        /\ gbind' = IF grp = None THEN gbind ELSE [gbind EXCEPT ![grp] = id]
    BY <1>2 DEF AddPlayerToMap
  <2>2. CASE id = SaveOf(p, bind)
    <3>1. bind' = bind /\ gbind' = gbind
      BY <1>t, <2>1, <2>2, SavedTo, Joined DEF Types
    <3> QED
      BY <3>1 DEF Sole, StayInv
  <2>3. CASE id \in free
    <3>1. /\ \A q \in Player : bind[q] # id
          /\ \A g \in Group : gbind[g] # id
      BY <1>t, <1>1, <1>5, <2>3 DEF Agree
    <3>2. CASE grp = None
      <4>1. gbind' = gbind /\ \A q \in Player : bind'[q] = IF q = p THEN id ELSE bind[q]
        BY <1>t, <2>1, <3>2 DEF Types
      <4> QED
        BY <3>1, <4>1 DEF Sole, StayInv
    <3>3. CASE grp # None
      <4>1. /\ grp \in Group /\ bind' = bind
            /\ \A g \in Group : gbind'[g] = IF g = grp THEN id ELSE gbind[g]
        BY <1>t, <2>1, <3>3, Joined DEF Types
      <4> QED
        BY <3>1, <4>1 DEF Sole, StayInv
    <3> QED
      BY <3>2, <3>3
  <2> QED
    BY <1>3, <2>2, <2>3
<1> QED
  BY <1>6, <1>7, <1>8, <1>9, <1>10 DEF StayInv

(* Steps that use, free and reset no id.                                    *)
LEMMA UseStays ==
  ASSUME StayInv, SaveInv', NextIsLowestFree', RowsAgree',
         \A i \in Id : SameUse(i), queue' = queue,
         pending' \subseteq DOMAIN maps',
         \A p \in Player : bind'[p] \in {NoId, bind[p]},
         \A g \in Group : gbind'[g] \in {NoId, gbind[g]},
         \A p \in Player : where'[p] # "offline", EventsHavePlayers'
  PROVE  StayInv'
<1>1. \A i \in Id : FreeOrUsed(i)'
  BY SameUseKeeps DEF StayInv
<1>2. Sole'
  BY DEF StayInv, Sole
<1>3. \A e, f \in queue' : e[1] = f[1] => e = f
  BY DEF StayInv
<1> QED
  BY <1>1, <1>2, <1>3 DEF StayInv

LEMMA TimerUse ==
  ASSUME TypeOK, NEW id \in DOMAIN maps
  PROVE  \A i \in DOMAIN maps : /\ StartUnloadTimer(maps, id)[i].freeId = maps[i].freeId
                                /\ StartUnloadTimer(maps, id)[i].wipe = maps[i].wipe
BY TypeParts DEF Types, StartUnloadTimer, Over, Map

LEMMA LeaveStays ==
  ASSUME StayInv, NEW p \in Player, Leave(p), SaveInv', NextIsLowestFree', RowsAgree'
  PROVE  StayInv'
<1>t. TypeOK /\ Types /\ HasItsMap(p)
  BY TypeParts DEF StayInv, SaveInv
<1>1. /\ where[p] = "inside" /\ at[p] \in DOMAIN maps /\ at[p] \in Id
      /\ phase \in {"sessions", "maps"}
      /\ where' = [where EXCEPT ![p] = "leaving"]
      /\ maps' = StartUnloadTimer(maps, at[p])
      /\ UNCHANGED <<phase, at, bind, gbind, pending, ids, prow, grow, respawn>>
  BY <1>t DEF Leave, HasItsMap, Types, Over
<1>2. UNCHANGED <<queue, saves, row>>
  <2>1. Linked(at[p]) # {}
    BY <1>1 DEF Linked
  <2> QED
    BY <2>1, LinkedKeeps DEF Leave
<1>3. \A i \in DOMAIN maps : maps'[i].freeId = maps[i].freeId /\ maps'[i].wipe = maps[i].wipe
  BY <1>t, <1>1, TimerUse
<1>4. DOMAIN maps' = DOMAIN maps
  BY <1>t, <1>1, TimerTypes
<1>5. ASSUME NEW i \in Id PROVE SameUse(i)
  BY <1>1, <1>2, <1>3, <1>4 DEF SameUse, Queued, ids
<1>6. \A q \in Player : where'[q] # "offline"
  BY <1>t, <1>1 DEF StayInv, Types
<1>7. EventsHavePlayers'
  <2>1. where'[p] = "leaving" /\ at'[p] = at[p]
        /\ \A q \in Player : where[q] = "leaving" => where'[q] = "leaving"
    BY <1>t, <1>1 DEF Types
  <2>2. CASE IsUpdatingMaps
    <3> DEFINE event == [type |-> "PLAYER_LEFT", id |-> at[p]]
    <3>1. events' = Append(events, event) /\ events \in Seq(Event) /\ phase' = "maps"
      BY <1>t, <1>1, <2>2 DEF Leave, Types, IsUpdatingMaps
    <3>2. event \in Event
      BY <1>1 DEF Event
    <3>3. ASSUME NEW i \in DOMAIN events', events'[i].type = "PLAYER_LEFT"
          PROVE  \E q \in Player : where'[q] = "leaving" /\ at'[q] = events'[i].id
      <4>1. CASE i \in DOMAIN events
        <5>1. events'[i] = events[i]
          BY <3>1, <3>2, <4>1, AppendProperties
        <5> QED
          BY <1>1, <2>1, <3>3, <4>1, <5>1 DEF StayInv, EventsHavePlayers
      <4>2. CASE i \notin DOMAIN events
        <5>1. events'[i] = event
          BY <3>1, <3>2, <3>3, <4>2, AppendProperties
        <5> QED
          BY <2>1, <5>1
      <4> QED
        BY <4>1, <4>2
    <3> QED
      BY <3>1, <3>3 DEF EventsHavePlayers
  <2>3. CASE ~ IsUpdatingMaps
    <3>1. events' = events /\ phase' = phase
      BY <1>1, <2>3 DEF Leave
    <3> QED
      BY <1>1, <2>1, <3>1 DEF StayInv, EventsHavePlayers
  <2> QED
    BY <2>2, <2>3
<1> QED
  BY <1>1, <1>2, <1>4, <1>5, <1>6, <1>7, UseStays DEF StayInv

LEMMA ArriveStays ==
  ASSUME StayInv, NEW p \in Player, Arrive(p), SaveInv', NextIsLowestFree', RowsAgree'
  PROVE  StayInv'
<1>t. Types
  BY TypeParts DEF StayInv, SaveInv
<1>1. /\ phase = "sessions" /\ where' = [where EXCEPT ![p] = "outside"]
      /\ UNCHANGED <<phase, bind, manager, world, ids, db>>
  BY DEF Arrive
<1>2. ASSUME NEW i \in Id PROVE SameUse(i)
  BY <1>1 DEF SameUse, Queued, manager, world, ids, db
<1>3. \A q \in Player : where'[q] # "offline"
  BY <1>t, <1>1 DEF StayInv, Types
<1>4. events' = <<>> /\ DOMAIN events' = {}
  BY <1>1 DEF StayInv, EventsHavePlayers, world
<1>5. EventsHavePlayers'
  BY <1>4 DEF EventsHavePlayers
<1> QED
  BY <1>1, <1>2, <1>3, <1>5, UseStays DEF StayInv, manager, world

LEMMA KillStays ==
  ASSUME StayInv, NEW id \in DOMAIN maps, Kill(id), SaveInv', NextIsLowestFree', RowsAgree'
  PROVE  StayInv'
<1>t. Types
  BY TypeParts DEF StayInv, SaveInv
<1> DEFINE event == [type |-> "NORMAL_RESET_TIME", id |-> id]
<1>1. /\ phase = "maps" /\ events' = Append(events, event) /\ respawn' = respawn \cup {id}
      /\ UNCHANGED <<phase, players, manager, maps, pending, ids, row, prow, grow>>
  BY DEF Kill
<1>2. ASSUME NEW i \in Id PROVE SameUse(i)
  BY <1>1 DEF SameUse, Queued, manager, ids
<1>3. EventsHavePlayers'
  <2>1. event \in Event /\ events \in Seq(Event)
    BY <1>t DEF Event, Types, Over
  <2>2. ASSUME NEW i \in DOMAIN events', events'[i].type = "PLAYER_LEFT"
        PROVE  \E q \in Player : where'[q] = "leaving" /\ at'[q] = events'[i].id
    <3>1. CASE i \in DOMAIN events
      <4>1. events'[i] = events[i]
        BY <1>1, <2>1, <3>1, AppendProperties
      <4> QED
        BY <1>1, <2>2, <3>1, <4>1 DEF StayInv, EventsHavePlayers, players
    <3>2. CASE i \notin DOMAIN events
      <4>1. events'[i] = event
        BY <1>1, <2>1, <2>2, <3>2, AppendProperties
      <4> QED
        BY <2>2, <4>1
    <3> QED
      BY <3>1, <3>2
  <2> QED
    BY <1>1, <2>2 DEF EventsHavePlayers
<1> HIDE DEF event
<1> QED
  BY <1>1, <1>2, <1>3, UseStays DEF StayInv, players, manager

(* The first event is processed with its player still on his way.           *)
LEMMA ProcessStays ==
  ASSUME StayInv, ProcessPlayerLeft \/ ProcessNormalResetTime, SaveInv', NextIsLowestFree',
         RowsAgree'
  PROVE  StayInv'
<1>t. Types /\ events \in Seq(Event)
  BY TypeParts DEF StayInv, SaveInv, Types
<1>1. /\ phase = "events" /\ phase' = phase /\ events # <<>> /\ events' = Tail(events)
      /\ UNCHANGED <<players, gbind, maps, pending, ids, prow, grow, respawn>>
  BY DEF ProcessPlayerLeft, ProcessNormalResetTime, db
<1>2. events[1] = Head(events) /\ Len(events) \in Nat /\ Len(events) # 0
      /\ DOMAIN events = 1 .. Len(events)
  BY <1>t, <1>1, HeadTailProperties, EmptySeq
<1>3. DOMAIN saves' = DOMAIN saves /\ UNCHANGED <<queue, row>>
  <2>1. CASE ProcessPlayerLeft
    <3>1. 1 \in DOMAIN events /\ events[1].type = "PLAYER_LEFT"
      BY <1>2, <2>1 DEF ProcessPlayerLeft
    <3>2. Linked(Head(events).id) # {}
      BY <1>2, <3>1 DEF StayInv, EventsHavePlayers, Linked
    <3> QED
      BY <2>1, <3>2, LinkedKeeps DEF ProcessPlayerLeft
  <2>2. CASE ProcessNormalResetTime
    BY <2>2 DEF ProcessNormalResetTime, db
  <2> QED
    BY <2>1, <2>2
<1>4. ASSUME NEW i \in Id PROVE SameUse(i)
  BY <1>1, <1>3 DEF SameUse, Queued, ids
<1>5. EventsHavePlayers'
  <2>1. ASSUME NEW i \in DOMAIN events'
        PROVE  i + 1 \in DOMAIN events /\ events'[i] = events[i + 1]
    BY <1>t, <1>1, <1>2, HeadTailProperties
  <2> QED
    BY <1>1, <2>1 DEF StayInv, EventsHavePlayers, players
<1> QED
  BY <1>1, <1>3, <1>4, <1>5, UseStays DEF StayInv, players

LEMMA ResetStays ==
  ASSUME StayInv, SaveInv', NextIsLowestFree', RowsAgree', NEW id, NEW S, ResetInstance(id, S),
         DOMAIN S = DOMAIN saves, UNCHANGED <<phase, where, queue, events, pending, ids, respawn>>,
         \A p \in Player : bind'[p] \in {NoId, bind[p]},
         \A g \in Group : gbind'[g] \in {NoId, gbind[g]},
         \A p \in Player : where[p] = "leaving" => at'[p] = at[p]
  PROVE  StayInv'
<1>t. Types
  BY TypeParts DEF StayInv, SaveInv
<1>1. DOMAIN saves' \subseteq DOMAIN saves /\ DOMAIN row' \subseteq DOMAIN row
  <2>1. /\ DOMAIN Without(S, id) = DOMAIN S \ {id}
        /\ DOMAIN Without(row, id) = DOMAIN row \ {id}
    BY DEF Without, Restrict
  <2> QED
    BY <2>1 DEF ResetInstance, DeleteInstanceFromDB
<1>2. DOMAIN maps' = DOMAIN maps
  BY DEF ResetInstance
<1>3. ASSUME NEW i \in DOMAIN maps
      PROVE  maps'[i].freeId = maps[i].freeId /\ (maps[i].wipe => maps'[i].wipe)
  <2>1. maps[i] \in Map
    BY <1>t DEF Types, Over
  <2>2. maps'[i] \in {maps[i], ResetEmpty(maps[i])}
    BY <1>t DEF ResetInstance, Types, Over
  <2> QED
    BY <2>1, <2>2 DEF ResetEmpty, Map
<1>4. ASSUME NEW i \in Id PROVE SameUse(i)
  BY <1>1, <1>2, <1>3 DEF SameUse, Queued, ids
<1>5. EventsHavePlayers'
  BY DEF StayInv, EventsHavePlayers
<1> QED
  BY <1>2, <1>4, <1>5, UseStays DEF StayInv

LEMMA StartMapsStays ==
  ASSUME StayInv, NEW elapsed, StartMaps(elapsed), SaveInv', NextIsLowestFree', RowsAgree'
  PROVE  StayInv'
<1>t. TypeOK /\ Types
  BY TypeParts DEF StayInv, SaveInv
<1>1. /\ phase = "sessions" /\ phase' = "maps"
      /\ pending' = {id \in DOMAIN maps : maps'[id].unload = "now"}
      /\ UNCHANGED <<players, manager, events, ids, db>>
  BY DEF StartMaps
<1>2. /\ DOMAIN maps' = DOMAIN maps
      /\ \A i \in DOMAIN maps :
           maps'[i] = IF i \in elapsed THEN [maps[i] EXCEPT !.unload = "now"] ELSE maps[i]
  BY <1>t, StartMapsTypes
<1>3. \A i \in DOMAIN maps : maps'[i].freeId = maps[i].freeId /\ maps'[i].wipe = maps[i].wipe
  BY <1>t, <1>2 DEF Types, Over, Map
<1>4. ASSUME NEW i \in Id PROVE SameUse(i)
  BY <1>1, <1>2, <1>3 DEF SameUse, Queued, manager, ids, db
<1>5. EventsHavePlayers'
  BY <1>1 DEF StayInv, EventsHavePlayers, players
<1>6. pending' \subseteq DOMAIN maps'
  BY <1>1, <1>2
<1> QED
  BY <1>1, <1>4, <1>5, <1>6, UseStays DEF StayInv, players, manager

LEMMA PhaseStays ==
  ASSUME StayInv, EndMaps \/ EndUpdate \/ UNCHANGED vars, SaveInv', NextIsLowestFree',
         RowsAgree'
  PROVE  StayInv'
<1>1. UNCHANGED <<players, manager, world, ids, db>>
  BY DEF EndMaps, EndUpdate, vars, players, manager, world, ids, db
<1>2. ASSUME NEW i \in Id PROVE SameUse(i)
  BY <1>1 DEF SameUse, Queued, manager, world, ids, db
<1>3. EventsHavePlayers'
  BY <1>1 DEF EndMaps, EndUpdate, vars, StayInv, EventsHavePlayers, players, world
<1> QED
  BY <1>1, <1>2, <1>3, UseStays DEF StayInv, players, manager, world

(* A map that was reset frees its id when it goes, and wipes the respawns;  *)
(* one that was not leaves an id that is still to be reset.                 *)
LEMMA DestroyStays ==
  ASSUME StayInv, DestroyPendingInstances, SaveInv', NextIsLowestFree', RowsAgree'
  PROVE  StayInv'
<1>t. Types
  BY TypeParts DEF StayInv, SaveInv
<1>1. /\ phase' = "resets" /\ events = <<>> /\ free' = free \cup Released
      /\ respawn' = respawn \ {id \in Destroyed : maps[id].wipe} /\ pending' = {}
      /\ UNCHANGED <<players, manager, events, row, prow, grow>>
  BY DEF DestroyPendingInstances, FreeInstanceIds
<1>2. /\ DOMAIN maps' = DOMAIN maps \ Destroyed
      /\ \A i \in DOMAIN maps' : maps'[i] = maps[i]
  BY DEF DestroyPendingInstances, Restrict
<1>3. Destroyed \subseteq DOMAIN maps /\ \A i : i \in Released <=> i \in Destroyed /\ Dying(i)
  BY DEF Destroyed, Released, Dying, StayInv
<1>4. ASSUME NEW i \in Id PROVE FreeOrUsed(i)'
  <2>1. FreeOrUsed(i) /\ (i \in DOMAIN saves => i \in DOMAIN row)
    BY DEF StayInv, RowsAgree
  <2>2. Queued(i)' <=> Queued(i)
    BY <1>1 DEF Queued, manager
  <2>3. saves' = saves /\ row' = row
    BY <1>1 DEF manager
  <2>4. CASE i \in Destroyed /\ Dying(i)
    <3>1. i \in free' /\ i \notin DOMAIN maps' /\ ~ Queued(i)
          /\ i \notin DOMAIN saves /\ i \notin DOMAIN row /\ i \notin respawn'
      BY <1>1, <1>2, <1>3, <2>1, <2>4 DEF FreeOrUsed
    <3> QED
      BY <2>2, <2>3, <3>1 DEF FreeOrUsed, Dying
  <2>5. CASE i \in Destroyed /\ ~ Dying(i)
    <3>1. i \notin free /\ i \notin free' /\ i \notin DOMAIN maps' /\ Queued(i)
      BY <1>1, <1>2, <1>3, <2>1, <2>5 DEF FreeOrUsed
    <3> QED
      BY <2>2, <3>1 DEF FreeOrUsed, Dying
  <2>6. CASE i \notin Destroyed
    <3>1. SameUse(i)
      BY <1>1, <1>2, <1>3, <2>2, <2>3, <2>6 DEF SameUse
    <3> QED
      BY <2>1, <3>1, SameUseKeeps
  <2> QED
    BY <2>4, <2>5, <2>6
<1>5. EventsHavePlayers'
  BY <1>1 DEF EventsHavePlayers
<1>6. Sole' /\ \A e, f \in queue' : e[1] = f[1] => e = f
  BY <1>1 DEF StayInv, Sole, players, manager
<1> QED
  BY <1>1, <1>4, <1>5, <1>6 DEF StayInv, players

(* A reset ends what the id was used for; the map, if there is one, is left *)
(* to free it.                                                              *)
LEMMA ResetDueStays ==
  ASSUME StayInv, NEW id \in Id, ResetDue(id), SaveInv', NextIsLowestFree', RowsAgree'
  PROVE  StayInv'
<1>t. Types /\ NoId \notin Id
  BY TypeParts, Numbers DEF StayInv, SaveInv
<1> DEFINE m == FreeOnUnload(IF Linked(id) = {} THEN ResetEmpty(maps[id])
                             ELSE ResetFull(maps[id]))
<1>1. /\ phase = "resets" /\ <<id, -1>> \in queue
      /\ queue' = queue \ {<<id, -1>>}
      /\ bind' = Unsaved(bind, id) /\ gbind' = Unsaved(gbind, id)
      /\ saves' = Without(saves, id) /\ row' = Without(row, id)
      /\ respawn' = respawn \ {id} /\ free' = free \cup ReleasedAtReset(id)
      /\ maps' = IF id \notin DOMAIN maps THEN maps ELSE [maps EXCEPT ![id] = m]
      /\ UNCHANGED <<phase, where, at, events, pending>>
  BY DEF ResetDue, Due, DeleteInstanceFromDB, FreeInstanceIds
<1>2. id \in DOMAIN maps => m.freeId /\ m.wipe
  <2>1. id \in DOMAIN maps => maps[id] \in Map
    BY <1>t DEF Types, Over
  <2> QED
    BY <2>1 DEF FreeOnUnload, ResetEmpty, ResetFull, Map
<1> HIDE DEF m
<1>3. /\ DOMAIN maps' = DOMAIN maps /\ \A i \in DOMAIN maps : i # id => maps'[i] = maps[i]
      /\ id \in DOMAIN maps => maps'[id].freeId /\ maps'[id].wipe
  BY <1>t, <1>1, <1>2 DEF Types, Over
<1>4. /\ DOMAIN saves' = DOMAIN saves \ {id} /\ DOMAIN row' = DOMAIN row \ {id}
  BY <1>1 DEF Without, Restrict
<1>5. ~ Queued(id)'
  <2>1. ASSUME NEW t, <<id, t>> \in queue PROVE t = -1
    <3>1. <<id, t>>[1] = <<id, -1>>[1]
      OBVIOUS
    <3>2. <<id, t>> = <<id, -1>>
      BY <1>1, <2>1, <3>1 DEF StayInv
    <3> QED
      BY <3>2
  <2> QED
    BY <1>1, <2>1 DEF Queued
<1>6. id \notin free
  BY <1>1 DEF StayInv, FreeOrUsed, Queued
<1>7. ASSUME NEW i \in Id PROVE FreeOrUsed(i)'
  <2>1. CASE i = id /\ id \in DOMAIN maps
    <3>1. Dying(id)' /\ id \notin free'
      BY <1>1, <1>3, <1>6, <2>1 DEF Dying, ReleasedAtReset
    <3> QED
      BY <1>3, <1>4, <1>5, <2>1, <3>1 DEF FreeOrUsed
  <2>2. CASE i = id /\ id \notin DOMAIN maps
    <3>1. id \in free' /\ id \notin DOMAIN maps' /\ id \notin respawn'
      BY <1>1, <1>3, <2>2 DEF ReleasedAtReset
    <3> QED
      BY <1>4, <1>5, <2>2, <3>1 DEF FreeOrUsed, Dying
  <2>3. CASE i # id
    <3>1. Queued(i)' <=> Queued(i)
      BY <1>1, <2>3 DEF Queued
    <3>2. SameUse(i)
      BY <1>1, <1>3, <1>4, <2>3, <3>1 DEF SameUse, ReleasedAtReset
    <3> QED
      BY <3>2, SameUseKeeps DEF StayInv
  <2> QED
    BY <2>1, <2>2, <2>3
<1>8. Sole'
  <2>1. \A q \in Player : bind'[q] = IF bind[q] = id THEN NoId ELSE bind[q]
    BY <1>t, <1>1 DEF Types, Unsaved
  <2>2. \A g \in Group : gbind'[g] = IF gbind[g] = id THEN NoId ELSE gbind[g]
    BY <1>t, <1>1 DEF Types, Unsaved
  <2> QED
    BY <2>1, <2>2 DEF StayInv, Sole
<1>9. \A e, f \in queue' : e[1] = f[1] => e = f
  BY <1>1 DEF StayInv
<1>10. EventsHavePlayers' /\ pending' \subseteq DOMAIN maps'
  BY <1>1, <1>3 DEF StayInv, EventsHavePlayers
<1> QED
  BY <1>1, <1>7, <1>8, <1>9, <1>10 DEF StayInv

LEMMA TimePassesStays ==
  ASSUME StayInv, TimePasses, SaveInv', NextIsLowestFree', RowsAgree'
  PROVE  StayInv'
<1>t. Types
  BY TypeParts DEF StayInv, SaveInv
<1>1. /\ phase = "resets" /\ phase' = "sessions"
      /\ queue' = {<<e[1], Earlier(e[2])>> : e \in queue}
      /\ DOMAIN saves' = DOMAIN saves /\ DOMAIN row' = DOMAIN row
      /\ UNCHANGED <<players, gbind, world, ids, prow, grow, respawn>>
  BY DEF TimePasses
<1>2. ASSUME NEW i \in Id PROVE Queued(i)' <=> Queued(i)
  <2>1. ASSUME NEW t, <<i, t>> \in queue PROVE Queued(i)'
    <3>1. <<i, Earlier(t)>> \in queue'
      BY <1>1, <2>1
    <3> QED
      BY <3>1 DEF Queued
  <2>2. ASSUME NEW t, <<i, t>> \in queue' PROVE Queued(i)
    <3>1. PICK e \in queue : <<i, t>> = <<e[1], Earlier(e[2])>>
      BY <1>1, <2>2
    <3>2. e = <<e[1], e[2]>> /\ e[1] = i
      BY <1>t, <3>1 DEF Types
    <3> QED
      BY <3>1, <3>2 DEF Queued
  <2> QED
    BY <2>1, <2>2 DEF Queued
<1>3. ASSUME NEW i \in Id PROVE FreeOrUsed(i)'
  <2>1. SameUse(i)
    BY <1>1, <1>2 DEF SameUse, world, ids
  <2> QED
    BY <2>1, SameUseKeeps DEF StayInv
<1>4. ASSUME NEW e \in queue', NEW f \in queue', e[1] = f[1] PROVE e = f
  <2>1. PICK d \in queue : e = <<d[1], Earlier(d[2])>>
    BY <1>1
  <2>2. PICK h \in queue : f = <<h[1], Earlier(h[2])>>
    BY <1>1
  <2>3. d = h
    BY <1>4, <2>1, <2>2 DEF StayInv
  <2> QED
    BY <2>1, <2>2, <2>3
<1>5. EventsHavePlayers'
  BY <1>1 DEF StayInv, EventsHavePlayers, world, players
<1>6. Sole' /\ pending' \subseteq DOMAIN maps'
  BY <1>1 DEF StayInv, Sole, players, world
<1> QED
  BY <1>1, <1>3, <1>4, <1>5, <1>6 DEF StayInv, players

LEMMA EnterStays ==
  ASSUME StayInv, NEW p \in Player, EnterSaved(p) \/ EnterFresh(p), SaveInv',
         NextIsLowestFree', RowsAgree'
  PROVE  StayInv'
<1>t. Types
  BY TypeParts DEF StayInv, SaveInv
<1>1. /\ phase = "sessions" /\ UNCHANGED <<phase, events>> /\ where' = [where EXCEPT ![p] = "inside"]
  BY DEF EnterSaved, EnterFresh, AddPlayerToMap
<1>2. \A q \in Player : where'[q] # "offline"
  BY <1>t, <1>1 DEF StayInv, Types
<1>3. events' = <<>>
  BY <1>1 DEF StayInv, EventsHavePlayers
<1>4. EventsHavePlayers'
  BY <1>3 DEF EventsHavePlayers
<1> QED
  BY <1>2, <1>4, EnterUse DEF StayInv

LEMMA ResetsStay ==
  ASSUME StayInv, SaveInv', NextIsLowestFree', RowsAgree',
         (\E p \in Player : ResetInstances(p)) \/ (\E g \in Group : ResetGroupInstances(g))
  PROVE  StayInv'
<1>t. Types
  BY TypeParts DEF StayInv, SaveInv
<1>1. ASSUME NEW p \in Player, ResetInstances(p) PROVE StayInv'
  <2> DEFINE S == Unbound(saves, p, bind[p])
  <2>1. /\ ResetInstance(bind[p], S) /\ bind' = [bind EXCEPT ![p] = NoId]
        /\ UNCHANGED <<phase, where, at, queue, gbind, events, pending, ids, respawn>>
    BY <1>1 DEF ResetInstances
  <2>2. DOMAIN S = DOMAIN saves
    BY <1>t, UnboundTypes DEF Types
  <2>3. \A q \in Player : bind'[q] \in {NoId, bind[q]}
    BY <1>t, <2>1 DEF Types
  <2> HIDE DEF S
  <2> QED
    BY <2>1, <2>2, <2>3, ResetStays
<1>2. ASSUME NEW g \in Group, ResetGroupInstances(g) PROVE StayInv'
  <2> DEFINE S == [saves EXCEPT ![gbind[g]].groups = @ \ {g}]
  <2>1. /\ ResetInstance(gbind[g], S) /\ gbind' = [gbind EXCEPT ![g] = NoId]
        /\ at' = [p \in Player |->
             IF GroupOf[p] = g /\ where[p] = "offline" /\ gbind[g] \in DOMAIN maps
             THEN NoId ELSE at[p]]
        /\ UNCHANGED <<phase, where, bind, queue, events, pending, ids, respawn>>
    BY <1>2 DEF ResetGroupInstances
  <2>2. DOMAIN S = DOMAIN saves
    OBVIOUS
  <2>3. \A h \in Group : gbind'[h] \in {NoId, gbind[h]}
    BY <1>t, <2>1 DEF Types
  <2>4. \A p \in Player : where[p] = "leaving" => at'[p] = at[p]
    BY <2>1
  <2> HIDE DEF S
  <2> QED
    BY <2>1, <2>2, <2>3, <2>4, ResetStays
<1> QED
  BY <1>1, <1>2

LEMMA InitStays == ASSUME Init PROVE StayInv
<1>1. SaveInv /\ NextIsLowestFree /\ RowsAgree
  BY InitAgrees, InitLowest, InitRows
<1>2. /\ free = Id /\ queue = {} /\ events = <<>> /\ pending = {} /\ respawn = {}
      /\ DOMAIN saves = {} /\ DOMAIN maps = {} /\ DOMAIN row = {}
      /\ \A p \in Player : where[p] = "outside" /\ bind[p] = NoId
      /\ \A g \in Group : gbind[g] = NoId
  BY DEF Init
<1>3. \A id \in Id : FreeOrUsed(id)
  BY <1>2 DEF FreeOrUsed, Queued, Dying
<1>4. Sole
  <2>1. \A g, h \in Group : gbind[g] = gbind[h] /\ gbind[g] # NoId => g = h
    BY <1>2
  <2> QED
    BY <1>2, <2>1 DEF Sole
<1>5. EventsHavePlayers
  BY <1>2 DEF EventsHavePlayers
<1> QED
  BY <1>1, <1>2, <1>3, <1>4, <1>5 DEF StayInv

LEMMA NextStays == ASSUME NobodyQuits, StayInv, [Next]_vars PROVE StayInv'
<1>1. SaveInv' /\ NextIsLowestFree' /\ RowsAgree'
  BY NextAgrees, NextLowest, NextRows DEF StayInv, SaveInv
<1>2. ASSUME NEW p \in Player, EnterSaved(p) \/ EnterFresh(p) \/ Leave(p) \/ Arrive(p)
      PROVE  StayInv'
  BY <1>1, <1>2, EnterStays, LeaveStays, ArriveStays
<1>3. ASSUME NEW p \in Player,
             LoginInside(p) \/ LoginOutside(p) \/ LogoutInside(p) \/ LogoutOutside(p)
      PROVE  FALSE
  BY <1>3 DEF LoginInside, LoginOutside, LogoutInside, LogoutOutside, NobodyQuits, StayInv
<1>4. CASE (\E p \in Player : ResetInstances(p)) \/ (\E g \in Group : ResetGroupInstances(g))
  BY <1>1, <1>4, ResetsStay
<1>5. CASE \/ \E elapsed \in SUBSET DOMAIN maps : StartMaps(elapsed)
           \/ \E id \in DOMAIN maps : Kill(id)
           \/ EndMaps \/ ProcessPlayerLeft \/ ProcessNormalResetTime
           \/ DestroyPendingInstances
           \/ \E id \in Id : ResetDue(id)
           \/ EndUpdate \/ TimePasses \/ UNCHANGED vars
  BY <1>1, <1>5, StartMapsStays, KillStays, PhaseStays, ProcessStays, DestroyStays,
     ResetDueStays, TimePassesStays
<1>6. ~ Restart
  BY DEF Restart, NobodyQuits
<1> QED
  BY <1>2, <1>3, <1>4, <1>5, <1>6 DEF Next

LEMMA StayImplies == ASSUME StayInv PROVE IdsAreReleased /\ BindsAgree
<1>t. Types
  BY TypeParts DEF StayInv, SaveInv
<1>1. ASSUME NEW id \in Id, Queued(id) PROVE \E t \in Time : <<id, t>> \in queue
  BY <1>t, <1>1 DEF Types, Queued
<1>2. ASSUME NEW id \in Id \ free
      PROVE  (\E t \in Time : <<id, t>> \in queue) \/ (id \in DOMAIN maps /\ maps[id].freeId)
  BY <1>1 DEF StayInv, FreeOrUsed, Dying
<1>3. ASSUME NEW id \in free
      PROVE  id \notin DOMAIN saves \cup DOMAIN maps \cup DOMAIN row \cup respawn
  BY <1>t DEF StayInv, FreeOrUsed, Types
<1> QED
  BY <1>2, <1>3 DEF IdsAreReleased, StayInv, SaveInv, BindsAgree

(* An id is freed when nothing of its instance is left, and until then there*)
(* is something that will free it, for any players and groups online.       *)
THEOREM IdsAreReleasedInTime == ASSUME NobodyQuits PROVE Spec => []IdsAreReleased
BY InitStays, NextStays, StayImplies, PTL DEF Spec

(* The binds of any players and groups online agree with the saves and with *)
(* the rows of the database.                                                *)
THEOREM OnlineBindsAgree == ASSUME NobodyQuits PROVE Spec => []BindsAgree
BY InitStays, NextStays, StayImplies, PTL DEF Spec

=============================================================================
