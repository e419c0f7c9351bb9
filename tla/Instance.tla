------------------------------ MODULE Instance ------------------------------
(***************************************************************************)
(* The life of the instances of one normal five-player dungeon: their ids  *)
(* (Maps/MapManager), their saves, binds and reset events                  *)
(* (Instances/InstanceSaveMgr, Player, Group), their maps (Maps/Map,       *)
(* Maps/MapInstanced) and the rows they have in the character database.    *)
(*                                                                         *)
(* World::Update runs in phases: the sessions, in which players log in and *)
(* out, finish a teleport or reset their instances; the maps, which worker *)
(* threads update while everything that touches the manager is queued as an*)
(* event; the events, and the maps to destroy; the resets that are due.    *)
(*                                                                         *)
(* A player who teleports away is taken out of the map at once, but his    *)
(* reference to the map stays until the client acknowledges the teleport.  *)
(*                                                                         *)
(* Time is what is left until a reset, in units of which a normal reset    *)
(* takes ResetDelay; -1 is anything in the past.  Groups are as they are.  *)
(* The database writes are done in order and are taken to be immediate.    *)
(***************************************************************************)
EXTENDS Integers, Sequences, FiniteSetsExt, Functions

CONSTANTS
  Player,
  Group,
  None,          \* no group
  GroupOf,       \* Player::GetGroup
  Leader,        \* Group::GetLeaderGUID
  Quitter,       \* the players who may log out
  MaxId,         \* bound: the instance ids are 1 .. MaxId
  ResetDelay,    \* two hours
  Crashes        \* may the server go down and start again?

ASSUME InstanceAssumption ==
  /\ None \notin Group /\ IsFiniteSet(Player)
  /\ GroupOf \in [Player -> Group \cup {None}]
  /\ Leader \in [Group -> Player]
  /\ \A g \in Group : GroupOf[Leader[g]] = g
  /\ Quitter \subseteq Player
  /\ MaxId \in Nat \ {0} /\ ResetDelay \in Nat \ {0}
  /\ Crashes \in BOOLEAN

Id     == 1 .. MaxId
NoId   == 0
NoneOr == Id \cup {NoId}
Time   == -1 .. ResetDelay

VARIABLES
  phase,      \* of World::Update
  where,      \* where each player is: see Place
  at,         \* the map he is in or, offline, characters.instance_id
  bind,       \* Player::m_boundInstances, of the players online
  gbind,      \* Group::m_boundInstances
  saves,      \* InstanceSaveManager::m_instanceSaveById
  queue,      \* m_resetTimeQueue, as a set: see ScheduleReset
  events,     \* _instanceMapEvents
  maps,       \* MapInstanced::m_InstancedMaps
  pending,    \* MapInstanced::_pendingDestroys
  free,       \* MapManager::_freeInstanceIds
  nextId,     \* MapManager::_nextInstanceId
  row,        \* table instance: the reset time of each instance
  prow,       \* table character_instance
  grow,       \* table group_instance
  respawn     \* the ids with rows in table respawn

players == <<where, at, bind>>
manager == <<saves, queue, gbind>>
world   == <<events, maps, pending>>
ids     == <<free, nextId>>
db      == <<row, prow, grow, respawn>>
vars    == <<phase, where, at, bind, gbind, saves, queue, events, maps, pending,
             free, nextId, row, prow, grow, respawn>>

Place == {"offline", "outside", "inside",
          "leaving"}   \* teleported away, the old map not yet released

Save  == [players : SUBSET Player, groups : SUBSET Group, reset : Time]
Map   == [unload : {"never", "delayed", "now"},   \* m_unloadTimer: 0, running, run out
          whenEmpty : BOOLEAN,                    \* m_unloadWhenEmpty
          wipe : BOOLEAN,                         \* m_resetAfterUnload
          freeId : BOOLEAN]                       \* m_freeInstanceIdOnUnload
Event == [type : {"PLAYER_LEFT", "NORMAL_RESET_TIME"}, id : Id]

IsUpdatingMaps == phase = "maps"

(* The players that refer to a map, and whether there are any: HavePlayers. *)
Linked(id) == {p \in Player : where[p] \in {"inside", "leaving"} /\ at[p] = id}

(* The types of the variables; a player refers to a map in an instance only.*)
(* The map a player refers to exists: no path of unloading frees a map under*)
(* a player who is inside or still on his way out.  Nor is that about to    *)
(* happen: the unload timer is started by the last one to leave only and    *)
(* stopped by the first one to come.                                        *)
TypeOK ==
  /\ phase \in {"sessions", "maps", "events", "resets"}
  /\ where \in [Player -> Place]
  /\ at \in [Player -> NoneOr]
  /\ \A p \in Player : /\ where[p] = "outside" => at[p] = NoId
                       /\ where[p] \in {"inside", "leaving"} => at[p] \in DOMAIN maps
                       /\ where[p] = "inside" => maps[at[p]].unload = "never"
  /\ bind \in [Player -> NoneOr]
  /\ gbind \in [Group -> NoneOr]
  /\ DOMAIN saves \subseteq Id /\ saves \in [DOMAIN saves -> Save]
  /\ queue \subseteq Id \X Time
  /\ events \in Seq(Event)
  /\ DOMAIN maps \subseteq Id /\ maps \in [DOMAIN maps -> Map]
  /\ pending \subseteq Id /\ free \subseteq Id /\ nextId \in 1 .. MaxId + 1
  /\ DOMAIN row \subseteq Id /\ row \in [DOMAIN row -> Time]
  /\ prow \in [Player -> NoneOr] /\ grow \in [Group -> NoneOr]
  /\ respawn \subseteq Id

-----------------------------------------------------------------------------
(* Ids.                                                                    *)

NextAfter(F, id) == Min({f \in F : f > id} \cup {MaxId + 1})

GenerateInstanceId ==
  /\ nextId \in Id
  /\ free' = free \ {nextId}
  /\ nextId' = NextAfter(free, nextId)

FreeInstanceIdsForgettingNext(freed) ==
  /\ free' = free \cup freed
  /\ UNCHANGED nextId

FreeInstanceIds(freed) ==
  /\ free' = free \cup freed
  /\ nextId' = Min(freed \cup {nextId})

-----------------------------------------------------------------------------
(* Saves and reset events.  S is saves, Q is queue before an operation.     *)

With(f, x, v) == [y \in DOMAIN f \cup {x} |-> IF y = x THEN v ELSE f[y]]

Without(f, x) == Restrict(f, DOMAIN f \ {x})

(* Equal events are processed one after the other, and the second changes   *)
(* nothing, so a set stands for the multimap.                               *)
ScheduleReset(Q, id, time) == Q \cup {<<id, time>>}

CancelReset(Q, id, time) ==
  IF <<id, time>> \in Q THEN Q \ {<<id, time>>}
  ELSE LET times == {t \in Time : <<id, t>> \in Q}
       IN IF times = {} THEN Q ELSE Q \ {<<id, Min(times)>>}

SetResetSchedule(on, Q, S, id, linked) ==
  IF linked # {} \/ id \notin DOMAIN S THEN Q
  ELSE IF on THEN ScheduleReset(Q, id, S[id].reset)
  ELSE CancelReset(Q, id, S[id].reset)

NewSave(time) == [players |-> {}, groups |-> {}, reset |-> time]

IsUnloadedUnderGroups(S, id, linked) ==
  id \in DOMAIN S /\ S[id].players = {} /\ linked = {}

(* UnloadIfEmpty with RemoveInstanceSave, which writes the reset time.      *)
IsUnloaded(S, id, linked) ==
  id \in DOMAIN S /\ S[id].players = {} /\ S[id].groups = {} /\ linked = {}

UnloadInstanceSave(S, id, linked) ==
  /\ saves' = IF IsUnloaded(S, id, linked) THEN Without(S, id) ELSE S
  /\ row' = IF IsUnloaded(S, id, linked) /\ id \in DOMAIN row
            THEN [row EXCEPT ![id] = S[id].reset] ELSE row

-----------------------------------------------------------------------------
(* Maps.                                                                   *)

NewMap == [unload |-> "delayed", whenEmpty |-> FALSE, wipe |-> FALSE, freeId |-> FALSE]

CreateInstance(M, id) == IF id \in DOMAIN M THEN M ELSE With(M, id, NewMap)

(* The last player that refers to the map leaves it.                        *)
StartUnloadTimer(M, id) ==
  IF M[id].unload = "never" /\ Cardinality(Linked(id)) = 1
  THEN [M EXCEPT ![id].unload = IF M[id].whenEmpty THEN "now" ELSE "delayed"]
  ELSE M

(* Reset with INSTANCE_RESET_ALL changes a map only when it is empty, with  *)
(* INSTANCE_RESET_RESPAWN_DELAY always.                                     *)
ResetEmpty(m) == [m EXCEPT !.unload = "now", !.wipe = TRUE]
ResetFull(m)  == [m EXCEPT !.whenEmpty = TRUE, !.wipe = TRUE]

(* InstanceMap::AddPlayerToMap for a player whose reference to the map is   *)
(* already set, so that SetResetSchedule(false) finds players inside.       *)
AddPlayerToMap(p, id, S, M, B) ==
  LET grp     == GroupOf[p]
      found == id \in DOMAIN S
      save  == IF found THEN S[id] ELSE NewSave(ResetDelay)
      bound == IF grp = None THEN [save EXCEPT !.players = @ \cup {p}]
               ELSE [save EXCEPT !.groups = @ \cup {grp}]
      Q     == IF found THEN queue ELSE ScheduleReset(queue, id, ResetDelay)
  IN /\ saves' = With(S, id, bound)
     /\ queue' = SetResetSchedule(FALSE, Q, saves', id, Linked(id) \cup {p})
     /\ row' = IF found THEN row ELSE With(row, id, ResetDelay)
     /\ bind' = IF grp = None THEN [B EXCEPT ![p] = id] ELSE B
     /\ prow' = IF grp = None THEN [prow EXCEPT ![p] = id] ELSE prow
     /\ gbind' = IF grp = None THEN gbind ELSE [gbind EXCEPT ![grp] = id]
     /\ grow' = IF grp = None THEN grow ELSE [grow EXCEPT ![grp] = id]
     /\ maps' = [CreateInstance(M, id) EXCEPT ![id].unload = "never",
                                              ![id].whenEmpty = FALSE,
                                              ![id].wipe = FALSE]
     /\ where' = [where EXCEPT ![p] = "inside"]
     /\ at' = [at EXCEPT ![p] = id]

(* The instance of his own or of his group, GetInstanceSave(mapid).         *)
SaveOf(p, B) ==
  IF GroupOf[p] # None /\ gbind[GroupOf[p]] # NoId THEN gbind[GroupOf[p]] ELSE B[p]

-----------------------------------------------------------------------------
(* The sessions.                                                           *)

Init ==
  /\ phase = "sessions"
  /\ where = [p \in Player |-> "outside"]
  /\ at = [p \in Player |-> NoId] /\ bind = [p \in Player |-> NoId]
  /\ gbind = [g \in Group |-> NoId]
  /\ saves = <<>> /\ queue = {} /\ events = <<>>
  /\ maps = <<>> /\ pending = {}
  /\ free = Id /\ nextId = 1
  /\ row = <<>> /\ respawn = {}
  /\ prow = [p \in Player |-> NoId] /\ grow = [g \in Group |-> NoId]

(* HandleMoveWorldportAck into the dungeon, CreateInstanceForPlayer: to the *)
(* save there is, or to a fresh id.                                         *)
EnterSaved(p) ==
  /\ phase = "sessions" /\ where[p] = "outside"
  /\ SaveOf(p, bind) # NoId
  /\ AddPlayerToMap(p, SaveOf(p, bind), saves, maps, bind)
  /\ UNCHANGED <<phase, events, pending, ids, respawn>>

EnterFresh(p) ==
  /\ phase = "sessions" /\ where[p] = "outside"
  /\ SaveOf(p, bind) = NoId
  /\ GenerateInstanceId
  /\ AddPlayerToMap(p, nextId, saves, maps, bind)
  /\ UNCHANGED <<phase, events, pending, respawn>>

(* LoadFromDB: the bind of the player, if its instance still exists, ...    *)
LoadedBind(p) ==
  [bind EXCEPT ![p] = IF prow[p] \in DOMAIN row THEN prow[p] ELSE NoId]

LoadedSaves(p) ==
  IF prow[p] \notin DOMAIN row THEN saves
  ELSE LET save == IF prow[p] \in DOMAIN saves THEN saves[prow[p]]
                   ELSE NewSave(row[prow[p]])
       IN With(saves, prow[p], [save EXCEPT !.players = @ \cup {p}])

(* ... and the instance he was in, unless he is saved to another one.       *)
LoginInstanceIdUnchecked(p) == at[p]

LoginInstanceId(p) ==
  IF SaveOf(p, LoadedBind(p)) \in {NoId, at[p]} THEN at[p] ELSE NoId

(* CreateInstanceForPlayer at login: is there a map to put the player into? *)
HasLoginMap(p) ==
  \/ LoginInstanceId(p) \in DOMAIN maps
  \/ LoginInstanceId(p) = LoadedBind(p)[p]
  \/ LoginInstanceId(p) = NoId

LoginInside(p) ==
  /\ phase = "sessions" /\ where[p] = "offline" /\ at[p] # NoId
  /\ HasLoginMap(p)
  /\ AddPlayerToMap(p,
       IF LoginInstanceId(p) # NoId THEN LoginInstanceId(p) ELSE SaveOf(p, LoadedBind(p)),
       LoadedSaves(p), maps, LoadedBind(p))
  /\ UNCHANGED <<phase, events, pending, ids, respawn>>

LoginOutside(p) ==
  /\ phase = "sessions" /\ where[p] = "offline"
  /\ at[p] = NoId \/ ~ HasLoginMap(p)
  /\ where' = [where EXCEPT ![p] = "outside"]
  /\ at' = [at EXCEPT ![p] = NoId]
  /\ bind' = LoadedBind(p)
  /\ prow' = [prow EXCEPT ![p] = LoadedBind(p)[p]]
  /\ saves' = LoadedSaves(p)
  /\ UNCHANGED <<phase, queue, gbind, world, ids, row, grow, respawn>>

(* INSTANCE_MAP_EVENT_PLAYER_LEFT, with the players that refer to the map.  *)
PlayerLeft(S, id, linked) ==
  /\ queue' = SetResetSchedule(TRUE, queue, S, id, linked)
  /\ UnloadInstanceSave(S, id, linked)

Unbound(S, p, id) ==
  IF id \in DOMAIN S THEN [S EXCEPT ![id].players = @ \ {p}] ELSE S

(* LogoutPlayer: the bind first, then the map, which deletes the player and *)
(* with him his reference.                                                  *)
LogoutInside(p) ==
  /\ phase = "sessions" /\ where[p] = "inside" /\ p \in Quitter
  /\ maps' = StartUnloadTimer(maps, at[p])
  /\ PlayerLeft(Unbound(saves, p, bind[p]), at[p], Linked(at[p]) \ {p})
  /\ where' = [where EXCEPT ![p] = "offline"]
  /\ bind' = [bind EXCEPT ![p] = NoId]
  /\ UNCHANGED <<phase, at, gbind, events, pending, ids, prow, grow, respawn>>

LogoutOutside(p) ==
  /\ phase = "sessions" /\ where[p] = "outside" /\ p \in Quitter
  /\ UnloadInstanceSave(Unbound(saves, p, bind[p]), bind[p], Linked(bind[p]))
  /\ where' = [where EXCEPT ![p] = "offline"]
  /\ bind' = [bind EXCEPT ![p] = NoId]
  /\ UNCHANGED <<phase, at, queue, gbind, world, ids, prow, grow, respawn>>

(* HandleMoveWorldportAck to the outside: ResetMap.                         *)
Arrive(p) ==
  /\ phase = "sessions" /\ where[p] = "leaving"
  /\ where' = [where EXCEPT ![p] = "outside"]
  /\ at' = [at EXCEPT ![p] = NoId]
  /\ UNCHANGED <<phase, bind, manager, world, ids, db>>

-----------------------------------------------------------------------------
(* INSTANCE_RESET_ALL, by a player without a group or by a group's leader.  *)

IsEmpty(id) == id \notin DOMAIN maps \/ Linked(id) = {}

Unsaved(f, id) == [x \in DOMAIN f |-> IF f[x] = id THEN NoId ELSE f[x]]

DeleteInstanceFromDB(id) ==
  /\ row' = Without(row, id)
  /\ prow' = Unsaved(prow, id) /\ grow' = Unsaved(grow, id)

ResetInstance(id, S) ==
  /\ maps' = IF id \in DOMAIN maps THEN [maps EXCEPT ![id] = ResetEmpty(@)] ELSE maps
  /\ saves' = IF IsUnloaded(S, id, Linked(id)) THEN Without(S, id) ELSE S
  /\ DeleteInstanceFromDB(id)

ResetInstances(p) ==
  /\ phase = "sessions" /\ where[p] \in {"inside", "outside"}
  /\ GroupOf[p] = None /\ bind[p] # NoId /\ IsEmpty(bind[p])
  /\ ResetInstance(bind[p], Unbound(saves, p, bind[p]))
  /\ bind' = [bind EXCEPT ![p] = NoId]
  /\ UNCHANGED <<phase, where, at, queue, gbind, events, pending, ids, respawn>>

(* The members offline in a loaded instance are moved to its entrance.      *)
ResetGroupInstances(g) ==
  /\ phase = "sessions" /\ where[Leader[g]] \in {"inside", "outside"}
  /\ gbind[g] # NoId /\ IsEmpty(gbind[g])
  /\ ResetInstance(gbind[g], [saves EXCEPT ![gbind[g]].groups = @ \ {g}])
  /\ gbind' = [gbind EXCEPT ![g] = NoId]
  /\ at' = [p \in Player |->
       IF GroupOf[p] = g /\ where[p] = "offline" /\ gbind[g] \in DOMAIN maps
       THEN NoId ELSE at[p]]
  /\ UNCHANGED <<phase, where, bind, queue, events, pending, ids, respawn>>

-----------------------------------------------------------------------------
(* The maps.                                                               *)

(* MapManager::Update, and MapInstanced::Update for the timers that elapse. *)
StartMaps(elapsed) ==
  /\ phase = "sessions"
  /\ elapsed \subseteq {id \in DOMAIN maps : maps[id].unload = "delayed"}
  /\ phase' = "maps"
  /\ maps' = [id \in DOMAIN maps |->
                IF id \in elapsed THEN [maps[id] EXCEPT !.unload = "now"] ELSE maps[id]]
  /\ pending' = {id \in DOMAIN maps : maps'[id].unload = "now"}
  /\ UNCHANGED <<players, manager, events, ids, db>>

(* TeleportTo another map, from the map's own update or from a session.     *)
Leave(p) ==
  /\ phase \in {"sessions", "maps"} /\ where[p] = "inside"
  /\ where' = [where EXCEPT ![p] = "leaving"]
  /\ maps' = StartUnloadTimer(maps, at[p])
  /\ IF IsUpdatingMaps
     THEN /\ events' = Append(events, [type |-> "PLAYER_LEFT", id |-> at[p]])
          /\ UNCHANGED <<queue, saves, row>>
     ELSE /\ PlayerLeft(saves, at[p], Linked(at[p]))
          /\ UNCHANGED events
  /\ UNCHANGED <<phase, at, bind, gbind, pending, ids, prow, grow, respawn>>

(* Unit::Kill of a creature.  Bound: one kill for each map and update counts*)
(* as all the events of one update set the same time.                       *)
Kill(id) ==
  LET event == [type |-> "NORMAL_RESET_TIME", id |-> id]
  IN /\ phase = "maps" /\ id \notin pending
     /\ \E p \in Linked(id) : where[p] = "inside"
     /\ \A i \in DOMAIN events : events[i] # event
     /\ events' = Append(events, event)
     /\ respawn' = respawn \cup {id}
     /\ UNCHANGED <<phase, players, manager, maps, pending, ids, row, prow, grow>>

EndMaps ==
  /\ phase = "maps" /\ phase' = "events"
  /\ UNCHANGED <<players, manager, world, ids, db>>

-----------------------------------------------------------------------------
(* ProcessInstanceMapEvents, one after the other, then the pending maps.    *)

ProcessPlayerLeft ==
  /\ phase = "events" /\ events # <<>> /\ Head(events).type = "PLAYER_LEFT"
  /\ PlayerLeft(saves, Head(events).id, Linked(Head(events).id))
  /\ events' = Tail(events)
  /\ UNCHANGED <<phase, players, gbind, maps, pending, ids, prow, grow, respawn>>

ProcessNormalResetTime ==
  /\ phase = "events" /\ events # <<>> /\ Head(events).type = "NORMAL_RESET_TIME"
  /\ saves' = IF Head(events).id \in DOMAIN saves
              THEN [saves EXCEPT ![Head(events).id].reset = ResetDelay] ELSE saves
  /\ events' = Tail(events)
  /\ UNCHANGED <<phase, players, queue, gbind, maps, pending, ids, db>>

(* DestroyInstance keeps a map that players still refer to.                 *)
DestroyedWithPlayers == pending

Destroyed == {id \in pending : Linked(id) = {}}

(* The ids whose instance was reset while the map was there.                *)
ReleasedNever == {}

Released == {id \in Destroyed : maps[id].freeId}

DestroyPendingInstances ==
  /\ phase = "events" /\ events = <<>>
  /\ phase' = "resets"
  /\ maps' = Restrict(maps, DOMAIN maps \ Destroyed)
  /\ FreeInstanceIds(Released)
  /\ respawn' = respawn \ {id \in Destroyed : maps[id].wipe}
  /\ pending' = {}
  /\ UNCHANGED <<players, manager, events, row, prow, grow>>

-----------------------------------------------------------------------------
(* InstanceSaveManager::Update.                                            *)

Due == {id \in Id : <<id, -1>> \in queue}

(* _ResetInstance: nobody stays bound, and the id is free at once only if   *)
(* there is no map.                                                         *)
ReleasedAtReset(id) == {id} \ DOMAIN maps

FreeOnUnload(m) == [m EXCEPT !.freeId = TRUE]

ResetDue(id) ==
  /\ phase = "resets" /\ id \in Due
  /\ queue' = queue \ {<<id, -1>>}
  /\ bind' = Unsaved(bind, id) /\ gbind' = Unsaved(gbind, id)
  /\ saves' = Without(saves, id)
  /\ DeleteInstanceFromDB(id)
  /\ respawn' = respawn \ {id}
  /\ FreeInstanceIds(ReleasedAtReset(id))
  /\ maps' = IF id \notin DOMAIN maps THEN maps
             ELSE [maps EXCEPT ![id] = FreeOnUnload(IF Linked(id) = {} THEN ResetEmpty(@)
                                                    ELSE ResetFull(@))]
  /\ UNCHANGED <<phase, where, at, events, pending>>

Earlier(t) == IF t = -1 THEN -1 ELSE t - 1

EndUpdate ==
  /\ phase = "resets" /\ Due = {} /\ phase' = "sessions"
  /\ UNCHANGED <<players, manager, world, ids, db>>

TimePasses ==
  /\ phase = "resets" /\ Due = {} /\ phase' = "sessions"
  /\ queue' = {<<e[1], Earlier(e[2])>> : e \in queue}
  /\ saves' = [id \in DOMAIN saves |-> [saves[id] EXCEPT !.reset = Earlier(@)]]
  /\ row' = [id \in DOMAIN row |-> Earlier(row[id])]
  /\ UNCHANGED <<players, gbind, world, ids, prow, grow, respawn>>

-----------------------------------------------------------------------------
(* The server goes down and comes up: LoadInstances deletes what is expired *)
(* or nobody is saved to, LoadResetTimes schedules the rest, LoadGroups     *)
(* loads the saves of the groups.                                           *)
LoadedRows ==
  {id \in DOMAIN row :
    /\ row[id] >= 0
    /\ \/ \E p \in Player : prow[p] = id
       \/ \E g \in Group : grow[g] = id}

Known(id) == IF id \in LoadedRows THEN id ELSE NoId

GroupsOf(id) == {g \in Group : grow[g] = id}

Restart ==
  /\ Crashes
  /\ phase' = "sessions"
  /\ where' = [p \in Player |-> "offline"]
  /\ at' \in [Player -> NoneOr]
  /\ \A p \in Player :
       CASE where[p] = "offline" -> at'[p] = Known(at[p])
         [] where[p] = "inside"  -> at'[p] \in {NoId, Known(at[p])}
         [] OTHER                -> at'[p] = NoId
  /\ bind' = [p \in Player |-> NoId]
  /\ gbind' = [g \in Group |-> Known(grow[g])]
  /\ saves' = [id \in {i \in LoadedRows : GroupsOf(i) # {}} |->
                 [NewSave(row[id]) EXCEPT !.groups = GroupsOf(id)]]
  /\ queue' = {<<id, row[id]>> : id \in {i \in LoadedRows : row[i] > 0}}
  /\ events' = <<>> /\ maps' = <<>> /\ pending' = {}
  /\ free' = Id \ LoadedRows
  /\ nextId' = NextAfter(free', NoId)
  /\ row' = Restrict(row, LoadedRows)
  /\ prow' = [p \in Player |-> Known(prow[p])]
  /\ grow' = [g \in Group |-> Known(grow[g])]
  /\ respawn' = respawn \cap LoadedRows

Next ==
  \/ \E p \in Player :
       \/ EnterSaved(p) \/ EnterFresh(p)
       \/ LoginInside(p) \/ LoginOutside(p)
       \/ LogoutInside(p) \/ LogoutOutside(p)
       \/ Leave(p) \/ Arrive(p) \/ ResetInstances(p)
  \/ \E g \in Group : ResetGroupInstances(g)
  \/ \E elapsed \in SUBSET DOMAIN maps : StartMaps(elapsed)
  \/ \E id \in DOMAIN maps : Kill(id)
  \/ EndMaps \/ ProcessPlayerLeft \/ ProcessNormalResetTime
  \/ DestroyPendingInstances
  \/ \E id \in Id : ResetDue(id)
  \/ EndUpdate \/ TimePasses \/ Restart

Spec == Init /\ [][Next]_vars

-----------------------------------------------------------------------------
(* Properties.                                                             *)

(* A player's bind and the list of players of the save name each other, and *)
(* so do a group's bind and the list of groups: a save that is deleted or   *)
(* evicted leaves no bind behind, whose save pointer would dangle.          *)
Agree(B, GB, S) ==
  /\ \A p \in Player, id \in Id : B[p] = id <=> id \in DOMAIN S /\ p \in S[id].players
  /\ \A g \in Group, id \in Id : GB[g] = id <=> id \in DOMAIN S /\ g \in S[id].groups

SavesAgree == Agree(bind, gbind, saves)

(* What is in memory survives a crash: a save has its row, and the bind of a*)
(* player or a group is the one that the database has.                      *)
RowsAgree ==
  /\ DOMAIN saves \subseteq DOMAIN row
  /\ \A p \in Player : bind[p] # NoId => prow[p] = bind[p]
  /\ \A g \in Group : gbind[g] # NoId => grow[g] = gbind[g]

(* The binds, the saves and the database agree.                             *)
BindsAgree == SavesAgree /\ RowsAgree

(* Whoever comes in, by a teleport or a login, comes into the instance that *)
(* his group or he is saved to, if any: the cases InstanceMap::             *)
(* AddPlayerToMap refuses with an error or asserts never arise.             *)
EntersOwnInstance ==
  [][\A p \in Player :
       where[p] # "inside" /\ where'[p] = "inside"
         => SaveOf(p, LoadedBind(p)) \in {NoId, at'[p]}]_vars

(* _nextInstanceId is the lowest free id, or one past all of them: what     *)
(* GenerateInstanceId takes for granted, whichever of the three places an   *)
(* id is freed in, and after a restart.                                     *)
NextIsLowestFree == nextId = NextAfter(free, NoId)

(* Ids are freed neither too late nor too early.  An id in use with nobody  *)
(* inside has a reset coming that will free it, or a map that will free it  *)
(* when it is unloaded.  Nothing is left of an instance whose id is free: no*)
(* save, map or row that the next owner of the id would inherit, or whose   *)
(* players he would meet.  While nobody logs out.                           *)
IdsAreReleased ==
  /\ \A id \in Id \ free :
       \/ Linked(id) # {}
       \/ \E t \in Time : <<id, t>> \in queue
       \/ id \in DOMAIN maps /\ maps[id].freeId
  /\ \A id \in free : id \notin DOMAIN saves \cup DOMAIN maps \cup DOMAIN row \cup respawn

(* "A freshly generated id must never resolve to a live map": the comment in*)
(* MapInstanced::CreateInstanceForPlayer.                                   *)
FreshIdHasNoMap == nextId \notin DOMAIN maps

(* "The reset time is only scheduled when there are no players inside": the *)
(* comment in InstanceMap::SetResetSchedule.                                *)
NoResetWhileInside ==
  \A p \in Player, t \in Time : where[p] = "inside" => <<at[p], t>> \notin queue

(* "If last player set unload timer", InstanceMap::RemovePlayerFromMap: a   *)
(* map without players has its unload timer running.                        *)
EmptyMapIsTimed ==
  \A id \in DOMAIN maps : Linked(id) = {} => maps[id].unload # "never"

=============================================================================
