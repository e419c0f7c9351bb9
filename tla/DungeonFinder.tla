--------------------------- MODULE DungeonFinder ----------------------------
(***************************************************************************)
(* The dungeon finder: DungeonFinding/LFGMgr, LFGQueue and LFGScripts, with *)
(* the groups it forms and that change under it (Groups/Group).             *)
(*                                                                         *)
(* LFGMgr keeps a state for every player and group, role checks, proposals  *)
(* and votes; LFGQueue keeps who waits.  Both refer to players and groups by*)
(* GUID, and a player who waits with his group is written down in all of    *)
(* them.  Groups call the finder in the middle of a change of theirs        *)
(* (LFGGroupScript), and the finder changes groups in the middle of its own *)
(* calls; so what they keep is one record, w, and the calls are operators   *)
(* that take it and return it.                                             *)
(*                                                                         *)
(* Left out: roles and dungeons (who may play with whom is the constant     *)
(* Compatible), positions, cooldowns, ignores, and the leader of a group,   *)
(* who can pass the lead to any member at any time: what a leader may do    *)
(* any member may.                                                         *)
(***************************************************************************)
EXTENDS Integers, FiniteSetsExt, Functions

CONSTANTS
  Player,
  Group,        \* bound: GUIDs of groups, used again when nothing names them
  None,
  Size,         \* MAX_GROUP_SIZE
  Votes,        \* LFG_GROUP_KICK_VOTES_NEEDED
  Compatible,   \* sets of Size players whose roles and dungeons fit
  Sleepers,     \* players who may log out
  Victims       \* bound: players about whom there may be a vote

ASSUME FinderAssumption ==
  /\ None \notin Player \cup Group /\ Player \cap Group = {}
  /\ IsFiniteSet(Player) /\ IsFiniteSet(Group)
  /\ Size \in Nat \ {0, 1} /\ Votes \in Nat /\ Sleepers \subseteq Player /\ Victims \subseteq Player
  /\ Compatible \subseteq {S \in SUBSET Player : Cardinality(S) = Size}

Guid == Player \cup Group

VARIABLES
  phase,    \* of World::Update: "sessions" or "matching" (in FindGroups)
  online,   \* connected players
  w         \* the groups and the finder:
            \*   members    Group::m_memberSlots, empty if there is no group
            \*   made       the groups with GROUPTYPE_LFG
            \*   state, old m_State and m_OldState of LfgPlayerData, LfgGroupData
            \*   of         LfgPlayerData::m_Group
            \*   players    LfgGroupData::m_Players
            \*   checks     RoleChecksStore: who is asked and who answered
            \*   data       QueueDataStore: the players of an entry
            \*   new        newToQueueStore
            \*   current    currentQueueStore
            \*   rematch    _rematchStore
            \*   proposals  ProposalsStore
            \*   cancels    _finishedQueueCancels, empty but during Update
            \*   boots      BootsStore: the victims

vars == <<phase, online, w>>

State    == {"none", "rolecheck", "queued", "proposal", "dungeon", "finished"}
OldState == {"none", "dungeon", "finished"}
Answer   == {"pending", "agree", "deny"}

Exists(v, g) == g # None /\ v.members[g] # {}

GroupOf(v, p) ==
  IF \E g \in Group : p \in v.members[g]
  THEN CHOOSE g \in Group : p \in v.members[g] ELSE None

TypeOK ==
  /\ phase \in {"sessions", "matching"} /\ online \subseteq Player
  /\ w.members \in [Group -> SUBSET Player] /\ w.made \subseteq Group
  /\ w.state \in [Guid -> State] /\ w.old \in [Guid -> OldState]
  /\ w.of \in [Player -> Group \cup {None}] /\ w.players \in [Group -> SUBSET Player]
  /\ \A g \in DOMAIN w.checks :
       g \in Group /\ w.checks[g].answered \subseteq w.checks[g].asked
  /\ DOMAIN w.data \subseteq Guid /\ \A x \in DOMAIN w.data : w.data[x] \subseteq Player
  /\ w.new \cap w.current = {}
  /\ \A pr \in w.proposals :
       /\ pr.queues \subseteq Guid /\ DOMAIN pr.of \subseteq Player
       /\ pr.of \in [DOMAIN pr.of -> Group \cup {None}] /\ pr.group \in Group \cup {None}
       /\ pr.accept \in [DOMAIN pr.of -> Answer] /\ pr.isNew \in BOOLEAN /\ pr.begun \in BOOLEAN
  /\ DOMAIN w.boots \subseteq Group /\ w.cancels = <<>>

-----------------------------------------------------------------------------
(* States of players and groups.                                           *)

SetStates(v, S, st) ==
  [v EXCEPT !.state = [x \in Guid |-> IF x \in S THEN st ELSE @[x]],
            !.old   = [x \in Guid |-> IF x \in S /\ st \in OldState THEN st ELSE @[x]]]

RestoreStates(v, S) ==
  [v EXCEPT !.state = [x \in Guid |-> IF x \in S THEN v.old[x] ELSE @[x]]]

IsLfgGroup(v, x) == x \in Group /\ v.old[x] # "none"

-----------------------------------------------------------------------------
(* LFGQueue: its lists, of which the order is left out, and its data.       *)

RemoveFromQueue(v, S) ==
  [v EXCEPT !.data = Restrict(@, DOMAIN @ \ S),
            !.new = @ \ S, !.current = @ \ S, !.rematch = @ \ S]

AddQueueData(v, x, S) ==
  LET u == RemoveFromQueue(v, {x})
  IN [u EXCEPT !.data = [y \in DOMAIN @ \cup {x} |-> IF y = x THEN S ELSE @[y]],
               !.new = @ \cup {x}]

(* AddToQueue of the entries of S that still have data, to be matched anew. *)
ReAddLast(v, S) ==
  LET T == S \cap DOMAIN v.data
  IN [v EXCEPT !.new = @ \ T, !.current = @ \cup T]

ReAdd(v, S) ==
  LET T == S \cap DOMAIN v.data
  IN [v EXCEPT !.new = @ \ T, !.current = @ \cup T, !.rematch = @ \cup T]

-----------------------------------------------------------------------------
(* Role checks.                                                            *)

(* A role check that fails: it is aborted or times out, somebody chooses no *)
(* role, or the roles do not fit.                                          *)
FailRoleCheck(v, g) ==
  IF g \notin DOMAIN v.checks THEN v
  ELSE [RestoreStates(v, v.checks[g].asked \cup {g}) EXCEPT
          !.checks = Restrict(@, DOMAIN @ \ {g})]

FinishRoleCheck(v, g) ==
  LET S == v.checks[g].asked
      u == AddQueueData(SetStates(v, S \cup {g}, "queued"), g, S)
  IN [u EXCEPT !.checks = Restrict(@, DOMAIN @ \ {g})]

(* UpdateRoleCheck(g, p): the outcomes of p's answer.                       *)
UpdateRoleCheck(v, g, p) ==
  IF g \notin DOMAIN v.checks \/ p \notin v.checks[g].asked THEN {v}
  ELSE LET u == [v EXCEPT !.checks[g].answered = @ \cup {p}]
       IN {FailRoleCheck(v, g),
           IF u.checks[g].answered = u.checks[g].asked THEN FinishRoleCheck(u, g) ELSE u}

-----------------------------------------------------------------------------
(* RemoveProposal: who denied (or did not answer in time) is out, with the  *)
(* group he waited with; the others wait again.                            *)

Denied(pr, failed) ==
  {p \in DOMAIN pr.accept :
     pr.accept[p] = "deny" \/ (failed /\ pr.accept[p] = "pending")}

EntryOf(pr, p) == IF pr.of[p] # None THEN pr.of[p] ELSE p

ToRemove(v, pr, failed) ==
  {EntryOf(pr, p) : p \in Denied(pr, failed)}
    \cup {pr.of[p] : p \in {q \in DOMAIN pr.of : pr.of[q] # None /\ ~ Exists(v, pr.of[q])}}

RemoveProposal(v, pr, failed) ==
  LET remove == ToRemove(v, pr, failed)
      out    == {p \in DOMAIN pr.of : EntryOf(pr, p) \in remove}
      stay   == DOMAIN pr.of \ out
      v1 == RestoreStates(v, out \cup {EntryOf(pr, p) : p \in out})
      v2 == SetStates(v1, stay \cup {EntryOf(pr, p) : p \in stay}, "queued")
      v3 == ReAdd(RemoveFromQueue(v2, remove), pr.queues \ remove)
  IN [v3 EXCEPT !.proposals = @ \ {pr}]

Deny(pr, S) == [pr EXCEPT !.accept = [p \in DOMAIN @ |-> IF p \in S THEN "deny" ELSE @[p]]]

(* The first proposal with a player of S, for whom it is denied.            *)
DenyFor(v, S) ==
  LET P == {pr \in v.proposals : DOMAIN pr.accept \cap S # {}}
  IN IF P = {} THEN v
     ELSE LET pr == CHOOSE q \in P : TRUE
              dn == Deny(pr, S)
          IN RemoveProposal([v EXCEPT !.proposals = (@ \ {pr}) \cup {dn}], dn, FALSE)

-----------------------------------------------------------------------------
(* LeaveLfg(x) of a player or a group x.                                    *)

(* The state of a group that leaves the queue: it may be in a dungeon.      *)
AfterQueue(v, g) ==
  IF Exists(v, g) /\ g \in v.made THEN v.old[g] ELSE "none"

LeaveLfg(v, x, disconnected) ==
  LET g == IF x \in Group THEN x ELSE v.of[x]
  IN CASE v.state[x] = "queued" /\ g # None ->
            SetStates(RemoveFromQueue(v, {g}), v.players[g] \cup {g}, AfterQueue(v, g))
       [] v.state[x] = "queued" /\ g = None ->
            SetStates(RemoveFromQueue(v, {x}), {x}, "none")
       [] v.state[x] = "rolecheck" /\ g # None -> FailRoleCheck(v, g)
       [] v.state[x] = "proposal" ->
            DenyFor(v, IF x \in Group THEN v.players[x] ELSE {x})
       [] v.state[x] \in {"dungeon", "finished"} /\ x \in Player /\ ~ disconnected ->
            SetStates(v, {x}, "none")
       [] OTHER -> v

-----------------------------------------------------------------------------
(* Groups, and what LFGGroupScript does when they change.                   *)

(* RemoveGroupData, and the group is deleted.                               *)
Disband(v, g) ==
  LET pending == v.state[g] = "proposal"
      v1 == FailRoleCheck(v, g)
      v2 == IF pending THEN v1
            ELSE SetStates(RemoveFromQueue(v1, {g}), v1.players[g], "none")
  IN [SetStates(v2, {g}, "none") EXCEPT
        !.of = [p \in Player |-> IF p \in v2.players[g] THEN None ELSE @[p]],
        !.players[g] = {}, !.members[g] = {}, !.made = @ \ {g},
        !.boots = Restrict(@, DOMAIN @ \ {g})]

(* OnAddMember: p leaves the finder, and so does the group, unless it is the*)
(* finder that adds p.  A new group is not in the finder.                   *)
OnAddMemberEarlier(v, g, p, forming) ==
  LET v1 == IF v.state[p] \in {"queued", "proposal"} THEN LeaveLfg(v, p, FALSE) ELSE v
      v2 == IF v.state[g] = "queued" THEN LeaveLfg(v1, g, FALSE) ELSE v1
  IN [v2 EXCEPT !.of[p] = g, !.players[g] = @ \cup {p}]

OnAddMember(v, g, p, forming) ==
  LET v1 == IF v.state[p] \in {"queued", "proposal"} THEN LeaveLfg(v, p, FALSE) ELSE v
      v2 == IF \/ v.state[g] = "queued"
               \/ v.state[g] \in {"rolecheck", "proposal"} /\ ~ forming
            THEN LeaveLfg(v1, g, FALSE) ELSE v1
  IN [v2 EXCEPT !.of[p] = g, !.players[g] = @ \cup {p}]

AddMember(v, g, p, forming) ==
  OnAddMember([v EXCEPT !.members[g] = @ \cup {p}], g, p, forming)

(* OnRemoveMember: p leaves the finder, with the dungeon, and takes his     *)
(* group out of the queue; but not if he changes groups because a proposal  *)
(* came about (method is "default").                                        *)
OnRemoveMemberEarlier(v, g, p, method) ==
  LET v1 == LeaveLfg(v, p, FALSE)
      v2 == IF v.state[g] = "proposal" /\ method = "default" THEN v ELSE v1
  IN [v2 EXCEPT !.of[p] = None, !.players[g] = @ \ {p}]

OnRemoveMember(v, g, p, method) ==
  LET v1 == IF g \in DOMAIN v.boots /\ v.boots[g] = p
            THEN [v EXCEPT !.boots = Restrict(@, DOMAIN @ \ {g})] ELSE v
      v2 == LeaveLfg(v1, p, FALSE)
      v3 == IF v2.state[p] \in {"dungeon", "finished"} THEN LeaveLfg(v2, p, FALSE) ELSE v2
      v4 == IF v.state[g] = "proposal" /\ method = "default" THEN v1 ELSE v3
  IN [v4 EXCEPT !.of[p] = None, !.players[g] = @ \ {p}]

(* A group needs two members, of whom one is online besides p; a group of   *)
(* the finder can go on with one, who stays in the dungeon.                 *)
Least(v, g) == IF g \in v.made THEN 1 ELSE 2

RemoveMember(v, g, p, method, inside) ==
  LET v1   == OnRemoveMember(v, g, p, method)
      rest == v.members[g] \ {p}
      v2   == [v1 EXCEPT !.members[g] = rest]
  IN IF Cardinality(v.members[g]) <= Least(v, g) THEN Disband(v1, g)
     ELSE IF \/ Cardinality(rest \cap online) < Least(v, g)
             \/ g \in v.made /\ Cardinality(rest) = 1 /\ ~ inside
     THEN Disband(v2, g)
     ELSE v2

(* A group GUID that nothing refers to: GUIDs of groups are never repeated. *)
Fresh(v) ==
  {g \in Group :
     /\ v.members[g] = {} /\ v.players[g] = {} /\ v.state[g] = "none"
     /\ g \notin DOMAIN v.data \cup DOMAIN v.checks \cup DOMAIN v.boots
     /\ g \notin Range(v.of) \cup v.rematch
     /\ \A pr \in v.proposals : g # pr.group /\ g \notin Range(pr.of)}

-----------------------------------------------------------------------------
(* UpdateProposal: p answers.                                              *)

(* MakeNewGroup: the players leave their groups for the one of the proposal,*)
(* or for h if there is none.                                              *)
Enter(p, h, v) ==
  LET g == GroupOf(v, p)
  IN IF g = h THEN v
     ELSE AddMember(IF g = None THEN v ELSE RemoveMember(v, g, p, "default", FALSE), h, p, TRUE)

MakeNewGroup(v, pr, h) ==
  LET g  == IF Exists(v, pr.group) THEN pr.group ELSE h
      v1 == IF g = h THEN [v EXCEPT !.made = @ \cup {h}, !.state[h] = "proposal"] ELSE v
      v2 == FoldSet(LAMBDA p, u : Enter(p, g, u), v1, DOMAIN pr.accept \cap online)
  IN SetStates(v2, {g}, "dungeon")

(* The group guard: the group may have grown since the proposal was made.   *)
TooMany(v, pr) ==
  /\ Exists(v, pr.group)
  /\ Cardinality(v.members[pr.group])
       + Cardinality({p \in DOMAIN pr.of : v.of[p] # pr.group}) > Size

Succeed(v, pr, h) ==
  LET v1 == RemoveFromQueue(SetStates(v, DOMAIN pr.accept, "dungeon"), pr.queues)
  IN [MakeNewGroup(v1, pr, h) EXCEPT !.proposals = @ \ {pr}]

UpdateProposalSoon(v, pr, p, accept, h) ==
  LET now == [pr EXCEPT !.accept[p] = IF accept THEN "agree" ELSE "deny"]
      v1  == [v EXCEPT !.proposals = (@ \ {pr}) \cup {now}]
  IN IF ~ accept THEN RemoveProposal(v1, now, FALSE)
     ELSE IF \A q \in DOMAIN now.accept : now.accept[q] = "pending" => now.of[q] # None
     THEN Succeed(v1, now, h) ELSE v1

UpdateProposal(v, pr, p, accept, h) ==
  LET now == [pr EXCEPT !.accept[p] = IF accept THEN "agree" ELSE "deny"]
      v1  == [v EXCEPT !.proposals = (@ \ {pr}) \cup {now}]
      all == \A q \in DOMAIN now.accept : now.accept[q] = "agree"
      their == Deny(now, {q \in DOMAIN now.of : now.of[q] = now.group})
  IN IF ~ accept THEN RemoveProposal(v1, now, FALSE)
     ELSE IF ~ all THEN v1
     ELSE IF TooMany(v, pr)
          THEN RemoveProposal([v EXCEPT !.proposals = (@ \ {pr}) \cup {their}], their, FALSE)
     ELSE Succeed(v1, now, h)

-----------------------------------------------------------------------------
(* Packets, in the phase of sessions.                                      *)

Packet(v) == phase = "sessions" /\ w' = v /\ UNCHANGED <<phase, online>>

(* JoinLfg of p, or of his group if all its members are online.  A proposal *)
(* is declined even if joining then fails.                                  *)
Join(v, p, g) ==
  IF g = None
  THEN {SetStates(AddQueueData(v, p, {p}), {p}, "queued")}
  ELSE LET S == v.members[g]
           c == [x \in DOMAIN v.checks \cup {g} |->
                   IF x = g THEN [asked |-> S, answered |-> {}] ELSE v.checks[x]]
       IN IF S \subseteq online
          THEN UpdateRoleCheck([SetStates(v, S \cup {g}, "rolecheck") EXCEPT !.checks = c], g, p)
          ELSE {}

JoinLfg(p) ==
  LET g  == GroupOf(w, p)
      x  == IF g = None THEN p ELSE g
      v1 == IF w.state[x] = "proposal" THEN LeaveLfg(w, x, FALSE) ELSE w
      v2 == IF v1.state[x] = "queued" THEN RemoveFromQueue(v1, {x}) ELSE v1
  IN /\ p \in online
     /\ \/ v1 # w /\ Packet(v1)
        \/ \E v \in Join(v2, p, g) : Packet(v)

HandleLfgLeave(p) ==
  LET g == GroupOf(w, p)
      x == IF g = None THEN p ELSE g
  IN p \in online /\ w.state[x] # "none" /\ Packet(LeaveLfg(w, x, FALSE))

HandleLfgSetRoles(p) ==
  LET g == GroupOf(w, p)
  IN p \in online /\ g \in DOMAIN w.checks /\ \E v \in UpdateRoleCheck(w, g, p) : Packet(v)

HandleLfgProposalResult(p) ==
  \E pr \in w.proposals, accept \in BOOLEAN :
    /\ p \in online \cap DOMAIN pr.accept
    /\ IF Exists(w, pr.group) THEN Packet(UpdateProposal(w, pr, p, accept, None))
       ELSE \E h \in Fresh(w) : Packet(UpdateProposal(w, pr, p, accept, h))

(* i invites p, who accepts: i leaves the finder if there is no group yet.  *)
(* This is one step.  What i does in between may matter in one case only,   *)
(* which is left out: i, without a group, invites p, then joins the finder  *)
(* again and gets a group by a proposal before p accepts.                  *)
HandleGroupAccept(i, p) ==
  /\ i \in online /\ p \in online \ {i} /\ GroupOf(w, p) = None
  /\ LET g == GroupOf(w, i)
     IN \/ /\ g # None /\ Cardinality(w.members[g]) < Size
           /\ Packet(AddMember(w, g, p, FALSE))
        \/ /\ g = None
           /\ \E h \in Fresh(w) :
                Packet(AddMember(AddMember(LeaveLfg(w, i, FALSE), h, i, FALSE), h, p, FALSE))

(* HandleGroupDisbandOpcode: p leaves his group; inside says whether the    *)
(* last member of a group of the finder stays in the dungeon.               *)
Leave(p) ==
  /\ p \in online /\ GroupOf(w, p) # None
  /\ \E inside \in BOOLEAN : Packet(RemoveMember(w, GroupOf(w, p), p, "leave", inside))

(* HandleGroupUninviteGuidOpcode: p removes q, or has a vote about him if   *)
(* the finder made the group.                                              *)
Uninvite(p, q) ==
  LET g == GroupOf(w, p)
  IN /\ p \in online /\ q # p /\ g # None /\ q \in w.members[g]
     /\ IF g \notin w.made THEN Packet(RemoveMember(w, g, q, "kick", FALSE))
        ELSE /\ q \in Victims /\ g \notin DOMAIN w.boots /\ Cardinality(w.members[g]) > Votes
             /\ w.state[g] # "finished"
             /\ Packet([w EXCEPT !.boots =
                          [x \in DOMAIN @ \cup {g} |-> IF x = g THEN q ELSE @[x]]])

(* UpdateBoot: the last vote.  The votes before it are left out.            *)
UpdateBoot(g) ==
  /\ g \in DOMAIN w.boots
  /\ LET victim == w.boots[g]
         v      == [w EXCEPT !.boots = Restrict(@, DOMAIN @ \ {g})]
     IN \/ Packet(v)
        \/ /\ Exists(w, g) /\ victim \in w.members[g]
           /\ \E inside \in BOOLEAN : Packet(RemoveMember(v, g, victim, "kick_lfg", inside))

(* q declines to join the group of p, who is alone in it, or logs out (then  *)
(* Logout follows): p's group is disbanded.  The invitation itself is left   *)
(* out: whoever is without a group may have one from any such group.  Only   *)
(* the finder's groups can be so small, and of them nobody takes one back.   *)
UninviteFromGroup(p, q) ==
  LET g == GroupOf(w, p)
  IN /\ q \in online \ {p} /\ GroupOf(w, q) = None
     /\ g # None /\ w.members[g] = {p}
     /\ Packet(Disband(w, g))

(* LFGPlayerScript::OnMapChanged: the last member leaves the dungeon.       *)
OnMapChanged(p) ==
  LET g == GroupOf(w, p)
  IN /\ p \in online /\ g # None /\ w.members[g] = {p}
     /\ Packet(Disband(LeaveLfg(w, g, FALSE), g))

Logout(p) ==
  /\ phase = "sessions" /\ p \in online \cap Sleepers
  /\ online' = online \ {p}
  /\ w' = LeaveLfg(w, p, GroupOf(w, p) # None)
  /\ UNCHANGED phase

(* OnLogin mends the finder's data if they do not know the player's group.  *)
Login(p) ==
  LET g == GroupOf(w, p)
  IN /\ phase = "sessions" /\ p \notin online
     /\ online' = online \cup {p}
     /\ w' = IF g = None \/ w.of[p] = g THEN w
             ELSE [SetStates(w, {p}, w.state[g]) EXCEPT !.of[p] = g, !.players[g] = @ \cup {p}]
     /\ UNCHANGED phase

-----------------------------------------------------------------------------
(* The rest of World::Update: the maps, for which the world waits, and then *)
(* LFGMgr::Update.                                                         *)

(* FinishDungeon: by JoinLfg (TryFinishDungeonFromCurrentInstance) if the   *)
(* group is not queued again, or by the script of an instance, in a map's   *)
(* thread; nothing else touches the finder from then on to its Update.      *)
FinishedEarlier(v, g) == SetStates(v, v.players[g] \cup {g}, "finished")

Finished(v, g) ==
  LET c == [x \in DOMAIN v.cancels \cup {g} |-> IF x = g THEN v.state[g] ELSE v.cancels[x]]
  IN SetStates([v EXCEPT !.cancels = IF v.state[g] = "dungeon" THEN @ ELSE c],
               v.players[g] \cup {g}, "finished")

FinishDungeon(g) ==
  /\ w.state[g] = "dungeon"
  /\ Packet(Finished(w, g))

(* ProcessFinishedQueueCancels: a group that has finished its dungeon stops *)
(* looking for members.                                                    *)
Cancel(g, v) ==
  CASE ~ Exists(v, g) -> v
    [] Exists(v, g) /\ v.cancels[g] = "queued" -> RemoveFromQueue(v, {g})
    [] Exists(v, g) /\ v.cancels[g] = "rolecheck" -> FailRoleCheck(v, g)
    [] Exists(v, g) /\ v.cancels[g] = "proposal" ->
         LET P == {pr \in v.proposals : g \in Range(pr.of)}
         IN IF P = {} THEN v
            ELSE LET pr == CHOOSE q \in P : TRUE
                 IN DenyFor(v, {p \in DOMAIN pr.of : pr.of[p] = g})

(* Dungeons are finished; role checks, proposals and votes expire.          *)
Update ==
  /\ phase = "sessions" /\ phase' = "matching" /\ UNCHANGED online
  /\ \E F \in SUBSET {g \in Group : w.old[g] = "dungeon"} :
     LET f == FoldSet(LAMBDA g, u : Finished(u, g), w, F)
         v == [FoldSet(Cancel, f, DOMAIN f.cancels) EXCEPT !.cancels = <<>>]
     IN \E C \in SUBSET DOMAIN v.checks, P \in SUBSET v.proposals, B \in SUBSET DOMAIN v.boots :
          LET v1 == FoldSet(LAMBDA g, u : FailRoleCheck(u, g), v, C)
              v2 == FoldSet(LAMBDA pr, u : RemoveProposal(u, pr, TRUE), v1, P)
          IN w' = [v2 EXCEPT !.boots = Restrict(@, DOMAIN @ \ B)]

(* FindNewGroups: the sets of entries of which one is x that make a group.  *)
Matches(v, x) ==
  {S \in SUBSET (v.current \cup {x}) :
     /\ x \in S /\ UNION {v.data[y] : y \in S} \in Compatible
     /\ \A y, z \in S : y = z \/ v.data[y] \cap v.data[z] = {}
     /\ \A y, z \in S : IsLfgGroup(v, y) /\ IsLfgGroup(v, z) => y = z
     /\ \A y \in S : v.state[y] = "queued"}

(* CheckCompatibility makes a proposal for S: the members of a group that   *)
(* is in its dungeon already are taken to agree.                            *)
Propose(v, S) ==
  LET lfg   == {y \in S : IsLfgGroup(v, y)}
      group == IF lfg = {} THEN None ELSE CHOOSE y \in lfg : TRUE
      isNew == lfg = {} \/ v.old[group] # "dungeon"
      all   == UNION {v.data[y] : y \in S}
      of    == [p \in all |-> IF p \in S THEN None ELSE CHOOSE y \in S : p \in v.data[y]]
      accept == [p \in all |-> IF ~ isNew /\ of[p] = group THEN "agree" ELSE "pending"]
  IN [v EXCEPT !.new = @ \ S, !.current = @ \ S,
               !.proposals = @ \cup {[queues |-> S, group |-> group, isNew |-> isNew,
                                      of |-> of, accept |-> accept, begun |-> FALSE]}]

(* FindGroups: entries to be matched again first, and then the new ones.    *)
FindGroups ==
  /\ phase = "matching" /\ UNCHANGED <<phase, online>>
  /\ \/ \E x \in w.rematch :
          LET v == [w EXCEPT !.rematch = @ \ {x}]
              M == IF x \in v.current THEN Matches(v, x) ELSE {}
          IN IF M = {} THEN w' = v ELSE \E S \in M : w' = Propose(v, S)
     \/ /\ w.rematch = {}
        /\ \E x \in w.new :
             LET v == [w EXCEPT !.new = @ \ {x}]
             IN IF Matches(v, x) = {} THEN w' = [v EXCEPT !.current = @ \cup {x}]
                ELSE \E S \in Matches(v, x) : w' = Propose(v, S)

(* The players of the new proposals are asked.                             *)
BeginProposals ==
  /\ phase = "matching" /\ w.new = {} /\ w.rematch = {}
  /\ phase' = "sessions" /\ UNCHANGED online
  /\ LET asked == UNION {DOMAIN pr.of : pr \in {q \in w.proposals : ~ q.begun}}
         their == {w.of[p] : p \in asked} \ {None}
     IN w' = [SetStates(w, asked \cup their, "proposal") EXCEPT
                !.proposals = {[pr EXCEPT !.begun = TRUE] : pr \in @}]

-----------------------------------------------------------------------------

Init ==
  /\ phase = "sessions" /\ online = Player
  /\ w = [members |-> [g \in Group |-> {}], made |-> {},
          state |-> [x \in Guid |-> "none"], old |-> [x \in Guid |-> "none"],
          of |-> [p \in Player |-> None], players |-> [g \in Group |-> {}],
          checks |-> <<>>, data |-> <<>>, new |-> {}, current |-> {}, rematch |-> {},
          proposals |-> {}, cancels |-> <<>>, boots |-> <<>>]

Packets ==
  \E p \in Player :
    \/ JoinLfg(p) \/ HandleLfgLeave(p) \/ HandleLfgSetRoles(p) \/ HandleLfgProposalResult(p)
    \/ Leave(p) \/ OnMapChanged(p) \/ Logout(p) \/ Login(p)
    \/ \E q \in Player : HandleGroupAccept(p, q) \/ Uninvite(p, q) \/ UninviteFromGroup(p, q)

Next ==
  \/ Packets \/ \E g \in Group : UpdateBoot(g) \/ FinishDungeon(g)
  \/ Update \/ FindGroups \/ BeginProposals

Spec == Init /\ [][Next]_vars

-----------------------------------------------------------------------------
(* Properties.                                                             *)

(* Who holds x: entries that wait, role checks and proposals.               *)
Waits(x)    == {y \in w.new \cup w.current : y = x \/ x \in w.data[y]}
CheckedBy(x)  == {g \in DOMAIN w.checks : x = g \/ x \in w.checks[g].asked}
ProposedBy(x) == {pr \in w.proposals : x \in DOMAIN pr.of \cup Range(pr.of)}

(* Between two packets each player and group is in one place at most, and   *)
(* in the one that its state names; the state it goes back to is none of     *)
(* these (TypeOK).  Only a proposal may go on to name a group that has been  *)
(* disbanded (RemoveGroupData), which has no state any more.                *)
OnePlace ==
  /\ TypeOK
  /\ phase = "sessions" =>
       \A x \in Guid :
         /\ Cardinality(Waits(x)) + Cardinality(CheckedBy(x)) + Cardinality(ProposedBy(x)) <= 1
         /\ Waits(x) # {}      <=> w.state[x] = "queued"
         /\ CheckedBy(x) # {}  <=> w.state[x] = "rolecheck"
         /\ ProposedBy(x) # {} /\ (x \in Player \/ Exists(w, x)) <=> w.state[x] = "proposal"

(* What waits, is checked or is proposed is a whole group, whose members are*)
(* online, or a player without a group; or, until the proposal it is in has *)
(* ended, which "still owns it and removes it on success or failure"         *)
(* (RemoveGroupData), what a group of one that has been disbanded left: the *)
(* entry of its player, who has no group.                                  *)
WholeGroup(g, S) == Exists(w, g) /\ S = w.members[g] /\ S \subseteq online

LeftBehind(g, S) ==
  /\ ~ Exists(w, g)
  /\ \E p \in online, pr \in w.proposals :
       /\ S = {p} /\ GroupOf(w, p) = None
       /\ g \in pr.queues /\ p \in DOMAIN pr.of /\ pr.of[p] = g

Whole(x, S) ==
  IF x \in Player THEN x \in online /\ S = {x} /\ GroupOf(w, x) = None
  ELSE WholeGroup(x, S) \/ LeftBehind(x, S)

EntriesAreWhole ==
  phase = "sessions" =>
    /\ \A x \in DOMAIN w.data : Whole(x, w.data[x])
    /\ \A g \in DOMAIN w.checks : WholeGroup(g, w.checks[g].asked)
    /\ \A pr \in w.proposals :
         /\ pr.queues \subseteq DOMAIN w.data
         /\ DOMAIN pr.of = UNION {w.data[x] : x \in pr.queues}

(* The finder's picture of the groups is theirs, and votes are about members*)
GroupsAgree ==
  /\ w.players = w.members
  /\ \A p \in Player : w.of[p] = GroupOf(w, p)
  /\ \A g \in Group : Cardinality(w.members[g]) <= Size
  /\ \A g \in DOMAIN w.boots : w.boots[g] \in w.members[g]

(* A group that could be made of the entries that were matched is not left  *)
(* waiting.                                                                *)
NoMatchIsMissed ==
  phase = "sessions" =>
    \A x \in w.current \ w.rematch :
      \A S \in Matches(w, x) : S \cap w.rematch # {}

(* A dungeon begins, for a player or a group, only when a proposal comes    *)
(* about: everybody in it has agreed but the one who does so now, and they  *)
(* all become one group.  (Who joins a group in its dungeon is in it too.)  *)
InDungeon(x) == x # None /\ w.old[x] = "dungeon"

TheyGoTogether ==
  [][\A x \in Guid :
       /\ w'.old[x] = "dungeon" /\ ~ InDungeon(x)
       /\ x \in Player => ~ InDungeon(w.of[x])
       =>
         \E pr \in w.proposals, g \in Group :
           /\ x \in DOMAIN pr.of \cup {g} /\ w'.members[g] = DOMAIN pr.of
           /\ \A p \in DOMAIN pr.of : w'.state[p] = "dungeon" /\ w'.state[g] = "dungeon"
           /\ Cardinality({p \in DOMAIN pr.of : pr.accept[p] # "agree"}) <= 1]_vars
=============================================================================
