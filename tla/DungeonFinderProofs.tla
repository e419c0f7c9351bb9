------------------------- MODULE DungeonFinderProofs -------------------------
(***************************************************************************)
(* Proofs about DungeonFinder, for any players and groups, any size of a   *)
(* group and any sets of players that fit.                                 *)
(*                                                                         *)
(* The invariant is about units: a player without a group, or a group with *)
(* its members.  A unit has one state, which all of its members share, and *)
(* is in the one place that this state names.  The entries of a proposal    *)
(* are its units, but for a group that was disbanded since: its entry       *)
(* remains, and its player is a unit of his own (Relict).  Update finishes  *)
(* dungeons before it cancels what their units still wait for: Settled has  *)
(* the set U of these units, which is empty between any two calls.          *)
(* What is folded over a set of groups or of players is followed by        *)
(* SetInduction, in whatever order the program takes them.                 *)
(***************************************************************************)
EXTENDS DungeonFinder, FiniteSetTheorems, TLAPS

-----------------------------------------------------------------------------
(* What the operators do to the record: which of its fields they leave      *)
(* alone, and what they make of the others.                                *)

Fields == {"members", "made", "state", "old", "of", "players", "checks", "data", "new",
           "current", "rematch", "proposals", "cancels", "boots"}
IsRecord(v) == DOMAIN v = Fields /\ v = [f \in DOMAIN v |-> v[f]]

SameGroups(v, u) ==
  /\ u.members = v.members /\ u.made = v.made /\ u.of = v.of
  /\ u.players = v.players /\ u.boots = v.boots
SameQueue(v, u) ==
  u.data = v.data /\ u.new = v.new /\ u.current = v.current /\ u.rematch = v.rematch
SameRest(v, u) ==
  u.checks = v.checks /\ u.proposals = v.proposals /\ u.cancels = v.cancels
SameStates(v, u) == u.state = v.state /\ u.old = v.old

LEMMA SetStatesDoes ==
  ASSUME NEW v, IsRecord(v), NEW S, NEW st
  PROVE  LET u == SetStates(v, S, st)
         IN /\ IsRecord(u) /\ SameGroups(v, u) /\ SameQueue(v, u) /\ SameRest(v, u)
            /\ u.state = [x \in Guid |-> IF x \in S THEN st ELSE v.state[x]]
            /\ u.old = [x \in Guid |-> IF x \in S /\ st \in OldState THEN st ELSE v.old[x]]
BY DEF IsRecord, Fields, SetStates, SameGroups, SameQueue, SameRest

LEMMA RestoreStatesDoes ==
  ASSUME NEW v, IsRecord(v), NEW S
  PROVE  LET u == RestoreStates(v, S)
         IN /\ IsRecord(u) /\ SameGroups(v, u) /\ SameQueue(v, u) /\ SameRest(v, u)
            /\ u.state = [x \in Guid |-> IF x \in S THEN v.old[x] ELSE v.state[x]]
            /\ u.old = v.old
BY DEF IsRecord, Fields, RestoreStates, SameGroups, SameQueue, SameRest

LEMMA RemoveFromQueueDoes ==
  ASSUME NEW v, IsRecord(v), NEW S
  PROVE  LET u == RemoveFromQueue(v, S)
         IN /\ IsRecord(u) /\ SameGroups(v, u) /\ SameStates(v, u) /\ SameRest(v, u)
            /\ u.data = Restrict(v.data, DOMAIN v.data \ S)
            /\ u.new = v.new \ S /\ u.current = v.current \ S /\ u.rematch = v.rematch \ S
BY DEF IsRecord, Fields, RemoveFromQueue, SameGroups, SameStates, SameRest

LEMMA AddQueueDataDoes ==
  ASSUME NEW v, IsRecord(v), NEW x, NEW S
  PROVE  LET u == AddQueueData(v, x, S)
         IN /\ IsRecord(u) /\ SameGroups(v, u) /\ SameStates(v, u) /\ SameRest(v, u)
            /\ u.data = [y \in DOMAIN v.data \cup {x} |-> IF y = x THEN S ELSE v.data[y]]
            /\ u.new = v.new \cup {x} /\ u.current = v.current \ {x}
            /\ u.rematch = v.rematch \ {x}
<1> DEFINE r == RemoveFromQueue(v, {x})
<1>1. /\ IsRecord(r) /\ SameGroups(v, r) /\ SameStates(v, r) /\ SameRest(v, r)
      /\ r.data = Restrict(v.data, DOMAIN v.data \ {x})
      /\ r.new = v.new \ {x} /\ r.current = v.current \ {x} /\ r.rematch = v.rematch \ {x}
  BY RemoveFromQueueDoes
<1> DEFINE d == [y \in DOMAIN r.data \cup {x} |-> IF y = x THEN S ELSE r.data[y]]
           u == [r EXCEPT !.data = d, !.new = @ \cup {x}]
<1>2. AddQueueData(v, x, S) = u
  BY DEF AddQueueData
<1>3. d = [y \in DOMAIN v.data \cup {x} |-> IF y = x THEN S ELSE v.data[y]]
  BY <1>1 DEF Restrict
<1>4. /\ IsRecord(u) /\ SameGroups(r, u) /\ SameStates(r, u) /\ SameRest(r, u)
      /\ u.data = d /\ u.new = r.new \cup {x} /\ u.current = r.current /\ u.rematch = r.rematch
  <2> HIDE DEF r, d
  <2> QED
    BY <1>1 DEF IsRecord, Fields, SameGroups, SameStates, SameRest
<1> HIDE DEF r, d, u
<1>5. u.new = v.new \cup {x}
  BY <1>1, <1>4
<1> QED
  BY <1>1, <1>2, <1>3, <1>4, <1>5 DEF SameGroups, SameStates, SameRest

LEMMA ReAddDoes ==
  ASSUME NEW v, IsRecord(v), NEW S
  PROVE  LET u == ReAdd(v, S)
             T == S \cap DOMAIN v.data
         IN /\ IsRecord(u) /\ SameGroups(v, u) /\ SameStates(v, u) /\ SameRest(v, u)
            /\ u.data = v.data /\ u.new = v.new \ T
            /\ u.current = v.current \cup T /\ u.rematch = v.rematch \cup T
BY DEF IsRecord, Fields, ReAdd, SameGroups, SameStates, SameRest

LEMMA FailRoleCheckDoes ==
  ASSUME NEW v, IsRecord(v), NEW g, g \in DOMAIN v.checks
  PROVE  LET u == FailRoleCheck(v, g)
             S == v.checks[g].asked \cup {g}
         IN /\ IsRecord(u) /\ SameGroups(v, u) /\ SameQueue(v, u)
            /\ u.proposals = v.proposals /\ u.cancels = v.cancels
            /\ u.state = [x \in Guid |-> IF x \in S THEN v.old[x] ELSE v.state[x]]
            /\ u.old = v.old
            /\ u.checks = Restrict(v.checks, DOMAIN v.checks \ {g})
<1> DEFINE S == v.checks[g].asked \cup {g}
           r == RestoreStates(v, S)
           u == [r EXCEPT !.checks = Restrict(@, DOMAIN @ \ {g})]
<1>1. /\ IsRecord(r) /\ SameGroups(v, r) /\ SameQueue(v, r) /\ SameRest(v, r)
      /\ r.state = [x \in Guid |-> IF x \in S THEN v.old[x] ELSE v.state[x]]
      /\ r.old = v.old
  BY RestoreStatesDoes
<1>2. FailRoleCheck(v, g) = u
  BY DEF FailRoleCheck
<1>3. /\ IsRecord(u) /\ SameGroups(r, u) /\ SameStates(r, u) /\ SameQueue(r, u)
      /\ u.proposals = r.proposals /\ u.cancels = r.cancels
      /\ u.checks = Restrict(r.checks, DOMAIN r.checks \ {g})
  <2> HIDE DEF r
  <2> QED
    BY <1>1 DEF IsRecord, Fields, SameGroups, SameStates, SameQueue
<1> HIDE DEF r, u
<1> QED
  BY <1>1, <1>2, <1>3 DEF SameGroups, SameStates, SameQueue, SameRest

LEMMA FinishRoleCheckDoes ==
  ASSUME NEW v, IsRecord(v), NEW g
  PROVE  LET u == FinishRoleCheck(v, g)
             S == v.checks[g].asked
         IN /\ IsRecord(u) /\ SameGroups(v, u)
            /\ u.proposals = v.proposals /\ u.cancels = v.cancels
            /\ u.state = [x \in Guid |-> IF x \in S \cup {g} THEN "queued" ELSE v.state[x]]
            /\ u.old = [x \in Guid |-> v.old[x]]
            /\ u.data = [y \in DOMAIN v.data \cup {g} |-> IF y = g THEN S ELSE v.data[y]]
            /\ u.new = v.new \cup {g} /\ u.current = v.current \ {g}
            /\ u.rematch = v.rematch \ {g}
            /\ u.checks = Restrict(v.checks, DOMAIN v.checks \ {g})
<1> DEFINE S == v.checks[g].asked
           s == SetStates(v, S \cup {g}, "queued")
           r == AddQueueData(s, g, S)
           u == [r EXCEPT !.checks = Restrict(@, DOMAIN @ \ {g})]
<1>1. /\ IsRecord(s) /\ SameGroups(v, s) /\ SameQueue(v, s) /\ SameRest(v, s)
      /\ s.state = [x \in Guid |-> IF x \in S \cup {g} THEN "queued" ELSE v.state[x]]
      /\ s.old = [x \in Guid |-> v.old[x]]
  BY SetStatesDoes DEF OldState
<1>2. FinishRoleCheck(v, g) = u
  BY DEF FinishRoleCheck
<1> HIDE DEF s, S
<1>3. /\ IsRecord(r) /\ SameGroups(s, r) /\ SameStates(s, r) /\ SameRest(s, r)
      /\ r.data = [y \in DOMAIN s.data \cup {g} |-> IF y = g THEN S ELSE s.data[y]]
      /\ r.new = s.new \cup {g} /\ r.current = s.current \ {g}
      /\ r.rematch = s.rematch \ {g}
  <2>1. IsRecord(s)
    BY <1>1
  <2> QED
    BY <2>1, AddQueueDataDoes, ZenonT(30)
<1> HIDE DEF r
<1>4. /\ IsRecord(u) /\ SameGroups(r, u) /\ SameStates(r, u) /\ SameQueue(r, u)
      /\ u.proposals = r.proposals /\ u.cancels = r.cancels
      /\ u.checks = Restrict(r.checks, DOMAIN r.checks \ {g})
  BY <1>3 DEF IsRecord, Fields, SameGroups, SameStates, SameQueue
<1> HIDE DEF u
<1>5. u.data = [y \in DOMAIN v.data \cup {g} |-> IF y = g THEN S ELSE v.data[y]]
  BY <1>1, <1>3, <1>4 DEF SameQueue
<1>6. u.new = v.new \cup {g} /\ u.current = v.current \ {g} /\ u.rematch = v.rematch \ {g}
  BY <1>1, <1>3, <1>4 DEF SameQueue
<1>7. u.state = [x \in Guid |-> IF x \in S \cup {g} THEN "queued" ELSE v.state[x]]
  BY <1>1, <1>3, <1>4 DEF SameStates
<1> QED
  BY <1>1, <1>2, <1>3, <1>4, <1>5, <1>6, <1>7 DEF S, SameGroups, SameStates, SameQueue, SameRest

-----------------------------------------------------------------------------
(* The invariant.  It speaks of units: a player without a group, or a group *)
(* and its members; its name is that player or the group.                  *)

UnitOf(v, x) == IF x \in Group \/ v.of[x] = None THEN x ELSE v.of[x]

Complete(v, on, S, x) ==
  /\ S \subseteq on
  /\ IF x \in Player THEN S = {x} /\ v.of[x] = None
     ELSE x \in Group /\ S = v.players[x] /\ S # {}

ProposalTyped(pr) ==
  /\ pr = [queues |-> pr.queues, group |-> pr.group, isNew |-> pr.isNew,
           of |-> pr.of, accept |-> pr.accept, begun |-> pr.begun]
  /\ pr.queues \subseteq Guid /\ DOMAIN pr.of \subseteq Player
  /\ pr.of \in [DOMAIN pr.of -> Group \cup {None}] /\ pr.group \in Group \cup {None}
  /\ pr.accept \in [DOMAIN pr.of -> Answer] /\ pr.isNew \in BOOLEAN /\ pr.begun \in BOOLEAN

CheckTyped(c) ==
  c = [asked |-> c.asked, answered |-> c.answered] /\ c.answered \subseteq c.asked

Typed(v) ==
  /\ IsRecord(v)
  /\ v.members \in [Group -> SUBSET Player] /\ v.made \subseteq Group
  /\ v.state \in [Guid -> State] /\ v.old \in [Guid -> OldState]
  /\ v.of \in [Player -> Group \cup {None}] /\ v.players \in [Group -> SUBSET Player]
  /\ \A g \in DOMAIN v.checks : CheckTyped(v.checks[g])
  /\ DOMAIN v.boots \subseteq Group
  /\ \A pr \in v.proposals : ProposalTyped(pr)

(* The finder's picture of the groups.  Between two calls it is the groups'  *)
(* own; while a member comes or goes the group may have one more.           *)
GroupsRight(v) ==
  /\ \A g \in Group : v.players[g] \subseteq v.members[g]
  /\ \A p \in Player, g \in Group : v.of[p] = g <=> p \in v.players[g]
  /\ \A g \in Group : Cardinality(v.players[g]) <= Size
  /\ \A g \in DOMAIN v.boots : v.boots[g] \in v.players[g]

(* The units that are part of a proposal whose players are asked, or are not *)
(* asked yet.                                                              *)
UnitsIn(v, pr) == {UnitOf(v, p) : p \in DOMAIN pr.of}
Offered(v, b)  == UNION {UnitsIn(v, pr) : pr \in {q \in v.proposals : q.begun = b}}
InQueue(v)     == v.new \cup v.current \cup Offered(v, FALSE)

(* The entries of a proposal are its units; but in the entry of a group that *)
(* is gone there is a player who is a unit of his own now.                  *)
Keys(v) == UNION {pr.queues : pr \in v.proposals}

Relict(v, pr, p) ==
  /\ pr.begun /\ v.of[p] = None /\ pr.of[p] \in Group
  /\ v.members[pr.of[p]] = {} /\ v.data[pr.of[p]] = {p}

Remains(v, on, x) ==
  /\ x \in Group /\ v.members[x] = {}
  /\ \E pr \in v.proposals : \E p \in DOMAIN pr.of :
       p \in on /\ pr.of[p] = x /\ Relict(v, pr, p)

(* Each state says where the unit is; a unit of U has finished its dungeon   *)
(* and is still where it was.                                              *)
StateAgrees(v, U, y) ==
  /\ v.state[y] \in OldState => v.state[y] = v.old[y]
  /\ UnitOf(v, y) \in U => v.state[y] = "finished"
  /\ UnitOf(v, y) \notin U =>
       /\ v.state[y] = "queued"    <=> UnitOf(v, y) \in InQueue(v)
       /\ v.state[y] = "rolecheck" <=> UnitOf(v, y) \in DOMAIN v.checks
       /\ v.state[y] = "proposal"  <=> UnitOf(v, y) \in Offered(v, TRUE)

StatesAgree(v, U) == \A y \in Guid : StateAgrees(v, U, y)

EntriesRight(v, on) ==
  /\ \A x \in DOMAIN v.data : Complete(v, on, v.data[x], x) \/ Remains(v, on, x)
  /\ \A g \in DOMAIN v.checks : g \in Group /\ Complete(v, on, v.checks[g].asked, g)
  /\ DOMAIN v.data \cap DOMAIN v.checks = {}
  /\ DOMAIN v.data = v.new \cup v.current \cup Keys(v)
  /\ v.new \cap v.current = {}

ProposalRight(v, pr) ==
  /\ pr.queues # {} /\ pr.queues = {EntryOf(pr, p) : p \in DOMAIN pr.of}
  /\ (pr.queues \cup UnitsIn(v, pr)) \cap (v.new \cup v.current) = {}
  /\ \A p \in Player : UnitOf(v, p) \in UnitsIn(v, pr) => p \in DOMAIN pr.of
  /\ \A p \in DOMAIN pr.of : pr.of[p] = v.of[p] \/ Relict(v, pr, p)
  /\ pr.group # None => pr.group \in pr.queues
  /\ DOMAIN pr.of \in Compatible
  /\ \A x, y \in pr.queues : IsLfgGroup(v, x) /\ IsLfgGroup(v, y) => x = y

ProposalsRight(v) ==
  /\ \A pr \in v.proposals : ProposalRight(v, pr)
  /\ \A pr, qr \in v.proposals : pr = qr \/ UnitsIn(v, pr) \cap UnitsIn(v, qr) = {}

(* No match is missed: see Matches.                                         *)
IsMatch(v, S) ==
  /\ UNION {v.data[y] : y \in S} \in Compatible
  /\ \A y, z \in S : y = z \/ v.data[y] \cap v.data[z] = {}
  /\ \A y, z \in S : IsLfgGroup(v, y) /\ IsLfgGroup(v, z) => y = z

NoneMissed(v) == \A S \in SUBSET v.current : IsMatch(v, S) => S \cap v.rematch # {}

Settled(v, on, U) ==
  /\ Typed(v) /\ GroupsRight(v) /\ StatesAgree(v, U)
  /\ EntriesRight(v, on) /\ ProposalsRight(v) /\ NoneMissed(v)

IInv ==
  /\ phase \in {"sessions", "matching"} /\ online \subseteq Player
  /\ Settled(w, online, {}) /\ w.members = w.players /\ w.cancels = <<>>
  /\ phase = "sessions" => \A pr \in w.proposals : pr.begun

-----------------------------------------------------------------------------
(* What the invariant means for units.                                      *)

LEMMA Names ==
  /\ None \notin Player /\ None \notin Group
  /\ \A x \in Guid : x \in Player <=> x \notin Group
  /\ \A g \in Group : g \in Guid /\ g # None /\ g \notin Player
  /\ \A p \in Player : p \in Guid /\ p # None /\ p \notin Group
BY FinderAssumption DEF FinderAssumption, Guid

LEMMA UnitIs ==
  ASSUME NEW v, Typed(v), NEW y \in Guid
  PROVE  /\ UnitOf(v, y) \in Guid
         /\ y \in Group => UnitOf(v, y) = y
         /\ y \in Player => \/ v.of[y] = None /\ UnitOf(v, y) = y
                            \/ v.of[y] \in Group /\ UnitOf(v, y) = v.of[y]
BY Names DEF Typed, UnitOf, Guid

(* What waits or is checked has the name of its unit.                       *)
LEMMA EntryIsUnit ==
  ASSUME NEW v, NEW on, Typed(v), EntriesRight(v, on), NEW x \in DOMAIN v.data \cup DOMAIN v.checks
  PROVE  x \in Guid /\ UnitOf(v, x) = x
BY Names DEF EntriesRight, Complete, Remains, UnitOf, Guid

LEMMA OfferedAre ==
  ASSUME NEW v, NEW b \in BOOLEAN, NEW x
  PROVE  x \in Offered(v, b) <=> \E pr \in v.proposals : pr.begun = b /\ x \in UnitsIn(v, pr)
BY DEF Offered

(* The members of a unit.                                                   *)
LEMMA CompleteMeans ==
  ASSUME NEW v, NEW on, NEW x, NEW S, Typed(v), GroupsRight(v), Complete(v, on, S, x)
  PROVE  /\ x \in Guid /\ UnitOf(v, x) = x /\ S # {} /\ S \subseteq Player
         /\ \A p \in Player : p \in S <=> UnitOf(v, p) = x
         /\ \A y \in Guid : y \in S \cup {x} <=> UnitOf(v, y) = x
<1>1. CASE x \in Player
  BY <1>1, Names DEF Complete, UnitOf, Guid, Typed
<1>2. CASE x \notin Player
  <2>1. x \in Group /\ S = v.players[x] /\ S # {}
    BY <1>2 DEF Complete
  <2>2. S \subseteq Player
    BY <2>1 DEF Typed
  <2>3. \A p \in Player : p \in S <=> v.of[p] = x
    BY <2>1 DEF GroupsRight
  <2>4. \A p \in Player : p \in S <=> UnitOf(v, p) = x
    BY <2>1, <2>3, Names DEF UnitOf
  <2> QED
    BY <2>1, <2>2, <2>4, Names DEF UnitOf, Guid
<1> QED
  BY <1>1, <1>2

(* A group without members is nobody's.                                     *)
LEMMA GoneIs ==
  ASSUME NEW v, Typed(v), GroupsRight(v), NEW x \in Group, v.members[x] = {}
  PROVE  v.players[x] = {} /\ \A p \in Player : v.of[p] # x /\ UnitOf(v, p) # x
<1>1. v.players[x] = {} /\ \A p \in Player : v.of[p] # x
  BY DEF GroupsRight
<1> QED
  BY <1>1, Names DEF UnitOf

(* What is an entry of a proposal, and who is in it.                        *)
EntryIs(v, pr, p) ==
  \/ pr.of[p] = v.of[p] /\ EntryOf(pr, p) = UnitOf(v, p)
  \/ Relict(v, pr, p) /\ EntryOf(pr, p) = pr.of[p] /\ UnitOf(v, p) = p

LEMMA ProposalUnits ==
  ASSUME NEW v, NEW on, NEW U, Settled(v, on, U), NEW pr \in v.proposals
  PROVE  /\ DOMAIN pr.of \subseteq Player /\ DOMAIN pr.accept = DOMAIN pr.of /\ pr.queues \subseteq Guid
         /\ \A p \in DOMAIN pr.of :
              /\ UnitOf(v, p) \in UnitsIn(v, pr) /\ EntryOf(pr, p) \in pr.queues
              /\ EntryIs(v, pr, p)
         /\ \A y \in Guid : UnitOf(v, y) \in UnitsIn(v, pr) =>
              \/ y \in DOMAIN pr.of
              \/ y \in Group /\ UnitOf(v, y) = y /\ y \in pr.queues
         /\ \A x \in UnitsIn(v, pr) :
              x \in Guid /\ UnitOf(v, x) = x /\ \E p \in DOMAIN pr.of : UnitOf(v, p) = x
         /\ \A x \in pr.queues :
              /\ x \in Guid /\ UnitOf(v, x) = x /\ x \in DOMAIN v.data
              /\ \/ x \in UnitsIn(v, pr)
                 \/ /\ x \in Group /\ v.members[x] = {} /\ x \notin UnitsIn(v, pr)
                    /\ \E p \in DOMAIN pr.of : Relict(v, pr, p) /\ pr.of[p] = x
<1>1. Typed(v) /\ GroupsRight(v) /\ ProposalRight(v, pr) /\ ProposalTyped(pr)
  BY DEF Settled, ProposalsRight, Typed
<1>2. DOMAIN pr.of \subseteq Player /\ DOMAIN pr.accept = DOMAIN pr.of /\ pr.queues \subseteq Guid
  BY <1>1 DEF ProposalTyped
<1>3. ASSUME NEW p \in DOMAIN pr.of
      PROVE  /\ UnitOf(v, p) \in UnitsIn(v, pr) /\ EntryOf(pr, p) \in pr.queues
             /\ EntryIs(v, pr, p)
  <2>1. UnitOf(v, p) \in UnitsIn(v, pr) /\ EntryOf(pr, p) \in pr.queues
    BY <1>1 DEF UnitsIn, ProposalRight
  <2>2. CASE pr.of[p] = v.of[p]
    BY <2>1, <2>2, <1>2, Names DEF EntryOf, UnitOf, EntryIs
  <2>3. CASE Relict(v, pr, p)
    BY <2>1, <2>3, <1>2, Names DEF EntryOf, UnitOf, Relict, EntryIs
  <2> QED
    BY <1>1, <2>1, <2>2, <2>3 DEF ProposalRight
<1>4. ASSUME NEW x \in UnitsIn(v, pr)
      PROVE  x \in Guid /\ UnitOf(v, x) = x /\ \E p \in DOMAIN pr.of : UnitOf(v, p) = x
  <2>1. PICK p \in DOMAIN pr.of : x = UnitOf(v, p)
    BY DEF UnitsIn
  <2>2. p \in Player /\ p \in Guid
    BY <1>2, Names
  <2>3. UnitOf(v, p) \in Guid /\ UnitOf(v, UnitOf(v, p)) = UnitOf(v, p)
    BY <1>1, <2>2, UnitIs, Names DEF UnitOf
  <2> QED
    BY <2>1, <2>3
<1>5. ASSUME NEW y \in Guid, UnitOf(v, y) \in UnitsIn(v, pr), y \notin DOMAIN pr.of
      PROVE  y \in Group /\ UnitOf(v, y) = y /\ y \in pr.queues
  <2>1. y \in Group /\ UnitOf(v, y) = y
    BY <1>1, <1>5 DEF ProposalRight, Guid, UnitOf
  <2>2. PICK p \in DOMAIN pr.of : UnitOf(v, p) = y
    BY <1>5, <2>1, <1>4
  <2>3. UnitOf(v, p) # p
    BY <2>1, <2>2, <1>2, Names
  <2> QED
    BY <2>1, <2>2, <2>3, <1>3 DEF EntryIs
<1>6. ASSUME NEW x \in pr.queues
      PROVE  /\ x \in Guid /\ UnitOf(v, x) = x /\ x \in DOMAIN v.data
             /\ \/ x \in UnitsIn(v, pr)
                \/ /\ x \in Group /\ v.members[x] = {} /\ x \notin UnitsIn(v, pr)
                   /\ \E p \in DOMAIN pr.of : Relict(v, pr, p) /\ pr.of[p] = x
  <2>1. x \in DOMAIN v.data
    BY DEF Settled, EntriesRight, Keys
  <2>2. PICK p \in DOMAIN pr.of : x = EntryOf(pr, p)
    BY <1>1 DEF ProposalRight
  <2>3. CASE EntryOf(pr, p) = UnitOf(v, p)
    BY <2>1, <2>2, <2>3, <1>3, <1>4
  <2>4. CASE Relict(v, pr, p) /\ EntryOf(pr, p) = pr.of[p]
    <3>1. x \in Group /\ v.members[x] = {} /\ pr.of[p] = x
      BY <2>2, <2>4 DEF Relict
    <3>2. \A q \in Player : UnitOf(v, q) # x
      BY <3>1, <1>1, GoneIs
    <3>3. x \notin UnitsIn(v, pr)
      BY <3>2, <1>2, <1>4
    <3> QED
      BY <2>1, <2>4, <3>1, <3>3, Names DEF UnitOf
  <2> QED
    BY <2>3, <2>4, <1>3 DEF EntryIs
<1> HIDE DEF UnitsIn
<1> QED
  BY <1>2, <1>3, <1>4, <1>5, <1>6

(* No entry is in two proposals.                                            *)
LEMMA KeysApart ==
  ASSUME NEW v, NEW on, NEW U, Settled(v, on, U),
         NEW pr \in v.proposals, NEW qr \in v.proposals, pr # qr
  PROVE  pr.queues \cap qr.queues = {}
<1> SUFFICES ASSUME NEW x \in pr.queues, x \in qr.queues
             PROVE  FALSE
  OBVIOUS
<1>1. Typed(v) /\ GroupsRight(v) /\ UnitsIn(v, pr) \cap UnitsIn(v, qr) = {}
  BY DEF Settled, ProposalsRight
<1>2. \A y \in UnitsIn(v, pr) : \E p \in Player : UnitOf(v, p) = y
  BY ProposalUnits
<1>3. \A y \in UnitsIn(v, qr) : \E p \in Player : UnitOf(v, p) = y
  BY ProposalUnits
<1>4. CASE x \in UnitsIn(v, pr)
  <2>1. ~ (x \in Group /\ v.members[x] = {})
    BY <1>1, <1>2, <1>4, GoneIs
  <2>2. x \in UnitsIn(v, qr)
    BY <2>1, ProposalUnits
  <2> QED
    BY <2>2, <1>1, <1>4
<1>5. CASE x \in UnitsIn(v, qr)
  <2>1. ~ (x \in Group /\ v.members[x] = {})
    BY <1>1, <1>3, <1>5, GoneIs
  <2>2. x \in UnitsIn(v, pr)
    BY <2>1, ProposalUnits
  <2> QED
    BY <2>2, <1>1, <1>5
<1>6. CASE x \notin UnitsIn(v, pr) /\ x \notin UnitsIn(v, qr)
  <2>1. PICK p \in DOMAIN pr.of : Relict(v, pr, p) /\ pr.of[p] = x
    BY <1>6, ProposalUnits
  <2>2. PICK q \in DOMAIN qr.of : Relict(v, qr, q) /\ qr.of[q] = x
    BY <1>6, ProposalUnits
  <2>3. p = q
    BY <2>1, <2>2 DEF Relict
  <2>4. UnitOf(v, p) \in UnitsIn(v, pr)
    BY DEF UnitsIn
  <2>5. UnitOf(v, q) \in UnitsIn(v, qr)
    BY DEF UnitsIn
  <2> QED
    BY <2>3, <2>4, <2>5, <1>1
<1> QED
  BY <1>4, <1>5, <1>6

(* The units of proposals are their entries, but for players whose group is *)
(* gone; and nobody who is in a proposal waits or is checked.               *)
LEMMA OfferedHaveData ==
  ASSUME NEW v, NEW on, NEW U, Settled(v, on, U)
  PROVE  /\ \A x \in Offered(v, TRUE) \cup Offered(v, FALSE) :
              x \in Guid /\ UnitOf(v, x) = x /\ (x \in DOMAIN v.data \/ x \in Player)
         /\ Offered(v, FALSE) \subseteq DOMAIN v.data
         /\ \A x \in DOMAIN v.data : x \in Player \/ v.players[x] # {} =>
              x \in Offered(v, TRUE) \cup Offered(v, FALSE) \cup v.new \cup v.current
         /\ v.new \cup v.current \subseteq DOMAIN v.data
         /\ (DOMAIN v.data \cup Offered(v, TRUE)) \cap DOMAIN v.checks = {}
         /\ (Offered(v, TRUE) \cup Offered(v, FALSE)) \cap (v.new \cup v.current) = {}
         /\ Offered(v, TRUE) \cap Offered(v, FALSE) = {}
<1>1. Typed(v) /\ GroupsRight(v) /\ EntriesRight(v, on)
  BY DEF Settled
<1>2. ASSUME NEW pr \in v.proposals, NEW x \in UnitsIn(v, pr)
      PROVE  /\ x \in Guid /\ UnitOf(v, x) = x /\ (x \in DOMAIN v.data \/ x \in Player)
             /\ ~ pr.begun => x \in DOMAIN v.data
  <2>1. x \in Guid /\ UnitOf(v, x) = x /\ \E p \in DOMAIN pr.of : UnitOf(v, p) = x
    BY ProposalUnits
  <2>2. PICK p \in DOMAIN pr.of : UnitOf(v, p) = x
    BY <2>1
  <2>3. p \in Player /\ EntryOf(pr, p) \in pr.queues /\ EntryIs(v, pr, p)
    BY ProposalUnits
  <2>4. pr.queues \subseteq DOMAIN v.data
    BY <1>1 DEF EntriesRight, Keys
  <2> QED
    BY <2>1, <2>2, <2>3, <2>4 DEF Relict, EntryIs
<1>3. \A x : x \in Offered(v, TRUE) \cup Offered(v, FALSE) => \E pr \in v.proposals : x \in UnitsIn(v, pr)
  BY DEF Offered
<1>4. \A x \in Offered(v, FALSE) : \E pr \in v.proposals : x \in UnitsIn(v, pr) /\ ~ pr.begun
  BY DEF Offered
<1>5. ASSUME NEW x \in DOMAIN v.data, x \in Player \/ v.players[x] # {}
      PROVE  x \in Offered(v, TRUE) \cup Offered(v, FALSE) \cup v.new \cup v.current
  <2>1. CASE x \in v.new \cup v.current
    BY <2>1
  <2>2. CASE x \notin v.new \cup v.current
    <3>1. PICK pr \in v.proposals : x \in pr.queues
      BY <2>2, <1>1 DEF EntriesRight, Keys
    <3>2. ~ (x \in Group /\ v.members[x] = {})
      BY <1>1, <1>5, GoneIs, Names
    <3>3. x \in UnitsIn(v, pr) /\ pr.begun \in BOOLEAN
      BY <1>1, <3>1, <3>2, ProposalUnits DEF Typed, ProposalTyped
    <3> QED
      BY <3>3 DEF Offered
  <2> QED
    BY <2>1, <2>2
<1>6. (Offered(v, TRUE) \cup Offered(v, FALSE)) \cap (v.new \cup v.current) = {}
  BY <1>3 DEF Settled, ProposalsRight, ProposalRight
<1>7. Offered(v, TRUE) \cap Offered(v, FALSE) = {}
  BY DEF Offered, Settled, ProposalsRight
<1>8. (DOMAIN v.data \cup Offered(v, TRUE)) \cap DOMAIN v.checks = {}
  BY <1>1, <1>2, <1>3, Names DEF EntriesRight
<1> QED
  BY <1>1, <1>2, <1>3, <1>4, <1>5, <1>6, <1>7, <1>8 DEF EntriesRight

(* What there is, and is not part of a proposal, has no entry in one.        *)
LEMMA NoKey ==
  ASSUME NEW v, NEW on, NEW U, Settled(v, on, U), NEW x \in Guid,
         x \notin Offered(v, TRUE) \cup Offered(v, FALSE), x \in Player \/ v.members[x] # {}
  PROVE  x \notin Keys(v)
<1> SUFFICES ASSUME NEW pr \in v.proposals, x \in pr.queues
             PROVE  FALSE
  BY DEF Keys
<1>1. pr.begun \in BOOLEAN
  BY DEF Settled, Typed, ProposalTyped
<1>2. x \notin UnitsIn(v, pr)
  BY <1>1, OfferedAre
<1> QED
  BY <1>2, Names, ProposalUnits

(* What waits is a unit, not what a proposal keeps of one.                  *)
LEMMA WaitingIs ==
  ASSUME NEW v, NEW on, NEW U, Settled(v, on, U), NEW x \in v.new \cup v.current
  PROVE  /\ x \in Guid /\ x \in DOMAIN v.data /\ Complete(v, on, v.data[x], x)
         /\ x \notin DOMAIN v.checks \cup Offered(v, TRUE) \cup Offered(v, FALSE) \cup Keys(v)
<1>1. /\ Typed(v) /\ EntriesRight(v, on) /\ x \in DOMAIN v.data
      /\ \A pr \in v.proposals : pr.queues \cap (v.new \cup v.current) = {}
  BY DEF Settled, EntriesRight, ProposalsRight, ProposalRight
<1>2. x \in Guid /\ x \notin Keys(v)
  BY <1>1, EntryIsUnit DEF Keys
<1>3. ~ Remains(v, on, x)
  <2> SUFFICES ASSUME NEW pr \in v.proposals, NEW p \in DOMAIN pr.of, pr.of[p] = x, x \in Group
               PROVE  FALSE
    BY DEF Remains
  <2>1. EntryOf(pr, p) \in pr.queues
    BY ProposalUnits
  <2> QED
    BY <2>1, <1>2, Names DEF EntryOf, Keys
<1>4. x \notin DOMAIN v.checks \cup Offered(v, TRUE) \cup Offered(v, FALSE)
  BY <1>1, OfferedHaveData
<1> QED
  BY <1>1, <1>2, <1>3, <1>4 DEF EntriesRight

(* A match of v is one of u if u has no other entries to choose from.       *)
LEMMA FewerMatches ==
  ASSUME NEW v, NEW u, NoneMissed(v),
         \A x \in u.current \ u.rematch :
           /\ x \in v.current \ v.rematch /\ u.data[x] = v.data[x]
           /\ IsLfgGroup(v, x) => IsLfgGroup(u, x)
  PROVE  NoneMissed(u)
<1> SUFFICES ASSUME NEW S \in SUBSET u.current, IsMatch(u, S), S \cap u.rematch = {}
             PROVE  FALSE
  BY DEF NoneMissed
<1>1. S \in SUBSET v.current /\ S \cap v.rematch = {} /\ \A x \in S : u.data[x] = v.data[x]
  OBVIOUS
<1>2. {u.data[y] : y \in S} = {v.data[y] : y \in S}
  BY <1>1
<1>3. IsMatch(v, S)
  BY <1>1, <1>2 DEF IsMatch
<1> QED
  BY <1>1, <1>3 DEF NoneMissed

-----------------------------------------------------------------------------
(* A unit that is not part of a proposal moves, or stays, or leaves.         *)

Elsewhere(v, u, x) ==
  /\ IsRecord(u) /\ SameGroups(v, u) /\ u.proposals = v.proposals
  /\ u.state \in [Guid -> State] /\ u.old \in [Guid -> OldState]
  /\ \A y \in Guid : UnitOf(v, y) # x => u.state[y] = v.state[y] /\ u.old[y] = v.old[y]
  /\ DOMAIN u.data \ {x} = DOMAIN v.data \ {x} /\ DOMAIN u.checks \ {x} = DOMAIN v.checks \ {x}
  /\ \A y \in DOMAIN v.data \ {x} : u.data[y] = v.data[y]
  /\ \A y \in DOMAIN v.checks \ {x} : u.checks[y] = v.checks[y]
  /\ u.new \ {x} = v.new \ {x} /\ u.current \ {x} = v.current \ {x}
  /\ v.rematch \ {x} \subseteq u.rematch

IsQueued(u, on, x) ==
  /\ x \in u.new /\ x \notin u.current /\ x \in DOMAIN u.data /\ x \notin DOMAIN u.checks
  /\ Complete(u, on, u.data[x], x)
  /\ \A y \in Guid : UnitOf(u, y) = x => u.state[y] = "queued"

IsChecked(u, on, x) ==
  /\ x \notin u.new \cup u.current \cup DOMAIN u.data /\ x \in DOMAIN u.checks /\ x \in Group
  /\ Complete(u, on, u.checks[x].asked, x) /\ CheckTyped(u.checks[x])
  /\ \A y \in Guid : UnitOf(u, y) = x => u.state[y] = "rolecheck"

IsFree(u, x) ==
  /\ x \notin u.new \cup u.current \cup DOMAIN u.data \cup DOMAIN u.checks
  /\ \A y \in Guid : UnitOf(u, y) = x => u.state[y] \in OldState /\ u.state[y] = u.old[y]

LEMMA UnitMoves ==
  ASSUME NEW v, NEW u, NEW on, NEW U, Settled(v, on, U),
         NEW x \in Guid, x \notin Offered(v, TRUE) \cup Offered(v, FALSE) \cup Keys(v),
         Elsewhere(v, u, x), IsQueued(u, on, x) \/ IsChecked(u, on, x) \/ IsFree(u, x)
  PROVE  Settled(u, on, U \ {x})
<1> DEFINE places == IsQueued(u, on, x) \/ IsChecked(u, on, x) \/ IsFree(u, x)
<1>1. \A y : UnitOf(u, y) = UnitOf(v, y)
  BY DEF UnitOf, Elsewhere, SameGroups
<1>a. \A pr \in v.proposals : UnitsIn(u, pr) = UnitsIn(v, pr)
  BY <1>1 DEF UnitsIn
<1>2. /\ Offered(u, TRUE) = Offered(v, TRUE) /\ Offered(u, FALSE) = Offered(v, FALSE)
      /\ Keys(u) = Keys(v) /\ u.proposals = v.proposals
  BY <1>a DEF Offered, Keys, Elsewhere
<1>b. \A pr \in v.proposals : x \notin pr.queues /\ x \notin UnitsIn(v, pr)
  <2> TAKE pr \in v.proposals
  <2>1. pr.begun \in BOOLEAN
    BY DEF Settled, Typed, ProposalTyped
  <2>2. x \notin UnitsIn(v, pr)
    BY <2>1, OfferedAre
  <2> QED
    BY <2>2 DEF Keys
<1>3. \A y : y # x => /\ y \in InQueue(u) <=> y \in InQueue(v)
                      /\ y \in DOMAIN u.checks <=> y \in DOMAIN v.checks
                      /\ y \in DOMAIN u.data <=> y \in DOMAIN v.data
                      /\ y \in u.new <=> y \in v.new
                      /\ y \in u.current <=> y \in v.current
  BY <1>2 DEF Elsewhere, InQueue
<1>4. Typed(u)
  <2>1. \A g \in DOMAIN u.checks : CheckTyped(u.checks[g])
    <3> TAKE g \in DOMAIN u.checks
    <3>1. CASE g # x
      BY <3>1, <1>3 DEF Settled, Typed, Elsewhere
    <3>2. CASE g = x
      BY <3>2 DEF IsQueued, IsChecked, IsFree
    <3> QED
      BY <3>1, <3>2
  <2> QED
    BY <2>1 DEF Typed, Settled, Elsewhere, SameGroups
<1>5. GroupsRight(u)
  BY DEF Settled, GroupsRight, Elsewhere, SameGroups
<1>6. ASSUME NEW y \in Guid
      PROVE  StateAgrees(u, U \ {x}, y)
  <2>1. StateAgrees(v, U, y)
    BY DEF Settled, StatesAgree
  <2>2. CASE UnitOf(v, y) # x
    BY <2>1, <2>2, <1>1, <1>2, <1>3 DEF StateAgrees, Elsewhere
  <2>3. CASE UnitOf(v, y) = x
    <3>1. UnitOf(u, y) = x /\ x \notin Offered(u, TRUE) /\ x \notin Offered(u, FALSE)
      BY <2>3, <1>1, <1>2
    <3>2. CASE IsQueued(u, on, x)
      BY <3>1, <3>2 DEF IsQueued, StateAgrees, InQueue, OldState
    <3>3. CASE IsChecked(u, on, x)
      BY <3>1, <3>3 DEF IsChecked, StateAgrees, InQueue, OldState
    <3>4. CASE IsFree(u, x)
      BY <3>1, <3>4 DEF IsFree, StateAgrees, InQueue, OldState
    <3> QED
      BY <3>2, <3>3, <3>4
  <2> QED
    BY <2>2, <2>3
<1>7. EntriesRight(u, on)
  <2>1. \A S, y : Complete(v, on, S, y) => Complete(u, on, S, y)
    BY DEF Complete, Elsewhere, SameGroups
  <2>0. \A y \in DOMAIN v.data : y # x /\ Remains(v, on, y) => Remains(u, on, y)
    BY DEF Remains, Relict, Elsewhere, SameGroups
  <2>2. \A y \in DOMAIN u.data : Complete(u, on, u.data[y], y) \/ Remains(u, on, y)
    <3> TAKE y \in DOMAIN u.data
    <3>1. CASE y # x
      BY <3>1, <1>3, <2>0, <2>1 DEF Settled, EntriesRight, Elsewhere
    <3>2. CASE y = x
      BY <3>2 DEF IsQueued, IsChecked, IsFree
    <3> QED
      BY <3>1, <3>2
  <2>3. \A g \in DOMAIN u.checks : g \in Group /\ Complete(u, on, u.checks[g].asked, g)
    <3> TAKE g \in DOMAIN u.checks
    <3>1. CASE g # x
      BY <3>1, <1>3, <2>1 DEF Settled, EntriesRight, Elsewhere
    <3>2. CASE g = x
      BY <3>2 DEF IsQueued, IsChecked, IsFree
    <3> QED
      BY <3>1, <3>2
  <2>4. DOMAIN u.data \cap DOMAIN u.checks = {} /\ u.new \cap u.current = {}
    BY <1>3 DEF Settled, EntriesRight, IsQueued, IsChecked, IsFree
  <2>5. \A y : y \in DOMAIN u.data <=> y \in u.new \cup u.current \cup Keys(u)
    <3> TAKE y
    <3>1. CASE y # x
      BY <3>1, <1>2, <1>3 DEF Settled, EntriesRight
    <3>2. CASE y = x
      BY <3>2, <1>2, <1>b DEF IsQueued, IsChecked, IsFree, Keys
    <3> QED
      BY <3>1, <3>2
  <2> QED
    BY <2>2, <2>3, <2>4, <2>5 DEF EntriesRight
<1>8. ProposalsRight(u)
  <2>2. ASSUME NEW pr \in v.proposals
        PROVE  ProposalRight(u, pr)
    <3>1. ProposalRight(v, pr) /\ pr.queues \subseteq Guid
      BY DEF Settled, ProposalsRight, Typed, ProposalTyped
    <3>2. (pr.queues \cup UnitsIn(u, pr)) \cap (u.new \cup u.current) = {}
      BY <3>1, <1>a, <1>b, <1>3 DEF ProposalRight
    <3>3. \A y \in pr.queues : IsLfgGroup(u, y) <=> IsLfgGroup(v, y)
      BY <1>b, <3>1, Names DEF IsLfgGroup, Elsewhere, UnitOf
    <3>4. u.of = v.of
      BY DEF Elsewhere, SameGroups
    <3>5. ASSUME NEW p \in DOMAIN pr.of, Relict(v, pr, p)
          PROVE  Relict(u, pr, p)
      <4>1. EntryOf(pr, p) = pr.of[p]
        BY <3>5, Names DEF Relict, EntryOf
      <4>2. pr.of[p] \in pr.queues
        BY <4>1, <3>1 DEF ProposalRight
      <4>3. pr.of[p] \in DOMAIN v.data \ {x}
        BY <4>2, <1>b, ProposalUnits
      <4> QED
        BY <3>5, <4>3 DEF Relict, Elsewhere, SameGroups
    <3> QED
      BY <3>1, <3>2, <3>3, <3>4, <3>5, <1>1, <1>a DEF ProposalRight
  <2> QED
    BY <2>2, <1>2, <1>a DEF ProposalsRight, Settled
<1>9. NoneMissed(u)
  <2>1. ASSUME NEW y \in u.current \ u.rematch
        PROVE  /\ y \in v.current \ v.rematch /\ u.data[y] = v.data[y]
               /\ IsLfgGroup(v, y) => IsLfgGroup(u, y)
    <3>1. y # x
      BY DEF IsQueued, IsChecked, IsFree
    <3>2. y \in v.current /\ y \notin v.rematch /\ y \in DOMAIN v.data
      BY <3>1, <1>3 DEF Elsewhere, Settled, EntriesRight, InQueue
    <3>3. u.data[y] = v.data[y]
      BY <3>1, <3>2 DEF Elsewhere
    <3>4. IsLfgGroup(v, y) => IsLfgGroup(u, y)
      BY <3>1, Names DEF IsLfgGroup, Elsewhere, UnitOf
    <3> QED
      BY <3>2, <3>3, <3>4
  <2> QED
    BY <2>1, FewerMatches DEF Settled
<1> QED
  BY <1>4, <1>5, <1>6, <1>7, <1>8, <1>9 DEF Settled, StatesAgree

-----------------------------------------------------------------------------
(* A proposal ends: the entries of R are out, and the others wait again.    *)

ProposalOver(v, u, pr, R) ==
  /\ IsRecord(u) /\ SameGroups(v, u) /\ u.checks = v.checks
  /\ u.proposals = v.proposals \ {pr}
  /\ u.state \in [Guid -> State] /\ u.old \in [Guid -> OldState]
  /\ \A p \in DOMAIN pr.of : Relict(v, pr, p) => p \in R
  /\ \A y \in Guid : UnitOf(v, y) \notin UnitsIn(v, pr)
                         => u.state[y] = v.state[y] /\ u.old[y] = v.old[y]
  /\ \A y \in Guid : UnitOf(v, y) \in R => u.state[y] \in OldState /\ u.state[y] = u.old[y]
  /\ \A y \in Guid : UnitOf(v, y) \in UnitsIn(v, pr) \ R
                         => u.state[y] = "queued" /\ u.old[y] = v.old[y]
  /\ DOMAIN u.data = DOMAIN v.data \ (pr.queues \ (UnitsIn(v, pr) \ R))
  /\ \A y \in DOMAIN u.data : u.data[y] = v.data[y]
  /\ u.new = v.new /\ u.current = v.current \cup (UnitsIn(v, pr) \ R)
  /\ (v.rematch \ pr.queues) \cup (UnitsIn(v, pr) \ R) \subseteq u.rematch

(* Who stays has an entry.                                                  *)
LEMMA KeptUnits ==
  ASSUME NEW v, NEW on, NEW U, Settled(v, on, U), NEW pr \in v.proposals,
         NEW R, \A p \in DOMAIN pr.of : Relict(v, pr, p) => p \in R
  PROVE  UnitsIn(v, pr) \ R \subseteq pr.queues
<1> SUFFICES ASSUME NEW x \in UnitsIn(v, pr), x \notin R PROVE x \in pr.queues
  OBVIOUS
<1>1. PICK p \in DOMAIN pr.of : UnitOf(v, p) = x
  BY ProposalUnits
<1> QED
  BY <1>1, ProposalUnits DEF EntryIs

LEMMA ProposalEnds ==
  ASSUME NEW v, NEW u, NEW on, NEW U, Settled(v, on, U),
         NEW pr \in v.proposals, pr.begun, NEW R \in SUBSET UnitsIn(v, pr),
         ProposalOver(v, u, pr, R), U \cap UnitsIn(v, pr) \subseteq R
  PROVE  Settled(u, on, U \ R)
<1> DEFINE Q == UnitsIn(v, pr)
           K == Q \ R
<1>1. \A y : UnitOf(u, y) = UnitOf(v, y)
  BY DEF UnitOf, ProposalOver, SameGroups
<1>2. \A qr \in v.proposals : qr # pr => UnitsIn(v, qr) \cap Q = {} /\ qr.queues \cap pr.queues = {}
  BY KeysApart DEF Settled, ProposalsRight
<1>a. \A qr : UnitsIn(u, qr) = UnitsIn(v, qr)
  BY <1>1 DEF UnitsIn
<1>b. /\ K \subseteq pr.queues /\ \A y \in Q : y \in Guid /\ UnitOf(v, y) = y
      /\ \A y \in pr.queues : y \in Q \/ (y \in Group /\ v.members[y] = {})
      /\ \A y \in Group : y \in Q => y \in pr.queues
  <2>1. K \subseteq pr.queues
    BY KeptUnits DEF ProposalOver
  <2>2. DOMAIN pr.of \subseteq Player /\ \A y \in Q : y \in Guid /\ UnitOf(v, y) = y
    BY ProposalUnits
  <2>3. \A y \in Group : y \in Q => y \in pr.queues
    BY <2>2, Names, ProposalUnits
  <2> QED
    BY <2>1, <2>2, <2>3, ProposalUnits
<1>3. /\ \A x : x \in Offered(u, TRUE) <=> x \in Offered(v, TRUE) /\ x \notin Q
      /\ \A x : x \in Offered(u, FALSE) <=> x \in Offered(v, FALSE)
      /\ \A x \in Q : x \in Offered(v, TRUE) /\ x \notin Offered(v, FALSE)
  <2> HIDE DEF Q
  <2> QED
    BY <1>2, <1>a DEF Offered, ProposalOver, Q
<1>4. /\ (Q \cup pr.queues) \cap (v.new \cup v.current) = {} /\ pr.queues \subseteq DOMAIN v.data
      /\ Q \cap DOMAIN v.checks = {}
  <2>1. Q \cap DOMAIN v.checks = {}
    BY <1>3, OfferedHaveData
  <2> QED
    BY <2>1 DEF Settled, ProposalsRight, ProposalRight, EntriesRight, Keys
<1>5. \A x : x \in InQueue(u) <=> x \in InQueue(v) \/ x \in K
  BY <1>3 DEF InQueue, ProposalOver
<1>6. Typed(u)
  BY DEF Typed, Settled, ProposalOver, SameGroups
<1>7. GroupsRight(u)
  BY DEF Settled, GroupsRight, ProposalOver, SameGroups
<1>8. ASSUME NEW y \in Guid
      PROVE  StateAgrees(u, U \ R, y)
  <2> HIDE DEF Q
  <2>1. StateAgrees(v, U, y)
    BY DEF Settled, StatesAgree
  <2>2. CASE UnitOf(v, y) \notin Q
    <3>1. /\ u.state[y] = v.state[y] /\ u.old[y] = v.old[y] /\ u.checks = v.checks
          /\ UnitOf(v, y) \in U \ R <=> UnitOf(v, y) \in U
      BY <2>2 DEF ProposalOver, Q
    <3> QED
      BY <2>1, <2>2, <3>1, <1>1, <1>3, <1>5 DEF StateAgrees
  <2>3. CASE UnitOf(v, y) \in R
    <3>1. u.state[y] \in OldState /\ u.state[y] = u.old[y] /\ u.checks = v.checks /\ R \subseteq Q
      BY <2>3 DEF ProposalOver, Q
    <3>2. /\ UnitOf(v, y) \notin InQueue(u) /\ UnitOf(v, y) \notin DOMAIN u.checks
          /\ UnitOf(v, y) \notin Offered(u, TRUE) /\ UnitOf(v, y) \notin U \ R
      BY <2>3, <3>1, <1>3, <1>4, <1>5 DEF InQueue
    <3> QED
      BY <3>1, <3>2, <1>1 DEF StateAgrees, OldState
  <2>4. CASE UnitOf(v, y) \in K
    <3>1. u.state[y] = "queued" /\ u.checks = v.checks /\ U \cap Q \subseteq R
      BY <2>4 DEF ProposalOver, Q
    <3>2. /\ UnitOf(v, y) \in InQueue(u) /\ UnitOf(v, y) \notin DOMAIN u.checks
          /\ UnitOf(v, y) \notin Offered(u, TRUE) /\ UnitOf(v, y) \notin U
      BY <2>4, <3>1, <1>3, <1>4, <1>5
    <3> QED
      BY <3>1, <3>2, <1>1 DEF StateAgrees, OldState
  <2> QED
    BY <2>2, <2>3, <2>4
<1>9. EntriesRight(u, on)
  <2>1. \A S, y : Complete(v, on, S, y) => Complete(u, on, S, y)
    BY DEF Complete, ProposalOver, SameGroups
  <2>2. ASSUME NEW y \in DOMAIN u.data, Remains(v, on, y)
        PROVE  Remains(u, on, y)
    <3>0. PICK qr \in v.proposals :
            \E p \in DOMAIN qr.of : p \in on /\ qr.of[p] = y /\ Relict(v, qr, p)
      BY <2>2 DEF Remains
    <3>1. PICK p \in DOMAIN qr.of : p \in on /\ qr.of[p] = y /\ Relict(v, qr, p)
      BY <3>0
    <3>2. y \in DOMAIN v.data /\ u.data[y] = v.data[y] /\ (y \in pr.queues => y \in K)
      BY DEF ProposalOver
    <3>3. y \notin K
      BY <2>2, <1>b, ProposalUnits, GoneIs DEF Remains, Settled
    <3>4. y \in qr.queues
      BY <3>1, Names, ProposalUnits DEF Relict, EntryOf
    <3>5. qr \in u.proposals
      BY <3>2, <3>3, <3>4 DEF ProposalOver
    <3>6. Relict(u, qr, p)
      BY <3>1, <3>2 DEF Relict, ProposalOver, SameGroups
    <3> QED
      BY <2>2, <3>1, <3>5, <3>6 DEF Remains, ProposalOver, SameGroups
  <2>3. DOMAIN u.data = u.new \cup u.current \cup Keys(u)
    <3>1. \A y : y \in Keys(u) <=> y \in Keys(v) /\ y \notin pr.queues
      BY <1>2 DEF Keys, ProposalOver
    <3>2. DOMAIN v.data = v.new \cup v.current \cup Keys(v)
      BY DEF Settled, EntriesRight
    <3>3. DOMAIN u.data = DOMAIN v.data \ (pr.queues \ K) /\ u.new = v.new /\ u.current = v.current \cup K
      BY DEF ProposalOver
    <3> HIDE DEF K, Q
    <3> QED
      BY <3>1, <3>2, <3>3, <1>4, <1>b
  <2>4. u.new \cap u.current = {}
    BY <1>4 DEF Settled, EntriesRight, ProposalOver
  <2> QED
    BY <2>1, <2>2, <2>3, <2>4 DEF Settled, EntriesRight, ProposalOver
<1>10. ProposalsRight(u)
  <2>1. ASSUME NEW qr \in u.proposals
        PROVE  ProposalRight(u, qr)
    <3>1. qr \in v.proposals /\ qr # pr /\ ProposalRight(v, qr) /\ qr.queues \subseteq Guid
      BY DEF Settled, ProposalsRight, ProposalOver, Typed, ProposalTyped
    <3>2. qr.queues \cap pr.queues = {} /\ UnitsIn(v, qr) \cap Q = {}
      BY <3>1, <1>2
    <3>3. (qr.queues \cup UnitsIn(u, qr)) \cap (u.new \cup u.current) = {}
      <4> HIDE DEF Q
      <4> QED
        BY <3>1, <3>2, <1>a, <1>b DEF ProposalRight, ProposalOver, Q
    <3>4. \A y \in qr.queues : y \in DOMAIN v.data /\ UnitOf(v, y) = y
      BY <3>1, ProposalUnits
    <3>5. \A y \in qr.queues : IsLfgGroup(u, y) <=> IsLfgGroup(v, y)
      <4> TAKE y \in qr.queues
      <4>1. CASE y \in Group
        <5>1. y \notin Q /\ UnitOf(v, y) = y /\ y \in Guid
          BY <4>1, <3>2, <3>4, <1>b, Names
        <5>2. u.old[y] = v.old[y]
          BY <5>1 DEF ProposalOver
        <5> QED
          BY <5>2 DEF IsLfgGroup
      <4>2. CASE y \notin Group
        BY <4>2 DEF IsLfgGroup
      <4> QED
        BY <4>1, <4>2
    <3>6. u.of = v.of
      BY DEF ProposalOver, SameGroups
    <3>7. ASSUME NEW p \in DOMAIN qr.of, Relict(v, qr, p)
          PROVE  Relict(u, qr, p)
      <4>1. qr.of[p] \in qr.queues
        BY <3>1, <3>7, Names, ProposalUnits DEF Relict, EntryOf
      <4>2. qr.of[p] \in DOMAIN u.data
        BY <4>1, <3>2, <3>4 DEF ProposalOver
      <4> QED
        BY <3>7, <4>2 DEF Relict, ProposalOver, SameGroups
    <3> QED
      BY <3>1, <3>3, <3>5, <3>6, <3>7, <1>1, <1>a DEF ProposalRight
  <2> QED
    BY <2>1, <1>a DEF ProposalsRight, Settled, ProposalOver
<1>11. NoneMissed(u)
  <2>1. ASSUME NEW y \in u.current \ u.rematch
        PROVE  /\ y \in v.current \ v.rematch /\ u.data[y] = v.data[y]
               /\ IsLfgGroup(v, y) => IsLfgGroup(u, y)
    <3>1. y \in v.current /\ y \notin Q /\ y \notin pr.queues /\ y \notin v.rematch
      BY <1>4 DEF ProposalOver
    <3>2. u.data[y] = v.data[y]
      BY <3>1 DEF ProposalOver, Settled, EntriesRight
    <3>3. IsLfgGroup(v, y) => IsLfgGroup(u, y)
      BY <3>1, Names DEF IsLfgGroup, ProposalOver, UnitOf
    <3> QED
      BY <3>1, <3>2, <3>3
  <2> QED
    BY <2>1, FewerMatches DEF Settled
<1> QED
  BY <1>6, <1>7, <1>8, <1>9, <1>10, <1>11 DEF Settled, StatesAgree

-----------------------------------------------------------------------------
(* Groups change that are nowhere in the finder.                            *)

Places(v) == DOMAIN v.data \cup DOMAIN v.checks \cup Offered(v, TRUE)

Regroups(v, u) ==
  /\ IsRecord(u) /\ DOMAIN u.data = DOMAIN v.data
  /\ \A x \in DOMAIN v.data : u.data[x] = v.data[x]
  /\ u.new = v.new /\ u.current = v.current /\ v.rematch \cap v.current \subseteq u.rematch
  /\ u.checks = v.checks /\ u.proposals = v.proposals
  /\ u.members \in [Group -> SUBSET Player] /\ u.made \subseteq Group
  /\ u.of \in [Player -> Group \cup {None}] /\ u.players \in [Group -> SUBSET Player]
  /\ DOMAIN u.boots \subseteq Group
  /\ u.state \in [Guid -> State] /\ u.old \in [Guid -> OldState]
  /\ GroupsRight(u)
  /\ \A g \in Group : v.members[g] = {} /\ u.members[g] # {} => g \notin Places(v)
  /\ \A p \in Player : u.of[p] # v.of[p] => {p, v.of[p], u.of[p]} \cap Places(v) = {}
  /\ \A y \in Guid : \/ u.state[y] = v.state[y] /\ u.old[y] = v.old[y]
                     \/ /\ u.state[y] \in OldState /\ u.state[y] = u.old[y]
                        /\ {UnitOf(v, y), UnitOf(u, y)} \cap Places(v) = {}
                     \/ /\ y \in Group /\ v.members[y] = {}
                        /\ u.state[y] \in OldState /\ u.state[y] = u.old[y]
                        /\ u.old[y] = "none" <=> v.old[y] = "none"

LEMMA PlacesAre ==
  ASSUME NEW v, NEW on, NEW U, Settled(v, on, U)
  PROVE  /\ \A x \in Places(v) : x \in Guid /\ UnitOf(v, x) = x
         /\ \A pr \in v.proposals : pr.queues \cup UnitsIn(v, pr) \subseteq Places(v)
         /\ v.new \cup v.current \cup Offered(v, FALSE) \subseteq Places(v)
<1>1. \A x \in DOMAIN v.data \cup DOMAIN v.checks : x \in Guid /\ UnitOf(v, x) = x
  BY EntryIsUnit DEF Settled
<1>2. \A x \in Offered(v, TRUE) : x \in Guid /\ UnitOf(v, x) = x
  BY OfferedHaveData
<1>3. Offered(v, FALSE) \cup v.new \cup v.current \subseteq DOMAIN v.data
  BY OfferedHaveData
<1>4. ASSUME NEW pr \in v.proposals
      PROVE  pr.queues \subseteq DOMAIN v.data /\ UnitsIn(v, pr) \subseteq Offered(v, TRUE) \cup Offered(v, FALSE)
  <2>1. pr.begun \in BOOLEAN
    BY DEF Settled, Typed, ProposalTyped
  <2>2. UnitsIn(v, pr) \subseteq Offered(v, TRUE) \cup Offered(v, FALSE)
    BY <2>1 DEF Offered
  <2> QED
    BY <2>2, ProposalUnits
<1> QED
  BY <1>1, <1>2, <1>3, <1>4 DEF Places

(* They stay the same if only those change their unit who are in none.       *)
LEMMA SamePlaces ==
  ASSUME NEW v, NEW u, NEW on, NEW U, Settled(v, on, U), u.of \in [Player -> Group \cup {None}],
         DOMAIN u.data = DOMAIN v.data, DOMAIN u.checks = DOMAIN v.checks, u.proposals = v.proposals,
         \A p \in Player : u.of[p] # v.of[p] => UnitOf(v, p) \notin Places(v)
  PROVE  Places(u) = Places(v)
<1>1. ASSUME NEW pr \in v.proposals
      PROVE  UnitsIn(u, pr) = UnitsIn(v, pr)
  <2>1. UnitsIn(v, pr) \subseteq Places(v) /\ DOMAIN pr.of \subseteq Player
    BY PlacesAre, ProposalUnits
  <2>2. \A p \in DOMAIN pr.of : u.of[p] = v.of[p]
    BY <2>1 DEF UnitsIn
  <2>3. \A p \in DOMAIN pr.of : UnitOf(u, p) = UnitOf(v, p)
    BY <2>2 DEF UnitOf
  <2> QED
    BY <2>3 DEF UnitsIn
<1>2. \A x : x \in Offered(u, TRUE) <=> x \in Offered(v, TRUE)
  <2> TAKE x
  <2>1. x \in Offered(u, TRUE) <=> \E pr \in u.proposals : pr.begun = TRUE /\ x \in UnitsIn(u, pr)
    BY OfferedAre
  <2>2. x \in Offered(v, TRUE) <=> \E pr \in v.proposals : pr.begun = TRUE /\ x \in UnitsIn(v, pr)
    BY OfferedAre
  <2> QED
    BY <1>1, <2>1, <2>2
<1>3. Offered(u, TRUE) = Offered(v, TRUE)
  BY <1>2, Zenon DEF Offered
<1> QED
  BY <1>3 DEF Places

(* A group that is gone is in the finder only as an entry of a proposal.     *)
LEMMA GoneIsNowhere ==
  ASSUME NEW v, NEW on, NEW U, Settled(v, on, U), NEW x \in Group, v.members[x] = {}
  PROVE  x \notin InQueue(v) \cup DOMAIN v.checks \cup Offered(v, TRUE)
<1>1. /\ Typed(v) /\ GroupsRight(v) /\ v.players[x] = {} /\ x \notin Player
      /\ \A p \in Player : UnitOf(v, p) # x
  BY GoneIs, Names DEF Settled
<1>2. x \notin v.new \cup v.current
  <2>1. x \in v.new \cup v.current => Complete(v, on, v.data[x], x)
    BY WaitingIs
  <2> QED
    BY <1>1, <2>1 DEF Complete
<1>3. x \notin DOMAIN v.checks
  <2>1. x \in DOMAIN v.checks => Complete(v, on, v.checks[x].asked, x)
    BY DEF Settled, EntriesRight
  <2> QED
    BY <1>1, <2>1 DEF Complete
<1>4. x \notin Offered(v, TRUE) \cup Offered(v, FALSE)
  <2>1. \A pr \in v.proposals : x \notin UnitsIn(v, pr)
    BY <1>1, ProposalUnits
  <2> QED
    BY <2>1 DEF Offered
<1> QED
  BY <1>2, <1>3, <1>4 DEF InQueue

LEMMA Regrouped ==
  ASSUME NEW v, NEW u, NEW on, Settled(v, on, {}), Regroups(v, u)
  PROVE  Settled(u, on, {})
<1>1. DOMAIN u.data = DOMAIN v.data /\ u.checks = v.checks /\ u.proposals = v.proposals /\ u.new = v.new
      /\ u.current = v.current
  BY DEF Regroups
<1>4. ASSUME NEW y \in Guid
      PROVE  \/ UnitOf(u, y) = UnitOf(v, y)
             \/ UnitOf(u, y) \notin Places(v) /\ UnitOf(v, y) \notin Places(v)
  <2>1. CASE y \in Group
    BY <2>1 DEF UnitOf
  <2>2. CASE y \in Player
    <3>1. u.of[y] = v.of[y] \/ {y, v.of[y], u.of[y]} \cap Places(v) = {}
      BY <2>2 DEF Regroups
    <3>2. UnitOf(u, y) \in {y, u.of[y]} /\ UnitOf(v, y) \in {y, v.of[y]}
      BY DEF UnitOf
    <3>3. u.of[y] = v.of[y] => UnitOf(u, y) = UnitOf(v, y)
      BY DEF UnitOf
    <3> QED
      BY <3>1, <3>2, <3>3
  <2> QED
    BY <2>1, <2>2 DEF Guid
<1>5. \A x \in Places(v) : x \in Guid /\ UnitOf(v, x) = x /\ UnitOf(u, x) = x
  <2> TAKE x \in Places(v)
  <2>1. x \in Guid /\ UnitOf(v, x) = x
    BY PlacesAre
  <2> QED
    BY <1>4, <2>1
<1>3. \A x : x \in InQueue(v) \cup Offered(v, TRUE) => x \in Places(v)
  BY PlacesAre DEF Places, InQueue
<1>a. ASSUME NEW pr \in v.proposals
      PROVE  /\ UnitsIn(u, pr) = UnitsIn(v, pr) /\ \A p \in DOMAIN pr.of : u.of[p] = v.of[p]
             /\ \A p \in Player : UnitOf(u, p) \in UnitsIn(v, pr) => p \in DOMAIN pr.of
  <2>1. UnitsIn(v, pr) \subseteq Places(v)
    BY PlacesAre
  <2>2. ProposalRight(v, pr) /\ DOMAIN pr.of \subseteq Player
    BY DEF Settled, ProposalsRight, Typed, ProposalTyped
  <2>3. ASSUME NEW p \in DOMAIN pr.of
        PROVE  UnitOf(u, p) = UnitOf(v, p) /\ u.of[p] = v.of[p]
    <3>1. p \in Player /\ p \in Guid /\ UnitOf(v, p) \in Places(v)
      BY <2>1, <2>2, Names DEF UnitsIn
    <3>2. UnitOf(u, p) = UnitOf(v, p)
      BY <3>1, <1>4
    <3>3. u.of[p] = v.of[p]
      BY <3>1, Names DEF UnitOf, Regroups
    <3> QED
      BY <3>2, <3>3
  <2>4. \A p \in Player : UnitOf(u, p) \in UnitsIn(v, pr) => p \in DOMAIN pr.of
    <3> SUFFICES ASSUME NEW p \in Player, UnitOf(u, p) \in UnitsIn(v, pr) PROVE p \in DOMAIN pr.of
      OBVIOUS
    <3>1. UnitOf(v, p) = UnitOf(u, p)
      BY <2>1, <1>4, Names
    <3> QED
      BY <3>1, <2>2 DEF ProposalRight
  <2> QED
    BY <2>3, <2>4 DEF UnitsIn
<1>2. /\ \A b : Offered(u, b) = Offered(v, b)
      /\ InQueue(u) = InQueue(v)
  BY <1>1, <1>a DEF Offered, InQueue
<1>6. Typed(u)
  BY <1>1 DEF Settled, Typed, Regroups
<1>7. GroupsRight(u)
  BY DEF Regroups
<1>8. ASSUME NEW y \in Guid
      PROVE  StateAgrees(u, {}, y)
  <2>1. StateAgrees(v, {}, y)
    BY DEF Settled, StatesAgree
  <2>2. CASE u.state[y] = v.state[y] /\ u.old[y] = v.old[y]
    <3>1. CASE UnitOf(u, y) = UnitOf(v, y)
      BY <2>1, <2>2, <3>1, <1>1, <1>2 DEF StateAgrees
    <3>2. CASE UnitOf(u, y) \notin Places(v) /\ UnitOf(v, y) \notin Places(v)
      BY <2>1, <2>2, <3>2, <1>1, <1>2, <1>3 DEF StateAgrees, Places
    <3> QED
      BY <3>1, <3>2, <1>4
  <2>3. CASE u.state[y] \in OldState /\ u.state[y] = u.old[y] /\ UnitOf(u, y) \notin Places(v)
    BY <2>3, <1>1, <1>2, <1>3 DEF StateAgrees, Places, OldState
  <2>4. CASE y \in Group /\ v.members[y] = {} /\ u.state[y] \in OldState /\ u.state[y] = u.old[y]
    <3>1. UnitOf(u, y) = y
      BY <2>4 DEF UnitOf
    <3>2. y \notin InQueue(v) \cup DOMAIN v.checks \cup Offered(v, TRUE)
      BY <2>4, GoneIsNowhere
    <3> QED
      BY <2>4, <3>1, <3>2, <1>1, <1>2 DEF StateAgrees, OldState
  <2> QED
    BY <2>2, <2>3, <2>4 DEF Regroups
<1>9. ASSUME NEW S, NEW x \in Places(v), Complete(v, on, S, x)
      PROVE  Complete(u, on, S, x)
  <2>1. CASE x \in Player
    BY <1>9, <2>1 DEF Complete, Regroups
  <2>2. CASE x \notin Player
    <3>1. x \in Group /\ S = v.players[x]
      BY <1>9, <2>2 DEF Complete
    <3>2. \A p \in Player : v.of[p] = x <=> u.of[p] = x
      BY DEF Regroups
    <3>3. \A p \in Player : p \in v.players[x] <=> p \in u.players[x]
      BY <3>1, <3>2 DEF Regroups, Settled, GroupsRight
    <3>4. v.players[x] \subseteq Player /\ u.players[x] \subseteq Player
      BY <3>1 DEF Regroups, Settled, Typed
    <3>5. u.players[x] = v.players[x]
      BY <3>3, <3>4
    <3> QED
      BY <1>9, <2>2, <3>1, <3>5 DEF Complete
  <2> QED
    BY <2>1, <2>2
<1>10. EntriesRight(u, on)
  <2>1. \A x \in DOMAIN v.data : Complete(u, on, u.data[x], x) \/ Remains(u, on, x)
    <3> TAKE x \in DOMAIN v.data
    <3>1. x \in Places(v) /\ u.data[x] = v.data[x]
      BY DEF Places, Regroups
    <3>2. CASE Complete(v, on, v.data[x], x)
      BY <3>1, <3>2, <1>9
    <3>3. CASE Remains(v, on, x)
      <4>1. PICK pr \in v.proposals :
              \E p \in DOMAIN pr.of : p \in on /\ pr.of[p] = x /\ Relict(v, pr, p)
        BY <3>3 DEF Remains
      <4>2. u.members[x] = {} /\ x \in Group
        BY <3>1, <3>3 DEF Remains, Regroups
      <4>3. \E p \in DOMAIN pr.of : p \in on /\ pr.of[p] = x /\ Relict(u, pr, p)
        BY <3>1, <4>1, <4>2, <1>a DEF Relict
      <4> QED
        BY <4>2, <4>3, <1>1 DEF Remains
    <3> QED
      BY <3>2, <3>3 DEF Settled, EntriesRight
  <2>2. \A g \in DOMAIN v.checks : g \in Group /\ Complete(u, on, v.checks[g].asked, g)
    BY <1>9 DEF Settled, EntriesRight, Places
  <2> QED
    BY <1>1, <1>2, <2>1, <2>2 DEF Settled, EntriesRight, Keys
<1>11. \A y \in Places(v) : IsLfgGroup(u, y) <=> IsLfgGroup(v, y)
  BY <1>5 DEF IsLfgGroup, Regroups
<1>12. ProposalsRight(u)
  <2>1. ASSUME NEW pr \in v.proposals
        PROVE  ProposalRight(u, pr)
    <3>1. /\ ProposalRight(v, pr) /\ DOMAIN pr.of \subseteq Player /\ pr.begun \in BOOLEAN
      BY DEF Settled, ProposalsRight, Typed, ProposalTyped
    <3>2. pr.queues \cup UnitsIn(v, pr) \subseteq Places(v) /\ pr.queues \subseteq DOMAIN v.data
      BY PlacesAre, ProposalUnits
    <3>3. ASSUME NEW p \in DOMAIN pr.of, Relict(v, pr, p)
          PROVE  Relict(u, pr, p)
      <4>1. pr.of[p] \in pr.queues
        BY <3>3, Names, ProposalUnits DEF Relict, EntryOf
      <4>2. u.members[pr.of[p]] = {}
        BY <3>2, <3>3, <4>1 DEF Relict, Regroups
      <4>3. u.data[pr.of[p]] = v.data[pr.of[p]]
        BY <3>2, <4>1 DEF Regroups
      <4> QED
        BY <3>3, <4>2, <4>3, <1>a DEF Relict
    <3> QED
      BY <3>1, <3>2, <3>3, <1>1, <1>a, <1>11 DEF ProposalRight
  <2> QED
    BY <2>1, <1>1, <1>a DEF ProposalsRight, Settled
<1>13. NoneMissed(u)
  <2>1. \A y \in v.current : y \in Places(v) /\ u.data[y] = v.data[y]
    BY <1>3 DEF InQueue, Regroups, Settled, EntriesRight
  <2> QED
    BY <2>1, <1>1, <1>11, FewerMatches DEF Settled, Regroups
<1> QED
  BY <1>6, <1>7, <1>8, <1>10, <1>12, <1>13 DEF Settled, StatesAgree

-----------------------------------------------------------------------------
(* The properties follow from the invariant.                                *)

LEMMA GroupIs ==
  ASSUME NEW v, Typed(v), GroupsRight(v), v.members = v.players, NEW p \in Player
  PROVE  GroupOf(v, p) = v.of[p]
<1>1. v.of[p] \in Group \cup {None}
  BY DEF Typed
<1>2. \A g \in Group : p \in v.members[g] <=> v.of[p] = g
  BY DEF GroupsRight
<1>3. CASE v.of[p] \in Group
  <2>1. p \in v.members[v.of[p]]
    BY <1>2, <1>3
  <2> DEFINE c == CHOOSE g \in Group : p \in v.members[g]
  <2>2. c \in Group /\ p \in v.members[c]
    BY <1>3, <2>1
  <2>3. GroupOf(v, p) = c
    BY <1>3, <2>1 DEF GroupOf
  <2> HIDE DEF c
  <2> QED
    BY <2>2, <2>3, <1>2
<1>4. CASE v.of[p] = None
  BY <1>4, <1>2, Names DEF GroupOf
<1> QED
  BY <1>1, <1>3, <1>4

LEMMA InvAgrees == IInv => GroupsAgree
<1> SUFFICES ASSUME IInv PROVE GroupsAgree
  OBVIOUS
<1>1. Typed(w) /\ GroupsRight(w) /\ w.members = w.players
  BY DEF IInv, Settled
<1> QED
  BY <1>1, GroupIs DEF GroupsAgree, GroupsRight

LEMMA InvWhole == IInv => EntriesAreWhole
<1> SUFFICES ASSUME IInv, phase = "sessions" PROVE EntriesAreWhole
  BY DEF EntriesAreWhole
<1>1. Typed(w) /\ GroupsRight(w) /\ EntriesRight(w, online) /\ ProposalsRight(w)
      /\ w.members = w.players
  BY DEF IInv, Settled
<1>2. ASSUME NEW x, NEW S, Complete(w, online, S, x)
      PROVE  Whole(x, S) /\ (x \notin Player => WholeGroup(x, S))
  BY <1>1, <1>2, GroupIs, Names DEF Complete, Whole, WholeGroup, Exists
<1>3. ASSUME NEW x \in DOMAIN w.data, Remains(w, online, x)
      PROVE  Whole(x, w.data[x])
  <2>1. PICK pr \in w.proposals :
          \E p \in DOMAIN pr.of : p \in online /\ pr.of[p] = x /\ Relict(w, pr, p)
    BY <1>3 DEF Remains
  <2>2. PICK p \in DOMAIN pr.of : p \in online /\ pr.of[p] = x /\ Relict(w, pr, p)
    BY <2>1
  <2>3. p \in Player /\ GroupOf(w, p) = None /\ w.data[x] = {p} /\ x \notin Player /\ ~ Exists(w, x)
    BY <2>2, <1>1, <1>3, GroupIs, Names DEF Relict, Remains, Exists, Typed, ProposalTyped
  <2>4. x \in pr.queues
    BY <2>2, Names, ProposalUnits DEF IInv, Relict, EntryOf
  <2> QED
    BY <2>2, <2>3, <2>4 DEF Whole, LeftBehind
<1>4. ASSUME NEW pr \in w.proposals
      PROVE  pr.queues \subseteq DOMAIN w.data
  BY ProposalUnits DEF IInv
<1>5. ASSUME NEW pr \in w.proposals
      PROVE  DOMAIN pr.of = UNION {w.data[x] : x \in pr.queues}
  <2>1. /\ DOMAIN pr.of \subseteq Player /\ Settled(w, online, {})
        /\ \A p \in Player : UnitOf(w, p) \in UnitsIn(w, pr) => p \in DOMAIN pr.of
    BY <1>1 DEF ProposalsRight, ProposalRight, Typed, ProposalTyped, IInv
  <2>2. ASSUME NEW x \in pr.queues
        PROVE  w.data[x] \subseteq DOMAIN pr.of
    <3>1. CASE x \in UnitsIn(w, pr)
      <4>1. Complete(w, online, w.data[x], x)
        <5>1. \E p \in Player : UnitOf(w, p) = x
          BY <2>1, <3>1, ProposalUnits
        <5> QED
          BY <5>1, <1>1, <1>4, GoneIs DEF EntriesRight, Remains
      <4> QED
        BY <1>1, <2>1, <3>1, <4>1, CompleteMeans
    <3>2. CASE x \notin UnitsIn(w, pr)
      <4>1. PICK p \in DOMAIN pr.of : Relict(w, pr, p) /\ pr.of[p] = x
        BY <2>1, <3>2, ProposalUnits
      <4> QED
        BY <4>1 DEF Relict
    <3> QED
      BY <3>1, <3>2
  <2>3. ASSUME NEW p \in DOMAIN pr.of
        PROVE  \E x \in pr.queues : p \in w.data[x]
    <3>1. EntryOf(pr, p) \in pr.queues /\ p \in Player /\ EntryIs(w, pr, p)
      BY <2>1, ProposalUnits
    <3>2. CASE EntryOf(pr, p) = UnitOf(w, p)
      <4>1. Complete(w, online, w.data[UnitOf(w, p)], UnitOf(w, p))
        <5>1. UnitOf(w, p) \in DOMAIN w.data
          BY <3>1, <3>2, <1>4
        <5> QED
          BY <5>1, <3>1, <1>1, GoneIs DEF EntriesRight, Remains
      <4>2. p \in w.data[UnitOf(w, p)]
        BY <1>1, <3>1, <4>1, CompleteMeans
      <4> QED
        BY <3>1, <3>2, <4>2
    <3>3. CASE Relict(w, pr, p) /\ EntryOf(pr, p) = pr.of[p]
      BY <3>1, <3>3 DEF Relict
    <3> QED
      BY <3>1, <3>2, <3>3 DEF EntryIs
  <2> QED
    BY <2>2, <2>3
<1>6. \A x \in DOMAIN w.data : Whole(x, w.data[x])
  BY <1>1, <1>2, <1>3 DEF EntriesRight
<1>7. \A g \in DOMAIN w.checks : WholeGroup(g, w.checks[g].asked)
  BY <1>1, <1>2, Names DEF EntriesRight
<1> QED
  BY <1>4, <1>5, <1>6, <1>7 DEF EntriesAreWhole

LEMMA InvMatches == IInv => NoMatchIsMissed
<1> SUFFICES ASSUME IInv, NEW x \in w.current \ w.rematch, NEW S \in Matches(w, x)
             PROVE  S \cap w.rematch # {}
  BY DEF NoMatchIsMissed
<1>1. S \in SUBSET w.current /\ IsMatch(w, S)
  BY DEF Matches, IsMatch
<1> QED
  BY <1>1 DEF IInv, Settled, NoneMissed

LEMMA ProposedUnits ==
  ASSUME NEW v, NEW on, Settled(v, on, {}), NEW pr \in v.proposals, NEW x \in Guid
  PROVE  /\ x \in DOMAIN pr.of \cup Range(pr.of) =>
              \/ UnitOf(v, x) \in UnitsIn(v, pr)
              \/ x \in Group /\ v.members[x] = {} /\ x \in pr.queues
         /\ UnitOf(v, x) \in UnitsIn(v, pr) =>
              /\ x \in DOMAIN pr.of \cup Range(pr.of)
              /\ x \in Player \/ v.members[x] # {}
<1>1. Typed(v) /\ GroupsRight(v) /\ ProposalTyped(pr)
  BY DEF Settled, Typed
<1>2. /\ Range(pr.of) \subseteq Group \cup {None} /\ Range(pr.of) = {pr.of[p] : p \in DOMAIN pr.of}
      /\ DOMAIN pr.of \subseteq Player
  BY <1>1 DEF ProposalTyped, Range
<1>3. CASE x \in Player
  BY <1>2, <1>3, Names, ProposalUnits
<1>4. CASE x \in Group
  <2>1. UnitOf(v, x) = x /\ x \notin DOMAIN pr.of
    BY <1>2, <1>4, Names DEF UnitOf
  <2>2. ASSUME NEW p \in DOMAIN pr.of, pr.of[p] = x
        PROVE  x \in UnitsIn(v, pr) \/ (v.members[x] = {} /\ x \in pr.queues)
    <3>1. /\ UnitOf(v, p) \in UnitsIn(v, pr) /\ EntryOf(pr, p) \in pr.queues /\ EntryOf(pr, p) = x
          /\ EntryIs(v, pr, p)
      BY <2>2, <1>4, Names, ProposalUnits DEF EntryOf
    <3>2. CASE EntryOf(pr, p) = UnitOf(v, p)
      BY <3>1, <3>2
    <3>3. CASE Relict(v, pr, p)
      BY <3>1, <3>3, <2>2 DEF Relict
    <3> QED
      BY <3>1, <3>2, <3>3 DEF EntryIs
  <2>3. ASSUME x \in UnitsIn(v, pr)
        PROVE  x \in Range(pr.of) /\ v.members[x] # {}
    <3>1. PICK p \in DOMAIN pr.of : UnitOf(v, p) = x
      BY <2>3, ProposalUnits
    <3>2. p \in Player /\ v.of[p] = x /\ UnitOf(v, p) # p
      BY <3>1, <1>2, <1>4, Names DEF UnitOf
    <3>3. pr.of[p] = v.of[p]
      BY <3>2, ProposalUnits DEF EntryIs
    <3>4. v.members[x] # {}
      BY <3>2, <1>1, <1>4, GoneIs
    <3> QED
      BY <1>2, <3>2, <3>3, <3>4
  <2>4. x \in DOMAIN pr.of \cup Range(pr.of) =>
          x \in UnitsIn(v, pr) \/ (v.members[x] = {} /\ x \in pr.queues)
    BY <1>2, <2>1, <2>2
  <2> HIDE DEF UnitsIn
  <2> QED
    BY <1>4, <2>1, <2>3, <2>4
<1> QED
  BY <1>3, <1>4 DEF Guid

LEMMA InvOnePlace == IInv => OnePlace
<1> SUFFICES ASSUME IInv PROVE OnePlace
  OBVIOUS
<1>1. /\ Typed(w) /\ GroupsRight(w) /\ EntriesRight(w, online) /\ ProposalsRight(w)
      /\ StatesAgree(w, {}) /\ Settled(w, online, {})
  BY DEF IInv, Settled
<1>2. \A x \in DOMAIN w.data : x \in Guid /\ w.data[x] \subseteq Player
  <2> TAKE x \in DOMAIN w.data
  <2>1. CASE Complete(w, online, w.data[x], x)
    BY <2>1, <1>1, CompleteMeans
  <2>2. CASE Remains(w, online, x)
    BY <2>2, <1>1, Names DEF Remains, Relict, Typed, ProposalTyped
  <2> QED
    BY <2>1, <2>2, <1>1 DEF EntriesRight
<1>3. TypeOK
  <2>1. \A pr \in w.proposals : ProposalTyped(pr)
    BY <1>1 DEF Typed
  <2>2. \A g \in DOMAIN w.checks : g \in Group /\ w.checks[g].answered \subseteq w.checks[g].asked
    BY <1>1 DEF Typed, CheckTyped, EntriesRight
  <2> QED
    BY <1>1, <1>2, <2>1, <2>2 DEF IInv, Typed, TypeOK, EntriesRight, ProposalTyped
<1>a. \A y \in w.new \cup w.current : Complete(w, online, w.data[y], y)
  <2> TAKE y \in w.new \cup w.current
  <2>1. y \in DOMAIN w.data /\ y \notin Keys(w)
    BY <1>1 DEF EntriesRight, ProposalsRight, ProposalRight, Keys
  <2>2. ~ Remains(w, online, y)
    <3> SUFFICES ASSUME Remains(w, online, y) PROVE FALSE
      OBVIOUS
    <3>1. PICK pr \in w.proposals :
            \E p \in DOMAIN pr.of : p \in online /\ pr.of[p] = y /\ Relict(w, pr, p)
      BY DEF Remains
    <3>2. y \in pr.queues
      BY <3>1, <1>1, Names, ProposalUnits DEF Relict, EntryOf
    <3> QED
      BY <2>1, <3>2 DEF Keys
  <2> QED
    BY <2>1, <2>2, <1>1 DEF EntriesRight
<1>4. ASSUME phase = "sessions", NEW x \in Guid
      PROVE  /\ Cardinality(Waits(x)) + Cardinality(CheckedBy(x)) + Cardinality(ProposedBy(x)) <= 1
             /\ Waits(x) # {}      <=> w.state[x] = "queued"
             /\ CheckedBy(x) # {}  <=> w.state[x] = "rolecheck"
             /\ ProposedBy(x) # {} /\ (x \in Player \/ Exists(w, x)) <=> w.state[x] = "proposal"
  <2> DEFINE h == UnitOf(w, x)
  <2>1. Offered(w, FALSE) = {} /\ InQueue(w) = w.new \cup w.current
    BY <1>4 DEF IInv, Offered, InQueue
  <2>2. \A y \in w.new \cup w.current : x \in w.data[y] \cup {y} <=> h = y
    <3> TAKE y \in w.new \cup w.current
    <3>1. Complete(w, online, w.data[y], y)
      BY <1>1, <1>a
    <3> QED
      BY <3>1, <1>1, CompleteMeans
  <2>3. \A g \in DOMAIN w.checks : x \in w.checks[g].asked \cup {g} <=> h = g
    BY <1>1, CompleteMeans DEF EntriesRight
  <2>a. h = x \/ x \notin Group
    BY DEF UnitOf
  <2>4. \A pr \in w.proposals :
          /\ x \in DOMAIN pr.of \cup Range(pr.of) =>
               \/ h \in UnitsIn(w, pr)
               \/ x \in Group /\ w.members[x] = {} /\ h = x /\ x \in pr.queues
          /\ h \in UnitsIn(w, pr) =>
               x \in DOMAIN pr.of \cup Range(pr.of) /\ (x \in Player \/ w.members[x] # {})
    BY <1>1, <2>a, ProposedUnits
  <2> HIDE DEF h
  <2>5. Waits(x) = (w.new \cup w.current) \cap {h}
    BY <2>1, <2>2, <1>1 DEF Waits, EntriesRight
  <2>6. CheckedBy(x) = DOMAIN w.checks \cap {h}
    BY <2>3 DEF CheckedBy
  <2>7. \A pr : pr \in ProposedBy(x) <=> pr \in w.proposals /\ x \in DOMAIN pr.of \cup Range(pr.of)
    BY DEF ProposedBy
  <2>8. ASSUME NEW pr \in ProposedBy(x)
        PROVE  ProposedBy(x) = {pr} /\ h \notin w.new \cup w.current /\ h \notin DOMAIN w.checks
    <3>1. /\ pr \in w.proposals
          /\ \/ h \in UnitsIn(w, pr)
             \/ x \in Group /\ w.members[x] = {} /\ h = x /\ x \in pr.queues
      BY <2>4, <2>7
    <3>2. ASSUME NEW qr \in ProposedBy(x) PROVE qr = pr
      <4>1. /\ qr \in w.proposals
            /\ \/ h \in UnitsIn(w, qr)
               \/ x \in Group /\ w.members[x] = {} /\ h = x /\ x \in qr.queues
        BY <2>4, <2>7
      <4>2. CASE h \in UnitsIn(w, pr) /\ h \in UnitsIn(w, qr)
        BY <4>1, <4>2, <3>1, <1>1 DEF ProposalsRight
      <4>3. CASE x \in pr.queues /\ x \in qr.queues
        BY <4>1, <4>3, <3>1, <1>1, KeysApart
      <4> QED
        BY <4>1, <4>2, <4>3, <3>1, <2>4, Names
    <3>3. h \in UnitsIn(w, pr) \cup pr.queues
      BY <3>1
    <3>4. h \notin w.new \cup w.current
      BY <3>1, <3>3, <1>1 DEF ProposalsRight, ProposalRight
    <3>5. h \in DOMAIN w.data \cup Offered(w, TRUE)
      <4>1. pr.begun
        BY <3>1, <1>4 DEF IInv
      <4> QED
        BY <3>1, <4>1, <1>1, ProposalUnits DEF Offered
    <3>6. h \notin DOMAIN w.checks
      BY <3>5, <1>1, OfferedHaveData
    <3> QED
      BY <3>2, <3>4, <3>6
  <2>9. StateAgrees(w, {}, x)
    BY <1>1 DEF StatesAgree
  <2>10. ProposedBy(x) # {} /\ (x \in Player \/ Exists(w, x)) <=> h \in Offered(w, TRUE)
    <3>1. h \in Offered(w, TRUE) <=> \E pr \in w.proposals : h \in UnitsIn(w, pr)
      BY <1>4 DEF Offered, IInv
    <3>2. x \in Player \/ Exists(w, x) <=> ~ (x \in Group /\ w.members[x] = {})
      BY Names DEF Exists, Guid
    <3> QED
      BY <3>1, <3>2, <2>4, <2>7
  <2>11. \/ Waits(x) = {h} /\ CheckedBy(x) = {} /\ ProposedBy(x) = {}
         \/ Waits(x) = {} /\ CheckedBy(x) = {h} /\ ProposedBy(x) = {}
         \/ Waits(x) = {} /\ CheckedBy(x) = {} /\ \E pr : ProposedBy(x) = {pr}
         \/ Waits(x) = {} /\ CheckedBy(x) = {} /\ ProposedBy(x) = {}
    BY <2>5, <2>6, <2>8, <1>1 DEF EntriesRight
  <2>12. Cardinality({}) = 0 /\ \A e : Cardinality({e}) = 1
    BY FS_EmptySet, FS_Singleton
  <2>13. Cardinality(Waits(x)) + Cardinality(CheckedBy(x)) + Cardinality(ProposedBy(x)) <= 1
    <3>1. CASE Waits(x) = {h} /\ CheckedBy(x) = {} /\ ProposedBy(x) = {}
      BY <3>1, <2>12
    <3>2. CASE Waits(x) = {} /\ CheckedBy(x) = {h} /\ ProposedBy(x) = {}
      <4>1. Cardinality(Waits(x)) = 0
        BY <3>2, <2>12
      <4>2. Cardinality(CheckedBy(x)) = 1
        BY <3>2, <2>12
      <4>3. Cardinality(ProposedBy(x)) = 0
        BY <3>2, <2>12
      <4> QED
        BY <4>1, <4>2, <4>3
    <3>3. CASE Waits(x) = {} /\ CheckedBy(x) = {} /\ \E pr : ProposedBy(x) = {pr}
      <4>1. Cardinality(Waits(x)) = 0
        BY <3>3, <2>12
      <4>2. Cardinality(CheckedBy(x)) = 0
        BY <3>3, <2>12
      <4>3. Cardinality(ProposedBy(x)) = 1
        BY <3>3, <2>12
      <4> QED
        BY <4>1, <4>2, <4>3
    <3>4. CASE Waits(x) = {} /\ CheckedBy(x) = {} /\ ProposedBy(x) = {}
      BY <3>4, <2>12
    <3> QED
      BY <2>11, <3>1, <3>2, <3>3, <3>4
  <2> QED
    BY <2>1, <2>5, <2>6, <2>9, <2>10, <2>13 DEF StateAgrees, h
<1> QED
  BY <1>3, <1>4 DEF OnePlace

-----------------------------------------------------------------------------
(* Answers to a proposal.                                                   *)

Answers(pr, now) ==
  /\ ProposalTyped(now) /\ now.queues = pr.queues /\ now.group = pr.group
  /\ now.isNew = pr.isNew /\ now.of = pr.of /\ now.begun = pr.begun

LEMMA DenyDoes ==
  ASSUME NEW pr, ProposalTyped(pr), NEW S
  PROVE  /\ Answers(pr, Deny(pr, S))
         /\ Deny(pr, S).accept = [p \in DOMAIN pr.of |-> IF p \in S THEN "deny" ELSE pr.accept[p]]
<1>1. DOMAIN pr.accept = DOMAIN pr.of
  BY DEF ProposalTyped
<1> DEFINE a == [p \in DOMAIN pr.of |-> IF p \in S THEN "deny" ELSE pr.accept[p]]
           d == [pr EXCEPT !.accept = a]
<1>2. Deny(pr, S) = d
  BY <1>1 DEF Deny
<1>3. a \in [DOMAIN pr.of -> Answer]
  BY DEF ProposalTyped, Answer
<1> HIDE DEF a
<1>4. /\ d.queues = pr.queues /\ d.group = pr.group /\ d.isNew = pr.isNew /\ d.of = pr.of
      /\ d.begun = pr.begun /\ d.accept = a
      /\ d = [queues |-> d.queues, group |-> d.group, isNew |-> d.isNew,
              of |-> d.of, accept |-> d.accept, begun |-> d.begun]
  BY DEF ProposalTyped
<1> HIDE DEF d
<1>5. Answers(pr, d)
  BY <1>3, <1>4 DEF Answers, ProposalTyped
<1> QED
  BY <1>2, <1>4, <1>5 DEF a

LEMMA AnswerDoes ==
  ASSUME NEW pr, ProposalTyped(pr), NEW p \in DOMAIN pr.of, NEW b \in Answer
  PROVE  LET now == [pr EXCEPT !.accept[p] = b]
         IN /\ Answers(pr, now)
            /\ now.accept = [pr.accept EXCEPT ![p] = b]
<1>1. DOMAIN pr.accept = DOMAIN pr.of
  BY DEF ProposalTyped
<1> DEFINE a == [pr.accept EXCEPT ![p] = b]
           d == [pr EXCEPT !.accept = a]
           n == [pr EXCEPT !.accept[p] = b]
<1>2. n = d
  OBVIOUS
<1>3. a \in [DOMAIN pr.of -> Answer]
  BY DEF ProposalTyped
<1> HIDE DEF a, n
<1>4. /\ d.queues = pr.queues /\ d.group = pr.group /\ d.isNew = pr.isNew /\ d.of = pr.of
      /\ d.begun = pr.begun /\ d.accept = a
      /\ d = [queues |-> d.queues, group |-> d.group, isNew |-> d.isNew,
              of |-> d.of, accept |-> d.accept, begun |-> d.begun]
  BY DEF ProposalTyped
<1> HIDE DEF d
<1>5. Answers(pr, d)
  BY <1>3, <1>4 DEF Answers, ProposalTyped
<1> QED
  BY <1>2, <1>4, <1>5 DEF a, n

Answered(v, u, pr, now) ==
  /\ IsRecord(u) /\ SameGroups(v, u) /\ SameQueue(v, u) /\ SameStates(v, u)
  /\ u.checks = v.checks /\ u.cancels = v.cancels
  /\ u.proposals = (v.proposals \ {pr}) \cup {now}

LEMMA ProposalsReplaced ==
  ASSUME NEW v, IsRecord(v), NEW pr, NEW now
  PROVE  Answered(v, [v EXCEPT !.proposals = (@ \ {pr}) \cup {now}], pr, now)
BY DEF IsRecord, Fields, Answered, SameGroups, SameQueue, SameStates

LEMMA ProposalAnswered ==
  ASSUME NEW v, NEW u, NEW on, NEW U, Settled(v, on, U),
         NEW pr \in v.proposals, NEW now, Answers(pr, now), Answered(v, u, pr, now)
  PROVE  /\ Settled(u, on, U) /\ now \in u.proposals
         /\ u.proposals \ {now} = v.proposals \ {pr}
         /\ \A y : UnitOf(u, y) = UnitOf(v, y)
<1>1. \A y : UnitOf(u, y) = UnitOf(v, y)
  BY DEF UnitOf, Answered, SameGroups
<1>a. /\ \A qr : UnitsIn(u, qr) = UnitsIn(v, qr)
      /\ UnitsIn(v, now) = UnitsIn(v, pr)
  BY <1>1 DEF UnitsIn, Answers
<1>b. /\ \A qr, p : Relict(v, qr, p) => Relict(u, qr, p)
      /\ \A p : Relict(v, pr, p) => Relict(u, now, p)
  BY DEF Relict, Answered, Answers, SameGroups, SameQueue
<1>2. \A b : Offered(u, b) = Offered(v, b)
  <2> TAKE b
  <2>1. \A x : x \in Offered(u, b) <=> x \in Offered(v, b)
    <3> HIDE DEF UnitsIn
    <3> QED
      BY <1>a DEF Offered, Answered, Answers
  <2> QED
    BY <2>1
<1>3. InQueue(u) = InQueue(v)
  BY <1>2 DEF InQueue, Answered, SameQueue
<1>4. Typed(u)
  <2>1. \A qr \in u.proposals : ProposalTyped(qr)
    BY DEF Settled, Typed, Answered, Answers
  <2> QED
    BY <2>1 DEF Settled, Typed, Answered, SameGroups, SameStates
<1>5. GroupsRight(u)
  BY DEF Settled, GroupsRight, Answered, SameGroups
<1>6. StatesAgree(u, U)
  BY <1>1, <1>2, <1>3 DEF Settled, StatesAgree, StateAgrees, Answered, SameStates
<1>7. EntriesRight(u, on)
  <2>1. \A S, x : Complete(v, on, S, x) => Complete(u, on, S, x)
    BY DEF Complete, Answered, SameGroups
  <2>2. ASSUME NEW x, Remains(v, on, x)
        PROVE  Remains(u, on, x)
    <3>1. PICK qr \in v.proposals :
            \E p \in DOMAIN qr.of : p \in on /\ qr.of[p] = x /\ Relict(v, qr, p)
      BY <2>2 DEF Remains
    <3>2. x \in Group /\ u.members[x] = {}
      BY <2>2 DEF Remains, Answered, SameGroups
    <3>3. CASE qr = pr
      BY <3>1, <3>2, <3>3, <1>b DEF Remains, Answered, Answers
    <3>4. CASE qr # pr
      BY <3>1, <3>2, <3>4, <1>b DEF Remains, Answered
    <3> QED
      BY <3>3, <3>4
  <2>3. Keys(u) = Keys(v)
    <3>1. \A x : x \in Keys(u) <=> x \in Keys(v)
      BY DEF Keys, Answered, Answers
    <3> QED
      BY <3>1
  <2> QED
    BY <2>1, <2>2, <2>3, <1>2, <1>3 DEF Settled, EntriesRight, Answered, SameQueue
<1>8. \A qr \in v.proposals : ProposalRight(v, qr)
  BY DEF Settled, ProposalsRight
<1>9. \A x : IsLfgGroup(u, x) <=> IsLfgGroup(v, x)
  BY DEF IsLfgGroup, Answered, SameStates
<1>10. ASSUME NEW qr \in u.proposals
       PROVE  ProposalRight(u, qr)
  <2>1. PICK or \in v.proposals : /\ qr.queues = or.queues /\ qr.group = or.group /\ qr.of = or.of
                                  /\ \A p : Relict(v, or, p) => Relict(u, qr, p)
    BY <1>b DEF Answered, Answers
  <2>2. ProposalRight(v, or) /\ u.new = v.new /\ u.current = v.current /\ u.of = v.of
    BY <1>8 DEF Answered, SameQueue, SameGroups
  <2>3. UnitsIn(u, qr) = UnitsIn(v, or) /\ \A p : EntryOf(qr, p) = EntryOf(or, p)
    BY <2>1, <1>1 DEF UnitsIn, EntryOf
  <2>4. qr.queues = {EntryOf(qr, p) : p \in DOMAIN qr.of}
    BY <2>1, <2>2, <2>3 DEF ProposalRight
  <2> QED
    BY <2>1, <2>2, <2>3, <2>4, <1>1, <1>9 DEF ProposalRight
<1>11. ProposalsRight(u)
  <2>1. \A or, qr \in v.proposals : or = qr \/ UnitsIn(v, or) \cap UnitsIn(v, qr) = {}
    BY DEF Settled, ProposalsRight
  <2>2. \A qr, or \in u.proposals : qr = or \/ UnitsIn(u, qr) \cap UnitsIn(u, or) = {}
    <3> HIDE DEF UnitsIn
    <3> QED
      BY <2>1, <1>a DEF Answered
  <2> QED
    BY <1>10, <2>2 DEF ProposalsRight
<1>12. NoneMissed(u)
  BY <1>9, FewerMatches DEF Settled, Answered, SameQueue
<1>13. now = pr \/ now \notin v.proposals
  <2>1. UnitsIn(v, pr) # {}
    BY <1>8 DEF ProposalRight, UnitsIn
  <2> QED
    BY <2>1, <1>a DEF Settled, ProposalsRight
<1> QED
  BY <1>1, <1>4, <1>5, <1>6, <1>7, <1>11, <1>12, <1>13 DEF Settled, Answered

-----------------------------------------------------------------------------
(* Removing a proposal.                                                     *)

(* The units of which the entries are removed; among them are all players    *)
(* whose group is gone.                                                     *)
Outs(v, pr, failed) == {p \in DOMAIN pr.of : EntryOf(pr, p) \in ToRemove(v, pr, failed)}
Removed(v, pr, failed) == {UnitOf(v, p) : p \in Outs(v, pr, failed)}

LEMMA ToRemoveIs ==
  ASSUME NEW v, NEW on, NEW U, Settled(v, on, U), NEW pr \in v.proposals, NEW failed
  PROVE  /\ Removed(v, pr, failed) \subseteq UnitsIn(v, pr)
         /\ ToRemove(v, pr, failed) = pr.queues \ (UnitsIn(v, pr) \ Removed(v, pr, failed))
         /\ UnitsIn(v, pr) \ Removed(v, pr, failed) = pr.queues \ ToRemove(v, pr, failed)
         /\ \A p \in Denied(pr, failed) : p \in DOMAIN pr.of /\ UnitOf(v, p) \in Removed(v, pr, failed)
         /\ \A p \in DOMAIN pr.of : Relict(v, pr, p) => p \in Removed(v, pr, failed)
         /\ \A p \in DOMAIN pr.of :
              p \in Outs(v, pr, failed) <=> UnitOf(v, p) \in Removed(v, pr, failed)
<1> DEFINE T == ToRemove(v, pr, failed)
           R == Removed(v, pr, failed)
           Q == UnitsIn(v, pr)
<1>1. /\ DOMAIN pr.of \subseteq Player /\ Denied(pr, failed) \subseteq DOMAIN pr.of
  BY ProposalUnits DEF Denied
<1>2. T \subseteq pr.queues
  <2>1. \A p \in DOMAIN pr.of : pr.of[p] # None => pr.of[p] = EntryOf(pr, p)
    BY DEF EntryOf
  <2>2. \A p \in DOMAIN pr.of : EntryOf(pr, p) \in pr.queues
    BY ProposalUnits
  <2> QED
    BY <1>1, <2>1, <2>2 DEF ToRemove
<1>3. ASSUME NEW p \in DOMAIN pr.of, Relict(v, pr, p)
      PROVE  EntryOf(pr, p) \in T /\ UnitOf(v, p) = p
  <2>1. pr.of[p] # None /\ ~ Exists(v, pr.of[p]) /\ EntryOf(pr, p) = pr.of[p]
    BY <1>3, Names DEF Relict, Exists, EntryOf
  <2> QED
    BY <1>3, <2>1 DEF ToRemove, Relict, UnitOf
<1>4. \A p \in DOMAIN pr.of : ~ Relict(v, pr, p) => EntryOf(pr, p) = UnitOf(v, p)
  BY ProposalUnits DEF EntryIs
<1>5. ASSUME NEW p \in DOMAIN pr.of
      PROVE  EntryOf(pr, p) \in T <=> UnitOf(v, p) \in R
  <2>1. EntryOf(pr, p) \in T => UnitOf(v, p) \in R
    BY DEF Removed, Outs
  <2>2. ASSUME UnitOf(v, p) \in R
        PROVE  EntryOf(pr, p) \in T
    <3>1. PICK q \in DOMAIN pr.of : EntryOf(pr, q) \in T /\ UnitOf(v, q) = UnitOf(v, p)
      BY <2>2 DEF Removed, Outs
    <3>2. CASE Relict(v, pr, p)
      BY <3>2, <1>3
    <3>3. CASE Relict(v, pr, q)
      <4>1. q \in Player /\ UnitOf(v, p) = q
        BY <3>1, <3>3, <1>1, <1>3
      <4>2. p = q
        BY <4>1, <1>1, Names, UnitIs DEF Settled
      <4> QED
        BY <3>1, <4>2
    <3>4. CASE ~ Relict(v, pr, p) /\ ~ Relict(v, pr, q)
      BY <3>1, <3>4, <1>4
    <3> QED
      BY <3>2, <3>3, <3>4
  <2> QED
    BY <2>1, <2>2
<1>6. R \subseteq Q
  BY DEF Removed, Outs, UnitsIn
<1>7. pr.queues = {EntryOf(pr, p) : p \in DOMAIN pr.of}
  BY DEF Settled, ProposalsRight, ProposalRight
<1>8. Q \ R = pr.queues \ T
  <2>1. ASSUME NEW x \in Q, x \notin R
        PROVE  x \in pr.queues /\ x \notin T
    <3>1. PICK p \in DOMAIN pr.of : UnitOf(v, p) = x
      BY <2>1 DEF UnitsIn
    <3>2. EntryOf(pr, p) \notin T
      BY <2>1, <3>1, <1>5
    <3>3. EntryOf(pr, p) = x
      BY <3>1, <3>2, <1>3, <1>4
    <3> QED
      BY <3>2, <3>3, <1>7
  <2>2. ASSUME NEW x \in pr.queues, x \notin T
        PROVE  x \in Q /\ x \notin R
    <3>1. PICK p \in DOMAIN pr.of : EntryOf(pr, p) = x
      BY <1>7
    <3>2. UnitOf(v, p) = x
      BY <2>2, <3>1, <1>3, <1>4
    <3> QED
      BY <2>2, <3>1, <3>2, <1>5 DEF UnitsIn
  <2> QED
    BY <2>1, <2>2
<1>9. \A p \in Denied(pr, failed) : p \in DOMAIN pr.of /\ EntryOf(pr, p) \in T
  BY <1>1 DEF ToRemove
<1> HIDE DEF T, R, Q
<1>10. T = pr.queues \ (Q \ R)
  BY <1>2, <1>8
<1> QED
  BY <1>3, <1>5, <1>6, <1>8, <1>9, <1>10 DEF T, R, Q, Outs

LEMMA RemoveProposalDoes ==
  ASSUME NEW v, NEW on, NEW U, Settled(v, on, U), NEW pr \in v.proposals, NEW failed
  PROVE  LET u == RemoveProposal(v, pr, failed)
             R == Removed(v, pr, failed)
         IN ProposalOver(v, u, pr, R) /\ u.old = v.old /\ u.cancels = v.cancels
<1> DEFINE T == ToRemove(v, pr, failed)
           R == Removed(v, pr, failed)
           Q == UnitsIn(v, pr)
           K == pr.queues \ T
           out  == Outs(v, pr, failed)
           stay == DOMAIN pr.of \ out
           O == out \cup {EntryOf(pr, p) : p \in out}
           S == stay \cup {EntryOf(pr, p) : p \in stay}
           v1 == RestoreStates(v, O)
           v2 == SetStates(v1, S, "queued")
           v3 == RemoveFromQueue(v2, T)
           v4 == ReAdd(v3, K)
           u  == [v4 EXCEPT !.proposals = @ \ {pr}]
<1>1. RemoveProposal(v, pr, failed) = u
  BY DEF RemoveProposal, Outs
<1>2. /\ R \subseteq Q /\ T = pr.queues \ (Q \ R) /\ Q \ R = K
      /\ \A p \in DOMAIN pr.of : Relict(v, pr, p) => p \in R
      /\ \A p \in DOMAIN pr.of : p \in out <=> UnitOf(v, p) \in R
  BY ToRemoveIs
<1>3. /\ \A y \in Guid : UnitOf(v, y) \in R => y \in O
      /\ \A y \in O : UnitOf(v, y) \in R \/ (y \in Guid /\ y \in Group /\ v.members[y] = {})
      /\ \A y \in Guid : y \in S <=> UnitOf(v, y) \in K
  <2> HIDE DEF R, T, K, Q, out
  <2>1. DOMAIN pr.of \subseteq Player /\ out \subseteq DOMAIN pr.of
    BY ProposalUnits DEF out, Outs
  <2>2. \A p \in DOMAIN pr.of : UnitOf(v, p) \in Q /\ EntryIs(v, pr, p)
    BY ProposalUnits DEF Q
  <2>3. \A y \in Guid : UnitOf(v, y) \in Q => y \in DOMAIN pr.of \/ (y \in Group /\ UnitOf(v, y) = y)
    BY ProposalUnits DEF Q
  <2>4. \A x \in Q : x \in Guid /\ UnitOf(v, x) = x /\ \E p \in DOMAIN pr.of : UnitOf(v, p) = x
    BY ProposalUnits DEF Q
  <2>5. \A p \in DOMAIN pr.of : ~ Relict(v, pr, p) => EntryOf(pr, p) = UnitOf(v, p)
    BY <2>2 DEF EntryIs
  <2>6. \A p \in DOMAIN pr.of : Relict(v, pr, p) =>
           p \in out /\ EntryOf(pr, p) \in Group /\ v.members[EntryOf(pr, p)] = {}
    <3> TAKE p \in DOMAIN pr.of
    <3> SUFFICES ASSUME Relict(v, pr, p) PROVE p \in out /\ EntryOf(pr, p) \in Group
                                              /\ v.members[EntryOf(pr, p)] = {}
      OBVIOUS
    <3>1. UnitOf(v, p) = p
      BY DEF Relict, UnitOf
    <3>2. EntryOf(pr, p) = pr.of[p]
      BY Names DEF Relict, EntryOf
    <3> QED
      BY <3>1, <3>2, <1>2 DEF Relict
  <2>7. ASSUME NEW y \in Guid, UnitOf(v, y) \in R
        PROVE  y \in O
    <3>1. CASE y \in DOMAIN pr.of
      BY <2>7, <3>1, <1>2
    <3>2. CASE y \in Group /\ UnitOf(v, y) = y
      <4>1. PICK p \in DOMAIN pr.of : UnitOf(v, p) = y
        BY <2>7, <3>2, <2>4, <1>2
      <4>2. p \in out /\ p \in Player
        BY <2>7, <3>2, <4>1, <1>2, <2>1
      <4>3. ~ Relict(v, pr, p)
        BY <3>2, <4>1, <4>2, Names DEF Relict, UnitOf
      <4> QED
        BY <4>1, <4>2, <4>3, <2>5
    <3> QED
      BY <2>7, <3>1, <3>2, <2>3, <1>2
  <2>8. ASSUME NEW y \in O
        PROVE  UnitOf(v, y) \in R \/ (y \in Guid /\ y \in Group /\ v.members[y] = {})
    <3>1. CASE y \in out
      BY <3>1, <2>1, <1>2
    <3>2. CASE \E p \in out : y = EntryOf(pr, p)
      <4>1. PICK p \in out : y = EntryOf(pr, p)
        BY <3>2
      <4>2. p \in DOMAIN pr.of /\ UnitOf(v, p) \in R
        BY <2>1, <1>2
      <4> QED
        BY <4>1, <4>2, <2>2, <2>4, <2>5, <2>6, Names
    <3> QED
      BY <3>1, <3>2
  <2>9. \A p \in stay : p \in DOMAIN pr.of /\ ~ Relict(v, pr, p) /\ UnitOf(v, p) \in K
    BY <2>2, <2>6, <1>2
  <2>10. ASSUME NEW y \in Guid, y \in S
         PROVE  UnitOf(v, y) \in K
    <3>1. CASE y \in stay
      BY <3>1, <2>9
    <3>2. CASE \E p \in stay : y = EntryOf(pr, p)
      BY <3>2, <2>2, <2>4, <2>5, <2>9
    <3> QED
      BY <2>10, <3>1, <3>2
  <2>11. ASSUME NEW y \in Guid, UnitOf(v, y) \in K
         PROVE  y \in S
    <3>1. UnitOf(v, y) \in Q /\ UnitOf(v, y) \notin R
      BY <2>11, <1>2
    <3>2. CASE y \in DOMAIN pr.of
      BY <3>1, <3>2, <1>2
    <3>3. CASE y \in Group /\ UnitOf(v, y) = y
      <4>1. PICK p \in DOMAIN pr.of : UnitOf(v, p) = y
        BY <3>1, <3>3, <2>4
      <4>2. p \in stay
        BY <3>1, <3>3, <4>1, <1>2
      <4> QED
        BY <4>1, <4>2, <2>5, <2>9
    <3> QED
      BY <3>1, <3>2, <3>3, <2>3
  <2> QED
    BY <2>7, <2>8, <2>10, <2>11
<1>a. ASSUME NEW y \in O, UnitOf(v, y) \notin R, y \in Guid
      PROVE  v.state[y] = v.old[y] /\ UnitOf(v, y) \notin Q
  <2>1. y \in Group /\ v.members[y] = {}
    BY <1>3, <1>a
  <2>2. Typed(v) /\ GroupsRight(v) /\ StateAgrees(v, U, y) /\ EntriesRight(v, on) /\ v.state[y] \in State
    BY <1>a DEF Settled, StatesAgree, Typed
  <2>3. UnitOf(v, y) = y /\ v.players[y] = {} /\ \A p \in Player : UnitOf(v, p) # y
    BY <2>1, <2>2, GoneIs DEF UnitOf
  <2>4. \A qr \in v.proposals : y \notin UnitsIn(v, qr)
    BY <2>3, ProposalUnits
  <2>5. y \notin Offered(v, TRUE) /\ y \notin Offered(v, FALSE)
    BY <2>4 DEF Offered
  <2>6. ~ Complete(v, on, v.checks[y].asked, y)
    BY <2>1, <2>3, Names DEF Complete
  <2>7. y \notin DOMAIN v.checks
    BY <2>2, <2>6 DEF EntriesRight
  <2>8. y \notin v.new \cup v.current
    <3>1. PICK p \in DOMAIN pr.of : y = EntryOf(pr, p)
      BY <1>a, <2>1, Names, ProposalUnits DEF Outs
    <3> QED
      BY <3>1 DEF Settled, ProposalsRight, ProposalRight
  <2>9. v.state[y] \in OldState
    BY <2>2, <2>3, <2>5, <2>7, <2>8 DEF StateAgrees, InQueue, State, OldState
  <2> QED
    BY <2>2, <2>3, <2>4, <2>9 DEF StateAgrees
<1>4. IsRecord(v) /\ v.state \in [Guid -> State] /\ v.old \in [Guid -> OldState]
  BY DEF Settled, Typed
<1>5. /\ IsRecord(v1) /\ SameGroups(v, v1) /\ SameQueue(v, v1) /\ SameRest(v, v1)
      /\ v1.state = [x \in Guid |-> IF x \in O THEN v.old[x] ELSE v.state[x]]
      /\ v1.old = v.old
  <2> HIDE DEF O
  <2> QED
    BY <1>4, RestoreStatesDoes
<1> HIDE DEF R, T, K, Q, out, stay, O, S, v1
<1>6. /\ IsRecord(v2) /\ SameGroups(v1, v2) /\ SameQueue(v1, v2) /\ SameRest(v1, v2)
      /\ v2.state = [x \in Guid |-> IF x \in S THEN "queued" ELSE v1.state[x]]
      /\ v2.old = [x \in Guid |-> v1.old[x]]
  BY <1>5, SetStatesDoes DEF OldState
<1> HIDE DEF v2
<1>7. /\ IsRecord(v3) /\ SameGroups(v2, v3) /\ SameStates(v2, v3) /\ SameRest(v2, v3)
      /\ v3.data = Restrict(v2.data, DOMAIN v2.data \ T)
      /\ v3.new = v2.new \ T /\ v3.current = v2.current \ T /\ v3.rematch = v2.rematch \ T
  BY <1>6, RemoveFromQueueDoes
<1> HIDE DEF v3
<1> DEFINE N == K \cap DOMAIN v3.data
<1>8. /\ IsRecord(v4) /\ SameGroups(v3, v4) /\ SameStates(v3, v4) /\ SameRest(v3, v4)
      /\ v4.data = v3.data /\ v4.new = v3.new \ N
      /\ v4.current = v3.current \cup N /\ v4.rematch = v3.rematch \cup N
  BY <1>7, ReAddDoes
<1> HIDE DEF v4, N
<1>9. /\ IsRecord(u) /\ SameGroups(v4, u) /\ SameStates(v4, u) /\ SameQueue(v4, u)
      /\ u.checks = v4.checks /\ u.cancels = v4.cancels /\ u.proposals = v4.proposals \ {pr}
  BY <1>8 DEF IsRecord, Fields, SameGroups, SameStates, SameQueue
<1> HIDE DEF u
<1>10. pr.queues \subseteq DOMAIN v.data /\ pr.queues \cap (v.new \cup v.current) = {}
  BY DEF Settled, EntriesRight, Keys, ProposalsRight, ProposalRight
<1>b. T \subseteq pr.queues /\ K = pr.queues \ T
  BY <1>2 DEF K
<1>11. /\ DOMAIN u.data = DOMAIN v.data \ T /\ \A y \in DOMAIN u.data : u.data[y] = v.data[y]
  <2>1. u.data = Restrict(v.data, DOMAIN v.data \ T)
    BY <1>5, <1>6, <1>7, <1>8, <1>9 DEF SameQueue
  <2> QED
    BY <2>1 DEF Restrict
<1>12. N = K
  BY <1>8, <1>9, <1>10, <1>11, <1>b DEF SameQueue, N
<1>13. /\ u.new = (v.new \ T) \ K
       /\ u.current = (v.current \ T) \cup K /\ u.rematch = (v.rematch \ T) \cup K
  BY <1>5, <1>6, <1>7, <1>8, <1>9, <1>12 DEF SameQueue
<1>14. u.new = v.new /\ u.current = v.current \cup K /\ (v.rematch \ pr.queues) \cup K \subseteq u.rematch
  BY <1>b, <1>10, <1>13
<1>15. u.old = v.old
  BY <1>4, <1>5, <1>6, <1>7, <1>8, <1>9 DEF SameStates
<1>16. u.state = [x \in Guid |-> IF x \in S THEN "queued"
                                 ELSE IF x \in O THEN v.old[x] ELSE v.state[x]]
  BY <1>5, <1>6, <1>7, <1>8, <1>9 DEF SameStates
<1>17. u.state \in [Guid -> State]
  BY <1>4, <1>16 DEF State, OldState
<1>18. SameGroups(v, u)
  BY <1>5, <1>6, <1>7, <1>8, <1>9 DEF SameGroups
<1>19. u.checks = v.checks /\ u.proposals = v.proposals \ {pr} /\ u.cancels = v.cancels
  BY <1>5, <1>6, <1>7, <1>8, <1>9 DEF SameRest
<1>20. /\ \A y \in Guid : UnitOf(v, y) \notin Q => u.state[y] = v.state[y]
       /\ \A y \in Guid : UnitOf(v, y) \in R => u.state[y] = v.old[y] /\ v.old[y] \in OldState
       /\ \A y \in Guid : UnitOf(v, y) \in K => u.state[y] = "queued"
  <2>1. ASSUME NEW y \in Guid, UnitOf(v, y) \notin Q
        PROVE  u.state[y] = v.state[y]
    <3>1. y \notin S /\ UnitOf(v, y) \notin R
      BY <2>1, <1>2, <1>3
    <3> QED
      BY <3>1, <1>16, <1>a
  <2>2. ASSUME NEW y \in Guid, UnitOf(v, y) \in R
        PROVE  u.state[y] = v.old[y] /\ v.old[y] \in OldState
    <3>1. y \in O /\ y \notin S
      BY <2>2, <1>2, <1>3
    <3> QED
      BY <3>1, <1>4, <1>16
  <2>3. ASSUME NEW y \in Guid, UnitOf(v, y) \in K
        PROVE  u.state[y] = "queued"
    BY <2>3, <1>3, <1>16
  <2> QED
    BY <2>1, <2>2, <2>3
<1>c. DOMAIN u.data = DOMAIN v.data \ (pr.queues \ (Q \ R)) /\ Q \ R = K
  BY <1>2, <1>11
<1>d. /\ \A p \in DOMAIN pr.of : Relict(v, pr, p) => p \in R
      /\ u.current = v.current \cup (Q \ R) /\ (v.rematch \ pr.queues) \cup (Q \ R) \subseteq u.rematch
      /\ \A y \in Guid : UnitOf(v, y) \in Q \ R => u.state[y] = "queued" /\ u.old[y] = v.old[y]
  BY <1>2, <1>14, <1>15, <1>20
<1>21. ProposalOver(v, u, pr, R)
  BY <1>4, <1>9, <1>11, <1>14, <1>15, <1>17, <1>18, <1>19, <1>20, <1>c, <1>d DEF ProposalOver, Q
<1> QED
  BY <1>1, <1>15, <1>19, <1>21 DEF R

-----------------------------------------------------------------------------
(* Who leaves the finder is nowhere in it.                                  *)

(* Between two calls of a packet; on is who was online when it came.         *)
Good(v, on) ==
  /\ Settled(v, on, {}) /\ v.cancels = <<>>
  /\ \A pr \in v.proposals : pr.begun

(* No dungeon begins but for who joins a group that is in one.              *)
OldKept(v, u) ==
  \A y \in Guid : u.old[y] = "dungeon" => v.old[y] = "dungeon" \/ v.old[UnitOf(v, y)] = "dungeon"

LEMMA DenyForDoes ==
  ASSUME NEW v, NEW on, NEW U, Settled(v, on, U), NEW S,
         \E pr \in v.proposals : DOMAIN pr.of \cap S # {}
  PROVE  LET u == DenyFor(v, S)
         IN \E pr \in v.proposals : \E R \in SUBSET UnitsIn(v, pr) :
              /\ DOMAIN pr.of \cap S # {}
              /\ \A p \in DOMAIN pr.of : (\E q \in DOMAIN pr.of \cap S : UnitOf(v, q) = UnitOf(v, p))
                                            => UnitOf(v, p) \in R
              /\ ProposalOver(v, u, pr, R) /\ u.old = v.old /\ u.cancels = v.cancels
<1> DEFINE P == {pr \in v.proposals : DOMAIN pr.accept \cap S # {}}
           pr == CHOOSE q \in P : TRUE
           dn == Deny(pr, S)
           v1 == [v EXCEPT !.proposals = (@ \ {pr}) \cup {dn}]
           u  == RemoveProposal(v1, dn, FALSE)
           R  == Removed(v1, dn, FALSE)
<1>1. \A qr \in v.proposals : ProposalTyped(qr) /\ DOMAIN qr.accept = DOMAIN qr.of
  BY DEF Settled, Typed, ProposalTyped
<1>2. P # {}
  BY <1>1
<1>3. DenyFor(v, S) = u
  BY <1>2 DEF DenyFor
<1>4. pr \in v.proposals /\ DOMAIN pr.of \cap S # {} /\ ProposalTyped(pr)
  BY <1>1, <1>2
<1> HIDE DEF P, pr
<1>5. /\ Answers(pr, dn)
      /\ dn.accept = [p \in DOMAIN pr.of |-> IF p \in S THEN "deny" ELSE pr.accept[p]]
  BY <1>4, DenyDoes
<1> HIDE DEF dn
<1>6. IsRecord(v)
  BY DEF Settled, Typed
<1>7. Answered(v, v1, pr, dn)
  BY <1>6, ProposalsReplaced
<1> HIDE DEF v1
<1>8. /\ Settled(v1, on, U) /\ dn \in v1.proposals
      /\ v1.proposals \ {dn} = v.proposals \ {pr} /\ \A y : UnitOf(v1, y) = UnitOf(v, y)
  BY <1>4, <1>5, <1>7, ProposalAnswered
<1>9. ProposalOver(v1, u, dn, R) /\ u.old = v1.old /\ u.cancels = v1.cancels
  BY <1>8, RemoveProposalDoes
<1>10. R \subseteq UnitsIn(v1, dn) /\ \A p \in Denied(dn, FALSE) : UnitOf(v1, p) \in R
  BY <1>8, ToRemoveIs
<1> HIDE DEF u, R
<1>a. UnitsIn(v1, dn) = UnitsIn(v, pr)
  BY <1>5, <1>8 DEF UnitsIn, Answers
<1>b. \A p : Relict(v1, dn, p) <=> Relict(v, pr, p)
  BY <1>5, <1>7 DEF Relict, Answered, Answers, SameGroups, SameQueue
<1>11. ProposalOver(v, u, pr, R)
  <2>1. v1.proposals \ {dn} = v.proposals \ {pr} /\ \A y : UnitOf(v1, y) = UnitOf(v, y)
    BY <1>8
  <2>2. /\ v1.data = v.data /\ v1.new = v.new /\ v1.current = v.current /\ v1.rematch = v.rematch
        /\ v1.state = v.state /\ v1.old = v.old /\ v1.checks = v.checks
        /\ dn.queues = pr.queues /\ dn.of = pr.of
    BY <1>5, <1>7 DEF Answered, Answers, SameStates, SameQueue
  <2>3. SameGroups(v, v1)
    BY <1>7 DEF Answered
  <2> QED
    BY <1>9, <1>a, <1>b, <2>1, <2>2, <2>3 DEF ProposalOver, SameGroups
<1>12. DOMAIN pr.of \cap S \subseteq Denied(dn, FALSE)
  BY <1>5 DEF Denied
<1>13. \A q \in DOMAIN pr.of \cap S : UnitOf(v, q) \in R
  BY <1>8, <1>10, <1>12
<1>14. u.old = v.old /\ u.cancels = v.cancels
  BY <1>7, <1>9 DEF Answered, SameStates
<1> QED
  BY <1>3, <1>4, <1>10, <1>11, <1>13, <1>14, <1>a

(* What LeaveLfg of x leaves of v: x's unit is nowhere, nobody is anywhere   *)
(* new.                                                                     *)
Left(v, u, x) ==
  /\ SameGroups(v, u) /\ OldKept(v, u)
  /\ Places(u) \subseteq Places(v) /\ UnitOf(v, x) \notin Places(u)

LEMMA Reaches ==
  ASSUME NEW v, NEW on, Good(v, on), NEW x \in Guid
  PROVE  /\ Typed(v) /\ UnitOf(v, x) \in Guid /\ UnitOf(v, UnitOf(v, x)) = UnitOf(v, x)
         /\ Places(v) \subseteq Guid /\ \A y \in Places(v) : UnitOf(v, y) = y
         /\ v.state[x] = "queued" <=> UnitOf(v, x) \in v.new \cup v.current
         /\ v.state[x] = "rolecheck" <=> UnitOf(v, x) \in DOMAIN v.checks
         /\ v.state[x] = "proposal" <=> UnitOf(v, x) \in Offered(v, TRUE)
         /\ UnitOf(v, x) \notin Places(v) => v.state[x] \in OldState
         /\ v.state[x] \in OldState /\ (x \in Player \/ v.members[x] # {}) =>
              UnitOf(v, x) \notin Places(v)
         /\ v.state[x] \in OldState => v.state[x] = v.old[x]
         /\ v.state[x] \notin {"queued", "proposal"} =>
              UnitOf(v, x) \notin Offered(v, TRUE) \cup Offered(v, FALSE)
         /\ v.state[x] = "queued" => UnitOf(v, x) \notin Offered(v, TRUE) \cup Offered(v, FALSE)
<1>1. Typed(v) /\ UnitOf(v, x) \in Guid /\ UnitOf(v, UnitOf(v, x)) = UnitOf(v, x)
  BY UnitIs, Names DEF Good, Settled, UnitOf
<1>0. Settled(v, on, {})
  BY DEF Good
<1>2. Places(v) \subseteq Guid /\ \A y \in Places(v) : UnitOf(v, y) = y
  BY <1>0, PlacesAre
<1>3. Offered(v, FALSE) = {} /\ InQueue(v) = v.new \cup v.current
  BY DEF Good, Offered, InQueue
<1>4. StateAgrees(v, {}, x) /\ v.state[x] \in State
  BY DEF Good, Settled, StatesAgree, Typed
<1>5. \A y : y \in Places(v) <=> \/ y \in v.new \cup v.current \/ y \in DOMAIN v.checks
                                 \/ y \in Offered(v, TRUE) \/ y \in Keys(v)
  BY DEF Good, Settled, EntriesRight, Places
<1>6. /\ v.state[x] = "queued" <=> UnitOf(v, x) \in v.new \cup v.current
      /\ v.state[x] = "rolecheck" <=> UnitOf(v, x) \in DOMAIN v.checks
      /\ v.state[x] = "proposal" <=> UnitOf(v, x) \in Offered(v, TRUE)
      /\ v.state[x] \in OldState => v.state[x] = v.old[x]
  BY <1>3, <1>4 DEF StateAgrees
<1>7. x \in Player \/ v.members[x] # {} =>
        UnitOf(v, x) \in Player \/ v.members[UnitOf(v, x)] # {}
  BY <1>0, GoneIs, Names DEF UnitOf, Settled, Typed, Guid
<1>8. v.state[x] \in OldState /\ (x \in Player \/ v.members[x] # {}) => UnitOf(v, x) \notin Places(v)
  <2> SUFFICES ASSUME v.state[x] \in OldState, x \in Player \/ v.members[x] # {}
               PROVE  UnitOf(v, x) \notin Places(v)
    OBVIOUS
  <2>1. /\ UnitOf(v, x) \notin v.new \cup v.current \cup DOMAIN v.checks
        /\ UnitOf(v, x) \notin Offered(v, TRUE) \cup Offered(v, FALSE)
    BY <1>3, <1>6 DEF OldState
  <2>2. UnitOf(v, x) \notin Keys(v)
    BY <1>0, <1>1, <1>7, <2>1, NoKey
  <2> QED
    BY <1>5, <2>1, <2>2
<1>9. UnitOf(v, x) \notin Places(v) => v.state[x] \in OldState
  BY <1>4, <1>5, <1>6 DEF State, OldState
<1>10. v.state[x] = "queued" => UnitOf(v, x) \notin Offered(v, TRUE) \cup Offered(v, FALSE)
  BY <1>3, <1>6
<1> QED
  BY <1>1, <1>2, <1>3, <1>6, <1>8, <1>9, <1>10

Unit(v, x) == {y \in Guid : UnitOf(v, y) = x}

(* The values f gives, but st to whom is in S.                              *)
Become(f, S, st) == [y \in Guid |-> IF y \in S THEN st ELSE f[y]]

LEMMA GroupUnit ==
  ASSUME NEW v, Typed(v), GroupsRight(v), NEW g \in Group
  PROVE  /\ UnitOf(v, g) = g /\ v.players[g] \subseteq Player
         /\ \A p \in Player : p \in v.players[g] <=> UnitOf(v, p) = g
         /\ v.players[g] \cup {g} = Unit(v, g)
<1>1. UnitOf(v, g) = g /\ v.players[g] \subseteq Player
  BY DEF UnitOf, Typed
<1>2. \A p \in Player : p \in v.players[g] <=> UnitOf(v, p) = g
  <2>1. \A p \in Player : p \in v.players[g] <=> v.of[p] = g
    BY DEF GroupsRight
  <2> QED
    BY <2>1, Names DEF UnitOf
<1>3. \A y \in Group : UnitOf(v, y) = y
  BY DEF UnitOf
<1> QED
  BY <1>1, <1>2, <1>3, Names DEF Guid, Unit

LEMMA RoleCheckFails ==
  ASSUME NEW v, NEW on, NEW U, Settled(v, on, U), NEW g \in DOMAIN v.checks
  PROVE  LET u == FailRoleCheck(v, g)
         IN /\ Settled(u, on, U \ {g}) /\ SameGroups(v, u) /\ SameQueue(v, u)
            /\ u.old = v.old /\ u.cancels = v.cancels /\ u.proposals = v.proposals
            /\ DOMAIN u.checks = DOMAIN v.checks \ {g}
<1> DEFINE u == FailRoleCheck(v, g)
           S == v.checks[g].asked \cup {g}
<1>1. /\ IsRecord(v) /\ Typed(v) /\ GroupsRight(v) /\ EntriesRight(v, on)
      /\ v.state \in [Guid -> State] /\ v.old \in [Guid -> OldState]
  BY DEF Settled, Typed
<1>2. /\ IsRecord(u) /\ SameGroups(v, u) /\ SameQueue(v, u)
      /\ u.proposals = v.proposals /\ u.cancels = v.cancels
      /\ u.state = [x \in Guid |-> IF x \in S THEN v.old[x] ELSE v.state[x]]
      /\ u.old = v.old
      /\ u.checks = Restrict(v.checks, DOMAIN v.checks \ {g})
  BY <1>1, FailRoleCheckDoes
<1>3. g \in Guid /\ \A y \in Guid : y \in S <=> UnitOf(v, y) = g
  <2>1. Complete(v, on, v.checks[g].asked, g)
    BY <1>1 DEF EntriesRight
  <2> QED
    BY <2>1, <1>1, CompleteMeans
<1> HIDE DEF u, S
<1>4. \A y : UnitOf(u, y) = UnitOf(v, y)
  BY <1>2 DEF UnitOf, SameGroups
<1>5. DOMAIN u.checks = DOMAIN v.checks \ {g}
      /\ \A y \in DOMAIN u.checks : u.checks[y] = v.checks[y]
  BY <1>2 DEF Restrict
<1>6. Elsewhere(v, u, g)
  <2>1. u.state \in [Guid -> State]
    BY <1>1, <1>2 DEF State, OldState
  <2>2. \A y \in Guid : UnitOf(v, y) # g => u.state[y] = v.state[y] /\ u.old[y] = v.old[y]
    BY <1>2, <1>3
  <2> QED
    BY <1>1, <1>2, <1>5, <2>1, <2>2 DEF Elsewhere, SameQueue
<1>7. /\ g \notin v.new \cup v.current \cup DOMAIN v.data \cup Offered(v, TRUE) \cup Offered(v, FALSE)
      /\ g \notin Keys(v)
  BY <1>1, OfferedHaveData DEF EntriesRight
<1>8. IsFree(u, g)
  <2>1. \A y \in Guid : UnitOf(u, y) = g => u.state[y] = v.old[y] /\ v.old[y] \in OldState
    BY <1>1, <1>2, <1>3, <1>4
  <2> QED
    BY <2>1, <1>2, <1>5, <1>7 DEF IsFree, SameQueue
<1>9. Settled(u, on, U \ {g})
  BY <1>3, <1>6, <1>7, <1>8, UnitMoves
<1> QED
  BY <1>2, <1>5, <1>9 DEF u

(* A unit that waits, or is nowhere, is removed from the queue and from its  *)
(* dungeon, or back in it.                                                  *)
Withdraw(v, x, S, st) == SetStates(RemoveFromQueue(v, {x}), S, st)

LEMMA UnitRemovedDoes ==
  ASSUME NEW v, IsRecord(v), NEW x, NEW S, NEW st \in OldState
  PROVE  LET u == Withdraw(v, x, S, st)
         IN /\ IsRecord(u) /\ SameGroups(v, u) /\ SameRest(v, u)
            /\ u.state = Become(v.state, S, st) /\ u.old = Become(v.old, S, st)
            /\ DOMAIN u.data = DOMAIN v.data \ {x}
            /\ \A y \in DOMAIN u.data : u.data[y] = v.data[y]
            /\ u.new = v.new \ {x} /\ u.current = v.current \ {x} /\ u.rematch = v.rematch \ {x}
<1> DEFINE r == RemoveFromQueue(v, {x})
           u == SetStates(r, S, st)
<1>2. /\ IsRecord(r) /\ SameGroups(v, r) /\ SameStates(v, r) /\ SameRest(v, r)
      /\ r.data = Restrict(v.data, DOMAIN v.data \ {x})
      /\ r.new = v.new \ {x} /\ r.current = v.current \ {x} /\ r.rematch = v.rematch \ {x}
  BY RemoveFromQueueDoes
<1> HIDE DEF r
<1>3. /\ IsRecord(u) /\ SameGroups(r, u) /\ SameQueue(r, u) /\ SameRest(r, u)
      /\ u.state = [y \in Guid |-> IF y \in S THEN st ELSE r.state[y]]
      /\ u.old = [y \in Guid |-> IF y \in S /\ st \in OldState THEN st ELSE r.old[y]]
  BY <1>2, SetStatesDoes
<1> HIDE DEF u
<1>4. u.state = Become(v.state, S, st) /\ u.old = Become(v.old, S, st)
  BY <1>2, <1>3 DEF SameStates, Become
<1>5. SameGroups(v, u) /\ SameRest(v, u)
  BY <1>2, <1>3 DEF SameGroups, SameRest
<1>6. /\ u.data = Restrict(v.data, DOMAIN v.data \ {x})
      /\ u.new = v.new \ {x} /\ u.current = v.current \ {x} /\ u.rematch = v.rematch \ {x}
  BY <1>2, <1>3 DEF SameQueue
<1>7. DOMAIN u.data = DOMAIN v.data \ {x} /\ \A y \in DOMAIN u.data : u.data[y] = v.data[y]
  BY <1>6 DEF Restrict
<1> QED
  BY <1>3, <1>4, <1>5, <1>6, <1>7 DEF u, r, Withdraw

LEMMA UnitRemoved ==
  ASSUME NEW v, NEW on, NEW U, Settled(v, on, U), NEW x \in Guid,
         x \notin DOMAIN v.checks \cup Offered(v, TRUE) \cup Offered(v, FALSE) \cup Keys(v),
         NEW S, S = Unit(v, x), NEW st \in OldState
  PROVE  Settled(Withdraw(v, x, S, st), on, U \ {x})
<1> DEFINE u == Withdraw(v, x, S, st)
<1>0. \A y \in Guid : y \in S <=> UnitOf(v, y) = x
  BY DEF Unit
<1>1. /\ IsRecord(v) /\ v.state \in [Guid -> State] /\ v.old \in [Guid -> OldState]
  BY DEF Settled, Typed
<1>2. /\ IsRecord(u) /\ SameGroups(v, u) /\ SameRest(v, u)
      /\ u.state = Become(v.state, S, st) /\ u.old = Become(v.old, S, st)
      /\ DOMAIN u.data = DOMAIN v.data \ {x}
      /\ \A y \in DOMAIN u.data : u.data[y] = v.data[y]
      /\ u.new = v.new \ {x} /\ u.current = v.current \ {x} /\ u.rematch = v.rematch \ {x}
  BY <1>1, UnitRemovedDoes
<1> HIDE DEF u
<1>8. \A y : UnitOf(u, y) = UnitOf(v, y)
  BY <1>2 DEF UnitOf, SameGroups
<1>9. Elsewhere(v, u, x)
  <2>1. u.state \in [Guid -> State] /\ u.old \in [Guid -> OldState]
    BY <1>1, <1>2 DEF State, OldState, Become
  <2>2. \A y \in Guid : UnitOf(v, y) # x => u.state[y] = v.state[y] /\ u.old[y] = v.old[y]
    BY <1>0, <1>2 DEF Become
  <2>3. u.new \ {x} = v.new \ {x} /\ u.current \ {x} = v.current \ {x}
        /\ v.rematch \ {x} \subseteq u.rematch
    BY <1>2
  <2> QED
    BY <1>2, <2>1, <2>2, <2>3 DEF Elsewhere, SameRest
<1>10. IsFree(u, x)
  <2>1. \A y \in Guid : UnitOf(u, y) = x => u.state[y] = st /\ u.old[y] = st
    BY <1>0, <1>2, <1>8 DEF Become
  <2> QED
    BY <2>1, <1>2 DEF IsFree, SameRest
<1>11. Settled(u, on, U \ {x})
  BY <1>9, <1>10, UnitMoves
<1> QED
  BY <1>11 DEF u

LEMMA OldKeptIf ==
  ASSUME NEW v, NEW u,
         \A y \in Guid : u.old[y] = v.old[y] \/ u.old[y] = "none" \/ u.old[y] = v.old[UnitOf(v, y)]
  PROVE  OldKept(v, u)
BY DEF OldKept

(* Units are made by groups alone.                                          *)
LEMMA SameUnits ==
  ASSUME NEW v, NEW u, SameGroups(v, u), u.proposals \subseteq v.proposals
  PROVE  /\ \A y : UnitOf(u, y) = UnitOf(v, y)
         /\ \A pr : UnitsIn(u, pr) = UnitsIn(v, pr)
         /\ \A b : Offered(u, b) \subseteq Offered(v, b)
         /\ u.proposals = v.proposals => \A b : Offered(u, b) = Offered(v, b)
<1>1. \A y : UnitOf(u, y) = UnitOf(v, y)
  BY DEF UnitOf, SameGroups
<1>2. \A pr : UnitsIn(u, pr) = UnitsIn(v, pr)
  BY <1>1 DEF UnitsIn
<1> QED
  BY <1>1, <1>2 DEF Offered

LEMMA Leaves ==
  ASSUME NEW v, NEW on, Good(v, on), NEW x \in Guid, x \in Player \/ v.members[x] # {},
         NEW disconnected \in BOOLEAN
  PROVE  LET u == LeaveLfg(v, x, disconnected)
         IN /\ Good(u, on) /\ Left(v, u, x)
            /\ v.state[x] \in OldState /\ (x \in Group \/ disconnected) => u = v
            /\ \A g \in Group \ Places(v) : u.old[g] = v.old[g]
<1> DEFINE u == LeaveLfg(v, x, disconnected)
           g == IF x \in Group THEN x ELSE v.of[x]
           z == UnitOf(v, x)
<1>1. /\ Settled(v, on, {}) /\ Typed(v) /\ GroupsRight(v) /\ EntriesRight(v, on)
      /\ v.cancels = <<>> /\ (\A pr \in v.proposals : pr.begun)
      /\ Offered(v, FALSE) = {} /\ v.state[x] \in State /\ {} \ {z} = {}
      /\ v.old \in [Guid -> OldState] /\ v.state \in [Guid -> State]
  BY DEF Good, Settled, Typed, Offered
<1>2. /\ z \in Guid /\ UnitOf(v, z) = z /\ Places(v) \subseteq Guid
      /\ \A y \in Places(v) : UnitOf(v, y) = y
      /\ v.state[x] = "queued" <=> z \in v.new \cup v.current
      /\ v.state[x] = "rolecheck" <=> z \in DOMAIN v.checks
      /\ v.state[x] = "proposal" <=> z \in Offered(v, TRUE)
      /\ v.state[x] \in OldState <=> z \notin Places(v)
      /\ v.state[x] \in OldState => v.state[x] = v.old[x]
  BY Reaches
<1>3. /\ g # None => g \in Group /\ z = g
      /\ g = None => x \in Player /\ z = x
  BY <1>1, UnitIs, Names DEF UnitOf, Guid
<1>4. CASE v.state[x] = "queued"
  <2>1. z \notin DOMAIN v.checks \cup Offered(v, TRUE) \cup Offered(v, FALSE) \cup Keys(v)
    BY <1>1, <1>2, <1>4, WaitingIs
  <2>2. PICK S, st : /\ S = Unit(v, z)
                     /\ st \in OldState /\ (st = "none" \/ st = v.old[z])
                     /\ st # "none" => z \in Group
                     /\ u = Withdraw(v, z, S, st)
    <3>1. CASE g # None
      <4>1. v.players[g] \cup {g} = Unit(v, g)
        BY <1>1, <1>3, <3>1, GroupUnit
      <4>2. AfterQueue(v, g) \in OldState /\ (AfterQueue(v, g) = "none" \/ AfterQueue(v, g) = v.old[g])
        BY <1>1, <1>3, <3>1, Names DEF AfterQueue, OldState
      <4>3. u = SetStates(RemoveFromQueue(v, {g}), v.players[g] \cup {g}, AfterQueue(v, g))
        BY <1>4, <3>1 DEF LeaveLfg
      <4> HIDE DEF g, z, u
      <4> QED
        BY <1>3, <3>1, <4>1, <4>2, <4>3 DEF Withdraw
    <3>2. CASE g = None
      <4>1. {x} = Unit(v, x)
        BY <1>1, <1>3, <3>2, Names DEF UnitOf, Typed, Unit
      <4>2. u = SetStates(RemoveFromQueue(v, {x}), {x}, "none")
        BY <1>4, <3>2 DEF LeaveLfg
      <4> HIDE DEF g, z, u
      <4> QED
        BY <1>3, <3>2, <4>1, <4>2 DEF OldState, Withdraw
    <3> QED
      BY <3>1, <3>2
  <2> HIDE DEF u, g, z
  <2>3. /\ Settled(u, on, {}) /\ SameGroups(v, u) /\ SameRest(v, u)
        /\ u.old = Become(v.old, S, st)
        /\ DOMAIN u.data = DOMAIN v.data \ {z}
    <3> DEFINE U == {}
    <3>1. Settled(v, on, U) /\ z \in Guid /\ S = Unit(v, z) /\ st \in OldState
      BY <1>1, <1>2, <2>2
    <3>2. U \ {z} = {}
      OBVIOUS
    <3> HIDE DEF U
    <3>3. Settled(Withdraw(v, z, S, st), on, U \ {z})
      BY <2>1, <3>1, UnitRemoved
    <3>4. LET r == Withdraw(v, z, S, st)
          IN /\ SameGroups(v, r) /\ SameRest(v, r)
             /\ r.old = Become(v.old, S, st)
             /\ DOMAIN r.data = DOMAIN v.data \ {z}
      BY <1>1, <2>2, UnitRemovedDoes DEF Typed
    <3> QED
      BY <2>2, <3>2, <3>3, <3>4
  <2>4. Good(u, on)
    BY <1>1, <2>3 DEF Good, SameRest
  <2>5. OldKept(v, u)
    <3>1. \A y \in Guid : u.old[y] = v.old[y] \/ u.old[y] = "none" \/ u.old[y] = v.old[UnitOf(v, y)]
      BY <2>2, <2>3 DEF Become, Unit
    <3> QED
      BY <3>1, OldKeptIf
  <2>6. Places(u) \subseteq Places(v) /\ z \notin Places(u)
    <3>1. u.proposals = v.proposals /\ u.checks = v.checks
      BY <2>3 DEF SameRest
    <3>2. Offered(u, TRUE) = Offered(v, TRUE)
      BY <2>3, <3>1, SameUnits
    <3> QED
      BY <2>1, <2>3, <3>1, <3>2 DEF Places
  <2>7. \A h \in Group \ Places(v) : u.old[h] = v.old[h]
    <3>1. z \in Places(v)
      BY <1>2, <1>4 DEF OldState
    <3>2. \A h \in Group : UnitOf(v, h) = h /\ h \in Guid
      BY Names DEF UnitOf
    <3> QED
      BY <2>2, <2>3, <3>1, <3>2 DEF Become, Unit
  <2> QED
    BY <1>4, <2>3, <2>4, <2>5, <2>6, <2>7 DEF Left, OldState, z, u
<1>5. CASE v.state[x] = "rolecheck"
  <2>1. z \in DOMAIN v.checks
    BY <1>2, <1>5
  <2>2. g # None /\ z = g
    BY <1>1, <1>3, <2>1, Names DEF EntriesRight
  <2>3. u = FailRoleCheck(v, z)
    BY <1>5, <2>2 DEF LeaveLfg
  <2> HIDE DEF u, g, z
  <2>4. /\ Settled(u, on, {} \ {z}) /\ SameGroups(v, u) /\ SameQueue(v, u)
        /\ u.old = v.old /\ u.cancels = v.cancels /\ u.proposals = v.proposals
        /\ DOMAIN u.checks = DOMAIN v.checks \ {z}
    BY <1>1, <2>1, <2>3, RoleCheckFails
  <2>5. Good(u, on) /\ OldKept(v, u)
    BY <1>1, <2>4 DEF Good, OldKept
  <2>6. Places(u) \subseteq Places(v) /\ z \notin Places(u)
    <3>1. u.data = v.data /\ Offered(u, TRUE) = Offered(v, TRUE)
      BY <2>4, SameUnits DEF SameQueue
    <3>2. z \notin DOMAIN v.data \cup Offered(v, TRUE)
      BY <1>1, <2>1, OfferedHaveData
    <3> QED
      BY <2>4, <3>1, <3>2 DEF Places
  <2> QED
    BY <1>5, <2>4, <2>5, <2>6 DEF Left, OldState, z, u
<1>6. CASE v.state[x] = "proposal"
  <2> DEFINE S == IF x \in Group THEN v.players[x] ELSE {x}
  <2>1. u = DenyFor(v, S)
    BY <1>6 DEF LeaveLfg
  <2>2. \A p \in Player : p \in S => UnitOf(v, p) = z
    BY <1>1, <1>3, GroupUnit, Names
  <2>3. PICK pr \in v.proposals : z \in UnitsIn(v, pr)
    BY <1>2, <1>6 DEF Offered
  <2>4. DOMAIN pr.of \cap S # {}
    <3>1. CASE x \in Group
      <4>1. z = x
        BY <3>1 DEF UnitOf
      <4>2. PICK p \in DOMAIN pr.of : UnitOf(v, p) = x /\ p \in Player
        BY <1>1, <2>3, <4>1, ProposalUnits
      <4> QED
        BY <1>1, <3>1, <4>2, GroupUnit
    <3>2. CASE x \notin Group
      BY <1>1, <2>3, <3>2, ProposalUnits
    <3> QED
      BY <3>1, <3>2
  <2> HIDE DEF S, z, g, u
  <2>5a. PICK qr \in v.proposals : \E R \in SUBSET UnitsIn(v, qr) :
          /\ DOMAIN qr.of \cap S # {}
          /\ \A p \in DOMAIN qr.of : (\E q \in DOMAIN qr.of \cap S : UnitOf(v, q) = UnitOf(v, p))
                                       => UnitOf(v, p) \in R
          /\ ProposalOver(v, u, qr, R) /\ u.old = v.old /\ u.cancels = v.cancels
    <3>1. \E qr \in v.proposals : DOMAIN qr.of \cap S # {}
      BY <2>4
    <3> QED
      BY <1>1, <2>1, <3>1, DenyForDoes
  <2>5. PICK R \in SUBSET UnitsIn(v, qr) :
          /\ DOMAIN qr.of \cap S # {}
          /\ \A p \in DOMAIN qr.of : (\E q \in DOMAIN qr.of \cap S : UnitOf(v, q) = UnitOf(v, p))
                                       => UnitOf(v, p) \in R
          /\ ProposalOver(v, u, qr, R) /\ u.old = v.old /\ u.cancels = v.cancels
    BY <2>5a
  <2>6. z \in R
    <3>1. PICK p \in DOMAIN qr.of : p \in S
      BY <2>5
    <3>2. p \in Player
      BY <1>1, ProposalUnits
    <3> QED
      BY <2>2, <2>5, <3>1, <3>2
  <2>7. {} \cap UnitsIn(v, qr) \subseteq R /\ {} \ R = {} /\ qr.begun
    BY <1>1
  <2>8. Settled(u, on, {} \ R)
    BY <1>1, <2>5, <2>7, ProposalEnds
  <2>9. Good(u, on) /\ OldKept(v, u) /\ SameGroups(v, u)
    BY <1>1, <2>5, <2>7, <2>8 DEF Good, OldKept, ProposalOver
  <2>10. z \in Offered(v, TRUE)
    BY <1>2, <1>6
  <2>11. z \notin DOMAIN v.checks
    BY <1>1, <2>10, OfferedHaveData
  <2>14. z \in Player \/ v.members[z] # {}
    <3>1. PICK p \in DOMAIN pr.of : UnitOf(v, p) = z
      BY <1>1, <2>3, ProposalUnits
    <3>2. p \in Player
      BY <1>1, ProposalUnits
    <3> QED
      BY <1>1, <1>2, <3>1, <3>2, GoneIs, Names DEF Guid
  <2>12. Places(u) \subseteq Places(v) /\ z \notin Places(u)
    <3>1. /\ u.proposals = v.proposals \ {qr} /\ u.checks = v.checks
          /\ DOMAIN u.data = DOMAIN v.data \ (qr.queues \ (UnitsIn(v, qr) \ R))
      BY <2>5 DEF ProposalOver
    <3>2. Offered(u, TRUE) \subseteq Offered(v, TRUE) /\ \A rr : UnitsIn(u, rr) = UnitsIn(v, rr)
      BY <2>9, <3>1, SameUnits
    <3>3. \A rr \in u.proposals : z \notin UnitsIn(u, rr)
      BY <1>1, <2>6, <3>1, <3>2 DEF Settled, ProposalsRight
    <3>4. z \notin Offered(u, TRUE)
      BY <3>3 DEF Offered
    <3>5. z \notin DOMAIN u.data
      <4>1. z \notin Offered(u, FALSE) \cup Offered(u, TRUE)
        BY <3>3 DEF Offered
      <4>2. z \notin u.new \cup u.current
        BY <1>1, <2>5, <2>6, <2>10, OfferedHaveData DEF ProposalOver
      <4>3. z \in Player \/ v.members[z] # {}
        BY <1>1, <1>2, <2>14
      <4>4. z \notin Keys(u)
        BY <1>2, <2>8, <2>7, <4>1, <4>3, <2>9, NoKey DEF SameGroups
      <4> QED
        BY <4>2, <4>4, <2>7, <2>8 DEF Settled, EntriesRight
    <3> QED
      BY <2>11, <3>1, <3>2, <3>4, <3>5 DEF Places
  <2> QED
    BY <1>6, <2>5, <2>9, <2>12 DEF Left, OldState, z, u
<1>7. CASE v.state[x] \in OldState /\ ~ (v.state[x] \in {"dungeon", "finished"} /\ x \in Player /\ ~ disconnected)
  <2>1. u = v
    BY <1>7 DEF LeaveLfg, OldState
  <2> HIDE DEF u, g, z
  <2> QED
    BY <1>2, <1>7, <2>1 DEF Left, SameGroups, OldKept, z, u
<1>8. CASE v.state[x] \in OldState /\ v.state[x] \in {"dungeon", "finished"} /\ x \in Player /\ ~ disconnected
  <2>1. u = SetStates(v, {x}, "none")
    BY <1>8 DEF LeaveLfg
  <2> HIDE DEF u, g, z
  <2>2. z \notin Places(v)
    BY <1>2, <1>8
  <2>3. /\ IsRecord(u) /\ SameGroups(v, u) /\ SameQueue(v, u) /\ SameRest(v, u)
        /\ u.state = [y \in Guid |-> IF y \in {x} THEN "none" ELSE v.state[y]]
        /\ u.old = [y \in Guid |-> IF y \in {x} /\ "none" \in OldState THEN "none" ELSE v.old[y]]
    BY <1>1, <2>1, SetStatesDoes DEF Typed
  <2>4. Regroups(v, u)
    <3>1. u.state \in [Guid -> State] /\ u.old \in [Guid -> OldState]
      BY <1>1, <2>3 DEF State, OldState
    <3>2. \A y : UnitOf(u, y) = UnitOf(v, y)
      BY <2>3 DEF UnitOf, SameGroups
    <3>3. GroupsRight(u)
      BY <1>1, <2>3 DEF GroupsRight, SameGroups
    <3>4. \A y \in Guid : \/ u.state[y] = v.state[y] /\ u.old[y] = v.old[y]
                     \/ /\ u.state[y] \in OldState /\ u.state[y] = u.old[y]
                        /\ {UnitOf(v, y), UnitOf(u, y)} \cap Places(v) = {}
      BY <2>2, <2>3, <3>2 DEF OldState, z
    <3> QED
      BY <1>1, <2>3, <3>1, <3>3, <3>4 DEF Regroups, Typed, SameGroups, SameQueue, SameRest
  <2>5. Settled(u, on, {})
    BY <1>1, <2>4, Regrouped
  <2>6. Good(u, on)
    BY <1>1, <2>3, <2>5 DEF Good, SameRest
  <2>7. OldKept(v, u) /\ \A h \in Group : u.old[h] = v.old[h]
    BY <1>8, <2>3, Names DEF OldKept
  <2>8. Places(u) = Places(v)
    <3>1. SameGroups(v, u) /\ u.proposals = v.proposals /\ u.checks = v.checks /\ u.data = v.data
      BY <2>3 DEF SameQueue, SameRest
    <3>2. Offered(u, TRUE) = Offered(v, TRUE)
      BY <3>1, SameUnits
    <3> QED
      BY <3>1, <3>2 DEF Places
  <2>9. Left(v, u, x)
    BY <2>2, <2>3, <2>7, <2>8 DEF Left, z
  <2>10. ~ (v.state[x] \in OldState /\ (x \in Group \/ disconnected))
    BY <1>8, Names
  <2> QED
    BY <2>6, <2>7, <2>9, <2>10 DEF u
<1> QED
  BY <1>1, <1>4, <1>5, <1>6, <1>7, <1>8 DEF State, OldState

-----------------------------------------------------------------------------
(* Role checks and joining the queue.                                       *)

LEMMA UnitStaysGood ==
  ASSUME NEW v, NEW u, NEW on, Good(v, on),
         NEW x \in Guid, x \notin Offered(v, TRUE) \cup Keys(v), u.cancels = v.cancels,
         Elsewhere(v, u, x), IsQueued(u, on, x) \/ IsChecked(u, on, x) \/ IsFree(u, x)
  PROVE  Good(u, on)
<1> DEFINE U == {}
<1>1. /\ Settled(v, on, U) /\ x \notin Offered(v, TRUE) \cup Offered(v, FALSE) \cup Keys(v)
  BY DEF Good, Offered
<1>2. U \ {x} = {}
  OBVIOUS
<1> HIDE DEF U
<1>3. Settled(u, on, U \ {x})
  BY <1>1, UnitMoves
<1> QED
  BY <1>2, <1>3 DEF Good, Elsewhere

LEMMA UnitIsWhole ==
  ASSUME NEW v, NEW on, Good(v, on), NEW g \in DOMAIN v.checks
  PROVE  /\ g \in Guid /\ g \in Group /\ v.checks[g].asked \cup {g} = Unit(v, g)
         /\ Complete(v, on, v.checks[g].asked, g)
         /\ g \notin v.new \cup v.current \cup DOMAIN v.data \cup Offered(v, TRUE) \cup Keys(v)
<1>1. Settled(v, on, {}) /\ Typed(v) /\ GroupsRight(v) /\ EntriesRight(v, on)
  BY DEF Good, Settled
<1>2. Complete(v, on, v.checks[g].asked, g) /\ g \in Group
  BY <1>1 DEF EntriesRight
<1>3. g \in Guid /\ \A y \in Guid : y \in v.checks[g].asked \cup {g} <=> UnitOf(v, y) = g
  BY <1>1, <1>2, CompleteMeans
<1>4. v.checks[g].asked \subseteq Guid
  BY <1>1, <1>2, CompleteMeans, Names
<1>5. g \notin v.new \cup v.current \cup DOMAIN v.data \cup Offered(v, TRUE) \cup Keys(v)
  BY <1>1, OfferedHaveData DEF EntriesRight
<1> QED
  BY <1>2, <1>3, <1>4, <1>5 DEF Unit

LEMMA RoleCheckFinishes ==
  ASSUME NEW v, NEW on, Good(v, on), NEW g \in DOMAIN v.checks
  PROVE  LET u == FinishRoleCheck(v, g)
         IN Good(u, on) /\ SameGroups(v, u) /\ u.old = v.old
<1> DEFINE u == FinishRoleCheck(v, g)
           S == v.checks[g].asked
           T == S \cup {g}
<1>1. /\ IsRecord(v) /\ v.state \in [Guid -> State] /\ v.old \in [Guid -> OldState]
  BY DEF Good, Settled, Typed
<1>2. /\ IsRecord(u) /\ SameGroups(v, u)
      /\ u.proposals = v.proposals /\ u.cancels = v.cancels
      /\ u.state = [x \in Guid |-> IF x \in T THEN "queued" ELSE v.state[x]]
      /\ u.old = [x \in Guid |-> v.old[x]]
      /\ u.data = [y \in DOMAIN v.data \cup {g} |-> IF y = g THEN S ELSE v.data[y]]
      /\ u.new = v.new \cup {g} /\ u.current = v.current \ {g}
      /\ u.rematch = v.rematch \ {g}
      /\ u.checks = Restrict(v.checks, DOMAIN v.checks \ {g})
  BY <1>1, FinishRoleCheckDoes, ZenonT(60)
<1>3. /\ g \in Guid /\ g \in Group /\ T = Unit(v, g) /\ Complete(v, on, S, g)
      /\ g \notin v.new \cup v.current \cup DOMAIN v.data \cup Offered(v, TRUE) \cup Keys(v)
  BY UnitIsWhole
<1> HIDE DEF u, T, S
<1>4. u.old = v.old
  BY <1>1, <1>2
<1>5. DOMAIN u.checks = DOMAIN v.checks \ {g} /\ \A y \in DOMAIN u.checks : u.checks[y] = v.checks[y]
  BY <1>2 DEF Restrict
<1>6. /\ DOMAIN u.data = DOMAIN v.data \cup {g} /\ u.data[g] = S
      /\ \A y \in DOMAIN v.data \ {g} : u.data[y] = v.data[y]
  BY <1>2
<1>7. \A y : UnitOf(u, y) = UnitOf(v, y)
  BY <1>2 DEF UnitOf, SameGroups
<1>8. Elsewhere(v, u, g)
  <2>1. u.state \in [Guid -> State]
    BY <1>1, <1>2 DEF State
  <2>2. \A y \in Guid : UnitOf(v, y) # g => u.state[y] = v.state[y]
    BY <1>2, <1>3 DEF Unit
  <2>3. /\ u.new \ {g} = v.new \ {g} /\ u.current \ {g} = v.current \ {g}
        /\ v.rematch \ {g} \subseteq u.rematch
    BY <1>2
  <2> QED
    BY <1>1, <1>2, <1>4, <1>5, <1>6, <2>1, <2>2, <2>3 DEF Elsewhere
<1>9. IsQueued(u, on, g)
  <2>1. Complete(u, on, S, g)
    BY <1>2, <1>3 DEF Complete, SameGroups
  <2>2. \A y \in Guid : UnitOf(u, y) = g => u.state[y] = "queued"
    BY <1>2, <1>3, <1>7 DEF Unit
  <2> QED
    BY <1>2, <1>3, <1>5, <1>6, <2>1, <2>2 DEF IsQueued
<1>10. Good(u, on)
  BY <1>2, <1>3, <1>8, <1>9, UnitStaysGood
<1> QED
  BY <1>2, <1>4, <1>10 DEF u

(* One more member has answered.                                            *)
AnswerCheck(v, g, p) == [v EXCEPT !.checks[g].answered = @ \cup {p}]

LEMMA AnswerCheckDoes ==
  ASSUME NEW v, IsRecord(v), NEW g \in DOMAIN v.checks, NEW p
  PROVE  LET u == AnswerCheck(v, g, p)
         IN /\ IsRecord(u) /\ SameGroups(v, u) /\ SameQueue(v, u) /\ SameStates(v, u)
            /\ u.proposals = v.proposals /\ u.cancels = v.cancels
            /\ u.checks = [v.checks EXCEPT ![g].answered = @ \cup {p}]
<1> DEFINE c == [v.checks EXCEPT ![g].answered = @ \cup {p}]
           u == [v EXCEPT !.checks = c]
<1>1. AnswerCheck(v, g, p) = u
  BY DEF AnswerCheck
<1> HIDE DEF c
<1>2. /\ IsRecord(u) /\ SameGroups(v, u) /\ SameQueue(v, u) /\ SameStates(v, u)
      /\ u.proposals = v.proposals /\ u.cancels = v.cancels /\ u.checks = c
  BY DEF IsRecord, Fields, SameGroups, SameQueue, SameStates
<1> QED
  BY <1>1, <1>2 DEF c

LEMMA RoleCheckAnswered ==
  ASSUME NEW v, NEW on, Good(v, on), NEW g \in DOMAIN v.checks,
         NEW p \in v.checks[g].asked
  PROVE  LET u == AnswerCheck(v, g, p)
         IN /\ Good(u, on) /\ SameGroups(v, u) /\ u.old = v.old /\ g \in DOMAIN u.checks
<1> DEFINE u == AnswerCheck(v, g, p)
           c == v.checks[g]
           d == [c EXCEPT !.answered = @ \cup {p}]
<1>1. /\ IsRecord(v) /\ Typed(v) /\ v.state \in [Guid -> State] /\ v.old \in [Guid -> OldState]
      /\ Settled(v, on, {})
  BY DEF Good, Settled, Typed
<1>2. /\ IsRecord(u) /\ SameGroups(v, u) /\ SameQueue(v, u) /\ SameStates(v, u)
      /\ u.proposals = v.proposals /\ u.cancels = v.cancels
      /\ u.checks = [v.checks EXCEPT ![g].answered = @ \cup {p}]
  BY <1>1, AnswerCheckDoes
<1>3. /\ g \in Guid /\ g \in Group /\ c.asked \cup {g} = Unit(v, g) /\ Complete(v, on, c.asked, g)
      /\ g \notin v.new \cup v.current \cup DOMAIN v.data \cup Offered(v, TRUE) \cup Keys(v)
  BY UnitIsWhole
<1>4. d.asked = c.asked /\ d.answered = c.answered \cup {p} /\ CheckTyped(d)
  <2>1. CheckTyped(c)
    BY <1>1 DEF Typed
  <2>2. p \in c.asked
    OBVIOUS
  <2> HIDE DEF c
  <2>3. d = [asked |-> c.asked, answered |-> c.answered \cup {p}]
    BY <2>1 DEF CheckTyped
  <2> HIDE DEF d
  <2> QED
    BY <2>1, <2>2, <2>3 DEF CheckTyped
<1>5. u.checks[g] = d /\ DOMAIN u.checks = DOMAIN v.checks
      /\ \A y \in DOMAIN v.checks \ {g} : u.checks[y] = v.checks[y]
  BY <1>2
<1>6. \A y : UnitOf(u, y) = UnitOf(v, y)
  BY <1>2 DEF UnitOf, SameGroups
<1>7. \A y \in Guid : UnitOf(v, y) = g => v.state[y] = "rolecheck"
  <2> TAKE y \in Guid
  <2>1. v.state[y] = "rolecheck" <=> UnitOf(v, y) \in DOMAIN v.checks
    BY Reaches
  <2> QED
    BY <2>1
<1> HIDE DEF u, c, d
<1>9. Elsewhere(v, u, g)
  BY <1>1, <1>2, <1>5 DEF Elsewhere, SameQueue, SameStates
<1>10. IsChecked(u, on, g)
  <2>1. Complete(u, on, d.asked, g)
    BY <1>2, <1>3, <1>4 DEF Complete, SameGroups
  <2> QED
    BY <1>2, <1>3, <1>4, <1>5, <1>6, <1>7, <2>1 DEF IsChecked, SameQueue, SameStates
<1>11. Good(u, on)
  BY <1>2, <1>3, <1>9, <1>10, UnitStaysGood
<1> QED
  BY <1>2, <1>5, <1>11 DEF u, SameStates

LEMMA AnswersRoleCheck ==
  ASSUME NEW v, NEW on, Good(v, on), NEW g, NEW p, NEW u \in UpdateRoleCheck(v, g, p)
  PROVE  Good(u, on) /\ SameGroups(v, u) /\ u.old = v.old
<1>1. CASE g \notin DOMAIN v.checks \/ p \notin v.checks[g].asked
  <2>1. u = v
    BY <1>1 DEF UpdateRoleCheck
  <2> QED
    BY <2>1 DEF SameGroups
<1>2. CASE g \in DOMAIN v.checks /\ p \in v.checks[g].asked
  <2> DEFINE r == AnswerCheck(v, g, p)
  <2>1. u = FailRoleCheck(v, g) \/ u = FinishRoleCheck(r, g) \/ u = r
    <3>1. u \in {FailRoleCheck(v, g),
           IF r.checks[g].answered = r.checks[g].asked THEN FinishRoleCheck(r, g) ELSE r}
      BY <1>2 DEF UpdateRoleCheck, AnswerCheck
    <3> HIDE DEF r
    <3> QED
      BY <3>1
  <2>2. Good(r, on) /\ SameGroups(v, r) /\ r.old = v.old /\ g \in DOMAIN r.checks
    BY <1>2, RoleCheckAnswered
  <2> HIDE DEF r
  <2>3. CASE u = r
    BY <2>2, <2>3
  <2>4. CASE u = FinishRoleCheck(r, g)
    <3>1. Good(u, on) /\ SameGroups(r, u) /\ u.old = r.old
      BY <2>2, <2>4, RoleCheckFinishes
    <3> QED
      BY <2>2, <3>1 DEF SameGroups
  <2>5. CASE u = FailRoleCheck(v, g)
    <3> DEFINE U == {}
    <3>1. Settled(v, on, U) /\ U \ {g} = {}
      BY DEF Good
    <3> HIDE DEF U
    <3>2. /\ Settled(u, on, U \ {g}) /\ SameGroups(v, u)
          /\ u.old = v.old /\ u.cancels = v.cancels /\ u.proposals = v.proposals
      BY <1>2, <2>5, <3>1, RoleCheckFails
    <3> QED
      BY <3>1, <3>2 DEF Good
  <2> QED
    BY <2>1, <2>3, <2>4, <2>5
<1> QED
  BY <1>1, <1>2

(* The unit x may have been removed from the queue.                         *)
Dequeued(v, u, x) ==
  /\ IsRecord(u) /\ SameGroups(v, u) /\ SameStates(v, u) /\ SameRest(v, u)
  /\ DOMAIN u.data \ {x} = DOMAIN v.data \ {x}
  /\ \A y \in DOMAIN v.data \ {x} : u.data[y] = v.data[y]
  /\ u.new \ {x} = v.new \ {x} /\ u.current \ {x} = v.current \ {x}
  /\ v.rematch \ {x} \subseteq u.rematch

LEMMA RemovedIsDequeued ==
  ASSUME NEW v, IsRecord(v), NEW x
  PROVE  /\ Dequeued(v, v, x) /\ Dequeued(v, RemoveFromQueue(v, {x}), x)
         /\ x \notin DOMAIN RemoveFromQueue(v, {x}).data
         /\ x \notin RemoveFromQueue(v, {x}).new \cup RemoveFromQueue(v, {x}).current
<1>1. Dequeued(v, v, x)
  BY DEF Dequeued, SameGroups, SameStates, SameRest
<1> DEFINE u == RemoveFromQueue(v, {x})
<1>2. /\ IsRecord(u) /\ SameGroups(v, u) /\ SameStates(v, u) /\ SameRest(v, u)
      /\ u.data = Restrict(v.data, DOMAIN v.data \ {x})
      /\ u.new = v.new \ {x} /\ u.current = v.current \ {x} /\ u.rematch = v.rematch \ {x}
  BY RemoveFromQueueDoes
<1> HIDE DEF u
<1>3. DOMAIN u.data = DOMAIN v.data \ {x} /\ \A y \in DOMAIN u.data : u.data[y] = v.data[y]
  BY <1>2 DEF Restrict
<1>4. Dequeued(v, u, x) /\ x \notin DOMAIN u.data /\ x \notin u.new \cup u.current
  BY <1>2, <1>3 DEF Dequeued
<1> QED
  BY <1>1, <1>4 DEF u

Enqueue(v, x, S, T) == SetStates(AddQueueData(v, x, S), T, "queued")

LEMMA EnqueueDoes ==
  ASSUME NEW v, IsRecord(v), NEW x, NEW S, NEW T
  PROVE  LET u == Enqueue(v, x, S, T)
         IN /\ IsRecord(u) /\ SameGroups(v, u) /\ SameRest(v, u)
            /\ u.state = Become(v.state, T, "queued") /\ u.old = [y \in Guid |-> v.old[y]]
            /\ DOMAIN u.data = DOMAIN v.data \cup {x} /\ u.data[x] = S
            /\ \A y \in DOMAIN v.data \ {x} : u.data[y] = v.data[y]
            /\ u.new = v.new \cup {x} /\ u.current = v.current \ {x}
            /\ u.rematch = v.rematch \ {x}
<1> DEFINE r == AddQueueData(v, x, S)
           u == SetStates(r, T, "queued")
<1>1. /\ IsRecord(r) /\ SameGroups(v, r) /\ SameStates(v, r) /\ SameRest(v, r)
      /\ r.data = [y \in DOMAIN v.data \cup {x} |-> IF y = x THEN S ELSE v.data[y]]
      /\ r.new = v.new \cup {x} /\ r.current = v.current \ {x}
      /\ r.rematch = v.rematch \ {x}
  BY AddQueueDataDoes, ZenonT(60)
<1> HIDE DEF r
<1>2. /\ IsRecord(u) /\ SameGroups(r, u) /\ SameQueue(r, u) /\ SameRest(r, u)
      /\ u.state = [y \in Guid |-> IF y \in T THEN "queued" ELSE r.state[y]]
      /\ u.old = [y \in Guid |-> r.old[y]]
  BY <1>1, SetStatesDoes DEF OldState
<1> HIDE DEF u
<1>3. /\ DOMAIN u.data = DOMAIN v.data \cup {x} /\ u.data[x] = S
      /\ \A y \in DOMAIN v.data \ {x} : u.data[y] = v.data[y]
  BY <1>1, <1>2 DEF SameQueue
<1>4. u.state = Become(v.state, T, "queued") /\ u.old = [y \in Guid |-> v.old[y]]
  BY <1>1, <1>2 DEF SameStates, Become
<1>5. u.new = v.new \cup {x} /\ u.current = v.current \ {x} /\ u.rematch = v.rematch \ {x}
  BY <1>1, <1>2 DEF SameQueue
<1>6. SameGroups(v, u) /\ SameRest(v, u)
  BY <1>1, <1>2 DEF SameGroups, SameRest
<1> QED
  BY <1>2, <1>3, <1>4, <1>5, <1>6 DEF u, r, Enqueue

Moved(v, u, on) == Good(u, on) /\ SameGroups(v, u) /\ u.old = v.old

QueueAlone(v, x) == Enqueue(v, x, {x}, {x})

LEMMA QueuesAlone ==
  ASSUME NEW v, NEW on, Good(v, on), NEW x \in Player, v.of[x] = None, x \in on,
         x \notin Offered(v, TRUE), NEW r, Dequeued(v, r, x)
  PROVE  Moved(v, QueueAlone(r, x), on)
<1> DEFINE S == {x}
           u == Enqueue(r, x, S, S)
<1>0. S = {x}
  OBVIOUS
<1> HIDE DEF S
<1>1. /\ Typed(v) /\ v.state \in [Guid -> State] /\ v.old \in [Guid -> OldState]
      /\ EntriesRight(v, on)
  BY DEF Good, Settled, Typed
<1>2. /\ IsRecord(r) /\ SameGroups(v, r) /\ SameStates(v, r) /\ SameRest(v, r)
      /\ DOMAIN r.data \ {x} = DOMAIN v.data \ {x}
      /\ \A y \in DOMAIN v.data \ {x} : r.data[y] = v.data[y]
      /\ r.new \ {x} = v.new \ {x} /\ r.current \ {x} = v.current \ {x}
      /\ v.rematch \ {x} \subseteq r.rematch
  BY DEF Dequeued
<1>3. /\ IsRecord(u) /\ SameGroups(r, u) /\ SameRest(r, u)
      /\ u.state = Become(r.state, S, "queued") /\ u.old = [y \in Guid |-> r.old[y]]
      /\ DOMAIN u.data = DOMAIN r.data \cup {x} /\ u.data[x] = S
      /\ \A y \in DOMAIN r.data \ {x} : u.data[y] = r.data[y]
      /\ u.new = r.new \cup {x} /\ u.current = r.current \ {x}
      /\ u.rematch = r.rematch \ {x}
  BY <1>2, EnqueueDoes
<1> HIDE DEF u
<1>4. SameGroups(v, u) /\ SameRest(v, u) /\ u.old = v.old
  BY <1>1, <1>2, <1>3 DEF SameGroups, SameRest, SameStates
<1>5. \A y : UnitOf(u, y) = UnitOf(v, y)
  BY <1>4 DEF UnitOf, SameGroups
<1>6. x \in Guid /\ \A y \in Guid : UnitOf(v, y) = x => y = x
  BY <1>1, UnitIs, Names DEF UnitOf, Guid
<1>7. Elsewhere(v, u, x)
  <2>1. u.state \in [Guid -> State]
    BY <1>1, <1>2, <1>3 DEF State, Become, SameStates
  <2>2. \A y \in Guid : UnitOf(v, y) # x => u.state[y] = v.state[y]
    BY <1>0, <1>2, <1>3, Names DEF Become, SameStates, UnitOf
  <2>3. /\ u.new \ {x} = v.new \ {x} /\ u.current \ {x} = v.current \ {x}
        /\ v.rematch \ {x} \subseteq u.rematch
    BY <1>2, <1>3
  <2>4. /\ DOMAIN u.data \ {x} = DOMAIN v.data \ {x}
        /\ \A y \in DOMAIN v.data \ {x} : u.data[y] = v.data[y]
    BY <1>2, <1>3
  <2> QED
    BY <1>1, <1>3, <1>4, <2>1, <2>2, <2>3, <2>4 DEF Elsewhere, SameRest
<1>8. IsQueued(u, on, x)
  <2>1. Complete(u, on, S, x)
    BY <1>0, <1>4 DEF Complete, SameGroups
  <2>2. x \notin DOMAIN u.checks
    BY <1>1, <1>4, Names DEF SameRest, EntriesRight
  <2>3. \A y \in Guid : UnitOf(u, y) = x => u.state[y] = "queued"
    BY <1>0, <1>3, <1>5, <1>6 DEF Become
  <2> QED
    BY <1>3, <2>1, <2>2, <2>3 DEF IsQueued
<1>9. Good(u, on)
  <2>1. Settled(v, on, {}) /\ Offered(v, FALSE) = {}
    BY DEF Good, Offered
  <2>2. x \notin Keys(v)
    BY <1>6, <2>1, NoKey
  <2>3. u.cancels = v.cancels
    BY <1>4 DEF SameRest
  <2> QED
    BY <1>6, <1>7, <1>8, <2>2, <2>3, UnitStaysGood
<1> QED
  BY <1>4, <1>9 DEF u, S, Moved, QueueAlone

NewCheck(v, g, S) ==
  [x \in DOMAIN v.checks \cup {g} |->
     IF x = g THEN [asked |-> S, answered |-> {}] ELSE v.checks[x]]
BeginCheck(v, g, S, T) == [SetStates(v, T, "rolecheck") EXCEPT !.checks = NewCheck(v, g, S)]

LEMMA BeginCheckDoes ==
  ASSUME NEW v, IsRecord(v), NEW g, NEW S, NEW T
  PROVE  LET u == BeginCheck(v, g, S, T)
         IN /\ IsRecord(u) /\ SameGroups(v, u) /\ SameQueue(v, u)
            /\ u.proposals = v.proposals /\ u.cancels = v.cancels
            /\ u.checks = NewCheck(v, g, S)
            /\ u.state = Become(v.state, T, "rolecheck") /\ u.old = [y \in Guid |-> v.old[y]]
<1> DEFINE r == SetStates(v, T, "rolecheck")
           c == NewCheck(v, g, S)
           u == [r EXCEPT !.checks = c]
<1>1. /\ IsRecord(r) /\ SameGroups(v, r) /\ SameQueue(v, r) /\ SameRest(v, r)
      /\ r.state = Become(v.state, T, "rolecheck") /\ r.old = [y \in Guid |-> v.old[y]]
  BY SetStatesDoes DEF OldState, Become
<1> HIDE DEF r, c
<1>2. /\ IsRecord(u) /\ SameGroups(r, u) /\ SameQueue(r, u) /\ SameStates(r, u)
      /\ u.proposals = r.proposals /\ u.cancels = r.cancels /\ u.checks = c
  BY <1>1 DEF IsRecord, Fields, SameGroups, SameQueue, SameStates
<1> HIDE DEF u
<1>3. SameGroups(v, u) /\ SameQueue(v, u) /\ u.proposals = v.proposals /\ u.cancels = v.cancels
  BY <1>1, <1>2 DEF SameGroups, SameQueue, SameRest
<1> QED
  BY <1>1, <1>2, <1>3 DEF r, c, u, BeginCheck, SameStates

BeginCheckOf(v, g) == BeginCheck(v, g, v.members[g], v.members[g] \cup {g})

LEMMA ChecksBegin ==
  ASSUME NEW v, NEW on, Good(v, on), NEW g \in Group, g \notin Offered(v, TRUE),
         NEW r, Dequeued(v, r, g), g \notin DOMAIN r.data \cup r.new \cup r.current,
         v.players[g] # {}, v.players[g] \subseteq on, v.members = v.players
  PROVE  Moved(v, BeginCheckOf(r, g), on)
<1> DEFINE S == r.members[g]
           T == S \cup {g}
           u == BeginCheck(r, g, S, T)
<1>0. S = v.players[g] /\ S # {} /\ S \subseteq on /\ T = S \cup {g}
  BY DEF Dequeued, SameGroups
<1> HIDE DEF S, T
<1>1. /\ Typed(v) /\ GroupsRight(v) /\ v.state \in [Guid -> State] /\ v.old \in [Guid -> OldState]
      /\ EntriesRight(v, on) /\ g \in Guid
  BY Names DEF Good, Settled, Typed
<1>2. /\ IsRecord(r) /\ SameGroups(v, r) /\ SameStates(v, r) /\ SameRest(v, r)
      /\ DOMAIN r.data \ {g} = DOMAIN v.data \ {g}
      /\ \A y \in DOMAIN v.data \ {g} : r.data[y] = v.data[y]
      /\ r.new \ {g} = v.new \ {g} /\ r.current \ {g} = v.current \ {g}
      /\ v.rematch \ {g} \subseteq r.rematch
  BY DEF Dequeued
<1>3. /\ IsRecord(u) /\ SameGroups(r, u) /\ SameQueue(r, u)
      /\ u.proposals = r.proposals /\ u.cancels = r.cancels
      /\ u.checks = NewCheck(r, g, S)
      /\ u.state = Become(r.state, T, "rolecheck") /\ u.old = [y \in Guid |-> r.old[y]]
  BY <1>2, BeginCheckDoes
<1> HIDE DEF u
<1>4. /\ SameGroups(v, u) /\ u.proposals = v.proposals /\ u.cancels = v.cancels /\ u.old = v.old
  BY <1>1, <1>2, <1>3 DEF SameGroups, SameRest, SameStates
<1>5. \A y : UnitOf(u, y) = UnitOf(v, y)
  BY <1>4 DEF UnitOf, SameGroups
<1>6. \A y \in Guid : y \in T <=> UnitOf(v, y) = g
  <2>1. T = Unit(v, g)
    BY <1>0, <1>1, GroupUnit
  <2> QED
    BY <2>1 DEF Unit
<1>7. /\ u.checks[g] = [asked |-> S, answered |-> {}]
      /\ DOMAIN u.checks \ {g} = DOMAIN v.checks \ {g} /\ g \in DOMAIN u.checks
      /\ \A y \in DOMAIN v.checks \ {g} : u.checks[y] = v.checks[y]
  BY <1>2, <1>3 DEF NewCheck, SameRest
<1>8. Elsewhere(v, u, g)
  <2>1. u.state \in [Guid -> State]
    BY <1>1, <1>2, <1>3 DEF State, Become, SameStates
  <2>2. \A y \in Guid : UnitOf(v, y) # g => u.state[y] = v.state[y]
    BY <1>2, <1>3, <1>6 DEF Become, SameStates
  <2>3. /\ u.new \ {g} = v.new \ {g} /\ u.current \ {g} = v.current \ {g}
        /\ v.rematch \ {g} \subseteq u.rematch
    BY <1>2, <1>3 DEF SameQueue
  <2>4. /\ DOMAIN u.data \ {g} = DOMAIN v.data \ {g}
        /\ \A y \in DOMAIN v.data \ {g} : u.data[y] = v.data[y]
    BY <1>2, <1>3 DEF SameQueue
  <2> QED
    BY <1>1, <1>3, <1>4, <1>7, <2>1, <2>2, <2>3, <2>4 DEF Elsewhere
<1>9. IsChecked(u, on, g)
  <2>1. Complete(u, on, S, g)
    BY <1>0, <1>4, Names DEF Complete, SameGroups
  <2>2. CheckTyped(u.checks[g]) /\ u.checks[g].asked = S
    BY <1>7 DEF CheckTyped
  <2>3. \A y \in Guid : UnitOf(u, y) = g => u.state[y] = "rolecheck"
    BY <1>3, <1>5, <1>6 DEF Become
  <2> QED
    BY <1>3, <1>7, <2>1, <2>2, <2>3 DEF IsChecked, SameQueue
<1>10. Good(u, on)
  <2>1. Settled(v, on, {}) /\ Offered(v, FALSE) = {}
    BY DEF Good, Offered
  <2>2. g \notin Keys(v)
    BY <1>1, <2>1, NoKey
  <2> QED
    BY <1>1, <1>4, <1>8, <1>9, <2>2, UnitStaysGood
<1> QED
  BY <1>4, <1>10 DEF u, S, T, Moved, BeginCheckOf

LEMMA KeptTwice ==
  ASSUME NEW v, NEW u, NEW t, Typed(v), SameGroups(v, u), OldKept(v, u), OldKept(u, t)
  PROVE  OldKept(v, t)
<1>1. \A y : UnitOf(u, y) = UnitOf(v, y)
  BY DEF UnitOf, SameGroups
<1>2. \A y \in Guid : UnitOf(v, y) \in Guid /\ UnitOf(v, UnitOf(v, y)) = UnitOf(v, y)
  <2> TAKE y \in Guid
  <2>1. UnitOf(v, y) \in Guid /\ (UnitOf(v, y) = y \/ UnitOf(v, y) \in Group)
    BY UnitIs DEF Guid
  <2>2. \A g \in Group : UnitOf(v, g) = g
    BY DEF UnitOf
  <2> QED
    BY <2>1, <2>2
<1> QED
  BY <1>1, <1>2 DEF OldKept

-----------------------------------------------------------------------------
(* Packets to the finder.                                                   *)

Kept(v, u, on) == Good(u, on) /\ SameGroups(v, u) /\ OldKept(v, u)

(* What a packet makes of w: the invariant holds again, and no dungeon      *)
(* begins.                                                                  *)
Done(u, on) == Good(u, on) /\ u.members = u.players /\ OldKept(w, u)

LEMMA SessionsMean ==
  ASSUME IInv, phase = "sessions"
  PROVE  /\ Good(w, online) /\ w.members = w.players /\ Typed(w) /\ GroupsRight(w)
         /\ \A p \in Player : GroupOf(w, p) = w.of[p]
         /\ \A p \in Player : UnitOf(w, p) = IF GroupOf(w, p) = None THEN p ELSE GroupOf(w, p)
<1>1. Good(w, online) /\ w.members = w.players /\ Typed(w) /\ GroupsRight(w)
  BY DEF IInv, Good, Settled
<1>2. \A p \in Player : GroupOf(w, p) = w.of[p]
  BY <1>1, GroupIs
<1> QED
  BY <1>1, <1>2, Names DEF UnitOf

LEMMA KeptIsDone ==
  ASSUME NEW u, NEW on, w.members = w.players, Kept(w, u, on)
  PROVE  Done(u, on)
BY DEF Kept, Done, SameGroups

LEMMA LeaveKept ==
  ASSUME NEW v, NEW on, Good(v, on), NEW x \in Guid, x \in Player \/ v.members[x] # {},
         NEW disconnected \in BOOLEAN
  PROVE  Kept(v, LeaveLfg(v, x, disconnected), on)
BY Leaves DEF Kept, Left

LEMMA JoinKept ==
  ASSUME NEW v, NEW on, Good(v, on), v.members = v.players, NEW p \in Player, p \in on,
         NEW g, g = v.of[p], NEW x, x = UnitOf(v, p), x \notin Offered(v, TRUE),
         NEW r, Dequeued(v, r, x), x \notin DOMAIN r.data \cup r.new \cup r.current,
         NEW u \in Join(r, p, g), on = online
  PROVE  Kept(v, u, on)
<1>1. Typed(v) /\ GroupsRight(v) /\ r.members = v.members
  BY DEF Good, Settled, Dequeued, SameGroups
<1>2. CASE g = None
  <2>1. u = QueueAlone(r, p)
    <3>1. Join(r, p, g) = {QueueAlone(r, p)}
      BY <1>2, Zenon DEF Join, Enqueue, QueueAlone
    <3> QED
      BY <3>1
  <2>2. x = p
    BY <1>2 DEF UnitOf
  <2>3. v.of[p] = None /\ p \notin Offered(v, TRUE) /\ Dequeued(v, r, p)
    BY <1>2, <2>2
  <2>4. Moved(v, u, on)
    BY <2>1, <2>3, QueuesAlone
  <2> QED
    BY <2>4 DEF Kept, OldKept, Moved
<1>3. CASE g # None
  <2>1. g \in Group /\ x = g
    BY <1>1, <1>3, Names DEF Typed, UnitOf
  <2> DEFINE b == BeginCheckOf(r, g)
  <2>2. r.members[g] \subseteq on /\ u \in UpdateRoleCheck(b, g, p)
    <3>1. Join(r, p, g) = IF r.members[g] \subseteq online THEN UpdateRoleCheck(b, g, p) ELSE {}
      BY <1>3, Zenon DEF Join, BeginCheck, NewCheck, BeginCheckOf
    <3> HIDE DEF b
    <3> QED
      BY <3>1
  <2>3. p \in v.players[g] /\ v.players[g] \subseteq on
    BY <1>1, <2>1, <2>2 DEF GroupsRight
  <2>4. g \notin Offered(v, TRUE) /\ Dequeued(v, r, g) /\ g \notin DOMAIN r.data \cup r.new \cup r.current
    BY <2>1
  <2>5. Moved(v, b, on)
    BY <2>1, <2>3, <2>4, ChecksBegin
  <2> HIDE DEF b
  <2>6. Good(u, on) /\ SameGroups(b, u) /\ u.old = b.old
    BY <2>2, <2>5, AnswersRoleCheck DEF Moved
  <2> QED
    BY <2>5, <2>6 DEF Kept, OldKept, SameGroups, Moved
<1> QED
  BY <1>2, <1>3

(* The unit of a player is there.                                           *)
LEMMA UnitThere ==
  ASSUME IInv, phase = "sessions", NEW p \in Player
  PROVE  UnitOf(w, p) \in Player \/ (UnitOf(w, p) \in Group /\ w.members[UnitOf(w, p)] # {})
<1>1. Typed(w) /\ GroupsRight(w)
  BY SessionsMean
<1> QED
  BY <1>1, UnitIs, GoneIs, Names

LEMMA JoinLfgKeeps ==
  ASSUME IInv, NEW p \in Player, JoinLfg(p)
  PROVE  phase = "sessions" /\ UNCHANGED <<phase, online>> /\ Done(w', online)
<1>1. phase = "sessions" /\ UNCHANGED <<phase, online>>
  BY DEF JoinLfg, Packet
<1>2. /\ Good(w, online) /\ w.members = w.players /\ Typed(w)
      /\ GroupOf(w, p) = w.of[p] /\ p \in Guid
      /\ UnitOf(w, p) = IF GroupOf(w, p) = None THEN p ELSE GroupOf(w, p)
  BY <1>1, SessionsMean, Names
<1> DEFINE g  == GroupOf(w, p)
           x  == IF g = None THEN p ELSE g
           v1 == IF w.state[x] = "proposal" THEN LeaveLfg(w, x, FALSE) ELSE w
           v2 == IF v1.state[x] = "queued" THEN RemoveFromQueue(v1, {x}) ELSE v1
<1>3. p \in online /\ (w' = v1 \/ \E v \in Join(v2, p, g) : w' = v)
  BY DEF JoinLfg, Packet
<1>4. /\ x = UnitOf(w, p) /\ x \in Guid /\ UnitOf(w, x) = x /\ g = w.of[p]
      /\ x \in Player \/ w.members[x] # {}
  <2>1. UnitOf(w, p) \in Guid /\ UnitOf(w, UnitOf(w, p)) = UnitOf(w, p)
    BY <1>2, Reaches
  <2>2. x \in Player \/ w.members[x] # {}
    BY <1>1, <1>2, UnitThere
  <2> QED
    BY <1>2, <2>1, <2>2
<1> HIDE DEF g, x
<1>5. Kept(w, v1, online) /\ x \notin Offered(v1, TRUE)
  <2>1. CASE w.state[x] = "proposal"
    <3>1. v1 = LeaveLfg(w, x, FALSE)
      BY <2>1
    <3> HIDE DEF v1
    <3>2. Good(v1, online) /\ Left(w, v1, x)
      BY <1>2, <1>4, <3>1, Leaves
    <3>3. x \notin Offered(v1, TRUE)
      BY <1>4, <3>2 DEF Left, Places
    <3> QED
      BY <3>2, <3>3 DEF Kept, Left
  <2>2. CASE w.state[x] # "proposal"
    <3>1. v1 = w
      BY <2>2
    <3> HIDE DEF v1
    <3> QED
      BY <1>2, <1>4, <2>2, <3>1, Reaches DEF Kept, SameGroups, OldKept
  <2> QED
    BY <2>1, <2>2
<1> HIDE DEF v1
<1>6. /\ Good(v1, online) /\ v1.members = v1.players /\ v1.of[p] = g /\ IsRecord(v1)
      /\ \A y : UnitOf(v1, y) = UnitOf(w, y)
  BY <1>2, <1>4, <1>5 DEF Kept, SameGroups, UnitOf, Good, Settled, Typed
<1>7. Dequeued(v1, v2, x) /\ x \notin DOMAIN v2.data \cup v2.new \cup v2.current
  <2>1. CASE v1.state[x] = "queued"
    BY <1>6, <2>1, RemovedIsDequeued
  <2>2. CASE v1.state[x] # "queued"
    <3>1. x \notin v1.new \cup v1.current
      <4>1. v1.state[x] = "queued" <=> UnitOf(v1, x) \in v1.new \cup v1.current
        BY <1>4, <1>6, Reaches
      <4> QED
        BY <1>4, <1>6, <2>2, <4>1
    <3>2. Settled(v1, online, {}) /\ Offered(v1, FALSE) = {}
      BY <1>6 DEF Good, Offered
    <3>3. x \in Player \/ v1.members[x] # {}
      BY <1>4, <1>5 DEF Kept, SameGroups
    <3>4. x \notin Keys(v1)
      BY <1>4, <1>5, <3>2, <3>3, NoKey
    <3>5. x \notin DOMAIN v1.data
      BY <3>1, <3>2, <3>4 DEF Settled, EntriesRight
    <3> QED
      BY <1>6, <2>2, <3>1, <3>5, RemovedIsDequeued
  <2> QED
    BY <2>1, <2>2
<1> HIDE DEF v2
<1>8. CASE w' = v1
  BY <1>2, <1>5, <1>8, KeptIsDone, <1>1
<1>9. CASE \E v \in Join(v2, p, g) : w' = v
  <2>1. w' \in Join(v2, p, g)
    BY <1>9
  <2>2. x = UnitOf(v1, p)
    BY <1>4, <1>6
  <2>3. Kept(v1, w', online)
    BY <1>3, <1>5, <1>6, <1>7, <2>1, <2>2, JoinKept
  <2>4. Kept(w, w', online)
    <3>1. SameGroups(w, w')
      BY <1>5, <2>3 DEF Kept, SameGroups
    <3>2. OldKept(w, w')
      BY <1>2, <1>5, <2>3, KeptTwice DEF Kept
    <3> QED
      BY <2>3, <3>1, <3>2 DEF Kept
  <2> QED
    BY <1>1, <1>2, <2>4, KeptIsDone
<1> QED
  BY <1>3, <1>8, <1>9

LEMMA HandleLfgLeaveKeeps ==
  ASSUME IInv, NEW p \in Player, HandleLfgLeave(p)
  PROVE  phase = "sessions" /\ UNCHANGED <<phase, online>> /\ Done(w', online)
<1> DEFINE g == GroupOf(w, p)
           x == IF g = None THEN p ELSE g
<1>1. phase = "sessions" /\ UNCHANGED <<phase, online>> /\ w' = LeaveLfg(w, x, FALSE)
  BY DEF HandleLfgLeave, Packet
<1>2. /\ Good(w, online) /\ w.members = w.players /\ Typed(w) /\ UnitOf(w, p) = x /\ p \in Guid
  BY <1>1, SessionsMean, Names
<1> HIDE DEF x
<1>3. x \in Guid /\ (x \in Player \/ w.members[x] # {})
  BY <1>1, <1>2, UnitThere, Names
<1>4. Kept(w, w', online)
  BY <1>1, <1>2, <1>3, LeaveKept
<1> QED
  BY <1>1, <1>2, <1>4, KeptIsDone

LEMMA HandleLfgSetRolesKeeps ==
  ASSUME IInv, NEW p \in Player, HandleLfgSetRoles(p)
  PROVE  phase = "sessions" /\ UNCHANGED <<phase, online>> /\ Done(w', online)
<1> DEFINE g == GroupOf(w, p)
<1>1. phase = "sessions" /\ UNCHANGED <<phase, online>> /\ w' \in UpdateRoleCheck(w, g, p)
  BY DEF HandleLfgSetRoles, Packet
<1>2. Good(w, online) /\ w.members = w.players
  BY <1>1, SessionsMean
<1> HIDE DEF g
<1>3. Good(w', online) /\ SameGroups(w, w') /\ w'.old = w.old
  BY <1>1, <1>2, AnswersRoleCheck
<1> QED
  BY <1>1, <1>2, <1>3, KeptIsDone DEF Kept, OldKept

-----------------------------------------------------------------------------
(* Answers that do not make a proposal come about.                          *)

LEMMA ProposalRemoved ==
  ASSUME NEW v, NEW on, Good(v, on), NEW pr \in v.proposals, NEW failed \in BOOLEAN
  PROVE  Moved(v, RemoveProposal(v, pr, failed), on)
<1> DEFINE U == {}
           u == RemoveProposal(v, pr, failed)
           R == Removed(v, pr, failed)
<1>1. Settled(v, on, U) /\ U \cap UnitsIn(v, pr) \subseteq R /\ U \ R = {} /\ pr.begun
  BY DEF Good
<1> HIDE DEF U
<1>2. R \in SUBSET UnitsIn(v, pr)
  BY <1>1, ToRemoveIs
<1>3. ProposalOver(v, u, pr, R) /\ u.old = v.old /\ u.cancels = v.cancels
  BY <1>1, RemoveProposalDoes
<1> HIDE DEF u, R
<1>4. Settled(u, on, U \ R)
  BY <1>1, <1>2, <1>3, ProposalEnds
<1>5. Moved(v, u, on)
  BY <1>1, <1>3, <1>4 DEF Moved, Good, ProposalOver
<1> QED
  BY <1>5 DEF u

Replace(v, pr, now) == [v EXCEPT !.proposals = (@ \ {pr}) \cup {now}]

LEMMA ProposalReplaced ==
  ASSUME NEW v, NEW on, Good(v, on), NEW pr \in v.proposals, NEW now, Answers(pr, now)
  PROVE  Moved(v, Replace(v, pr, now), on) /\ now \in Replace(v, pr, now).proposals
<1> DEFINE U == {}
           u == Replace(v, pr, now)
<1>1. Settled(v, on, U) /\ U = {} /\ IsRecord(v)
  BY DEF Good, Settled, Typed
<1> HIDE DEF U
<1>2. Answered(v, u, pr, now)
  BY <1>1, ProposalsReplaced DEF Replace
<1> HIDE DEF u
<1>3. Settled(u, on, U) /\ now \in u.proposals
  BY <1>1, <1>2, ProposalAnswered
<1>4. \A qr \in u.proposals : qr.begun
  BY <1>2 DEF Good, Answered, Answers
<1> QED
  BY <1>1, <1>2, <1>3, <1>4 DEF u, Moved, Good, Answered, SameStates

LEMMA ProposalDenied ==
  ASSUME NEW v, NEW on, Good(v, on), NEW pr \in v.proposals, NEW now, Answers(pr, now)
  PROVE  Moved(v, RemoveProposal(Replace(v, pr, now), now, FALSE), on)
<1> DEFINE r == Replace(v, pr, now)
           u == RemoveProposal(r, now, FALSE)
<1>1. Moved(v, r, on) /\ now \in r.proposals
  BY ProposalReplaced
<1> HIDE DEF r
<1>2. Moved(r, u, on)
  BY <1>1, ProposalRemoved DEF Moved
<1> HIDE DEF u
<1>3. Moved(v, u, on)
  BY <1>1, <1>2 DEF Moved, SameGroups
<1> QED
  BY <1>3 DEF r, u

(* What UpdateProposal does of an answer that is not the last.              *)
NowOf(pr, p, accept) == [pr EXCEPT !.accept[p] = IF accept THEN "agree" ELSE "deny"]

LEMMA UpdateProposalIs ==
  ASSUME NEW v, NEW on, Good(v, on), NEW pr \in v.proposals, NEW p \in DOMAIN pr.of,
         NEW accept \in BOOLEAN, NEW h
  PROVE  LET now == NowOf(pr, p, accept)
             u   == UpdateProposal(v, pr, p, accept, h)
         IN /\ Answers(pr, now)
            /\ now.accept = [pr.accept EXCEPT ![p] = IF accept THEN "agree" ELSE "deny"]
            /\ \/ Moved(v, u, on)
               \/ /\ accept /\ (\A q \in DOMAIN now.accept : now.accept[q] = "agree")
                  /\ ~ TooMany(v, pr) /\ u = Succeed(Replace(v, pr, now), now, h)
<1> DEFINE now == NowOf(pr, p, accept)
           u   == UpdateProposal(v, pr, p, accept, h)
           all == \A q \in DOMAIN now.accept : now.accept[q] = "agree"
           S == {q \in DOMAIN now.of : now.of[q] = now.group}
           their == Deny(now, S)
<1>1. ProposalTyped(pr)
  BY DEF Good, Settled, Typed
<1>2. /\ Answers(pr, now)
      /\ now.accept = [pr.accept EXCEPT ![p] = IF accept THEN "agree" ELSE "deny"]
  <2> DEFINE b == IF accept THEN "agree" ELSE "deny"
  <2>1. b \in Answer /\ now = [pr EXCEPT !.accept[p] = b]
    BY DEF Answer, NowOf
  <2> HIDE DEF b, now
  <2>2. Answers(pr, now) /\ now.accept = [pr.accept EXCEPT ![p] = b]
    BY <1>1, <2>1, AnswerDoes
  <2> QED
    BY <2>2 DEF b
<1>3. u = IF ~ accept THEN RemoveProposal(Replace(v, pr, now), now, FALSE)
          ELSE IF ~ all THEN Replace(v, pr, now)
          ELSE IF TooMany(v, pr) THEN RemoveProposal(Replace(v, pr, their), their, FALSE)
          ELSE Succeed(Replace(v, pr, now), now, h)
  BY Zenon DEF UpdateProposal, Replace, NowOf
<1> HIDE DEF S, now
<1>4. Answers(pr, their)
  <2>1. ProposalTyped(now)
    BY <1>2 DEF Answers
  <2>2. Answers(now, their)
    BY <2>1, DenyDoes
  <2> QED
    BY <1>2, <2>2 DEF Answers
<1> HIDE DEF u, all, their
<1>5. /\ Moved(v, Replace(v, pr, now), on)
      /\ Moved(v, RemoveProposal(Replace(v, pr, now), now, FALSE), on)
      /\ Moved(v, RemoveProposal(Replace(v, pr, their), their, FALSE), on)
  BY <1>2, <1>4, ProposalReplaced, ProposalDenied
<1>6. \/ Moved(v, u, on)
      \/ accept /\ all /\ ~ TooMany(v, pr) /\ u = Succeed(Replace(v, pr, now), now, h)
  BY <1>3, <1>5
<1> QED
  BY <1>2, <1>6 DEF now, u, all

-----------------------------------------------------------------------------
(* Groups change.                                                           *)

OldLess(v, u) == \A y \in Guid : u.old[y] = "dungeon" => v.old[y] = "dungeon"

LEMMA OldKeptLess ==
  ASSUME NEW v, NEW u, NEW t, OldKept(v, u), OldLess(u, t)
  PROVE  OldKept(v, t)
BY DEF OldKept, OldLess

(* A change of the groups that are nowhere, seen from a packet.             *)
LEMMA GoodRegrouped ==
  ASSUME NEW v, NEW u, NEW on, Good(v, on), Regroups(v, u), u.cancels = v.cancels
  PROVE  Good(u, on)
BY Regrouped DEF Good, Regroups

SameFinder(v, u) ==
  SameQueue(v, u) /\ SameStates(v, u) /\ SameRest(v, u)

LEMMA FinderUntouched ==
  ASSUME NEW v, NEW u, NEW on, Good(v, on), IsRecord(u), SameFinder(v, u),
         u.members \in [Group -> SUBSET Player], u.made \subseteq Group,
         u.of \in [Player -> Group \cup {None}], u.players \in [Group -> SUBSET Player],
         DOMAIN u.boots \subseteq Group, GroupsRight(u),
         \A g \in Group : v.members[g] = {} /\ u.members[g] # {} => g \notin Places(v),
         \A p \in Player : u.of[p] # v.of[p] => {p, v.of[p], u.of[p]} \cap Places(v) = {}
  PROVE  Good(u, on)
<1>1. v.state \in [Guid -> State] /\ v.old \in [Guid -> OldState]
  BY DEF Good, Settled, Typed
<1>2. Regroups(v, u) /\ u.cancels = v.cancels
  BY <1>1 DEF Regroups, SameFinder, SameQueue, SameStates, SameRest
<1> QED
  BY <1>2, GoodRegrouped

(* The members are set.                                                     *)
WithMembers(v, g, S) == [v EXCEPT !.members[g] = S]

WithMembersIs(v, u, g, S) ==
  /\ IsRecord(u) /\ SameFinder(v, u)
  /\ u.members = [v.members EXCEPT ![g] = S] /\ u.made = v.made /\ u.of = v.of
  /\ u.players = v.players /\ u.boots = v.boots

LEMMA WithMembersDoes ==
  ASSUME NEW v, IsRecord(v), NEW g, NEW S
  PROVE  WithMembersIs(v, WithMembers(v, g, S), g, S)
<1> DEFINE m == [v.members EXCEPT ![g] = S]
           u == [v EXCEPT !.members = m]
<1>1. WithMembers(v, g, S) = u
  BY DEF WithMembers
<1> HIDE DEF m
<1>2. /\ IsRecord(u) /\ SameFinder(v, u)
      /\ u.members = m /\ u.made = v.made /\ u.of = v.of
      /\ u.players = v.players /\ u.boots = v.boots
  BY DEF IsRecord, Fields, SameFinder, SameQueue, SameStates, SameRest
<1> QED
  BY <1>1, <1>2 DEF m, WithMembersIs

LEMMA WithMembersGood ==
  ASSUME NEW v, NEW on, Good(v, on), NEW g \in Group, NEW S \in SUBSET Player, v.players[g] \subseteq S,
         v.members[g] = {} => g \notin Places(v)
  PROVE  Good(WithMembers(v, g, S), on)
<1> DEFINE u == WithMembers(v, g, S)
<1>1. Typed(v) /\ GroupsRight(v) /\ IsRecord(v) /\ v.members \in [Group -> SUBSET Player]
  BY DEF Good, Settled, Typed
<1>2. /\ IsRecord(u) /\ SameFinder(v, u)
      /\ u.members = [v.members EXCEPT ![g] = S] /\ u.made = v.made /\ u.of = v.of
      /\ u.players = v.players /\ u.boots = v.boots
  BY <1>1, WithMembersDoes DEF WithMembersIs
<1> HIDE DEF u
<1>3. u.members \in [Group -> SUBSET Player]
  BY <1>1, <1>2
<1>4. \A h \in Group : u.players[h] \subseteq u.members[h]
  BY <1>1, <1>2 DEF GroupsRight
<1>5. GroupsRight(u)
  BY <1>1, <1>2, <1>4 DEF GroupsRight
<1>6. \A h \in Group : v.members[h] = {} /\ u.members[h] # {} => h \notin Places(v)
  BY <1>1, <1>2
<1>7. Good(u, on)
  BY <1>1, <1>2, <1>3, <1>5, <1>6, FinderUntouched DEF Typed
<1> QED
  BY <1>7 DEF u

(* The groups, whatever the finder does.                                    *)
Book(v) ==
  /\ IsRecord(v) /\ GroupsRight(v)
  /\ v.members \in [Group -> SUBSET Player] /\ v.made \subseteq Group
  /\ v.of \in [Player -> Group \cup {None}] /\ v.players \in [Group -> SUBSET Player]
  /\ DOMAIN v.boots \subseteq Group

LEMMA BookOf ==
  ASSUME NEW v, NEW on, NEW U, Settled(v, on, U)
  PROVE  Book(v)
BY DEF Settled, Typed, Book

(* p comes to be a member of g, for the finder.                             *)
Joined(v, g, p) == [v EXCEPT !.of[p] = g, !.players[g] = @ \cup {p}]

JoinedIs(v, u, g, p) ==
  /\ IsRecord(u) /\ SameFinder(v, u)
  /\ u.members = v.members /\ u.made = v.made /\ u.boots = v.boots
  /\ u.of = [v.of EXCEPT ![p] = g]
  /\ u.players = [v.players EXCEPT ![g] = v.players[g] \cup {p}]

LEMMA JoinedDoes ==
  ASSUME NEW v, IsRecord(v), NEW g, NEW p
  PROVE  JoinedIs(v, Joined(v, g, p), g, p)
<1> DEFINE o == [v.of EXCEPT ![p] = g]
           s == [v.players EXCEPT ![g] = v.players[g] \cup {p}]
           u == [v EXCEPT !.of = o, !.players = s]
<1>1. Joined(v, g, p) = u
  BY DEF Joined, IsRecord, Fields
<1> HIDE DEF o, s
<1>2. /\ IsRecord(u) /\ SameFinder(v, u) /\ u.members = v.members /\ u.made = v.made
      /\ u.of = o /\ u.players = s /\ u.boots = v.boots
  BY DEF IsRecord, Fields, SameFinder, SameQueue, SameStates, SameRest
<1> QED
  BY <1>1, <1>2 DEF o, s, JoinedIs

LEMMA FewPlayers ==
  ASSUME NEW S \in SUBSET Player, NEW p \in Player
  PROVE  /\ IsFiniteSet(S) /\ Cardinality(S) \in Nat /\ Cardinality({}) = 0
         /\ Cardinality(S \cup {p}) <= Cardinality(S) + 1
         /\ Cardinality(S \ {p}) <= Cardinality(S)
<1>1. IsFiniteSet(S)
  BY FS_Subset, FinderAssumption DEF FinderAssumption
<1>2. Cardinality(S) \in Nat /\ Cardinality({}) = 0
  BY <1>1, FS_CardinalityType, FS_EmptySet
<1>3. Cardinality(S \cup {p}) <= Cardinality(S) + 1
  BY <1>1, <1>2, FS_AddElement
<1>4. Cardinality(S \ {p}) <= Cardinality(S)
  BY <1>1, FS_Subset
<1> QED
  BY <1>1, <1>2, <1>3, <1>4

LEMMA BookJoined ==
  ASSUME NEW v, NEW u, Book(v), NEW g \in Group, NEW p \in Player, v.of[p] = None,
         p \in v.members[g], Cardinality(v.players[g]) < Size, JoinedIs(v, u, g, p)
  PROVE  Book(u)
<1>1. /\ GroupsRight(v) /\ v.of \in [Player -> Group \cup {None}]
      /\ v.players \in [Group -> SUBSET Player] /\ v.members \in [Group -> SUBSET Player]
      /\ v.made \subseteq Group /\ DOMAIN v.boots \subseteq Group
  BY DEF Book
<1>2. /\ IsRecord(u) /\ u.members = v.members /\ u.made = v.made /\ u.boots = v.boots
      /\ u.of = [v.of EXCEPT ![p] = g]
      /\ u.players = [v.players EXCEPT ![g] = v.players[g] \cup {p}]
  BY DEF JoinedIs
<1>3. u.of \in [Player -> Group \cup {None}] /\ u.players \in [Group -> SUBSET Player]
  BY <1>1, <1>2
<1>4. \A h \in Group : Cardinality(u.players[h]) <= Size
  <2> TAKE h \in Group
  <2>1. CASE h = g
    <3>1. u.players[h] = v.players[g] \cup {p}
      BY <1>1, <1>2, <2>1
    <3>2. Cardinality(v.players[g]) \in Nat /\ Cardinality(u.players[h]) <= Cardinality(v.players[g]) + 1
      BY <1>1, <3>1, FewPlayers
    <3>3. Cardinality(u.players[h]) \in Nat
      BY <1>3, FewPlayers
    <3> QED
      BY <3>2, <3>3, FinderAssumption DEF FinderAssumption
  <2>2. CASE h # g
    BY <1>1, <1>2, <2>2 DEF GroupsRight
  <2> QED
    BY <2>1, <2>2
<1>5. \A h \in Group : u.players[h] \subseteq u.members[h]
  BY <1>1, <1>2 DEF GroupsRight
<1>6. \A q \in Player, h \in Group : u.of[q] = h <=> q \in u.players[h]
  BY <1>1, <1>2, Names DEF GroupsRight
<1>7. \A h \in DOMAIN u.boots : u.boots[h] \in u.players[h]
  BY <1>1, <1>2 DEF GroupsRight
<1>8. GroupsRight(u)
  BY <1>4, <1>5, <1>6, <1>7 DEF GroupsRight
<1> QED
  BY <1>1, <1>2, <1>3, <1>8 DEF Book

LEMMA MemberJoins ==
  ASSUME NEW v, NEW on, Good(v, on), NEW g \in Group, NEW p \in Player, v.of[p] = None,
         p \in v.members[g], Cardinality(v.players[g]) < Size,
         p \notin Places(v), g \notin Places(v)
  PROVE  Good(Joined(v, g, p), on)
<1> DEFINE u == Joined(v, g, p)
<1>0. Settled(v, on, {})
  BY DEF Good
<1>1. Book(v) /\ IsRecord(v) /\ v.of \in [Player -> Group \cup {None}] /\ Places(v) \subseteq Guid
  BY <1>0, PlacesAre, BookOf DEF Settled, Typed
<1>2. JoinedIs(v, u, g, p)
  BY <1>1, JoinedDoes
<1> HIDE DEF u
<1>3. Book(u)
  BY <1>1, <1>2, BookJoined
<1>4. u.of = [v.of EXCEPT ![p] = g]
  BY <1>2 DEF JoinedIs
<1>5. \A q \in Player : u.of[q] # v.of[q] => {q, v.of[q], u.of[q]} \cap Places(v) = {}
  BY <1>1, <1>4, Names DEF Guid
<1>6. Good(u, on)
  BY <1>2, <1>3, <1>5, FinderUntouched, Zenon DEF JoinedIs, Book
<1> QED
  BY <1>6 DEF u

(* p stops being a member of g, for the finder.                             *)
Parted(v, g, p) == [v EXCEPT !.of[p] = None, !.players[g] = @ \ {p}]

PartedIs(v, u, g, p) ==
  /\ IsRecord(u) /\ SameFinder(v, u)
  /\ u.members = v.members /\ u.made = v.made /\ u.boots = v.boots
  /\ u.of = [v.of EXCEPT ![p] = None]
  /\ u.players = [v.players EXCEPT ![g] = v.players[g] \ {p}]

LEMMA PartedDoes ==
  ASSUME NEW v, IsRecord(v), NEW g, NEW p
  PROVE  PartedIs(v, Parted(v, g, p), g, p)
<1> DEFINE o == [v.of EXCEPT ![p] = None]
           s == [v.players EXCEPT ![g] = v.players[g] \ {p}]
           u == [v EXCEPT !.of = o, !.players = s]
<1>1. Parted(v, g, p) = u
  BY DEF Parted, IsRecord, Fields
<1> HIDE DEF o, s
<1>2. /\ IsRecord(u) /\ SameFinder(v, u) /\ u.members = v.members /\ u.made = v.made
      /\ u.of = o /\ u.players = s /\ u.boots = v.boots
  BY DEF IsRecord, Fields, SameFinder, SameQueue, SameStates, SameRest
<1> QED
  BY <1>1, <1>2 DEF o, s, PartedIs

LEMMA BookParted ==
  ASSUME NEW v, NEW u, Book(v), NEW g \in Group, NEW p \in Player, v.of[p] = g,
         g \in DOMAIN v.boots => v.boots[g] # p, PartedIs(v, u, g, p)
  PROVE  Book(u)
<1>1. /\ GroupsRight(v) /\ v.of \in [Player -> Group \cup {None}]
      /\ v.players \in [Group -> SUBSET Player] /\ v.members \in [Group -> SUBSET Player]
      /\ v.made \subseteq Group /\ DOMAIN v.boots \subseteq Group
  BY DEF Book
<1>2. /\ IsRecord(u) /\ u.members = v.members /\ u.made = v.made /\ u.boots = v.boots
      /\ u.of = [v.of EXCEPT ![p] = None]
      /\ u.players = [v.players EXCEPT ![g] = v.players[g] \ {p}]
  BY DEF PartedIs
<1>3. u.of \in [Player -> Group \cup {None}] /\ u.players \in [Group -> SUBSET Player]
  BY <1>1, <1>2
<1>4. \A h \in Group : Cardinality(u.players[h]) <= Size
  <2> TAKE h \in Group
  <2>1. CASE h = g
    <3>1. u.players[h] = v.players[g] \ {p} /\ Cardinality(v.players[g]) <= Size
      BY <1>1, <1>2, <2>1 DEF GroupsRight
    <3>2. Cardinality(v.players[g]) \in Nat /\ Cardinality(u.players[h]) <= Cardinality(v.players[g])
      BY <1>1, <3>1, FewPlayers
    <3>3. Cardinality(u.players[h]) \in Nat
      BY <1>3, FewPlayers
    <3> QED
      BY <3>1, <3>2, <3>3, FinderAssumption DEF FinderAssumption
  <2>2. CASE h # g
    BY <1>1, <1>2, <2>2 DEF GroupsRight
  <2> QED
    BY <2>1, <2>2
<1>5. \A h \in Group : u.players[h] \subseteq u.members[h]
  BY <1>1, <1>2 DEF GroupsRight
<1>6. \A q \in Player, h \in Group : u.of[q] = h <=> q \in u.players[h]
  BY <1>1, <1>2, Names DEF GroupsRight
<1>7. \A h \in DOMAIN u.boots : u.boots[h] \in u.players[h]
  BY <1>1, <1>2 DEF GroupsRight
<1>8. GroupsRight(u)
  BY <1>4, <1>5, <1>6, <1>7 DEF GroupsRight
<1> QED
  BY <1>1, <1>2, <1>3, <1>8 DEF Book

LEMMA MemberParts ==
  ASSUME NEW v, NEW on, Good(v, on), NEW g \in Group, NEW p \in Player, v.of[p] = g,
         g \notin Places(v), g \in DOMAIN v.boots => v.boots[g] # p
  PROVE  Good(Parted(v, g, p), on)
<1> DEFINE u == Parted(v, g, p)
<1>0. Settled(v, on, {})
  BY DEF Good
<1>1. /\ Book(v) /\ IsRecord(v) /\ v.of \in [Player -> Group \cup {None}]
      /\ Places(v) \subseteq Guid /\ \A y \in Places(v) : UnitOf(v, y) = y
  BY <1>0, PlacesAre, BookOf DEF Settled, Typed
<1>2. PartedIs(v, u, g, p)
  BY <1>1, PartedDoes
<1> HIDE DEF u
<1>3. Book(u)
  BY <1>1, <1>2, BookParted
<1>4. u.of = [v.of EXCEPT ![p] = None]
  BY <1>2 DEF PartedIs
<1>5. \A q \in Player : u.of[q] # v.of[q] => {q, v.of[q], u.of[q]} \cap Places(v) = {}
  <2>1. p \notin Places(v) /\ None \notin Places(v)
    BY <1>1, Names DEF UnitOf, Guid
  <2> QED
    BY <2>1, <1>1, <1>4
<1>6. Good(u, on)
  BY <1>2, <1>3, <1>5, FinderUntouched DEF PartedIs, Book
<1> QED
  BY <1>6 DEF u

(* Votes end.                                                              *)
WithoutBoots(v, B) == [v EXCEPT !.boots = Restrict(@, DOMAIN @ \ B)]

WithoutBootsIs(v, u, B) ==
  /\ IsRecord(u) /\ SameFinder(v, u)
  /\ u.members = v.members /\ u.made = v.made /\ u.of = v.of /\ u.players = v.players
  /\ DOMAIN u.boots = DOMAIN v.boots \ B /\ \A g \in DOMAIN u.boots : u.boots[g] = v.boots[g]

LEMMA WithoutBootsDoes ==
  ASSUME NEW v, IsRecord(v), NEW B
  PROVE  WithoutBootsIs(v, WithoutBoots(v, B), B)
<1> DEFINE b == Restrict(v.boots, DOMAIN v.boots \ B)
           u == [v EXCEPT !.boots = b]
<1>1. WithoutBoots(v, B) = u
  BY DEF WithoutBoots
<1>2. DOMAIN b = DOMAIN v.boots \ B /\ \A g \in DOMAIN b : b[g] = v.boots[g]
  BY DEF Restrict
<1> HIDE DEF b
<1>3. /\ IsRecord(u) /\ SameFinder(v, u) /\ u.members = v.members /\ u.made = v.made
      /\ u.of = v.of /\ u.players = v.players /\ u.boots = b
  BY DEF IsRecord, Fields, SameFinder, SameQueue, SameStates, SameRest
<1> QED
  BY <1>1, <1>2, <1>3 DEF WithoutBootsIs

LEMMA WithoutBootsGood ==
  ASSUME NEW v, NEW on, Good(v, on), NEW B
  PROVE  Good(WithoutBoots(v, B), on)
<1> DEFINE u == WithoutBoots(v, B)
<1>1. Typed(v) /\ GroupsRight(v) /\ IsRecord(v)
  BY DEF Good, Settled, Typed
<1>2. WithoutBootsIs(v, u, B)
  BY <1>1, WithoutBootsDoes
<1> HIDE DEF u
<1>3. GroupsRight(u) /\ DOMAIN u.boots \subseteq Group
  BY <1>1, <1>2 DEF GroupsRight, WithoutBootsIs, Typed
<1>4. Good(u, on)
  BY <1>1, <1>2, <1>3, FinderUntouched DEF WithoutBootsIs, Typed
<1> QED
  BY <1>4 DEF u

(* A group of which nobody is in the finder is gone.                        *)
GroupGone(v, u, g) ==
  /\ OldLess(v, u) /\ u.members = [v.members EXCEPT ![g] = {}]
  /\ u.players = [v.players EXCEPT ![g] = {}]

GroupIsOut(v, u, g) ==
  /\ IsRecord(u)
  /\ u.of = [p \in Player |-> IF p \in v.players[g] THEN None ELSE v.of[p]]
  /\ u.players = [v.players EXCEPT ![g] = {}] /\ u.members = [v.members EXCEPT ![g] = {}]
  /\ u.made = v.made \ {g}
  /\ DOMAIN u.boots = DOMAIN v.boots \ {g} /\ \A h \in DOMAIN u.boots : u.boots[h] = v.boots[h]

DisbandedIs(v, u, g) ==
  /\ GroupIsOut(v, u, g) /\ SameRest(v, u)
  /\ DOMAIN u.data = DOMAIN v.data \ {g} /\ \A y \in DOMAIN u.data : u.data[y] = v.data[y]
  /\ u.new = v.new \ {g} /\ u.current = v.current \ {g} /\ u.rematch = v.rematch \ {g}
  /\ u.state \in [Guid -> State] /\ u.old \in [Guid -> OldState]
  /\ \A y \in Guid : IF y \in v.players[g] \cup {g} THEN u.state[y] = "none" /\ u.old[y] = "none"
                     ELSE u.state[y] = v.state[y] /\ u.old[y] = v.old[y]

LEMMA DisbandDoes ==
  ASSUME NEW v, Typed(v), NEW g \in Group, g \notin DOMAIN v.checks, v.state[g] # "proposal"
  PROVE  DisbandedIs(v, Disband(v, g), g)
<1> DEFINE S == v.players[g]
           T == {g}
           v2 == Withdraw(v, g, S, "none")
           v3 == SetStates(v2, T, "none")
           of == [p \in Player |-> IF p \in v2.players[g] THEN None ELSE v3.of[p]]
           players == [v3.players EXCEPT ![g] = {}]
           members == [v3.members EXCEPT ![g] = {}]
           boots == Restrict(v3.boots, DOMAIN v3.boots \ {g})
           u == [v3 EXCEPT !.of = of, !.players = players, !.members = members,
                           !.made = v3.made \ {g}, !.boots = boots]
<1>1. IsRecord(v) /\ v.state \in [Guid -> State] /\ v.old \in [Guid -> OldState]
      /\ "none" \in OldState
  BY DEF Typed, OldState
<1>2. /\ IsRecord(v2) /\ SameGroups(v, v2) /\ SameRest(v, v2)
      /\ v2.state = Become(v.state, S, "none") /\ v2.old = Become(v.old, S, "none")
      /\ DOMAIN v2.data = DOMAIN v.data \ {g}
      /\ \A y \in DOMAIN v2.data : v2.data[y] = v.data[y]
      /\ v2.new = v.new \ {g} /\ v2.current = v.current \ {g} /\ v2.rematch = v.rematch \ {g}
  BY <1>1, UnitRemovedDoes
<1>3. Disband(v, g) = u
  <2>1. FailRoleCheck(v, g) = v
    BY DEF FailRoleCheck
  <2> HIDE DEF v2
  <2>2. IsRecord(v3)
    BY <1>2, SetStatesDoes
  <2>3. Disband(v, g) = [v3 EXCEPT
        !.of = [p \in Player |-> IF p \in v2.players[g] THEN None ELSE @[p]],
        !.players[g] = {}, !.members[g] = {}, !.made = @ \ {g},
        !.boots = Restrict(@, DOMAIN @ \ {g})]
    BY <2>1, Zenon DEF Disband, Withdraw, v2
  <2> HIDE DEF v3
  <2> QED
    BY <2>2, <2>3 DEF IsRecord, Fields
<1> HIDE DEF v2
<1>4. /\ IsRecord(v3) /\ SameGroups(v2, v3) /\ SameQueue(v2, v3) /\ SameRest(v2, v3)
      /\ v3.state = [y \in Guid |-> IF y \in T THEN "none" ELSE v2.state[y]]
      /\ v3.old = [y \in Guid |-> IF y \in T /\ "none" \in OldState THEN "none" ELSE v2.old[y]]
  BY <1>2, SetStatesDoes
<1> HIDE DEF v3
<1>5. /\ of = [p \in Player |-> IF p \in v.players[g] THEN None ELSE v.of[p]]
      /\ players = [v.players EXCEPT ![g] = {}] /\ members = [v.members EXCEPT ![g] = {}]
  BY <1>2, <1>4 DEF SameGroups
<1>6. DOMAIN boots = DOMAIN v.boots \ {g} /\ \A h \in DOMAIN boots : boots[h] = v.boots[h]
  BY <1>2, <1>4 DEF SameGroups, Restrict
<1> HIDE DEF of, players, members, boots
<1>7. /\ IsRecord(u) /\ SameRest(v3, u) /\ SameQueue(v3, u) /\ SameStates(v3, u)
      /\ u.of = of /\ u.players = players /\ u.members = members /\ u.made = v3.made \ {g}
      /\ u.boots = boots
  BY <1>4 DEF IsRecord, Fields, SameQueue, SameStates, SameRest
<1> HIDE DEF u
<1>8. u.made = v.made \ {g}
  BY <1>2, <1>4, <1>7 DEF SameGroups
<1>9. SameRest(v, u)
  BY <1>2, <1>4, <1>7 DEF SameRest
<1>10. /\ DOMAIN u.data = DOMAIN v.data \ {g} /\ \A y \in DOMAIN u.data : u.data[y] = v.data[y]
       /\ u.new = v.new \ {g} /\ u.current = v.current \ {g} /\ u.rematch = v.rematch \ {g}
  BY <1>2, <1>4, <1>7 DEF SameQueue
<1>11. /\ u.state = [y \in Guid |-> IF y \in T THEN "none" ELSE v2.state[y]]
       /\ u.old = [y \in Guid |-> IF y \in T THEN "none" ELSE v2.old[y]]
  BY <1>1, <1>4, <1>7 DEF SameStates
<1>12. \A y \in Guid : IF y \in S \cup {g} THEN u.state[y] = "none" /\ u.old[y] = "none"
                       ELSE u.state[y] = v.state[y] /\ u.old[y] = v.old[y]
  BY <1>2, <1>11 DEF Become
<1>13. u.state \in [Guid -> State] /\ u.old \in [Guid -> OldState]
  BY <1>1, <1>2, <1>11 DEF Become, State, OldState
<1>14. DisbandedIs(v, u, g)
  BY <1>5, <1>6, <1>7, <1>8, <1>9, <1>10, <1>12, <1>13 DEF DisbandedIs, GroupIsOut
<1> QED
  BY <1>3, <1>14

LEMMA BookOut ==
  ASSUME NEW v, NEW u, Book(v), NEW g \in Group, GroupIsOut(v, u, g)
  PROVE  Book(u)
<1>1. /\ GroupsRight(v) /\ v.of \in [Player -> Group \cup {None}]
      /\ v.players \in [Group -> SUBSET Player] /\ v.members \in [Group -> SUBSET Player]
      /\ v.made \subseteq Group /\ DOMAIN v.boots \subseteq Group
  BY DEF Book
<1>2. /\ u.of = [p \in Player |-> IF p \in v.players[g] THEN None ELSE v.of[p]]
      /\ u.players = [v.players EXCEPT ![g] = {}] /\ u.members = [v.members EXCEPT ![g] = {}]
      /\ u.made = v.made \ {g} /\ IsRecord(u)
      /\ DOMAIN u.boots = DOMAIN v.boots \ {g} /\ \A h \in DOMAIN u.boots : u.boots[h] = v.boots[h]
  BY DEF GroupIsOut
<1>3. \A h \in Group : u.players[h] \subseteq u.members[h] /\ Cardinality(u.players[h]) <= Size
  <2> TAKE h \in Group
  <2>1. Cardinality({}) = 0
    BY FS_EmptySet
  <2> QED
    BY <1>1, <1>2, <2>1, FinderAssumption DEF GroupsRight, FinderAssumption
<1>4. \A q \in Player, h \in Group : u.of[q] = h <=> q \in u.players[h]
  BY <1>1, <1>2, Names DEF GroupsRight
<1>5. \A h \in DOMAIN u.boots : u.boots[h] \in u.players[h]
  BY <1>1, <1>2 DEF GroupsRight
<1>6. GroupsRight(u)
  BY <1>3, <1>4, <1>5 DEF GroupsRight
<1> QED
  BY <1>1, <1>2, <1>6 DEF Book

LEMMA DisbandedGood ==
  ASSUME NEW v, NEW on, Good(v, on), NEW g \in Group, g \notin Places(v), NEW u, DisbandedIs(v, u, g)
  PROVE  Good(u, on) /\ GroupGone(v, u, g)
<1> DEFINE S == v.players[g]
<1>1. /\ Typed(v) /\ GroupsRight(v) /\ IsRecord(v) /\ v.members \in [Group -> SUBSET Player]
      /\ v.of \in [Player -> Group \cup {None}] /\ v.players \in [Group -> SUBSET Player]
      /\ Places(v) \subseteq Guid /\ (\A y \in Places(v) : UnitOf(v, y) = y)
      /\ EntriesRight(v, on) /\ g \in Guid
  <2>1. Settled(v, on, {})
    BY DEF Good
  <2> QED
    BY <2>1, PlacesAre, Names DEF Settled, Typed
<1>2. UnitOf(v, g) = g /\ S \subseteq Player /\ \A y \in Guid : y \in S \cup {g} <=> UnitOf(v, y) = g
  <2>1. UnitOf(v, g) = g /\ v.players[g] \subseteq Player /\ v.players[g] \cup {g} = Unit(v, g)
    BY <1>1, GroupUnit
  <2> QED
    BY <2>1 DEF Unit
<1>3. g \notin DOMAIN v.data \cup DOMAIN v.checks \cup v.new \cup v.current
  <2>1. v.new \cup v.current \subseteq DOMAIN v.data
    BY <1>1 DEF EntriesRight
  <2> QED
    BY <2>1 DEF Places
<1>4. DisbandedIs(v, u, g)
  OBVIOUS
<1> HIDE DEF S
<1>5. /\ IsRecord(u) /\ SameRest(v, u)
      /\ DOMAIN u.data = DOMAIN v.data /\ (\A y \in DOMAIN v.data : u.data[y] = v.data[y])
      /\ u.new = v.new /\ u.current = v.current /\ v.rematch \cap v.current \subseteq u.rematch
  BY <1>3, <1>4 DEF DisbandedIs, GroupIsOut
<1>6. /\ u.state \in [Guid -> State] /\ u.old \in [Guid -> OldState]
      /\ \A y \in Guid : IF UnitOf(v, y) = g THEN u.state[y] = "none" /\ u.old[y] = "none"
                         ELSE u.state[y] = v.state[y] /\ u.old[y] = v.old[y]
  BY <1>2, <1>4 DEF DisbandedIs, S
<1>7. /\ u.of = [p \in Player |-> IF p \in S THEN None ELSE v.of[p]]
      /\ u.players = [v.players EXCEPT ![g] = {}] /\ u.members = [v.members EXCEPT ![g] = {}]
      /\ u.made = v.made \ {g}
      /\ DOMAIN u.boots = DOMAIN v.boots \ {g} /\ \A h \in DOMAIN u.boots : u.boots[h] = v.boots[h]
  BY <1>4 DEF DisbandedIs, GroupIsOut, S
<1>8. /\ u.of \in [Player -> Group \cup {None}] /\ u.players \in [Group -> SUBSET Player]
      /\ u.members \in [Group -> SUBSET Player] /\ u.made \subseteq Group /\ DOMAIN u.boots \subseteq Group
  BY <1>1, <1>7 DEF Typed
<1>9. \A q \in Player : q \in S => q \notin Places(v) /\ UnitOf(v, q) = g
  BY <1>1, <1>2, Names
<1>10. \A q \in Player : u.of[q] # v.of[q] => {q, v.of[q], u.of[q]} \cap Places(v) = {}
  <2> TAKE q \in Player
  <2>1. CASE q \in S
    <3>1. v.of[q] = g /\ u.of[q] = None /\ None \notin Places(v)
      BY <1>1, <1>7, <2>1, Names DEF GroupsRight, S, Guid
    <3> QED
      BY <1>9, <2>1, <3>1
  <2>2. CASE q \notin S
    BY <1>7, <2>2
  <2> QED
    BY <2>1, <2>2
<1>11. GroupsRight(u)
  <2>1. Book(v) /\ GroupIsOut(v, u, g)
    BY <1>4, BookOf DEF Good, DisbandedIs
  <2> QED
    BY <2>1, BookOut DEF Book
<1>12. ASSUME NEW y \in Guid
       PROVE  \/ u.state[y] = v.state[y] /\ u.old[y] = v.old[y]
              \/ /\ u.state[y] \in OldState /\ u.state[y] = u.old[y]
                 /\ {UnitOf(v, y), UnitOf(u, y)} \cap Places(v) = {}
  <2>1. CASE UnitOf(v, y) # g
    BY <1>6, <2>1
  <2>2. CASE UnitOf(v, y) = g
    <3>1. UnitOf(u, y) \in {g, y}
      <4>1. y \in S \cup {g}
        BY <1>2, <2>2
      <4>2. CASE y = g
        BY <4>2 DEF UnitOf
      <4>3. CASE y \in S
        BY <1>2, <1>7, <4>3, Names DEF UnitOf
      <4> QED
        BY <4>1, <4>2, <4>3
    <3>2. y \notin Places(v)
      BY <1>1, <2>2
    <3> QED
      BY <1>6, <2>2, <3>1, <3>2 DEF OldState
  <2> QED
    BY <2>1, <2>2
<1>a. \A h \in Group : ~ (v.members[h] = {} /\ u.members[h] # {})
  BY <1>1, <1>7
<1>13. Regroups(v, u) /\ u.cancels = v.cancels
  BY <1>5, <1>6, <1>8, <1>10, <1>11, <1>12, <1>a DEF Regroups, SameRest
<1>14. Good(u, on)
  BY <1>13, GoodRegrouped
<1>15. GroupGone(v, u, g)
  BY <1>6, <1>7 DEF GroupGone, OldLess
<1> QED
  BY <1>14, <1>15

LEMMA DisbandGood ==
  ASSUME NEW v, NEW on, Good(v, on), NEW g \in Group, g \notin Places(v)
  PROVE  Good(Disband(v, g), on) /\ GroupGone(v, Disband(v, g), g)
<1>1. g \in Guid /\ UnitOf(v, g) = g
  BY Names DEF UnitOf
<1>2. Typed(v) /\ v.state[g] # "proposal" /\ g \notin DOMAIN v.checks
  <2>1. UnitOf(v, g) \notin Places(v) => v.state[g] \in OldState
    BY <1>1, Reaches
  <2> QED
    BY <1>1, <2>1 DEF OldState, Places, Good, Settled
<1>3. DisbandedIs(v, Disband(v, g), g)
  BY <1>2, DisbandDoes
<1> QED
  BY <1>3, DisbandedGood

(* Who leaves the finder leaves its places to the others.                   *)
LEMMA StayAway ==
  ASSUME NEW v, NEW on, Good(v, on), NEW x \in Guid, x \in Player \/ v.members[x] # {},
         NEW disconnected \in BOOLEAN,
         NEW y, y \notin Places(v)
  PROVE  y \notin Places(LeaveLfg(v, x, disconnected))
BY Leaves DEF Left

-----------------------------------------------------------------------------
(* A player without a group joins one, other than by a proposal.            *)

LeaveIf(v, x, c) == IF c THEN LeaveLfg(v, x, FALSE) ELSE v

LEMMA MayLeave ==
  ASSUME NEW v, NEW on, Good(v, on), NEW x \in Guid, x \in Player \/ v.members[x] # {}, NEW c
  PROVE  LET u == LeaveIf(v, x, c)
         IN Kept(v, u, on) /\ Places(u) \subseteq Places(v) /\ (c => UnitOf(v, x) \notin Places(u))
<1>1. CASE c
  <2>1. LeaveIf(v, x, c) = LeaveLfg(v, x, FALSE)
    BY <1>1 DEF LeaveIf
  <2> DEFINE u == LeaveLfg(v, x, FALSE)
  <2>2. Good(u, on) /\ Left(v, u, x)
    BY Leaves
  <2> HIDE DEF u
  <2>3. QED
    BY <2>1, <2>2 DEF Left, Kept, u
<1>2. CASE ~ c
  <2>1. LeaveIf(v, x, c) = v
    BY <1>2 DEF LeaveIf
  <2>2. Kept(v, v, on)
    BY DEF Kept, OldKept, SameGroups
  <2>3. QED
    BY <2>1, <2>2, <1>2
<1>3. QED
  BY <1>1, <1>2

(* What AddMember leaves of v.                                              *)
Added(v, u, g, p) ==
  /\ u.members = [v.members EXCEPT ![g] = v.members[g] \cup {p}]
  /\ u.players = [v.players EXCEPT ![g] = v.players[g] \cup {p}]
  /\ u.of = [v.of EXCEPT ![p] = g] /\ OldKept(v, u)

LEMMA MemberAdded ==
  ASSUME NEW v, NEW on, Good(v, on), NEW g \in Group, NEW p \in Player, v.of[p] = None,
         Cardinality(v.players[g]) < Size, v.members[g] = {} => g \notin Places(v)
  PROVE  Good(AddMember(v, g, p, FALSE), on) /\ Added(v, AddMember(v, g, p, FALSE), g, p)
<1>1. Typed(v) /\ GroupsRight(v)
  BY DEF Good, Settled
<1> DEFINE S == v.members[g] \cup {p}
<1>2. S \in SUBSET Player /\ v.players[g] \subseteq S
  BY <1>1 DEF Typed, GroupsRight
<1> DEFINE v0 == WithMembers(v, g, S)
<1>3. Good(v0, on)
  <2> HIDE DEF S
  <2> QED
    BY <1>2, WithMembersGood
<1>4. /\ IsRecord(v0) /\ SameFinder(v, v0)
      /\ v0.members = [v.members EXCEPT ![g] = S] /\ v0.made = v.made /\ v0.of = v.of
      /\ v0.players = v.players /\ v0.boots = v.boots
  <2> HIDE DEF S
  <2>1. WithMembersIs(v, v0, g, S)
    BY <1>1, WithMembersDoes DEF Typed
  <2> HIDE DEF v0
  <2> QED
    BY <2>1 DEF WithMembersIs
<1> DEFINE c == v0.state[p] \in {"queued", "proposal"}
           d == \/ v0.state[g] = "queued"
                \/ v0.state[g] \in {"rolecheck", "proposal"} /\ ~ FALSE
           v1 == LeaveIf(v0, p, c)
           v2 == LeaveIf(v1, g, d)
<1>5. AddMember(v, g, p, FALSE) = Joined(v2, g, p)
  BY DEF AddMember, OnAddMember, Joined, LeaveIf, WithMembers
<1>6. g \in Guid /\ p \in Guid
  BY Names
<1> HIDE DEF v0
<1>7. Kept(v0, v1, on) /\ Places(v1) \subseteq Places(v0) /\ (c => UnitOf(v0, p) \notin Places(v1))
  <2> HIDE DEF c
  <2> QED
    BY <1>3, <1>6, MayLeave
<1> HIDE DEF v1
<1>8. Good(v1, on) /\ SameGroups(v0, v1) /\ OldKept(v0, v1) /\ v1.members[g] # {}
  <2>1. v0.members[g] # {}
    BY <1>1, <1>4 DEF Typed
  <2> QED
    BY <2>1, <1>7 DEF Kept, SameGroups
<1>9. Kept(v1, v2, on) /\ Places(v2) \subseteq Places(v1) /\ (d => UnitOf(v1, g) \notin Places(v2))
  <2> HIDE DEF d
  <2> QED
    BY <1>8, <1>6, MayLeave
<1> HIDE DEF v2
<1>10. Good(v2, on) /\ SameGroups(v1, v2) /\ OldKept(v1, v2)
  BY <1>9 DEF Kept
<1>11. UnitOf(v0, p) = p /\ UnitOf(v1, g) = g /\ UnitOf(v0, g) = g
  BY <1>4 DEF UnitOf
<1>12. p \notin Places(v2)
  <2>1. CASE c
    BY <2>1, <1>7, <1>9, <1>11
  <2>2. CASE ~ c
    <3>1. v0.state[p] # "rolecheck"
      <4>1. p \notin DOMAIN v0.checks
        BY <1>3, Names DEF Good, Settled, EntriesRight
      <4> QED
        BY <4>1, <1>3, <1>6, <1>11, Reaches
    <3>2. v0.state[p] \in State
      <4>1. Typed(v0)
        BY <1>3 DEF Good, Settled
      <4> QED
        BY <4>1, <1>6 DEF Typed
    <3>3. v0.state[p] \in OldState
      BY <3>1, <3>2, <2>2 DEF State, OldState
    <3>4. p \notin Places(v0)
      <4>1. UnitOf(v0, p) \notin Places(v0)
        BY <3>3, <1>3, <1>6, Reaches
      <4> QED
        BY <4>1, <1>11
    <3> QED
      BY <3>4, <1>7, <1>9
  <2>3. QED
    BY <2>1, <2>2
<1>13. g \notin Places(v2)
  <2>1. CASE d
    BY <2>1, <1>9, <1>11
  <2>2. CASE ~ d
    <3>2. v0.state[g] \in State
      <4>1. Typed(v0)
        BY <1>3 DEF Good, Settled
      <4> QED
        BY <4>1, <1>6 DEF Typed
    <3>3. v0.state[g] \in OldState
      BY <3>2, <2>2 DEF State, OldState
    <3>4. g \notin Places(v0)
      <4>0. v0.members[g] # {}
        BY <1>1, <1>4 DEF Typed
      <4>1. UnitOf(v0, g) \notin Places(v0)
        BY <4>0, <3>3, <1>3, <1>6, Reaches
      <4> QED
        BY <4>1, <1>11
    <3> QED
      BY <3>4, <1>7, <1>9
  <2>3. QED
    BY <2>1, <2>2
<1> HIDE DEF c, d
<1>14. v2.of = v.of /\ v2.players = v.players /\ v2.members = v0.members
  BY <1>4, <1>8, <1>10 DEF SameGroups
<1>15. p \in v2.members[g]
  BY <1>14, <1>4, <1>1 DEF Typed
<1>16. Good(Joined(v2, g, p), on)
  BY <1>10, <1>12, <1>13, <1>14, <1>15, MemberJoins
<1>17. JoinedIs(v2, Joined(v2, g, p), g, p)
  BY <1>10, JoinedDoes DEF Good, Settled, Typed
<1>18. OldKept(v, Joined(v2, g, p))
  <2>1. Typed(v0)
    BY <1>3 DEF Good, Settled
  <2>2. OldKept(v0, v2)
    BY <2>1, <1>8, <1>10, KeptTwice
  <2>3. \A y : UnitOf(v0, y) = UnitOf(v, y)
    BY <1>4 DEF UnitOf
  <2> DEFINE u == Joined(v2, g, p)
  <2>4. u.old = v2.old
    BY <1>17 DEF JoinedIs, SameFinder, SameStates
  <2>5. v0.old = v.old
    BY <1>4 DEF SameFinder, SameStates
  <2> HIDE DEF u
  <2>6. OldKept(v, u)
    BY <2>2, <2>3, <2>4, <2>5 DEF OldKept
  <2> QED
    BY <2>6 DEF u
<1>19. Added(v, Joined(v2, g, p), g, p)
  <2> DEFINE u == Joined(v2, g, p)
  <2>1. JoinedIs(v2, u, g, p) /\ OldKept(v, u)
    BY <1>17, <1>18
  <2> HIDE DEF u
  <2>2. u.members = v0.members /\ u.of = [v.of EXCEPT ![p] = g]
        /\ u.players = [v.players EXCEPT ![g] = v.players[g] \cup {p}]
    BY <2>1, <1>14 DEF JoinedIs
  <2>3. Added(v, u, g, p)
    BY <2>1, <2>2, <1>4 DEF Added
  <2> QED
    BY <2>3 DEF u
<1> QED
  BY <1>5, <1>16, <1>19

(* A member leaves his group, other than for a proposal.                    *)
MemberLeft(v, u, g, p) ==
  /\ OldKept(v, u) /\ g \notin Places(u) /\ u.members = v.members
  /\ u.players = [v.players EXCEPT ![g] = v.players[g] \ {p}]

(* The votes about p end.                                                   *)
BootsOf(v, g, p) == {h \in {g} : g \in DOMAIN v.boots /\ v.boots[g] = p}
Unvoted(v, g, p) ==
  IF g \in DOMAIN v.boots /\ v.boots[g] = p THEN WithoutBoots(v, BootsOf(v, g, p)) ELSE v

LEMMA VotesEnd ==
  ASSUME NEW v, NEW on, Good(v, on), NEW g, NEW p
  PROVE  LET u == Unvoted(v, g, p)
         IN /\ Good(u, on) /\ SameFinder(v, u)
            /\ u.members = v.members /\ u.players = v.players /\ u.of = v.of
            /\ g \in DOMAIN u.boots => u.boots[g] # p
<1>1. CASE g \in DOMAIN v.boots /\ v.boots[g] = p
  <2> DEFINE B == BootsOf(v, g, p)
             u == WithoutBoots(v, B)
  <2>1. Unvoted(v, g, p) = u
    BY <1>1 DEF Unvoted
  <2>2. g \in B
    BY <1>1 DEF BootsOf
  <2> HIDE DEF B
  <2>3. Good(u, on)
    BY WithoutBootsGood
  <2>4. WithoutBootsIs(v, u, B)
    BY WithoutBootsDoes DEF Good, Settled, Typed
  <2> HIDE DEF u
  <2> QED
    BY <2>1, <2>2, <2>3, <2>4 DEF WithoutBootsIs
<1>2. CASE ~ (g \in DOMAIN v.boots /\ v.boots[g] = p)
  <2>1. Unvoted(v, g, p) = v
    BY <1>2 DEF Unvoted
  <2>2. SameFinder(v, v)
    BY DEF SameFinder, SameQueue, SameStates, SameRest
  <2> QED
    BY <2>1, <2>2, <1>2
<1> QED
  BY <1>1, <1>2

LEMMA MemberLeaves ==
  ASSUME NEW v, NEW on, Good(v, on), NEW g \in Group, NEW p \in Player, v.of[p] = g,
         NEW method, method # "default"
  PROVE  LET u == OnRemoveMember(v, g, p, method)
         IN Good(u, on) /\ MemberLeft(v, u, g, p)
<1> DEFINE v1 == Unvoted(v, g, p)
           v2 == LeaveLfg(v1, p, FALSE)
           d  == v2.state[p] \in {"dungeon", "finished"}
           v3 == LeaveIf(v2, p, d)
<1>1. OnRemoveMember(v, g, p, method) = Parted(v3, g, p)
  <2>1. v1 = IF g \in DOMAIN v.boots /\ v.boots[g] = p
             THEN [v EXCEPT !.boots = Restrict(@, DOMAIN @ \ {g})] ELSE v
    BY DEF Unvoted, WithoutBoots, BootsOf
  <2> HIDE DEF v1
  <2> QED
    BY <2>1 DEF OnRemoveMember, Parted, LeaveIf
<1>2. /\ Good(v1, on) /\ SameFinder(v, v1)
      /\ v1.members = v.members /\ v1.players = v.players /\ v1.of = v.of
      /\ g \in DOMAIN v1.boots => v1.boots[g] # p
  BY VotesEnd
<1>3. p \in Guid /\ g \in Guid
  BY Names
<1> HIDE DEF v1
<1>4. Good(v2, on) /\ Left(v1, v2, p)
  BY <1>2, <1>3, Leaves
<1> HIDE DEF v2
<1>5. Kept(v2, v3, on) /\ Places(v3) \subseteq Places(v2)
  <2> HIDE DEF d
  <2> QED
    BY <1>4, <1>3, MayLeave
<1> HIDE DEF v3
<1>6. SameGroups(v1, v2) /\ OldKept(v1, v2) /\ SameGroups(v2, v3) /\ OldKept(v2, v3) /\ Good(v3, on)
  BY <1>4, <1>5 DEF Left, Kept
<1>7. UnitOf(v1, p) = g
  BY <1>2, Names DEF UnitOf
<1>8. g \notin Places(v3)
  BY <1>4, <1>5, <1>7 DEF Left
<1>9. v3.of = v.of /\ v3.players = v.players /\ v3.members = v.members /\ v3.boots = v1.boots
  BY <1>2, <1>6 DEF SameGroups
<1>10. Good(Parted(v3, g, p), on)
  BY <1>6, <1>8, <1>9, <1>2, MemberParts
<1>11. PartedIs(v3, Parted(v3, g, p), g, p)
  BY <1>6, PartedDoes DEF Good, Settled, Typed
<1> DEFINE u == Parted(v3, g, p)
<1>12. MemberLeft(v, u, g, p)
  <2>1. PartedIs(v3, u, g, p)
    BY <1>11
  <2> HIDE DEF u
  <2>2. Typed(v1)
    BY <1>2 DEF Good, Settled
  <2>3. OldKept(v1, v3)
    BY <2>2, <1>6, KeptTwice
  <2>4. \A y : UnitOf(v1, y) = UnitOf(v, y)
    BY <1>2 DEF UnitOf
  <2>5. u.old = v3.old /\ SameQueue(v3, u) /\ SameRest(v3, u)
    BY <2>1 DEF PartedIs, SameFinder, SameStates
  <2>6. v1.old = v.old
    BY <1>2 DEF SameFinder, SameStates
  <2>7. OldKept(v, u)
    BY <2>3, <2>4, <2>5, <2>6 DEF OldKept
  <2>8. Places(u) = Places(v3)
    <3>1. Settled(v3, on, {}) /\ v3.of \in [Player -> Group \cup {None}]
      BY <1>6 DEF Good, Settled, Typed
    <3>2. u.of = [v3.of EXCEPT ![p] = None]
      BY <2>1 DEF PartedIs
    <3>3. u.of \in [Player -> Group \cup {None}]
      BY <3>1, <3>2
    <3>4. \A q \in Player : u.of[q] # v3.of[q] => q = p
      BY <3>1, <3>2
    <3>5. UnitOf(v3, p) = g
      BY <1>9, Names DEF UnitOf
    <3> QED
      BY <2>5, <3>1, <3>3, <3>4, <3>5, <1>8, SamePlaces DEF SameQueue, SameRest
  <2> QED
    BY <2>1, <2>7, <2>8, <1>8, <1>9 DEF MemberLeft, PartedIs
<1> QED
  BY <1>1, <1>10, <1>12

(* A member who is removed is gone, or the whole group is.                  *)
LEMMA MemberRemoved ==
  ASSUME NEW v, NEW on, Good(v, on), v.members = v.players, NEW g \in Group, NEW p \in Player,
         v.of[p] = g, NEW method, method # "default", NEW inside
  PROVE  LET u == RemoveMember(v, g, p, method, inside)
         IN Good(u, on) /\ u.members = u.players /\ OldKept(v, u)
<1> DEFINE v1 == OnRemoveMember(v, g, p, method)
           rest == v.members[g] \ {p}
           v2 == WithMembers(v1, g, rest)
<1>1. \/ RemoveMember(v, g, p, method, inside) = Disband(v1, g)
      \/ RemoveMember(v, g, p, method, inside) = Disband(v2, g)
      \/ RemoveMember(v, g, p, method, inside) = v2
  BY DEF RemoveMember, WithMembers
<1>2. Good(v1, on) /\ MemberLeft(v, v1, g, p)
  BY MemberLeaves
<1> HIDE DEF v1
<1>3. Typed(v1) /\ Typed(v)
  BY <1>2 DEF Good, Settled
<1>4. /\ v1.members = v.members /\ v1.players = [v.players EXCEPT ![g] = rest]
      /\ OldKept(v, v1) /\ g \notin Places(v1)
  BY <1>2, <1>3 DEF MemberLeft, Typed
<1>5. rest \in SUBSET Player /\ v1.players[g] \subseteq rest /\ v1.members[g] # {}
  <2>1. p \in v.players[g] /\ p \in v.members[g]
    BY DEF Good, Settled, GroupsRight
  <2> QED
    BY <2>1, <1>3, <1>4 DEF Typed
<1>6. Good(v2, on)
  <2> HIDE DEF rest
  <2> QED
    BY <1>2, <1>5, WithMembersGood
<1>7. /\ IsRecord(v2) /\ SameFinder(v1, v2)
      /\ v2.members = [v1.members EXCEPT ![g] = rest] /\ v2.made = v1.made /\ v2.of = v1.of
      /\ v2.players = v1.players /\ v2.boots = v1.boots
  <2>1. IsRecord(v1)
    BY <1>3 DEF Typed
  <2> HIDE DEF rest
  <2>2. WithMembersIs(v1, v2, g, rest)
    BY <2>1, WithMembersDoes
  <2> HIDE DEF v2
  <2> QED
    BY <2>2 DEF WithMembersIs
<1> HIDE DEF v2
<1>8. v2.members = v2.players
  BY <1>4, <1>7
<1>9. OldKept(v, v2) /\ g \notin Places(v2)
  <2>1. Offered(v2, TRUE) = Offered(v1, TRUE)
    BY <1>7 DEF SameFinder, SameRest, Offered, UnitsIn, UnitOf
  <2> QED
    BY <2>1, <1>4, <1>7 DEF SameFinder, SameQueue, SameStates, SameRest, OldKept, Places
<1>10. ASSUME NEW t, Good(t, on), g \notin Places(t), OldKept(v, t),
              [t.members EXCEPT ![g] = {}] = [t.players EXCEPT ![g] = {}]
       PROVE  LET u == Disband(t, g)
              IN Good(u, on) /\ u.members = u.players /\ OldKept(v, u)
  <2> DEFINE u == Disband(t, g)
  <2>1. Good(u, on) /\ GroupGone(t, u, g)
    BY <1>10, DisbandGood
  <2> HIDE DEF u
  <2>2. u.members = u.players /\ OldLess(t, u)
    BY <2>1, <1>10 DEF GroupGone
  <2>3. OldKept(v, u)
    BY <2>2, <1>10, OldKeptLess
  <2> QED
    BY <2>1, <2>2, <2>3 DEF u
<1>11. [v1.members EXCEPT ![g] = {}] = [v1.players EXCEPT ![g] = {}]
  BY <1>4, <1>3 DEF Typed
<1>12. [v2.members EXCEPT ![g] = {}] = [v2.players EXCEPT ![g] = {}]
  BY <1>8
<1>13. /\ Good(Disband(v1, g), on) /\ Disband(v1, g).members = Disband(v1, g).players
       /\ OldKept(v, Disband(v1, g))
  BY <1>2, <1>4, <1>11, <1>10
<1>14. /\ Good(Disband(v2, g), on) /\ Disband(v2, g).members = Disband(v2, g).players
       /\ OldKept(v, Disband(v2, g))
  BY <1>6, <1>9, <1>12, <1>10
<1> QED
  BY <1>1, <1>6, <1>8, <1>9, <1>13, <1>14

-----------------------------------------------------------------------------
(* Packets to the groups.                                                   *)

Did(on) == phase = "sessions" /\ UNCHANGED <<phase, online>> /\ Done(w', on)

LEMMA PacketDone ==
  ASSUME NEW v, NEW on, Packet(v), Done(v, on)
  PROVE  Did(on)
BY DEF Packet, Did

LEMMA MembersAre ==
  ASSUME IInv, phase = "sessions", NEW g \in Group, NEW p \in w.members[g]
  PROVE  p \in Player /\ w.of[p] = g
<1>1. w.members = w.players /\ Typed(w) /\ GroupsRight(w)
  BY SessionsMean
<1> QED
  BY <1>1 DEF Typed, GroupsRight

LEMMA RemovalDone ==
  ASSUME IInv, phase = "sessions", NEW g \in Group, NEW p \in Player, w.of[p] = g,
         NEW method, method # "default", NEW inside
  PROVE  Done(RemoveMember(w, g, p, method, inside), online)
<1> DEFINE u == RemoveMember(w, g, p, method, inside)
<1>1. Good(w, online) /\ w.members = w.players
  BY SessionsMean
<1>2. Good(u, online) /\ u.members = u.players /\ OldKept(w, u)
  BY <1>1, MemberRemoved
<1> HIDE DEF u
<1>3. Done(u, online)
  BY <1>2 DEF Done
<1> QED
  BY <1>3 DEF u

LEMMA LeaveKeeps ==
  ASSUME IInv, NEW p \in Player, Leave(p)
  PROVE  Did(online)
<1> DEFINE g == GroupOf(w, p)
<1>1. PICK inside \in BOOLEAN : Packet(RemoveMember(w, g, p, "leave", inside))
  BY DEF Leave
<1>2. phase = "sessions" /\ g # None
  BY <1>1 DEF Packet, Leave
<1>3. g = w.of[p] /\ g \in Group
  BY <1>2, SessionsMean DEF Typed
<1> HIDE DEF g
<1>4. Done(RemoveMember(w, g, p, "leave", inside), online)
  BY <1>2, <1>3, RemovalDone
<1> QED
  BY <1>1, <1>4, PacketDone

(* A vote about q begins.                                                   *)
Voted(v, g, q) ==
  [v EXCEPT !.boots = [x \in DOMAIN @ \cup {g} |-> IF x = g THEN q ELSE @[x]]]

VotedIs(v, u, g, q) ==
  /\ IsRecord(u) /\ SameFinder(v, u)
  /\ u.members = v.members /\ u.made = v.made /\ u.of = v.of /\ u.players = v.players
  /\ DOMAIN u.boots = DOMAIN v.boots \cup {g}
  /\ \A x \in DOMAIN u.boots : u.boots[x] = IF x = g THEN q ELSE v.boots[x]

LEMMA VoteDoes ==
  ASSUME NEW v, IsRecord(v), NEW g, NEW q
  PROVE  VotedIs(v, Voted(v, g, q), g, q)
<1> DEFINE b == [x \in DOMAIN v.boots \cup {g} |-> IF x = g THEN q ELSE v.boots[x]]
           u == [v EXCEPT !.boots = b]
<1>1. Voted(v, g, q) = u
  BY DEF Voted
<1>2. /\ DOMAIN b = DOMAIN v.boots \cup {g}
      /\ \A x \in DOMAIN b : b[x] = IF x = g THEN q ELSE v.boots[x]
  OBVIOUS
<1> HIDE DEF b
<1>3. /\ IsRecord(u) /\ SameFinder(v, u)
      /\ u.members = v.members /\ u.made = v.made /\ u.of = v.of /\ u.players = v.players
      /\ u.boots = b
  BY DEF IsRecord, Fields, SameFinder, SameQueue, SameStates, SameRest
<1> HIDE DEF u
<1> QED
  BY <1>1, <1>2, <1>3 DEF VotedIs

LEMMA VoteBegins ==
  ASSUME NEW v, NEW on, Good(v, on), NEW g \in Group, NEW q \in v.players[g]
  PROVE  Good(Voted(v, g, q), on)
<1> DEFINE u == Voted(v, g, q)
<1>1. VotedIs(v, u, g, q)
  BY VoteDoes DEF Good, Settled, Typed
<1> HIDE DEF u
<1>2. Typed(v) /\ GroupsRight(v)
  BY DEF Good, Settled
<1>3. /\ IsRecord(u) /\ SameFinder(v, u)
      /\ u.members = v.members /\ u.made = v.made /\ u.of = v.of /\ u.players = v.players
  BY <1>1 DEF VotedIs
<1>4. /\ u.members \in [Group -> SUBSET Player] /\ u.made \subseteq Group
      /\ u.of \in [Player -> Group \cup {None}] /\ u.players \in [Group -> SUBSET Player]
  BY <1>2, <1>3 DEF Typed
<1>5. DOMAIN u.boots \subseteq Group
  BY <1>1, <1>2 DEF VotedIs, Typed
<1>6. GroupsRight(u)
  <2>1. \A x \in DOMAIN u.boots : u.boots[x] \in u.players[x]
    BY <1>1, <1>2, <1>3 DEF VotedIs, GroupsRight
  <2> QED
    BY <2>1, <1>2, <1>3 DEF GroupsRight
<1>7. Good(u, on)
  BY <1>3, <1>4, <1>5, <1>6, FinderUntouched
<1> QED
  BY <1>7 DEF u

LEMMA UninviteKeeps ==
  ASSUME IInv, NEW p \in Player, NEW q \in Player, Uninvite(p, q)
  PROVE  Did(online)
<1> DEFINE g == GroupOf(w, p)
<1>1. /\ g # None /\ q \in w.members[g]
      /\ \/ Packet(RemoveMember(w, g, q, "kick", FALSE))
         \/ Packet(Voted(w, g, q))
  BY DEF Uninvite, Voted
<1>2. phase = "sessions"
  BY <1>1 DEF Packet
<1>3. g = w.of[p] /\ g \in Group
  BY <1>1, <1>2, SessionsMean DEF Typed
<1> HIDE DEF g
<1>4. w.of[q] = g
  BY <1>1, <1>2, <1>3, MembersAre
<1>5. CASE Packet(RemoveMember(w, g, q, "kick", FALSE))
  <2>1. Done(RemoveMember(w, g, q, "kick", FALSE), online)
    BY <1>2, <1>3, <1>4, RemovalDone
  <2> QED
    BY <1>5, <2>1, PacketDone
<1>6. CASE Packet(Voted(w, g, q))
  <2> DEFINE u == Voted(w, g, q)
  <2>1. Good(w, online) /\ w.members = w.players
    BY <1>2, SessionsMean
  <2>2. q \in w.players[g]
    BY <2>1, <1>1
  <2>3. Good(u, online)
    BY <2>1, <2>2, <1>3, VoteBegins
  <2>4. VotedIs(w, u, g, q)
    BY <2>1, VoteDoes DEF Good, Settled, Typed
  <2> HIDE DEF u
  <2>5. Done(u, online)
    BY <2>1, <2>3, <2>4 DEF Done, VotedIs, SameFinder, SameStates, OldKept
  <2> QED
    BY <1>6, <2>5, PacketDone DEF u
<1> QED
  BY <1>1, <1>5, <1>6

LEMMA UpdateBootKeeps ==
  ASSUME IInv, NEW g \in Group, UpdateBoot(g)
  PROVE  Did(online)
<1> DEFINE B == {g}
           q == w.boots[g]
           v == WithoutBoots(w, B)
<1>1. /\ g \in DOMAIN w.boots
      /\ \/ Packet(v)
         \/ \E inside \in BOOLEAN : Packet(RemoveMember(v, g, q, "kick_lfg", inside))
  BY DEF UpdateBoot, WithoutBoots
<1> HIDE DEF B
<1>2. phase = "sessions"
  BY <1>1 DEF Packet
<1>3. Good(w, online) /\ w.members = w.players /\ Typed(w) /\ GroupsRight(w)
  BY <1>2, SessionsMean
<1>4. q \in w.players[g]
  BY <1>1, <1>3 DEF GroupsRight
<1>5. q \in Player /\ w.of[q] = g
  BY <1>3, <1>4 DEF GroupsRight, Typed
<1>6. Good(v, online)
  BY <1>3, WithoutBootsGood
<1>7. WithoutBootsIs(w, v, B)
  BY <1>3, WithoutBootsDoes DEF Typed
<1> HIDE DEF v, q
<1>8. v.members = w.members /\ v.players = w.players /\ v.of = w.of /\ v.old = w.old
  BY <1>7 DEF WithoutBootsIs, SameFinder, SameStates
<1>9. CASE Packet(v)
  <2>1. Done(v, online)
    BY <1>3, <1>6, <1>8 DEF Done, OldKept
  <2> QED
    BY <1>9, <2>1, PacketDone
<1>10. ASSUME NEW inside \in BOOLEAN, Packet(RemoveMember(v, g, q, "kick_lfg", inside))
       PROVE  Did(online)
  <2> DEFINE u == RemoveMember(v, g, q, "kick_lfg", inside)
  <2>1. Good(u, online) /\ u.members = u.players /\ OldKept(v, u)
    BY <1>3, <1>5, <1>6, <1>8, MemberRemoved
  <2> HIDE DEF u
  <2>2. OldKept(w, u)
    BY <2>1, <1>8 DEF OldKept, UnitOf
  <2>3. Done(u, online)
    BY <2>1, <2>2 DEF Done
  <2> QED
    BY <1>10, <2>3, PacketDone DEF u
<1> QED
  BY <1>1, <1>9, <1>10

LEMMA OnMapChangedKeeps ==
  ASSUME IInv, NEW p \in Player, OnMapChanged(p)
  PROVE  Did(online)
<1> DEFINE g == GroupOf(w, p)
           v == LeaveLfg(w, g, FALSE)
           u == Disband(v, g)
<1>1. g # None /\ Packet(u)
  BY DEF OnMapChanged
<1>2. phase = "sessions"
  BY <1>1 DEF Packet
<1>3. g = w.of[p] /\ g \in Group
  BY <1>1, <1>2, SessionsMean DEF Typed
<1>4. Good(w, online) /\ w.members = w.players /\ g \in Guid /\ UnitOf(w, g) = g
  BY <1>2, <1>3, SessionsMean, Names DEF UnitOf
<1> HIDE DEF g
<1>5. Good(v, online) /\ Left(w, v, g)
  <2>1. w.members[g] # {}
    BY DEF OnMapChanged, g
  <2> QED
    BY <1>4, <2>1, Leaves
<1> HIDE DEF v
<1>6. g \notin Places(v) /\ v.members = w.members /\ v.players = w.players /\ OldKept(w, v)
  BY <1>4, <1>5 DEF Left, SameGroups
<1>7. Good(u, online) /\ GroupGone(v, u, g)
  BY <1>3, <1>5, <1>6, DisbandGood
<1> HIDE DEF u
<1>8. OldLess(v, u) /\ u.members = u.players
  BY <1>4, <1>6, <1>7 DEF GroupGone
<1>9. OldKept(w, u)
  BY <1>6, <1>8, OldKeptLess
<1>10. Done(u, online)
  BY <1>7, <1>8, <1>9 DEF Done
<1> QED
  BY <1>1, <1>10, PacketDone

LEMMA FinishDungeonKeeps ==
  ASSUME IInv, NEW g \in Group, FinishDungeon(g)
  PROVE  Did(online)
<1> DEFINE S == w.players[g] \cup {g}
           r == [w EXCEPT !.cancels = w.cancels]
           u == SetStates(r, S, "finished")
<1>1. w.state[g] = "dungeon" /\ Packet(Finished(w, g))
  BY DEF FinishDungeon
<1>2. phase = "sessions"
  BY <1>1 DEF Packet
<1>3. Good(w, online) /\ w.members = w.players /\ Typed(w) /\ GroupsRight(w)
  BY <1>2, SessionsMean
<1>4. Finished(w, g) = SetStates([w EXCEPT !.cancels = w.cancels], w.players[g] \cup {g}, "finished")
  BY <1>1 DEF Finished
<1>5. r = w
  BY <1>3 DEF Typed, IsRecord, Fields
<1> HIDE DEF r, S
<1>6. /\ IsRecord(u) /\ SameGroups(w, u) /\ SameQueue(w, u) /\ SameRest(w, u)
      /\ u.state = [x \in Guid |-> IF x \in S THEN "finished" ELSE w.state[x]]
      /\ u.old = [x \in Guid |-> IF x \in S /\ "finished" \in OldState THEN "finished" ELSE w.old[x]]
  BY <1>3, <1>5, SetStatesDoes DEF Typed
<1> HIDE DEF u
<1>7. g \in Guid /\ S = Unit(w, g) /\ UnitOf(w, g) = g /\ (w.members[g] # {} => g \notin Places(w))
  <2>1. g \in Guid
    BY Names
  <2>2. w.members[g] # {} => UnitOf(w, g) \notin Places(w)
    BY <1>1, <1>3, <2>1, Reaches DEF OldState
  <2> QED
    BY <1>3, <2>1, <2>2, GroupUnit DEF S
<1>g. w.members[g] = {} => w.old[g] = "dungeon" /\ \A y \in Guid : UnitOf(w, y) = g => y = g
  <2>1. StateAgrees(w, {}, g)
    BY <1>3, <1>7 DEF Good, Settled, StatesAgree
  <2>2. w.old[g] = "dungeon"
    BY <2>1, <1>1 DEF StateAgrees, OldState
  <2>3. \A y \in Group : UnitOf(w, y) = y
    BY DEF UnitOf
  <2> QED
    BY <2>2, <2>3, <1>3, GoneIs DEF Guid
<1>8. \A y \in Guid : u.state[y] = IF UnitOf(w, y) = g THEN "finished" ELSE w.state[y]
  BY <1>6, <1>7 DEF Unit
<1>9. \A y \in Guid : u.old[y] = IF UnitOf(w, y) = g THEN "finished" ELSE w.old[y]
  BY <1>6, <1>7 DEF Unit, OldState
<1>10. u.state \in [Guid -> State] /\ u.old \in [Guid -> OldState]
  <2>1. w.state \in [Guid -> State] /\ w.old \in [Guid -> OldState]
    BY <1>3 DEF Typed
  <2>2. "finished" \in State /\ "finished" \in OldState
    BY DEF State, OldState
  <2> QED
    BY <2>1, <2>2, <1>6
<1>11. \A y : UnitOf(u, y) = UnitOf(w, y)
  BY <1>6 DEF SameGroups, UnitOf
<1>12. Regroups(w, u)
  <2>1. GroupsRight(u)
    BY <1>3, <1>6 DEF GroupsRight, SameGroups
  <2>2. /\ u.members \in [Group -> SUBSET Player] /\ u.made \subseteq Group
        /\ u.of \in [Player -> Group \cup {None}] /\ u.players \in [Group -> SUBSET Player]
        /\ DOMAIN u.boots \subseteq Group
    BY <1>3, <1>6 DEF Typed, SameGroups
  <2>3. \A p \in Player : u.of[p] = w.of[p]
    BY <1>6 DEF SameGroups
  <2>4. \A y \in Guid : \/ u.state[y] = w.state[y] /\ u.old[y] = w.old[y]
                        \/ /\ u.state[y] \in OldState /\ u.state[y] = u.old[y]
                           /\ {UnitOf(w, y), UnitOf(u, y)} \cap Places(w) = {}
                        \/ /\ y \in Group /\ w.members[y] = {}
                           /\ u.state[y] \in OldState /\ u.state[y] = u.old[y]
                           /\ u.old[y] = "none" <=> w.old[y] = "none"
    <3> TAKE y \in Guid
    <3>1. CASE UnitOf(w, y) # g
      BY <3>1, <1>8, <1>9
    <3>2. CASE UnitOf(w, y) = g
      <4>1. u.state[y] = "finished" /\ u.old[y] = "finished" /\ "finished" \in OldState
        BY <3>2, <1>8, <1>9 DEF OldState
      <4>2. CASE w.members[g] # {}
        BY <4>1, <4>2, <3>2, <1>7, <1>11
      <4>3. CASE w.members[g] = {}
        BY <4>1, <4>3, <3>2, <1>g
      <4> QED
        BY <4>2, <4>3
    <3> QED
      BY <3>1, <3>2
  <2>5. /\ IsRecord(u) /\ DOMAIN u.data = DOMAIN w.data
        /\ \A x \in DOMAIN w.data : u.data[x] = w.data[x]
        /\ u.new = w.new /\ u.current = w.current /\ w.rematch \cap w.current \subseteq u.rematch
        /\ u.checks = w.checks /\ u.proposals = w.proposals
    BY <1>6 DEF SameQueue, SameRest
  <2>6. u.members = w.members
    BY <1>6 DEF SameGroups
  <2> QED
    BY <1>10, <2>1, <2>2, <2>3, <2>4, <2>5, <2>6 DEF Regroups
<1>13. Good(u, online)
  BY <1>3, <1>6, <1>12, GoodRegrouped DEF SameRest
<1>14. u.members = u.players /\ OldKept(w, u)
  BY <1>3, <1>6, <1>9 DEF SameGroups, OldKept
<1>15. Done(u, online)
  BY <1>13, <1>14 DEF Done
<1>16. u = Finished(w, g)
  BY <1>4, <1>5 DEF u, S, r
<1> QED
  BY <1>1, <1>15, <1>16, PacketDone

(* Who is online matters to the entries only.                               *)
LEMMA OnlineGrows ==
  ASSUME NEW v, NEW on, Good(v, on), NEW now, on \subseteq now
  PROVE  Good(v, now)
<1>1. EntriesRight(v, on)
  BY DEF Good, Settled
<1>2. \A S, x : Complete(v, on, S, x) => Complete(v, now, S, x)
  BY DEF Complete
<1>4. \A x : Remains(v, on, x) => Remains(v, now, x)
  BY DEF Remains
<1>3. EntriesRight(v, now)
  BY <1>1, <1>2, <1>4 DEF EntriesRight
<1> QED
  BY <1>3 DEF Good, Settled

LEMMA OnlineShrinks ==
  ASSUME NEW v, NEW on, Good(v, on), NEW p \in Player, UnitOf(v, p) \notin Places(v),
         NEW now, on \subseteq now \cup {p}
  PROVE  Good(v, now)
<1>1. EntriesRight(v, on) /\ Typed(v) /\ GroupsRight(v)
  BY DEF Good, Settled
<1>2. ASSUME NEW x, x \in Places(v), NEW S, Complete(v, on, S, x)
      PROVE  Complete(v, now, S, x)
  <2>1. p \notin S
    BY <1>1, <1>2, CompleteMeans
  <2>2. S \subseteq now
    BY <1>2, <2>1 DEF Complete
  <2> QED
    BY <1>2, <2>2 DEF Complete
<1>4. ASSUME NEW x, Remains(v, on, x)
      PROVE  Remains(v, now, x)
  <2>1. PICK pr \in v.proposals : \E q \in DOMAIN pr.of : q \in on /\ pr.of[q] = x /\ Relict(v, pr, q)
    BY <1>4 DEF Remains
  <2>2. PICK q \in DOMAIN pr.of : q \in on /\ pr.of[q] = x /\ Relict(v, pr, q)
    BY <2>1
  <2>3. UnitOf(v, q) \in UnitsIn(v, pr) /\ Settled(v, on, {})
    BY DEF UnitsIn, Good
  <2>4. UnitOf(v, q) \in Places(v)
    BY <2>3, PlacesAre
  <2>5. q \in now
    BY <2>2, <2>4
  <2> QED
    BY <1>4, <2>2, <2>5 DEF Remains
<1>3. EntriesRight(v, now)
  BY <1>1, <1>2, <1>4 DEF EntriesRight, Places
<1> QED
  BY <1>3 DEF Good, Settled

LEMMA LogoutKeeps ==
  ASSUME IInv, NEW p \in Player, Logout(p)
  PROVE  phase = "sessions" /\ phase' = "sessions" /\ Done(w', online') /\ online' \subseteq Player
<1> DEFINE b == GroupOf(w, p) # None
           u == LeaveLfg(w, p, b)
<1>1. phase = "sessions" /\ phase' = phase /\ online' = online \ {p} /\ w' = u
  BY DEF Logout
<1>2. Good(w, online) /\ w.members = w.players /\ p \in Guid /\ b \in BOOLEAN
  BY <1>1, SessionsMean, Names
<1> HIDE DEF b
<1>3. Good(u, online) /\ Left(w, u, p)
  BY <1>2, Leaves
<1> HIDE DEF u
<1>4. UnitOf(u, p) \notin Places(u)
  BY <1>3 DEF Left, SameGroups, UnitOf
<1>5. online \subseteq online' \cup {p} /\ online' \subseteq Player
  BY <1>1 DEF IInv
<1>6. Good(u, online')
  BY <1>3, <1>4, <1>5, OnlineShrinks
<1>7. Done(u, online')
  BY <1>2, <1>3, <1>6 DEF Done, Left, SameGroups
<1> QED
  BY <1>1, <1>5, <1>7

LEMMA LoginKeeps ==
  ASSUME IInv, NEW p \in Player, Login(p)
  PROVE  phase = "sessions" /\ phase' = "sessions" /\ Done(w', online') /\ online' \subseteq Player
<1>1. phase = "sessions" /\ phase' = phase /\ online' = online \cup {p}
  BY DEF Login
<1>2. /\ Good(w, online) /\ w.members = w.players /\ GroupOf(w, p) = w.of[p]
      /\ online \subseteq online' /\ online' \subseteq Player
  BY <1>1, SessionsMean DEF IInv
<1>3. w' = w
  BY <1>2 DEF Login
<1>4. Good(w, online')
  BY <1>2, OnlineGrows
<1>5. Done(w, online')
  BY <1>2, <1>4 DEF Done, OldKept
<1> QED
  BY <1>1, <1>2, <1>3, <1>5

LEMMA FreshMeans ==
  ASSUME NEW v, NEW on, Good(v, on), NEW h \in Fresh(v)
  PROVE  /\ h \in Group /\ h # None /\ v.members[h] = {} /\ v.players[h] = {} /\ v.state[h] = "none"
         /\ h \notin Places(v)
<1>1. /\ h \in Group /\ h # None /\ v.members[h] = {} /\ v.players[h] = {} /\ v.state[h] = "none"
      /\ h \notin DOMAIN v.data
  BY Names DEF Fresh
<1>2. h \notin DOMAIN v.checks \cup Offered(v, TRUE)
  BY <1>1, GoneIsNowhere DEF Good
<1> QED
  BY <1>1, <1>2 DEF Places

LEMMA HandleGroupAcceptKeeps ==
  ASSUME IInv, NEW i \in Player, NEW p \in Player, HandleGroupAccept(i, p)
  PROVE  Did(online)
<1> DEFINE g == GroupOf(w, i)
           v == LeaveLfg(w, i, FALSE)
           a(h) == AddMember(v, h, i, FALSE)
           b(h) == AddMember(a(h), h, p, FALSE)
<1>1. /\ p # i /\ GroupOf(w, p) = None
      /\ \/ g # None /\ Cardinality(w.members[g]) < Size /\ Packet(AddMember(w, g, p, FALSE))
         \/ g = None /\ \E h \in Fresh(w) : Packet(b(h))
  BY DEF HandleGroupAccept
<1>2. phase = "sessions"
  BY <1>1 DEF Packet
<1>3. /\ Good(w, online) /\ w.members = w.players /\ Typed(w)
      /\ w.of[p] = None /\ w.of[i] = g
  BY <1>1, <1>2, SessionsMean
<1>4. CASE g # None /\ Cardinality(w.members[g]) < Size /\ Packet(AddMember(w, g, p, FALSE))
  <2>1. g \in Group /\ Cardinality(w.players[g]) < Size /\ w.members[g] # {}
    BY <1>3, <1>4 DEF Typed, Good, Settled, GroupsRight
  <2> HIDE DEF g
  <2> DEFINE u == AddMember(w, g, p, FALSE)
  <2>2. Good(u, online) /\ Added(w, u, g, p)
    BY <1>3, <2>1, MemberAdded
  <2> HIDE DEF u
  <2>3. Done(u, online)
    BY <1>3, <2>2 DEF Done, Added
  <2> QED
    BY <1>4, <2>3, PacketDone DEF u
<1>5. ASSUME g = None, NEW h \in Fresh(w), Packet(b(h))
      PROVE  Did(online)
  <2>1. /\ i \in Guid /\ p \in Guid /\ h \in Group /\ h \in Guid /\ w.players[h] = {}
        /\ w.state[h] = "none" /\ h \notin Places(w)
    BY <1>3, Names, FreshMeans
  <2>2. Good(v, online) /\ Left(w, v, i)
    BY <1>3, <2>1, Leaves
  <2> DEFINE t == a(h)
             u == b(h)
  <2>3. u = AddMember(t, h, p, FALSE) /\ t = AddMember(v, h, i, FALSE)
    OBVIOUS
  <2> HIDE DEF v, g, t, u
  <2>4. SameGroups(w, v) /\ OldKept(w, v) /\ v.players[h] = {} /\ v.of[i] = None
    BY <1>3, <1>5, <2>1, <2>2 DEF Left, SameGroups
  <2>5. Cardinality({}) = 0 /\ Cardinality({} \cup {i}) <= 1 /\ 0 < Size /\ 1 < Size
    <3>1. /\ IsFiniteSet({}) /\ Cardinality({}) \in Nat /\ Cardinality({}) = 0
          /\ Cardinality({} \cup {i}) <= Cardinality({}) + 1
      BY FewPlayers
    <3> QED
      BY <3>1, FinderAssumption
  <2>6. Good(t, online) /\ Added(v, t, h, i)
    <3>1. h \notin Places(v)
      BY <2>1, <2>2 DEF Left
    <3> QED
      BY <3>1, <2>1, <2>2, <2>3, <2>4, <2>5, MemberAdded
  <2>7. t.of = [v.of EXCEPT ![i] = h] /\ t.players[h] = {} \cup {i}
    BY <2>1, <2>4, <2>6, <1>3 DEF Added, Typed, SameGroups
  <2>8. t.of[p] = None
    BY <1>1, <1>3, <2>4, <2>7 DEF SameGroups
  <2>9. IsFiniteSet(t.players[h]) /\ Cardinality(t.players[h]) \in Nat
    BY <2>7, FewPlayers
  <2>10. Cardinality(t.players[h]) < Size
    BY <2>5, <2>7, <2>9, FinderAssumption
  <2>11. Good(u, online) /\ Added(t, u, h, p)
    <3>1. t.members[h] # {}
      BY <2>1, <2>6, <2>7 DEF Good, Settled, GroupsRight
    <3> QED
      BY <3>1, <2>1, <2>3, <2>6, <2>8, <2>10, MemberAdded
  <2>12. u.members = u.players
    BY <1>3, <2>4, <2>6, <2>11 DEF Added, SameGroups
  <2>13. OldKept(w, t)
    BY <1>3, <2>4, <2>6, KeptTwice DEF Added
  <2>14. t.old[h] # "dungeon"
    <3>1. w.old[h] = "none"
      <4>1. StatesAgree(w, {})
        BY <1>3 DEF Good, Settled
      <4> QED
        BY <4>1, <2>1 DEF StatesAgree, StateAgrees, OldState
    <3>2. UnitOf(w, h) = h
      BY <2>1 DEF UnitOf
    <3> QED
      BY <3>1, <3>2, <2>1, <2>13 DEF OldKept
  <2>15. OldKept(w, u)
    <3> SUFFICES ASSUME NEW y \in Guid, u.old[y] = "dungeon"
                 PROVE  w.old[y] = "dungeon" \/ w.old[UnitOf(w, y)] = "dungeon"
      BY DEF OldKept
    <3>1. t.old[y] = "dungeon" \/ t.old[UnitOf(t, y)] = "dungeon"
      BY <2>11 DEF Added, OldKept
    <3>2. CASE t.old[y] = "dungeon"
      BY <3>2, <2>13 DEF OldKept
    <3>3. CASE t.old[UnitOf(t, y)] = "dungeon"
      <4>1. UnitOf(t, y) # h
        BY <3>3, <2>14
      <4>2. UnitOf(t, y) = UnitOf(w, y)
        <5>1. w.of = v.of
          BY <2>4 DEF SameGroups
        <5>2. CASE y = i
          <6>1. t.of[i] = h
            BY <2>7, <5>1, <1>3 DEF Typed
          <6>2. UnitOf(t, y) = h
            BY <6>1, <5>2, <2>1, Names DEF UnitOf
          <6> QED
            BY <6>2, <4>1
        <5>3. CASE y # i /\ y \in Player
          <6>1. t.of[y] = w.of[y]
            BY <2>7, <5>1, <5>3, <1>3 DEF Typed
          <6> QED
            BY <6>1 DEF UnitOf
        <5>4. CASE y \in Group
          BY <5>4 DEF UnitOf
        <5> QED
          BY <5>2, <5>3, <5>4 DEF Guid
      <4>3. UnitOf(w, y) \in Guid /\ UnitOf(w, UnitOf(w, y)) = UnitOf(w, y)
        BY <1>3, Reaches
      <4> QED
        BY <3>3, <4>2, <4>3, <2>13 DEF OldKept
    <3> QED
      BY <3>1, <3>2, <3>3
  <2>16. Done(u, online)
    BY <2>11, <2>12, <2>15 DEF Done
  <2>17. Packet(u)
    BY <1>5 DEF u
  <2> QED
    BY <2>16, <2>17, PacketDone
<1> HIDE DEF a, b, g, v
<1> QED
  BY <1>1, <1>4, <1>5

-----------------------------------------------------------------------------
(* Folds.  FoldSet takes the elements of a set one after the other, in an    *)
(* order that CHOOSE settles; the facts below are about any order.          *)

LEMMA LeastExists ==
  ASSUME NEW S, S \subseteq Nat, S # {}
  PROVE  \E x \in S : \A y \in S : x <= y
<1>1. IsWellFoundedOn(OpToRel(<, Nat), Nat)
  BY NatLessThanWellFounded
<1>2. PICK x \in S : \A y \in S : ~ (<<y, x>> \in OpToRel(<, Nat))
  BY <1>1, WFMin
<1>3. \A y \in S : ~ (y < x)
  BY <1>2 DEF OpToRel
<1> QED
  BY <1>3

LEMMA NumbersInduction ==
  ASSUME NEW N, 0 \in N, \A n \in Nat : n \in N => n + 1 \in N
  PROVE  Nat \subseteq N
<1> SUFFICES ASSUME Nat \ N # {} PROVE FALSE
  OBVIOUS
<1>1. PICK n \in Nat \ N : \A m \in Nat \ N : n <= m
  BY LeastExists
<1>2. n # 0 /\ n - 1 \in Nat
  BY <1>1
<1>3. n - 1 \in N
  BY <1>1, <1>2
<1> QED
  BY <1>1, <1>2, <1>3

Pick(s) == CHOOSE x \in s : TRUE

LEMMA OneLess ==
  ASSUME NEW S, IsFiniteSet(S), NEW s \in SUBSET S, s # {}
  PROVE  /\ Pick(s) \in s /\ s \ {Pick(s)} \in SUBSET S
         /\ Cardinality(s) \in Nat /\ Cardinality(s \ {Pick(s)}) \in Nat
         /\ Cardinality(s) = Cardinality(s \ {Pick(s)}) + 1
<1>1. Pick(s) \in s
  BY DEF Pick
<1>2. IsFiniteSet(s)
  BY FS_Subset
<1> DEFINE x == Pick(s)
<1>3. x \in s
  BY <1>1
<1> HIDE DEF x
<1>4. IsFiniteSet(s \ {x}) /\ Cardinality(s \ {x}) = Cardinality(s) - 1
  BY <1>2, <1>3, FS_RemoveElement
<1>5. Cardinality(s) \in Nat /\ Cardinality(s \ {x}) \in Nat
  BY <1>2, <1>4, FS_CardinalityType
<1>6. /\ x \in s /\ s \ {x} \in SUBSET S
      /\ Cardinality(s) \in Nat /\ Cardinality(s \ {x}) \in Nat
      /\ Cardinality(s) = Cardinality(s \ {x}) + 1
  BY <1>3, <1>4, <1>5
<1> QED
  BY <1>6 DEF x

LEMMA SetInduction ==
  ASSUME NEW S, IsFiniteSet(S), NEW I, {} \in I,
         \A s \in SUBSET S : s # {} /\ s \ {Pick(s)} \in I => s \in I
  PROVE  S \in I
<1> DEFINE N == {n \in Nat : \A s \in SUBSET S : Cardinality(s) = n => s \in I}
<1>1. 0 \in N
  <2>1. \A s \in SUBSET S : Cardinality(s) = 0 => s = {}
    BY FS_EmptySet, FS_Subset
  <2> QED
    BY <2>1
<1>2. ASSUME NEW n \in Nat, n \in N
      PROVE  n + 1 \in N
  <2> SUFFICES ASSUME NEW s \in SUBSET S, Cardinality(s) = n + 1
               PROVE  s \in I
    OBVIOUS
  <2>1. s # {}
    BY FS_EmptySet
  <2>2. s \ {Pick(s)} \in SUBSET S /\ Cardinality(s \ {Pick(s)}) \in Nat
        /\ Cardinality(s) = Cardinality(s \ {Pick(s)}) + 1
    BY <2>1, OneLess
  <2>3. Cardinality(s \ {Pick(s)}) = n
    BY <2>2
  <2>4. s \ {Pick(s)} \in I
    BY <1>2, <2>2, <2>3
  <2> QED
    BY <2>1, <2>4
<1>3. Nat \subseteq N
  <2> HIDE DEF N
  <2> QED
    BY <1>1, <1>2, NumbersInduction
<1>4. Cardinality(S) \in Nat /\ S \in SUBSET S
  BY FS_CardinalityType
<1> QED
  BY <1>3, <1>4

(* The folds of this module, as one: the step k for x.                      *)
Step(k, g, x, v) ==
  CASE k = "enter"    -> Enter(x, g, v)
    [] k = "finish"   -> Finished(v, x)
    [] k = "cancel"   -> Cancel(x, v)
    [] k = "check"    -> FailRoleCheck(v, x)
    [] k = "proposal" -> RemoveProposal(v, x, TRUE)

Values(k, g, b, D, f) ==
  [s \in D |-> IF s = {} THEN b ELSE Step(k, g, Pick(s), f[s \ {Pick(s)}])]

LEMMA ValuesExist ==
  ASSUME NEW S, IsFiniteSet(S), NEW k, NEW g, NEW b
  PROVE  \E f : f = Values(k, g, b, SUBSET S, f)
<1> DEFINE D(n) == {s \in SUBSET S : Cardinality(s) <= n}
           N == {n \in Nat : \E f : f = Values(k, g, b, D(n), f)}
<1>1. 0 \in N
  <2>1. \A s \in D(0) : s = {}
    <3> SUFFICES ASSUME NEW s \in D(0), s # {} PROVE FALSE
      OBVIOUS
    <3>1. Cardinality(s) \in Nat /\ Cardinality(s \ {Pick(s)}) \in Nat
          /\ Cardinality(s) = Cardinality(s \ {Pick(s)}) + 1
      BY OneLess
    <3> QED
      BY <3>1
  <2> DEFINE f == [s \in D(0) |-> b]
  <2>2. f = Values(k, g, b, D(0), f)
    BY <2>1 DEF Values
  <2> QED
    BY <2>2
<1>2. ASSUME NEW n \in Nat, n \in N
      PROVE  n + 1 \in N
  <2>1. PICK f : f = Values(k, g, b, D(n), f)
    BY <1>2
  <2> DEFINE h == Values(k, g, b, D(n + 1), f)
  <2>2. \A s \in D(n + 1) : s # {} => s \ {Pick(s)} \in D(n)
    <3> SUFFICES ASSUME NEW s \in D(n + 1), s # {} PROVE s \ {Pick(s)} \in D(n)
      OBVIOUS
    <3>1. s \ {Pick(s)} \in SUBSET S /\ Cardinality(s) \in Nat /\ Cardinality(s \ {Pick(s)}) \in Nat
          /\ Cardinality(s) = Cardinality(s \ {Pick(s)}) + 1
      BY OneLess
    <3> QED
      BY <3>1
  <2>3. D(n) \subseteq D(n + 1)
    <3> SUFFICES ASSUME NEW s \in D(n) PROVE Cardinality(s) <= n + 1
      OBVIOUS
    <3>1. Cardinality(s) \in Nat
      BY FS_Subset, FS_CardinalityType
    <3> QED
      BY <3>1
  <2> HIDE DEF D
  <2>4. \A s \in D(n) : h[s] = f[s]
    <3>1. \A s \in D(n) : h[s] = IF s = {} THEN b ELSE Step(k, g, Pick(s), f[s \ {Pick(s)}])
      BY <2>3 DEF Values
    <3>2. \A s \in D(n) : f[s] = IF s = {} THEN b ELSE Step(k, g, Pick(s), f[s \ {Pick(s)}])
      <4> DEFINE r == [s \in D(n) |-> IF s = {} THEN b ELSE Step(k, g, Pick(s), f[s \ {Pick(s)}])]
      <4>1. f = r
        BY <2>1 DEF Values
      <4>2. \A s \in D(n) : r[s] = IF s = {} THEN b ELSE Step(k, g, Pick(s), f[s \ {Pick(s)}])
        OBVIOUS
      <4> HIDE DEF r
      <4> QED
        BY <4>1, <4>2
    <3> HIDE DEF h
    <3> QED
      BY <3>1, <3>2
  <2>5. h = Values(k, g, b, D(n + 1), h)
    <3>1. \A s \in D(n + 1) : (IF s = {} THEN b ELSE Step(k, g, Pick(s), f[s \ {Pick(s)}]))
                              = IF s = {} THEN b ELSE Step(k, g, Pick(s), h[s \ {Pick(s)}])
      <4> HIDE DEF h
      <4> QED
        BY <2>2, <2>4
    <3> DEFINE r == h
    <3>2. h = [s \in D(n + 1) |-> IF s = {} THEN b ELSE Step(k, g, Pick(s), f[s \ {Pick(s)}])]
      BY DEF Values
    <3> HIDE DEF h
    <3> QED
      BY <3>1, <3>2 DEF Values
  <2> HIDE DEF h
  <2> QED
    BY <2>5
<1>3. Nat \subseteq N
  <2> HIDE DEF N
  <2> QED
    BY <1>1, <1>2, NumbersInduction
<1>4. Cardinality(S) \in Nat
  BY FS_CardinalityType
<1>5. D(Cardinality(S)) = SUBSET S
  <2>1. \A s \in SUBSET S : Cardinality(s) <= Cardinality(S)
    BY FS_Subset
  <2> QED
    BY <2>1
<1> HIDE DEF D
<1> QED
  BY <1>3, <1>4, <1>5

EnterAll(b, g, S) == FoldSet(LAMBDA p, u : Enter(p, g, u), b, S)

EnterFolds(f, b, g, S) ==
  f[{}] = b /\ \A s \in SUBSET S : s # {} => f[s] = Enter(Pick(s), g, f[s \ {Pick(s)}])

LEMMA EnterFold ==
  ASSUME NEW b, NEW g, NEW S, IsFiniteSet(S)
  PROVE  \E f : EnterAll(b, g, S) = f[S] /\ EnterFolds(f, b, g, S)
<1> DEFINE Is(f) == f = [s \in SUBSET S |-> IF s = {} THEN b
                                           ELSE Enter(Pick(s), g, f[s \ {Pick(s)}])]
           f == CHOOSE f : Is(f)
<1>1. EnterAll(b, g, S) = f[S]
  BY DEF EnterAll, FoldSet, MapThenFoldSet, Pick
<1>2. \A x, v : Step("enter", g, x, v) = Enter(x, g, v)
  BY Zenon DEF Step
<1>3. PICK h : h = Values("enter", g, b, SUBSET S, h)
  BY ValuesExist
<1>4. Is(h)
  BY <1>2, <1>3 DEF Values
<1>5. Is(f)
  <2> HIDE DEF Is
  <2> QED
    BY <1>4
<1>6. \A s \in SUBSET S : f[s] = IF s = {} THEN b ELSE Enter(Pick(s), g, f[s \ {Pick(s)}])
  <2> HIDE DEF f
  <2> QED
    BY <1>5
<1> HIDE DEF f
<1>7. {} \in SUBSET S
  OBVIOUS
<1>8. f[{}] = b
  BY <1>6, <1>7
<1> QED
  BY <1>1, <1>6, <1>8 DEF EnterFolds

FinishAll(b, S) == FoldSet(LAMBDA g, u : Finished(u, g), b, S)

FinishFolds(f, b, S) ==
  f[{}] = b /\ \A s \in SUBSET S : s # {} => f[s] = Finished(f[s \ {Pick(s)}], Pick(s))

LEMMA FinishFold ==
  ASSUME NEW b, NEW S, IsFiniteSet(S)
  PROVE  \E f : FinishAll(b, S) = f[S] /\ FinishFolds(f, b, S)
<1> DEFINE Is(f) == f = [s \in SUBSET S |-> IF s = {} THEN b
                                           ELSE Finished(f[s \ {Pick(s)}], Pick(s))]
           f == CHOOSE f : Is(f)
<1>1. FinishAll(b, S) = f[S]
  BY DEF FinishAll, FoldSet, MapThenFoldSet, Pick
<1>2. \A x, v : Step("finish", None, x, v) = Finished(v, x)
  BY Zenon DEF Step
<1>3. PICK h : h = Values("finish", None, b, SUBSET S, h)
  BY ValuesExist
<1>4. Is(h)
  BY <1>2, <1>3 DEF Values
<1>5. Is(f)
  <2> HIDE DEF Is
  <2> QED
    BY <1>4
<1>6. \A s \in SUBSET S : f[s] = IF s = {} THEN b ELSE Finished(f[s \ {Pick(s)}], Pick(s))
  <2> HIDE DEF f
  <2> QED
    BY <1>5
<1> HIDE DEF f
<1>7. {} \in SUBSET S
  OBVIOUS
<1>8. f[{}] = b
  BY <1>6, <1>7
<1> QED
  BY <1>1, <1>6, <1>8 DEF FinishFolds

CancelAll(b, S) == FoldSet(Cancel, b, S)

CancelFolds(f, b, S) ==
  f[{}] = b /\ \A s \in SUBSET S : s # {} => f[s] = Cancel(Pick(s), f[s \ {Pick(s)}])

LEMMA CancelFold ==
  ASSUME NEW b, NEW S, IsFiniteSet(S)
  PROVE  \E f : CancelAll(b, S) = f[S] /\ CancelFolds(f, b, S)
<1> DEFINE Is(f) == f = [s \in SUBSET S |-> IF s = {} THEN b
                                           ELSE Cancel(Pick(s), f[s \ {Pick(s)}])]
           f == CHOOSE f : Is(f)
<1>1. CancelAll(b, S) = f[S]
  BY DEF CancelAll, FoldSet, MapThenFoldSet, Pick
<1>2. \A x, v : Step("cancel", None, x, v) = Cancel(x, v)
  BY Zenon DEF Step
<1>3. PICK h : h = Values("cancel", None, b, SUBSET S, h)
  BY ValuesExist
<1>4. Is(h)
  BY <1>2, <1>3 DEF Values
<1>5. Is(f)
  <2> HIDE DEF Is
  <2> QED
    BY <1>4
<1>6. \A s \in SUBSET S : f[s] = IF s = {} THEN b ELSE Cancel(Pick(s), f[s \ {Pick(s)}])
  <2> HIDE DEF f
  <2> QED
    BY <1>5
<1> HIDE DEF f
<1>7. {} \in SUBSET S
  OBVIOUS
<1>8. f[{}] = b
  BY <1>6, <1>7
<1> QED
  BY <1>1, <1>6, <1>8 DEF CancelFolds

FailAll(b, S) == FoldSet(LAMBDA g, u : FailRoleCheck(u, g), b, S)

CheckFolds(f, b, S) ==
  f[{}] = b /\ \A s \in SUBSET S : s # {} => f[s] = FailRoleCheck(f[s \ {Pick(s)}], Pick(s))

LEMMA CheckFold ==
  ASSUME NEW b, NEW S, IsFiniteSet(S)
  PROVE  \E f : FailAll(b, S) = f[S] /\ CheckFolds(f, b, S)
<1> DEFINE Is(f) == f = [s \in SUBSET S |-> IF s = {} THEN b
                                           ELSE FailRoleCheck(f[s \ {Pick(s)}], Pick(s))]
           f == CHOOSE f : Is(f)
<1>1. FailAll(b, S) = f[S]
  BY DEF FailAll, FoldSet, MapThenFoldSet, Pick
<1>2. \A x, v : Step("check", None, x, v) = FailRoleCheck(v, x)
  BY Zenon DEF Step
<1>3. PICK h : h = Values("check", None, b, SUBSET S, h)
  BY ValuesExist
<1>4. Is(h)
  BY <1>2, <1>3 DEF Values
<1>5. Is(f)
  <2> HIDE DEF Is
  <2> QED
    BY <1>4
<1>6. \A s \in SUBSET S : f[s] = IF s = {} THEN b ELSE FailRoleCheck(f[s \ {Pick(s)}], Pick(s))
  <2> HIDE DEF f
  <2> QED
    BY <1>5
<1> HIDE DEF f
<1>7. {} \in SUBSET S
  OBVIOUS
<1>8. f[{}] = b
  BY <1>6, <1>7
<1> QED
  BY <1>1, <1>6, <1>8 DEF CheckFolds

RemoveAll(b, S) == FoldSet(LAMBDA pr, u : RemoveProposal(u, pr, TRUE), b, S)

ProposalFolds(f, b, S) ==
  f[{}] = b /\ \A s \in SUBSET S : s # {} => f[s] = RemoveProposal(f[s \ {Pick(s)}], Pick(s), TRUE)

LEMMA ProposalFold ==
  ASSUME NEW b, NEW S, IsFiniteSet(S)
  PROVE  \E f : RemoveAll(b, S) = f[S] /\ ProposalFolds(f, b, S)
<1> DEFINE Is(f) == f = [s \in SUBSET S |-> IF s = {} THEN b
                                           ELSE RemoveProposal(f[s \ {Pick(s)}], Pick(s), TRUE)]
           f == CHOOSE f : Is(f)
<1>1. RemoveAll(b, S) = f[S]
  BY DEF RemoveAll, FoldSet, MapThenFoldSet, Pick
<1>2. \A x, v : Step("proposal", None, x, v) = RemoveProposal(v, x, TRUE)
  BY Zenon DEF Step
<1>3. PICK h : h = Values("proposal", None, b, SUBSET S, h)
  BY ValuesExist
<1>4. Is(h)
  BY <1>2, <1>3 DEF Values
<1>5. Is(f)
  <2> HIDE DEF Is
  <2> QED
    BY <1>4
<1>6. \A s \in SUBSET S : f[s] = IF s = {} THEN b ELSE RemoveProposal(f[s \ {Pick(s)}], Pick(s), TRUE)
  <2> HIDE DEF f
  <2> QED
    BY <1>5
<1> HIDE DEF f
<1>7. {} \in SUBSET S
  OBVIOUS
<1>8. f[{}] = b
  BY <1>6, <1>7
<1> QED
  BY <1>1, <1>6, <1>8 DEF ProposalFolds

-----------------------------------------------------------------------------
(* The group of a proposal is formed.                                       *)

(* A group that is part of the proposal is gone; nothing else changes.      *)
OnlyGroupGone(v, u, g) ==
  /\ GroupIsOut(v, u, g) /\ SameQueue(v, u) /\ SameRest(v, u)
  /\ u.state = [y \in Guid |-> IF y = g THEN "none" ELSE v.state[y]]
  /\ u.old = [y \in Guid |-> IF y = g THEN "none" ELSE v.old[y]]

LEMMA DisbandOfProposal ==
  ASSUME NEW v, IsRecord(v), NEW g \in Group, g \notin DOMAIN v.checks, v.state[g] = "proposal"
  PROVE  OnlyGroupGone(v, Disband(v, g), g)
<1> DEFINE T == {g}
           v3 == SetStates(v, T, "none")
           of == [p \in Player |-> IF p \in v.players[g] THEN None ELSE v3.of[p]]
           players == [v3.players EXCEPT ![g] = {}]
           members == [v3.members EXCEPT ![g] = {}]
           boots == Restrict(v3.boots, DOMAIN v3.boots \ {g})
           u == [v3 EXCEPT !.of = of, !.players = players, !.members = members,
                           !.made = v3.made \ {g}, !.boots = boots]
<1>1. /\ IsRecord(v3) /\ SameGroups(v, v3) /\ SameQueue(v, v3) /\ SameRest(v, v3)
      /\ v3.state = [y \in Guid |-> IF y \in T THEN "none" ELSE v.state[y]]
      /\ v3.old = [y \in Guid |-> IF y \in T /\ "none" \in OldState THEN "none" ELSE v.old[y]]
  BY SetStatesDoes
<1>2. Disband(v, g) = u
  <2>1. FailRoleCheck(v, g) = v
    BY DEF FailRoleCheck
  <2>2. Disband(v, g) = [v3 EXCEPT
        !.of = [p \in Player |-> IF p \in v.players[g] THEN None ELSE @[p]],
        !.players[g] = {}, !.members[g] = {}, !.made = @ \ {g},
        !.boots = Restrict(@, DOMAIN @ \ {g})]
    BY <2>1, Zenon DEF Disband
  <2> HIDE DEF v3
  <2> QED
    BY <1>1, <2>2 DEF IsRecord, Fields
<1> HIDE DEF v3
<1>3. /\ of = [p \in Player |-> IF p \in v.players[g] THEN None ELSE v.of[p]]
      /\ players = [v.players EXCEPT ![g] = {}] /\ members = [v.members EXCEPT ![g] = {}]
      /\ v3.made = v.made
  BY <1>1 DEF SameGroups
<1>4. DOMAIN boots = DOMAIN v.boots \ {g} /\ \A h \in DOMAIN boots : boots[h] = v.boots[h]
  BY <1>1 DEF SameGroups, Restrict
<1> HIDE DEF of, players, members, boots
<1>5. /\ IsRecord(u) /\ SameRest(v3, u) /\ SameQueue(v3, u) /\ SameStates(v3, u)
      /\ u.of = of /\ u.players = players /\ u.members = members /\ u.made = v3.made \ {g}
      /\ u.boots = boots
  BY <1>1 DEF IsRecord, Fields, SameQueue, SameStates, SameRest
<1> HIDE DEF u
<1>6. GroupIsOut(v, u, g)
  BY <1>3, <1>4, <1>5 DEF GroupIsOut
<1>7. SameQueue(v, u) /\ SameRest(v, u)
  BY <1>1, <1>5 DEF SameQueue, SameRest
<1>8. /\ u.state = [y \in Guid |-> IF y = g THEN "none" ELSE v.state[y]]
      /\ u.old = [y \in Guid |-> IF y = g THEN "none" ELSE v.old[y]]
  BY <1>1, <1>5 DEF SameStates, OldState
<1>9. OnlyGroupGone(v, u, g)
  BY <1>6, <1>7, <1>8 DEF OnlyGroupGone
<1> QED
  BY <1>2, <1>9

LEMMA OneGroupEach ==
  ASSUME NEW v, Book(v), v.members = v.players, NEW p \in Player
  PROVE  GroupOf(v, p) = v.of[p] /\ v.of[p] \in Group \cup {None}
<1>1. v.of[p] \in Group \cup {None} /\ \A g \in Group : v.of[p] = g <=> p \in v.members[g]
  BY DEF Book, GroupsRight
<1> QED
  BY <1>1, Names DEF GroupOf

(* p has left g for the group of the proposal, or with the whole of g.      *)
Quit(v, u, g, p) ==
  /\ Book(u) /\ SameQueue(v, u) /\ SameRest(v, u) /\ u.members = u.players
  /\ u.state \in [Guid -> State] /\ u.old \in [Guid -> OldState]
  /\ \A y \in Guid : y # g => u.state[y] = v.state[y] /\ u.old[y] = v.old[y]
  /\ IF u.players[g] = {} THEN u.state[g] = "none" /\ u.old[g] = "none"
     ELSE u.state[g] = v.state[g] /\ u.old[g] = v.old[g]
  /\ u.players[g] \subseteq v.players[g] \ {p}
  /\ \A x \in Group : x # g => u.players[x] = v.players[x]
  /\ u.of[p] = None /\ \A q \in Player : u.of[q] = v.of[q] \/ (v.of[q] = g /\ u.of[q] = None)

LEMMA MemberQuits ==
  ASSUME NEW v, Book(v), v.members = v.players, NEW g \in Group, NEW p \in Player, v.of[p] = g,
         g \notin DOMAIN v.checks, v.state[g] = "proposal",
         v.state \in [Guid -> State], v.old \in [Guid -> OldState]
  PROVE  Quit(v, RemoveMember(v, g, p, "default", FALSE), g, p)
<1> DEFINE v0 == Unvoted(v, g, p)
           v1 == Parted(v0, g, p)
           rest == v.members[g] \ {p}
           v2 == WithMembers(v1, g, rest)
           u == RemoveMember(v, g, p, "default", FALSE)
<1>1. OnRemoveMember(v, g, p, "default") = v1
  <2>1. v0 = IF g \in DOMAIN v.boots /\ v.boots[g] = p
             THEN [v EXCEPT !.boots = Restrict(@, DOMAIN @ \ {g})] ELSE v
    BY DEF Unvoted, WithoutBoots, BootsOf
  <2> HIDE DEF v0
  <2> QED
    BY <2>1 DEF OnRemoveMember, Parted
<1>2. \/ u = Disband(v1, g)
      \/ u = Disband(v2, g)
      \/ u = v2 /\ ~ (Cardinality(v.members[g]) <= Least(v, g))
  <2> HIDE DEF v1
  <2> QED
    BY <1>1 DEF RemoveMember, WithMembers
<1>3. /\ IsRecord(v) /\ GroupsRight(v) /\ v.of \in [Player -> Group \cup {None}]
      /\ v.players \in [Group -> SUBSET Player]
  BY DEF Book
<1>4. /\ Book(v0) /\ SameFinder(v, v0) /\ v0.members = v.members /\ v0.players = v.players
      /\ v0.of = v.of /\ (g \in DOMAIN v0.boots => v0.boots[g] # p)
  <2>1. CASE g \in DOMAIN v.boots /\ v.boots[g] = p
    <3> DEFINE B == BootsOf(v, g, p)
               t == WithoutBoots(v, B)
    <3>1. v0 = t /\ g \in B
      BY <2>1 DEF Unvoted, BootsOf
    <3> HIDE DEF B, v0
    <3>2. WithoutBootsIs(v, t, B)
      BY <1>3, WithoutBootsDoes
    <3> HIDE DEF t
    <3>3. Book(t)
      BY <3>2 DEF WithoutBootsIs, Book, GroupsRight
    <3> QED
      BY <3>1, <3>2, <3>3 DEF WithoutBootsIs
  <2>2. CASE ~ (g \in DOMAIN v.boots /\ v.boots[g] = p)
    <3>1. v0 = v
      BY <2>2 DEF Unvoted
    <3>2. SameFinder(v, v)
      BY DEF SameFinder, SameQueue, SameStates, SameRest
    <3> QED
      BY <3>1, <3>2, <2>2
  <2> QED
    BY <2>1, <2>2
<1> HIDE DEF v0
<1>5. PartedIs(v0, v1, g, p)
  BY <1>4, PartedDoes DEF Book
<1> HIDE DEF v1
<1>6. Book(v1)
  BY <1>4, <1>5, BookParted
<1>7. /\ SameFinder(v, v1) /\ v1.members = v.members /\ v1.players = [v.players EXCEPT ![g] = rest]
      /\ v1.of = [v.of EXCEPT ![p] = None]
  BY <1>4, <1>5 DEF PartedIs, SameFinder, SameQueue, SameStates, SameRest
<1>8. /\ IsRecord(v2) /\ SameFinder(v1, v2)
      /\ v2.members = [v1.members EXCEPT ![g] = rest] /\ v2.made = v1.made /\ v2.of = v1.of
      /\ v2.players = v1.players /\ v2.boots = v1.boots
  <2>1. IsRecord(v1)
    BY <1>6 DEF Book
  <2> HIDE DEF rest
  <2>2. WithMembersIs(v1, v2, g, rest)
    BY <2>1, WithMembersDoes
  <2> HIDE DEF v2
  <2> QED
    BY <2>2 DEF WithMembersIs
<1> HIDE DEF v2
<1>9. SameFinder(v, v2) /\ v2.members = v1.players
  BY <1>7, <1>8 DEF SameFinder, SameQueue, SameStates, SameRest
<1>10. Book(v2)
  <2>1. v2.members \in [Group -> SUBSET Player] /\ \A h \in Group : v2.players[h] \subseteq v2.members[h]
    BY <1>6, <1>8, <1>9 DEF Book
  <2> QED
    BY <2>1, <1>6, <1>8 DEF Book, GroupsRight
<1>11. g \in Guid /\ v.players[g] \subseteq Player /\ rest = v.players[g] \ {p}
  BY <1>3, Names
<1> HIDE DEF rest
<1>12. ASSUME NEW t, Book(t), SameFinder(v, t), t.of = v1.of, t.players = v1.players,
              [t.members EXCEPT ![g] = {}] = [t.players EXCEPT ![g] = {}]
       PROVE  Quit(v, Disband(t, g), g, p)
  <2> DEFINE d == Disband(t, g)
  <2>1. IsRecord(t) /\ g \notin DOMAIN t.checks /\ t.state[g] = "proposal"
        /\ t.state = v.state /\ t.old = v.old
    BY <1>12 DEF SameFinder, SameStates, SameRest, Book
  <2>2. OnlyGroupGone(t, d, g)
    BY <2>1, DisbandOfProposal
  <2> HIDE DEF d
  <2>3. GroupIsOut(t, d, g)
    BY <2>2 DEF OnlyGroupGone
  <2>4. Book(d)
    BY <1>12, <2>3, BookOut
  <2>5. /\ d.of = [q \in Player |-> IF q \in t.players[g] THEN None ELSE t.of[q]]
        /\ d.players = [t.players EXCEPT ![g] = {}] /\ d.members = [t.members EXCEPT ![g] = {}]
    BY <2>3 DEF GroupIsOut
  <2>6. SameQueue(v, d) /\ SameRest(v, d)
    BY <1>12, <2>2 DEF OnlyGroupGone, SameFinder, SameQueue, SameRest
  <2>7. /\ d.state = [y \in Guid |-> IF y = g THEN "none" ELSE v.state[y]]
        /\ d.old = [y \in Guid |-> IF y = g THEN "none" ELSE v.old[y]]
    BY <2>1, <2>2 DEF OnlyGroupGone
  <2>8. d.state \in [Guid -> State] /\ d.old \in [Guid -> OldState]
    BY <2>7 DEF State, OldState
  <2>9. d.members = d.players
    BY <1>12, <2>5
  <2>10. /\ \A y \in Guid : y # g => d.state[y] = v.state[y] /\ d.old[y] = v.old[y]
         /\ d.state[g] = "none" /\ d.old[g] = "none"
    BY <2>7, <1>11
  <2>11. d.players[g] = {} /\ \A x \in Group : x # g => d.players[x] = v.players[x]
    BY <2>5, <1>12, <1>7, <1>3
  <2>12. t.of = [v.of EXCEPT ![p] = None] /\ t.players[g] \subseteq v.players[g]
    BY <1>12, <1>7, <1>3, <1>11
  <2>13. \A q \in v.players[g] : v.of[q] = g
    BY <1>3, <1>11 DEF GroupsRight
  <2>14. \A q \in Player : d.of[q] = v.of[q] \/ (v.of[q] = g /\ d.of[q] = None)
    BY <2>5, <2>12, <2>13, <1>3
  <2>15. d.of[p] = None
    BY <2>5, <2>12, <1>3
  <2>16. d.players[g] \subseteq v.players[g] \ {p}
    BY <2>11
  <2>17. Quit(v, d, g, p)
    BY <2>4, <2>6, <2>8, <2>9, <2>10, <2>11, <2>14, <2>15, <2>16 DEF Quit
  <2> QED
    BY <2>17 DEF d
<1>13. Quit(v, Disband(v1, g), g, p)
  <2>1. v1.members = v.players /\ v1.players = [v.players EXCEPT ![g] = rest]
    BY <1>7
  <2>2. [v.players EXCEPT ![g] = {}] = [[v.players EXCEPT ![g] = rest] EXCEPT ![g] = {}]
    BY <1>3
  <2>3. [v1.members EXCEPT ![g] = {}] = [v1.players EXCEPT ![g] = {}]
    BY <2>1, <2>2
  <2> QED
    BY <2>3, <1>6, <1>7, <1>12
<1>14. Quit(v, Disband(v2, g), g, p)
  <2>1. [v2.members EXCEPT ![g] = {}] = [v2.players EXCEPT ![g] = {}]
    BY <1>8, <1>9
  <2> QED
    BY <2>1, <1>8, <1>9, <1>10, <1>12
<1>15. ASSUME ~ (Cardinality(v.members[g]) <= Least(v, g))
       PROVE  Quit(v, v2, g, p)
  <2>1. rest # {}
    <3>1. v.players[g] \in SUBSET Player /\ Cardinality({}) = 0
          /\ rest \in SUBSET Player /\ v.players[g] \subseteq rest \cup {p}
      BY <1>11, FS_EmptySet
    <3>2. Cardinality(v.players[g]) \in Nat /\ IsFiniteSet(rest \cup {p})
      BY <3>1, FewPlayers
    <3>3. Cardinality(v.players[g]) > 1
      <4>1. Least(v, g) \in {1, 2}
        BY DEF Least
      <4> QED
        BY <4>1, <3>2, <1>15
    <3>4. Cardinality(v.players[g]) <= Cardinality(rest \cup {p}) /\ Cardinality(rest \cup {p}) \in Nat
      BY <3>1, <3>2, FS_Subset, FS_CardinalityType
    <3>5. Cardinality(rest \cup {p}) <= Cardinality(rest) + 1 /\ Cardinality(rest) \in Nat
      BY <3>1, FewPlayers
    <3>6. Cardinality(rest) # 0
      BY <3>2, <3>3, <3>4, <3>5
    <3> QED
      BY <3>1, <3>6
  <2>2. v2.state = v.state /\ v2.old = v.old /\ SameQueue(v, v2) /\ SameRest(v, v2)
    BY <1>9 DEF SameFinder, SameStates
  <2>3. v2.players[g] = rest /\ \A x \in Group : x # g => v2.players[x] = v.players[x]
    BY <1>7, <1>8, <1>3
  <2>4. v2.of[p] = None /\ \A q \in Player : v2.of[q] = v.of[q] \/ (v.of[q] = g /\ v2.of[q] = None)
    BY <1>7, <1>8, <1>3
  <2>5. /\ v2.players[g] # {} /\ v2.players[g] \subseteq v.players[g] \ {p}
        /\ v2.state \in [Guid -> State] /\ v2.old \in [Guid -> OldState] /\ v2.members = v2.players
    BY <2>1, <2>2, <2>3, <1>8, <1>9, <1>11
  <2> QED
    BY <2>2, <2>3, <2>4, <2>5, <1>10 DEF Quit
<1> HIDE DEF u
<1>16. Quit(v, u, g, p)
  BY <1>2, <1>13, <1>14, <1>15
<1> QED
  BY <1>16 DEF u

(* p has joined g, that of the proposal.                                    *)
Entered(v, u, g, p) ==
  /\ Book(u) /\ SameFinder(v, u) /\ u.members = u.players
  /\ u.of = [v.of EXCEPT ![p] = g]
  /\ u.players = [v.players EXCEPT ![g] = v.players[g] \cup {p}]

LEMMA MemberEnters ==
  ASSUME NEW v, Book(v), v.members = v.players, NEW g \in Group, NEW p \in Player,
         v.of[p] = None, Cardinality(v.players[g]) < Size,
         v.state[p] = "dungeon", v.state[g] = "proposal"
  PROVE  Entered(v, AddMember(v, g, p, TRUE), g, p)
<1> DEFINE S == v.members[g] \cup {p}
           v0 == WithMembers(v, g, S)
           u == Joined(v0, g, p)
<1>1. IsRecord(v) /\ v.players \in [Group -> SUBSET Player] /\ GroupsRight(v)
  BY DEF Book
<1> HIDE DEF S
<1>2. WithMembersIs(v, v0, g, S)
  BY <1>1, WithMembersDoes
<1>3. AddMember(v, g, p, TRUE) = OnAddMember(v0, g, p, TRUE)
  BY DEF AddMember, WithMembers, S
<1> HIDE DEF v0
<1>4. /\ IsRecord(v0) /\ SameFinder(v, v0) /\ v0.players = v.players /\ v0.of = v.of
      /\ v0.members = [v.members EXCEPT ![g] = S] /\ v0.made = v.made /\ v0.boots = v.boots
  BY <1>2 DEF WithMembersIs
<1>5. v0.state = v.state
  BY <1>4 DEF SameFinder, SameStates
<1>6. OnAddMember(v0, g, p, TRUE) = u
  BY <1>5 DEF OnAddMember, Joined
<1>7. Book(v0)
  <2>1. v0.members \in [Group -> SUBSET Player]
    BY <1>1, <1>4 DEF S
  <2>2. \A h \in Group : v0.players[h] \subseteq v0.members[h]
    BY <1>1, <1>4 DEF S, GroupsRight
  <2> QED
    BY <2>1, <2>2, <1>1, <1>4 DEF Book, GroupsRight
<1>8. JoinedIs(v0, u, g, p)
  BY <1>4, JoinedDoes
<1> HIDE DEF u
<1>9. p \in v0.members[g]
  BY <1>1, <1>4 DEF S
<1>10. Book(u)
  BY <1>4, <1>7, <1>8, <1>9, BookJoined
<1>11. SameFinder(v, u)
  BY <1>4, <1>8 DEF JoinedIs, SameFinder, SameQueue, SameStates, SameRest
<1>12. Entered(v, u, g, p)
  BY <1>4, <1>8, <1>10, <1>11 DEF Entered, JoinedIs, S
<1> QED
  BY <1>3, <1>6, <1>12

(* The players D of the units Q are to be the members of g, which is one of  *)
(* Q or a new group; and those of T, who are.                               *)
ToForm(b, Q, D, g) ==
  /\ Book(b) /\ b.members = b.players
  /\ b.state \in [Guid -> State] /\ b.old \in [Guid -> OldState]
  /\ D \in SUBSET Player /\ Cardinality(D) = Size /\ Q \subseteq Guid /\ g \in Group
  /\ \A p \in D : b.of[p] \in Q \cup {None} /\ b.state[p] = "dungeon"
  /\ b.players[g] \subseteq D /\ b.state[g] = "proposal"
  /\ \A x \in Q \cap Group : /\ b.players[x] # {} /\ b.players[x] \subseteq D /\ b.state[x] = "proposal"
                             /\ x \notin DOMAIN b.checks

Forming(b, u, Q, D, g, T) ==
  /\ Book(u) /\ SameQueue(b, u) /\ SameRest(b, u) /\ u.members = u.players
  /\ u.state \in [Guid -> State] /\ u.old \in [Guid -> OldState]
  /\ u.players[g] = b.players[g] \cup T
  /\ \A p \in Player : u.of[p] = b.of[p] \/ (p \in D /\ u.of[p] \in {None, g})
  /\ \A y \in Guid : y \in Player \/ y \notin Q \/ y = g => u.state[y] = b.state[y] /\ u.old[y] = b.old[y]
  /\ \A x \in Q \cap Group : x # g =>
       /\ u.players[x] \subseteq b.players[x] \ T
       /\ IF u.players[x] = {} THEN u.state[x] = "none" /\ u.old[x] = "none"
          ELSE u.state[x] = b.state[x] /\ u.old[x] = b.old[x]

LEMMA Entering ==
  ASSUME NEW b, NEW u, NEW Q, NEW D, NEW g, NEW T \in SUBSET D, ToForm(b, Q, D, g),
         Forming(b, u, Q, D, g, T), NEW p \in D, u.of[p] = None
  PROVE  Forming(b, AddMember(u, g, p, TRUE), Q, D, g, T \cup {p})
<1> DEFINE t == AddMember(u, g, p, TRUE)
<1>1. /\ Book(u) /\ u.members = u.players /\ g \in Group /\ p \in Player /\ D \in SUBSET Player
      /\ p \in Guid /\ g \in Guid /\ GroupsRight(u)
      /\ u.players \in [Group -> SUBSET Player] /\ u.of \in [Player -> Group \cup {None}]
  BY Names DEF ToForm, Forming, Book
<1>2. Cardinality(u.players[g]) < Size
  <2>1. u.players[g] \in SUBSET (D \ {p})
    <3>1. p \notin u.players[g]
      BY <1>1, Names DEF GroupsRight
    <3>2. u.players[g] \subseteq D
      BY DEF Forming, ToForm
    <3> QED
      BY <3>1, <3>2
  <2>2. IsFiniteSet(D) /\ Cardinality(D) = Size
    BY <1>1, FewPlayers DEF ToForm
  <2>3. IsFiniteSet(D \ {p}) /\ Cardinality(D \ {p}) = Cardinality(D) - 1
    BY <2>2, FS_RemoveElement
  <2>4. Cardinality(u.players[g]) <= Cardinality(D \ {p}) /\ Cardinality(u.players[g]) \in Nat
    BY <2>1, <2>3, FS_Subset, FS_CardinalityType
  <2> QED
    BY <2>2, <2>3, <2>4, FinderAssumption DEF FinderAssumption
<1>3. u.state[p] = "dungeon" /\ u.state[g] = "proposal"
  BY <1>1 DEF Forming, ToForm
<1>4. Entered(u, t, g, p)
  BY <1>1, <1>2, <1>3, MemberEnters
<1> HIDE DEF t
<1>5. /\ Book(t) /\ t.members = t.players /\ t.of = [u.of EXCEPT ![p] = g]
      /\ t.players = [u.players EXCEPT ![g] = u.players[g] \cup {p}]
      /\ SameQueue(u, t) /\ SameRest(u, t) /\ t.state = u.state /\ t.old = u.old
  BY <1>4 DEF Entered, SameFinder, SameStates
<1>6. SameQueue(b, t) /\ SameRest(b, t)
  BY <1>5 DEF Forming, SameQueue, SameRest
<1>7. t.players[g] = b.players[g] \cup (T \cup {p})
  BY <1>1, <1>5 DEF Forming
<1>8. \A q \in Player : t.of[q] = b.of[q] \/ (q \in D /\ t.of[q] \in {None, g})
  BY <1>1, <1>5 DEF Forming
<1>9. \A y \in Guid : y \in Player \/ y \notin Q \/ y = g => t.state[y] = b.state[y] /\ t.old[y] = b.old[y]
  BY <1>5 DEF Forming
<1>10. ASSUME NEW x \in Q \cap Group, x # g
       PROVE  /\ t.players[x] \subseteq b.players[x] \ (T \cup {p})
              /\ IF t.players[x] = {} THEN t.state[x] = "none" /\ t.old[x] = "none"
                 ELSE t.state[x] = b.state[x] /\ t.old[x] = b.old[x]
  <2>1. t.players[x] = u.players[x]
    BY <1>1, <1>5, <1>10
  <2>2. p \notin u.players[x]
    BY <1>1, <1>10, Names DEF GroupsRight
  <2> QED
    BY <2>1, <2>2, <1>5, <1>10 DEF Forming
<1>11. t.state \in [Guid -> State] /\ t.old \in [Guid -> OldState]
  BY <1>5 DEF Forming
<1> DEFINE TT == T \cup {p}
<1>12. Forming(b, t, Q, D, g, TT)
  BY <1>5, <1>6, <1>7, <1>8, <1>9, <1>10, <1>11 DEF Forming
<1> QED
  BY <1>12 DEF t

Quits(v, p) == RemoveMember(v, v.of[p], p, "default", FALSE)

LEMMA Quitting ==
  ASSUME NEW b, NEW u, NEW Q, NEW D, NEW g, NEW T \in SUBSET D, ToForm(b, Q, D, g),
         Forming(b, u, Q, D, g, T), NEW p \in D, u.of[p] # None, u.of[p] # g
  PROVE  Forming(b, Quits(u, p), Q, D, g, T) /\ Quits(u, p).of[p] = None
<1> DEFINE h == u.of[p]
           t == Quits(u, p)
<1>1. /\ Book(u) /\ u.members = u.players /\ g \in Group /\ p \in Player /\ D \in SUBSET Player
      /\ p \in Guid /\ g \in Guid /\ GroupsRight(u)
      /\ u.players \in [Group -> SUBSET Player] /\ u.of \in [Player -> Group \cup {None}]
      /\ u.state \in [Guid -> State] /\ u.old \in [Guid -> OldState]
  BY Names DEF ToForm, Forming, Book
<1>2. h \in Group /\ h \in Q /\ h \in Guid /\ h \notin Player
  <2>1. h \in Group
    BY <1>1
  <2>2. b.of[p] = h
    BY <1>1 DEF Forming
  <2>3. h \in Q
    BY <2>2 DEF ToForm
  <2> QED
    BY <2>1, <2>3, Names
<1>3. p \in u.players[h]
  BY <1>1, <1>2 DEF GroupsRight
<1>4. u.state[h] = "proposal" /\ h \notin DOMAIN u.checks
  BY <1>2, <1>3 DEF Forming, ToForm, SameRest
<1>5. Quit(u, t, h, p)
  BY <1>1, <1>2, <1>4, MemberQuits DEF Quits
<1> HIDE DEF t
<1>6. /\ Book(t) /\ SameQueue(u, t) /\ SameRest(u, t) /\ t.members = t.players
      /\ t.state \in [Guid -> State] /\ t.old \in [Guid -> OldState] /\ t.of[p] = None
  BY <1>5 DEF Quit
<1>7. SameQueue(b, t) /\ SameRest(b, t)
  BY <1>6 DEF Forming, SameQueue, SameRest
<1>8. t.players[g] = b.players[g] \cup T
  BY <1>1, <1>5 DEF Forming, Quit
<1>9. \A q \in Player : t.of[q] = b.of[q] \/ (q \in D /\ t.of[q] \in {None, g})
  <2> TAKE q \in Player
  <2>1. CASE t.of[q] = u.of[q]
    BY <2>1 DEF Forming
  <2>2. CASE u.of[q] = h /\ t.of[q] = None
    <3>1. b.of[q] = h
      BY <2>2 DEF Forming
    <3>2. q \in b.players[h]
      BY <3>1, <1>2 DEF ToForm, Book, GroupsRight
    <3>3. q \in D
      BY <3>2, <1>2 DEF ToForm
    <3> QED
      BY <3>3, <2>2
  <2> QED
    BY <2>1, <2>2, <1>5 DEF Quit
<1>10. \A y \in Guid : y \in Player \/ y \notin Q \/ y = g => t.state[y] = b.state[y] /\ t.old[y] = b.old[y]
  <2>1. \A y \in Guid : y \in Player \/ y \notin Q \/ y = g => y # h
    BY <1>2
  <2>2. \A y \in Guid : y # h => t.state[y] = u.state[y] /\ t.old[y] = u.old[y]
    BY <1>5 DEF Quit
  <2> QED
    BY <2>1, <2>2 DEF Forming
<1>11. ASSUME NEW x \in Q \cap Group, x # g
       PROVE  /\ t.players[x] \subseteq b.players[x] \ T
              /\ IF t.players[x] = {} THEN t.state[x] = "none" /\ t.old[x] = "none"
                 ELSE t.state[x] = b.state[x] /\ t.old[x] = b.old[x]
  <2>1. /\ u.players[x] \subseteq b.players[x] \ T
        /\ IF u.players[x] = {} THEN u.state[x] = "none" /\ u.old[x] = "none"
           ELSE u.state[x] = b.state[x] /\ u.old[x] = b.old[x]
    BY <1>11 DEF Forming
  <2>2. CASE x = h
    <3>1. t.players[x] \subseteq u.players[x]
      BY <2>2, <1>5 DEF Quit
    <3>2. u.state[x] = b.state[x] /\ u.old[x] = b.old[x]
      BY <2>1, <2>2, <1>3
    <3>3. IF t.players[x] = {} THEN t.state[x] = "none" /\ t.old[x] = "none"
          ELSE t.state[x] = u.state[x] /\ t.old[x] = u.old[x]
      BY <2>2, <1>5 DEF Quit
    <3> QED
      BY <2>1, <3>1, <3>2, <3>3
  <2>3. CASE x # h
    <3>1. x \in Guid /\ t.players[x] = u.players[x]
      BY <2>3, <1>5, <1>11, Names DEF Quit
    <3>2. t.state[x] = u.state[x] /\ t.old[x] = u.old[x]
      BY <2>3, <3>1, <1>5 DEF Quit
    <3> QED
      BY <2>1, <3>1, <3>2
  <2> QED
    BY <2>2, <2>3
<1>12. Forming(b, t, Q, D, g, T)
  BY <1>6, <1>7, <1>8, <1>9, <1>10, <1>11 DEF Forming
<1> QED
  BY <1>6, <1>12 DEF t

LEMMA EnterForms ==
  ASSUME NEW b, NEW u, NEW Q, NEW D, NEW g, NEW T \in SUBSET D, ToForm(b, Q, D, g),
         Forming(b, u, Q, D, g, T), NEW p \in D
  PROVE  Forming(b, Enter(p, g, u), Q, D, g, T \cup {p})
<1>1. /\ Book(u) /\ u.members = u.players /\ p \in Player /\ g \in Group /\ GroupsRight(u)
      /\ u.players \in [Group -> SUBSET Player]
  BY DEF ToForm, Forming, Book
<1> DEFINE h == GroupOf(u, p)
           r == Quits(u, p)
<1>2. h = u.of[p] /\ h \in Group \cup {None}
  BY <1>1, OneGroupEach
<1>3. Enter(p, g, u) = IF h = g THEN u ELSE AddMember(IF h = None THEN u ELSE r, g, p, TRUE)
  BY <1>2 DEF Enter, Quits
<1> HIDE DEF h
<1>4. CASE h = g
  <2>0. u.of[p] = g
    BY <1>2, <1>4
  <2>1. p \in u.players[g]
    BY <2>0, <1>1 DEF GroupsRight
  <2> DEFINE TT == T \cup {p}
  <2>2. u.players[g] = b.players[g] \cup TT
    BY <2>1 DEF Forming
  <2>3. \A x \in Q \cap Group : x # g => p \notin u.players[x]
    BY <1>1, <1>2, <1>4 DEF GroupsRight
  <2>4. \A x \in Q \cap Group : x # g => u.players[x] \subseteq b.players[x] \ TT
    BY <2>3 DEF Forming
  <2> HIDE DEF TT
  <2>5. Forming(b, u, Q, D, g, TT)
    BY <2>2, <2>4 DEF Forming
  <2> QED
    BY <2>5, <1>3, <1>4 DEF TT
<1>5. CASE h # g /\ h = None
  <2>1. Forming(b, AddMember(u, g, p, TRUE), Q, D, g, T \cup {p})
    BY <1>2, <1>5, Entering
  <2> QED
    BY <2>1, <1>3, <1>5
<1>6. CASE h # g /\ h # None
  <2>1. Forming(b, r, Q, D, g, T) /\ r.of[p] = None
    <3>1. u.of[p] # None /\ u.of[p] # g
      BY <1>2, <1>6
    <3> QED
      BY <3>1, Quitting
  <2> HIDE DEF r
  <2>2. Forming(b, AddMember(r, g, p, TRUE), Q, D, g, T \cup {p})
    BY <2>1, Entering
  <2>3. Enter(p, g, u) = AddMember(r, g, p, TRUE)
    BY <1>3, <1>6 DEF r
  <2> QED
    BY <2>2, <2>3
<1> QED
  BY <1>4, <1>5, <1>6

LEMMA AllEnter ==
  ASSUME NEW b, NEW Q, NEW D, NEW g, ToForm(b, Q, D, g)
  PROVE  Forming(b, EnterAll(b, g, D), Q, D, g, D)
<1>1. IsFiniteSet(D)
  BY FS_Subset, FinderAssumption DEF FinderAssumption, ToForm
<1>2. PICK f : EnterAll(b, g, D) = f[D] /\ EnterFolds(f, b, g, D)
  BY <1>1, EnterFold
<1> DEFINE I == {s \in SUBSET D : Forming(b, f[s], Q, D, g, s)}
           N == {}
<1>3. Forming(b, b, Q, D, g, N)
  BY DEF Forming, ToForm, SameQueue, SameRest
<1>4. {} \in I
  BY <1>2, <1>3 DEF EnterFolds
<1>5. ASSUME NEW s \in SUBSET D, s # {}, s \ {Pick(s)} \in I
      PROVE  s \in I
  <2> DEFINE p == Pick(s)
             T == s \ {p}
  <2>1. p \in s
    BY <1>1, <1>5, OneLess
  <2>2. Forming(b, f[T], Q, D, g, T) /\ f[s] = Enter(p, g, f[T])
    BY <1>2, <1>5 DEF EnterFolds
  <2>4. p \in D /\ T \in SUBSET D /\ T \cup {p} = s
    <3> HIDE DEF p
    <3> QED
      BY <2>1
  <2> HIDE DEF p, T
  <2>3. Forming(b, f[s], Q, D, g, T \cup {p})
    BY <2>2, <2>4, EnterForms
  <2> QED
    BY <2>4, <2>3
<1>6. D \in I
  <2> HIDE DEF I
  <2> QED
    BY <1>1, <1>4, <1>5, SetInduction
<1> QED
  BY <1>2, <1>6

-----------------------------------------------------------------------------
(* A proposal comes about.                                                  *)

NewGroup(v, h) == [v EXCEPT !.made = @ \cup {h}, !.state[h] = "proposal"]

NewGroupIs(v, u, h) ==
  /\ IsRecord(u) /\ SameQueue(v, u) /\ SameRest(v, u)
  /\ u.members = v.members /\ u.made = v.made \cup {h} /\ u.of = v.of
  /\ u.players = v.players /\ u.boots = v.boots
  /\ u.state = [v.state EXCEPT ![h] = "proposal"] /\ u.old = v.old

LEMMA NewGroupDoes ==
  ASSUME NEW v, IsRecord(v), NEW h
  PROVE  NewGroupIs(v, NewGroup(v, h), h)
<1> DEFINE m == v.made \cup {h}
           s == [v.state EXCEPT ![h] = "proposal"]
           u == [v EXCEPT !.made = m, !.state = s]
<1>1. NewGroup(v, h) = u
  BY DEF NewGroup, IsRecord, Fields
<1> HIDE DEF m, s
<1>2. /\ IsRecord(u) /\ SameQueue(v, u) /\ SameRest(v, u)
      /\ u.members = v.members /\ u.made = m /\ u.of = v.of
      /\ u.players = v.players /\ u.boots = v.boots /\ u.state = s /\ u.old = v.old
  BY DEF IsRecord, Fields, SameQueue, SameRest
<1> HIDE DEF u
<1> QED
  BY <1>1, <1>2 DEF NewGroupIs, m, s

(* Before the players enter: they are in the dungeon, and their units are    *)
(* no longer in the queue.                                                 *)
Starting(v, pr) == RemoveFromQueue(SetStates(v, DOMAIN pr.accept, "dungeon"), pr.queues)

StartingIs(v, u, D, Q) ==
  /\ IsRecord(u) /\ SameGroups(v, u) /\ SameRest(v, u)
  /\ u.data = Restrict(v.data, DOMAIN v.data \ Q)
  /\ u.new = v.new \ Q /\ u.current = v.current \ Q /\ u.rematch = v.rematch \ Q
  /\ u.state = Become(v.state, D, "dungeon") /\ u.old = Become(v.old, D, "dungeon")

LEMMA StartingDoes ==
  ASSUME NEW v, IsRecord(v), NEW pr
  PROVE  StartingIs(v, Starting(v, pr), DOMAIN pr.accept, pr.queues)
<1> DEFINE D == DOMAIN pr.accept
           Q == pr.queues
           s == SetStates(v, D, "dungeon")
           u == RemoveFromQueue(s, Q)
<1> HIDE DEF D, Q
<1>1. /\ IsRecord(s) /\ SameGroups(v, s) /\ SameQueue(v, s) /\ SameRest(v, s)
      /\ s.state = [x \in Guid |-> IF x \in D THEN "dungeon" ELSE v.state[x]]
      /\ s.old = [x \in Guid |-> IF x \in D /\ "dungeon" \in OldState THEN "dungeon" ELSE v.old[x]]
  BY SetStatesDoes
<1> HIDE DEF s
<1>2. /\ IsRecord(u) /\ SameGroups(s, u) /\ SameStates(s, u) /\ SameRest(s, u)
      /\ u.data = Restrict(s.data, DOMAIN s.data \ Q)
      /\ u.new = s.new \ Q /\ u.current = s.current \ Q /\ u.rematch = s.rematch \ Q
  BY <1>1, RemoveFromQueueDoes
<1> HIDE DEF u
<1>3. u.state = Become(v.state, D, "dungeon") /\ u.old = Become(v.old, D, "dungeon")
  BY <1>1, <1>2 DEF SameStates, Become, OldState
<1>4. SameGroups(v, u) /\ SameRest(v, u)
  BY <1>1, <1>2 DEF SameGroups, SameRest
<1>5. StartingIs(v, u, D, Q)
  BY <1>1, <1>2, <1>3, <1>4 DEF StartingIs, SameQueue
<1>6. u = Starting(v, pr)
  BY DEF u, s, D, Q, Starting
<1> QED
  BY <1>5, <1>6 DEF D, Q

(* The units of the proposal are free, and in the dungeon: a state that the  *)
(* finder never is in, and from which the groups change.                    *)
Freed(v, pr) ==
  [SetStates(RemoveFromQueue(v, pr.queues), DOMAIN pr.of \cup (UnitsIn(v, pr) \cap Group), "dungeon")
     EXCEPT !.proposals = @ \ {pr}]

FreedIs(v, u, pr) ==
  /\ IsRecord(u) /\ SameGroups(v, u) /\ u.checks = v.checks /\ u.cancels = v.cancels
  /\ u.proposals = v.proposals \ {pr}
  /\ DOMAIN u.data = DOMAIN v.data \ pr.queues /\ \A y \in DOMAIN u.data : u.data[y] = v.data[y]
  /\ u.new = v.new \ pr.queues /\ u.current = v.current \ pr.queues
  /\ u.rematch = v.rematch \ pr.queues
  /\ u.state = Become(v.state, DOMAIN pr.of \cup (UnitsIn(v, pr) \cap Group), "dungeon")
  /\ u.old = Become(v.old, DOMAIN pr.of \cup (UnitsIn(v, pr) \cap Group), "dungeon")

LEMMA FreedDoes ==
  ASSUME NEW v, IsRecord(v), NEW pr
  PROVE  FreedIs(v, Freed(v, pr), pr)
<1> DEFINE S == DOMAIN pr.of \cup (UnitsIn(v, pr) \cap Group)
           Q == pr.queues
           r == RemoveFromQueue(v, Q)
           s == SetStates(r, S, "dungeon")
           u == [s EXCEPT !.proposals = @ \ {pr}]
<1>1. u = Freed(v, pr)
  BY DEF Freed
<1> HIDE DEF S, Q
<1>2. /\ IsRecord(r) /\ SameGroups(v, r) /\ SameStates(v, r) /\ SameRest(v, r)
      /\ r.data = Restrict(v.data, DOMAIN v.data \ Q)
      /\ r.new = v.new \ Q /\ r.current = v.current \ Q /\ r.rematch = v.rematch \ Q
  BY RemoveFromQueueDoes
<1> HIDE DEF r
<1>3. /\ IsRecord(s) /\ SameGroups(r, s) /\ SameQueue(r, s) /\ SameRest(r, s)
      /\ s.state = [x \in Guid |-> IF x \in S THEN "dungeon" ELSE r.state[x]]
      /\ s.old = [x \in Guid |-> IF x \in S /\ "dungeon" \in OldState THEN "dungeon" ELSE r.old[x]]
  BY <1>2, SetStatesDoes
<1> HIDE DEF s
<1>4. /\ IsRecord(u) /\ SameGroups(s, u) /\ SameQueue(s, u) /\ SameStates(s, u)
      /\ u.checks = s.checks /\ u.cancels = s.cancels /\ u.proposals = s.proposals \ {pr}
  BY <1>3 DEF IsRecord, Fields, SameGroups, SameQueue, SameStates
<1> HIDE DEF u
<1>5. u.state = Become(v.state, S, "dungeon") /\ u.old = Become(v.old, S, "dungeon")
  BY <1>2, <1>3, <1>4 DEF SameStates, Become, OldState
<1>6. DOMAIN u.data = DOMAIN v.data \ Q /\ \A y \in DOMAIN u.data : u.data[y] = v.data[y]
  BY <1>2, <1>3, <1>4 DEF SameQueue, Restrict
<1>7. u.new = v.new \ Q /\ u.current = v.current \ Q /\ u.rematch = v.rematch \ Q
  BY <1>2, <1>3, <1>4 DEF SameQueue
<1>8. SameGroups(v, u) /\ u.checks = v.checks /\ u.cancels = v.cancels /\ u.proposals = v.proposals \ {pr}
  BY <1>2, <1>3, <1>4 DEF SameGroups, SameRest
<1>9. FreedIs(v, u, pr)
  BY <1>4, <1>5, <1>6, <1>7, <1>8 DEF FreedIs, S, Q
<1> QED
  BY <1>1, <1>9

LEMMA FreedGood ==
  ASSUME NEW v, NEW on, Good(v, on), NEW pr \in v.proposals
  PROVE  Good(Freed(v, pr), on)
<1> DEFINE u == Freed(v, pr)
           Q == UnitsIn(v, pr)
           U == {}
<1>1. Settled(v, on, U) /\ U \cap Q \subseteq Q /\ U \ Q = {} /\ pr.begun
      /\ v.cancels = <<>> /\ \A q \in v.proposals : q.begun
  BY DEF Good
<1> HIDE DEF U
<1>2. /\ Typed(v) /\ EntriesRight(v, on) /\ ProposalRight(v, pr)
  BY <1>1 DEF Settled, ProposalsRight
<1>3. FreedIs(v, u, pr)
  BY <1>2, FreedDoes DEF Typed
<1> HIDE DEF u
<1>4. pr.queues \cap (v.new \cup v.current) = {}
  BY <1>2 DEF ProposalRight
<1>5. \A y \in Guid : UnitOf(v, y) \in Q <=> y \in DOMAIN pr.of \cup (Q \cap Group)
  <2> TAKE y \in Guid
  <2>1. UnitOf(v, y) \in Q => y \in DOMAIN pr.of \cup (Q \cap Group)
    BY <1>1, ProposalUnits
  <2>2. y \in DOMAIN pr.of => UnitOf(v, y) \in Q
    BY <1>1, ProposalUnits
  <2>3. y \in Q \cap Group => UnitOf(v, y) \in Q
    BY DEF UnitOf
  <2> QED
    BY <2>1, <2>2, <2>3
<1>6. u.state = Become(v.state, DOMAIN pr.of \cup (Q \cap Group), "dungeon")
      /\ u.old = Become(v.old, DOMAIN pr.of \cup (Q \cap Group), "dungeon")
  BY <1>3 DEF FreedIs
<1>7. \A y \in Guid : IF UnitOf(v, y) \in Q THEN u.state[y] = "dungeon" /\ u.old[y] = "dungeon"
                      ELSE u.state[y] = v.state[y] /\ u.old[y] = v.old[y]
  BY <1>5, <1>6 DEF Become
<1>8. u.state \in [Guid -> State] /\ u.old \in [Guid -> OldState]
  BY <1>2, <1>6 DEF Become, Typed, State, OldState
<1>9. ProposalOver(v, u, pr, Q)
  <2>1. /\ IsRecord(u) /\ SameGroups(v, u) /\ u.checks = v.checks /\ u.proposals = v.proposals \ {pr}
        /\ DOMAIN u.data = DOMAIN v.data \ pr.queues /\ \A y \in DOMAIN u.data : u.data[y] = v.data[y]
        /\ u.rematch = v.rematch \ pr.queues
    BY <1>3 DEF FreedIs
  <2>2. u.new = v.new /\ u.current = v.current
    BY <1>3, <1>4 DEF FreedIs
  <2>4. \A y \in Guid : UnitOf(v, y) \notin Q => u.state[y] = v.state[y] /\ u.old[y] = v.old[y]
    BY <1>7
  <2>5. \A y \in Guid : UnitOf(v, y) \in Q => u.state[y] \in OldState /\ u.state[y] = u.old[y]
    BY <1>7 DEF OldState
  <2>6. \A p \in DOMAIN pr.of : Relict(v, pr, p) => p \in Q
    <3> TAKE p \in DOMAIN pr.of
    <3>1. UnitOf(v, p) \in Q
      BY DEF UnitsIn
    <3> QED
      BY <3>1 DEF Relict, UnitOf
  <2> HIDE DEF Q
  <2>7. ProposalOver(v, u, pr, Q)
    BY <1>8, <2>1, <2>2, <2>4, <2>5, <2>6 DEF ProposalOver, Q
  <2> QED
    BY <2>7
<1> HIDE DEF Q
<1>10. Settled(u, on, U \ Q)
  BY <1>1, <1>2, <1>9, ProposalEnds DEF Q
<1>11. Good(u, on)
  BY <1>1, <1>3, <1>10 DEF Good, FreedIs
<1> QED
  BY <1>11 DEF u

(* The players go to the group of the proposal, or to h, which is new.       *)
GroupFor(v, pr, h) == IF Exists(v, pr.group) THEN pr.group ELSE h
MayForm(v, pr, h)  == IF Exists(v, pr.group) THEN h = None ELSE h \in Fresh(v)

CanForm(v, pr, g) ==
  /\ g \in Group /\ v.players[g] \subseteq DOMAIN pr.of /\ g \notin Places(v) \ UnitsIn(v, pr)
  /\ DOMAIN pr.of \in SUBSET Player /\ Cardinality(DOMAIN pr.of) = Size
  /\ DOMAIN pr.accept = DOMAIN pr.of /\ UnitsIn(v, pr) \subseteq Guid
  /\ UnitsIn(v, pr) \cap DOMAIN v.checks = {}
  /\ \A p \in DOMAIN pr.of : UnitOf(v, p) \in UnitsIn(v, pr) /\ v.of[p] \in UnitsIn(v, pr) \cup {None}
  /\ \A x \in UnitsIn(v, pr) \cap Group :
       v.players[x] # {} /\ v.players[x] \subseteq DOMAIN pr.of /\ v.state[x] = "proposal"

LEMMA PlayersCanForm ==
  ASSUME NEW v, NEW on, Good(v, on), NEW pr \in v.proposals, NEW g \in Group,
         v.players[g] \subseteq DOMAIN pr.of, g \notin Places(v) \ UnitsIn(v, pr)
  PROVE  CanForm(v, pr, g) /\ DOMAIN pr.of \subseteq on
<1> DEFINE D == DOMAIN pr.of
           Q == UnitsIn(v, pr)
           U == {}
<1>1. Settled(v, on, U) /\ pr.begun
  BY DEF Good
<1> HIDE DEF U
<1>2. /\ Typed(v) /\ GroupsRight(v) /\ EntriesRight(v, on) /\ ProposalRight(v, pr) /\ ProposalTyped(pr)
  BY <1>1 DEF Settled, ProposalsRight, Typed
<1>3. /\ D \subseteq Player /\ DOMAIN pr.accept = D
      /\ \A p \in D : UnitOf(v, p) \in Q
      /\ \A x \in Q : x \in Guid /\ UnitOf(v, x) = x /\ \E p \in D : UnitOf(v, p) = x
  BY <1>1, ProposalUnits
<1>4. Cardinality(D) = Size
  BY <1>2, FinderAssumption DEF ProposalRight, FinderAssumption
<1>5. \A p \in D : v.of[p] \in Q \cup {None}
  BY <1>2, <1>3, UnitIs, Names
<1>6. Q \subseteq Offered(v, TRUE)
  BY <1>1, OfferedAre
<1>7. Q \cap DOMAIN v.checks = {}
  BY <1>1, <1>6, OfferedHaveData
<1>8. ASSUME NEW x \in Q \cap Group
      PROVE  v.players[x] # {} /\ v.players[x] \subseteq D /\ v.state[x] = "proposal"
  <2>1. \A p \in Player : p \in v.players[x] <=> UnitOf(v, p) = x
    BY <1>2, GroupUnit
  <2>2. v.players[x] \subseteq D
    BY <1>2, <2>1, GroupUnit DEF ProposalRight
  <2>3. v.players[x] # {}
    BY <1>3, <2>1
  <2>4. v.state[x] = "proposal"
    <3>1. x \in Guid /\ UnitOf(v, x) \in Offered(v, TRUE)
      BY <1>3, <1>6
    <3> QED
      BY <3>1, Reaches
  <2> QED
    BY <2>2, <2>3, <2>4
<1>9. D \subseteq on
  <2> SUFFICES ASSUME NEW p \in D PROVE p \in on
    OBVIOUS
  <2> DEFINE x == EntryOf(pr, p)
  <2>1. x \in DOMAIN v.data /\ EntryIs(v, pr, p)
    BY <1>1, ProposalUnits
  <2>2. Complete(v, on, v.data[x], x) \/ Remains(v, on, x)
    BY <1>2, <2>1 DEF EntriesRight
  <2>3. CASE x = UnitOf(v, p)
    <3> HIDE DEF x
    <3>1. ~ Remains(v, on, x)
      BY <1>2, <1>3, <2>3, GoneIs DEF Remains
    <3>2. Complete(v, on, v.data[x], x)
      BY <2>2, <3>1
    <3>3. \A q \in Player : q \in v.data[x] <=> UnitOf(v, q) = x
      BY <1>2, <3>2, CompleteMeans
    <3> QED
      BY <1>3, <2>3, <3>2, <3>3 DEF Complete
  <2>4. CASE Relict(v, pr, p) /\ x = pr.of[p]
    <3>1. v.data[x] = {p}
      BY <2>4 DEF Relict
    <3> HIDE DEF x
    <3>2. CASE Complete(v, on, v.data[x], x)
      BY <3>1, <3>2 DEF Complete
    <3>3. CASE Remains(v, on, x)
      BY <3>1, <3>3 DEF Remains, Relict
    <3> QED
      BY <2>2, <3>2, <3>3
  <2> QED
    BY <2>1, <2>3, <2>4 DEF EntryIs
<1>10. CanForm(v, pr, g)
  BY <1>3, <1>4, <1>5, <1>7, <1>8 DEF CanForm
<1> QED
  BY <1>9, <1>10


LEMMA GroupCanForm ==
  ASSUME NEW v, NEW on, Good(v, on), v.members = v.players, NEW pr \in v.proposals,
         NEW h, MayForm(v, pr, h)
  PROVE  LET g == GroupFor(v, pr, h)
         IN /\ CanForm(v, pr, g) /\ DOMAIN pr.of \subseteq on
            /\ g = h \/ v.state[g] = "proposal"
<1> DEFINE g == GroupFor(v, pr, h)
           U == {}
<1>1. Settled(v, on, U) /\ pr.begun
  BY DEF Good
<1> HIDE DEF U
<1>2. /\ Typed(v) /\ GroupsRight(v) /\ ProposalRight(v, pr) /\ ProposalTyped(pr)
  BY <1>1 DEF Settled, ProposalsRight, Typed
<1>3. CASE Exists(v, pr.group)
  <2>1. g = pr.group /\ g \in Group /\ g \in pr.queues /\ v.members[g] # {}
    BY <1>2, <1>3 DEF GroupFor, Exists, ProposalTyped, ProposalRight
  <2> HIDE DEF g
  <2>0. g \in UnitsIn(v, pr)
    BY <1>1, <2>1, ProposalUnits
  <2>2. v.players[g] \subseteq DOMAIN pr.of
    BY <1>2, <2>0, <2>1, GroupUnit DEF ProposalRight
  <2>3. CanForm(v, pr, g) /\ DOMAIN pr.of \subseteq on
    BY <2>0, <2>1, <2>2, PlayersCanForm
  <2>4. v.state[g] = "proposal"
    BY <2>0, <2>1, <2>3 DEF CanForm
  <2> QED
    BY <2>3, <2>4 DEF g
<1>4. CASE ~ Exists(v, pr.group)
  <2>1. g = h /\ h \in Fresh(v)
    BY <1>4 DEF GroupFor, MayForm
  <2> HIDE DEF g
  <2>2. g \in Group /\ v.players[g] = {} /\ g \notin Places(v)
    BY <2>1, FreshMeans
  <2>3. CanForm(v, pr, g) /\ DOMAIN pr.of \subseteq on
    BY <2>2, PlayersCanForm
  <2> QED
    BY <2>1, <2>3 DEF g
<1> QED
  BY <1>3, <1>4

(* The group to begin with.                                                 *)
Begins(v, pr, h) ==
  IF GroupFor(v, pr, h) = h THEN NewGroup(Starting(v, pr), h) ELSE Starting(v, pr)

BeginsIs(v, b, pr, g) ==
  /\ IsRecord(b) /\ SameRest(v, b)
  /\ b.members = v.members /\ b.of = v.of /\ b.players = v.players /\ b.boots = v.boots
  /\ b.made \in {v.made, v.made \cup {g}}
  /\ b.data = Restrict(v.data, DOMAIN v.data \ pr.queues)
  /\ b.new = v.new \ pr.queues /\ b.current = v.current \ pr.queues
  /\ b.rematch = v.rematch \ pr.queues
  /\ \A y \in Guid : b.state[y] = IF y \in DOMAIN pr.of THEN "dungeon"
                                  ELSE IF y = g THEN "proposal" ELSE v.state[y]
  /\ b.state \in [Guid -> State] /\ b.old = Become(v.old, DOMAIN pr.of, "dungeon")

LEMMA BeginsDoes ==
  ASSUME NEW v, Typed(v), NEW pr, NEW h, NEW g, g = GroupFor(v, pr, h), CanForm(v, pr, g),
         g = h \/ v.state[g] = "proposal"
  PROVE  BeginsIs(v, Begins(v, pr, h), pr, g)
<1> DEFINE s == Starting(v, pr)
           b == Begins(v, pr, h)
           D == DOMAIN pr.of
<1>1. StartingIs(v, s, D, pr.queues) /\ D \subseteq Player
  BY StartingDoes DEF Typed, CanForm
<1>2. g \in Group /\ g \notin D /\ v.state \in [Guid -> State]
  BY Names DEF CanForm, Typed
<1>3. CASE g = h
  <2>1. b = NewGroup(s, h)
    BY <1>3 DEF Begins
  <2> HIDE DEF s, b
  <2>2. NewGroupIs(s, b, g)
    BY <1>1, <1>3, <2>1, NewGroupDoes DEF StartingIs
  <2>3. s.state = Become(v.state, D, "dungeon") /\ b.state = [s.state EXCEPT ![g] = "proposal"]
    BY <1>1, <2>2 DEF StartingIs, NewGroupIs
  <2>4. /\ \A y \in Guid : b.state[y] = IF y \in D THEN "dungeon"
                                        ELSE IF y = g THEN "proposal" ELSE v.state[y]
        /\ b.state \in [Guid -> State]
    BY <2>3, <1>2, Names DEF Become, State
  <2>5. SameRest(v, b) /\ IsRecord(b) /\ b.members = v.members /\ b.of = v.of
        /\ b.players = v.players /\ b.boots = v.boots /\ b.made = v.made \cup {g}
    BY <1>1, <2>2 DEF StartingIs, NewGroupIs, SameRest, SameGroups
  <2>6. /\ b.data = Restrict(v.data, DOMAIN v.data \ pr.queues)
        /\ b.new = v.new \ pr.queues /\ b.current = v.current \ pr.queues
        /\ b.rematch = v.rematch \ pr.queues /\ b.old = Become(v.old, D, "dungeon")
    BY <1>1, <2>2 DEF StartingIs, NewGroupIs, SameQueue
  <2>7. BeginsIs(v, b, pr, g)
    BY <2>4, <2>5, <2>6 DEF BeginsIs
  <2> QED
    BY <2>7 DEF b
<1>4. CASE g # h
  <2>1. b = s
    BY <1>4 DEF Begins
  <2> HIDE DEF s, b
  <2>3. s.state = Become(v.state, D, "dungeon") /\ v.state[g] = "proposal"
    BY <1>1, <1>4 DEF StartingIs
  <2>4. /\ \A y \in Guid : b.state[y] = IF y \in D THEN "dungeon"
                                        ELSE IF y = g THEN "proposal" ELSE v.state[y]
        /\ b.state \in [Guid -> State]
    BY <2>1, <2>3, <1>2, Names DEF Become, State
  <2>7. BeginsIs(v, b, pr, g)
    BY <1>1, <2>1, <2>4 DEF BeginsIs, StartingIs, SameGroups
  <2> QED
    BY <2>7 DEF b
<1> QED
  BY <1>3, <1>4

LEMMA BeginsToForm ==
  ASSUME NEW v, NEW on, Good(v, on), v.members = v.players, NEW pr, NEW b, NEW g,
         CanForm(v, pr, g), BeginsIs(v, b, pr, g)
  PROVE  ToForm(b, UnitsIn(v, pr), DOMAIN pr.of, g)
<1> DEFINE D == DOMAIN pr.of
           Q == UnitsIn(v, pr)
           U == {}
<1>1. Settled(v, on, U)
  BY DEF Good
<1> HIDE DEF U
<1>2. Typed(v) /\ Book(v)
  BY <1>1, BookOf DEF Settled
<1>3. g \in Group /\ D \subseteq Player /\ g \notin D
  BY Names DEF CanForm
<1>4. Book(b) /\ b.members = b.players
  <2>1. GroupsRight(b)
    BY <1>2 DEF Book, GroupsRight, BeginsIs
  <2>2. b.made \subseteq Group
    BY <1>2, <1>3 DEF Book, BeginsIs
  <2> QED
    BY <1>2, <2>1, <2>2 DEF Book, BeginsIs
<1>5. b.old \in [Guid -> OldState] /\ b.state \in [Guid -> State]
  BY <1>2 DEF BeginsIs, Become, Typed, OldState
<1>6. \A p \in D : b.of[p] \in Q \cup {None} /\ b.state[p] = "dungeon"
  BY <1>3, Names DEF BeginsIs, CanForm
<1>7. b.players[g] \subseteq D /\ b.state[g] = "proposal"
  BY <1>3, Names DEF BeginsIs, CanForm
<1>8. ASSUME NEW x \in Q \cap Group
      PROVE  /\ b.players[x] # {} /\ b.players[x] \subseteq D /\ b.state[x] = "proposal"
             /\ x \notin DOMAIN b.checks
  <2>1. x \notin D /\ x \in Guid
    BY <1>3, Names
  <2>2. v.players[x] # {} /\ v.players[x] \subseteq D /\ v.state[x] = "proposal" /\ x \notin DOMAIN v.checks
    BY DEF CanForm
  <2> QED
    BY <2>1, <2>2 DEF BeginsIs, SameRest
<1>9. D \in SUBSET Player /\ Cardinality(D) = Size /\ Q \subseteq Guid
  BY DEF CanForm
<1> QED
  BY <1>3, <1>4, <1>5, <1>6, <1>7, <1>8, <1>9 DEF ToForm

(* The group g is in the dungeon, and the proposal is gone.                  *)
Formed(u, g, pr) == [SetStates(u, {g}, "dungeon") EXCEPT !.proposals = @ \ {pr}]

FormedIs(u, f, g, pr) ==
  /\ IsRecord(f) /\ SameGroups(u, f) /\ SameQueue(u, f)
  /\ f.checks = u.checks /\ f.cancels = u.cancels /\ f.proposals = u.proposals \ {pr}
  /\ \A y \in Guid : IF y = g THEN f.state[y] = "dungeon" /\ f.old[y] = "dungeon"
                     ELSE f.state[y] = u.state[y] /\ f.old[y] = u.old[y]
  /\ DOMAIN f.state = Guid /\ DOMAIN f.old = Guid
  /\ f.state = [y \in Guid |-> f.state[y]] /\ f.old = [y \in Guid |-> f.old[y]]

LEMMA FormedDoes ==
  ASSUME NEW u, IsRecord(u), NEW g, NEW pr
  PROVE  FormedIs(u, Formed(u, g, pr), g, pr)
<1> DEFINE s == SetStates(u, {g}, "dungeon")
           f == [s EXCEPT !.proposals = @ \ {pr}]
<1>1. f = Formed(u, g, pr)
  BY DEF Formed
<1>2. /\ IsRecord(s) /\ SameGroups(u, s) /\ SameQueue(u, s) /\ SameRest(u, s)
      /\ s.state = [x \in Guid |-> IF x \in {g} THEN "dungeon" ELSE u.state[x]]
      /\ s.old = [x \in Guid |-> IF x \in {g} /\ "dungeon" \in OldState THEN "dungeon" ELSE u.old[x]]
  BY SetStatesDoes
<1> HIDE DEF s
<1>3. /\ IsRecord(f) /\ SameGroups(s, f) /\ SameQueue(s, f) /\ SameStates(s, f)
      /\ f.checks = s.checks /\ f.cancels = s.cancels /\ f.proposals = s.proposals \ {pr}
  BY <1>2 DEF IsRecord, Fields, SameGroups, SameQueue, SameStates
<1> HIDE DEF f
<1>4. /\ f.state = [x \in Guid |-> IF x = g THEN "dungeon" ELSE u.state[x]]
      /\ f.old = [x \in Guid |-> IF x = g THEN "dungeon" ELSE u.old[x]]
  BY <1>2, <1>3 DEF SameStates, OldState
<1>5. /\ \A y \in Guid : IF y = g THEN f.state[y] = "dungeon" /\ f.old[y] = "dungeon"
                         ELSE f.state[y] = u.state[y] /\ f.old[y] = u.old[y]
      /\ DOMAIN f.state = Guid /\ DOMAIN f.old = Guid
      /\ f.state = [y \in Guid |-> f.state[y]] /\ f.old = [y \in Guid |-> f.old[y]]
  BY <1>4
<1>6. /\ SameGroups(u, f) /\ SameQueue(u, f) /\ f.checks = u.checks /\ f.cancels = u.cancels
      /\ f.proposals = u.proposals \ {pr}
  BY <1>2, <1>3 DEF SameGroups, SameQueue, SameRest
<1>7. FormedIs(u, f, g, pr)
  BY <1>3, <1>5, <1>6 DEF FormedIs
<1> QED
  BY <1>1, <1>7

LEMMA SucceedIs ==
  ASSUME NEW v, NEW pr, IsRecord(v), NEW h, NEW g, g = GroupFor(v, pr, h),
         DOMAIN pr.accept = DOMAIN pr.of, DOMAIN pr.of \subseteq online
  PROVE  Succeed(v, pr, h) = Formed(EnterAll(Begins(v, pr, h), g, DOMAIN pr.of), g, pr)
<1> DEFINE s == Starting(v, pr)
           b == Begins(v, pr, h)
           D == DOMAIN pr.of
<1>1. s.members = v.members
  BY StartingDoes DEF StartingIs, SameGroups
<1>2. D = DOMAIN pr.accept \cap online
  OBVIOUS
<1>3. (IF Exists(s, pr.group) THEN pr.group ELSE h) = g
  BY <1>1 DEF Exists, GroupFor
<1>4. (IF g = h THEN [s EXCEPT !.made = @ \cup {h}, !.state[h] = "proposal"] ELSE s) = b
  BY DEF Begins, NewGroup
<1> HIDE DEF b, D
<1>5. MakeNewGroup(s, pr, h) = SetStates(EnterAll(b, g, D), {g}, "dungeon")
  <2> HIDE DEF s
  <2>1. MakeNewGroup(s, pr, h) =
          SetStates(EnterAll(IF (IF Exists(s, pr.group) THEN pr.group ELSE h) = h
                             THEN [s EXCEPT !.made = @ \cup {h}, !.state[h] = "proposal"] ELSE s,
                             IF Exists(s, pr.group) THEN pr.group ELSE h,
                             DOMAIN pr.accept \cap online),
                    {IF Exists(s, pr.group) THEN pr.group ELSE h}, "dungeon")
    BY Zenon DEF MakeNewGroup, EnterAll
  <2>2. MakeNewGroup(s, pr, h) =
          SetStates(EnterAll(IF g = h
                             THEN [s EXCEPT !.made = @ \cup {h}, !.state[h] = "proposal"] ELSE s,
                             g, DOMAIN pr.accept \cap online),
                    {g}, "dungeon")
    BY <1>3, <2>1
  <2> QED
    BY <1>2, <1>4, <2>2
<1>6. Succeed(v, pr, h) = [MakeNewGroup(s, pr, h) EXCEPT !.proposals = @ \ {pr}]
  BY DEF Succeed, Starting
<1> QED
  BY <1>5, <1>6 DEF Formed, b, D

(* What a proposal that comes about leaves of v.                             *)
CameAbout(v, f, pr, g) ==
  /\ f.members = f.players /\ f.members[g] = DOMAIN pr.of
  /\ f.state[g] = "dungeon" /\ \A p \in DOMAIN pr.of : f.state[p] = "dungeon"
  /\ \A x \in Guid : f.old[x] = "dungeon" => v.old[x] = "dungeon" \/ x \in DOMAIN pr.of \cup {g}

FormedStates(v, f, pr, g) ==
  /\ f.state \in [Guid -> State] /\ f.old \in [Guid -> OldState]
  /\ \A y \in Guid :
       IF y \in DOMAIN pr.of \/ y = g THEN f.state[y] = "dungeon" /\ f.old[y] = "dungeon"
       ELSE IF y \in UnitsIn(v, pr) \cap Group THEN f.state[y] = "none" /\ f.old[y] = "none"
       ELSE f.state[y] = v.state[y] /\ f.old[y] = v.old[y]

LEMMA UnitsFormed ==
  ASSUME NEW v, NEW on, Good(v, on), v.members = v.players, NEW pr \in v.proposals,
         NEW g, CanForm(v, pr, g), NEW b, BeginsIs(v, b, pr, g),
         NEW u, Forming(b, u, UnitsIn(v, pr), DOMAIN pr.of, g, DOMAIN pr.of),
         NEW f, FormedIs(u, f, g, pr)
  PROVE  CameAbout(v, f, pr, g) /\ FormedStates(v, f, pr, g)
<1> DEFINE D == DOMAIN pr.of
           Q == UnitsIn(v, pr)
           U == {}
<1>1. Settled(v, on, U)
  BY DEF Good
<1> HIDE DEF U
<1>2. Typed(v) /\ Book(v) /\ v.players \in [Group -> SUBSET Player]
  BY <1>1, BookOf DEF Settled, Typed
<1>3. g \in Group /\ D \subseteq Player /\ g \notin D /\ g \in Guid
  BY Names DEF CanForm
<1>4. \A y \in Guid : b.state[y] = IF y \in D THEN "dungeon"
                                   ELSE IF y = g THEN "proposal" ELSE v.state[y]
  BY DEF BeginsIs
<1>5. \A y \in Guid : b.old[y] = IF y \in D THEN "dungeon" ELSE v.old[y]
  BY DEF BeginsIs, Become
<1>6. \A y \in Guid : y \in Player \/ y \notin Q => u.state[y] = b.state[y] /\ u.old[y] = b.old[y]
  BY DEF Forming
<1>7. \A x \in Q \cap Group : x # g => u.state[x] = "none" /\ u.old[x] = "none"
  <2> SUFFICES ASSUME NEW x \in Q \cap Group, x # g
               PROVE  u.state[x] = "none" /\ u.old[x] = "none"
    OBVIOUS
  <2>1. b.players[x] \subseteq D
    BY DEF BeginsIs, CanForm
  <2>2. u.players[x] \subseteq b.players[x] \ D
    BY DEF Forming
  <2>3. u.players[x] = {}
    BY <2>1, <2>2
  <2> QED
    BY <2>3 DEF Forming
<1>8. ASSUME NEW y \in Guid
      PROVE  IF y \in D \/ y = g THEN f.state[y] = "dungeon" /\ f.old[y] = "dungeon"
             ELSE IF y \in Q \cap Group THEN f.state[y] = "none" /\ f.old[y] = "none"
             ELSE f.state[y] = v.state[y] /\ f.old[y] = v.old[y]
  <2>1. IF y = g THEN f.state[y] = "dungeon" /\ f.old[y] = "dungeon"
        ELSE f.state[y] = u.state[y] /\ f.old[y] = u.old[y]
    BY DEF FormedIs
  <2>2. CASE y = g
    BY <2>1, <2>2
  <2>3. CASE y \in D
    <3>1. y \in Player /\ y # g
      BY <1>3, <2>3
    <3> QED
      BY <2>1, <2>3, <3>1, <1>4, <1>5, <1>6
  <2>4. CASE y # g /\ y \notin D /\ y \in Q \cap Group
    BY <2>1, <2>4, <1>7
  <2>5. CASE y # g /\ y \notin D /\ y \notin Q \cap Group
    <3>1. y \in Player \/ y \notin Q
      BY <2>5 DEF Guid
    <3> QED
      BY <2>1, <2>5, <3>1, <1>4, <1>5, <1>6
  <2> QED
    BY <2>2, <2>3, <2>4, <2>5
<1>9. f.state \in [Guid -> State] /\ f.old \in [Guid -> OldState]
  <2>1. \A y \in Guid : f.state[y] \in State /\ f.old[y] \in OldState
    BY <1>2, <1>8 DEF Typed, State, OldState
  <2> QED
    BY <2>1 DEF FormedIs
<1>10. CameAbout(v, f, pr, g)
  <2>1. f.members = f.players /\ f.players = u.players /\ u.players[g] = b.players[g] \cup D
    BY DEF FormedIs, Forming, SameGroups
  <2>2. b.players[g] \subseteq D
    BY DEF BeginsIs, CanForm
  <2>3. f.members[g] = D
    BY <2>1, <2>2
  <2>4. \A x \in Guid : f.old[x] = "dungeon" => v.old[x] = "dungeon" \/ x \in D \cup {g}
    BY <1>8
  <2>5. f.state[g] = "dungeon" /\ \A p \in D : f.state[p] = "dungeon"
    BY <1>3, <1>8, Names
  <2> QED
    BY <2>1, <2>3, <2>4, <2>5 DEF CameAbout
<1>11. FormedStates(v, f, pr, g)
  BY <1>8, <1>9 DEF FormedStates
<1> QED
  BY <1>10, <1>11

LEMMA FormedRegroups ==
  ASSUME NEW v, NEW on, Good(v, on), v.members = v.players, NEW pr \in v.proposals,
         NEW g, CanForm(v, pr, g), NEW b, BeginsIs(v, b, pr, g),
         NEW u, Forming(b, u, UnitsIn(v, pr), DOMAIN pr.of, g, DOMAIN pr.of),
         NEW f, FormedIs(u, f, g, pr), NEW z, FreedIs(v, z, pr), Good(z, on)
  PROVE  Regroups(z, f) /\ f.cancels = z.cancels
<1> DEFINE D == DOMAIN pr.of
           Q == UnitsIn(v, pr)
           K == pr.queues
           U == {}
<1>1. Settled(v, on, U)
  BY DEF Good
<1> HIDE DEF U
<1>2. Typed(v) /\ \A p \in D : UnitOf(v, p) \in Q
  BY <1>1 DEF Settled, CanForm
<1>3. g \in Group /\ D \subseteq Player /\ g \notin D /\ g \in Guid /\ Q \subseteq Guid
  BY Names DEF CanForm
<1>4. SameQueue(u, f) /\ SameQueue(b, u) /\ b.data = Restrict(v.data, DOMAIN v.data \ K)
      /\ b.new = v.new \ K /\ b.current = v.current \ K /\ b.rematch = v.rematch \ K
  BY DEF FormedIs, Forming, BeginsIs
<1>5. /\ DOMAIN f.data = DOMAIN z.data /\ \A x \in DOMAIN z.data : f.data[x] = z.data[x]
      /\ f.new = z.new /\ f.current = z.current /\ z.rematch \cap z.current \subseteq f.rematch
  <2>1. f.data = Restrict(v.data, DOMAIN v.data \ K)
    BY <1>4 DEF SameQueue
  <2>2. DOMAIN f.data = DOMAIN v.data \ K /\ \A x \in DOMAIN f.data : f.data[x] = v.data[x]
    BY <2>1 DEF Restrict
  <2> QED
    BY <2>2, <1>4 DEF SameQueue, FreedIs
<1>6. f.checks = z.checks /\ f.proposals = z.proposals /\ f.cancels = z.cancels
  BY DEF FormedIs, Forming, BeginsIs, FreedIs, SameRest
<1>7. Book(u) /\ SameGroups(u, f) /\ IsRecord(f)
  BY DEF Forming, FormedIs
<1>8. /\ f.members \in [Group -> SUBSET Player] /\ f.made \subseteq Group
      /\ f.of \in [Player -> Group \cup {None}] /\ f.players \in [Group -> SUBSET Player]
      /\ DOMAIN f.boots \subseteq Group
  BY <1>7 DEF Book, SameGroups
<1>9. GroupsRight(f)
  BY <1>7 DEF Book, GroupsRight, SameGroups
<1>10. /\ f.state \in [Guid -> State] /\ f.old \in [Guid -> OldState]
       /\ \A y \in Guid :
            IF y \in D \/ y = g THEN f.state[y] = "dungeon" /\ f.old[y] = "dungeon"
            ELSE IF y \in Q \cap Group THEN f.state[y] = "none" /\ f.old[y] = "none"
            ELSE f.state[y] = v.state[y] /\ f.old[y] = v.old[y]
  <2>1. FormedStates(v, f, pr, g)
    BY UnitsFormed
  <2> QED
    BY <2>1 DEF FormedStates
<1>11. z.state = Become(v.state, D \cup (Q \cap Group), "dungeon")
       /\ z.old = Become(v.old, D \cup (Q \cap Group), "dungeon")
  BY DEF FreedIs
<1>12. Places(z) \subseteq Places(v) /\ SameGroups(v, z) /\ \A y : UnitOf(z, y) = UnitOf(v, y)
  <2>1. /\ SameGroups(v, z) /\ z.proposals \subseteq v.proposals
        /\ DOMAIN z.data \subseteq DOMAIN v.data /\ z.checks = v.checks
    BY DEF FreedIs
  <2>2. Offered(z, TRUE) \subseteq Offered(v, TRUE) /\ \A y : UnitOf(z, y) = UnitOf(v, y)
    BY <2>1, SameUnits
  <2> QED
    BY <2>1, <2>2 DEF Places
<1>13. Q \cap Places(z) = {} /\ g \notin Places(z)
  <2> SUFFICES ASSUME NEW x \in Q PROVE x \notin Places(z)
    BY <1>12 DEF CanForm
  <2>1. PICK p \in D : UnitOf(v, p) = x
    BY <1>1, ProposalUnits
  <2>2. z.state[p] = "dungeon" /\ p \in Guid /\ p \in Player
    BY <1>3, <1>11, Names DEF Become
  <2>3. UnitOf(z, p) \notin Places(z)
    BY <2>2, Reaches DEF OldState
  <2> QED
    BY <2>1, <2>3, <1>12
<1>14. D \cap Places(z) = {} /\ None \notin Places(z)
  <2>1. Places(v) \subseteq Guid /\ \A y \in Places(v) : UnitOf(v, y) = y
    BY <1>3, Reaches
  <2> QED
    BY <2>1, <1>12, <1>2, <1>13, Names DEF Guid
<1>15. ASSUME NEW p \in Player, f.of[p] # z.of[p]
       PROVE  {p, z.of[p], f.of[p]} \cap Places(z) = {}
  <2>1. f.of = u.of /\ z.of = v.of /\ b.of = v.of
    BY <1>7 DEF SameGroups, FreedIs, BeginsIs
  <2>2. p \in D /\ u.of[p] \in {None, g}
    BY <1>15, <2>1 DEF Forming
  <2>3. v.of[p] \in Q \cup {None}
    BY <2>2 DEF CanForm
  <2> QED
    BY <2>1, <2>2, <2>3, <1>13, <1>14
<1>16. ASSUME NEW y \in Guid
       PROVE  \/ f.state[y] = z.state[y] /\ f.old[y] = z.old[y]
              \/ /\ f.state[y] \in OldState /\ f.state[y] = f.old[y]
                 /\ {UnitOf(z, y), UnitOf(f, y)} \cap Places(z) = {}
  <2>1. CASE y \in D
    BY <2>1, <1>10, <1>11 DEF Become
  <2>2. CASE y = g
    <3>1. UnitOf(z, y) = y /\ UnitOf(f, y) = y
      BY <1>3, <2>2 DEF UnitOf
    <3> QED
      BY <2>2, <3>1, <1>10, <1>13 DEF OldState
  <2>3. CASE y \in Q \cap Group /\ y # g /\ y \notin D
    <3>1. UnitOf(z, y) = y /\ UnitOf(f, y) = y
      BY <2>3 DEF UnitOf
    <3> QED
      BY <2>3, <3>1, <1>10, <1>13 DEF OldState
  <2>4. CASE y # g /\ y \notin D /\ y \notin Q \cap Group
    BY <2>4, <1>10, <1>11 DEF Become
  <2> QED
    BY <2>1, <2>2, <2>3, <2>4
<1>18. ASSUME NEW y \in Group, z.members[y] = {}, f.members[y] # {}
       PROVE  y \notin Places(z)
  <2>1. CASE y = g
    BY <2>1, <1>13
  <2>2. CASE y # g
    <3>1. f.members = f.players /\ f.of = u.of /\ b.of = v.of /\ z.members = v.members
      BY <1>7, <1>12 DEF FormedIs, Forming, BeginsIs, SameGroups
    <3>2. PICK p \in Player : p \in f.players[y]
      BY <1>8, <1>18, <3>1
    <3>3. u.of[p] = y
      BY <1>9, <3>1, <3>2 DEF GroupsRight
    <3>4. v.of[p] = y
      BY <2>2, <3>1, <3>3, Names DEF Forming
    <3>5. p \in v.members[y]
      BY <1>1, <3>4 DEF Settled, GroupsRight
    <3> QED
      BY <1>18, <3>1, <3>5
  <2> QED
    BY <2>1, <2>2
<1>17. Regroups(z, f)
  <2>1. \A y \in Group : z.members[y] = {} /\ f.members[y] # {} => y \notin Places(z)
    BY <1>18
  <2> QED
    BY <1>5, <1>6, <1>7, <1>8, <1>9, <1>10, <1>15, <1>16, <2>1 DEF Regroups
<1> QED
  BY <1>6, <1>17

LEMMA ProposalSucceeds ==
  ASSUME NEW v, Good(v, online), v.members = v.players, NEW pr \in v.proposals,
         NEW h, MayForm(v, pr, h)
  PROVE  LET f == Succeed(v, pr, h)
             g == GroupFor(v, pr, h)
         IN Good(f, online) /\ CameAbout(v, f, pr, g) /\ g \in Group
<1> DEFINE f == Succeed(v, pr, h)
           g == GroupFor(v, pr, h)
           b == Begins(v, pr, h)
           D == DOMAIN pr.of
           Q == UnitsIn(v, pr)
           u == EnterAll(b, g, D)
           z == Freed(v, pr)
           U == {}
<1>1. Settled(v, online, U)
  BY DEF Good
<1> HIDE DEF U
<1>2. Typed(v) /\ IsRecord(v)
  BY <1>1 DEF Settled, Typed
<1>3. CanForm(v, pr, g) /\ D \subseteq online /\ (g = h \/ v.state[g] = "proposal")
  BY GroupCanForm
<1>4. f = Formed(u, g, pr)
  BY <1>2, <1>3, SucceedIs DEF CanForm
<1> HIDE DEF f, g
<1>5. BeginsIs(v, b, pr, g)
  BY <1>2, <1>3, BeginsDoes DEF g
<1> HIDE DEF b
<1>6. ToForm(b, Q, D, g)
  BY <1>3, <1>5, BeginsToForm
<1>7. Forming(b, u, Q, D, g, D)
  BY <1>6, AllEnter
<1> HIDE DEF u
<1>8. FormedIs(u, f, g, pr)
  BY <1>4, <1>7, FormedDoes DEF Forming, Book
<1>9. FreedIs(v, z, pr) /\ Good(z, online)
  BY <1>2, FreedDoes, FreedGood
<1> HIDE DEF z
<1>10. Regroups(z, f) /\ f.cancels = z.cancels
  BY <1>3, <1>5, <1>7, <1>8, <1>9, FormedRegroups DEF D, Q
<1>11. Good(f, online)
  BY <1>9, <1>10, GoodRegrouped
<1>12. CameAbout(v, f, pr, g)
  BY <1>3, <1>5, <1>7, <1>8, UnitsFormed DEF D, Q
<1>13. g \in Group
  BY <1>3 DEF CanForm
<1> QED
  BY <1>11, <1>12, <1>13 DEF f, g

(* What TheyGoTogether says of a step to u.                                  *)
GoTogether(u) ==
  \A x \in Guid :
    /\ u.old[x] = "dungeon" /\ ~ InDungeon(x)
    /\ x \in Player => ~ InDungeon(w.of[x])
    =>
      \E pr \in w.proposals, g \in Group :
        /\ x \in DOMAIN pr.of \cup {g} /\ u.members[g] = DOMAIN pr.of
        /\ \A p \in DOMAIN pr.of : u.state[p] = "dungeon" /\ u.state[g] = "dungeon"
        /\ Cardinality({p \in DOMAIN pr.of : pr.accept[p] # "agree"}) <= 1

(* Of what is done in a session, no more than this is asked.                 *)
Dealt(u, on) == Good(u, on) /\ u.members = u.players /\ GoTogether(u)

LEMMA OldKeptTogether ==
  ASSUME NEW u, OldKept(w, u), Typed(w)
  PROVE  GoTogether(u)
<1> SUFFICES ASSUME NEW x \in Guid, u.old[x] = "dungeon", ~ InDungeon(x),
                    x \in Player => ~ InDungeon(w.of[x])
             PROVE  FALSE
  BY DEF GoTogether
<1>1. w.old[x] = "dungeon" \/ w.old[UnitOf(w, x)] = "dungeon"
  BY DEF OldKept
<1>2. x # None
  BY Names DEF Guid
<1>3. w.old[UnitOf(w, x)] = "dungeon" /\ UnitOf(w, x) # x
  BY <1>1, <1>2 DEF InDungeon
<1>4. x \in Player /\ w.of[x] \in Group /\ UnitOf(w, x) = w.of[x]
  BY <1>3, UnitIs, Names DEF Guid
<1> QED
  BY <1>3, <1>4, Names DEF InDungeon

LEMMA AnsweredIs ==
  ASSUME NEW v, NEW pr \in v.proposals, NEW now, IsRecord(v)
  PROVE  Answered(v, Replace(v, pr, now), pr, now)
BY ProposalsReplaced DEF Replace

LEMMA MayFormStill ==
  ASSUME NEW v, NEW pr \in v.proposals, NEW now, NEW u, Answers(pr, now), Answered(v, u, pr, now),
         NEW h, MayForm(v, pr, h)
  PROVE  MayForm(u, now, h)
<1>1. now.group = pr.group /\ now.of = pr.of
  BY DEF Answers
<1>2. Exists(u, now.group) <=> Exists(v, pr.group)
  BY <1>1 DEF Answered, SameGroups, Exists
<1>3. ASSUME h \in Fresh(v)
      PROVE  h \in Fresh(u)
  <2>1. \A qr \in u.proposals : h # qr.group /\ h \notin Range(qr.of)
    BY <1>1, <1>3 DEF Answered, Fresh
  <2>2. /\ h \in Group /\ u.members[h] = {} /\ u.players[h] = {} /\ u.state[h] = "none"
        /\ h \notin DOMAIN u.data \cup DOMAIN u.checks \cup DOMAIN u.boots
        /\ h \notin Range(u.of) \cup u.rematch
    BY <1>3 DEF Answered, Fresh, SameGroups, SameQueue, SameStates
  <2> QED
    BY <2>1, <2>2 DEF Fresh
<1> QED
  BY <1>2, <1>3 DEF MayForm

LEMMA LastAnswer ==
  ASSUME NEW pr, ProposalTyped(pr), NEW p \in DOMAIN pr.of,
         NEW now, Answers(pr, now), now.accept = [pr.accept EXCEPT ![p] = "agree"],
         \A q \in DOMAIN now.accept : now.accept[q] = "agree"
  PROVE  Cardinality({q \in DOMAIN pr.of : pr.accept[q] # "agree"}) <= 1
<1> DEFINE S == {q \in DOMAIN pr.of : pr.accept[q] # "agree"}
           T == {p}
<1>1. DOMAIN pr.accept = DOMAIN pr.of
  BY DEF ProposalTyped
<1>2. \A q \in DOMAIN pr.of : q # p => pr.accept[q] = "agree"
  BY <1>1
<1>3. S \subseteq T
  BY <1>2
<1>4. IsFiniteSet(T) /\ Cardinality(T) = 1
  BY FS_Singleton
<1> HIDE DEF S, T
<1>5. IsFiniteSet(S) /\ Cardinality(S) <= Cardinality(T)
  BY <1>3, <1>4, FS_Subset
<1> QED
  BY <1>4, <1>5 DEF S

LEMMA CameAboutTogether ==
  ASSUME NEW pr \in w.proposals, ProposalTyped(pr), NEW now, Answers(pr, now), NEW p \in DOMAIN pr.of,
         now.accept = [pr.accept EXCEPT ![p] = "agree"],
         \A q \in DOMAIN now.accept : now.accept[q] = "agree",
         NEW v, v.old = w.old, NEW f, NEW g \in Group, CameAbout(v, f, now, g)
  PROVE  GoTogether(f)
<1>1. now.of = pr.of
  BY DEF Answers
<1>2. Cardinality({q \in DOMAIN pr.of : pr.accept[q] # "agree"}) <= 1
  BY LastAnswer
<1>3. f.members[g] = DOMAIN pr.of
      /\ (\A q \in DOMAIN pr.of : f.state[q] = "dungeon" /\ f.state[g] = "dungeon")
  BY <1>1 DEF CameAbout
<1>4. ASSUME NEW x \in Guid, f.old[x] = "dungeon", ~ InDungeon(x)
      PROVE  x \in DOMAIN pr.of \cup {g}
  <2>1. w.old[x] # "dungeon"
    BY <1>4, Names DEF InDungeon, Guid
  <2> QED
    BY <2>1, <1>1, <1>4 DEF CameAbout
<1>5. SUFFICES ASSUME NEW x \in Guid, f.old[x] = "dungeon", ~ InDungeon(x)
               PROVE  \E qr \in w.proposals, h \in Group :
                        /\ x \in DOMAIN qr.of \cup {h} /\ f.members[h] = DOMAIN qr.of
                        /\ \A q \in DOMAIN qr.of : f.state[q] = "dungeon" /\ f.state[h] = "dungeon"
                        /\ Cardinality({q \in DOMAIN qr.of : qr.accept[q] # "agree"}) <= 1
  BY Zenon DEF GoTogether
<1>6. x \in DOMAIN pr.of \cup {g}
  BY <1>4, <1>5
<1> WITNESS pr \in w.proposals, g \in Group
<1> QED
  BY <1>2, <1>3, <1>6

LEMMA AnswerDealt ==
  ASSUME IInv, phase = "sessions", NEW pr \in w.proposals, NEW p \in DOMAIN pr.of,
         NEW accept \in BOOLEAN, NEW h, MayForm(w, pr, h)
  PROVE  Dealt(UpdateProposal(w, pr, p, accept, h), online)
<1> DEFINE now == NowOf(pr, p, accept)
           u   == UpdateProposal(w, pr, p, accept, h)
           v   == Replace(w, pr, now)
<1>1. Good(w, online) /\ w.members = w.players /\ Typed(w) /\ IsRecord(w) /\ ProposalTyped(pr)
  BY SessionsMean DEF Typed
<1>2. /\ Answers(pr, now)
      /\ now.accept = [pr.accept EXCEPT ![p] = IF accept THEN "agree" ELSE "deny"]
      /\ \/ Moved(w, u, online)
         \/ /\ accept /\ (\A q \in DOMAIN now.accept : now.accept[q] = "agree")
            /\ u = Succeed(v, now, h)
  BY <1>1, UpdateProposalIs
<1> HIDE DEF now, u
<1>3. CASE Moved(w, u, online)
  <2>1. Good(u, online) /\ u.members = u.players
    BY <1>1, <1>3 DEF Moved, SameGroups
  <2>2. OldKept(w, u)
    BY <1>3 DEF Moved, OldKept
  <2>3. GoTogether(u)
    BY <1>1, <2>2, OldKeptTogether
  <2> QED
    BY <2>1, <2>3 DEF Dealt, u
<1>4. CASE /\ accept /\ (\A q \in DOMAIN now.accept : now.accept[q] = "agree")
           /\ u = Succeed(v, now, h)
  <2>1. Moved(w, v, online) /\ now \in v.proposals
    BY <1>1, <1>2, ProposalReplaced
  <2>2. Answered(w, v, pr, now)
    BY <1>1, AnsweredIs
  <2> HIDE DEF v
  <2>3. MayForm(v, now, h)
    BY <1>2, <2>2, MayFormStill
  <2>4. Good(v, online) /\ v.members = v.players /\ v.old = w.old
    BY <1>1, <2>1 DEF Moved, SameGroups
  <2> DEFINE g == GroupFor(v, now, h)
  <2>5. Good(u, online) /\ CameAbout(v, u, now, g) /\ g \in Group
    BY <1>4, <2>1, <2>3, <2>4, ProposalSucceeds
  <2> HIDE DEF g
  <2>6. now.accept = [pr.accept EXCEPT ![p] = "agree"]
    BY <1>2, <1>4
  <2>7. GoTogether(u)
    BY <1>1, <1>2, <1>4, <2>4, <2>5, <2>6, CameAboutTogether
  <2> QED
    BY <2>5, <2>7 DEF Dealt, CameAbout, u
<1> QED
  BY <1>2, <1>3, <1>4

LEMMA HandleLfgProposalResultKeeps ==
  ASSUME IInv, NEW p \in Player, HandleLfgProposalResult(p)
  PROVE  phase = "sessions" /\ UNCHANGED <<phase, online>> /\ Dealt(w', online)
<1>1. PICK pr \in w.proposals, accept \in BOOLEAN :
        /\ p \in online \cap DOMAIN pr.accept
        /\ IF Exists(w, pr.group) THEN Packet(UpdateProposal(w, pr, p, accept, None))
           ELSE \E h \in Fresh(w) : Packet(UpdateProposal(w, pr, p, accept, h))
  BY DEF HandleLfgProposalResult
<1>2. \E h : MayForm(w, pr, h) /\ Packet(UpdateProposal(w, pr, p, accept, h))
  BY <1>1 DEF MayForm
<1>3. PICK h : MayForm(w, pr, h) /\ Packet(UpdateProposal(w, pr, p, accept, h))
  BY <1>2
<1> DEFINE u == UpdateProposal(w, pr, p, accept, h)
<1>4. phase = "sessions" /\ UNCHANGED <<phase, online>> /\ w' = u
  BY <1>3 DEF Packet
<1>5. p \in DOMAIN pr.of
  <2>1. Typed(w)
    BY <1>4, SessionsMean
  <2> QED
    BY <1>1, <2>1 DEF Typed, ProposalTyped
<1>6. Dealt(u, online)
  BY <1>3, <1>4, <1>5, AnswerDealt
<1> HIDE DEF u
<1> QED
  BY <1>4, <1>6

-----------------------------------------------------------------------------
(* LFGMgr::Update: dungeons are finished.                                    *)

FinishedIs(v, u, T) ==
  /\ IsRecord(u) /\ SameGroups(v, u) /\ SameQueue(v, u)
  /\ u.checks = v.checks /\ u.proposals = v.proposals
  /\ u.state \in [Guid -> State] /\ u.old \in [Guid -> OldState]
  /\ \A y \in Guid : IF UnitOf(v, y) \in T THEN u.state[y] = "finished" /\ u.old[y] = "finished"
                     ELSE u.state[y] = v.state[y] /\ u.old[y] = v.old[y]
  /\ DOMAIN u.cancels = {g \in T : v.state[g] # "dungeon"}
  /\ \A g \in DOMAIN u.cancels : u.cancels[g] = v.state[g]

NotedAs(c, g, st) == [x \in DOMAIN c \cup {g} |-> IF x = g THEN st ELSE c[x]]
Noted(u, g) ==
  [u EXCEPT !.cancels = IF u.state[g] = "dungeon" THEN @ ELSE NotedAs(u.cancels, g, u.state[g])]

LEMMA FinishedDoes ==
  ASSUME NEW u, IsRecord(u), NEW g
  PROVE  LET t == Finished(u, g)
         IN /\ IsRecord(t) /\ SameGroups(u, t) /\ SameQueue(u, t)
            /\ t.checks = u.checks /\ t.proposals = u.proposals
            /\ t.cancels = IF u.state[g] = "dungeon" THEN u.cancels
                           ELSE NotedAs(u.cancels, g, u.state[g])
            /\ t.state = Become(u.state, u.players[g] \cup {g}, "finished")
            /\ t.old = Become(u.old, u.players[g] \cup {g}, "finished")
<1> DEFINE r == Noted(u, g)
           S == u.players[g] \cup {g}
           t == SetStates(r, S, "finished")
<1>1. Finished(u, g) = t
  BY DEF Finished, Noted, NotedAs
<1>2. /\ IsRecord(r) /\ SameGroups(u, r) /\ SameQueue(u, r) /\ SameStates(u, r)
      /\ r.checks = u.checks /\ r.proposals = u.proposals
      /\ r.cancels = IF u.state[g] = "dungeon" THEN u.cancels
                     ELSE NotedAs(u.cancels, g, u.state[g])
  BY DEF Noted, IsRecord, Fields, SameGroups, SameQueue, SameStates
<1> HIDE DEF r, S
<1>3. /\ IsRecord(t) /\ SameGroups(r, t) /\ SameQueue(r, t) /\ SameRest(r, t)
      /\ t.state = [x \in Guid |-> IF x \in S THEN "finished" ELSE r.state[x]]
      /\ t.old = [x \in Guid |-> IF x \in S /\ "finished" \in OldState THEN "finished" ELSE r.old[x]]
  BY <1>2, SetStatesDoes
<1> HIDE DEF t
<1>4. t.state = Become(u.state, S, "finished") /\ t.old = Become(u.old, S, "finished")
  BY <1>2, <1>3 DEF SameStates, Become, OldState
<1>5. /\ SameGroups(u, t) /\ SameQueue(u, t) /\ t.checks = u.checks /\ t.proposals = u.proposals
      /\ t.cancels = IF u.state[g] = "dungeon" THEN u.cancels
                     ELSE NotedAs(u.cancels, g, u.state[g])
  BY <1>2, <1>3 DEF SameGroups, SameQueue, SameRest
<1> QED
  BY <1>1, <1>3, <1>4, <1>5 DEF S

LEMMA OneMoreFinished ==
  ASSUME NEW v, Typed(v), GroupsRight(v), NEW T \in SUBSET Group, NEW g \in Group, g \notin T,
         NEW u, FinishedIs(v, u, T)
  PROVE  FinishedIs(v, Finished(u, g), T \cup {g})
<1> DEFINE t == Finished(u, g)
           S == u.players[g] \cup {g}
           W == T \cup {g}
<1>0. IsRecord(u)
  BY DEF FinishedIs
<1>1. /\ IsRecord(t) /\ SameGroups(u, t) /\ SameQueue(u, t)
      /\ t.checks = u.checks /\ t.proposals = u.proposals
      /\ t.cancels = IF u.state[g] = "dungeon" THEN u.cancels
                     ELSE NotedAs(u.cancels, g, u.state[g])
      /\ t.state = Become(u.state, S, "finished") /\ t.old = Become(u.old, S, "finished")
  BY <1>0, FinishedDoes
<1> HIDE DEF t
<1>2. S = Unit(v, g) /\ UnitOf(v, g) = g
  BY GroupUnit DEF FinishedIs, SameGroups
<1>3. \A y \in Guid : y \in S <=> UnitOf(v, y) = g
  BY <1>2 DEF Unit
<1> HIDE DEF S
<1>4. u.state[g] = v.state[g]
  BY <1>2, Names DEF FinishedIs
<1>5. \A y \in Guid : IF UnitOf(v, y) \in W THEN t.state[y] = "finished" /\ t.old[y] = "finished"
                      ELSE t.state[y] = v.state[y] /\ t.old[y] = v.old[y]
  BY <1>1, <1>3 DEF Become, FinishedIs
<1>6. t.state \in [Guid -> State] /\ t.old \in [Guid -> OldState]
  BY <1>1 DEF Become, FinishedIs, State, OldState
<1>7. /\ DOMAIN t.cancels = {x \in W : v.state[x] # "dungeon"}
      /\ \A x \in DOMAIN t.cancels : t.cancels[x] = v.state[x]
  <2>1. CASE v.state[g] = "dungeon"
    BY <1>1, <1>4, <2>1 DEF FinishedIs
  <2>2. CASE v.state[g] # "dungeon"
    <3>1. t.cancels = NotedAs(u.cancels, g, v.state[g])
      BY <1>1, <1>4, <2>2
    <3>2. /\ DOMAIN t.cancels = DOMAIN u.cancels \cup {g}
          /\ \A x \in DOMAIN t.cancels : t.cancels[x] = IF x = g THEN v.state[g] ELSE u.cancels[x]
      BY <3>1 DEF NotedAs
    <3> QED
      BY <2>2, <3>2 DEF FinishedIs
  <2> QED
    BY <2>1, <2>2
<1>8. SameGroups(v, t) /\ SameQueue(v, t) /\ t.checks = v.checks /\ t.proposals = v.proposals
  BY <1>1 DEF FinishedIs, SameGroups, SameQueue
<1>9. FinishedIs(v, t, W)
  BY <1>1, <1>5, <1>6, <1>7, <1>8 DEF FinishedIs
<1> QED
  BY <1>9 DEF t

LEMMA AllFinished ==
  ASSUME NEW v, Typed(v), GroupsRight(v), v.cancels = <<>>, NEW F \in SUBSET Group
  PROVE  FinishedIs(v, FinishAll(v, F), F)
<1>1. IsFiniteSet(F)
  BY FS_Subset, FinderAssumption DEF FinderAssumption
<1>2. PICK f : FinishAll(v, F) = f[F] /\ FinishFolds(f, v, F)
  BY <1>1, FinishFold
<1> DEFINE I == {s \in SUBSET F : FinishedIs(v, f[s], s)}
           N == {}
<1>3. FinishedIs(v, v, N)
  <2>1. DOMAIN v.cancels = {}
    OBVIOUS
  <2> QED
    BY <2>1 DEF FinishedIs, Typed, SameGroups, SameQueue
<1>4. {} \in I
  BY <1>2, <1>3 DEF FinishFolds
<1>5. ASSUME NEW s \in SUBSET F, s # {}, s \ {Pick(s)} \in I
      PROVE  s \in I
  <2> DEFINE p == Pick(s)
             T == s \ {p}
  <2>1. p \in s
    BY <1>1, <1>5, OneLess
  <2>2. FinishedIs(v, f[T], T) /\ f[s] = Finished(f[T], p)
    BY <1>2, <1>5 DEF FinishFolds
  <2>4. p \in Group /\ T \in SUBSET Group /\ p \notin T /\ T \cup {p} = s
    <3> HIDE DEF p
    <3> QED
      BY <2>1
  <2> HIDE DEF p, T
  <2>3. FinishedIs(v, f[s], T \cup {p})
    BY <2>2, <2>4, OneMoreFinished
  <2> QED
    BY <2>4, <2>3
<1>6. F \in I
  <2> HIDE DEF I
  <2> QED
    BY <1>1, <1>4, <1>5, SetInduction
<1> QED
  BY <1>2, <1>6

LEMMA SameRemains ==
  ASSUME NEW v, NEW u, SameGroups(v, u), u.data = v.data, u.proposals = v.proposals
  PROVE  /\ Keys(u) = Keys(v)
         /\ \A pr, p : Relict(u, pr, p) <=> Relict(v, pr, p)
         /\ \A on, x : Remains(u, on, x) <=> Remains(v, on, x)
<1>1. \A pr, p : Relict(u, pr, p) <=> Relict(v, pr, p)
  BY DEF Relict, SameGroups
<1>2. \A on, x : Remains(u, on, x) <=> Remains(v, on, x)
  BY <1>1 DEF Remains, SameGroups
<1> QED
  BY <1>1, <1>2 DEF Keys

(* The groups of U have finished their dungeon, and are still in the finder. *)
ToCancel(u, U) ==
  \A g \in U :
    /\ g \in Group /\ u.old[g] = "finished" /\ Exists(u, g)
    /\ \/ u.cancels[g] = "queued"
          /\ g \notin DOMAIN u.checks \cup Offered(u, TRUE) \cup Offered(u, FALSE)
       \/ u.cancels[g] = "rolecheck" /\ g \in DOMAIN u.checks
       \/ u.cancels[g] = "proposal" /\ g \in Offered(u, TRUE)

LEMMA FinishedSettled ==
  ASSUME NEW v, NEW on, Good(v, on), NEW F \in SUBSET Group, \A g \in F : v.old[g] = "dungeon",
         NEW f, FinishedIs(v, f, F)
  PROVE  LET U == DOMAIN f.cancels
         IN Settled(f, on, U) /\ U \subseteq Group /\ (\A pr \in f.proposals : pr.begun)
<1> DEFINE U == DOMAIN f.cancels
           N == {}
<1>1. Settled(v, on, N) /\ \A pr \in v.proposals : pr.begun
  BY DEF Good
<1>2. /\ Typed(v) /\ GroupsRight(v) /\ StatesAgree(v, N) /\ EntriesRight(v, on)
      /\ ProposalsRight(v) /\ NoneMissed(v) /\ N = {}
  BY <1>1 DEF Settled
<1> HIDE DEF N
<1>3. \A y : UnitOf(f, y) = UnitOf(v, y)
  BY DEF UnitOf, FinishedIs, SameGroups
<1>4. Typed(f)
  BY <1>2 DEF Typed, FinishedIs, SameGroups
<1>5. GroupsRight(f)
  BY <1>2 DEF GroupsRight, FinishedIs, SameGroups
<1>a. SameGroups(v, f) /\ SameQueue(v, f) /\ f.checks = v.checks /\ f.proposals = v.proposals
  BY DEF FinishedIs
<1>b. /\ \A pr : UnitsIn(f, pr) = UnitsIn(v, pr)
      /\ Offered(f, TRUE) = Offered(v, TRUE) /\ Offered(f, FALSE) = Offered(v, FALSE)
  BY <1>a, SameUnits
<1>c. /\ Keys(f) = Keys(v)
      /\ \A pr, p : Relict(f, pr, p) <=> Relict(v, pr, p)
      /\ \A x : Remains(f, on, x) <=> Remains(v, on, x)
  BY <1>a, SameRemains DEF SameQueue
<1>6. InQueue(f) = InQueue(v) /\ Offered(f, TRUE) = Offered(v, TRUE) /\ DOMAIN f.checks = DOMAIN v.checks
  BY <1>a, <1>b DEF InQueue, SameQueue
<1>7. U = {g \in F : v.state[g] # "dungeon"}
  BY DEF FinishedIs
<1> HIDE DEF U
<1>8. StatesAgree(f, U)
  <2> SUFFICES ASSUME NEW y \in Guid PROVE StateAgrees(f, U, y)
    BY DEF StatesAgree
  <2> DEFINE x == UnitOf(v, y)
  <2>0. StateAgrees(v, N, y) /\ x \in Guid
    BY <1>2, UnitIs DEF StatesAgree
  <2>1. IF x \in F THEN f.state[y] = "finished" /\ f.old[y] = "finished"
        ELSE f.state[y] = v.state[y] /\ f.old[y] = v.old[y]
    BY DEF FinishedIs
  <2> HIDE DEF x
  <2>2. CASE x \notin F
    <3>1. x \notin U
      BY <1>7, <2>2
    <3>2. StateAgrees(v, N, y) /\ UnitOf(f, y) = x /\ UnitOf(v, y) = x /\ x \notin N
      BY <1>2, <1>3, <2>0 DEF x
    <3> QED
      BY <1>6, <2>1, <2>2, <3>1, <3>2 DEF StateAgrees
  <2>3. CASE x \in U
    <3>1. x \in F /\ UnitOf(f, y) = x
      BY <1>3, <1>7, <2>3 DEF x
    <3> QED
      BY <2>1, <2>3, <3>1 DEF StateAgrees
  <2>4. CASE x \in F /\ x \notin U
    <3>1. v.state[x] = "dungeon" /\ UnitOf(v, x) = x /\ x \in Guid /\ UnitOf(f, y) = x
      BY <1>3, <1>7, <2>4, Names DEF x, UnitOf
    <3>2. StateAgrees(v, N, x) /\ x \notin N
      BY <1>2, <3>1 DEF StatesAgree
    <3>3. x \notin InQueue(v) /\ x \notin DOMAIN v.checks /\ x \notin Offered(v, TRUE)
      BY <3>1, <3>2 DEF StateAgrees
    <3> QED
      BY <1>6, <2>1, <2>4, <3>1, <3>3 DEF StateAgrees
  <2> QED
    BY <2>2, <2>3, <2>4
<1>9. EntriesRight(f, on)
  <2>1. \A S, x : Complete(v, on, S, x) => Complete(f, on, S, x)
    BY DEF Complete, FinishedIs, SameGroups
  <2>2. f.data = v.data /\ f.checks = v.checks /\ f.new = v.new /\ f.current = v.current
    BY DEF FinishedIs, SameQueue
  <2> QED
    BY <1>2, <1>c, <2>1, <2>2 DEF EntriesRight
<1>10. \A x : IsLfgGroup(f, x) <=> IsLfgGroup(v, x)
  <2> SUFFICES ASSUME NEW x \in Group PROVE f.old[x] # "none" <=> v.old[x] # "none"
    BY DEF IsLfgGroup
  <2>1. UnitOf(v, x) = x /\ x \in Guid
    BY Names DEF UnitOf
  <2> QED
    BY <2>1 DEF FinishedIs
<1>11. ProposalsRight(f)
  <2>1. f.proposals = v.proposals /\ f.new = v.new /\ f.current = v.current /\ f.of = v.of
    BY DEF FinishedIs, SameQueue, SameGroups
  <2>2. \A pr \in f.proposals : ProposalRight(f, pr)
    BY <1>2, <1>3, <1>10, <1>b, <1>c, <2>1 DEF ProposalsRight, ProposalRight
  <2> QED
    BY <1>2, <1>b, <2>1, <2>2 DEF ProposalsRight
<1>12. NoneMissed(f)
  BY <1>2, <1>10, FewerMatches DEF FinishedIs, SameQueue
<1>13. Settled(f, on, U)
  BY <1>4, <1>5, <1>8, <1>9, <1>11, <1>12 DEF Settled
<1>14. U \subseteq Group
  BY <1>7
<1>15. \A pr \in f.proposals : pr.begun
  BY <1>1 DEF FinishedIs
<1> QED
  BY <1>13, <1>14, <1>15 DEF U

LEMMA FinishedCancels ==
  ASSUME NEW v, NEW on, Good(v, on), v.members = v.players,
         NEW F \in SUBSET Group, \A g \in F : v.old[g] = "dungeon",
         NEW f, FinishedIs(v, f, F)
  PROVE  ToCancel(f, DOMAIN f.cancels) /\ OldLess(v, f)
<1> DEFINE N == {}
<1>1. Settled(v, on, N)
  BY DEF Good
<1> HIDE DEF N
<1>2. Typed(v) /\ GroupsRight(v) /\ EntriesRight(v, on)
  BY <1>1 DEF Settled
<1>a. SameGroups(v, f) /\ f.proposals = v.proposals
  BY DEF FinishedIs
<1>3. ASSUME NEW g \in DOMAIN f.cancels
      PROVE  /\ g \in Group /\ f.old[g] = "finished" /\ Exists(f, g)
             /\ \/ f.cancels[g] = "queued"
                   /\ g \notin DOMAIN f.checks \cup Offered(f, TRUE) \cup Offered(f, FALSE)
                \/ f.cancels[g] = "rolecheck" /\ g \in DOMAIN f.checks
                \/ f.cancels[g] = "proposal" /\ g \in Offered(f, TRUE)
  <2>1. g \in F /\ v.state[g] # "dungeon" /\ f.cancels[g] = v.state[g] /\ g \in Group /\ g \in Guid
    BY Names DEF FinishedIs
  <2>2. v.old[g] = "dungeon" /\ UnitOf(v, g) = g
    BY <2>1 DEF UnitOf
  <2>3. f.old[g] = "finished"
    BY <2>1, <2>2 DEF FinishedIs
  <2>4. /\ v.state[g] = "queued" <=> g \in v.new \cup v.current
        /\ v.state[g] = "rolecheck" <=> g \in DOMAIN v.checks
        /\ v.state[g] = "proposal" <=> g \in Offered(v, TRUE)
        /\ v.state[g] \in OldState => v.state[g] = v.old[g]
        /\ v.state[g] = "queued" => g \notin Offered(v, TRUE) \cup Offered(v, FALSE)
    <3>1. /\ v.state[g] = "queued" <=> UnitOf(v, g) \in v.new \cup v.current
          /\ v.state[g] = "rolecheck" <=> UnitOf(v, g) \in DOMAIN v.checks
          /\ v.state[g] = "proposal" <=> UnitOf(v, g) \in Offered(v, TRUE)
          /\ v.state[g] \in OldState => v.state[g] = v.old[g]
      BY <2>1, Reaches
    <3>2. v.state[g] = "queued" => UnitOf(v, g) \notin Offered(v, TRUE) \cup Offered(v, FALSE)
      BY <2>1, Reaches
    <3> QED
      BY <2>2, <3>1, <3>2
  <2>5. v.state[g] \in {"queued", "rolecheck", "proposal"}
    BY <1>2, <2>1, <2>2, <2>4 DEF Typed, State, OldState
  <2>6. Offered(f, TRUE) = Offered(v, TRUE) /\ Offered(f, FALSE) = Offered(v, FALSE)
        /\ f.checks = v.checks
    <3>1. Offered(f, TRUE) = Offered(v, TRUE) /\ Offered(f, FALSE) = Offered(v, FALSE)
      BY <1>a, SameUnits
    <3> QED
      BY <3>1 DEF FinishedIs
  <2>7. \/ f.cancels[g] = "queued"
           /\ g \notin DOMAIN f.checks \cup Offered(f, TRUE) \cup Offered(f, FALSE)
        \/ f.cancels[g] = "rolecheck" /\ g \in DOMAIN f.checks
        \/ f.cancels[g] = "proposal" /\ g \in Offered(f, TRUE)
    <3>1. v.state[g] = "queued" => g \notin DOMAIN v.checks
      BY <2>4
    <3> QED
      BY <2>1, <2>4, <2>5, <2>6, <3>1
  <2>8. v.members[g] # {}
    <3>1. v.members[g] = {} => g \notin InQueue(v) \cup DOMAIN v.checks \cup Offered(v, TRUE)
      BY <1>1, <2>1, GoneIsNowhere
    <3> QED
      BY <2>4, <2>5, <3>1 DEF InQueue
  <2>9. Exists(f, g)
    BY <1>a, <2>1, <2>8, Names DEF Exists, SameGroups
  <2> QED
    BY <2>1, <2>3, <2>7, <2>9
<1>4. ToCancel(f, DOMAIN f.cancels)
  BY <1>3 DEF ToCancel
<1>5. OldLess(v, f)
  BY DEF OldLess, FinishedIs
<1> QED
  BY <1>4, <1>5

(* One of the groups of U is taken out of the finder, without a change to     *)
(* the others.                                                              *)
TakenOut(u, t, on, U, g) ==
  /\ Settled(t, on, U \ {g}) /\ SameGroups(u, t) /\ t.cancels = u.cancels /\ t.old = u.old
  /\ t.proposals \subseteq u.proposals /\ ToCancel(t, U \ {g})

LEMMA StillToCancel ==
  ASSUME NEW u, NEW t, NEW U, NEW g, ToCancel(u, U), SameGroups(u, t), t.cancels = u.cancels,
         t.old = u.old, t.proposals \subseteq u.proposals,
         DOMAIN t.checks \ {g} = DOMAIN u.checks \ {g},
         \A h \in U \ {g} : h \in Offered(u, TRUE) => h \in Offered(t, TRUE)
  PROVE  ToCancel(t, U \ {g})
<1>1. \A h : h \in Offered(t, TRUE) \cup Offered(t, FALSE) => h \in Offered(u, TRUE) \cup Offered(u, FALSE)
  BY SameUnits
<1> SUFFICES ASSUME NEW h \in U \ {g}
             PROVE  /\ h \in Group /\ t.old[h] = "finished" /\ Exists(t, h)
                    /\ \/ t.cancels[h] = "queued"
                          /\ h \notin DOMAIN t.checks \cup Offered(t, TRUE) \cup Offered(t, FALSE)
                       \/ t.cancels[h] = "rolecheck" /\ h \in DOMAIN t.checks
                       \/ t.cancels[h] = "proposal" /\ h \in Offered(t, TRUE)
  BY DEF ToCancel
<1>2. /\ h \in Group /\ u.old[h] = "finished" /\ Exists(u, h)
      /\ \/ u.cancels[h] = "queued"
            /\ h \notin DOMAIN u.checks \cup Offered(u, TRUE) \cup Offered(u, FALSE)
         \/ u.cancels[h] = "rolecheck" /\ h \in DOMAIN u.checks
         \/ u.cancels[h] = "proposal" /\ h \in Offered(u, TRUE)
  BY DEF ToCancel
<1>3. h \in DOMAIN t.checks <=> h \in DOMAIN u.checks
  OBVIOUS
<1>4. Exists(t, h)
  BY <1>2 DEF Exists, SameGroups
<1> QED
  BY <1>1, <1>2, <1>3, <1>4

LEMMA QueueCancelled ==
  ASSUME NEW u, NEW on, NEW U, Settled(u, on, U), ToCancel(u, U), NEW g \in U, u.cancels[g] = "queued"
  PROVE  TakenOut(u, RemoveFromQueue(u, {g}), on, U, g)
<1> DEFINE t == RemoveFromQueue(u, {g})
<1>1. /\ g \in Group /\ g \in Guid /\ Exists(u, g)
      /\ g \notin DOMAIN u.checks \cup Offered(u, TRUE) \cup Offered(u, FALSE)
  BY Names DEF ToCancel
<1>2. Typed(u) /\ IsRecord(u) /\ StatesAgree(u, U)
  BY DEF Settled, Typed
<1>3. /\ IsRecord(t) /\ SameGroups(u, t) /\ SameStates(u, t) /\ SameRest(u, t)
      /\ t.data = Restrict(u.data, DOMAIN u.data \ {g})
      /\ t.new = u.new \ {g} /\ t.current = u.current \ {g} /\ t.rematch = u.rematch \ {g}
  BY <1>2, RemoveFromQueueDoes
<1> HIDE DEF t
<1>4. DOMAIN t.data = DOMAIN u.data \ {g} /\ \A y \in DOMAIN t.data : t.data[y] = u.data[y]
  BY <1>3 DEF Restrict
<1>5. Elsewhere(u, t, g)
  <2>1. t.state \in [Guid -> State] /\ t.old \in [Guid -> OldState]
        /\ t.state = u.state /\ t.old = u.old
    BY <1>2, <1>3 DEF Typed, SameStates
  <2>2. u.rematch \ {g} \subseteq t.rematch /\ t.new \ {g} = u.new \ {g}
        /\ t.current \ {g} = u.current \ {g}
    BY <1>3
  <2> QED
    BY <1>3, <1>4, <2>1, <2>2 DEF Elsewhere, SameRest
<1>6. IsFree(t, g)
  <2>1. g \notin t.new \cup t.current \cup DOMAIN t.data \cup DOMAIN t.checks
    BY <1>1, <1>3, <1>4 DEF SameRest
  <2>2. ASSUME NEW y \in Guid, UnitOf(t, y) = g
        PROVE  t.state[y] \in OldState /\ t.state[y] = t.old[y]
    <3>1. UnitOf(u, y) = g
      BY <1>3, <2>2 DEF UnitOf, SameGroups
    <3>2. StateAgrees(u, U, y)
      BY <1>2 DEF StatesAgree
    <3>3. u.state[y] = "finished" /\ u.old[y] = "finished"
      BY <3>1, <3>2 DEF StateAgrees, OldState
    <3> QED
      BY <1>3, <3>3 DEF SameStates, OldState
  <2> QED
    BY <2>1, <2>2 DEF IsFree
<1>a. g \notin Keys(u)
  <2>1. u.members[g] # {}
    BY <1>1 DEF Exists
  <2> QED
    BY <1>1, <2>1, NoKey
<1>7. Settled(t, on, U \ {g})
  BY <1>1, <1>5, <1>6, <1>a, UnitMoves
<1>8. t.cancels = u.cancels /\ t.old = u.old /\ t.proposals = u.proposals /\ t.checks = u.checks
  BY <1>3 DEF SameRest, SameStates
<1>9. Offered(t, TRUE) = Offered(u, TRUE)
  BY <1>3, <1>8, SameUnits
<1>10. ToCancel(t, U \ {g})
  BY <1>3, <1>8, <1>9, StillToCancel
<1>11. TakenOut(u, t, on, U, g)
  BY <1>3, <1>7, <1>8, <1>10 DEF TakenOut
<1> QED
  BY <1>11 DEF t

LEMMA CheckCancelled ==
  ASSUME NEW u, NEW on, NEW U, Settled(u, on, U), ToCancel(u, U), NEW g \in U,
         g \in DOMAIN u.checks
  PROVE  TakenOut(u, FailRoleCheck(u, g), on, U, g)
<1> DEFINE t == FailRoleCheck(u, g)
<1>1. /\ Settled(t, on, U \ {g}) /\ SameGroups(u, t)
      /\ t.old = u.old /\ t.cancels = u.cancels /\ t.proposals = u.proposals
      /\ DOMAIN t.checks = DOMAIN u.checks \ {g}
  BY RoleCheckFails
<1> HIDE DEF t
<1>2. Offered(t, TRUE) = Offered(u, TRUE)
  BY <1>1, SameUnits
<1>3. DOMAIN t.checks \ {g} = DOMAIN u.checks \ {g}
  BY <1>1
<1>4. ToCancel(t, U \ {g})
  BY <1>1, <1>2, <1>3, StillToCancel
<1>5. TakenOut(u, t, on, U, g)
  BY <1>1, <1>4 DEF TakenOut
<1> QED
  BY <1>5 DEF t

(* Of the groups of U a proposal has one at most, for they are the finder's.  *)
LEMMA ProposalCancelled ==
  ASSUME NEW u, NEW on, NEW U, Settled(u, on, U), ToCancel(u, U), NEW g \in U,
         \A q \in u.proposals : q.begun,
         NEW qr \in u.proposals, NEW p \in DOMAIN qr.of, qr.of[p] = g,
         NEW S, S = {q \in DOMAIN qr.of : qr.of[q] = g}
  PROVE  TakenOut(u, DenyFor(u, S), on, U, g)
<1> DEFINE t == DenyFor(u, S)
<1>1. /\ Typed(u) /\ ProposalsRight(u) /\ g \in Group /\ \A h \in U : h \in Group /\ IsLfgGroup(u, h)
  BY DEF Settled, ToCancel, IsLfgGroup
<1>2. ProposalRight(u, qr) /\ ProposalTyped(qr)
  BY <1>1 DEF ProposalsRight, Typed
<1>3. DOMAIN qr.of \cap S # {} /\ S \subseteq Player
  BY <1>2 DEF ProposalTyped
<1>4. \A q \in S : u.of[q] = g /\ UnitOf(u, q) = g
  <2> TAKE q \in S
  <2>1. q \in Player /\ q \in DOMAIN qr.of /\ qr.of[q] = g /\ u.members[g] # {}
    BY <1>3 DEF ToCancel, Exists
  <2>2. u.of[q] = qr.of[q]
    BY <1>2, <2>1 DEF ProposalRight, Relict
  <2> QED
    BY <1>1, <2>1, <2>2, Names DEF UnitOf
<1>5. PICK pr \in u.proposals : \E R \in SUBSET UnitsIn(u, pr) :
        /\ DOMAIN pr.of \cap S # {}
        /\ \A x \in DOMAIN pr.of : (\E q \in DOMAIN pr.of \cap S : UnitOf(u, q) = UnitOf(u, x))
                                      => UnitOf(u, x) \in R
        /\ ProposalOver(u, t, pr, R) /\ t.old = u.old /\ t.cancels = u.cancels
  BY <1>3, DenyForDoes
<1>6. PICK R \in SUBSET UnitsIn(u, pr) :
        /\ DOMAIN pr.of \cap S # {}
        /\ \A x \in DOMAIN pr.of : (\E q \in DOMAIN pr.of \cap S : UnitOf(u, q) = UnitOf(u, x))
                                      => UnitOf(u, x) \in R
        /\ ProposalOver(u, t, pr, R) /\ t.old = u.old /\ t.cancels = u.cancels
  BY <1>5
<1> HIDE DEF t
<1>7. g \in R /\ g \in UnitsIn(u, pr)
  BY <1>4, <1>6
<1>8. ProposalRight(u, pr)
  BY <1>1 DEF ProposalsRight
<1>a. \A h \in U : h \in UnitsIn(u, pr) => h \in pr.queues
  <2> TAKE h \in U
  <2> HAVE h \in UnitsIn(u, pr)
  <2>1. PICK q \in DOMAIN pr.of : UnitOf(u, q) = h
    BY ProposalUnits
  <2>2. EntryOf(pr, q) \in pr.queues /\ EntryIs(u, pr, q) /\ q \in Player
    BY ProposalUnits
  <2> QED
    BY <1>1, <2>1, <2>2, Names DEF EntryIs
<1>9. \A h \in U : h \in UnitsIn(u, pr) => h = g
  BY <1>1, <1>7, <1>8, <1>a DEF ProposalRight
<1>10. U \cap UnitsIn(u, pr) \subseteq R /\ U \ R = U \ {g}
  BY <1>7, <1>9
<1>11. Settled(t, on, U \ R)
  BY <1>6, <1>10, ProposalEnds
<1>12. Settled(t, on, U \ {g})
  BY <1>10, <1>11
<1>13. /\ SameGroups(u, t) /\ t.cancels = u.cancels /\ t.old = u.old
       /\ t.proposals = u.proposals \ {pr} /\ t.checks = u.checks
  BY <1>6 DEF ProposalOver
<1>14. \A h \in U \ {g} : h \in Offered(u, TRUE) => h \in Offered(t, TRUE)
  <2> SUFFICES ASSUME NEW h \in U \ {g}, h \in Offered(u, TRUE) PROVE h \in Offered(t, TRUE)
    OBVIOUS
  <2>1. PICK sr \in u.proposals : sr.begun = TRUE /\ h \in UnitsIn(u, sr)
    BY OfferedAre
  <2>2. sr # pr
    BY <1>9, <2>1
  <2>3. UnitsIn(t, sr) = UnitsIn(u, sr)
    BY <1>13, SameUnits
  <2>4. sr \in t.proposals /\ sr.begun = TRUE /\ h \in UnitsIn(t, sr)
    BY <1>13, <2>1, <2>2, <2>3
  <2> QED
    BY <2>4, OfferedAre
<1>15. t.proposals \subseteq u.proposals /\ DOMAIN t.checks \ {g} = DOMAIN u.checks \ {g}
  BY <1>13
<1>16. ToCancel(t, U \ {g})
  BY <1>13, <1>14, <1>15, StillToCancel
<1>17. TakenOut(u, t, on, U, g)
  BY <1>12, <1>13, <1>15, <1>16 DEF TakenOut
<1> QED
  BY <1>17 DEF t

LEMMA OneCancelled ==
  ASSUME NEW u, NEW on, NEW U, Settled(u, on, U), ToCancel(u, U), NEW g \in U,
         \A pr \in u.proposals : pr.begun
  PROVE  TakenOut(u, Cancel(g, u), on, U, g)
<1>1. /\ g \in Group /\ Exists(u, g)
      /\ \/ u.cancels[g] = "queued"
         \/ u.cancels[g] = "rolecheck" /\ g \in DOMAIN u.checks
         \/ u.cancels[g] = "proposal" /\ g \in Offered(u, TRUE)
  BY DEF ToCancel
<1>2. CASE u.cancels[g] = "queued"
  <2>1. Cancel(g, u) = RemoveFromQueue(u, {g})
    BY <1>1, <1>2 DEF Cancel
  <2> QED
    BY <1>2, <2>1, QueueCancelled
<1>3. CASE u.cancels[g] = "rolecheck" /\ g \in DOMAIN u.checks
  <2>1. Cancel(g, u) = FailRoleCheck(u, g)
    BY <1>1, <1>3 DEF Cancel
  <2> QED
    BY <1>3, <2>1, CheckCancelled
<1>4. CASE u.cancels[g] = "proposal" /\ g \in Offered(u, TRUE)
  <2> DEFINE P == {pr \in u.proposals : g \in Range(pr.of)}
             pr == CHOOSE q \in P : TRUE
             S == {p \in DOMAIN pr.of : pr.of[p] = g}
  <2>1. P # {}
    <3>1. PICK qr \in u.proposals : g \in UnitsIn(u, qr)
      BY <1>4, OfferedAre
    <3>2. PICK p \in DOMAIN qr.of : UnitOf(u, p) = g
      BY <3>1, ProposalUnits
    <3>3. EntryIs(u, qr, p) /\ p \in Player
      BY ProposalUnits
    <3>4. qr.of[p] = g
      BY <1>1, <3>2, <3>3, Names DEF UnitOf, EntryIs
    <3> QED
      BY <3>4 DEF Range
  <2>2. Cancel(g, u) = DenyFor(u, S)
    <3>1. ~ (P = {})
      BY <2>1
    <3>2. u.cancels[g] # "queued" /\ u.cancels[g] # "rolecheck"
      BY <1>4
    <3> QED
      BY <1>1, <1>4, <3>1, <3>2 DEF Cancel
  <2>3. pr \in P
    BY <2>1
  <2> HIDE DEF pr
  <2>4. pr \in u.proposals /\ \E p \in DOMAIN pr.of : pr.of[p] = g
    BY <2>3 DEF Range
  <2>5. PICK p \in DOMAIN pr.of : pr.of[p] = g
    BY <2>4
  <2>6. TakenOut(u, DenyFor(u, S), on, U, g)
    BY <2>4, <2>5, ProposalCancelled
  <2> QED
    BY <2>2, <2>6
<1> QED
  BY <1>1, <1>2, <1>3, <1>4

(* Between two of them: those of U are still to be taken out.                *)
Cancelling(f, u, on, U) ==
  /\ Settled(u, on, U) /\ ToCancel(u, U) /\ SameGroups(f, u)
  /\ u.cancels = f.cancels /\ u.old = f.old /\ \A pr \in u.proposals : pr.begun

LEMMA AllCancelled ==
  ASSUME NEW f, NEW on, NEW U, Cancelling(f, f, on, U), IsFiniteSet(U)
  PROVE  LET u == CancelAll(f, U)
         IN /\ Settled(u, on, {}) /\ SameGroups(f, u) /\ u.old = f.old
            /\ \A pr \in u.proposals : pr.begun
<1>1. PICK k : CancelAll(f, U) = k[U] /\ CancelFolds(k, f, U)
  BY CancelFold
<1> DEFINE I == {s \in SUBSET U : Cancelling(f, k[s], on, U \ s)}
           N == {}
<1>2. {} \in I
  <2>1. U \ N = U /\ k[N] = f /\ N \in SUBSET U
    BY <1>1 DEF CancelFolds
  <2> HIDE DEF N
  <2>2. Cancelling(f, k[N], on, U \ N)
    BY <2>1
  <2> QED
    BY <2>1, <2>2 DEF N
<1>3. ASSUME NEW s \in SUBSET U, s # {}, s \ {Pick(s)} \in I
      PROVE  s \in I
  <2> DEFINE g == Pick(s)
             T == s \ {g}
             u == k[T]
             W == U \ T
  <2>1. g \in s
    BY <1>3, OneLess
  <2>2. Cancelling(f, u, on, W) /\ k[s] = Cancel(g, u)
    BY <1>1, <1>3 DEF CancelFolds
  <2>3. g \in W /\ W \ {g} = U \ s
    <3> HIDE DEF g
    <3> QED
      BY <2>1
  <2> HIDE DEF g, u, W, T
  <2>4. TakenOut(u, Cancel(g, u), on, W, g)
    BY <2>2, <2>3, OneCancelled DEF Cancelling
  <2> DEFINE t == Cancel(g, u)
  <2> HIDE DEF t
  <2>5. TakenOut(u, t, on, W, g) /\ k[s] = t
    BY <2>2, <2>4 DEF t
  <2>6. Settled(t, on, U \ s) /\ ToCancel(t, U \ s)
    BY <2>3, <2>5 DEF TakenOut
  <2>7. SameGroups(f, t) /\ t.cancels = f.cancels /\ t.old = f.old /\ \A pr \in t.proposals : pr.begun
    BY <2>2, <2>5 DEF TakenOut, Cancelling, SameGroups
  <2>8. Cancelling(f, t, on, U \ s)
    BY <2>6, <2>7 DEF Cancelling
  <2> QED
    BY <2>5, <2>8
<1>4. U \in I
  <2> HIDE DEF I
  <2> QED
    BY <1>2, <1>3, SetInduction
<1>5. Cancelling(f, k[U], on, U \ U)
  BY <1>4
<1>6. U \ U = {}
  OBVIOUS
<1> QED
  BY <1>1, <1>5, <1>6 DEF Cancelling

Reset(v) == [v EXCEPT !.cancels = <<>>]

LEMMA ResetGood ==
  ASSUME NEW v, NEW on, Settled(v, on, {}), \A pr \in v.proposals : pr.begun
  PROVE  LET u == Reset(v)
         IN Moved(v, u, on)
<1> DEFINE u == Reset(v)
           N == {}
<1>1. Settled(v, on, N) /\ Typed(v) /\ IsRecord(v)
  BY DEF Settled, Typed
<1> HIDE DEF N
<1>2. /\ IsRecord(u) /\ SameGroups(v, u) /\ SameQueue(v, u) /\ SameStates(v, u)
      /\ u.checks = v.checks /\ u.proposals = v.proposals /\ u.cancels = <<>>
  BY <1>1 DEF Reset, IsRecord, Fields, SameGroups, SameQueue, SameStates
<1> HIDE DEF u
<1>3. \A y : UnitOf(u, y) = UnitOf(v, y)
  BY <1>2 DEF UnitOf, SameGroups
<1>a. /\ \A pr : UnitsIn(u, pr) = UnitsIn(v, pr)
      /\ Offered(u, TRUE) = Offered(v, TRUE) /\ Offered(u, FALSE) = Offered(v, FALSE)
  BY <1>2, SameUnits
<1>b. /\ Keys(u) = Keys(v)
      /\ \A pr, p : Relict(u, pr, p) <=> Relict(v, pr, p)
      /\ \A x : Remains(u, on, x) <=> Remains(v, on, x)
  BY <1>2, SameRemains DEF SameQueue
<1>4. InQueue(u) = InQueue(v) /\ Offered(u, TRUE) = Offered(v, TRUE)
  BY <1>2, <1>a DEF InQueue, SameQueue
<1>5. Typed(u) /\ GroupsRight(u)
  BY <1>1, <1>2 DEF Settled, Typed, GroupsRight, SameGroups, SameStates
<1>6. StatesAgree(u, N)
  BY <1>1, <1>2, <1>3, <1>4 DEF Settled, StatesAgree, StateAgrees, SameStates
<1>7. EntriesRight(u, on)
  <2>1. \A S, x : Complete(v, on, S, x) => Complete(u, on, S, x)
    BY <1>2 DEF Complete, SameGroups
  <2> QED
    BY <1>1, <1>2, <1>b, <2>1 DEF Settled, EntriesRight, SameQueue
<1>8. \A x : IsLfgGroup(u, x) <=> IsLfgGroup(v, x)
  BY <1>2 DEF IsLfgGroup, SameStates
<1>9. ProposalsRight(u)
  <2>1. \A pr \in u.proposals : ProposalRight(u, pr)
    BY <1>1, <1>2, <1>3, <1>8, <1>a, <1>b DEF Settled, ProposalsRight, ProposalRight, SameQueue, SameGroups
  <2> QED
    BY <1>1, <1>2, <1>a, <2>1 DEF Settled, ProposalsRight
<1>10. NoneMissed(u)
  BY <1>1, <1>2, <1>8, FewerMatches DEF Settled, SameQueue
<1>11. Settled(u, on, N)
  BY <1>5, <1>6, <1>7, <1>9, <1>10 DEF Settled
<1>12. Good(u, on)
  BY <1>2, <1>11 DEF Good, N
<1> QED
  BY <1>2, <1>12 DEF Moved, SameStates, u

-----------------------------------------------------------------------------
(* LFGMgr::Update: role checks, proposals and votes expire.                   *)

LEMMA MovedTwice ==
  ASSUME NEW v, NEW u, NEW t, NEW on, Moved(v, u, on), Moved(u, t, on)
  PROVE  Moved(v, t, on)
BY DEF Moved, SameGroups

LEMMA NotMoved ==
  ASSUME NEW v, NEW on, Good(v, on)
  PROVE  Moved(v, v, on)
BY DEF Moved, SameGroups

LEMMA OneCheckFails ==
  ASSUME NEW v, NEW on, Good(v, on), NEW g \in DOMAIN v.checks
  PROVE  LET u == FailRoleCheck(v, g)
         IN /\ Moved(v, u, on) /\ u.proposals = v.proposals
            /\ DOMAIN u.checks = DOMAIN v.checks \ {g}
<1> DEFINE u == FailRoleCheck(v, g)
           N == {}
<1>1. Settled(v, on, N) /\ v.cancels = <<>> /\ (\A pr \in v.proposals : pr.begun) /\ N \ {g} = N
  BY DEF Good
<1> HIDE DEF N
<1>2. /\ Settled(u, on, N \ {g}) /\ SameGroups(v, u) /\ SameQueue(v, u)
      /\ u.old = v.old /\ u.cancels = v.cancels /\ u.proposals = v.proposals
      /\ DOMAIN u.checks = DOMAIN v.checks \ {g}
  BY <1>1, RoleCheckFails
<1> HIDE DEF u
<1>3. Settled(u, on, N)
  BY <1>1, <1>2
<1>4. Good(u, on)
  BY <1>1, <1>2, <1>3 DEF Good, N
<1> QED
  BY <1>2, <1>4 DEF Moved, u

LEMMA ChecksFail ==
  ASSUME NEW v, NEW on, Good(v, on), NEW C \in SUBSET DOMAIN v.checks
  PROVE  Moved(v, FailAll(v, C), on) /\ FailAll(v, C).proposals = v.proposals
<1>0. IsFiniteSet(C)
  <2>1. C \subseteq Group
    BY DEF Good, Settled, EntriesRight
  <2> QED
    BY <2>1, FS_Subset, FinderAssumption DEF FinderAssumption
<1>1. PICK f : FailAll(v, C) = f[C] /\ CheckFolds(f, v, C)
  BY <1>0, CheckFold
<1> DEFINE I == {s \in SUBSET C : /\ Moved(v, f[s], on) /\ f[s].proposals = v.proposals
                                  /\ DOMAIN f[s].checks = DOMAIN v.checks \ s}
           N == {}
<1>2. {} \in I
  <2>1. f[N] = v /\ N \in SUBSET C /\ DOMAIN v.checks \ N = DOMAIN v.checks
    BY <1>1 DEF CheckFolds
  <2> HIDE DEF N
  <2>2. Moved(v, f[N], on)
    BY <2>1, NotMoved
  <2> QED
    BY <2>1, <2>2 DEF N
<1>3. ASSUME NEW s \in SUBSET C, s # {}, s \ {Pick(s)} \in I
      PROVE  s \in I
  <2> DEFINE g == Pick(s)
             T == s \ {g}
             u == f[T]
             t == FailRoleCheck(u, g)
  <2>1. g \in s
    BY <1>0, <1>3, OneLess
  <2>2. Moved(v, u, on) /\ u.proposals = v.proposals /\ DOMAIN u.checks = DOMAIN v.checks \ T
    BY <1>3
  <2>3. f[s] = t
    BY <1>1, <1>3 DEF CheckFolds
  <2>4. g \in DOMAIN v.checks \ T /\ (DOMAIN v.checks \ T) \ {g} = DOMAIN v.checks \ s
    <3> HIDE DEF g
    <3> QED
      BY <2>1
  <2> HIDE DEF g, u, T, t
  <2>5. Moved(u, t, on) /\ t.proposals = u.proposals /\ DOMAIN t.checks = DOMAIN u.checks \ {g}
    BY <2>2, <2>4, OneCheckFails DEF Moved, t
  <2>6. Moved(v, t, on)
    BY <2>2, <2>5, MovedTwice
  <2>7. t.proposals = v.proposals /\ DOMAIN t.checks = DOMAIN v.checks \ s
    BY <2>2, <2>4, <2>5
  <2> QED
    BY <2>3, <2>6, <2>7
<1>4. C \in I
  <2> HIDE DEF I
  <2> QED
    BY <1>0, <1>2, <1>3, SetInduction
<1> QED
  BY <1>1, <1>4

(* Each entry is part of one proposal at most.                               *)
LEMMA FewProposals ==
  ASSUME NEW v, NEW on, Good(v, on)
  PROVE  IsFiniteSet(v.proposals)
<1>1. /\ ProposalsRight(v) /\ \A pr \in v.proposals : pr.queues \subseteq Guid
  BY DEF Good, Settled, Typed, ProposalTyped
<1> DEFINE E == UNION {pr.queues : pr \in v.proposals}
           f == [x \in E |-> CHOOSE pr \in v.proposals : x \in pr.queues]
<1>2. IsFiniteSet(Guid)
  BY FS_Union, FinderAssumption DEF FinderAssumption, Guid
<1>3. IsFiniteSet(E)
  <2>1. E \subseteq Guid
    BY <1>1
  <2> QED
    BY <1>2, <2>1, FS_Subset
<1>4. f \in [E -> v.proposals]
  OBVIOUS
<1>5. ASSUME NEW pr \in v.proposals
      PROVE  \E x \in E : f[x] = pr
  <2>1. PICK x \in pr.queues : TRUE
    BY <1>1 DEF ProposalsRight, ProposalRight
  <2>2. x \in E
    BY <2>1
  <2>3. f[x] \in v.proposals /\ x \in f[x].queues
    BY <2>2
  <2> HIDE DEF f, E
  <2>4. f[x] = pr
    <3>1. Settled(v, on, {})
      BY DEF Good
    <3> QED
      BY <2>1, <2>3, <3>1, KeysApart
  <2> QED
    BY <2>2, <2>4
<1> HIDE DEF f, E
<1>6. f \in Surjection(E, v.proposals)
  BY <1>4, <1>5 DEF Surjection
<1> QED
  BY <1>3, <1>6, FS_Surjection

LEMMA ProposalsExpire ==
  ASSUME NEW v, NEW on, Good(v, on), NEW P \in SUBSET v.proposals
  PROVE  Moved(v, RemoveAll(v, P), on)
<1>0. IsFiniteSet(P)
  BY FewProposals, FS_Subset
<1>1. PICK f : RemoveAll(v, P) = f[P] /\ ProposalFolds(f, v, P)
  BY <1>0, ProposalFold
<1> DEFINE I == {s \in SUBSET P : Moved(v, f[s], on) /\ f[s].proposals = v.proposals \ s}
           N == {}
<1>2. {} \in I
  <2>1. f[N] = v /\ N \in SUBSET P /\ v.proposals \ N = v.proposals
    BY <1>1 DEF ProposalFolds
  <2> HIDE DEF N
  <2>2. Moved(v, f[N], on)
    BY <2>1, NotMoved
  <2> QED
    BY <2>1, <2>2 DEF N
<1>3. ASSUME NEW s \in SUBSET P, s # {}, s \ {Pick(s)} \in I
      PROVE  s \in I
  <2> DEFINE pr == Pick(s)
             T == s \ {pr}
             u == f[T]
             t == RemoveProposal(u, pr, TRUE)
  <2>1. pr \in s
    BY <1>0, <1>3, OneLess
  <2>2. Moved(v, u, on) /\ u.proposals = v.proposals \ T
    BY <1>3
  <2>3. f[s] = t
    BY <1>1, <1>3 DEF ProposalFolds
  <2>4. pr \in v.proposals \ T /\ (v.proposals \ T) \ {pr} = v.proposals \ s
    <3> HIDE DEF pr
    <3> QED
      BY <2>1
  <2> HIDE DEF pr, u, T, t
  <2>5. pr \in u.proposals /\ Good(u, on)
    BY <2>2, <2>4 DEF Moved
  <2>6. Moved(u, t, on)
    BY <2>5, ProposalRemoved DEF t
  <2>7. t.proposals = u.proposals \ {pr}
    <3> DEFINE M == {}
    <3>1. Settled(u, on, M)
      BY <2>5 DEF Good
    <3> HIDE DEF M
    <3>2. ProposalOver(u, t, pr, Removed(u, pr, TRUE))
      BY <2>5, <3>1, RemoveProposalDoes DEF t
    <3> QED
      BY <3>2 DEF ProposalOver
  <2>8. Moved(v, t, on)
    BY <2>2, <2>6, MovedTwice
  <2>9. t.proposals = v.proposals \ s
    BY <2>2, <2>4, <2>7
  <2> QED
    BY <2>3, <2>8, <2>9
<1>4. P \in I
  <2> HIDE DEF I
  <2> QED
    BY <1>0, <1>2, <1>3, SetInduction
<1> QED
  BY <1>1, <1>4

AfterCancels(F) ==
  LET f == FinishAll(w, F)
  IN Reset(CancelAll(f, DOMAIN f.cancels))

AfterUpdate(F, C, P, B) ==
  WithoutBoots(RemoveAll(FailAll(AfterCancels(F), C), P), B)

LEMMA UpdateIs ==
  ASSUME Update
  PROVE  \E F \in SUBSET {g \in Group : w.old[g] = "dungeon"} :
           \E C \in SUBSET DOMAIN AfterCancels(F).checks, P \in SUBSET AfterCancels(F).proposals,
              B \in SUBSET DOMAIN AfterCancels(F).boots : w' = AfterUpdate(F, C, P, B)
BY Zenon DEF Update, AfterCancels, AfterUpdate, FinishAll, CancelAll, FailAll, RemoveAll, Reset,
             WithoutBoots

LEMMA CancelsKeep ==
  ASSUME NEW on, Good(w, on), w.members = w.players,
         NEW F \in SUBSET {g \in Group : w.old[g] = "dungeon"}
  PROVE  LET v == AfterCancels(F)
         IN Good(v, on) /\ SameGroups(w, v) /\ OldLess(w, v)
<1> DEFINE f == FinishAll(w, F)
           U == DOMAIN f.cancels
           u == CancelAll(f, U)
           v == Reset(u)
           N == {}
<1>1. Settled(w, on, N) /\ w.cancels = <<>>
  BY DEF Good
<1> HIDE DEF N
<1>2. Typed(w) /\ GroupsRight(w) /\ F \in SUBSET Group /\ \A g \in F : w.old[g] = "dungeon"
  BY <1>1 DEF Settled
<1>3. FinishedIs(w, f, F)
  BY <1>1, <1>2, AllFinished
<1> HIDE DEF f
<1>4. Settled(f, on, U) /\ U \subseteq Group /\ \A pr \in f.proposals : pr.begun
  BY <1>2, <1>3, FinishedSettled
<1>5. ToCancel(f, U) /\ OldLess(w, f)
  BY <1>2, <1>3, FinishedCancels
<1>6. IsFiniteSet(U)
  BY <1>4, FS_Subset, FinderAssumption DEF FinderAssumption
<1>7. Cancelling(f, f, on, U)
  BY <1>4, <1>5 DEF Cancelling, SameGroups
<1>8. /\ Settled(u, on, N) /\ SameGroups(f, u) /\ u.old = f.old /\ \A pr \in u.proposals : pr.begun
  <2> HIDE DEF U
  <2> QED
    BY <1>6, <1>7, AllCancelled DEF N
<1> HIDE DEF u
<1>9. Moved(u, v, on)
  BY <1>8, ResetGood DEF N
<1> HIDE DEF v
<1>10. SameGroups(w, v)
  BY <1>3, <1>8, <1>9 DEF Moved, SameGroups, FinishedIs
<1>11. OldLess(w, v)
  BY <1>5, <1>8, <1>9 DEF Moved, OldLess
<1>12. Good(v, on) /\ v = AfterCancels(F)
  <2>1. v = AfterCancels(F)
    BY DEF AfterCancels, v, u, U, f
  <2> QED
    BY <1>9, <2>1 DEF Moved
<1> QED
  BY <1>10, <1>11, <1>12

LEMMA UpdateKeeps ==
  ASSUME IInv, Update
  PROVE  /\ phase' = "matching" /\ UNCHANGED online
         /\ Good(w', online) /\ w'.members = w'.players /\ OldLess(w, w')
<1>1. phase = "sessions" /\ phase' = "matching" /\ UNCHANGED online
  BY DEF Update
<1>2. Good(w, online) /\ w.members = w.players
  BY <1>1, SessionsMean
<1>3. PICK F \in SUBSET {g \in Group : w.old[g] = "dungeon"} :
        \E C \in SUBSET DOMAIN AfterCancels(F).checks, P \in SUBSET AfterCancels(F).proposals,
           B \in SUBSET DOMAIN AfterCancels(F).boots : w' = AfterUpdate(F, C, P, B)
  BY UpdateIs
<1> DEFINE v == AfterCancels(F)
<1>4. PICK C \in SUBSET DOMAIN v.checks, P \in SUBSET v.proposals, B \in SUBSET DOMAIN v.boots :
        w' = AfterUpdate(F, C, P, B)
  BY <1>3
<1> DEFINE r == FailAll(v, C)
           s == RemoveAll(r, P)
           t == WithoutBoots(s, B)
<1>5. w' = t
  BY <1>4 DEF AfterUpdate
<1>6. Good(v, online) /\ SameGroups(w, v) /\ OldLess(w, v)
  BY <1>2, CancelsKeep
<1> HIDE DEF v
<1>7. Moved(v, r, online) /\ r.proposals = v.proposals
  BY <1>6, ChecksFail
<1> HIDE DEF r
<1>8. Moved(r, s, online)
  BY <1>7, ProposalsExpire DEF Moved
<1> HIDE DEF s
<1>9. IsRecord(s)
  BY <1>8 DEF Moved, Good, Settled, Typed
<1>10. Good(t, online) /\ WithoutBootsIs(s, t, B)
  BY <1>8, <1>9, WithoutBootsGood, WithoutBootsDoes DEF Moved
<1> HIDE DEF t
<1>11. t.members = t.players
  BY <1>2, <1>6, <1>7, <1>8, <1>10 DEF Moved, SameGroups, WithoutBootsIs
<1>12. OldLess(w, t)
  BY <1>6, <1>7, <1>8, <1>10 DEF Moved, WithoutBootsIs, SameFinder, SameStates, OldLess
<1> QED
  BY <1>1, <1>5, <1>10, <1>11, <1>12

-----------------------------------------------------------------------------
(* LFGMgr::Update: groups are found.                                         *)

(* x is no longer to be matched (again).                                    *)
Taken(z, v, x) ==
  /\ IsRecord(v) /\ SameGroups(z, v) /\ SameStates(z, v) /\ SameRest(z, v)
  /\ v.data = z.data /\ v.current = z.current
  /\ v.new \in {z.new, z.new \ {x}} /\ v.rematch \in {z.rematch, z.rematch \ {x}}

LEMMA TakenDoes ==
  ASSUME NEW z, IsRecord(z), NEW x
  PROVE  /\ Taken(z, [z EXCEPT !.rematch = @ \ {x}], x)
         /\ Taken(z, [z EXCEPT !.new = @ \ {x}], x)
         /\ [z EXCEPT !.rematch = @ \ {x}].new = z.new
         /\ [z EXCEPT !.rematch = @ \ {x}].rematch = z.rematch \ {x}
         /\ [z EXCEPT !.new = @ \ {x}].new = z.new \ {x}
         /\ [z EXCEPT !.new = @ \ {x}].rematch = z.rematch
BY DEF Taken, IsRecord, Fields, SameGroups, SameStates, SameRest

(* The proposal that Propose makes.                                         *)
Players(v, S) == UNION {v.data[y] : y \in S}
Lfg(v, S)     == {y \in S : IsLfgGroup(v, y)}
GroupOfOffer(v, S) == IF Lfg(v, S) = {} THEN None ELSE CHOOSE y \in Lfg(v, S) : TRUE
NewOffer(v, S) == Lfg(v, S) = {} \/ v.old[GroupOfOffer(v, S)] # "dungeon"
OfOffer(v, S) ==
  [p \in Players(v, S) |-> IF p \in S THEN None ELSE CHOOSE y \in S : p \in v.data[y]]
AcceptOffer(v, S) ==
  [p \in Players(v, S) |->
     IF ~ NewOffer(v, S) /\ OfOffer(v, S)[p] = GroupOfOffer(v, S) THEN "agree" ELSE "pending"]
Offer(v, S) ==
  [queues |-> S, group |-> GroupOfOffer(v, S), isNew |-> NewOffer(v, S),
   of |-> OfOffer(v, S), accept |-> AcceptOffer(v, S), begun |-> FALSE]

Proposed(v, u, S, pr) ==
  /\ IsRecord(u) /\ SameGroups(v, u) /\ SameStates(v, u) /\ u.checks = v.checks
  /\ u.cancels = v.cancels /\ u.data = v.data /\ u.rematch = v.rematch
  /\ u.new = v.new \ S /\ u.current = v.current \ S /\ u.proposals = v.proposals \cup {pr}

LEMMA ProposeDoes ==
  ASSUME NEW v, IsRecord(v), NEW S
  PROVE  Proposed(v, Propose(v, S), S, Offer(v, S))
<1> DEFINE pr == Offer(v, S)
           u  == [v EXCEPT !.new = @ \ S, !.current = @ \ S, !.proposals = @ \cup {pr}]
<1>1. Propose(v, S) = u
  BY Zenon DEF Propose, Offer, OfOffer, AcceptOffer, NewOffer, GroupOfOffer, Lfg, Players
<1> HIDE DEF pr
<1>2. Proposed(v, u, S, pr)
  BY DEF Proposed, IsRecord, Fields, SameGroups, SameStates
<1> QED
  BY <1>1, <1>2 DEF pr

(* S are whole units that wait.                                             *)
OfferRight(z, v, S, pr) ==
  /\ ProposalTyped(pr) /\ pr.queues = S /\ pr.begun = FALSE
  /\ DOMAIN pr.of = Players(v, S) /\ pr.group \in S \cup {None}
  /\ \A p \in Player : p \in DOMAIN pr.of <=> UnitOf(z, p) \in S
  /\ \A p \in DOMAIN pr.of : pr.of[p] = z.of[p] /\ EntryOf(pr, p) = UnitOf(z, p)
  /\ UnitsIn(z, pr) = S /\ S = {EntryOf(pr, p) : p \in DOMAIN pr.of}

LEMMA OfferIs ==
  ASSUME NEW z, NEW on, NEW U, Settled(z, on, U), NEW v, NEW x, Taken(z, v, x),
         NEW S \in SUBSET (z.new \cup z.current), S # {}
  PROVE  OfferRight(z, v, S, Offer(v, S))
<1> DEFINE pr == Offer(v, S)
<1>1. Typed(z) /\ GroupsRight(z) /\ v.data = z.data
  BY DEF Settled, Taken
<1>3. ASSUME NEW y \in S
      PROVE  /\ y \in Guid /\ UnitOf(z, y) = y /\ v.data[y] \subseteq Player
             /\ Complete(z, on, z.data[y], y)
             /\ \A p \in Player : p \in v.data[y] <=> UnitOf(z, p) = y
             /\ \E p \in Player : UnitOf(z, p) = y
  <2>1. Complete(z, on, z.data[y], y)
    BY WaitingIs
  <2>2. /\ y \in Guid /\ UnitOf(z, y) = y /\ z.data[y] \subseteq Player /\ z.data[y] # {}
        /\ \A p \in Player : p \in z.data[y] <=> UnitOf(z, p) = y
    BY <1>1, <2>1, CompleteMeans
  <2> QED
    BY <1>1, <2>1, <2>2
<1>4. /\ pr.queues = S /\ pr.begun = FALSE /\ pr.of = OfOffer(v, S) /\ pr.group = GroupOfOffer(v, S)
      /\ pr.isNew = NewOffer(v, S) /\ pr.accept = AcceptOffer(v, S)
      /\ pr = [queues |-> pr.queues, group |-> pr.group, isNew |-> pr.isNew,
               of |-> pr.of, accept |-> pr.accept, begun |-> pr.begun]
  BY DEF Offer
<1> HIDE DEF pr
<1>5. Players(v, S) \subseteq Player /\ \A p \in Player : p \in Players(v, S) <=> UnitOf(z, p) \in S
  BY <1>3 DEF Players
<1>6. GroupOfOffer(v, S) \in S \cup {None} /\ GroupOfOffer(v, S) \in Group \cup {None}
  BY DEF GroupOfOffer, Lfg, IsLfgGroup
<1>7. ASSUME NEW p \in Players(v, S)
      PROVE  OfOffer(v, S)[p] = z.of[p]
  <2>1. p \in Player /\ UnitOf(z, p) \in S /\ p \in Guid
    BY <1>5, Names
  <2>2. OfOffer(v, S)[p] = IF p \in S THEN None ELSE CHOOSE y \in S : p \in v.data[y]
    BY DEF OfOffer
  <2>3. CASE p \in S
    <3>1. Complete(z, on, z.data[p], p)
      BY <1>3, <2>3
    <3> QED
      BY <2>1, <2>2, <2>3, <3>1 DEF Complete
  <2>4. CASE p \notin S
    <3>1. z.of[p] = UnitOf(z, p)
      BY <1>1, <2>1, <2>4, UnitIs
    <3> DEFINE y == CHOOSE h \in S : p \in v.data[h]
    <3>2. \E h \in S : p \in v.data[h]
      BY <1>3, <2>1
    <3>3. y \in S /\ p \in v.data[y]
      BY <3>2
    <3>4. OfOffer(v, S)[p] = y
      BY <2>2, <2>4
    <3> HIDE DEF y
    <3>5. UnitOf(z, p) = y
      BY <1>3, <2>1, <3>3
    <3> QED
      BY <3>1, <3>4, <3>5
  <2> QED
    BY <2>3, <2>4
<1>8. DOMAIN OfOffer(v, S) = Players(v, S)
  BY DEF OfOffer
<1>9. OfOffer(v, S) \in [Players(v, S) -> Group \cup {None}]
  <2>1. \A p \in Players(v, S) : OfOffer(v, S)[p] \in Group \cup {None}
    BY <1>1, <1>5, <1>7 DEF Typed
  <2> QED
    BY <2>1 DEF OfOffer
<1>10. AcceptOffer(v, S) \in [Players(v, S) -> Answer] /\ NewOffer(v, S) \in BOOLEAN
  BY DEF AcceptOffer, Answer, NewOffer
<1>11. ProposalTyped(pr)
  <2>1. S \subseteq Guid
    BY <1>3
  <2>2. pr.begun \in BOOLEAN
    BY <1>4
  <2> QED
    BY <1>4, <1>5, <1>6, <1>8, <1>9, <1>10, <2>1, <2>2 DEF ProposalTyped
<1>12. pr.queues = S /\ pr.begun = FALSE /\ DOMAIN pr.of = Players(v, S) /\ pr.group \in S \cup {None}
  BY <1>4, <1>6, <1>8
<1>13. /\ \A p \in Player : p \in DOMAIN pr.of <=> UnitOf(z, p) \in S
       /\ \A p \in DOMAIN pr.of : pr.of[p] = z.of[p] /\ p \in Player
  BY <1>4, <1>5, <1>7, <1>8
<1>15. \A p \in DOMAIN pr.of : EntryOf(pr, p) = UnitOf(z, p)
  BY <1>13, Names DEF EntryOf, UnitOf
<1>16. \A y : y \in S <=> \E p \in DOMAIN pr.of : UnitOf(z, p) = y
  <2>1. \A y \in S : \E p \in DOMAIN pr.of : UnitOf(z, p) = y
    BY <1>3, <1>13
  <2>2. \A p \in DOMAIN pr.of : UnitOf(z, p) \in S
    BY <1>13
  <2> QED
    BY <2>1, <2>2
<1>17. UnitsIn(z, pr) = S
  BY <1>16 DEF UnitsIn
<1>18. S = {EntryOf(pr, p) : p \in DOMAIN pr.of}
  <2>1. \A y \in S : \E p \in DOMAIN pr.of : y = EntryOf(pr, p)
    BY <1>15, <1>16
  <2>2. \A p \in DOMAIN pr.of : EntryOf(pr, p) \in S
    BY <1>13, <1>15
  <2> QED
    BY <2>1, <2>2, Zenon
<1>14. OfferRight(z, v, S, pr)
  BY <1>11, <1>12, <1>13, <1>15, <1>17, <1>18 DEF OfferRight
<1> QED
  BY <1>14 DEF pr

LEMMA ProposedSettled ==
  ASSUME NEW z, NEW on, NEW U, Settled(z, on, U), NEW v, NEW x, Taken(z, v, x),
         x \in z.new \cup z.current, NEW S \in Matches(v, x),
         NEW pr, pr = Offer(v, S), NEW u, Proposed(v, u, S, pr), u.new = z.new \ S
  PROVE  Settled(u, on, U) /\ SameGroups(z, u) /\ u.old = z.old /\ u.cancels = z.cancels
<1>1. /\ Typed(z) /\ GroupsRight(z) /\ StatesAgree(z, U) /\ EntriesRight(z, on)
      /\ ProposalsRight(z) /\ NoneMissed(z)
  BY DEF Settled
<1>2. /\ SameGroups(z, u) /\ SameStates(z, u) /\ u.checks = z.checks /\ u.cancels = z.cancels
      /\ u.data = z.data /\ u.new = z.new \ S /\ u.current = z.current \ S
      /\ u.rematch \in {z.rematch, z.rematch \ {x}} /\ u.proposals = z.proposals \cup {pr}
      /\ IsRecord(u)
  BY DEF Taken, Proposed, SameGroups, SameStates, SameRest
<1>3. /\ x \in S /\ S \subseteq z.new \cup z.current /\ Players(z, S) \in Compatible
      /\ \A y, t \in S : IsLfgGroup(z, y) /\ IsLfgGroup(z, t) => y = t
  BY DEF Matches, Taken, Players, IsLfgGroup, SameStates
<1>4. S \in SUBSET (z.new \cup z.current) /\ S # {}
  BY <1>3
<1>5. /\ ProposalTyped(pr) /\ pr.queues = S /\ pr.begun = FALSE
      /\ DOMAIN pr.of = Players(v, S) /\ pr.group \in S \cup {None}
      /\ \A p \in Player : p \in DOMAIN pr.of <=> UnitOf(z, p) \in S
      /\ \A p \in DOMAIN pr.of : pr.of[p] = z.of[p]
      /\ UnitsIn(z, pr) = S /\ S = {EntryOf(pr, p) : p \in DOMAIN pr.of}
  <2>1. OfferRight(z, v, S, pr)
    BY <1>4, OfferIs
  <2> QED
    BY <2>1 DEF OfferRight
<1>6. Players(v, S) = Players(z, S)
  BY DEF Players, Taken
<1>7. \A y : UnitOf(u, y) = UnitOf(z, y)
  BY <1>2 DEF UnitOf, SameGroups
<1>a. \A qr : UnitsIn(u, qr) = UnitsIn(z, qr)
  BY <1>7 DEF UnitsIn
<1>b. \A qr, p : Relict(u, qr, p) <=> Relict(z, qr, p)
  BY <1>2 DEF Relict, SameGroups
<1>8. \A y : /\ y \in Offered(u, TRUE) <=> y \in Offered(z, TRUE)
             /\ y \in Offered(u, FALSE) <=> y \in Offered(z, FALSE) \cup S
  <2> TAKE y
  <2>a. y \in Offered(u, TRUE) <=> \E qr \in u.proposals : qr.begun = TRUE /\ y \in UnitsIn(u, qr)
    BY OfferedAre
  <2>b. y \in Offered(u, FALSE) <=> \E qr \in u.proposals : qr.begun = FALSE /\ y \in UnitsIn(u, qr)
    BY OfferedAre
  <2>1. y \in Offered(u, TRUE) <=> \E qr \in u.proposals : qr.begun = TRUE /\ y \in UnitsIn(z, qr)
    BY <1>a, <2>a
  <2>2. y \in Offered(z, TRUE) <=> \E qr \in z.proposals : qr.begun = TRUE /\ y \in UnitsIn(z, qr)
    BY OfferedAre
  <2>3. y \in Offered(u, FALSE) <=> \E qr \in u.proposals : qr.begun = FALSE /\ y \in UnitsIn(z, qr)
    BY <1>a, <2>b
  <2>4. y \in Offered(z, FALSE) <=> \E qr \in z.proposals : qr.begun = FALSE /\ y \in UnitsIn(z, qr)
    BY OfferedAre
  <2>5. y \in Offered(u, TRUE) <=> y \in Offered(z, TRUE)
    BY <1>2, <1>5, <2>1, <2>2
  <2>6. y \in Offered(u, FALSE) <=> y \in Offered(z, FALSE) \cup S
    BY <1>2, <1>5, <2>3, <2>4
  <2> QED
    BY <2>5, <2>6
<1>9. \A y : y \in InQueue(u) <=> y \in InQueue(z)
  BY <1>2, <1>3, <1>8 DEF InQueue
<1>10. InQueue(u) = InQueue(z) /\ Offered(u, TRUE) = Offered(z, TRUE)
  BY <1>8, <1>9
<1>11. Typed(u)
  <2>1. \A qr \in u.proposals : ProposalTyped(qr)
    BY <1>1, <1>2, <1>5 DEF Typed
  <2> QED
    BY <1>1, <1>2, <2>1 DEF Typed, SameGroups, SameStates
<1>12. GroupsRight(u)
  BY <1>1, <1>2 DEF GroupsRight, SameGroups
<1>13. StatesAgree(u, U)
  BY <1>1, <1>2, <1>7, <1>10 DEF StatesAgree, StateAgrees, SameStates
<1>14. EntriesRight(u, on)
  <2>1. \A T, y : Complete(z, on, T, y) => Complete(u, on, T, y)
    BY <1>2 DEF Complete, SameGroups
  <2>2. u.new \cap u.current = {}
    BY <1>1, <1>2 DEF EntriesRight
  <2>3. \A y : Remains(z, on, y) => Remains(u, on, y)
    BY <1>2, <1>b DEF Remains, SameGroups
  <2>4. Keys(u) = Keys(z) \cup S
    BY <1>2, <1>5 DEF Keys
  <2>5. DOMAIN u.data = u.new \cup u.current \cup Keys(u)
    BY <1>1, <1>2, <1>3, <2>4 DEF EntriesRight
  <2> QED
    BY <1>1, <1>2, <2>1, <2>2, <2>3, <2>5 DEF EntriesRight
<1>15. \A y : IsLfgGroup(u, y) <=> IsLfgGroup(z, y)
  BY <1>2 DEF IsLfgGroup, SameStates
<1>16. ProposalsRight(u)
  <2>1. ASSUME NEW qr \in z.proposals PROVE ProposalRight(u, qr) /\ UnitsIn(u, qr) \cap S = {}
    <3>1. ProposalRight(z, qr)
      BY <1>1 DEF ProposalsRight
    <3>2. /\ (qr.queues \cup UnitsIn(u, qr)) \cap (u.new \cup u.current) = {}
          /\ UnitsIn(u, qr) \cap S = {}
      BY <1>2, <1>3, <1>a, <3>1 DEF ProposalRight
    <3> QED
      BY <1>2, <1>7, <1>15, <1>a, <1>b, <3>1, <3>2 DEF ProposalRight, SameGroups
  <2>2. ProposalRight(u, pr)
    <3>1. /\ pr.queues # {} /\ pr.queues = {EntryOf(pr, p) : p \in DOMAIN pr.of}
          /\ UnitsIn(u, pr) = S /\ (pr.queues \cup UnitsIn(u, pr)) \cap (u.new \cup u.current) = {}
      BY <1>2, <1>4, <1>5, <1>a
    <3>2. \A p \in DOMAIN pr.of : pr.of[p] = u.of[p]
      BY <1>2, <1>5 DEF SameGroups
    <3>3. DOMAIN pr.of \in Compatible
      BY <1>3, <1>5, <1>6
    <3>4. \A y, t \in pr.queues : IsLfgGroup(u, y) /\ IsLfgGroup(u, t) => y = t
      BY <1>3, <1>5, <1>15
    <3>5. \A p \in Player : p \in DOMAIN pr.of <=> UnitOf(u, p) \in pr.queues
      BY <1>5, <1>7
    <3> QED
      BY <1>5, <3>1, <3>2, <3>3, <3>4, <3>5 DEF ProposalRight
  <2>3. \A qr \in u.proposals : ProposalRight(u, qr)
    BY <1>2, <2>1, <2>2
  <2>4. \A qr, sr \in u.proposals : qr = sr \/ UnitsIn(u, qr) \cap UnitsIn(u, sr) = {}
    BY <1>1, <1>2, <1>5, <1>a, <2>1 DEF ProposalsRight
  <2> QED
    BY <2>3, <2>4 DEF ProposalsRight
<1>17. NoneMissed(u)
  <2>1. ASSUME NEW y \in u.current \ u.rematch
        PROVE  /\ y \in z.current \ z.rematch /\ u.data[y] = z.data[y]
               /\ IsLfgGroup(z, y) => IsLfgGroup(u, y)
    BY <1>2, <1>3, <1>15
  <2> QED
    BY <1>1, <2>1, FewerMatches
<1>18. Settled(u, on, U)
  BY <1>11, <1>12, <1>13, <1>14, <1>16, <1>17 DEF Settled
<1> QED
  BY <1>2, <1>18 DEF SameStates

(* What waits is in the state of what waits.                                *)
LEMMA MatchOf ==
  ASSUME NEW z, NEW on, Settled(z, on, {}), NEW v, NEW x, Taken(z, v, x),
         NEW S \in SUBSET (z.current \cup {x}), x \in S, x \in z.new \cup z.current, IsMatch(z, S)
  PROVE  S \in Matches(v, x)
<1> DEFINE N == {}
<1>1. Settled(z, on, N) /\ N = {}
  OBVIOUS
<1> HIDE DEF N
<1>2. Typed(z) /\ StatesAgree(z, N) /\ EntriesRight(z, on)
  BY <1>1 DEF Settled
<1>3. ASSUME NEW y \in S
      PROVE  z.state[y] = "queued"
  <2>1. y \in z.new \cup z.current
    OBVIOUS
  <2>2. y \in InQueue(z) /\ y \in DOMAIN z.data
    BY <1>2, <2>1 DEF InQueue, EntriesRight
  <2>3. y \in Guid /\ UnitOf(z, y) = y
    BY <1>2, <2>2, EntryIsUnit
  <2>4. StateAgrees(z, N, y)
    BY <1>2, <2>3 DEF StatesAgree
  <2> QED
    BY <1>1, <2>2, <2>3, <2>4 DEF StateAgrees
<1>4. v.data = z.data /\ v.current = z.current /\ v.state = z.state /\ v.old = z.old
  BY DEF Taken, SameStates
<1>5. \A y : IsLfgGroup(v, y) <=> IsLfgGroup(z, y)
  BY <1>4 DEF IsLfgGroup
<1>6. S \in SUBSET (v.current \cup {x}) /\ \A y \in S : v.state[y] = "queued"
  BY <1>3, <1>4
<1>7. /\ UNION {v.data[y] : y \in S} \in Compatible
      /\ \A y, t \in S : y = t \/ v.data[y] \cap v.data[t] = {}
      /\ \A y, t \in S : IsLfgGroup(v, y) /\ IsLfgGroup(v, t) => y = t
  BY <1>4, <1>5 DEF IsMatch
<1> QED
  BY <1>6, <1>7 DEF Matches

(* In the phase of matching proposals may be there whose players are not      *)
(* asked yet.                                                               *)
Matched(u, on) ==
  Settled(u, on, {}) /\ u.members = u.players /\ u.cancels = <<>> /\ u.old = w.old

(* x is no longer to be matched again, and is part of no match.              *)
LEMMA NoRematch ==
  ASSUME NEW on, Matched(w, on), NEW x \in w.rematch, NEW v, Taken(w, v, x), v.new = w.new,
         v.rematch = w.rematch \ {x}, x \in v.current => Matches(v, x) = {}
  PROVE  Matched(v, on)
<1> DEFINE N == {}
<1>0. Settled(w, on, {})
  BY DEF Matched
<1>1. Settled(w, on, N) /\ Typed(w) /\ GroupsRight(w) /\ NoneMissed(w) /\ w.members = w.players
      /\ w.cancels = <<>>
  BY DEF Matched, Settled
<1> HIDE DEF N
<1>2. /\ IsRecord(v) /\ SameGroups(w, v) /\ SameStates(w, v) /\ SameRest(w, v)
      /\ v.data = w.data /\ v.current = w.current
  BY DEF Taken
<1>3. \A y : UnitOf(v, y) = UnitOf(w, y)
  BY <1>2 DEF UnitOf, SameGroups
<1>a. /\ v.proposals = w.proposals /\ \A pr : UnitsIn(v, pr) = UnitsIn(w, pr)
      /\ Offered(v, TRUE) = Offered(w, TRUE) /\ Offered(v, FALSE) = Offered(w, FALSE)
  BY <1>2, SameUnits DEF SameRest
<1>b. /\ Keys(v) = Keys(w)
      /\ \A pr, p : Relict(v, pr, p) <=> Relict(w, pr, p)
      /\ \A y : Remains(v, on, y) <=> Remains(w, on, y)
  BY <1>2, <1>a, SameRemains
<1>4. InQueue(v) = InQueue(w) /\ Offered(v, TRUE) = Offered(w, TRUE)
  BY <1>2, <1>a DEF InQueue
<1>5. Typed(v) /\ GroupsRight(v)
  BY <1>1, <1>2 DEF Typed, GroupsRight, SameGroups, SameStates, SameRest
<1>6. StatesAgree(v, N)
  BY <1>1, <1>2, <1>3, <1>4 DEF Settled, StatesAgree, StateAgrees, SameStates, SameRest
<1>7. EntriesRight(v, on)
  <2>1. \A S, y : Complete(w, on, S, y) => Complete(v, on, S, y)
    BY <1>2 DEF Complete, SameGroups
  <2> QED
    BY <1>1, <1>2, <1>b, <2>1 DEF Settled, EntriesRight, SameRest
<1>8. \A y : IsLfgGroup(v, y) <=> IsLfgGroup(w, y)
  BY <1>2 DEF IsLfgGroup, SameStates
<1>9. ProposalsRight(v)
  <2>1. \A pr \in v.proposals : ProposalRight(v, pr)
    BY <1>1, <1>2, <1>3, <1>8, <1>a, <1>b DEF Settled, ProposalsRight, ProposalRight, SameRest, SameGroups
  <2> QED
    BY <1>1, <1>a, <2>1 DEF Settled, ProposalsRight, SameRest
<1>10. NoneMissed(v)
  <2> SUFFICES ASSUME NEW S \in SUBSET v.current, IsMatch(v, S), S \cap v.rematch = {}
               PROVE  FALSE
    BY DEF NoneMissed
  <2>1. IsMatch(w, S)
    BY <1>2, <1>8 DEF IsMatch
  <2>2. S \in SUBSET w.current
    BY <1>2
  <2>3. S \cap w.rematch # {}
    BY <1>1, <2>1, <2>2 DEF NoneMissed
  <2>4. x \in S
    BY <2>3
  <2>5. x \in v.current /\ x \in w.new \cup w.current /\ S \in SUBSET (w.current \cup {x})
    BY <1>2, <2>2, <2>4
  <2>6. S \in Matches(v, x)
    BY <1>0, <2>1, <2>4, <2>5, MatchOf
  <2> QED
    BY <2>5, <2>6
<1>11. Settled(v, on, N)
  BY <1>5, <1>6, <1>7, <1>9, <1>10 DEF Settled
<1> QED
  BY <1>1, <1>2, <1>11 DEF Matched, N, SameGroups, SameRest, SameStates

(* x is part of no match, and waits with the others that are not.            *)
MadeCurrent(v, x) == [v EXCEPT !.current = @ \cup {x}]

LEMMA NoMatchOfNew ==
  ASSUME NEW on, Matched(w, on), w.rematch = {}, NEW x \in w.new, NEW v, Taken(w, v, x),
         v.new = w.new \ {x}, v.rematch = w.rematch, Matches(v, x) = {}
  PROVE  Matched(MadeCurrent(v, x), on)
<1> DEFINE N == {}
           u == MadeCurrent(v, x)
<1>0. Settled(w, on, {})
  BY DEF Matched
<1>1. Settled(w, on, N) /\ Typed(w) /\ GroupsRight(w) /\ NoneMissed(w) /\ w.members = w.players
      /\ w.cancels = <<>>
  BY DEF Matched, Settled
<1> HIDE DEF N
<1>2. /\ IsRecord(u) /\ SameGroups(w, u) /\ SameStates(w, u) /\ SameRest(w, u)
      /\ u.data = w.data /\ u.current = w.current \cup {x} /\ u.new = w.new \ {x}
      /\ u.rematch = w.rematch
  <2>1. /\ IsRecord(u) /\ SameGroups(v, u) /\ SameStates(v, u) /\ SameRest(v, u)
        /\ u.data = v.data /\ u.current = v.current \cup {x} /\ u.new = v.new
        /\ u.rematch = v.rematch
    BY DEF Taken, MadeCurrent, IsRecord, Fields, SameGroups, SameStates, SameRest
  <2> HIDE DEF u
  <2> QED
    BY <2>1 DEF Taken, SameGroups, SameStates, SameRest
<1> HIDE DEF u
<1>3. \A y : UnitOf(u, y) = UnitOf(w, y)
  BY <1>2 DEF UnitOf, SameGroups
<1>a. /\ u.proposals = w.proposals /\ \A pr : UnitsIn(u, pr) = UnitsIn(w, pr)
      /\ Offered(u, TRUE) = Offered(w, TRUE) /\ Offered(u, FALSE) = Offered(w, FALSE)
  BY <1>2, SameUnits DEF SameRest
<1>b. /\ Keys(u) = Keys(w)
      /\ \A pr, p : Relict(u, pr, p) <=> Relict(w, pr, p)
      /\ \A y : Remains(u, on, y) <=> Remains(w, on, y)
  BY <1>2, <1>a, SameRemains
<1>4. InQueue(u) = InQueue(w) /\ Offered(u, TRUE) = Offered(w, TRUE)
  <2>1. u.new \cup u.current = w.new \cup w.current
    BY <1>2
  <2> QED
    BY <1>a, <2>1 DEF InQueue
<1>5. Typed(u) /\ GroupsRight(u)
  BY <1>1, <1>2 DEF Typed, GroupsRight, SameGroups, SameStates, SameRest
<1>6. StatesAgree(u, N)
  BY <1>1, <1>2, <1>3, <1>4 DEF Settled, StatesAgree, StateAgrees, SameStates, SameRest
<1>7. EntriesRight(u, on)
  <2>1. \A S, y : Complete(w, on, S, y) => Complete(u, on, S, y)
    BY <1>2 DEF Complete, SameGroups
  <2>2. u.new \cap u.current = {}
    BY <1>1, <1>2 DEF Settled, EntriesRight
  <2> QED
    BY <1>1, <1>2, <1>b, <2>1, <2>2 DEF Settled, EntriesRight, SameRest
<1>8. \A y : IsLfgGroup(u, y) <=> IsLfgGroup(w, y)
  BY <1>2 DEF IsLfgGroup, SameStates
<1>9. ProposalsRight(u)
  <2>1. ASSUME NEW pr \in u.proposals PROVE ProposalRight(u, pr)
    <3>1. ProposalRight(w, pr)
      BY <1>1, <1>2 DEF Settled, ProposalsRight, SameRest
    <3>2. (pr.queues \cup UnitsIn(u, pr)) \cap (u.new \cup u.current) = {}
      BY <1>2, <1>a, <3>1 DEF ProposalRight
    <3> QED
      BY <1>2, <1>3, <1>8, <1>a, <1>b, <3>1, <3>2 DEF ProposalRight, SameGroups
  <2> QED
    BY <1>1, <1>a, <2>1 DEF Settled, ProposalsRight, SameRest
<1>10. NoneMissed(u)
  <2> SUFFICES ASSUME NEW S \in SUBSET u.current, IsMatch(u, S) PROVE FALSE
    BY DEF NoneMissed
  <2>1. IsMatch(w, S)
    BY <1>2, <1>8 DEF IsMatch
  <2>2. S \in SUBSET (w.current \cup {x}) /\ x \in w.new \cup w.current
    BY <1>2
  <2>3. x \in S
    BY <1>1, <2>1, <2>2 DEF NoneMissed
  <2>4. S \in Matches(v, x)
    BY <1>0, <2>1, <2>2, <2>3, MatchOf
  <2> QED
    BY <2>4
<1>11. Settled(u, on, N)
  BY <1>5, <1>6, <1>7, <1>9, <1>10 DEF Settled
<1>12. Matched(u, on)
  BY <1>1, <1>2, <1>11 DEF Matched, N, SameGroups, SameRest, SameStates
<1> QED
  BY <1>12 DEF u

LEMMA MatchFound ==
  ASSUME NEW on, Matched(w, on), NEW x, NEW v, Taken(w, v, x), x \in w.new \cup w.current,
         v.new = w.new \/ v.new = w.new \ {x}, NEW S \in Matches(v, x)
  PROVE  Matched(Propose(v, S), on)
<1> DEFINE N == {}
           u == Propose(v, S)
           pr == Offer(v, S)
<1>1. Settled(w, on, N) /\ w.members = w.players /\ w.cancels = <<>>
  BY DEF Matched
<1> HIDE DEF N
<1>2. Proposed(v, u, S, pr)
  BY ProposeDoes DEF Taken
<1>3. x \in S
  BY DEF Matches
<1>4. u.new = w.new \ S
  BY <1>2, <1>3 DEF Proposed
<1> HIDE DEF u
<1>5. Settled(u, on, N) /\ SameGroups(w, u) /\ u.old = w.old /\ u.cancels = w.cancels
  BY <1>1, <1>2, <1>4, ProposedSettled
<1>6. Matched(u, on)
  BY <1>1, <1>5 DEF Matched, N, SameGroups
<1> QED
  BY <1>6 DEF u

LEMMA FindGroupsKeeps ==
  ASSUME IInv, FindGroups
  PROVE  /\ phase' = "matching" /\ UNCHANGED online /\ Matched(w', online)
<1>1. /\ phase = "matching" /\ UNCHANGED <<phase, online>>
      /\ \/ \E x \in w.rematch :
              LET v == [w EXCEPT !.rematch = @ \ {x}]
                  M == IF x \in v.current THEN Matches(v, x) ELSE {}
              IN IF M = {} THEN w' = v ELSE \E S \in M : w' = Propose(v, S)
         \/ /\ w.rematch = {}
            /\ \E x \in w.new :
                 LET v == [w EXCEPT !.new = @ \ {x}]
                 IN IF Matches(v, x) = {} THEN w' = [v EXCEPT !.current = @ \cup {x}]
                    ELSE \E S \in Matches(v, x) : w' = Propose(v, S)
  BY DEF FindGroups
<1>2. Matched(w, online) /\ IsRecord(w)
  BY DEF IInv, Matched, Settled, Typed
<1>3. CASE \E x \in w.rematch :
             LET v == [w EXCEPT !.rematch = @ \ {x}]
                 M == IF x \in v.current THEN Matches(v, x) ELSE {}
             IN IF M = {} THEN w' = v ELSE \E S \in M : w' = Propose(v, S)
  <2>1. PICK x \in w.rematch :
          LET v == [w EXCEPT !.rematch = @ \ {x}]
              M == IF x \in v.current THEN Matches(v, x) ELSE {}
          IN IF M = {} THEN w' = v ELSE \E S \in M : w' = Propose(v, S)
    BY <1>3
  <2> DEFINE v == [w EXCEPT !.rematch = @ \ {x}]
             M == IF x \in v.current THEN Matches(v, x) ELSE {}
  <2>2. Taken(w, v, x) /\ v.new = w.new /\ v.rematch = w.rematch \ {x}
    BY <1>2, TakenDoes
  <2>3. IF M = {} THEN w' = v ELSE \E S \in M : w' = Propose(v, S)
    BY <2>1
  <2> HIDE DEF v
  <2>4. CASE M = {}
    <3>1. x \in v.current => Matches(v, x) = {}
      BY <2>4
    <3>2. w' = v
      BY <2>3, <2>4
    <3> QED
      BY <1>1, <1>2, <2>2, <3>1, <3>2, NoRematch
  <2>5. CASE M # {}
    <3>1. x \in v.current
      BY <2>5
    <3>2. PICK S \in Matches(v, x) : w' = Propose(v, S)
      BY <2>3, <2>5, <3>1
    <3>3. x \in w.new \cup w.current
      BY <2>2, <3>1 DEF Taken
    <3>4. Matched(Propose(v, S), online)
      BY <1>2, <2>2, <3>3, MatchFound
    <3> QED
      BY <1>1, <3>2, <3>4
  <2> QED
    BY <2>4, <2>5
<1>4. CASE /\ w.rematch = {}
           /\ \E x \in w.new :
                LET v == [w EXCEPT !.new = @ \ {x}]
                IN IF Matches(v, x) = {} THEN w' = [v EXCEPT !.current = @ \cup {x}]
                   ELSE \E S \in Matches(v, x) : w' = Propose(v, S)
  <2>1. PICK x \in w.new :
          LET v == [w EXCEPT !.new = @ \ {x}]
          IN IF Matches(v, x) = {} THEN w' = [v EXCEPT !.current = @ \cup {x}]
             ELSE \E S \in Matches(v, x) : w' = Propose(v, S)
    BY <1>4
  <2> DEFINE v == [w EXCEPT !.new = @ \ {x}]
  <2>2. Taken(w, v, x) /\ v.new = w.new \ {x} /\ v.rematch = w.rematch
    BY <1>2, TakenDoes
  <2>3. IF Matches(v, x) = {} THEN w' = MadeCurrent(v, x)
        ELSE \E S \in Matches(v, x) : w' = Propose(v, S)
    BY <2>1 DEF MadeCurrent
  <2> HIDE DEF v
  <2>4. CASE Matches(v, x) = {}
    <3>1. w' = MadeCurrent(v, x)
      BY <2>3, <2>4
    <3>2. Matched(MadeCurrent(v, x), online)
      BY <1>2, <1>4, <2>2, <2>4, NoMatchOfNew
    <3> QED
      BY <1>1, <3>1, <3>2
  <2>5. CASE Matches(v, x) # {}
    <3>1. PICK S \in Matches(v, x) : w' = Propose(v, S)
      BY <2>3, <2>5
    <3>2. Matched(Propose(v, S), online)
      BY <1>2, <2>2, MatchFound
    <3> QED
      BY <1>1, <3>1, <3>2
  <2> QED
    BY <2>4, <2>5
<1> QED
  BY <1>1, <1>3, <1>4

-----------------------------------------------------------------------------
(* LFGMgr::Update: the players of the new proposals are asked.               *)

Asked(v)   == UNION {DOMAIN pr.of : pr \in {q \in v.proposals : ~ q.begun}}
Their(v)   == {v.of[p] : p \in Asked(v)} \ {None}
BegunOf(pr) == [pr EXCEPT !.begun = TRUE]
Asking(v)  ==
  [SetStates(v, Asked(v) \cup Their(v), "proposal") EXCEPT
     !.proposals = {BegunOf(pr) : pr \in @}]

AskingIs(v, u, T) ==
  /\ IsRecord(u) /\ SameGroups(v, u) /\ SameQueue(v, u)
  /\ u.checks = v.checks /\ u.cancels = v.cancels /\ u.old = v.old
  /\ u.state = Become(v.state, T, "proposal")
  /\ u.proposals = {BegunOf(pr) : pr \in v.proposals}

LEMMA AskingDoes ==
  ASSUME NEW v, Typed(v)
  PROVE  AskingIs(v, Asking(v), Asked(v) \cup Their(v))
<1> DEFINE T == Asked(v) \cup Their(v)
           s == SetStates(v, T, "proposal")
           u == [s EXCEPT !.proposals = {BegunOf(pr) : pr \in @}]
<1>1. u = Asking(v)
  BY DEF Asking
<1>2. IsRecord(v) /\ v.old \in [Guid -> OldState]
  BY DEF Typed
<1> HIDE DEF T
<1>3. /\ IsRecord(s) /\ SameGroups(v, s) /\ SameQueue(v, s) /\ SameRest(v, s)
      /\ s.state = [x \in Guid |-> IF x \in T THEN "proposal" ELSE v.state[x]]
      /\ s.old = [x \in Guid |-> IF x \in T /\ "proposal" \in OldState THEN "proposal" ELSE v.old[x]]
  BY <1>2, SetStatesDoes
<1> HIDE DEF s
<1>4. /\ IsRecord(u) /\ SameGroups(s, u) /\ SameQueue(s, u) /\ SameStates(s, u)
      /\ u.checks = s.checks /\ u.cancels = s.cancels
      /\ u.proposals = {BegunOf(pr) : pr \in s.proposals}
  BY <1>3 DEF IsRecord, Fields, SameGroups, SameQueue, SameStates
<1> HIDE DEF u
<1>5. u.old = v.old
  BY <1>2, <1>3, <1>4 DEF SameStates, OldState
<1>6. u.state = Become(v.state, T, "proposal")
  BY <1>3, <1>4 DEF SameStates, Become
<1>7. /\ SameGroups(v, u) /\ SameQueue(v, u) /\ u.checks = v.checks /\ u.cancels = v.cancels
      /\ u.proposals = {BegunOf(pr) : pr \in v.proposals}
  BY <1>3, <1>4 DEF SameGroups, SameQueue, SameRest
<1>8. AskingIs(v, u, T)
  BY <1>4, <1>5, <1>6, <1>7 DEF AskingIs
<1> QED
  BY <1>1, <1>8 DEF T

(* Who is asked is who is part of the new proposals.                         *)
LEMMA AskedAre ==
  ASSUME NEW v, NEW on, NEW U, Settled(v, on, U), NEW y \in Guid
  PROVE  y \in Asked(v) \cup Their(v) <=> UnitOf(v, y) \in Offered(v, FALSE)
<1>1. \A x : x \in Offered(v, FALSE) <=>
               \E pr \in v.proposals : pr.begun = FALSE /\ x \in UnitsIn(v, pr)
  BY OfferedAre
<1>2. \A pr \in v.proposals : (~ pr.begun) <=> pr.begun = FALSE
  BY DEF Settled, Typed, ProposalTyped
<1>3. \A p : p \in Asked(v) <=> \E pr \in v.proposals : pr.begun = FALSE /\ p \in DOMAIN pr.of
  BY <1>2 DEF Asked
<1>4. Typed(v)
  BY DEF Settled
<1>5. ASSUME y \in Asked(v)
      PROVE  UnitOf(v, y) \in Offered(v, FALSE)
  <2>1. PICK pr \in v.proposals : pr.begun = FALSE /\ y \in DOMAIN pr.of
    BY <1>3, <1>5
  <2>2. UnitOf(v, y) \in UnitsIn(v, pr)
    BY <2>1, ProposalUnits
  <2> QED
    BY <1>1, <2>1, <2>2
<1>6. ASSUME y \in Their(v)
      PROVE  UnitOf(v, y) \in Offered(v, FALSE)
  <2>1. PICK p \in Asked(v) : y = v.of[p] /\ y # None
    BY <1>6 DEF Their
  <2>2. PICK pr \in v.proposals : pr.begun = FALSE /\ p \in DOMAIN pr.of
    BY <1>3, <2>1
  <2>3. UnitOf(v, p) \in UnitsIn(v, pr) /\ p \in Player
    BY <2>2, ProposalUnits
  <2>4. y \in Group /\ UnitOf(v, y) = y /\ UnitOf(v, p) = y
    BY <1>4, <2>1, <2>3, Names DEF Typed, UnitOf
  <2> QED
    BY <1>1, <2>2, <2>3, <2>4
<1>7. ASSUME UnitOf(v, y) \in Offered(v, FALSE)
      PROVE  y \in Asked(v) \cup Their(v)
  <2>1. PICK pr \in v.proposals : pr.begun = FALSE /\ UnitOf(v, y) \in UnitsIn(v, pr)
    BY <1>1, <1>7
  <2>2. y \in DOMAIN pr.of \/ (y \in Group /\ UnitOf(v, y) = y)
    BY <2>1, ProposalUnits
  <2>3. CASE y \in DOMAIN pr.of
    BY <1>3, <2>1, <2>3
  <2>4. CASE y \in Group /\ UnitOf(v, y) = y
    <3>1. y \in UnitsIn(v, pr)
      BY <2>1, <2>4
    <3>2. PICK p \in DOMAIN pr.of : UnitOf(v, p) = y /\ p \in Player
      BY <3>1, ProposalUnits
    <3>3. v.of[p] = y /\ y # None
      BY <2>4, <3>2, Names DEF UnitOf
    <3>4. p \in Asked(v)
      BY <1>3, <2>1
    <3> QED
      BY <3>3, <3>4 DEF Their
  <2> QED
    BY <2>2, <2>3, <2>4
<1> QED
  BY <1>5, <1>6, <1>7

LEMMA BegunDoes ==
  ASSUME NEW pr, ProposalTyped(pr)
  PROVE  /\ ProposalTyped(BegunOf(pr)) /\ BegunOf(pr).queues = pr.queues
         /\ BegunOf(pr).group = pr.group /\ BegunOf(pr).of = pr.of /\ BegunOf(pr).begun = TRUE
<1> DEFINE yes == TRUE
           b == [pr EXCEPT !.begun = yes]
<1>0. BegunOf(pr) = b
  BY DEF BegunOf
<1>1. yes \in BOOLEAN
  OBVIOUS
<1> HIDE DEF yes
<1>2. /\ b.queues = pr.queues /\ b.group = pr.group /\ b.of = pr.of /\ b.begun = yes
      /\ b.isNew = pr.isNew /\ b.accept = pr.accept
      /\ b = [queues |-> b.queues, group |-> b.group, isNew |-> b.isNew,
              of |-> b.of, accept |-> b.accept, begun |-> b.begun]
  BY DEF ProposalTyped
<1> HIDE DEF b
<1>3. ProposalTyped(b)
  BY <1>1, <1>2 DEF ProposalTyped
<1>4. b.begun = TRUE
  BY <1>2 DEF yes
<1> QED
  BY <1>0, <1>2, <1>3, <1>4

LEMMA AskedSettled ==
  ASSUME NEW v, NEW on, Settled(v, on, {}), v.new = {}, NEW u, NEW T, AskingIs(v, u, T),
         \A y \in Guid : y \in T <=> UnitOf(v, y) \in Offered(v, FALSE)
  PROVE  Settled(u, on, {}) /\ \A pr \in u.proposals : pr.begun
<1> DEFINE N == {}
<1>1. /\ Settled(v, on, N) /\ Typed(v) /\ GroupsRight(v) /\ StatesAgree(v, N)
      /\ EntriesRight(v, on) /\ ProposalsRight(v) /\ NoneMissed(v) /\ N = {}
  BY DEF Settled
<1> HIDE DEF N
<1>2. /\ IsRecord(u) /\ SameGroups(v, u) /\ SameQueue(v, u)
      /\ u.checks = v.checks /\ u.cancels = v.cancels /\ u.old = v.old
      /\ u.state = Become(v.state, T, "proposal")
      /\ u.proposals = {BegunOf(pr) : pr \in v.proposals}
  BY DEF AskingIs
<1>3. \A pr \in v.proposals :
        /\ ProposalTyped(BegunOf(pr)) /\ BegunOf(pr).queues = pr.queues
        /\ BegunOf(pr).group = pr.group /\ BegunOf(pr).of = pr.of /\ BegunOf(pr).begun = TRUE
        /\ pr.begun \in BOOLEAN
  BY <1>1, BegunDoes DEF Typed, ProposalTyped
<1>4. \A y : UnitOf(u, y) = UnitOf(v, y)
  BY <1>2 DEF UnitOf, SameGroups
<1>a. ASSUME NEW pr \in v.proposals
      PROVE  /\ UnitsIn(u, BegunOf(pr)) = UnitsIn(v, pr)
             /\ \A p : Relict(v, pr, p) => Relict(u, BegunOf(pr), p)
  <2> DEFINE b == BegunOf(pr)
  <2>1. b.of = pr.of /\ b.begun = TRUE
    BY <1>3
  <2> HIDE DEF b
  <2>2. UnitsIn(u, b) = UnitsIn(v, pr)
    BY <1>4, <2>1 DEF UnitsIn
  <2>3. \A p : Relict(v, pr, p) => Relict(u, b, p)
    BY <1>2, <2>1 DEF Relict, SameGroups, SameQueue
  <2> QED
    BY <2>2, <2>3 DEF b
<1>5. \A y : /\ y \in Offered(u, TRUE) <=> y \in Offered(v, TRUE) \cup Offered(v, FALSE)
             /\ y \notin Offered(u, FALSE)
  <2> TAKE y
  <2>1. y \in Offered(u, TRUE) <=> \E qr \in u.proposals : qr.begun = TRUE /\ y \in UnitsIn(u, qr)
    BY OfferedAre
  <2>2. y \in Offered(v, TRUE) <=> \E qr \in v.proposals : qr.begun = TRUE /\ y \in UnitsIn(v, qr)
    BY OfferedAre
  <2>3. y \in Offered(u, FALSE) <=> \E qr \in u.proposals : qr.begun = FALSE /\ y \in UnitsIn(u, qr)
    BY OfferedAre
  <2>4. y \in Offered(v, FALSE) <=> \E qr \in v.proposals : qr.begun = FALSE /\ y \in UnitsIn(v, qr)
    BY OfferedAre
  <2>5. y \notin Offered(u, FALSE)
    <3>1. \A qr \in u.proposals : \E pr \in v.proposals : qr = BegunOf(pr)
      BY <1>2
    <3>2. \A qr \in u.proposals : qr.begun = TRUE
      BY <1>3, <3>1
    <3> QED
      BY <2>3, <3>2
  <2>6. y \in Offered(u, TRUE) <=> \E pr \in v.proposals : y \in UnitsIn(v, pr)
    <3>1. ASSUME NEW qr \in u.proposals, y \in UnitsIn(u, qr)
          PROVE  \E pr \in v.proposals : y \in UnitsIn(v, pr)
      <4>1. PICK pr \in v.proposals : qr = BegunOf(pr)
        BY <1>2
      <4> QED
        BY <1>a, <3>1, <4>1
    <3>2. ASSUME NEW pr \in v.proposals, y \in UnitsIn(v, pr)
          PROVE  \E qr \in u.proposals : qr.begun = TRUE /\ y \in UnitsIn(u, qr)
      <4>1. BegunOf(pr) \in u.proposals /\ BegunOf(pr).begun = TRUE
        BY <1>2, <1>3
      <4>2. y \in UnitsIn(u, BegunOf(pr))
        BY <1>a, <3>2
      <4> QED
        BY <4>1, <4>2
    <3> QED
      BY <2>1, <3>1, <3>2
  <2>7. y \in Offered(v, TRUE) \cup Offered(v, FALSE) <=> \E pr \in v.proposals : y \in UnitsIn(v, pr)
    BY <1>3, <2>2, <2>4
  <2> QED
    BY <2>5, <2>6, <2>7
<1>6. /\ Offered(v, FALSE) \subseteq DOMAIN v.data
      /\ DOMAIN v.data \cap DOMAIN v.checks = {}
      /\ (Offered(v, TRUE) \cup Offered(v, FALSE)) \cap (v.new \cup v.current) = {}
      /\ Offered(v, TRUE) \cap Offered(v, FALSE) = {}
  BY <1>1, OfferedHaveData
<1>7. \A y : /\ y \in InQueue(u) <=> y \in v.new \cup v.current
             /\ y \in InQueue(v) <=> y \in v.new \cup v.current \cup Offered(v, FALSE)
  BY <1>2, <1>5 DEF InQueue, SameQueue
<1>8. Typed(u) /\ GroupsRight(u)
  <2>1. u.state \in [Guid -> State] /\ u.old \in [Guid -> OldState]
    BY <1>1, <1>2 DEF Typed, Become, State
  <2>2. \A pr \in u.proposals : ProposalTyped(pr)
    BY <1>2, <1>3
  <2>3. Typed(u)
    BY <1>1, <1>2, <2>1, <2>2 DEF Typed, SameGroups
  <2>4. GroupsRight(u)
    BY <1>1, <1>2 DEF GroupsRight, SameGroups
  <2> QED
    BY <2>3, <2>4
<1>9. StatesAgree(u, N)
  <2> SUFFICES ASSUME NEW y \in Guid PROVE StateAgrees(u, N, y)
    BY DEF StatesAgree
  <2> DEFINE x == UnitOf(v, y)
  <2>0. UnitOf(u, y) = x /\ UnitOf(v, y) = x
    BY <1>4
  <2>1. StateAgrees(v, N, y) /\ (y \in T <=> x \in Offered(v, FALSE))
    BY <1>1 DEF StatesAgree
  <2> HIDE DEF x
  <2>2. CASE y \in T
    <3>1. u.state[y] = "proposal"
      BY <1>2, <2>2 DEF Become
    <3>2. x \in Offered(v, FALSE) /\ x \notin v.new \cup v.current /\ x \notin DOMAIN v.checks
      BY <1>6, <2>1, <2>2
    <3>3. x \in Offered(u, TRUE) /\ x \notin InQueue(u) /\ x \notin DOMAIN u.checks
      BY <1>2, <1>5, <1>7, <3>2
    <3> QED
      BY <1>1, <2>0, <3>1, <3>3 DEF StateAgrees, OldState
  <2>3. CASE y \notin T
    <3>1. u.state[y] = v.state[y] /\ u.old[y] = v.old[y]
      BY <1>2, <2>3 DEF Become
    <3>2. x \notin Offered(v, FALSE)
      BY <2>1, <2>3
    <3>3. /\ x \in Offered(u, TRUE) <=> x \in Offered(v, TRUE)
          /\ x \in InQueue(u) <=> x \in InQueue(v)
          /\ x \in DOMAIN u.checks <=> x \in DOMAIN v.checks
      BY <1>2, <1>5, <1>7, <3>2
    <3> QED
      BY <2>0, <2>1, <3>1, <3>3 DEF StateAgrees
  <2> QED
    BY <2>2, <2>3
<1>10. EntriesRight(u, on)
  <2>1. \A S, y : Complete(v, on, S, y) => Complete(u, on, S, y)
    BY <1>2 DEF Complete, SameGroups
  <2>2. Keys(u) = Keys(v)
    <3>1. \A x : (\E pr \in u.proposals : x \in pr.queues) <=> (\E pr \in v.proposals : x \in pr.queues)
      BY <1>2, <1>3
    <3> QED
      BY <3>1 DEF Keys
  <2>3. ASSUME NEW x, Remains(v, on, x)
        PROVE  Remains(u, on, x)
    <3>1. PICK pr \in v.proposals : \E p \in DOMAIN pr.of : p \in on /\ pr.of[p] = x /\ Relict(v, pr, p)
      BY <2>3 DEF Remains
    <3>2. PICK p \in DOMAIN pr.of : p \in on /\ pr.of[p] = x /\ Relict(v, pr, p)
      BY <3>1
    <3>3. BegunOf(pr) \in u.proposals /\ BegunOf(pr).of = pr.of /\ Relict(u, BegunOf(pr), p)
      BY <1>2, <1>3, <1>a, <3>2
    <3>4. x \in Group /\ u.members[x] = {}
      BY <1>2, <2>3 DEF Remains, SameGroups
    <3> HIDE DEF BegunOf
    <3> QED
      BY <3>2, <3>3, <3>4 DEF Remains
  <2> QED
    BY <1>1, <1>2, <2>1, <2>2, <2>3 DEF EntriesRight, SameQueue
<1>11. \A y : IsLfgGroup(u, y) <=> IsLfgGroup(v, y)
  BY <1>2 DEF IsLfgGroup
<1>12. ProposalsRight(u)
  <2>1. ASSUME NEW pr \in v.proposals PROVE ProposalRight(u, BegunOf(pr))
    <3> DEFINE b == BegunOf(pr)
    <3>1. ProposalRight(v, pr)
      BY <1>1 DEF ProposalsRight
    <3>2. /\ b.queues = pr.queues /\ b.group = pr.group /\ b.of = pr.of
          /\ UnitsIn(u, b) = UnitsIn(v, pr) /\ \A p : Relict(v, pr, p) => Relict(u, b, p)
      BY <1>3, <1>a
    <3> HIDE DEF b
    <3>3. \A p : EntryOf(b, p) = EntryOf(pr, p)
      BY <3>2 DEF EntryOf
    <3>4. b.queues = {EntryOf(b, p) : p \in DOMAIN b.of}
      BY <3>1, <3>2, <3>3 DEF ProposalRight
    <3>5. ProposalRight(u, b)
      BY <1>2, <1>4, <1>11, <3>1, <3>2, <3>4 DEF ProposalRight, SameQueue, SameGroups
    <3> QED
      BY <3>5 DEF b
  <2>2. \A pr \in u.proposals : ProposalRight(u, pr)
    BY <1>2, <2>1
  <2>3. \A pr, qr \in u.proposals : pr = qr \/ UnitsIn(u, pr) \cap UnitsIn(u, qr) = {}
    BY <1>1, <1>2, <1>a DEF ProposalsRight
  <2> QED
    BY <2>2, <2>3 DEF ProposalsRight
<1>13. NoneMissed(u)
  BY <1>1, <1>2, <1>11, FewerMatches DEF SameQueue
<1>14. Settled(u, on, N)
  BY <1>8, <1>9, <1>10, <1>12, <1>13 DEF Settled
<1>15. \A pr \in u.proposals : pr.begun
  BY <1>2, <1>3
<1> QED
  BY <1>1, <1>14, <1>15

LEMMA BeginProposalsIs ==
  ASSUME BeginProposals
  PROVE  phase' = "sessions" /\ UNCHANGED online /\ w.new = {} /\ w' = Asking(w)
BY Zenon DEF BeginProposals, Asking, Asked, Their, BegunOf

LEMMA BeginProposalsKeeps ==
  ASSUME IInv, BeginProposals
  PROVE  phase' = "sessions" /\ UNCHANGED online /\ Dealt(w', online)
<1> DEFINE T == Asked(w) \cup Their(w)
           u == Asking(w)
<1>1. phase' = "sessions" /\ UNCHANGED online /\ w.new = {} /\ w' = u
  BY BeginProposalsIs
<1>2. Settled(w, online, {}) /\ w.members = w.players /\ w.cancels = <<>> /\ Typed(w)
  BY DEF IInv, Settled
<1>3. AskingIs(w, u, T)
  BY <1>2, AskingDoes
<1>4. \A y \in Guid : y \in T <=> UnitOf(w, y) \in Offered(w, FALSE)
  BY <1>2, AskedAre
<1> HIDE DEF T, u
<1>5. Settled(u, online, {}) /\ \A pr \in u.proposals : pr.begun
  BY <1>1, <1>2, <1>3, <1>4, AskedSettled
<1>6. u.members = u.players /\ u.cancels = <<>> /\ u.old = w.old
  BY <1>2, <1>3 DEF AskingIs, SameGroups
<1>7. Good(u, online)
  BY <1>5, <1>6 DEF Good
<1>8. GoTogether(u)
  <2>1. OldKept(w, u)
    BY <1>6 DEF OldKept
  <2> QED
    BY <1>2, <2>1, OldKeptTogether
<1> QED
  BY <1>1, <1>6, <1>7, <1>8 DEF Dealt

-----------------------------------------------------------------------------
(* A group of one is disbanded, wherever it is in the finder.                *)

(* Its entry in a proposal remains, and its player is a unit of his own.     *)
LEMMA EntryLeftBehind ==
  ASSUME NEW v, NEW on, Good(v, on), v.members = v.players, NEW g \in Group, NEW p \in Player,
         v.members[g] = {p}, v.state[g] = "proposal", NEW u, OnlyGroupGone(v, u, g)
  PROVE  Good(u, on) /\ u.members = u.players
<1> DEFINE N == {}
<1>1. /\ Settled(v, on, N) /\ Typed(v) /\ GroupsRight(v) /\ StatesAgree(v, N)
      /\ EntriesRight(v, on) /\ ProposalsRight(v) /\ NoneMissed(v) /\ N = {}
      /\ v.cancels = <<>> /\ \A pr \in v.proposals : pr.begun
  BY DEF Good, Settled
<1> HIDE DEF N
<1>2. /\ IsRecord(u) /\ SameQueue(v, u) /\ SameRest(v, u)
      /\ u.of = [q \in Player |-> IF q \in v.players[g] THEN None ELSE v.of[q]]
      /\ u.players = [v.players EXCEPT ![g] = {}] /\ u.members = [v.members EXCEPT ![g] = {}]
      /\ u.state = [y \in Guid |-> IF y = g THEN "none" ELSE v.state[y]]
      /\ u.old = [y \in Guid |-> IF y = g THEN "none" ELSE v.old[y]]
  BY DEF OnlyGroupGone, GroupIsOut
<1>3. /\ g \in Guid /\ p \in Guid /\ g # p /\ UnitOf(v, g) = g /\ v.players[g] = {p}
      /\ v.of[p] = g /\ UnitOf(v, p) = g
      /\ \A q \in Player : UnitOf(v, q) = g => q = p
  <2>1. v.players[g] = {p} /\ \A q \in Player : v.of[q] = g <=> q = p
    BY <1>1 DEF GroupsRight
  <2> QED
    BY <2>1, Names DEF UnitOf
<1>4. /\ UnitOf(u, p) = p /\ UnitOf(u, g) = g
      /\ \A y \in Guid : y # p => UnitOf(u, y) = UnitOf(v, y)
      /\ \A y \in Guid : y # p => UnitOf(v, y) # p
      /\ \A y \in Guid : y \notin {p, g} => UnitOf(v, y) # g
  <2>1. \A q \in Player : u.of[q] = IF q = p THEN None ELSE v.of[q]
    BY <1>2, <1>3
  <2>2. \A y \in Guid : y # p => UnitOf(v, y) # p
    BY <1>1, <1>3, UnitIs, Names
  <2>3. \A y \in Guid : y \notin {p, g} => UnitOf(v, y) # g
    BY <1>3, Names DEF UnitOf
  <2>4. \A y \in Guid : y # p => UnitOf(u, y) = UnitOf(v, y)
    BY <2>1, Names DEF UnitOf
  <2>5. UnitOf(u, p) = p /\ UnitOf(u, g) = g
    BY <2>1 DEF UnitOf
  <2> QED
    BY <2>2, <2>3, <2>4, <2>5
<1>5. /\ g \in Offered(v, TRUE) /\ g \notin InQueue(v) \cup DOMAIN v.checks
      /\ g \notin v.new \cup v.current /\ v.state[p] = "proposal"
  <2>1. StateAgrees(v, N, g) /\ StateAgrees(v, N, p)
    BY <1>1, <1>3 DEF StatesAgree
  <2>2. g \in Offered(v, TRUE) /\ g \notin InQueue(v) \cup DOMAIN v.checks /\ v.state[p] = "proposal"
    BY <1>1, <1>3, <2>1 DEF StateAgrees
  <2> QED
    BY <2>2 DEF InQueue
<1>6. PICK pr \in v.proposals : g \in UnitsIn(v, pr)
  BY <1>5, OfferedAre
<1>7. pr.begun /\ p \in DOMAIN pr.of /\ pr.of[p] = g /\ g \in pr.queues /\ EntryOf(pr, p) = g
  <2>1. PICK q \in DOMAIN pr.of : UnitOf(v, q) = g
    BY <1>1, <1>6, ProposalUnits
  <2>2. q \in Player /\ EntryOf(pr, q) \in pr.queues /\ EntryIs(v, pr, q)
    BY <1>1, ProposalUnits
  <2>3. q = p
    BY <1>3, <2>1, <2>2
  <2> QED
    BY <1>1, <1>3, <2>1, <2>2, <2>3 DEF EntryIs
<1>8. v.data[g] = {p} /\ p \in on
  <2>1. g \in DOMAIN v.data
    BY <1>1, <1>7, ProposalUnits
  <2>2. Complete(v, on, v.data[g], g)
    BY <1>1, <2>1 DEF EntriesRight, Remains
  <2> QED
    BY <1>3, <2>2, Names DEF Complete
<1>9. \A x \in DOMAIN v.data \cup DOMAIN v.checks : x # p
  <2> TAKE x \in DOMAIN v.data \cup DOMAIN v.checks
  <2>1. UnitOf(v, x) = x
    BY <1>1, EntryIsUnit
  <2> QED
    BY <1>3, <2>1
<1>a. p \notin v.new \cup v.current \cup DOMAIN v.checks
  BY <1>1, <1>9 DEF EntriesRight
<1>b. \A qr \in v.proposals : p \notin UnitsIn(v, qr)
  <2> TAKE qr \in v.proposals
  <2>1. p \in UnitsIn(v, qr) => UnitOf(v, p) = p
    BY <1>1, ProposalUnits
  <2> QED
    BY <1>3, <2>1
<1>c. ASSUME NEW qr \in v.proposals, NEW q \in DOMAIN qr.of
      PROVE  q \in Player /\ q \in Guid /\ (q = p => qr = pr)
  <2>1. q \in Player /\ UnitOf(v, q) \in UnitsIn(v, qr)
    BY <1>1, ProposalUnits
  <2>2. q = p => qr = pr
    BY <1>1, <1>3, <1>6, <2>1 DEF ProposalsRight
  <2> QED
    BY <2>1, <2>2, Names
<1>d. \A qr \in v.proposals : qr # pr => UnitsIn(u, qr) = UnitsIn(v, qr)
  <2> SUFFICES ASSUME NEW qr \in v.proposals, qr # pr
               PROVE  UnitsIn(u, qr) = UnitsIn(v, qr)
    OBVIOUS
  <2>1. \A q \in DOMAIN qr.of : UnitOf(u, q) = UnitOf(v, q)
    BY <1>4, <1>c
  <2> QED
    BY <2>1 DEF UnitsIn
<1>e. \A x : x \in UnitsIn(u, pr) <=> (x \in UnitsIn(v, pr) /\ x # g) \/ x = p
  <2> TAKE x
  <2>1. x \in UnitsIn(u, pr) <=> \E q \in DOMAIN pr.of : x = UnitOf(u, q)
    BY DEF UnitsIn
  <2>2. x \in UnitsIn(v, pr) <=> \E q \in DOMAIN pr.of : x = UnitOf(v, q)
    BY DEF UnitsIn
  <2>3. \A q \in DOMAIN pr.of : IF q = p THEN UnitOf(u, q) = p /\ UnitOf(v, q) = g
                                ELSE UnitOf(u, q) = UnitOf(v, q) /\ UnitOf(u, q) # g
    BY <1>3, <1>4, <1>c
  <2> QED
    BY <1>7, <2>1, <2>2, <2>3
<1>f. \A x : x \in Offered(u, TRUE) <=> (x \in Offered(v, TRUE) /\ x # g) \/ x = p
  <2> TAKE x
  <2>1. x \in Offered(u, TRUE) <=> \E qr \in u.proposals : qr.begun = TRUE /\ x \in UnitsIn(u, qr)
    BY OfferedAre
  <2>2. x \in Offered(v, TRUE) <=> \E qr \in v.proposals : qr.begun = TRUE /\ x \in UnitsIn(v, qr)
    BY OfferedAre
  <2>3. u.proposals = v.proposals /\ \A qr \in v.proposals : qr.begun = TRUE
    BY <1>1, <1>2 DEF SameRest, Typed, ProposalTyped
  <2>4. \A qr \in v.proposals : qr # pr => g \notin UnitsIn(v, qr)
    BY <1>1, <1>6 DEF ProposalsRight
  <2> QED
    BY <1>d, <1>e, <2>1, <2>2, <2>3, <2>4
<1>g. \A x : x \in InQueue(u) <=> x \in v.new \cup v.current
  <2>1. Offered(u, FALSE) = {}
    BY <1>1, <1>2 DEF Offered, SameRest
  <2> QED
    BY <1>2, <2>1 DEF InQueue, SameQueue
<1>h. \A x : x \in InQueue(v) <=> x \in v.new \cup v.current
  <2>1. Offered(v, FALSE) = {}
    BY <1>1 DEF Offered
  <2> QED
    BY <2>1 DEF InQueue
<1>i. u.checks = v.checks /\ u.proposals = v.proposals /\ u.cancels = <<>>
      /\ u.data = v.data /\ u.new = v.new /\ u.current = v.current /\ u.rematch = v.rematch
  BY <1>1, <1>2 DEF SameQueue, SameRest
<1>j. Typed(u) /\ GroupsRight(u)
  <2>1. Book(v) /\ GroupIsOut(v, u, g)
    BY <1>1, BookOf DEF OnlyGroupGone
  <2>2. Book(u)
    BY <2>1, BookOut
  <2>3. u.state \in [Guid -> State] /\ u.old \in [Guid -> OldState]
    BY <1>1, <1>2 DEF Typed, State, OldState
  <2> QED
    BY <1>1, <1>i, <2>2, <2>3 DEF Book, Typed
<1>k. StatesAgree(u, N)
  <2> SUFFICES ASSUME NEW y \in Guid PROVE StateAgrees(u, N, y)
    BY DEF StatesAgree
  <2>1. CASE y = g
    <3>1. u.state[y] = "none" /\ u.old[y] = "none" /\ UnitOf(u, y) = g
      BY <1>2, <1>4, <2>1
    <3>2. g \notin InQueue(u) \cup DOMAIN u.checks \cup Offered(u, TRUE)
      BY <1>3, <1>5, <1>f, <1>g, <1>i
    <3> QED
      BY <1>1, <3>1, <3>2 DEF StateAgrees, OldState
  <2>2. CASE y = p
    <3>1. u.state[y] = "proposal" /\ UnitOf(u, y) = p
      BY <1>2, <1>3, <1>4, <1>5, <2>2
    <3>2. p \notin InQueue(u) \cup DOMAIN u.checks /\ p \in Offered(u, TRUE)
      BY <1>a, <1>f, <1>g, <1>i
    <3> QED
      BY <1>1, <3>1, <3>2 DEF StateAgrees, OldState
  <2>3. CASE y \notin {p, g}
    <3> DEFINE x == UnitOf(v, y)
    <3>1. u.state[y] = v.state[y] /\ u.old[y] = v.old[y] /\ UnitOf(u, y) = x /\ UnitOf(v, y) = x
          /\ x # g /\ x # p /\ StateAgrees(v, N, y)
      BY <1>1, <1>2, <1>4, <2>3 DEF StatesAgree
    <3> HIDE DEF x
    <3>2. /\ x \in Offered(u, TRUE) <=> x \in Offered(v, TRUE)
          /\ x \in InQueue(u) <=> x \in InQueue(v)
      BY <1>f, <1>g, <1>h, <3>1
    <3> QED
      BY <1>i, <3>1, <3>2 DEF StateAgrees
  <2> QED
    BY <2>1, <2>2, <2>3
<1>l. \A qr \in v.proposals : \A q \in DOMAIN qr.of :
        Relict(v, qr, q) \/ (qr = pr /\ q = p) => Relict(u, qr, q)
  <2> SUFFICES ASSUME NEW qr \in v.proposals, NEW q \in DOMAIN qr.of,
                      Relict(v, qr, q) \/ (qr = pr /\ q = p)
               PROVE  Relict(u, qr, q)
    OBVIOUS
  <2>0. q \in Player
    BY <1>c
  <2>1. CASE Relict(v, qr, q)
    <3>1. u.of[q] = None
      BY <1>2, <2>0, <2>1 DEF Relict
    <3>2. u.members[qr.of[q]] = {}
      BY <1>1, <1>2, <2>1 DEF Relict, Typed
    <3> QED
      BY <1>i, <2>1, <3>1, <3>2 DEF Relict
  <2>2. CASE qr = pr /\ q = p
    <3>1. u.of[p] = None /\ u.members[g] = {}
      BY <1>1, <1>2, <1>3 DEF Typed
    <3> QED
      BY <1>7, <1>8, <1>i, <2>2, <3>1 DEF Relict
  <2> QED
    BY <2>1, <2>2
<1>m. \A S, x : Complete(v, on, S, x) /\ x # g /\ x # p => Complete(u, on, S, x)
  BY <1>1, <1>2, <1>3 DEF Complete, Typed
<1>n. EntriesRight(u, on)
  <2>1. ASSUME NEW x \in DOMAIN v.data
        PROVE  Complete(u, on, v.data[x], x) \/ Remains(u, on, x)
    <3>1. CASE x = g
      <4>1. x \in Group /\ u.members[x] = {} /\ Relict(u, pr, p)
        BY <1>1, <1>2, <1>7, <1>l, <3>1 DEF Typed
      <4> QED
        BY <1>7, <1>8, <1>i, <3>1, <4>1 DEF Remains
    <3>2. CASE x # g /\ Complete(v, on, v.data[x], x)
      BY <1>9, <1>m, <3>2
    <3>3. CASE Remains(v, on, x)
      <4>1. x \in Group /\ u.members[x] = {}
        BY <1>1, <1>2, <3>3 DEF Remains, Typed
      <4>2. PICK qr \in v.proposals : \E q \in DOMAIN qr.of :
              q \in on /\ qr.of[q] = x /\ Relict(v, qr, q)
        BY <3>3 DEF Remains
      <4>3. PICK q \in DOMAIN qr.of : q \in on /\ qr.of[q] = x /\ Relict(v, qr, q)
        BY <4>2
      <4>4. Relict(u, qr, q)
        BY <1>l, <4>3
      <4> QED
        BY <1>i, <4>1, <4>3, <4>4 DEF Remains
    <3> QED
      BY <1>1, <3>1, <3>2, <3>3 DEF EntriesRight
  <2>2. \A x \in DOMAIN v.checks : x \in Group /\ Complete(u, on, v.checks[x].asked, x)
    BY <1>1, <1>5, <1>9, <1>m DEF EntriesRight
  <2>3. Keys(u) = Keys(v)
    BY <1>i DEF Keys
  <2> QED
    BY <1>1, <1>i, <2>1, <2>2, <2>3 DEF EntriesRight
<1>o. \A x : IsLfgGroup(u, x) => IsLfgGroup(v, x)
  BY <1>2, Names DEF IsLfgGroup
<1>p. ProposalsRight(u)
  <2>1. ASSUME NEW qr \in v.proposals
        PROVE  ProposalRight(u, qr)
    <3>1. ProposalRight(v, qr) /\ DOMAIN qr.of \subseteq Player
      BY <1>1, ProposalUnits DEF ProposalsRight
    <3>2. \A x \in UnitsIn(u, qr) : x \in UnitsIn(v, qr) \/ (qr = pr /\ x = p)
      BY <1>d, <1>e
    <3>3. (qr.queues \cup UnitsIn(u, qr)) \cap (u.new \cup u.current) = {}
      BY <1>a, <1>i, <3>1, <3>2 DEF ProposalRight
    <3>4. ASSUME NEW q \in Player, UnitOf(u, q) \in UnitsIn(u, qr)
          PROVE  q \in DOMAIN qr.of
      <4>1. CASE q = p
        <5>1. qr = pr
          BY <1>4, <1>b, <3>2, <3>4, <4>1
        <5> QED
          BY <1>7, <4>1, <5>1
      <4>2. CASE q # p
        <5>1. UnitOf(u, q) = UnitOf(v, q) /\ UnitOf(v, q) # p
          BY <1>4, <4>2, Names
        <5>2. UnitOf(v, q) \in UnitsIn(v, qr)
          BY <3>2, <3>4, <5>1
        <5> QED
          BY <3>1, <5>2 DEF ProposalRight
      <4> QED
        BY <4>1, <4>2
    <3>5. ASSUME NEW q \in DOMAIN qr.of
          PROVE  qr.of[q] = u.of[q] \/ Relict(u, qr, q)
      <4>1. CASE q = p
        BY <1>c, <1>l, <4>1
      <4>2. CASE q # p
        <5>1. u.of[q] = v.of[q]
          BY <1>2, <1>3, <3>1, <4>2
        <5> QED
          BY <1>l, <3>1, <5>1 DEF ProposalRight
      <4> QED
        BY <4>1, <4>2
    <3> QED
      BY <1>o, <3>1, <3>3, <3>4, <3>5 DEF ProposalRight
  <2>2. \A qr, sr \in v.proposals : qr = sr \/ UnitsIn(u, qr) \cap UnitsIn(u, sr) = {}
    <3> SUFFICES ASSUME NEW qr \in v.proposals, NEW sr \in v.proposals, qr # sr,
                        NEW x \in UnitsIn(u, qr), x \in UnitsIn(u, sr)
                 PROVE  FALSE
      OBVIOUS
    <3>1. x \in UnitsIn(v, qr) \/ (qr = pr /\ x = p)
      BY <1>d, <1>e
    <3>2. x \in UnitsIn(v, sr) \/ (sr = pr /\ x = p)
      BY <1>d, <1>e
    <3> QED
      BY <1>1, <1>b, <3>1, <3>2 DEF ProposalsRight
  <2> QED
    BY <1>i, <2>1, <2>2 DEF ProposalsRight
<1>q. NoneMissed(u)
  <2>1. ASSUME NEW x \in u.current \ u.rematch
        PROVE  /\ x \in v.current \ v.rematch /\ u.data[x] = v.data[x]
               /\ IsLfgGroup(v, x) => IsLfgGroup(u, x)
    <3>1. x \in v.current \ v.rematch /\ u.data[x] = v.data[x] /\ x # g
      BY <1>5, <1>i
    <3> QED
      BY <1>2, <3>1, Names DEF IsLfgGroup
  <2> QED
    BY <1>1, <2>1, FewerMatches
<1>r. Settled(u, on, N)
  BY <1>j, <1>k, <1>n, <1>p, <1>q DEF Settled
<1>s. Good(u, on)
  BY <1>1, <1>i, <1>r DEF Good
<1>t. u.members = u.players
  BY <1>2
<1> QED
  BY <1>s, <1>t

(* It waits for a match, and does not any more.                             *)
LEMMA QueuedGroupGone ==
  ASSUME NEW v, NEW on, Good(v, on), NEW g \in Group, v.members[g] # {}, v.state[g] = "queued"
  PROVE  LET u == LeaveLfg(v, g, FALSE)
         IN DisbandedIs(u, Disband(v, g), g)
<1> DEFINE S == v.players[g] \cup {g}
           st == AfterQueue(v, g)
           u == Withdraw(v, g, S, st)
           t == Disband(v, g)
<1>1. Typed(v) /\ IsRecord(v) /\ g \in Guid /\ g \notin Player
  BY Names DEF Good, Settled, Typed
<1>2. st \in OldState
  BY <1>1 DEF AfterQueue, Typed, OldState
<1>3. LeaveLfg(v, g, FALSE) = u
  BY <1>1, Names DEF LeaveLfg, Withdraw
<1>4. g \notin DOMAIN v.checks
  <2>1. StateAgrees(v, {}, g) /\ UnitOf(v, g) = g
    BY <1>1 DEF Good, Settled, StatesAgree, UnitOf
  <2> QED
    BY <2>1 DEF StateAgrees
<1>5. DisbandedIs(v, t, g)
  BY <1>1, <1>4, DisbandDoes
<1> HIDE DEF st, S, t
<1>6. /\ IsRecord(u) /\ SameGroups(v, u) /\ SameRest(v, u)
      /\ u.state = Become(v.state, S, st) /\ u.old = Become(v.old, S, st)
      /\ DOMAIN u.data = DOMAIN v.data \ {g}
      /\ \A y \in DOMAIN u.data : u.data[y] = v.data[y]
      /\ u.new = v.new \ {g} /\ u.current = v.current \ {g} /\ u.rematch = v.rematch \ {g}
  BY <1>1, <1>2, UnitRemovedDoes
<1> HIDE DEF u
<1>7. GroupIsOut(u, t, g)
  BY <1>5, <1>6 DEF DisbandedIs, GroupIsOut, SameGroups
<1>8. SameRest(u, t)
  BY <1>5, <1>6 DEF DisbandedIs, SameRest
<1>9. /\ DOMAIN t.data = DOMAIN u.data \ {g} /\ \A y \in DOMAIN t.data : t.data[y] = u.data[y]
      /\ t.new = u.new \ {g} /\ t.current = u.current \ {g} /\ t.rematch = u.rematch \ {g}
  BY <1>5, <1>6 DEF DisbandedIs
<1>10. /\ t.state \in [Guid -> State] /\ t.old \in [Guid -> OldState]
       /\ \A y \in Guid : IF y \in S THEN t.state[y] = "none" /\ t.old[y] = "none"
                          ELSE t.state[y] = v.state[y] /\ t.old[y] = v.old[y]
  BY <1>5 DEF DisbandedIs, S
<1>11. \A y \in Guid : IF y \in u.players[g] \cup {g} THEN t.state[y] = "none" /\ t.old[y] = "none"
                       ELSE t.state[y] = u.state[y] /\ t.old[y] = u.old[y]
  <2>1. u.players[g] \cup {g} = S
    BY <1>6 DEF SameGroups, S
  <2> QED
    BY <1>6, <1>10, <2>1 DEF Become
<1>12. DisbandedIs(u, t, g)
  BY <1>7, <1>8, <1>9, <1>10, <1>11 DEF DisbandedIs
<1> QED
  BY <1>3, <1>12 DEF t

(* It is not in a proposal.                                                 *)
LEMMA IdleGroupGone ==
  ASSUME NEW v, NEW on, Good(v, on), NEW g \in Group, v.members[g] # {}, v.state[g] # "proposal"
  PROVE  LET u == LeaveLfg(v, g, FALSE)
         IN /\ Good(u, on) /\ Left(v, u, g)
            /\ Good(Disband(v, g), on) /\ GroupGone(u, Disband(v, g), g)
<1> DEFINE u == LeaveLfg(v, g, FALSE)
<1>1. /\ g \in Guid /\ g \notin Player /\ g # None /\ UnitOf(v, g) = g /\ v.state[g] \in State
      /\ Typed(v)
  BY Names DEF Good, Settled, Typed, UnitOf
<1>2. /\ Good(u, on) /\ Left(v, u, g)
      /\ v.state[g] \in OldState => u = v
  BY <1>1, Leaves
<1>3. g \notin Places(u)
  BY <1>1, <1>2 DEF Left
<1>4. CASE v.state[g] = "queued"
  <2>1. DisbandedIs(u, Disband(v, g), g)
    BY <1>4, QueuedGroupGone
  <2> HIDE DEF u
  <2>2. Good(Disband(v, g), on) /\ GroupGone(u, Disband(v, g), g)
    BY <1>2, <1>3, <2>1, DisbandedGood
  <2> QED
    BY <1>2, <2>2 DEF u
<1>5. CASE v.state[g] # "queued"
  <2>1. Disband(v, g) = Disband(u, g)
    <3>1. CASE v.state[g] \in OldState
      BY <1>2, <3>1
    <3>2. CASE v.state[g] = "rolecheck"
      <4>1. u = FailRoleCheck(v, g)
        BY <1>1, <3>2 DEF LeaveLfg
      <4>2. g \notin DOMAIN u.checks /\ u.state[g] # "proposal"
        <5>1. UnitOf(u, g) = g /\ (UnitOf(u, g) \notin Places(u) => u.state[g] \in OldState)
          BY <1>1, <1>2, Reaches DEF UnitOf
        <5> QED
          BY <1>3, <5>1 DEF Places, OldState
      <4> HIDE DEF u
      <4>3. FailRoleCheck(u, g) = u
        BY <4>2 DEF FailRoleCheck
      <4> QED
        BY <3>2, <4>1, <4>2, <4>3 DEF Disband
    <3> QED
      BY <1>1, <1>5, <3>1, <3>2 DEF State, OldState
  <2> HIDE DEF u
  <2>2. Good(Disband(u, g), on) /\ GroupGone(u, Disband(u, g), g)
    BY <1>2, <1>3, DisbandGood
  <2> QED
    BY <1>2, <2>1, <2>2 DEF u
<1> QED
  BY <1>4, <1>5

LEMMA UninviteFromGroupKeeps ==
  ASSUME IInv, NEW p \in Player, NEW q \in Player, UninviteFromGroup(p, q)
  PROVE  Did(online)
<1> DEFINE g == GroupOf(w, p)
           u == Disband(w, g)
<1>1. g # None /\ w.members[g] = {p} /\ Packet(u)
  BY DEF UninviteFromGroup
<1>2. phase = "sessions"
  BY <1>1 DEF Packet
<1>3. g = w.of[p] /\ g \in Group
  BY <1>1, <1>2, SessionsMean DEF Typed
<1>4. /\ Good(w, online) /\ w.members = w.players /\ Typed(w) /\ IsRecord(w)
      /\ UnitOf(w, g) = g /\ g \in Guid
  BY <1>2, <1>3, SessionsMean, Names DEF UnitOf, Typed
<1> HIDE DEF g
<1>5. Done(u, online)
  <2>1. CASE w.state[g] = "proposal"
    <3>1. g \notin DOMAIN w.checks
      <4>1. StateAgrees(w, {}, g)
        BY <1>4 DEF Good, Settled, StatesAgree
      <4> QED
        BY <1>4, <2>1, <4>1 DEF StateAgrees
    <3>2. OnlyGroupGone(w, u, g)
      BY <1>3, <1>4, <2>1, <3>1, DisbandOfProposal
    <3> HIDE DEF u
    <3>3. Good(u, online) /\ u.members = u.players
      BY <1>1, <1>3, <1>4, <2>1, <3>2, EntryLeftBehind
    <3>4. OldKept(w, u)
      BY <3>2 DEF OnlyGroupGone, OldKept
    <3> QED
      BY <3>3, <3>4 DEF Done
  <2>2. CASE w.state[g] # "proposal"
    <3> DEFINE v == LeaveLfg(w, g, FALSE)
    <3>1. Good(v, online) /\ Left(w, v, g) /\ Good(u, online) /\ GroupGone(v, u, g)
      BY <1>1, <1>3, <1>4, <2>2, IdleGroupGone
    <3> HIDE DEF u, v
    <3>2. OldKept(w, v) /\ v.members = v.players
      BY <1>4, <3>1 DEF Left, SameGroups
    <3>3. OldLess(v, u) /\ u.members = u.players
      BY <3>1, <3>2 DEF GroupGone
    <3>4. OldKept(w, u)
      BY <3>2, <3>3, OldKeptLess
    <3> QED
      BY <3>1, <3>3, <3>4 DEF Done
  <2> QED
    BY <2>1, <2>2
<1> HIDE DEF u
<1> QED
  BY <1>1, <1>5, PacketDone

-----------------------------------------------------------------------------
(* The invariant holds at the beginning, and each step preserves it.          *)

LEMMA InitHolds == Init => IInv
<1> SUFFICES ASSUME Init PROVE IInv
  OBVIOUS
<1>1. /\ w.members = [g \in Group |-> {}] /\ w.made = {}
      /\ w.state = [x \in Guid |-> "none"] /\ w.old = [x \in Guid |-> "none"]
      /\ w.of = [p \in Player |-> None] /\ w.players = [g \in Group |-> {}]
      /\ w.checks = <<>> /\ w.data = <<>> /\ w.new = {} /\ w.current = {}
      /\ w.rematch = {} /\ w.proposals = {} /\ w.cancels = <<>> /\ w.boots = <<>>
      /\ phase = "sessions" /\ online = Player
  BY DEF Init
<1>2. IsRecord(w)
  BY DEF Init, IsRecord, Fields
<1>3. DOMAIN w.checks = {} /\ DOMAIN w.data = {} /\ DOMAIN w.boots = {}
  BY <1>1
<1> DEFINE N == {}
<1>4. Typed(w)
  BY <1>1, <1>2, <1>3 DEF Typed, State, OldState
<1>5. GroupsRight(w)
  <2>1. Cardinality({}) <= Size
    BY FS_EmptySet, FinderAssumption DEF FinderAssumption
  <2> QED
    BY <1>1, <1>3, <2>1, Names DEF GroupsRight
<1>6. StatesAgree(w, N)
  <2> SUFFICES ASSUME NEW y \in Guid PROVE StateAgrees(w, N, y)
    BY DEF StatesAgree
  <2>1. w.state[y] = "none" /\ w.old[y] = "none"
    BY <1>1
  <2>2. \A x : x \notin InQueue(w) /\ x \notin Offered(w, TRUE) /\ x \notin DOMAIN w.checks
    BY <1>1, <1>3 DEF InQueue, Offered
  <2> QED
    BY <2>1, <2>2 DEF StateAgrees, OldState
<1>7. EntriesRight(w, online)
  <2>1. Keys(w) = {}
    BY <1>1 DEF Keys
  <2> QED
    BY <1>1, <1>3, <2>1 DEF EntriesRight
<1>8. ProposalsRight(w)
  BY <1>1 DEF ProposalsRight
<1>9. NoneMissed(w)
  <2> SUFFICES ASSUME NEW S \in SUBSET w.current, IsMatch(w, S) PROVE FALSE
    BY DEF NoneMissed
  <2>1. S = {}
    BY <1>1
  <2>2. UNION {w.data[y] : y \in S} = {}
    BY <2>1
  <2>3. N \in Compatible
    BY <2>2 DEF IsMatch
  <2>4. Cardinality(N) = Size
    BY <2>3, FinderAssumption DEF FinderAssumption
  <2> QED
    BY <2>4, FS_EmptySet, FinderAssumption DEF FinderAssumption
<1>10. Settled(w, online, N)
  BY <1>4, <1>5, <1>6, <1>7, <1>8, <1>9 DEF Settled
<1> QED
  BY <1>1, <1>10 DEF IInv

LEMMA DealtHolds ==
  ASSUME phase' = "sessions", online' \subseteq Player, Dealt(w', online')
  PROVE  IInv' /\ GoTogether(w')
BY DEF IInv, Dealt, Good

LEMMA DoneHolds ==
  ASSUME IInv, phase' = "sessions", online' \subseteq Player, Done(w', online')
  PROVE  IInv' /\ GoTogether(w')
<1>1. Typed(w)
  BY DEF IInv, Settled
<1>2. GoTogether(w')
  BY <1>1, OldKeptTogether DEF Done
<1>3. Dealt(w', online')
  BY <1>2 DEF Done, Dealt
<1> QED
  BY <1>3, DealtHolds

LEMMA DidHolds ==
  ASSUME IInv, Did(online)
  PROVE  IInv' /\ GoTogether(w')
<1>1. phase' = "sessions" /\ online' \subseteq Player /\ Done(w', online')
  BY DEF Did, IInv
<1> QED
  BY <1>1, DoneHolds

LEMMA PacketsHold ==
  ASSUME IInv, Packets
  PROVE  IInv' /\ GoTogether(w')
<1>1. PICK p \in Player :
        \/ JoinLfg(p) \/ HandleLfgLeave(p) \/ HandleLfgSetRoles(p) \/ HandleLfgProposalResult(p)
        \/ Leave(p) \/ OnMapChanged(p) \/ Logout(p) \/ Login(p)
        \/ \E q \in Player : HandleGroupAccept(p, q) \/ Uninvite(p, q) \/ UninviteFromGroup(p, q)
  BY DEF Packets
<1>2. CASE JoinLfg(p)
  BY <1>2, JoinLfgKeeps, DidHolds DEF Did
<1>3. CASE HandleLfgLeave(p)
  BY <1>3, HandleLfgLeaveKeeps, DidHolds DEF Did
<1>4. CASE HandleLfgSetRoles(p)
  BY <1>4, HandleLfgSetRolesKeeps, DidHolds DEF Did
<1>5. CASE HandleLfgProposalResult(p)
  <2>1. phase = "sessions" /\ UNCHANGED <<phase, online>> /\ Dealt(w', online)
    BY <1>5, HandleLfgProposalResultKeeps
  <2>2. phase' = "sessions" /\ online' \subseteq Player /\ Dealt(w', online')
    BY <2>1 DEF IInv
  <2> QED
    BY <2>2, DealtHolds
<1>6. CASE Leave(p)
  BY <1>6, LeaveKeeps, DidHolds
<1>7. CASE OnMapChanged(p)
  BY <1>7, OnMapChangedKeeps, DidHolds
<1>8. CASE Logout(p)
  BY <1>8, LogoutKeeps, DoneHolds
<1>9. CASE Login(p)
  BY <1>9, LoginKeeps, DoneHolds
<1>10. ASSUME NEW q \in Player, HandleGroupAccept(p, q)
       PROVE  IInv' /\ GoTogether(w')
  BY <1>10, HandleGroupAcceptKeeps, DidHolds
<1>11. ASSUME NEW q \in Player, Uninvite(p, q)
       PROVE  IInv' /\ GoTogether(w')
  BY <1>11, UninviteKeeps, DidHolds
<1>12. ASSUME NEW q \in Player, UninviteFromGroup(p, q)
       PROVE  IInv' /\ GoTogether(w')
  BY <1>12, UninviteFromGroupKeeps, DidHolds
<1> QED
  BY <1>1, <1>2, <1>3, <1>4, <1>5, <1>6, <1>7, <1>8, <1>9, <1>10, <1>11, <1>12

LEMMA MatchingHolds ==
  ASSUME IInv, phase' = "matching", online' \subseteq Player, Settled(w', online', {}),
         w'.members = w'.players, w'.cancels = <<>>, OldKept(w, w')
  PROVE  IInv' /\ GoTogether(w')
<1>1. Typed(w)
  BY DEF IInv, Settled
<1>2. GoTogether(w')
  BY <1>1, OldKeptTogether
<1> QED
  BY <1>2 DEF IInv

LEMMA StepHolds ==
  ASSUME IInv, Next
  PROVE  IInv' /\ GoTogether(w')
<1>0. online \subseteq Player
  BY DEF IInv
<1>1. CASE Packets
  BY <1>1, PacketsHold
<1>2. ASSUME NEW g \in Group, UpdateBoot(g)
      PROVE  IInv' /\ GoTogether(w')
  BY <1>2, UpdateBootKeeps, DidHolds
<1>3. ASSUME NEW g \in Group, FinishDungeon(g)
      PROVE  IInv' /\ GoTogether(w')
  BY <1>3, FinishDungeonKeeps, DidHolds
<1>4. CASE Update
  <2>1. /\ phase' = "matching" /\ UNCHANGED online
        /\ Good(w', online) /\ w'.members = w'.players /\ OldLess(w, w')
    BY <1>4, UpdateKeeps
  <2>2. OldKept(w, w')
    BY <2>1 DEF OldLess, OldKept
  <2>3. online' \subseteq Player /\ Settled(w', online', {}) /\ w'.cancels = <<>>
    BY <1>0, <2>1 DEF Good
  <2> QED
    BY <2>1, <2>2, <2>3, MatchingHolds
<1>5. CASE FindGroups
  <2>1. phase' = "matching" /\ UNCHANGED online /\ Matched(w', online)
    BY <1>5, FindGroupsKeeps
  <2>2. OldKept(w, w')
    BY <2>1 DEF Matched, OldKept
  <2>3. /\ online' \subseteq Player /\ Settled(w', online', {}) /\ w'.cancels = <<>>
        /\ w'.members = w'.players
    BY <1>0, <2>1 DEF Matched
  <2> QED
    BY <2>1, <2>2, <2>3, MatchingHolds
<1>6. CASE BeginProposals
  <2>1. phase' = "sessions" /\ UNCHANGED online /\ Dealt(w', online)
    BY <1>6, BeginProposalsKeeps
  <2>2. online' \subseteq Player /\ Dealt(w', online')
    BY <1>0, <2>1
  <2> QED
    BY <2>1, <2>2, DealtHolds
<1> QED
  BY <1>1, <1>2, <1>3, <1>4, <1>5, <1>6 DEF Next

LEMMA NextHolds ==
  IInv /\ [Next]_vars => IInv'
<1>1. ASSUME IInv, Next PROVE IInv'
  BY <1>1, StepHolds
<1>2. ASSUME IInv, UNCHANGED vars PROVE IInv'
  BY <1>2 DEF vars, IInv
<1> QED
  BY <1>1, <1>2

-----------------------------------------------------------------------------
(* What the runs check, in every behaviour.                                *)

(* Whatever Group calls the finder through LFGScripts (OnAddMember,         *)
(* OnRemoveMember, OnDisband) and whatever groups LFGMgr::MakeNewGroup      *)
(* makes itself, m_PlayersStore and m_GroupsStore name the members that     *)
(* m_memberSlots has, groups do not outgrow MAX_GROUP_SIZE, and the victim  *)
(* of a vote is still there.                                               *)
THEOREM GroupsAlwaysAgree == Spec => []GroupsAgree
BY InitHolds, NextHolds, InvAgrees, PTL DEF Spec

(* JoinLfg, LeaveLfg, the role checks and the proposals move players and    *)
(* groups between LFGQueue, RoleChecksStore and ProposalsStore: nobody is   *)
(* in two places, nor in one that LfgState does not name.                  *)
THEOREM OnePlaceAtATime == Spec => []OnePlace
BY InitHolds, NextHolds, InvOnePlace, PTL DEF Spec

(* A group that changes, or a member who logs out, is taken from the queue, *)
(* from its role check and from its proposals (LeaveLfg): those hold whole  *)
(* groups whose members are online, and a proposal is about the entries    *)
(* that QueueDataStore still has.                                          *)
THEOREM EntriesStayWhole == Spec => []EntriesAreWhole
BY InitHolds, NextHolds, InvWhole, PTL DEF Spec

(* LFGQueue::FindGroups looks at each new entry once, against those that    *)
(* were looked at before: whatever leaves and comes back meanwhile, entries *)
(* that make a group together do not go on waiting beside each other.       *)
THEOREM NoMatchIsEverMissed == Spec => []NoMatchIsMissed
BY InitHolds, NextHolds, InvMatches, PTL DEF Spec

(* LFGMgr::UpdateProposal puts players into LFG_STATE_DUNGEON only when the *)
(* last of them agrees, all of them at once and in one group: no other call *)
(* (SetState, RestoreState, RemoveProposal) lets a dungeon begin.           *)
THEOREM DungeonsBeginTogether == Spec => TheyGoTogether
<1>1. ASSUME IInv, [Next]_vars
      PROVE  [\A x \in Guid :
                /\ w'.old[x] = "dungeon" /\ ~ InDungeon(x)
                /\ x \in Player => ~ InDungeon(w.of[x])
                =>
                  \E pr \in w.proposals, g \in Group :
                    /\ x \in DOMAIN pr.of \cup {g} /\ w'.members[g] = DOMAIN pr.of
                    /\ \A p \in DOMAIN pr.of : w'.state[p] = "dungeon" /\ w'.state[g] = "dungeon"
                    /\ Cardinality({p \in DOMAIN pr.of : pr.accept[p] # "agree"}) <= 1]_vars
  <2>1. CASE Next
    <3>1. GoTogether(w')
      BY <1>1, <2>1, StepHolds
    <3> QED
      BY Zenon, <3>1 DEF GoTogether
  <2> QED
    BY <1>1, <2>1
<1> QED
  BY <1>1, InitHolds, NextHolds, PTL DEF Spec, TheyGoTogether

=============================================================================
