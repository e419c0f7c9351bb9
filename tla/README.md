# TLA+ models of the EG-Source server

EG-Source is a TrinityCore 3.3.5a game server: a world server (`worldserver`),
an authentication server (`authserver`) and the libraries they share.  This
directory models the parts of the world server whose own logic is hard to test:
state that is stored twice, caches that calls have to refresh, threads, and
things that must happen in the end.  Paths below are relative to
`src/src/server/game/` unless they begin with `src/`.

Contents: [inventory](#1-inventory) · [modules](#2-modules) ·
[runs](#3-runs-bounds-fairness) · [proofs](#4-proofs) ·
[what does not hold](#5-what-does-not-hold) ·
[what is not modelled](#6-what-is-not-modelled) · [plan](#7-plan)

To run a check: `tlc -config CombatSafety.cfg MCCombat`; to check the proofs:
`tlapm CombatProofs.tla`, and the same for `ThreatProofs`, `InstanceProofs`,
`MapUpdaterProofs`, `AdmissionProofs`, `SocketProofs`, `DatabaseProofs` and
`DungeonFinderProofs`.


## 1. Inventory

### Threads

The *world thread* runs `World::Update` in phases: new sessions, the packets of
sessions outside of maps, the maps, deferred map events, timers.  *Map update
workers* update the maps while the world thread waits.  *Network threads* own the
sockets.  *Database workers* execute asynchronous statements, whose callbacks run
in the thread that asked.  A map and all that is in it belong to one thread at a
time, so calls inside a map do not interleave; what interleaves there are the
calls of scripts in the middle of another call.

### Components and what makes them right

**Combat references** (`Combat/CombatManager`).  *State:* every unit has two maps
(PvE, PvP) from the GUIDs of its opponents to reference objects, which it shares
with the opponent; per object, which of the two is first, which is suppressed,
and a timer for PvP; the flag `UNIT_FLAG_IN_COMBAT` as a cache.  *Operations:*
start and refresh combat, inherit it, suppress, end (one, by distance or kind,
all), revalidate after a charm, update.  *Interacts with* ThreatManager (threat
starts combat, the end of combat removes threat), Unit (death, despawn, vanish,
charm), AI (notifications).  *Hard:* one fact in four places; operations name one
end and must mend the other; only one end counts the timer.  *Right if* both maps
agree, the flag is never stale, threat implies combat, nobody gone is referenced,
and PvP combat runs out.

**Threat and victim selection** (`Combat/ThreatManager`).  *State:* the entries of
a creature with threat, online and taunt state; pointers to the current and the
fixated victim.  *Operations:* add, scale, match, reset and clear threat, taunt,
fixate, evaluate suppression, update and reselect.  *Interacts with* auras (taunt,
detaunt, stuns, immunities), and with Combat, which frees entries.  *Hard:* the
states are caches that nobody refreshes when attackability changes; pointers to
entries that others free; the order of the heap is not that of the 110%/130%
rules.  *Right if* the pointers are valid, there is a victim exactly if somebody
can be attacked, victims change by the rules, and nobody is passed over.

**Instances** (`Instances/InstanceSaveMgr`, `Maps/MapInstanced`,
`Maps/MapManager`, `Custom/CustomFunctions.cpp`).  *State:* free ids and the lowest
of them; saves; binds of players and groups; the reset queue; loaded maps with
their unload timers and marks; deferred events; rows in the database.
*Operations:* enter, leave, log in and out, kill, reset by a player or a leader,
timed reset, unload, restart.  *Interacts with* Player, Group, the map update
threads and the database.  *Hard:* a save belongs to whoever is bound; ids are
freed in three places; maps are condemned in one thread and destroyed in another;
what a login or a restart finds may be old.  *Right if* binds and saves name each
other and their rows, ids are free exactly when nothing is left of an instance,
players come into the instance they are saved to, and no map goes from under them.

**Map update threads** (`Maps/MapUpdater`, `Maps/MapManager`,
`src/src/common/Threading/ProducerConsumerQueue.h`).  *State:* a queue of requests,
a count of pending ones, two conditions, cancellation flags.  *Operations:*
schedule, pop, finish, wait, activate, deactivate.  *Hard:* workers schedule
requests of their own while the world thread waits for the count; lost wakeups;
shutdown.  *Right if* every map is updated once per round and the world thread is
alone between rounds, rounds and shutdowns end.

**Admission** (`World/World.cpp`, `Server/WorldSession.cpp`).  *State:* the session
of every account, those to be added, the login queue, recent disconnects, flags
of a session.  *Operations:* add (replacing, queueing or admitting), remove, let
the next one in, kick all.  *Interacts with* WorldSocket, which creates sessions
in a network thread.  *Hard:* the queue points to sessions that are deleted
elsewhere; counts with corrections by one; a second login while a character
loads.  *Right if* the queue is live and in order, exists only while the server is
full, nobody in it is forgotten, and the limit is kept.

**Connections** (`src/src/server/shared/Networking`, `Server/WorldSocket.cpp`,
`src/src/common/Threading/MPSCQueue.h`).  *State:* a lock-free queue of packets, a
queue of buffers, the state of the socket and whether a write is pending.
*Operations:* send (any thread), update and write handler (network thread), close
(any thread), delayed close, remove.  *Hard:* a queue that is cut between two
stores; partial writes; an update timer and a handler that must not both, nor
neither, write.  *Right if* packets arrive once and in order, none is used after
it was deleted, and closed sockets go away.

**Dungeon finder** (`DungeonFinding/LFGMgr`, `LFGQueue`, `LFGScripts`), the
component this repository has changed most.  *State:* a state per player and group
and the one to go back to, the finder's own list of every group's members, role
checks, proposals, queue entries (new, waiting, to be matched again first), vote
kicks, finished dungeons.  *Operations:* join, answer a role check or a proposal,
leave, vote, finish, update, match; and the hooks that groups call when a member is
added, removed or invited or when they disband.  *Interacts with* Group and
GroupMgr in both directions, in the middle of each other's calls, and with the
threads of the maps (a dungeon that is finished).  *Hard:* answers, timeouts,
matching again, leaving, inviting and disbanding in any order; the same fact in the
player, the group, the queue and the proposal.  *Right if* a player or group is in
one role check, queue entry or proposal and its state says which, entries are whole
groups of players who are online, the picture of the groups is true, a group that
can be made is made, and a dungeon begins for those who agreed and nobody else.

**Database pool** (`src/src/server/database/Database`).  *State:* a queue that the
worker threads of the asynchronous connections share, their cancellation tokens,
the synchronous connections' locks, the lock of the worker that repeats a
transaction, and what the server keeps: rows, row locks, open transactions.
*Operations:* enqueue statements and transactions, execute them directly, repeat a
transaction after a deadlock, reconnect, close.  *Hard:* a failure in the middle of a
transaction; row locks in the server and a lock in the client; a queue that is
cancelled while workers are busy; a connection that is lost.  *Right if* every
operation takes effect as a whole or not at all, its answer says which, and each one
ends.

**Control** (`Entities/Unit/Unit`, `Entities/Player/Player`, `Entities/Pet/Pet`,
`Entities/Creature/TemporarySummon`, the charm handlers of
`Spells/Auras/SpellAuraEffects`).  *State:* of a unit `m_Controlled`, the GUIDs of
its pet, minion, charm and charmer; of a player the pets of the stable; the charm
auras; `UNIT_FLAG_PET_IN_COMBAT` as a cache.  *Operations:* summon, charm, possess,
abandon, dismiss, despawn, die, mount, teleport.  *Interacts with* Combat (a charm
revalidates it, a minion's combat sets the flag of its owner) and spells.  *Hard:* one
fact in many places, and functions that call each other in the middle of their changes,
under assertions about what the others leave.  *Right if* all places agree, assertions
fail in no case that is not known (section 5), and the flag is never stale.

**Groups** (`Groups`): members, leader, loot rolls, binds; `Instance` has their binds
and `DungeonFinder` their members.  **Battleground queue**, **trades**: see
the plan.  The other components, from
spells to content scripts, are listed in `PROJECT.json` with the reason why they
are not modelled, and summed up in section 6.

The hazards of this code (where it can go wrong in ways a test hardly reaches)
are listed in `PROJECT.json`, each with its line and the properties that watch it.


## 2. Modules

| module | models | lines of code it follows |
|---|---|---|
| `Combat` | combat and threat references of the units of one map | CombatManager, registry part of ThreatManager, callers in `Entities/Unit/Unit.cpp` |
| `CombatSpec` | what those two classes promise the rest of the game (abstract) | the comments of CombatManager.h and ThreatManager.h |
| `CombatProofs` | theorems about `Combat`, that it implements `CombatSpec` among them | |
| `Threat` | the entries of one creature and whom it attacks | ThreatManager, the aura handlers that call it |
| `ThreatProofs` | theorems about `Threat` | |
| `Instance` | the instances of a normal five-player dungeon | InstanceSaveMgr, MapInstanced, MapManager, Map, Player, Group, CustomFunctions |
| `InstanceProofs` | theorems about `Instance` | |
| `MapUpdater` | the threads and the queue | MapUpdater, ProducerConsumerQueue, MapManager::Update, MapInstanced::Update |
| `MapRounds` | what a round of updates is (abstract) | MapManager::Update |
| `MapUpdaterProofs` | theorems about `MapUpdater`, that it implements `MapRounds` among them | |
| `Admission` | sessions, limit, login queue | World::AddSession ... UpdateSessions, WorldSession |
| `AdmissionProofs` | theorems about `Admission` | |
| `MPSCQueue` | the intrusive lock-free queue | MPSCQueue.h |
| `Socket` | all a connection sends; EXTENDS `MPSCQueue` | Socket.h, NetworkThread.h, WorldSocket.cpp |
| `SocketProofs` | theorems about `MPSCQueue` and `Socket` | |
| `Control` | pets, guardians, puppets and charms of units | Unit, Player, Pet, TemporarySummon, SpellAuraEffects, Spell |
| `DungeonFinder` | the finder and the groups under it | LFGMgr, LFGQueue, LFGScripts, Group, GroupHandler |
| `DungeonFinderProofs` | theorems about `DungeonFinder` | |
| `Database` | workers, transactions, connections, the closing of a pool | DatabaseWorkerPool, DatabaseWorker, Transaction, MySQLConnection, ProducerConsumerQueue |
| `Store` | what a pool promises (abstract) | the comments of DatabaseWorkerPool.h |
| `DatabaseProofs` | theorems about `Database`, that it implements `Store` among them | |
| `MC...` | the constants of the runs | |

Every definition keeps the name of the function it models where it can, and
`PROJECT.json` "map" gives its lines.

**Combat.**  A map of one unit is the set of pairs `<<u, v>>` ("u has an entry for
v"); the fields of a shared reference object are such sets too.  One call is one
action, with all its loops, because a map is updated by one thread: `SetInCombat`,
`EndCombat` and `UpdateOwnerCombatState` are the pieces from which the calls are
made.  `foes` stands for all of `CanBeginCombat` that is not about the units being
there (factions, phases, GM mode); it may change at any time for the pairs in
`Fickle`, and combat that has begun then goes on, as in the code.  A charm changes
the controller and revalidates.

**Threat.**  Threat is a member of a small set of levels on both sides of the 110%
and 130% of each other; an operation that changes it says which levels it may
reach.  `attackable`, `inopportune` and `melee` are the surroundings: nobody
tells the list when they change, except where the code does.  `ReselectVictim`
returns the set of victims the heap may yield, since ties are not determined.
A taunt on a victim that is itself a creature wakes its entries here (`TauntUpdateOf`).

**Instance.**  `phase` is the phase of `World::Update`, since what may happen
depends on it.  A player is offline, outside, inside, or *leaving*: taken out of
the map while his reference to it remains until the client acknowledges the
teleport.  Time is what is left until a reset.  `row`, `prow` and `grow` are the
tables `instance`, `character_instance` and `group_instance`; `Restart` builds the
memory from them as the loading code does.

**MapUpdater.**  What is done under a lock is one step.  Threads at a condition are
asleep until notified, or wake up spuriously.  **MapRounds** has no locks, queue or
counter: maps are started, skipped and finished within a round.

**Admission.**  A session is an account and a serial, which tells it from the
session of the account that it replaces.  The world thread's calls are actions;
`CloseSocket` and `AddSession` are those of a network thread.

**MPSCQueue** takes every load, store and exchange that another thread can see as a
step of its own.  **Socket** puts packets through it: threads of the world exchange
the head and store the link at their own pace, and the network thread dequeues
into buffers, writes (all, a part, nothing, or an error), waits, and closes.  This
is the build without completion ports (`TC_SOCKET_USE_IOCP`).

**Control.**  As in `DungeonFinder` the calls nest, so all that is kept is one record
`w` and each function an operator on it.  A charm aura is a pair of caster and target;
that charms exclude each other on one target is part of `ApplyAura`.  Whether a unit
that a charm revalidates leaves combat is chosen by the step (`calm`).  A failed `ASSERT`
stops the model, as it stops the server.  `First` takes the units of `m_Controlled` in the
order of their pointers (`Address`), which is that of the `std::set`.

**DungeonFinder.**  The finder calls groups and groups call the finder, both in the
middle of a change, so all they keep is one record `w`, and each function is an
operator from such a record to the next: the calls nest as they do in the code, and a
packet, a hook or an update is one action.  `phase` tells `World::Update`'s sessions
from its maps and the finder's own update.  Roles and dungeons are the constant
`Compatible`, the sets of players who fit together.  A leader can hand the lead to any
member at any time, so what a leader may do any member may.  An invitation that is
pending is not part of the state, what ends it is a step: whoever has no group may have
been invited, and accepts (`HandleGroupAccept`), or declines or logs out
(`UninviteFromGroup`), by which a group of one is disbanded, even in the middle of its
proposal, where the finder keeps what it has of it (LFGMgr.cpp:2088).  One thing is lost:
see section 5 on GroupHandler.cpp:240.  Of a vote only the last voice is a step.

**Database.**  An operation is the sequence of rows its statements write.  A statement
is a step; it waits if another transaction has its row, which the server's deadlock
detection may end.  `START TRANSACTION` and `ROLLBACK` are part of the step that leads
to them, since nobody waits for the first and the second releases what the failing
statement would.  The server is external: row locks, waiting in turn, the choice of a
victim (any of the cycle), and the loss of a connection before or after a statement
took effect.  The condition of the queue is left to `MapUpdater`, which uses the same
class.  **Store** has neither locks nor connections: an operation puts all its rows at
once, or none, and the table that `Database` shows it is the one without what is still
to be committed (`Committed`).


## 3. Runs, bounds, fairness

A property that is named here is defined at the end of its module, with a comment
that says it in words.  Every property of a passing run is violated when one
definition is replaced by a plausible mistake; the mistaken operators stand just
before the definitions they replace (for instance `PurgeReferenceOfFirst`).

| run | question | size |
|---|---|---|
| `combat_safety` | Do maps, flags, threat lists and presence agree after every call (`RefsMatched`, `FlagIffActiveRef`, `ThreatImpliesCombat`, `RefsOnlyPresent`), and do the calls keep the promise (`ImplementsCombatSpec`)? | a creature with a threat list that may be charmed, two players |
| `combat_pvp` | Is a suppressed side only woken by interaction (`ReactivationIsMutual`)? Does PvP combat run out (`PvPCombatExpires`)? | three players, a timeout of two ticks |
| `threat` | Are the pointers valid and the taunt states those of the auras (`TypeOK`), is there a victim exactly if there can be one (`CurrentIsAvailable`), is a target that stays attackable attacked (`TargetIsAttacked`)?  When is a victim lost (`VictimIsSticky`), is anybody passed over (`NobodyOvertakes`)? | three victims, two that move, one with all kinds of auras, levels 0, 10, 12 |
| `instance_party` | Do binds, saves and rows agree (`BindsAgree`), the lowest free id (`NextIsLowestFree`), maps and players (`TypeOK`: nobody is without his map), entering (`EntersOwnInstance`)? | a party of two whose other member relogs, two ids, crashes |
| `instance_stay` | Are ids free exactly when unused (`IdsAreReleased`)? | two solo players who stay online, two ids |
| `map_rounds` | Do queue, count and conditions implement rounds (`ImplementsRounds`), the count being exact (`TypeOK`); do rounds and shutdowns end (`RoundsEnd`)? | three workers, a plain map, a dungeon with two instances |
| `admission_queue` | Is the queue live, fair and only there when needed (`QueueIsLive`, `QueueIsFair`, `FullWhileQueued`), the limit kept (`LimitIsKept`), a loading session spared (`LoadingIsKept`)? | three accounts, one that may skip, two with a second session, a limit of one |
| `socket_send` | Do packets arrive once, in order, and in the end (`WireInOrder`), are deleted nodes left alone (`NothingDeletedIsUsed`), do packets arrive and closed sockets go in the end (`ConnectionProgresses`)? | two world threads, five packets, buffers of two |
| `control` | Do all records of who controls whom agree (`RegistersAgree`), is the flag of pets in combat right, but for owners whose minions others may charm (`FlagIsRight`)?  When do assertions fail (`OnlyDyingPossessorsFail`: in one case, section 5)? | a player with a pet, one with two guardians of one entry and a puppet, a creature that charms whoever is around; see below |
| `dungeon_finder` | Is everybody in one place that his state names (`OnePlace`), are entries whole (`EntriesAreWhole`) and groups known (`GroupsAgree`), is a match found (`NoMatchIsMissed`), do only those go who agreed (`TheyGoTogether`)? | four players, two GUIDs of groups, dungeons for three of whom one must be `p1`, who may log out |
| `database_pool` | Is every operation whole or without effect, its answer true (`ImplementsStore`); do all end, and the pool close (`OperationsEnd`)? | two workers and a caller; transactions that write two rows in either order, one of them refused, a single statement; one lost connection |
| `socket_closing` | a counterexample, see section 5 | |

**Why the bounds are enough to be interesting.**  References are between two units,
and what an operation may forget is the other end or a third unit whose state
depends on both; three units have all of that.  A PvP timeout of two ticks is the
least that tells counting from expiring.  Three victims are needed for a walk past
the top of the heap, three levels to have values below 110%, below 130% and above it
(of 0); the rules are proved for all levels.  Two instance ids let one be freed, reused and confused with
another; two players are needed for a map that is left by one only.  With three
workers one can sleep, one be about to sleep and one notify.  In `Admission` two
accounts with two sessions each can replace each other in the queue, a third can
pass them; a limit of one makes every mistake by one visible.  In `Socket` two
producers can be between exchange and link at once, and a buffer of two packets
can be full, partial, and followed by another.  In `DungeonFinder` four players for
three places leave one over who competes for the match, is left behind or joins a
group in its dungeon; two groups can be matched, merged and disbanded at once, and
a GUID is used again as soon as nothing names it.  In `Database` two rows make a
deadlock, three connections make the victim of one meet another transaction while it
holds the deadlock lock, and a refused transaction that first meets a deadlock spends
all its retries.  In `Control` the pet can be
possessed by its owner and go out of his sight, the two guardians take each other's
place in the pet bar, the player who owns them can possess the puppet, and in the meantime the creature
charms the players and one of the guardians, and a player the creature or the other player;
its bounds are who may be charmed (`Charmable`), die (`Mortal`), fight (`Fighter`) and go out
of sight (`Strays`).  A step in which an assertion fails is the last one (`IsDown`).  `AsyncTries` stands for the 60 seconds of a worker: time for two
retries at least, as many as there are other transactions to lose against.  Other
bounds: `MaxLost` (operations that lose their connection), `MaxAdding` (sessions
that wait to be added), `ResetDelay` (the reset delay in units of time), `BufferSize`.
Symmetry is used in runs where the permuted values are alike in all constants
(`Players`, the `Alike` of two modules), and never with a liveness property.

**Fairness.**  `Combat`: each unit's `Update`, `Threat`: the creature's `Update`; a
map calls both for what is in it in every tick, and nothing else is fair: nobody
must attack or act.  `MapUpdater`: each thread takes a step it can take, but need
not wake up without a notification, and the world need not start another round.
`Socket`: the network thread goes on, a thread that has exchanged the head goes on
to store its link, and the write handler is strongly fair, since it waits for the
update loop to be idle again and again and boost.asio calls it in turn; a client
that is connected reads.  `Database`: each worker and each caller goes on, the server
executes a statement that is not locked out and ends every deadlock, and the thread
that closes the pool goes on; nobody need ask for anything.  `Instance`, `Admission`,
`Control` and `DungeonFinder` state no liveness: `IdsAreReleased`, `QueueIsLive` and
`NoMatchIsMissed` are invariants that say what is going to act.  `Socket` may stop (a socket that is removed), so its runs do not check for
deadlock; all other runs do.


## 4. Proofs

Each theorem holds for every value of the constants; the assumptions are the named
`ASSUME`s of the modules, which give the constants their types (and say that players,
groups, accounts and connections are finitely many, that a dungeon group has room for
more than one, and that only transactions have several statements), and which TLC
evaluates in the runs.  Four theorems have a hypothesis more, which their statements name
and the runs fulfil: `OneOwnersBindsAgree` (`OneOwner`), `OnlineBindsAgree` and
`IdsAreReleasedInTime` (`NobodyQuits`), and `PoolImplementsStore` (`HasTime`).

### Combat

`CombatProofs` proves, for every set of units, every timeout and every choice of threat owners, players, charmable units and fickle pairs (the
assumption `CombatAssumption` only gives the constants their types):

* `TypeCorrect`: `Spec => []TypeOK`; the part with content is that PvP timers, from
  which `Update` subtracts, stay within `0 .. PvPTimeout`;
* `MapsAgree`, `FlagIsRight`, `ThreatNeedsCombat`,
  `NoDanglingReference`: each of the state properties of `combat_safety`;
* `WakingIsMutual`: the step property of `combat_pvp` (`ReactivationIsMutual`);
* `CombatImplementsSpec`: `Combat` implements `CombatSpec`.

The inductive invariant `IInv` is the conjunction of all state properties, written
pair by pair: `TypeOK`, `Matched` and the first half of `Threatened` (= `RefsMatched`),
`FlagIffActiveRef`, the other half of `Threatened` (= `ThreatImpliesCombat`) and `Living`
(= `RefsOnlyPresent`); `InvariantMeans` shows that it says the same.  None of the
parts is inductive alone.  An operation names one unit and mends the other through
the maps, so whatever it does is only right if the maps agree: `Leave` keeps
`Living` because every reference *to* the unit is also one *of* it; threat ends with
combat because the threat of others is found through `byMe`; the flag is set anew
only for the ends of the references that changed, so it stays right for the others
only if their view of those references did not change.

The argument: `SetInCombatKeeps` for all operations that start combat and
`EndCombatKeeps` for all that end or suppress it (vanishing does both) say what
happens pair by pair; then one lemma for each action (`...Step`), `NextInvariant`
by cases, and the theorem by temporal reasoning.  For the refinement the invariant
gives the consistency of the abstract state (`InvariantIsConsistent`), attacks only
add (`AttackGrows`: a reference that is created suppressed did not exist before)
and everything else only takes away (`CallShrinks`).  For the step property, an action
that takes no mark from a reference that stays cannot wake anybody (`MarksStay`); only
`SetInCombat` takes marks, and it does so at both ends and sets the timer anew
(`RefreshIsMutual`), again because the maps agree.

### Threat

`ThreatProofs` proves all state and step properties of `Threat`: `TypeCorrect`
(pointers are valid and who taunts has the aura), `VictimIsAvailable`
(`CurrentIsAvailable`), `VictimsAreLostByTheRules` (`VictimIsSticky`) and
`TheWorthiestIsSelected` (`NobodyOvertakes`).  The invariant is `TypeOK`,
`CurrentIsAvailable` and `Distinct`: no victim has two taunt auras, without which a taunt
state, the *last* place of the victim among the auras, could outlive the aura that is
removed.  Everything rests on what `ReselectVictim` can return: nobody if no entry is
available, else the fixated one, the top of the heap, or the old victim, or a challenger
in melee (`ReselectionMeans`).  From this it follows that the selected entry is available
(`SelectedDeserves`), that an old victim is lost to a worthier one only
(`SelectedIsWorthy`) and that nobody is passed over (`NobodyIsPassedOver`: those at
range by comparison with the top, those in melee by the walk).  Then there is one lemma
for each operation, of three kinds: it selects again, it changes neither who is there
nor who is available (`SameAvailability`), or it frees entries and clears the pointers
to them (`PurgeKeeps`).  The liveness property stays with TLC.

### Map update threads

`MapUpdaterProofs` proves `CountIsExact` (`TypeOK`: the count of pending requests is
that of the requests in the queue and in the hands of workers) and
`UpdaterImplementsRounds` (`ImplementsRounds`), for any number of workers, maps and
instances.  The count needs to know of a worker who has which request (`Handled`), and
that the world thread leaves a round only when nothing is pending (`Phases`).  The
refinement needs more: that in a round every map is in exactly *one place* (`InOnePlace`):
ahead, being updated, visited but not yet begun, updated, or condemned, an instance being
behind its base map; and that nothing is scheduled twice (`Once`).  The lemmas about
sequences (`AppendElements` and those after it) tell what a queue without duplicates
holds after a push and a pop; each step of a thread then moves at most one map to its
next place, or, when a base map is visited, its instances into the queue.

### Database pool

`DatabaseProofs` proves `TypeCorrect`, whose parts with content are `LockHeld` (the lock
of the worker that repeats a transaction is held exactly by one that repeats) and
`RowsLocked` (no row is locked by two connections, and only by a transaction in the
middle of its statements), and two refinements of `Store`:

* `AnswersAreTrue`: the pool implements `Lenient`, which is `Store` where any operation
  may be given up.  Unless its connection was lost, an operation that is answered TRUE
  has taken effect as a whole, and one that is answered FALSE has had none;
* `PoolImplementsStore` (`ImplementsStore`), as long as `HasTime`: the pool gives up
  nothing the server does not refuse.

A worker repeats a transaction for 60 seconds.  That this is enough is a fact about time,
not about the code: the model counts `AsyncTries` retries, and for any number of them there
are enough other transactions to lose against.  `HasTime` says that a worker whose
transaction a deadlock may end has a retry left.  It is an invariant of the instance of
`database_pool` (two retries, as many as there are other transactions), and not of
one with a single retry.

The invariant adds to `TypeOK` that an operation without an answer is in the queue once or
with one connection (`Asked`); that a row which is locked has what its holder wrote, and
that a transaction has locked the rows of the statements it has executed so far, all of
them unless its connection was lost (`Logged`); and that a worker is told to stop
only when the pool closes (`Told`).  The table that `Store` sees is `Committed`, the one
without the writes of open transactions.  The lemmas about it (`SeenBefore`, `SeenAfter`)
show that a statement inside a transaction and a rollback are invisible
(`NoteIsInvisible`, `RollbackIsInvisible`), that a commit shows all the rows of the
operation at once (`CommitShows`), and a single statement its row (`StatementShows`); then
each action is a step of `Store` or none (`StepMaps`).

### Instances

`InstanceProofs` proves, for any players, groups, ids and reset delays,

* `MapsOutliveTheirPlayers` (`TypeOK`: nobody is without his map), inductive by itself.
  The last one to leave is the one who finds a single player linked to the map, so that
  others keep the map from being unloaded (`Linked`, a finite set);
* `TheLowestFreeIdIsNext` (`NextIsLowestFree`): `NextAfter` and the comparison in
  `FreeInstanceId` yield the least element of the free ids (`LowestIs`, `LowestOf`).  That
  there is one is `LeastExists`, by well-founded induction in the form of a minimal element;
* `NoBindDangles`: who is bound to a save is in its lists and the reverse
  (`SavesAgree`, the first half of `BindsAgree`), and `NobodyEntersAnothers`
  (`EntersOwnInstance`), through any logouts, logins and crashes.  The invariant
  (`SaveInv`) adds that a player who is offline has no bind in memory;
* `OneOwnersBindsAgree` and `OnlineBindsAgree` (`BindsAgree`): the other half,
  `RowsAgree`, is about the rows of the database.  A reset deletes the rows of an instance
  whoever else is saved to it, so they agree only while no two owners have one instance
  (`Sole`).  This is so for one party or one player (`OneOwner`, as in
  `instance_party`), and for any number of them while nobody logs out and the server stays
  up (`NobodyQuits`, as in `instance_stay`).  It does not hold otherwise, see section 5;
* `IdsAreReleasedInTime` (`IdsAreReleased`), for `NobodyQuits`: with logouts or
  crashes ids are freed under those who come back (section 5).  The invariant
  (`StayInv`) says of every id that it is free, has no reset to come and nothing is left
  of it, or that it has exactly one reset to come or a map that frees it when it is
  unloaded; that is more than `IdsAreReleased`, which does without either
  while somebody is linked to the map.  It also says that the events on their way are of
  players who still leave (`EventsHavePlayers`): they refer to the map yet when the event
  is processed, so that it changes nothing in the queue of resets.

### Admission

`AdmissionProofs` proves all properties of `admission_queue`: `NobodyIsForgotten`
(`QueueIsLive`), `NobodyWaitsInVain` (`FullWhileQueued`), `NobodyPassesTheLimit`
(`LimitIsKept`), `FirstComeFirstServed` (`QueueIsFair`), `NoneIsDeletedWhileLoading`
(`LoadingIsKept`), and `OneIsLetInAtATime`.  The invariant is `QueueIsLive /\
FullWhileQueued`.  The code counts who plays as the size of `m_sessions` minus that of the
queue; this is right because both are injective (`SizeOfAdded`, `ActiveIsCounted`), and
while `RemoveQueuedPlayer` runs its own count, corrected by one, is (`Removal`).
`UpdateSessions` calls it twice for a session that ends, and the second call does nothing
(`SecondCallIsIdle`), so that one session leaves and one is let in.  For the order it is enough that a queue only loses entries and gets
them at its end (`KeptInOrder`, `AppendedInOrder`).

### Sockets

`SocketProofs` is about the lock-free queue and what a connection makes of it:
`NoLinkIsLost` (the queue is a chain in which every missing link is about to be
stored by exactly one thread), `NothingIsUsedAfterDeletion` (`NothingDeletedIsUsed`)
and `WireIsInOrder` (`WireInOrder`), for any number of threads, packets and sizes of
buffers.  The nodes between tail and head are not in any variable, so the invariant says
that *there is* a chain (`QueueIsChained`): it begins at the tail, ends at the head,
is linked except where a thread is between exchange and store, has the dummy at most
once, and the packets in it are those sent and not yet taken, in their order.  Each
exchange appends to it (`ExchangeAppends`), each store mends one link (`LinkMends`), each
dequeue takes the first (`LeaveFirst`, `DequeueTakesInOrder`).  Above the queue, those
taken are the first so many of those sent, and what was written and the buffers that wait
are consecutive cuts of them (`InOrder`, the lemmas `Part...` and `Cuts...`), which
a partial write moves.

### Dungeon finder

`DungeonFinderProofs` proves all properties of `DungeonFinder` that its run checks, for
any players and groups, any size of a group and any sets of players that fit:
`GroupsAlwaysAgree` (`GroupsAgree`), `OnePlaceAtATime` (`OnePlace`), `EntriesStayWhole`
(`EntriesAreWhole`), `NoMatchIsEverMissed` (`NoMatchIsMissed`) and, of every step,
`DungeonsBeginTogether` (`TheyGoTogether`).  `FinderAssumption` asks for groups of more
than one (`MAX_GROUP_SIZE` is 5): an invitation that is accepted makes a group of two, and
if no group had room for two, `GroupsAgree` would not hold.

None of the four invariants is inductive alone.  A handler finds what to take
from the queue, from a role check or from a proposal by the group it knows, so that it
finds it only if the groups agree and the entries are whole; it leaves nothing behind only
if each is in one place; and it restores the right states only if the members of a group
share one.  The invariant (`IInv`) therefore speaks of *units*, a player without a group
or a group with its members: each unit has one state (`StatesAgree`), is in the place
which that state names, under its own name (`EntriesRight`), proposals are about whole
units, no two about the same (`ProposalsRight`), and no set of matched entries makes a
group unless one of them is to be looked at again (`NoneMissed`).  A proposal has one entry that
is no unit: that of a group of one which was disbanded since (`EntryLeftBehind`).  Its player is a unit by
himself by then, in the proposal and nowhere else (`Relict`), and no group is created with
the GUID as long as it is named (`Fresh`), so that the end of the proposal removes what
is left and disturbs nothing else.

*Inside an update* a dungeon that was finished in a map changes the states of a group
before what the group still waits for is cancelled.  `Settled(v, on, U)` is
the invariant with a set `U` of such units, which are in the state *finished* wherever
they are.  When all dungeons of the update are finished, `U` are the groups noted to be
cancelled (`FinishedSettled`); each `Cancel` takes one away (`QueueCancelled`,
`CheckCancelled`, `ProposalCancelled`); and between two calls `U` is empty.

*The argument*: first what each operator does to the fields of the record (`...Does`), and
then how a unit may go from one place to another without disturbing the rest: it joins the
queue, is taken out of it, is asked, is proposed to, is let go.  Every handler is a few of
these moves (`...Keeps`).  Loops over groups, checks and proposals are folds; they
take the elements in an order that is not determined, and `SetInduction` (what holds of
the empty set, and of `s` if it does of `s` without the element that is picked, holds of
every finite set) shows that the invariant survives all of them.
A proposal that comes about is the one handler whose middle is not described by units:
players leave their old groups one after the other and come together in a new one.  It is
seen as two changes, one that lets everybody in the proposal go and one that makes them
one unit (`ProposalSucceeds`).  For `TheyGoTogether`, every other
call only takes members out of dungeons, or adds a member to a group that is in one
(`OldKept`).

### What is only model-checked

Liveness under fairness and ENABLED are beyond the provers that are used, and so
is what a recursive definition computes for all inputs, since they cannot use induction
theorems that take a property as a parameter.  With TLC stay, therefore, `PvPCombatExpires`,
`TargetIsAttacked`, `RoundsEnd`, `ConnectionProgresses` and `OperationsEnd`; `Control`
(`RegistersAgree`, `FlagIsRight`, `OnlyDyingPossessorsFail`), whose functions call each other, so
that the module declares RECURSIVE operators; and `HasTime`, for the instance of the run.


## 5. What does not hold

Checked by a run that finds a counterexample:

* `ClosesAfterSending` (`socket_closing`): `DelayedCloseSocket` closes at once when
  no buffer waits, although the answer to a refused login is still in the lock-free
  queue, from which only the next `Update` would take it; the comments at Socket.h:205
  and :355 say that all queued data is sent first.

Reached by a run that passes, and said by its property:

* an assertion fails when a player dies who possesses his pet while it is out of his
  sight, and never else (`Control!OnlyDyingPossessorsFail`, run `control`).  Pet.cpp:506
  asserts that a pet that is saved is the current one of the stable; the player's
  death removes the pet, which saves it, which removes its auras, which ends the
  possession, which removes the pet a first time because it is out of sight
  (SpellAuraEffects.cpp:2954): back in the save, it is no current pet any more and the
  server stops.  `RegistersAgree` and `FlagIsRight` are about the states before that.

Stated in the modules without a run (add the name to the cfg to see the behaviour):

* `Instance!FreshIdHasNoMap` (the comment at `Maps/MapInstanced.cpp:196` says that a
  freshly generated id never resolves to a live map; a timed reset marks a loaded map
  to free its id when it is unloaded, a player who logs back in saves the id again and
  stops the unload, but the mark stays, and the next unload frees an id that is in
  use);
* `Admission!ToleranceExpires` (`World::HasRecentlyDisconnected` subtracts the present
  from the time of the disconnect, so the tolerance of `DisconnectToleranceInterval`,
  worldserver.conf.dist:383, never runs out);
* `Database!TransactionsAreAtomic` (DatabaseWorkerPool.h:169 says that a transaction
  "will automatically rollback if not commited"; if the connection is lost in the middle
  of one, the statement at hand and those after it are executed on a connection without
  a transaction and committed one by one, while those before it are rolled back, and
  COMMIT succeeds in any case: the answer is then TRUE for a part of the transaction,
  or for none of it when the loss comes just before the COMMIT.  `Store` says exactly
  this of operations in `lost`);
* `Control!FlagIsRight` for owners whose minions are charmed by others
  (UnitDefines.h:146: "on other units: whether any of the unit's minions is in combat";
  when the minion enters or leaves combat only its charmer's flag is set anew, and the
  owner's is old until his minions change);
* `Threat!TauntingIsNeverSuppressed` (ThreatManager.cpp:121 says that taunting
  victims are never suppressed; `TauntUpdate` re-evaluates the entries before their
  new taunt state counts);
* `Threat!FixateStays`, under `SpecNobodyClears` (ThreatManager.h:168-169;
  `FixateTarget` with a target that is not on the list clears the fixate);
* `Instance!NoResetWhileInside` (comments at Map.cpp:4004 and :4199; a player counts
  as being in the map before the reset is cancelled and after it is scheduled);
* `Instance!BindsAgree` when one player is in a group and another is not (in
  `instance_party` both are; `NoBindDangles` shows that only its half about the rows can
  fail): a player alone whose instance is reset while he is
  offline keeps its id as the place he logged out in, logs in to the map of the next
  owners of the id (`MapInstanced.cpp:158`) and is saved to their instance; if he
  then resets his instances, the rows of theirs are deleted while they stay bound;
* `Instance!EmptyMapIsTimed` (comment at Map.cpp:4042; two players who leave with
  overlapping loading screens both are not the last one).

Seen while reading, not modelled: several guardians of one entry, although "Can only
have one pet" (`Unit.cpp:5905`; `Control` has them, they are meant); the clean-up of a charm
whose aura is removed while it is applied would end a charm that has ended with
its aura (`SetCharmedBy`, after its second look at `GetRemoveMode`); raising the player limit by a command lets nobody
in until somebody leaves (`World.h:663`); the id of an instance passed with 16 bits
(`Map.cpp:4287`); an instance whose reset time is the very second of the start is
neither deleted nor scheduled (`InstanceSaveMgr.cpp:346`); an invitation that creates a
group whose leader has become a member of another in the meantime
(`GroupHandler.cpp:240`: a player without a group invites another, joins the finder and
is put into a group by a proposal; the other accepts, and `Group::Create` makes the
first a member of the new group as well, so that the finder's group of him is the new
one and `GroupsAgree` would not hold; in `DungeonFinder` such an invitation is made and
accepted in one step); a full group of the finder that joins the queue again from its
dungeon and matches itself: all are taken to have agreed, nobody sends the answer that
would make the proposal come about, and it only times out; a session
that is created by a socket which is gone before the permissions are loaded is
neither added nor deleted (`WorldSocket.cpp`, `LoadSessionPermissionsCallback`); the
threat modifier that notifies the heap in the direction of the first entry
(`ThreatManager.cpp:785`), after which the order of the heap is not determined.


## 6. What is not modelled

Within the modelled components: vehicles, totems, companions, ghouls, stabled and
released pets, and auras that end with combat (of `Control`), and what charms do to
factions, movement and AI; script callbacks in the middle of a combat call;
the redirection registry and the arithmetic of threat modifiers (an `AddThreat` may
have any outcome instead); the leader and loot of groups, how long invitations are pending, roles,
cooldowns, locks and teleports of the dungeon finder, the budget of its search
(`LFG_MATCH_CHECK_BUDGET`), the removal of entries that are locked out of their dungeons,
`Clean`, and what the database keeps of the finder; the results of queries and the
callbacks that take them, pings, prepared statements, a database server that stays away
(the process is aborted), and waits for row locks that time out; raid and heroic instances (permanent binds, extensions,
global resets), changes of groups, the data of instance scripts; changes of the
player limit and bans; the receiving side of a socket, encryption, and packets
larger than a buffer.

Other components, all in `PROJECT.json`: spells, movement and collision, the rules
of single characters (items, quests, achievements), and content are mostly data and
geometry, out of a model checker's reach and large; guilds, calendar, chat and mail
are records of one thread written through to the database; Warden and the
authentication server are protocols of one session without shared state; vendored
code and tools are of other projects.


## 7. Plan

Done, in this order: (1) `Combat`, `CombatSpec` with proofs; (2) `Threat`;
(3) `Instance`; (4) `MapUpdater` and `MapRounds`; (5) `Admission`; (6) `MPSCQueue`
and `Socket`; (7) `DungeonFinder`; (8) `Database` and `Store`; (9) `Control`.

Next, in the order of what matters most:

1. Proofs about `Control`, once its functions are written without RECURSIVE:
   `RegistersAgree` first, on which `OnlyDyingPossessorsFail` rests.
2. `Instance` with groups that change, composed with the groups of `DungeonFinder`;
   permanent binds as `RaidInstance`.
3. `Control` composed with `Combat`, with vehicles; and `CombatHandoff`: notifications in the middle of `EndCombat` and
   `SetInCombatWith` that re-enter the manager.
4. The session between `Socket` and `Admission` (`LoadSessionPermissionsCallback`), with
   the callbacks of `Database`.
5. `BattlegroundQueue`, `Trade`, `EventProcessor`.
