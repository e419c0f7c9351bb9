----------------------------- MODULE MapUpdater -----------------------------
(***************************************************************************)
(* The threads that update the maps (Maps/MapUpdater, MapManager::Update)  *)
(* and the queue they share (common/Threading/ProducerConsumerQueue).      *)
(*                                                                         *)
(* The world thread schedules an update of every base map, waits for all of*)
(* them and goes on alone.  A worker that updates the base map of a dungeon*)
(* schedules updates of its instances on the way, or condemns one that is  *)
(* to be unloaded.                                                         *)
(*                                                                         *)
(* What a thread does under a lock is one step, schedule_update included,  *)
(* which takes the lock of the queue under the one of the updater. Threads *)
(* that wait for a condition are asleep until they are notified, or wake up*)
(* for no reason, as std::condition_variable may.                          *)
(***************************************************************************)
EXTENDS Integers, Sequences, FiniteSets

CONSTANTS
  Worker,      \* _workerThreads
  Base,        \* MapManager::i_maps
  Instance,    \* the instances that players may create
  Parent,      \* the base map of an instance
  None         \* no request

ASSUME UpdaterAssumption ==
  /\ IsFiniteSet(Worker) /\ Worker # {}
  /\ Base \cap Instance = {} /\ None \notin Base \cup Instance
  /\ Parent \in [Instance -> Base]

VARIABLES
  main,        \* where the world thread is
  todo,        \* the base maps it has yet to schedule
  instances,   \* MapInstanced::m_InstancedMaps of all base maps
  condemned,   \* MapInstanced::_pendingDestroys
  at,          \* where each worker is
  request,     \* the map it is to update
  children,    \* the instances its MapInstanced::Update has yet to visit
  queue,       \* _queue
  pending,     \* pending_requests
  token,       \* _cancelationToken
  shutdown,    \* ProducerConsumerQueue::_shutdown
  updated      \* the maps whose update is over (history)

world  == <<main, todo, instances>>
thread == <<at, request, children>>
shared == <<queue, pending>>
vars   == <<main, todo, instances, condemned, at, request, children, queue,
            pending, token, shutdown, updated>>

Map == Base \cup Instance

(* pending_requests counts the requests in the queue and in the hands of the*)
(* workers: schedule_update counts before a worker can finish.              *)
TypeOK ==
  /\ main \in {"sessions", "scheduling", "waiting", "asleep", "alone",
               "joining", "stopped"}
  /\ todo \subseteq Base /\ instances \subseteq Instance
  /\ condemned \subseteq instances
  /\ at \in [Worker -> {"popping", "asleep", "popped", "updating", "finishing",
                        "gone"}]
  /\ request \in [Worker -> Map \cup {None}]
  /\ children \in [Worker -> SUBSET Instance]
  /\ queue \in Seq(Map)
  /\ pending = Len(queue) + Cardinality({w \in Worker : request[w] # None})
  /\ token \in BOOLEAN /\ shutdown \in BOOLEAN
  /\ updated \subseteq Map

Init ==
  /\ main = "sessions" /\ todo = {} /\ instances = {} /\ condemned = {}
  /\ at = [w \in Worker |-> "popping"] /\ request = [w \in Worker |-> None]
  /\ children = [w \in Worker |-> {}]
  /\ queue = <<>> /\ pending = 0
  /\ token = FALSE /\ shutdown = FALSE
  /\ updated = {}

-----------------------------------------------------------------------------
(* notify_one wakes one of those asleep, if there are any.  A is at, or what*)
(* it has become in this step.                                              *)
NotifyOne(A) ==
  IF \E w \in Worker : A[w] = "asleep"
  THEN \E w \in {v \in Worker : A[v] = "asleep"} : at' = [A EXCEPT ![w] = "popping"]
  ELSE at' = A

ScheduleUncounted(m) ==
  /\ pending' = IF m \in Base THEN pending + 1 ELSE pending
  /\ queue' = Append(queue, m)
  /\ NotifyOne(at)

(* schedule_update, with Push.                                              *)
Schedule(m) ==
  /\ pending' = pending + 1
  /\ queue' = Append(queue, m)
  /\ NotifyOne(at)

-----------------------------------------------------------------------------
(* The world thread.                                                       *)

CreateInstance(i) ==
  /\ main = "sessions" /\ i \notin instances
  /\ instances' = instances \cup {i}
  /\ UNCHANGED <<main, todo, condemned, thread, shared, token, shutdown, updated>>

StartRound ==
  /\ main = "sessions"
  /\ main' = "scheduling" /\ todo' = Base /\ updated' = {}
  /\ UNCHANGED <<instances, condemned, thread, shared, token, shutdown>>

ScheduleBase(m) ==
  /\ main = "scheduling" /\ m \in todo
  /\ todo' = todo \ {m}
  /\ Schedule(m)
  /\ UNCHANGED <<main, instances, condemned, request, children, token, shutdown,
                 updated>>

StartWait ==
  /\ main = "scheduling" /\ todo = {}
  /\ main' = "waiting"
  /\ UNCHANGED <<todo, instances, condemned, thread, shared, token, shutdown, updated>>

WaitSleep ==
  /\ main = "waiting" /\ pending > 0
  /\ main' = "asleep"
  /\ UNCHANGED <<todo, instances, condemned, thread, shared, token, shutdown, updated>>

WaitEnd ==
  /\ main = "waiting" /\ pending = 0 /\ ~ token
  /\ main' = "alone"
  /\ UNCHANGED <<todo, instances, condemned, thread, shared, token, shutdown, updated>>

MainWakes ==
  /\ main = "asleep"
  /\ main' = "waiting"
  /\ UNCHANGED <<todo, instances, condemned, thread, shared, token, shutdown, updated>>

(* DestroyPendingInstances, which keeps instances that have players, and    *)
(* DelayedUpdate of all maps.                                               *)
EndRound(destroyed) ==
  /\ main = "alone" /\ destroyed \subseteq condemned
  /\ main' = "sessions"
  /\ instances' = instances \ destroyed /\ condemned' = {}
  /\ UNCHANGED <<todo, thread, shared, token, shutdown, updated>>

(* UnloadAll, and deactivate up to its wait.                                *)
Stop ==
  /\ main = "sessions"
  /\ main' = "waiting" /\ token' = TRUE
  /\ instances' = {} /\ condemned' = {}
  /\ UNCHANGED <<todo, thread, shared, shutdown, updated>>

Cancel ==
  /\ main = "waiting" /\ pending = 0 /\ token
  /\ main' = "joining"
  /\ queue' = <<>> /\ shutdown' = TRUE
  /\ at' = [w \in Worker |-> IF at[w] = "asleep" THEN "popping" ELSE at[w]]
  /\ UNCHANGED <<todo, instances, condemned, request, children, pending, token, updated>>

Join ==
  /\ main = "joining" /\ \A w \in Worker : at[w] = "gone"
  /\ main' = "stopped"
  /\ UNCHANGED <<todo, instances, condemned, thread, shared, token, shutdown, updated>>

-----------------------------------------------------------------------------
(* A worker: WaitAndPop.                                                   *)

PopRequest(w) ==
  /\ at[w] = "popping" /\ queue # <<>> /\ ~ shutdown
  /\ request' = [request EXCEPT ![w] = Head(queue)]
  /\ queue' = Tail(queue)
  /\ at' = [at EXCEPT ![w] = "popped"]
  /\ UNCHANGED <<world, condemned, children, pending, token, shutdown, updated>>

PopNothing(w) ==
  /\ at[w] = "popping" /\ shutdown
  /\ request' = [request EXCEPT ![w] = None]
  /\ at' = [at EXCEPT ![w] = "popped"]
  /\ UNCHANGED <<world, condemned, children, shared, token, shutdown, updated>>

PopSleep(w) ==
  /\ at[w] = "popping" /\ queue = <<>> /\ ~ shutdown
  /\ at' = [at EXCEPT ![w] = "asleep"]
  /\ UNCHANGED <<world, condemned, request, children, shared, token, shutdown, updated>>

WorkerWakes(w) ==
  /\ at[w] = "asleep"
  /\ at' = [at EXCEPT ![w] = "popping"]
  /\ UNCHANGED <<world, condemned, request, children, shared, token, shutdown, updated>>

(* The token is read without a lock.                                        *)
Leave(w) ==
  /\ at[w] = "popped" /\ token
  /\ at' = [at EXCEPT ![w] = "gone"]
  /\ UNCHANGED <<world, condemned, request, children, shared, token, shutdown, updated>>

(* MapUpdateRequest::call: Map::Update, and MapInstanced::Update goes over  *)
(* the instances.                                                           *)
StartUpdate(w) ==
  /\ at[w] = "popped" /\ ~ token
  /\ at' = [at EXCEPT ![w] = "updating"]
  /\ children' = [children EXCEPT ![w] =
                    {i \in instances : Parent[i] = request[w]}]
  /\ UNCHANGED <<world, condemned, request, shared, token, shutdown, updated>>

ScheduleInstance(w, i) ==
  /\ at[w] = "updating" /\ i \in children[w]
  /\ children' = [children EXCEPT ![w] = @ \ {i}]
  /\ Schedule(i)
  /\ UNCHANGED <<world, condemned, request, token, shutdown, updated>>

CondemnAndSchedule(w, i) ==
  /\ at[w] = "updating" /\ i \in children[w]
  /\ condemned' = condemned \cup {i}
  /\ UNCHANGED <<world, at, request, children, queue, pending, token, shutdown, updated>>

Condemn(w, i) ==
  /\ at[w] = "updating" /\ i \in children[w]
  /\ children' = [children EXCEPT ![w] = @ \ {i}]
  /\ condemned' = condemned \cup {i}
  /\ UNCHANGED <<world, at, request, shared, token, shutdown, updated>>

EndUpdate(w) ==
  /\ at[w] = "updating" /\ children[w] = {}
  /\ at' = [at EXCEPT ![w] = "finishing"]
  /\ updated' = updated \cup {request[w]}
  /\ UNCHANGED <<world, condemned, request, children, shared, token, shutdown>>

FinishQuietly(w) ==
  /\ at[w] = "finishing"
  /\ pending' = pending - 1
  /\ main' = main
  /\ at' = [at EXCEPT ![w] = "popping"]
  /\ request' = [request EXCEPT ![w] = None]
  /\ UNCHANGED <<todo, instances, condemned, children, queue, token, shutdown, updated>>

(* update_finished, and the request is deleted.                             *)
Finish(w) ==
  /\ at[w] = "finishing"
  /\ pending' = pending - 1
  /\ main' = IF main = "asleep" THEN "waiting" ELSE main
  /\ at' = [at EXCEPT ![w] = "popping"]
  /\ request' = [request EXCEPT ![w] = None]
  /\ UNCHANGED <<todo, instances, condemned, children, queue, token, shutdown, updated>>

-----------------------------------------------------------------------------
Stopped == main = "stopped" /\ UNCHANGED vars

MainSteps ==
  \/ \E m \in Base : ScheduleBase(m)
  \/ StartWait \/ WaitSleep \/ WaitEnd \/ Cancel \/ Join
  \/ \E destroyed \in SUBSET condemned : EndRound(destroyed)

WorkerSteps(w) ==
  \/ PopRequest(w) \/ PopNothing(w) \/ PopSleep(w) \/ Leave(w) \/ StartUpdate(w)
  \/ \E i \in Instance : ScheduleInstance(w, i) \/ Condemn(w, i)
  \/ EndUpdate(w) \/ Finish(w)

Next ==
  \/ MainSteps
  \/ \E i \in Instance : CreateInstance(i)
  \/ StartRound \/ Stop \/ MainWakes \/ Stopped
  \/ \E w \in Worker : WorkerSteps(w) \/ WorkerWakes(w)

(* Threads are scheduled; a thread that sleeps may never wake up by itself, *)
(* and the world need not start another round.                              *)
Spec ==
  /\ Init /\ [][Next]_vars
  /\ WF_vars(MainSteps)
  /\ \A w \in Worker : WF_vars(WorkerSteps(w))

-----------------------------------------------------------------------------
(* Properties.                                                             *)

InRound == main \in {"scheduling", "waiting", "asleep"} /\ ~ token

Updating == {w \in Worker : at[w] = "updating"}

Rounds == INSTANCE MapRounds WITH
  inRound <- InRound,
  loaded <- Base \cup instances,
  updating <- {request[w] : w \in Updating},
  skipped <- condemned

(* The world thread waits until every map it or a worker has scheduled is   *)
(* updated, each once and by one thread, and is alone from then on: the     *)
(* locks, the count of requests and the two conditions of MapUpdater make   *)
(* MapManager::Update do what MapRounds says.                               *)
ImplementsRounds == Rounds!Spec

(* A round that is started ends: no wakeup is lost between schedule_update, *)
(* WaitAndPop, update_finished and wait, however few threads are awake.  And*)
(* deactivate ends: all workers leave WaitAndPop and are joined, although   *)
(* the token is set before the last wait for pending requests.              *)
RoundsEnd ==
  /\ main = "scheduling" ~> main = "sessions"
  /\ token ~> main = "stopped"

=============================================================================
