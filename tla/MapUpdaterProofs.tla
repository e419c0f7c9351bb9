-------------------------- MODULE MapUpdaterProofs --------------------------
(***************************************************************************)
(* Proofs about MapUpdater, for any number of workers, maps and instances: *)
(* the count of pending requests is exact, and the threads implement       *)
(* MapRounds.                                                              *)
(*                                                                         *)
(* In a round every map is in one place: yet to be begun (Ahead), being    *)
(* updated (Running), yet to be visited by the update of its base map      *)
(* (Visited), updated, or condemned.  The steps of the threads only move   *)
(* maps from one place to another, in this order.                          *)
(***************************************************************************)
EXTENDS MapUpdater, FiniteSetTheorems, TLAPS

Place == {"popping", "asleep", "popped", "updating", "finishing", "gone"}

Requested == {w \in Worker : request[w] # None}

Elements(q) == {q[k] : k \in 1 .. Len(q)}

Distinct(q) == \A j, k \in 1 .. Len(q) : q[j] = q[k] => j = k

Popped == {request[w] : w \in {v \in Requested : at[v] = "popped"}}

Running == {request[w] : w \in Updating}

Ahead == todo \cup Elements(queue) \cup Popped

Visited == UNION {children[w] : w \in Worker}

(* A worker has a request from the moment it pops one until it has finished.*)
Handled ==
  \A w \in Worker :
    /\ at[w] \in {"popping", "asleep"} => request[w] = None
    /\ at[w] \in {"updating", "finishing"} => request[w] # None
    /\ at[w] = "popped" /\ request[w] = None => token
    /\ children[w] # {} => at[w] = "updating"
    /\ \A i \in children[w] : i \in instances /\ Parent[i] = request[w]

(* The world thread leaves the round only when nothing is pending.          *)
Phases ==
  /\ shutdown => main \in {"joining", "stopped"}
  /\ main \in {"joining", "stopped"} => token
  /\ token => main \in {"waiting", "joining", "stopped"}
  /\ todo # {} => main = "scheduling"
  /\ condemned # {} => ~ token /\ main # "sessions"
  /\ token \/ main \in {"sessions", "alone"} => pending = 0

(* Nothing is scheduled twice, and no two workers have the same map.        *)
Once ==
  /\ Distinct(queue)
  /\ todo \cap Elements(queue) = {} /\ (todo \cup Elements(queue)) \cap Popped = {}
  /\ \A u, v \in Requested :
       request[u] = request[v] /\ at[u] = at[v] /\ at[u] \in {"popped", "updating"}
         => u = v

(* Every map is in one place: A is Ahead, R Running, V Visited, U updated   *)
(* and C condemned; L are the instances there are.                          *)
Apart(A, R, V, U, C) ==
  /\ A \cap (R \cup V \cup U \cup C) = {} /\ R \cap (V \cup U \cup C) = {}
  /\ V \cap (U \cup C) = {} /\ U \cap C = {}

ParentsFirst(A, R, V, U, C) ==
  \A i \in Instance \cap (A \cup R \cup V \cup U \cup C) : Parent[i] \in R \cup U

NoneForgotten(A, R, V, U, C, L) ==
  /\ Base \subseteq A \cup R \cup U
  /\ \A i \in L : i \in A \cup R \cup V \cup U \cup C \/ Parent[i] \in A

InOnePlace ==
  /\ Ahead \cup Running \subseteq Base \cup instances
  /\ Apart(Ahead, Running, Visited, updated, condemned)
  /\ ParentsFirst(Ahead, Running, Visited, updated, condemned)
  /\ InRound => NoneForgotten(Ahead, Running, Visited, updated, condemned, instances)

IInv == TypeOK /\ Handled /\ Phases /\ Once /\ InOnePlace

-----------------------------------------------------------------------------
(* Counting requests.                                                      *)

LEMMA AppendElements ==
  ASSUME NEW S, NEW q \in Seq(S), NEW m \in S
  PROVE  /\ Append(q, m) \in Seq(S) /\ Len(Append(q, m)) = Len(q) + 1
         /\ Elements(Append(q, m)) = Elements(q) \cup {m}
         /\ Distinct(q) /\ m \notin Elements(q) => Distinct(Append(q, m))
<1> DEFINE r == Append(q, m)
<1>1. /\ r \in Seq(S) /\ Len(r) = Len(q) + 1 /\ Len(q) \in Nat
      /\ r[Len(q) + 1] = m /\ \A k \in 1 .. Len(q) : r[k] = q[k]
  OBVIOUS
<1> HIDE DEF r
<1>2. 1 .. Len(r) = (1 .. Len(q)) \cup {Len(q) + 1}
  BY <1>1
<1>3. Elements(r) = Elements(q) \cup {m}
  BY <1>1, <1>2 DEF Elements
<1>4. ASSUME Distinct(q), m \notin Elements(q) PROVE Distinct(r)
  <2>1. ASSUME NEW j \in 1 .. Len(r), NEW k \in 1 .. Len(r), r[j] = r[k]
        PROVE  j = k
    <3>1. \A l \in 1 .. Len(q) : q[l] # m
      BY <1>4 DEF Elements
    <3> QED
      BY <1>1, <1>2, <1>4, <2>1, <3>1 DEF Distinct
  <2> QED
    BY <2>1 DEF Distinct
<1> QED
  BY <1>1, <1>3, <1>4 DEF r

LEMMA TailElements ==
  ASSUME NEW S, NEW q \in Seq(S), q # <<>>
  PROVE  /\ Tail(q) \in Seq(S) /\ Head(q) \in S /\ Len(Tail(q)) = Len(q) - 1
         /\ Elements(q) = Elements(Tail(q)) \cup {Head(q)}
         /\ Distinct(q) => Distinct(Tail(q)) /\ Head(q) \notin Elements(Tail(q))
<1> DEFINE r == Tail(q)
<1>1. /\ r \in Seq(S) /\ Len(r) = Len(q) - 1 /\ Len(q) \in Nat \ {0}
      /\ Head(q) \in S /\ q[1] = Head(q)
      /\ \A k \in 1 .. Len(r) : r[k] = q[k + 1]
  OBVIOUS
<1> HIDE DEF r
<1>2. Elements(q) = Elements(r) \cup {Head(q)}
  <2>1. ASSUME NEW k \in 1 .. Len(q) PROVE q[k] \in Elements(r) \cup {Head(q)}
    <3>1. CASE k = 1
      BY <1>1, <3>1
    <3>2. CASE k # 1
      <4>1. k - 1 \in 1 .. Len(r) /\ q[k] = r[k - 1]
        BY <1>1, <3>2
      <4> QED
        BY <4>1 DEF Elements
    <3> QED
      BY <3>1, <3>2
  <2>2. ASSUME NEW k \in 1 .. Len(r) PROVE r[k] \in Elements(q)
    <3>1. k + 1 \in 1 .. Len(q) /\ r[k] = q[k + 1]
      BY <1>1
    <3> QED
      BY <3>1 DEF Elements
  <2>3. Head(q) \in Elements(q)
    <3>1. 1 \in 1 .. Len(q)
      BY <1>1
    <3> QED
      BY <1>1, <3>1 DEF Elements
  <2> QED
    BY <2>1, <2>2, <2>3 DEF Elements
<1>3. ASSUME Distinct(q) PROVE Distinct(r) /\ Head(q) \notin Elements(r)
  <2>1. ASSUME NEW j \in 1 .. Len(r), NEW k \in 1 .. Len(r), r[j] = r[k]
        PROVE  j = k
    <3>1. /\ j + 1 \in 1 .. Len(q) /\ k + 1 \in 1 .. Len(q)
          /\ q[j + 1] = q[k + 1]
      BY <1>1, <2>1
    <3>2. j + 1 = k + 1
      BY <1>3, <3>1 DEF Distinct
    <3> QED
      BY <3>2
  <2>2. ASSUME NEW k \in 1 .. Len(r) PROVE r[k] # Head(q)
    <3>1. k + 1 \in 1 .. Len(q) /\ 1 \in 1 .. Len(q) /\ k + 1 # 1
      BY <1>1
    <3> QED
      BY <1>1, <1>3, <3>1 DEF Distinct
  <2> QED
    BY <2>1, <2>2 DEF Distinct, Elements
<1> QED
  BY <1>1, <1>2, <1>3 DEF r

LEMMA RequestsFinite ==
  ASSUME NEW R \in [Worker -> Map \cup {None}]
  PROVE  /\ IsFiniteSet({w \in Worker : R[w] # None})
         /\ Cardinality({w \in Worker : R[w] # None}) \in Nat
BY UpdaterAssumption, FS_Subset, FS_CardinalityType DEF UpdaterAssumption

(* Nothing is pending: the queue is empty and no worker has a request.      *)
LEMMA NothingPending ==
  ASSUME TypeOK
  PROVE  /\ pending \in Nat
         /\ pending = 0 <=> queue = <<>> /\ Requested = {}
<1>1. IsFiniteSet(Requested) /\ Cardinality(Requested) \in Nat
  BY RequestsFinite DEF TypeOK, Requested
<1>2. Cardinality(Requested) = 0 <=> Requested = {}
  BY <1>1, FS_EmptySet
<1>3. Len(queue) \in Nat /\ (Len(queue) = 0 <=> queue = <<>>)
  BY DEF TypeOK
<1>4. pending = Len(queue) + Cardinality(Requested)
  BY DEF TypeOK, Requested
<1> QED
  BY <1>1, <1>2, <1>3, <1>4

(* Nothing pending: no map is in a place where a worker would update it.    *)
LEMMA NothingThere ==
  ASSUME TypeOK, Handled, pending = 0
  PROVE  /\ Elements(queue) = {} /\ Popped = {} /\ Running = {} /\ Visited = {}
         /\ \A w \in Worker : request[w] = None /\ at[w] \notin {"updating", "finishing"}
<1>1. queue = <<>> /\ Requested = {}
  BY NothingPending
<1>2. \A w \in Worker : request[w] = None
  BY <1>1 DEF Requested
<1>3. \A w \in Worker : at[w] \notin {"updating", "finishing"} /\ children[w] = {}
  BY <1>2 DEF Handled
<1>4. Elements(queue) = {}
  BY <1>1 DEF Elements
<1> QED
  BY <1>1, <1>2, <1>3, <1>4 DEF Popped, Running, Visited, Updating

-----------------------------------------------------------------------------
(* Maps move from one place to the next.                                   *)

(* A map is begun: the instances of a base map are to be visited.  None of  *)
(* them is anywhere yet, since its base map was not begun.                  *)
LEMMA BeginMoves ==
  ASSUME NEW A, NEW R, NEW V, NEW U, NEW C, NEW L \in SUBSET Instance, NEW m \in A,
         A \subseteq Base \cup L, Apart(A, R, V, U, C), ParentsFirst(A, R, V, U, C)
  PROVE  LET N == V \cup {i \in L : Parent[i] = m}
         IN  /\ Apart(A \ {m}, R \cup {m}, N, U, C)
             /\ ParentsFirst(A \ {m}, R \cup {m}, N, U, C)
             /\ NoneForgotten(A, R, V, U, C, L)
                  => NoneForgotten(A \ {m}, R \cup {m}, N, U, C, L)
<1> DEFINE I == {i \in L : Parent[i] = m}
<1>1. Base \cap Instance = {} /\ \A i \in Instance : Parent[i] \in Base
  BY UpdaterAssumption DEF UpdaterAssumption
<1>2. m \notin R \cup V \cup U \cup C
  BY DEF Apart
<1>3. \A i \in I : i \notin A \cup R \cup V \cup U \cup C /\ i # m
  BY <1>1, <1>2 DEF ParentsFirst
<1>4. Apart(A \ {m}, R \cup {m}, V \cup I, U, C)
  BY <1>2, <1>3 DEF Apart
<1>5. ParentsFirst(A \ {m}, R \cup {m}, V \cup I, U, C)
  BY DEF ParentsFirst
<1>6. NoneForgotten(A, R, V, U, C, L) => NoneForgotten(A \ {m}, R \cup {m}, V \cup I, U, C, L)
  BY DEF NoneForgotten
<1> QED
  BY <1>4, <1>5, <1>6

(* A map that is visited is scheduled or condemned, one that is updated is  *)
(* done.                                                                    *)
LEMMA ScheduleMoves ==
  ASSUME NEW A, NEW R, NEW V, NEW U, NEW C, NEW L, NEW i \in V,
         Apart(A, R, V, U, C), ParentsFirst(A, R, V, U, C)
  PROVE  /\ Apart(A \cup {i}, R, V \ {i}, U, C)
         /\ ParentsFirst(A \cup {i}, R, V \ {i}, U, C)
         /\ NoneForgotten(A, R, V, U, C, L) => NoneForgotten(A \cup {i}, R, V \ {i}, U, C, L)
BY DEF Apart, ParentsFirst, NoneForgotten

LEMMA CondemnMoves ==
  ASSUME NEW A, NEW R, NEW V, NEW U, NEW C, NEW L, NEW i \in V,
         Apart(A, R, V, U, C), ParentsFirst(A, R, V, U, C)
  PROVE  /\ Apart(A, R, V \ {i}, U, C \cup {i})
         /\ ParentsFirst(A, R, V \ {i}, U, C \cup {i})
         /\ NoneForgotten(A, R, V, U, C, L) => NoneForgotten(A, R, V \ {i}, U, C \cup {i}, L)
BY DEF Apart, ParentsFirst, NoneForgotten

LEMMA EndMoves ==
  ASSUME NEW A, NEW R, NEW V, NEW U, NEW C, NEW L, NEW m \in R,
         Apart(A, R, V, U, C), ParentsFirst(A, R, V, U, C)
  PROVE  /\ Apart(A, R \ {m}, V, U \cup {m}, C)
         /\ ParentsFirst(A, R \ {m}, V, U \cup {m}, C)
         /\ NoneForgotten(A, R, V, U, C, L) => NoneForgotten(A, R \ {m}, V, U \cup {m}, C, L)
BY DEF Apart, ParentsFirst, NoneForgotten

-----------------------------------------------------------------------------
(* What workers have.                                                      *)

Singly ==
  \A u, v \in Requested :
    request[u] = request[v] /\ at[u] = at[v] /\ at[u] \in {"popped", "updating"} => u = v

(* The workers that have popped or are updating a map are the same.         *)
SameHands ==
  \A v \in Worker :
    /\ at'[v] = "popped" /\ request'[v] # None <=> at[v] = "popped" /\ request[v] # None
    /\ at'[v] = "updating" <=> at[v] = "updating"
    /\ at[v] \in {"popped", "updating"} /\ request[v] # None => request'[v] = request[v]

LEMMA SameHandsKeep ==
  ASSUME Handled, SameHands
  PROVE  Popped' = Popped /\ Running' = Running /\ (Singly => Singly')
<1>1. \A v \in Worker : at[v] = "updating" => request[v] # None
  BY DEF Handled
<1>2. \A v \in Worker : (v \in Requested' /\ at'[v] = "popped") <=> (v \in Requested /\ at[v] = "popped")
  BY DEF SameHands, Requested
<1>3. Popped' = Popped
  BY <1>2 DEF Popped, SameHands, Requested
<1>4. Running' = Running
  BY <1>1 DEF Running, Updating, SameHands
<1>5. ASSUME Singly PROVE Singly'
  BY <1>1, <1>5 DEF Singly, SameHands, Requested
<1> QED
  BY <1>3, <1>4, <1>5

(* notify_one moves a worker from one condition loop to another.            *)
LEMMA NotifyKeeps ==
  ASSUME TypeOK, NotifyOne(at)
  PROVE  /\ at' \in [Worker -> Place]
         /\ \A v \in Worker : at'[v] = at[v] \/ (at[v] = "asleep" /\ at'[v] = "popping")
<1>1. at \in [Worker -> Place]
  BY DEF TypeOK, Place
<1>2. CASE \E w \in Worker : at[w] = "asleep"
  <2>1. PICK w \in Worker : at[w] = "asleep" /\ at' = [at EXCEPT ![w] = "popping"]
    BY <1>2 DEF NotifyOne
  <2>2. at' \in [Worker -> Place]
    BY <1>1, <2>1 DEF Place
  <2>3. \A v \in Worker : at'[v] = IF v = w THEN "popping" ELSE at[v]
    BY <1>1, <2>1
  <2> QED
    BY <2>1, <2>2, <2>3
<1>3. CASE ~ \E w \in Worker : at[w] = "asleep"
  <2>1. at' = at
    BY <1>3 DEF NotifyOne
  <2> QED
    BY <1>1, <2>1
<1> QED
  BY <1>2, <1>3

-----------------------------------------------------------------------------
(* Steps of the world thread.                                              *)

LEMMA InitHolds == Init => IInv
<1> SUFFICES ASSUME Init PROVE IInv
  OBVIOUS
<1>1. TypeOK
  <2> USE DEF Init
  <2>1. Requested = {}
    BY DEF Requested
  <2>2. Cardinality(Requested) = 0
    BY <2>1, FS_EmptySet
  <2>3. queue \in Seq(Map) /\ Len(queue) = 0
    OBVIOUS
  <2>4. pending = Len(queue) + Cardinality({w \in Worker : request[w] # None})
    BY <2>2, <2>3 DEF Requested
  <2>5. /\ at \in [Worker -> {"popping", "asleep", "popped", "updating", "finishing",
                            "gone"}]
        /\ request \in [Worker -> Map \cup {None}]
        /\ children \in [Worker -> SUBSET Instance]
    OBVIOUS
  <2> QED
    BY <2>3, <2>4, <2>5 DEF TypeOK
<1> USE DEF Init
<1>2. Handled /\ Phases
  BY DEF Handled, Phases
<1>3. Elements(queue) = {} /\ Popped = {} /\ Running = {} /\ Visited = {}
  BY <1>1, <1>2, NothingThere
<1>4. Once
  BY <1>3 DEF Once, Distinct, Requested
<1>5. InOnePlace
  BY <1>3 DEF InOnePlace, Ahead, Apart, ParentsFirst, InRound
<1> QED
  BY <1>1, <1>2, <1>4, <1>5 DEF IInv

(* The world thread goes on without a round: workers, queue and condemned   *)
(* maps are as they were.                                                   *)
LEMMA WaitSteps ==
  ASSUME IInv, StartWait \/ WaitSleep \/ WaitEnd \/ MainWakes \/ Join
  PROVE  IInv'
<1>1. UNCHANGED <<todo, instances, condemned, at, request, children, queue, pending,
                  token, shutdown, updated>>
  BY DEF StartWait, WaitSleep, WaitEnd, MainWakes, Join, thread, shared
<1>2. TypeOK'
  BY <1>1 DEF IInv, TypeOK, StartWait, WaitSleep, WaitEnd, MainWakes, Join
<1>3. Handled'
  BY <1>1 DEF IInv, Handled
<1>4. Phases'
  BY <1>1 DEF IInv, Phases, StartWait, WaitSleep, WaitEnd, MainWakes, Join
<1>5. Once'
  BY <1>1 DEF IInv, Once, Popped, Requested
<1>6. InOnePlace'
  <2>1. InRound' => InRound
    BY <1>1 DEF InRound, StartWait, WaitSleep, WaitEnd, MainWakes, Join, IInv, Phases
  <2>2. Ahead' = Ahead /\ Running' = Running /\ Visited' = Visited
    BY <1>1 DEF Ahead, Popped, Requested, Running, Updating, Visited
  <2> QED
    BY <1>1, <2>1, <2>2 DEF IInv, InOnePlace
<1> QED
  BY <1>2, <1>3, <1>4, <1>5, <1>6 DEF IInv

(* Between rounds instances come and go.                                    *)
LEMMA AloneSteps ==
  ASSUME IInv,
         \/ \E i \in Instance : CreateInstance(i)
         \/ \E destroyed \in SUBSET condemned : EndRound(destroyed)
         \/ Stop
  PROVE  IInv'
<1> USE DEF CreateInstance, EndRound, Stop
<1>1. UNCHANGED <<todo, at, request, children, queue, pending, shutdown, updated>>
  BY DEF thread, shared
<1>2. pending = 0 /\ todo = {} /\ ~ token /\ ~ shutdown /\ main \in {"sessions", "alone"}
  BY DEF IInv, Phases
<1>3. /\ Elements(queue) = {} /\ Popped = {} /\ Running = {} /\ Visited = {}
      /\ \A w \in Worker : children[w] = {}
  BY <1>2, NothingThere DEF IInv, Visited
<1>4. TypeOK'
  BY <1>1 DEF IInv, TypeOK
<1>5. Handled'
  BY <1>1, <1>2, <1>3 DEF IInv, Handled
<1>6. Phases'
  BY <1>1, <1>2 DEF IInv, Phases
<1>7. Once'
  BY <1>1 DEF IInv, Once, Popped, Requested
<1>8. Ahead' = {} /\ Running' = {} /\ Visited' = {}
  BY <1>1, <1>2, <1>3 DEF Ahead, Popped, Requested, Running, Updating, Visited
<1>9. condemned' \subseteq condemned /\ ~ InRound'
  BY <1>2 DEF IInv, Phases, InRound
<1>10. InOnePlace'
  <2>1. updated \cap condemned = {} /\ ParentsFirst({}, {}, {}, updated, condemned)
    BY <1>2, <1>3 DEF IInv, InOnePlace, Apart, ParentsFirst, Ahead
  <2>2. Apart({}, {}, {}, updated', condemned')
    BY <1>1, <1>9, <2>1 DEF Apart
  <2>3. ParentsFirst({}, {}, {}, updated', condemned')
    BY <1>1, <1>9, <2>1 DEF ParentsFirst
  <2> QED
    BY <1>8, <1>9, <2>2, <2>3 DEF InOnePlace
<1> QED
  BY <1>4, <1>5, <1>6, <1>7, <1>10 DEF IInv

LEMMA StartRoundStep ==
  ASSUME IInv, StartRound
  PROVE  IInv'
<1> USE DEF StartRound
<1>1. UNCHANGED <<instances, condemned, at, request, children, queue, pending,
                  token, shutdown>>
  BY DEF thread, shared
<1>2. pending = 0 /\ ~ token /\ ~ shutdown /\ condemned = {}
  BY DEF IInv, Phases
<1>3. /\ Elements(queue) = {} /\ Popped = {} /\ Running = {} /\ Visited = {}
      /\ \A w \in Worker : request[w] = None /\ at[w] \notin {"updating", "finishing"}
  BY <1>2, NothingThere DEF IInv
<1>4. TypeOK'
  BY <1>1 DEF IInv, TypeOK
<1>5. Handled' /\ Phases'
  BY <1>1, <1>2 DEF IInv, Handled, Phases
<1>6. Popped' = {} /\ Running' = {} /\ Visited' = {} /\ Elements(queue)' = {}
  BY <1>1, <1>3 DEF Popped, Requested, Running, Updating, Visited
<1>7. Once'
  BY <1>1, <1>6 DEF IInv, Once, Requested
<1>8. Ahead' = Base
  BY <1>6 DEF Ahead
<1>9. Base \cap Instance = {} /\ \A i \in Instance : Parent[i] \in Base
  BY UpdaterAssumption DEF UpdaterAssumption
<1>10. instances \subseteq Instance
  BY DEF IInv, TypeOK
<1>11. InOnePlace'
  BY <1>1, <1>2, <1>6, <1>8, <1>9, <1>10
     DEF InOnePlace, Apart, ParentsFirst, NoneForgotten
<1> QED
  BY <1>4, <1>5, <1>7, <1>11 DEF IInv

-----------------------------------------------------------------------------
(* Scheduling.                                                             *)

(* Whoever has a request is within a round.                                 *)
LEMMA BusyInRound ==
  ASSUME IInv, Requested # {}
  PROVE  pending # 0 /\ InRound
<1>1. pending # 0
  BY NothingPending DEF IInv
<1>2. ~ token /\ main \notin {"sessions", "alone", "joining", "stopped"}
  BY <1>1 DEF IInv, Phases
<1> QED
  BY <1>1, <1>2 DEF IInv, TypeOK, InRound

(* A map is visited by one worker only, who updates its base map.           *)
LEMMA OneVisitor ==
  ASSUME IInv, NEW w \in Worker, NEW i \in children[w]
  PROVE  /\ i \in Instance /\ i \in instances /\ Parent[i] = request[w]
         /\ at[w] = "updating" /\ w \in Requested
         /\ \A v \in Worker : i \in children[v] => v = w
<1>1. \A v \in Worker : i \in children[v] =>
        /\ i \in instances /\ Parent[i] = request[v]
        /\ at[v] = "updating" /\ v \in Requested
  BY DEF IInv, Handled, Requested
<1>2. \A v \in Worker : i \in children[v] => v = w
  BY <1>1 DEF IInv, Once
<1> QED
  BY <1>1, <1>2 DEF IInv, TypeOK

LEMMA ScheduleKeeps ==
  ASSUME IInv, NEW m \in Map, Schedule(m), UNCHANGED <<request, token, instances>>,
         \A v \in Worker : children'[v] \subseteq children[v]
  PROVE  /\ at' \in [Worker -> Place] /\ queue' \in Seq(Map)
         /\ pending' = Len(queue') + Cardinality({w \in Worker : request'[w] # None})
         /\ Elements(queue)' = Elements(queue) \cup {m}
         /\ m \notin Elements(queue) => Distinct(queue)'
         /\ Handled' /\ Popped' = Popped /\ Running' = Running /\ Singly'
<1>1. pending' = pending + 1 /\ queue' = Append(queue, m) /\ NotifyOne(at)
  BY DEF Schedule
<1>2. /\ at' \in [Worker -> Place]
      /\ \A v \in Worker : at'[v] = at[v] \/ (at[v] = "asleep" /\ at'[v] = "popping")
  BY <1>1, NotifyKeeps DEF IInv
<1>3. queue \in Seq(Map)
  BY DEF IInv, TypeOK
<1>4. /\ queue' \in Seq(Map) /\ Len(queue') = Len(queue) + 1
      /\ Elements(queue') = Elements(queue) \cup {m}
      /\ m \notin Elements(queue) => Distinct(queue')
  BY <1>1, <1>3, AppendElements DEF IInv, Once
<1>5. pending' = Len(queue') + Cardinality({w \in Worker : request'[w] # None})
  <2>1. Cardinality(Requested) \in Nat
    BY RequestsFinite DEF IInv, TypeOK, Requested
  <2>2. pending = Len(queue) + Cardinality(Requested) /\ Len(queue) \in Nat
    BY <1>3 DEF IInv, TypeOK, Requested
  <2>3. pending' = Len(queue') + Cardinality(Requested)
    BY <1>1, <1>4, <2>1, <2>2
  <2> QED
    BY <2>3 DEF Requested
<1>6. Handled'
  BY <1>2 DEF IInv, Handled
<1>7. SameHands
  BY <1>2 DEF SameHands
<1>8. Popped' = Popped /\ Running' = Running /\ Singly'
  BY <1>7, SameHandsKeep DEF IInv, Once, Singly
<1> QED
  BY <1>2, <1>4, <1>5, <1>6, <1>8 DEF Elements, Distinct

LEMMA ScheduleBaseStep ==
  ASSUME IInv, NEW m \in Base, ScheduleBase(m)
  PROVE  IInv'
<1> USE DEF ScheduleBase
<1>1. m \in Map /\ m \in todo /\ main = "scheduling" /\ ~ token
  BY DEF Map, IInv, Phases
<1>2. /\ at' \in [Worker -> Place] /\ queue' \in Seq(Map)
      /\ pending' = Len(queue') + Cardinality({w \in Worker : request'[w] # None})
      /\ Elements(queue)' = Elements(queue) \cup {m}
      /\ Distinct(queue)'
      /\ Handled' /\ Popped' = Popped /\ Running' = Running /\ Singly'
  BY <1>1, ScheduleKeeps DEF IInv, Once
<1>3. TypeOK'
  BY <1>2 DEF IInv, TypeOK, Place
<1>4. Phases'
  BY <1>1 DEF IInv, Phases
<1>5. Once'
  BY <1>1, <1>2 DEF IInv, Once, Singly
<1>6. InOnePlace'
  <2>1. Ahead' = Ahead /\ Visited' = Visited
    BY <1>1, <1>2 DEF Ahead, Visited
  <2>2. InRound' = InRound
    BY DEF InRound
  <2> QED
    BY <1>2, <2>1, <2>2 DEF IInv, InOnePlace
<1> QED
  BY <1>2, <1>3, <1>4, <1>5, <1>6 DEF IInv

LEMMA ScheduleInstanceStep ==
  ASSUME IInv, NEW w \in Worker, NEW i \in Instance, ScheduleInstance(w, i)
  PROVE  IInv'
<1> USE DEF ScheduleInstance
<1>1. /\ i \in children[w] /\ children' = [children EXCEPT ![w] = children[w] \ {i}]
      /\ UNCHANGED <<main, todo, instances, condemned, request, token, shutdown, updated>>
  BY DEF world
<1>2. /\ i \in Map /\ i \in instances /\ w \in Requested
      /\ \A v \in Worker : i \in children[v] => v = w
  BY <1>1, OneVisitor DEF Map
<1>3. children \in [Worker -> SUBSET Instance]
  BY DEF IInv, TypeOK
<1>4. i \in Visited /\ Visited' = Visited \ {i}
  BY <1>1, <1>2, <1>3 DEF Visited
<1>5. i \notin Ahead
  BY <1>4 DEF IInv, InOnePlace, Apart
<1>6. \A v \in Worker : children'[v] \subseteq children[v]
  BY <1>1, <1>3
<1>7. /\ at' \in [Worker -> Place] /\ queue' \in Seq(Map)
      /\ pending' = Len(queue') + Cardinality({v \in Worker : request'[v] # None})
      /\ Elements(queue)' = Elements(queue) \cup {i}
      /\ Distinct(queue)'
      /\ Handled' /\ Popped' = Popped /\ Running' = Running /\ Singly'
  BY <1>1, <1>2, <1>5, <1>6, ScheduleKeeps DEF Ahead
<1>8. TypeOK'
  BY <1>1, <1>3, <1>7 DEF IInv, TypeOK, Place
<1>9. Phases'
  BY <1>1, <1>2, BusyInRound DEF IInv, Phases
<1>10. Once'
  BY <1>1, <1>5, <1>7 DEF IInv, Once, Singly, Ahead
<1>11. InOnePlace'
  <2>1. Ahead' = Ahead \cup {i}
    BY <1>1, <1>7 DEF Ahead
  <2>2. InRound' = InRound
    BY <1>1 DEF InRound
  <2> QED
    BY <1>1, <1>2, <1>4, <1>7, <2>1, <2>2, ScheduleMoves DEF IInv, InOnePlace
<1> QED
  BY <1>7, <1>8, <1>9, <1>10, <1>11 DEF IInv

-----------------------------------------------------------------------------
(* Steps of the workers.                                                   *)

(* A worker that waits, wakes, leaves or ends a request moves no map.       *)
LEMMA HandsStep ==
  ASSUME IInv, Handled', SameHands, UNCHANGED <<children, todo, condemned, instances,
                                                updated, token>>,
         queue' = queue \/ (queue = <<>> /\ queue' = <<>>),
         InRound' = InRound, TypeOK', Phases'
  PROVE  IInv'
<1>1. Popped' = Popped /\ Running' = Running /\ Singly'
  BY SameHandsKeep DEF IInv, Once, Singly
<1>2. queue' = queue
  OBVIOUS
<1>3. Once'
  BY <1>1, <1>2 DEF IInv, Once, Singly
<1>4. Ahead' = Ahead /\ Visited' = Visited
  BY <1>1, <1>2 DEF Ahead, Visited
<1>5. InOnePlace'
  BY <1>1, <1>4 DEF IInv, InOnePlace
<1> QED
  BY <1>3, <1>5 DEF IInv

LEMMA WaitingSteps ==
  ASSUME IInv, NEW w \in Worker, PopNothing(w) \/ PopSleep(w) \/ WorkerWakes(w) \/ Leave(w)
  PROVE  IInv'
<1> USE DEF PopNothing, PopSleep, WorkerWakes, Leave
<1>1. /\ UNCHANGED <<main, todo, instances, condemned, children, queue, pending, token,
                     shutdown, updated>>
      /\ \E p \in {"popping", "popped", "asleep", "gone"} : at' = [at EXCEPT ![w] = p]
  BY DEF world, shared
<1>2. request[w] = None /\ request' = request
  <2>1. request \in [Worker -> Map \cup {None}]
    BY DEF IInv, TypeOK
  <2>2. CASE Leave(w)
    <3>1. pending = 0
      BY <2>2 DEF IInv, Phases
    <3> QED
      BY <2>2, <3>1, NothingThere DEF IInv
  <2>3. CASE ~ Leave(w)
    <3>1. request[w] = None
      BY <2>3 DEF IInv, Handled
    <3> QED
      BY <2>1, <2>3, <3>1
  <2> QED
    BY <2>2, <2>3
<1>3. at \in [Worker -> Place]
  BY DEF IInv, TypeOK, Place
<1>4. TypeOK'
  BY <1>1, <1>2, <1>3 DEF IInv, TypeOK, Place
<1>5. Phases'
  BY <1>1 DEF IInv, Phases
<1>6. shutdown => token
  BY DEF IInv, Phases
<1>7. Handled'
  BY <1>1, <1>2, <1>3, <1>6 DEF IInv, Handled
<1>8. SameHands
  BY <1>1, <1>2, <1>3 DEF SameHands
<1>9. InRound' = InRound
  BY <1>1 DEF InRound
<1> QED
  BY <1>1, <1>4, <1>5, <1>7, <1>8, <1>9, HandsStep

(* The queue is cancelled when nothing is pending.                          *)
LEMMA CancelStep ==
  ASSUME IInv, Cancel
  PROVE  IInv'
<1> USE DEF Cancel
<1>1. UNCHANGED <<todo, instances, condemned, request, children, pending, token, updated>>
  OBVIOUS
<1>2. queue = <<>> /\ queue' = <<>>
  BY NothingPending DEF IInv
<1>3. at \in [Worker -> Place]
  BY DEF IInv, TypeOK, Place
<1>4. /\ at' \in [Worker -> Place]
      /\ \A v \in Worker : at'[v] = at[v] \/ (at[v] = "asleep" /\ at'[v] = "popping")
  BY <1>3 DEF Place
<1>5. TypeOK'
  BY <1>1, <1>2, <1>4 DEF IInv, TypeOK, Place
<1>6. Phases'
  BY <1>1 DEF IInv, Phases
<1>7. Handled'
  BY <1>1, <1>4 DEF IInv, Handled
<1>8. SameHands
  BY <1>1, <1>4 DEF SameHands
<1>9. InRound' = InRound
  BY <1>1 DEF InRound
<1> QED
  BY <1>1, <1>2, <1>5, <1>6, <1>7, <1>8, <1>9, HandsStep

(* A map goes from the queue into the hands of a worker.                    *)
LEMMA PopRequestStep ==
  ASSUME IInv, NEW w \in Worker, PopRequest(w)
  PROVE  IInv'
<1> USE DEF PopRequest
<1> DEFINE m == Head(queue)
<1>1. UNCHANGED <<main, todo, instances, condemned, children, pending, token, shutdown,
                  updated>>
  BY DEF world
<1>2. /\ m \in Map /\ queue' \in Seq(Map) /\ Len(queue') = Len(queue) - 1
      /\ Elements(queue) = Elements(queue') \cup {m}
      /\ Distinct(queue') /\ m \notin Elements(queue')
  BY TailElements DEF IInv, TypeOK, Once
<1> HIDE DEF m
<1>3. /\ request' = [request EXCEPT ![w] = m] /\ at' = [at EXCEPT ![w] = "popped"]
      /\ at[w] = "popping"
  BY DEF m
<1>4. m # None /\ request[w] = None
  BY <1>2, <1>3, UpdaterAssumption DEF IInv, Handled, Map, UpdaterAssumption
<1>5. /\ at \in [Worker -> Place] /\ request \in [Worker -> Map \cup {None}]
      /\ queue \in Seq(Map)
  BY DEF IInv, TypeOK, Place
<1>6. \A v \in Worker : /\ request'[v] = IF v = w THEN m ELSE request[v]
                        /\ at'[v] = IF v = w THEN "popped" ELSE at[v]
  BY <1>3, <1>5
<1>7. Requested' = Requested \cup {w} /\ w \notin Requested
  BY <1>4, <1>6 DEF Requested
<1>8. TypeOK'
  <2>1. IsFiniteSet(Requested) /\ Cardinality(Requested) \in Nat
    BY <1>5, RequestsFinite DEF Requested
  <2>2. Cardinality(Requested') = Cardinality(Requested) + 1
    BY <1>7, <2>1, FS_AddElement
  <2>3. Len(queue) \in Nat /\ Len(queue') = Len(queue) - 1
    BY <1>2, <1>5
  <2>4. pending' = Len(queue') + Cardinality(Requested')
    BY <1>1, <2>1, <2>2, <2>3 DEF IInv, TypeOK, Requested
  <2>5. pending' = Len(queue') + Cardinality({v \in Worker : request'[v] # None})
    BY <2>4 DEF Requested
  <2>6. at' \in [Worker -> Place] /\ request' \in [Worker -> Map \cup {None}]
    BY <1>2, <1>3, <1>5 DEF Place
  <2> QED
    BY <1>1, <1>2, <2>5, <2>6 DEF IInv, TypeOK, Place
<1>9. Handled'
  BY <1>1, <1>3, <1>4, <1>6 DEF IInv, Handled
<1>10. Phases'
  BY <1>1 DEF IInv, Phases
<1>11. Popped' = Popped \cup {m} /\ Running' = Running
  <2>1. \A v \in Worker : v # w => request'[v] = request[v] /\ at'[v] = at[v]
    BY <1>6
  <2>2. request'[w] = m /\ at'[w] = "popped"
    BY <1>6
  <2> QED
    BY <1>3, <1>7, <2>1, <2>2 DEF Popped, Running, Updating, Requested
<1>12. Once'
  <2>1. m \notin todo /\ m \notin Popped
    BY <1>2 DEF IInv, Once
  <2>2. \A v \in Requested : request[v] = m => at[v] # "popped"
    BY <2>1 DEF Popped
  <2>3. Singly'
    BY <1>4, <1>6, <1>7, <2>2 DEF IInv, Once, Singly
  <2>4. /\ todo' \cap Elements(queue)' = {}
        /\ (todo' \cup Elements(queue)') \cap Popped' = {}
    BY <1>1, <1>2, <1>11, <2>1 DEF IInv, Once, Elements
  <2> QED
    BY <1>2, <2>3, <2>4 DEF Once, Singly, Distinct
<1>13. InOnePlace'
  <2>1. Ahead' = Ahead
    BY <1>1, <1>2, <1>11 DEF Ahead, Elements
  <2>2. Visited' = Visited /\ InRound' = InRound
    BY <1>1 DEF Visited, InRound
  <2> QED
    BY <1>1, <1>11, <2>1, <2>2 DEF IInv, InOnePlace
<1> QED
  BY <1>8, <1>9, <1>10, <1>12, <1>13 DEF IInv

(* A worker begins with the update of the map it has popped.                *)
LEMMA StartUpdateMoves ==
  ASSUME IInv, NEW w \in Worker, StartUpdate(w)
  PROVE  /\ UNCHANGED <<main, todo, instances, condemned, request, queue, pending,
                        token, shutdown, updated>>
         /\ w \in Requested /\ request[w] \in Map /\ request[w] \in Ahead
         /\ at' \in [Worker -> Place] /\ children' \in [Worker -> SUBSET Instance]
         /\ \A v \in Worker : at'[v] = IF v = w THEN "updating" ELSE at[v]
         /\ Popped' = Popped \ {request[w]} /\ Running' = Running \cup {request[w]}
         /\ Ahead' = Ahead \ {request[w]}
         /\ Visited' = Visited \cup {i \in instances : Parent[i] = request[w]}
         /\ \A v \in Worker :
              children'[v] = IF v = w THEN {i \in instances : Parent[i] = request[w]}
                                      ELSE children[v]
<1> DEFINE I == {i \in instances : Parent[i] = request[w]}
<1>1. UNCHANGED <<main, todo, instances, condemned, request, queue, pending,
                  token, shutdown, updated>>
  BY DEF StartUpdate, world, shared
<1>2. /\ at \in [Worker -> Place] /\ request \in [Worker -> Map \cup {None}]
      /\ children \in [Worker -> SUBSET Instance] /\ instances \subseteq Instance
  BY DEF IInv, TypeOK, Place
<1>3. w \in Requested /\ request[w] \in Map /\ children[w] = {}
  BY <1>2 DEF StartUpdate, IInv, Handled, Requested
<1>4. at' \in [Worker -> Place] /\ children' \in [Worker -> SUBSET Instance]
  BY <1>2 DEF StartUpdate, Place
<1>5. \A v \in Worker : /\ at'[v] = IF v = w THEN "updating" ELSE at[v]
                        /\ children'[v] = IF v = w THEN I ELSE children[v]
  BY <1>2 DEF StartUpdate
<1>6. at[w] = "popped" /\ request[w] \in Popped
  BY <1>3 DEF StartUpdate, Popped
<1>7. \A v \in Requested : at[v] = "popped" /\ request[v] = request[w] => v = w
  BY <1>3, <1>6 DEF IInv, Once
<1>8. Popped' = Popped \ {request[w]}
  <2>1. \A v \in Requested : at'[v] = "popped" <=> at[v] = "popped" /\ v # w
    BY <1>5, <1>6 DEF Requested
  <2>2. Requested' = Requested /\ request' = request
    BY <1>1 DEF Requested
  <2> QED
    BY <1>3, <1>6, <1>7, <2>1, <2>2 DEF Popped
<1>9. Running' = Running \cup {request[w]}
  <2>1. Updating' = Updating \cup {w}
    BY <1>5 DEF Updating
  <2> QED
    BY <1>1, <2>1 DEF Running
<1>10. Ahead' = Ahead \ {request[w]} /\ request[w] \in Ahead
  BY <1>1, <1>6, <1>8 DEF Ahead, IInv, Once
<1>11. Visited' = Visited \cup I
  <2>1. children'[w] = I /\ \A v \in Worker \ {w} : children'[v] = children[v]
    BY <1>5
  <2> HIDE DEF I
  <2> QED
    BY <1>3, <2>1 DEF Visited
<1> QED
  BY <1>1, <1>3, <1>4, <1>5, <1>8, <1>9, <1>10, <1>11

LEMMA StartUpdateStep ==
  ASSUME IInv, NEW w \in Worker, StartUpdate(w)
  PROVE  IInv'
<1> DEFINE m == request[w]
           I == {i \in instances : Parent[i] = m}
<1>1. /\ UNCHANGED <<main, todo, instances, condemned, request, queue, pending,
                     token, shutdown, updated>>
      /\ w \in Requested /\ m \in Map /\ m \in Ahead
      /\ at' \in [Worker -> Place] /\ children' \in [Worker -> SUBSET Instance]
      /\ \A v \in Worker : at'[v] = IF v = w THEN "updating" ELSE at[v]
      /\ Popped' = Popped \ {m} /\ Running' = Running \cup {m}
      /\ Ahead' = Ahead \ {m} /\ Visited' = Visited \cup I
      /\ \A v \in Worker : children'[v] = IF v = w THEN I ELSE children[v]
  BY StartUpdateMoves
<1> HIDE DEF m
<1>2. TypeOK'
  BY <1>1 DEF IInv, TypeOK, Place
<1>3. Phases'
  BY <1>1 DEF IInv, Phases
<1>4. Handled'
  BY <1>1 DEF IInv, Handled, Requested, m
<1>5. Once'
  <2>1. m \notin Running
    BY <1>1 DEF IInv, InOnePlace, Apart
  <2>2. \A v \in Worker : at[v] = "updating" => request[v] # m
    BY <2>1 DEF Running, Updating
  <2>3. Singly'
    BY <1>1, <2>2 DEF IInv, Once, Singly, Requested, m
  <2> QED
    BY <1>1, <2>3 DEF IInv, Once, Singly
<1>6. InOnePlace'
  <2>1. InRound' = InRound
    BY <1>1 DEF InRound
  <2>2. instances \in SUBSET Instance
    BY DEF IInv, TypeOK
  <2>3. Ahead \subseteq Base \cup instances
    BY DEF IInv, InOnePlace
  <2>4. /\ Apart(Ahead', Running', Visited', updated', condemned')
        /\ ParentsFirst(Ahead', Running', Visited', updated', condemned')
        /\ NoneForgotten(Ahead, Running, Visited, updated, condemned, instances)
             => NoneForgotten(Ahead', Running', Visited', updated', condemned', instances')
    <3>1. /\ Apart(Ahead \ {m}, Running \cup {m}, Visited \cup I, updated, condemned)
          /\ ParentsFirst(Ahead \ {m}, Running \cup {m}, Visited \cup I, updated,
                          condemned)
          /\ NoneForgotten(Ahead, Running, Visited, updated, condemned, instances)
               => NoneForgotten(Ahead \ {m}, Running \cup {m}, Visited \cup I, updated,
                                condemned, instances)
      BY <1>1, <2>2, <2>3, BeginMoves DEF IInv, InOnePlace
    <3> QED
      BY <1>1, <3>1
  <2> QED
    BY <1>1, <2>1, <2>4 DEF IInv, InOnePlace
<1> QED
  BY <1>2, <1>3, <1>4, <1>5, <1>6 DEF IInv

(* An instance that is to be unloaded is condemned instead of scheduled.    *)
LEMMA CondemnMovesMap ==
  ASSUME IInv, NEW w \in Worker, NEW i \in Instance, Condemn(w, i)
  PROVE  /\ UNCHANGED <<main, todo, instances, at, request, queue, pending, token,
                        shutdown, updated>>
         /\ w \in Requested /\ i \in Visited /\ i \in instances
         /\ children' \in [Worker -> SUBSET Instance]
         /\ \A v \in Worker : children'[v] \subseteq children[v]
         /\ Ahead' = Ahead /\ Running' = Running /\ Popped' = Popped
         /\ Visited' = Visited \ {i} /\ condemned' = condemned \cup {i}
<1>1. /\ i \in children[w] /\ children' = [children EXCEPT ![w] = children[w] \ {i}]
      /\ UNCHANGED <<main, todo, instances, at, request, queue, pending, token, shutdown,
                     updated>>
      /\ condemned' = condemned \cup {i}
  BY DEF Condemn, world, shared
<1>2. /\ i \in instances /\ w \in Requested
      /\ \A v \in Worker : i \in children[v] => v = w
  BY <1>1, OneVisitor
<1>3. children \in [Worker -> SUBSET Instance]
  BY DEF IInv, TypeOK
<1>4. /\ children' \in [Worker -> SUBSET Instance]
      /\ \A v \in Worker : children'[v] \subseteq children[v]
  BY <1>1, <1>3
<1>5. i \in Visited /\ Visited' = Visited \ {i}
  BY <1>1, <1>2, <1>3 DEF Visited
<1>6. Popped' = Popped /\ Running' = Running /\ Ahead' = Ahead
  BY <1>1 DEF Popped, Running, Ahead, Requested, Updating
<1> QED
  BY <1>1, <1>2, <1>4, <1>5, <1>6

LEMMA CondemnStep ==
  ASSUME IInv, NEW w \in Worker, NEW i \in Instance, Condemn(w, i)
  PROVE  IInv'
<1>1. /\ UNCHANGED <<main, todo, instances, at, request, queue, pending, token,
                     shutdown, updated>>
      /\ w \in Requested /\ i \in Visited /\ i \in instances
      /\ children' \in [Worker -> SUBSET Instance]
      /\ \A v \in Worker : children'[v] \subseteq children[v]
      /\ Ahead' = Ahead /\ Running' = Running /\ Popped' = Popped
      /\ Visited' = Visited \ {i} /\ condemned' = condemned \cup {i}
  BY CondemnMovesMap
<1>2. TypeOK' /\ Handled'
  BY <1>1 DEF IInv, TypeOK, Handled
<1>3. Phases'
  <2>1. pending # 0 /\ InRound
    BY <1>1, BusyInRound
  <2> QED
    BY <1>1, <2>1 DEF IInv, Phases, InRound
<1>4. Once'
  BY <1>1 DEF IInv, Once, Requested
<1>5. InOnePlace'
  <2>1. InRound' = InRound
    BY <1>1 DEF InRound
  <2>2. /\ Apart(Ahead, Running, Visited \ {i}, updated, condemned \cup {i})
        /\ ParentsFirst(Ahead, Running, Visited \ {i}, updated, condemned \cup {i})
        /\ NoneForgotten(Ahead, Running, Visited, updated, condemned, instances)
             => NoneForgotten(Ahead, Running, Visited \ {i}, updated, condemned \cup {i},
                              instances)
    BY <1>1, CondemnMoves DEF IInv, InOnePlace
  <2> QED
    BY <1>1, <2>1, <2>2 DEF IInv, InOnePlace
<1> QED
  BY <1>2, <1>3, <1>4, <1>5 DEF IInv

(* The update of a map is over.                                             *)
LEMMA EndUpdateMoves ==
  ASSUME IInv, NEW w \in Worker, EndUpdate(w)
  PROVE  /\ UNCHANGED <<main, todo, instances, condemned, request, children, queue,
                        pending, token, shutdown>>
         /\ request[w] \in Map /\ request[w] \in Running
         /\ at' \in [Worker -> Place] /\ children[w] = {}
         /\ \A v \in Worker : at'[v] = IF v = w THEN "finishing" ELSE at[v]
         /\ at[w] = "updating"
         /\ Ahead' = Ahead /\ Popped' = Popped /\ Visited' = Visited
         /\ Running' = Running \ {request[w]} /\ updated' = updated \cup {request[w]}
<1>1. /\ UNCHANGED <<main, todo, instances, condemned, request, children, queue,
                     pending, token, shutdown>>
      /\ at[w] = "updating" /\ children[w] = {}
      /\ updated' = updated \cup {request[w]}
  BY DEF EndUpdate, world, shared
<1>2. at \in [Worker -> Place] /\ request \in [Worker -> Map \cup {None}]
  BY DEF IInv, TypeOK, Place
<1>3. /\ at' \in [Worker -> Place]
      /\ \A v \in Worker : at'[v] = IF v = w THEN "finishing" ELSE at[v]
  BY <1>2 DEF EndUpdate, Place
<1>4. request[w] \in Map /\ w \in Requested /\ request[w] \in Running
  BY <1>1, <1>2 DEF IInv, Handled, Requested, Running, Updating
<1>5. \A v \in Updating : v \in Requested
  BY DEF IInv, Handled, Requested, Updating
<1>6. \A v \in Updating : request[v] = request[w] => v = w
  BY <1>1, <1>4, <1>5 DEF IInv, Once, Updating
<1>7. Updating' = Updating \ {w} /\ w \in Updating
  BY <1>1, <1>3 DEF Updating
<1>8. Running' = Running \ {request[w]}
  BY <1>1, <1>6, <1>7 DEF Running
<1>9. \A v \in Worker : at'[v] = "popped" <=> at[v] = "popped"
  BY <1>1, <1>3
<1>10. Popped' = Popped /\ Ahead' = Ahead /\ Visited' = Visited
  BY <1>1, <1>9 DEF Popped, Requested, Ahead, Visited
<1> QED
  BY <1>1, <1>3, <1>4, <1>8, <1>10

LEMMA EndUpdateStep ==
  ASSUME IInv, NEW w \in Worker, EndUpdate(w)
  PROVE  IInv'
<1> DEFINE m == request[w]
<1>1. /\ UNCHANGED <<main, todo, instances, condemned, request, children, queue,
                     pending, token, shutdown>>
      /\ m \in Map /\ m \in Running
      /\ at' \in [Worker -> Place] /\ children[w] = {}
      /\ \A v \in Worker : at'[v] = IF v = w THEN "finishing" ELSE at[v]
      /\ at[w] = "updating"
      /\ Ahead' = Ahead /\ Popped' = Popped /\ Visited' = Visited
      /\ Running' = Running \ {m} /\ updated' = updated \cup {m}
  BY EndUpdateMoves
<1> HIDE DEF m
<1>2. TypeOK' /\ Handled' /\ Phases'
  BY <1>1 DEF IInv, TypeOK, Place, Handled, Phases
<1>3. Once'
  BY <1>1 DEF IInv, Once, Requested
<1>4. InOnePlace'
  <2>1. InRound' = InRound
    BY <1>1 DEF InRound
  <2>2. /\ Apart(Ahead, Running \ {m}, Visited, updated \cup {m}, condemned)
        /\ ParentsFirst(Ahead, Running \ {m}, Visited, updated \cup {m}, condemned)
        /\ NoneForgotten(Ahead, Running, Visited, updated, condemned, instances)
             => NoneForgotten(Ahead, Running \ {m}, Visited, updated \cup {m}, condemned,
                              instances)
    BY <1>1, EndMoves DEF IInv, InOnePlace
  <2> QED
    BY <1>1, <2>1, <2>2 DEF IInv, InOnePlace
<1> QED
  BY <1>2, <1>3, <1>4 DEF IInv

(* The request is counted off and deleted.                                  *)
LEMMA FinishStep ==
  ASSUME IInv, NEW w \in Worker, Finish(w)
  PROVE  IInv'
<1> USE DEF Finish
<1>1. /\ UNCHANGED <<todo, instances, condemned, children, queue, token, shutdown,
                     updated>>
      /\ at[w] = "finishing"
      /\ main' = IF main = "asleep" THEN "waiting" ELSE main
      /\ pending' = pending - 1
  OBVIOUS
<1>2. at \in [Worker -> Place] /\ request \in [Worker -> Map \cup {None}]
  BY DEF IInv, TypeOK, Place
<1>3. /\ at' \in [Worker -> Place] /\ request' \in [Worker -> Map \cup {None}]
      /\ \A v \in Worker : /\ at'[v] = IF v = w THEN "popping" ELSE at[v]
                           /\ request'[v] = IF v = w THEN None ELSE request[v]
  BY <1>2 DEF Place
<1>4. w \in Requested
  BY <1>1 DEF IInv, Handled, Requested
<1>5. pending # 0 /\ InRound
  BY <1>4, BusyInRound
<1>6. TypeOK'
  <2>1. IsFiniteSet(Requested) /\ Cardinality(Requested) \in Nat
    BY <1>2, RequestsFinite DEF Requested
  <2>2. Requested' = Requested \ {w}
    BY <1>3 DEF Requested
  <2>3. Cardinality(Requested') = Cardinality(Requested) - 1
    BY <1>4, <2>1, <2>2, FS_RemoveElement
  <2>4. Len(queue) \in Nat /\ pending = Len(queue) + Cardinality(Requested)
    BY DEF IInv, TypeOK, Requested
  <2>5. pending' = Len(queue') + Cardinality(Requested')
    BY <1>1, <2>1, <2>3, <2>4
  <2>6. pending' = Len(queue') + Cardinality({v \in Worker : request'[v] # None})
    BY <2>5 DEF Requested
  <2> QED
    BY <1>1, <1>3, <2>6 DEF IInv, TypeOK, Place
<1>7. Handled'
  BY <1>1, <1>3 DEF IInv, Handled
<1>8. Phases'
  BY <1>1, <1>5 DEF IInv, Phases, InRound
<1>9. SameHands
  BY <1>1, <1>3 DEF SameHands
<1>10. InRound' = InRound
  BY <1>1, <1>5 DEF InRound
<1> QED
  BY <1>1, <1>6, <1>7, <1>8, <1>9, <1>10, HandsStep

-----------------------------------------------------------------------------
LEMMA StutterKeeps ==
  ASSUME IInv, UNCHANGED vars
  PROVE  IInv'
<1>1. UNCHANGED <<main, todo, instances, condemned, at, request, children, queue,
                  pending, token, shutdown, updated>>
  BY DEF vars
<1>2. /\ Popped' = Popped /\ Running' = Running /\ Ahead' = Ahead
      /\ Visited' = Visited /\ InRound' = InRound
  BY <1>1 DEF Popped, Running, Ahead, Visited, InRound, Requested, Updating
<1> QED
  BY <1>1, <1>2 DEF IInv, TypeOK, Handled, Phases, Once, InOnePlace, Requested

LEMMA NextHolds == IInv /\ [Next]_vars => IInv'
<1> SUFFICES ASSUME IInv, [Next]_vars PROVE IInv'
  OBVIOUS
<1>1. CASE MainSteps
  <2>1. CASE \E m \in Base : ScheduleBase(m)
    BY <2>1, ScheduleBaseStep
  <2>2. CASE StartWait \/ WaitSleep \/ WaitEnd \/ Join
    BY <2>2, WaitSteps
  <2>3. CASE Cancel
    BY <2>3, CancelStep
  <2>4. CASE \E destroyed \in SUBSET condemned : EndRound(destroyed)
    BY <2>4, AloneSteps
  <2> QED
    BY <1>1, <2>1, <2>2, <2>3, <2>4 DEF MainSteps
<1>2. CASE (\E i \in Instance : CreateInstance(i)) \/ Stop
  BY <1>2, AloneSteps
<1>3. CASE StartRound
  BY <1>3, StartRoundStep
<1>4. CASE MainWakes
  BY <1>4, WaitSteps
<1>5. CASE Stopped \/ UNCHANGED vars
  BY <1>5, StutterKeeps DEF Stopped
<1>6. ASSUME NEW w \in Worker, WorkerSteps(w) \/ WorkerWakes(w)
      PROVE  IInv'
  <2>1. CASE PopNothing(w) \/ PopSleep(w) \/ WorkerWakes(w) \/ Leave(w)
    BY <2>1, WaitingSteps
  <2>2. CASE PopRequest(w)
    BY <2>2, PopRequestStep
  <2>3. CASE StartUpdate(w)
    BY <2>3, StartUpdateStep
  <2>4. CASE \E i \in Instance : ScheduleInstance(w, i) \/ Condemn(w, i)
    BY <2>4, ScheduleInstanceStep, CondemnStep
  <2>5. CASE EndUpdate(w) \/ Finish(w)
    BY <2>5, EndUpdateStep, FinishStep
  <2> QED
    BY <1>6, <2>1, <2>2, <2>3, <2>4, <2>5 DEF WorkerSteps
<1> QED
  BY <1>1, <1>2, <1>3, <1>4, <1>5, <1>6 DEF Next

(* The invariant behind the others holds in every reachable state.          *)
THEOREM InvariantHolds == Spec => []IInv
BY InitHolds, NextHolds, PTL DEF Spec

(* pending_requests counts exactly the requests in the queue and in the     *)
(* hands of workers, so MapUpdater::wait neither returns early nor hangs    *)
(* for a request that does not exist.                                       *)
THEOREM CountIsExact == Spec => []TypeOK
<1>1. IInv => TypeOK
  BY DEF IInv
<1> QED
  BY <1>1, InvariantHolds, PTL

-----------------------------------------------------------------------------
(* Rounds: what the rest of the server sees.                               *)

LEMMA InitMaps == Init => Rounds!Init
BY DEF Init, Rounds!Init, InRound, Updating, Map

(* What is updated is Running; loaded maps are what they were.              *)
LEMMA StutterMaps ==
  ASSUME InRound' = InRound, Running' = Running,
         UNCHANGED <<instances, updated, condemned>>
  PROVE  UNCHANGED Rounds!vars
BY DEF Rounds!vars, Running

(* Between rounds.                                                          *)
LEMMA AloneMaps ==
  ASSUME IInv,
         \/ \E i \in Instance : CreateInstance(i)
         \/ \E destroyed \in SUBSET condemned : EndRound(destroyed)
         \/ Stop \/ StartRound
  PROVE  Rounds!Next
<1>1. UNCHANGED <<at, request>>
  BY DEF CreateInstance, EndRound, Stop, StartRound, thread
<1>2. {request[w] : w \in Updating}' = {request[w] : w \in Updating}
  BY <1>1 DEF Updating
<1>3. ~ token
  BY DEF CreateInstance, EndRound, Stop, StartRound, IInv, Phases
<1>4. InRound = FALSE
  BY DEF CreateInstance, EndRound, Stop, StartRound, InRound
<1>5. Base \cap Instance = {} /\ instances \subseteq Instance /\ condemned \subseteq instances
  BY UpdaterAssumption DEF UpdaterAssumption, IInv, TypeOK
<1>6. ASSUME NEW i \in Instance, CreateInstance(i) PROVE Rounds!Next
  <2>1. InRound' = FALSE /\ Base \cup instances' = (Base \cup instances) \cup {i} /\ i \in Map
        /\ UNCHANGED <<updated, condemned>>
    BY <1>6 DEF CreateInstance, InRound, Map
  <2>2. Rounds!Load(i)
    BY <1>2, <1>4, <2>1 DEF Rounds!Load
  <2> QED
    BY <2>1, <2>2 DEF Rounds!Next
<1>7. ASSUME NEW M \in SUBSET instances, instances' = instances \ M, condemned' = {},
             InRound' = FALSE, updated' = updated
      PROVE  Rounds!Next
  <2>1. Base \cup instances' = (Base \cup instances) \ M /\ M \in SUBSET Map
    BY <1>5, <1>7 DEF Map
  <2>2. Rounds!Unload(M)
    BY <1>2, <1>4, <1>7, <2>1 DEF Rounds!Unload
  <2> QED
    BY <2>1, <2>2 DEF Rounds!Next
<1>8. ASSUME NEW destroyed \in SUBSET condemned, EndRound(destroyed) PROVE Rounds!Next
  <2>1. instances' = instances \ destroyed /\ condemned' = {} /\ InRound' = FALSE /\ updated' = updated
    BY <1>8 DEF EndRound, InRound
  <2> QED
    BY <1>5, <1>7, <2>1
<1>9. CASE Stop
  <2>1. instances' = instances \ instances /\ condemned' = {} /\ InRound' = FALSE /\ updated' = updated
    BY <1>9 DEF Stop, InRound
  <2> QED
    BY <1>7, <2>1
<1>10. CASE StartRound
  <2>1. InRound' = TRUE /\ condemned = {} /\ UNCHANGED <<instances, condemned>> /\ updated' = {}
    BY <1>3, <1>10 DEF StartRound, InRound, IInv, Phases
  <2>2. Rounds!Begin
    BY <1>2, <1>4, <2>1 DEF Rounds!Begin
  <2> QED
    BY <2>2 DEF Rounds!Next
<1> QED
  BY <1>6, <1>8, <1>9, <1>10

(* The world thread returns from wait when every map was updated or         *)
(* condemned.                                                               *)
LEMMA WaitEndMaps ==
  ASSUME IInv, WaitEnd
  PROVE  Rounds!Next
<1>1. /\ main = "waiting" /\ pending = 0 /\ ~ token /\ InRound /\ InRound' = FALSE
      /\ UNCHANGED <<instances, condemned, at, request, updated>>
  BY DEF WaitEnd, thread, InRound
<1>2. Elements(queue) = {} /\ Popped = {} /\ Running = {} /\ Visited = {} /\ todo = {}
  BY <1>1, NothingThere DEF IInv, Phases
<1>3. Ahead = {}
  BY <1>2 DEF Ahead
<1>4. NoneForgotten({}, {}, {}, updated, condemned, instances)
  BY <1>1, <1>2, <1>3 DEF IInv, InOnePlace
<1>5. Base \cup instances \subseteq updated \cup condemned
  BY <1>4 DEF NoneForgotten
<1>6. {request[w] : w \in Updating}' = {request[w] : w \in Updating}
  BY <1>1 DEF Updating
<1>7. {request[w] : w \in Updating} = {}
  BY <1>2 DEF Running
<1>8. Rounds!End
  BY <1>1, <1>5, <1>6, <1>7 DEF Rounds!End
<1> QED
  BY <1>8 DEF Rounds!Next

(* The steps of a worker that start, skip and finish an update.             *)
LEMMA StartUpdateMaps ==
  ASSUME IInv, NEW w \in Worker, StartUpdate(w)
  PROVE  Rounds!Next
<1>1. PICK m \in Map :
        /\ UNCHANGED <<main, instances, condemned, token, updated>>
        /\ w \in Requested /\ m \in Ahead
        /\ Running' = Running \cup {m}
  BY StartUpdateMoves
<1>2. InRound /\ InRound' = InRound
  BY <1>1, BusyInRound DEF InRound
<1>3. m \in (Base \cup instances) \ (Running \cup updated \cup condemned)
  BY <1>1 DEF IInv, InOnePlace, Apart
<1>4. Rounds!Start(m)
  BY <1>1, <1>2, <1>3 DEF Rounds!Start, Running
<1> QED
  BY <1>1, <1>4 DEF Rounds!Next

LEMMA CondemnMaps ==
  ASSUME IInv, NEW w \in Worker, NEW i \in Instance, Condemn(w, i)
  PROVE  Rounds!Next
<1>1. /\ UNCHANGED <<main, instances, token, updated>>
      /\ w \in Requested /\ i \in Visited /\ i \in instances
      /\ Running' = Running /\ condemned' = condemned \cup {i}
  BY CondemnMovesMap
<1>2. InRound /\ InRound' = InRound
  BY <1>1, BusyInRound DEF InRound
<1>3. i \notin Running \cup updated
  BY <1>1 DEF IInv, InOnePlace, Apart
<1>4. Rounds!Skip(i)
  BY <1>1, <1>2, <1>3 DEF Rounds!Skip, Running
<1> QED
  BY <1>4 DEF Rounds!Next, Map

LEMMA EndUpdateMaps ==
  ASSUME IInv, NEW w \in Worker, EndUpdate(w)
  PROVE  Rounds!Next
<1>1. PICK m \in Map :
        /\ UNCHANGED <<main, instances, condemned, token>>
        /\ m \in Running
        /\ Running' = Running \ {m} /\ updated' = updated \cup {m}
  BY EndUpdateMoves
<1>2. InRound' = InRound
  BY <1>1 DEF InRound
<1>3. Rounds!Finish(m)
  BY <1>1, <1>2 DEF Rounds!Finish, Running
<1> QED
  BY <1>1, <1>3 DEF Rounds!Next

(* All others are steps on the way that nobody else sees.                   *)
LEMMA HiddenWorkerSteps ==
  ASSUME IInv, NEW w \in Worker,
         \/ PopRequest(w) \/ PopNothing(w) \/ PopSleep(w) \/ WorkerWakes(w)
         \/ Leave(w) \/ Finish(w)
  PROVE  UNCHANGED Rounds!vars
<1>1. UNCHANGED <<instances, updated, condemned, token>>
  BY DEF PopRequest, PopNothing, PopSleep, WorkerWakes, Leave, Finish, world
<1>2. InRound' = InRound
  BY <1>1 DEF PopRequest, PopNothing, PopSleep, WorkerWakes, Leave, Finish, world, InRound
<1>3. at \in [Worker -> Place] /\ request \in [Worker -> Map \cup {None}]
  BY DEF IInv, TypeOK, Place
<1>4. /\ at[w] # "updating" /\ at'[w] # "updating"
      /\ \A v \in Worker \ {w} : at'[v] = at[v] /\ request'[v] = request[v]
  BY <1>3 DEF PopRequest, PopNothing, PopSleep, WorkerWakes, Leave, Finish
<1>5. Updating' = Updating /\ \A v \in Updating : request'[v] = request[v]
  BY <1>4 DEF Updating
<1>6. Running' = Running
  BY <1>5 DEF Running
<1> QED
  BY <1>1, <1>2, <1>6, StutterMaps

LEMMA HiddenMainSteps ==
  ASSUME IInv, StartWait \/ WaitSleep \/ MainWakes \/ Join \/ Cancel \/ UNCHANGED vars
  PROVE  UNCHANGED Rounds!vars
<1>1. UNCHANGED <<instances, updated, condemned, request, token>>
  BY DEF StartWait, WaitSleep, MainWakes, Join, Cancel, vars, thread
<1>2. InRound' = InRound
  BY <1>1 DEF StartWait, WaitSleep, MainWakes, Join, Cancel, vars, InRound
<1>3. \A v \in Worker : at'[v] = "updating" <=> at[v] = "updating"
  BY DEF StartWait, WaitSleep, MainWakes, Join, Cancel, vars, thread
<1>4. Running' = Running
  BY <1>1, <1>3 DEF Running, Updating
<1> QED
  BY <1>1, <1>2, <1>4, StutterMaps

(* schedule_update fills the queue, which nobody else sees either.          *)
LEMMA HiddenSchedule ==
  ASSUME IInv,
         \/ \E m \in Base : ScheduleBase(m)
         \/ \E w \in Worker, i \in Instance : ScheduleInstance(w, i)
  PROVE  UNCHANGED Rounds!vars
<1>1. PICK m \in Map : Schedule(m)
  BY DEF ScheduleBase, ScheduleInstance, Map
<1>2. /\ UNCHANGED <<main, instances, condemned, updated, token, request>>
      /\ NotifyOne(at)
  BY <1>1 DEF ScheduleBase, ScheduleInstance, Schedule, world
<1>3. \A v \in Worker : at'[v] = "updating" <=> at[v] = "updating"
  BY <1>2, NotifyKeeps DEF IInv
<1>4. Running' = Running /\ InRound' = InRound
  BY <1>2, <1>3 DEF Running, Updating, InRound
<1> QED
  BY <1>2, <1>4, StutterMaps

LEMMA StepMaps == IInv /\ [Next]_vars => [Rounds!Next]_Rounds!vars
<1> SUFFICES ASSUME IInv, [Next]_vars PROVE [Rounds!Next]_Rounds!vars
  OBVIOUS
<1>1. CASE MainSteps
  <2>1. CASE \E m \in Base : ScheduleBase(m)
    BY <2>1, HiddenSchedule
  <2>2. CASE StartWait \/ WaitSleep \/ Join \/ Cancel
    BY <2>2, HiddenMainSteps
  <2>3. CASE WaitEnd
    BY <2>3, WaitEndMaps
  <2>4. CASE \E destroyed \in SUBSET condemned : EndRound(destroyed)
    BY <2>4, AloneMaps
  <2> QED
    BY <1>1, <2>1, <2>2, <2>3, <2>4 DEF MainSteps
<1>2. CASE (\E i \in Instance : CreateInstance(i)) \/ StartRound \/ Stop
  BY <1>2, AloneMaps
<1>3. CASE MainWakes \/ Stopped \/ UNCHANGED vars
  BY <1>3, HiddenMainSteps DEF Stopped
<1>4. ASSUME NEW w \in Worker, WorkerSteps(w) \/ WorkerWakes(w)
      PROVE  [Rounds!Next]_Rounds!vars
  <2>1. CASE \/ PopRequest(w) \/ PopNothing(w) \/ PopSleep(w) \/ WorkerWakes(w)
             \/ Leave(w) \/ Finish(w)
    BY <2>1, HiddenWorkerSteps
  <2>2. CASE StartUpdate(w)
    BY <2>2, StartUpdateMaps
  <2>3. CASE \E i \in Instance : ScheduleInstance(w, i)
    BY <2>3, HiddenSchedule
  <2>4. CASE \E i \in Instance : Condemn(w, i)
    BY <2>4, CondemnMaps
  <2>5. CASE EndUpdate(w)
    BY <2>5, EndUpdateMaps
  <2> QED
    BY <1>4, <2>1, <2>2, <2>3, <2>4, <2>5 DEF WorkerSteps
<1> QED
  BY <1>1, <1>2, <1>3, <1>4 DEF Next

(* However many workers there are, a round updates every map once and by    *)
(* one thread, and between rounds the world thread is alone with the maps:  *)
(* MapManager::Update, MapUpdater and ProducerConsumerQueue do what         *)
(* MapRounds says.                                                          *)
THEOREM UpdaterImplementsRounds == Spec => ImplementsRounds
<1>1. Init => Rounds!Init
  BY InitMaps
<1>2. IInv /\ [Next]_vars => [Rounds!Next]_Rounds!vars
  BY StepMaps
<1> QED
  BY <1>1, <1>2, InvariantHolds, PTL DEF Spec, ImplementsRounds, Rounds!Spec

=============================================================================
