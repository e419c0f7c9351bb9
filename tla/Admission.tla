----------------------------- MODULE Admission ------------------------------
(***************************************************************************)
(* How the world server admits sessions (World/World, Server/WorldSession):*)
(* one session per account, a limit of players, the queue of those who have*)
(* to wait, and those who need not because of a permission or because they *)
(* were disconnected recently.                                             *)
(*                                                                         *)
(* The network threads put authenticated sessions into addSessQueue; the   *)
(* world thread takes them out and updates the sessions, and is the only   *)
(* one to change the rest.  A session is <<account, serial>>: a serial tells*)
(* a session from the one of the same account that it replaces, and is used*)
(* again when its session is deleted.                                      *)
(***************************************************************************)
EXTENDS Integers, SequencesExt

CONSTANTS
  Account,
  Session,      \* bound: the pairs of an account and a serial
  Skips,        \* the accounts with RBAC_PERM_SKIP_QUEUE
  MaxAdding,    \* bound: sessions in addSessQueue
  Limit,        \* PlayerLimit, 0 for none
  Tolerance,    \* DisconnectToleranceInterval, 0 for none
  None

ASSUME AdmissionAssumption ==
  /\ IsFiniteSet(Account) /\ Skips \subseteq Account
  /\ Limit \in Nat /\ Tolerance \in Nat /\ MaxAdding \in Nat
  /\ IsFiniteSet(Session) /\ Session \subseteq Account \X Nat
  /\ None \notin Session

AccountOf(s) == s[1]

VARIABLES
  sessions,      \* World::m_sessions
  adding,        \* addSessQueue
  queue,         \* m_QueuedPlayer
  since,         \* m_disconnects: seconds since, up to Tolerance, or None
  open,          \* the sessions whose socket is open
  inQueue,       \* WorldSession::m_inQueue
  initializing,  \* those waiting for InitializeSessionCallback
  loading,       \* m_playerLoading
  down           \* has KickAll been called?

flags == <<open, inQueue, initializing, loading>>
vars  == <<sessions, adding, queue, since, open, inQueue, initializing, loading, down>>

Added == {s \in Session : sessions[AccountOf(s)] = s}
Known == Added \cup Range(adding)

TypeOK ==
  /\ sessions \in [Account -> Session \cup {None}]
  /\ \A a \in Account : sessions[a] # None => AccountOf(sessions[a]) = a
  /\ adding \in Seq(Session) /\ queue \in Seq(Session)
  /\ since \in [Account -> 0 .. Tolerance \cup {None}]
  /\ open \subseteq Known
  /\ inQueue \subseteq Added /\ initializing \subseteq Added /\ loading \subseteq Added
  /\ down \in BOOLEAN

Init ==
  /\ sessions = [a \in Account |-> None]
  /\ adding = <<>> /\ queue = <<>>
  /\ since = [a \in Account |-> None]
  /\ open = {} /\ inQueue = {} /\ initializing = {} /\ loading = {}
  /\ down = FALSE

-----------------------------------------------------------------------------
(* RemoveQueuedPlayer(s): what the queue becomes, when size sessions are    *)
(* known.  The first in the queue is taken out, and initialized, if without *)
(* s there are fewer active sessions than the limit.                        *)
IsQueued(q, s) == s \in Range(q)

(* The active sessions there are besides s.                                *)
Others(q, s, size) ==
  IF IsQueued(q, s) \/ size = Len(q) THEN size - Len(q) ELSE size - Len(q) - 1

HasRoom(others) == Limit = 0 \/ others < Limit

RemoveAlwaysAdmitting(q, s, size) ==
  LET rest == RemoveFirst(q, s)
  IN IF rest = <<>> THEN rest ELSE Tail(rest)

RemoveAdmittingLast(q, s, size) ==
  LET rest == RemoveFirst(q, s)
  IN IF HasRoom(Others(q, s, size)) /\ rest # <<>> THEN Front(rest) ELSE rest

RemoveCountingLeaver(q, s, size) ==
  LET rest == RemoveFirst(q, s)
  IN IF HasRoom(size - Len(q)) /\ rest # <<>> THEN Tail(rest) ELSE rest

RemoveQueuedPlayer(q, s, size) ==
  LET rest == RemoveFirst(q, s)
  IN IF HasRoom(Others(q, s, size)) /\ rest # <<>> THEN Tail(rest) ELSE rest

Size == Cardinality({a \in Account : sessions[a] # None})

(* HasRecentlyDisconnected: the time since the disconnect is computed with  *)
(* the wrong sign, so that it is always below the tolerance.                *)
HasRecentlyDisconnected(a) == Tolerance > 0 /\ since[a] # None

-----------------------------------------------------------------------------
(* The network.                                                            *)

AddSession(s) ==
  /\ s \notin Known /\ Len(adding) < MaxAdding
  /\ adding' = Append(adding, s)
  /\ open' = open \cup {s}
  /\ UNCHANGED <<sessions, queue, since, inQueue, initializing, loading, down>>

CloseSocket(s) ==
  /\ s \in open
  /\ open' = open \ {s}
  /\ UNCHANGED <<sessions, adding, queue, since, inQueue, initializing, loading, down>>

-----------------------------------------------------------------------------
(* AddSession_: the session there is for the account is removed, and the new*)
(* one queued or initialized.                                               *)

(* The sessions that are initialized when q1 is left of the queue q.        *)
Admitted(q, q1) == Range(q) \ Range(q1)

MustWait(s, others) ==
  /\ Limit > 0 /\ others >= Limit
  /\ AccountOf(s) \notin Skips /\ ~ HasRecentlyDisconnected(AccountOf(s))

RejectAfterAll ==
  LET s   == Head(adding)
      acc == AccountOf(s)
      old == sessions[acc]
  IN /\ adding # <<>> /\ old \in loading
     /\ adding' = Tail(adding)
     /\ sessions' = [sessions EXCEPT ![acc] = s]
     /\ open' = open \ {old} /\ loading' = loading \ {old}
     /\ initializing' = (initializing \ {old}) \cup {s}
     /\ UNCHANGED <<queue, since, inQueue, down>>

RejectSession ==
  LET s   == Head(adding)
      old == sessions[AccountOf(s)]
  IN /\ adding # <<>> /\ old \in loading
     /\ adding' = Tail(adding)
     /\ open' = open \ {s}
     /\ UNCHANGED <<sessions, queue, since, inQueue, initializing, loading, down>>

QueueAfterReplacingLazily(old) == queue

QueueAfterReplacing(old) ==
  IF old = None THEN queue ELSE RemoveQueuedPlayer(queue, old, Size)

(* Without the session that is replaced or counted twice.                   *)
OthersFor(old) ==
  IF old = None THEN Size
  ELSE IF IsQueued(queue, old) THEN Size ELSE Size - 1

AddSession_ ==
  LET s   == Head(adding)
      acc == AccountOf(s)
      old == sessions[acc]
      q   == QueueAfterReplacing(old)
      go  == Admitted(queue, q) \ {old}
      waits == MustWait(s, OthersFor(old))
  IN /\ adding # <<>> /\ old \notin loading
     /\ adding' = Tail(adding)
     /\ sessions' = [sessions EXCEPT ![acc] = s]
     /\ queue' = IF waits THEN Append(q, s) ELSE q
     /\ inQueue' = (inQueue \ {old}) \cup (IF waits THEN {s} ELSE {})
     /\ initializing' = ((initializing \ {old}) \cup go) \cup (IF waits THEN {} ELSE {s})
     /\ open' = open \ {old}
     /\ UNCHANGED <<since, loading, down>>

-----------------------------------------------------------------------------
(* UpdateSessions.                                                         *)

RemoveOnce(s) == RemoveQueuedPlayer(queue, s, Size)

(* RemoveQueuedPlayer is called twice.                                      *)
RemoveTwice(s) == RemoveQueuedPlayer(RemoveOnce(s), s, Size)

RemoveSession(s) ==
  /\ s \in Added /\ s \notin open
  /\ sessions' = [sessions EXCEPT ![AccountOf(s)] = None]
  /\ queue' = RemoveTwice(s)
  /\ since' = IF IsQueued(queue, s) \/ Tolerance = 0 THEN since
              ELSE [since EXCEPT ![AccountOf(s)] = 0]
  /\ inQueue' = inQueue \ {s}
  /\ initializing' = (initializing \cup Admitted(queue, RemoveTwice(s))) \ {s}
  /\ loading' = loading \ {s}
  /\ UNCHANGED <<adding, open, down>>

InitializeSessionCallback(s) ==
  /\ s \in initializing
  /\ initializing' = initializing \ {s} /\ inQueue' = inQueue \ {s}
  /\ UNCHANGED <<sessions, adding, queue, since, open, loading, down>>

(* A packet of the client, which has to wait while m_inQueue is set.        *)
HandlePlayerLogin(s) ==
  /\ s \in Added \cap open /\ s \notin inQueue \cup loading
  /\ loading' = loading \cup {s}
  /\ UNCHANGED <<sessions, adding, queue, since, open, inQueue, initializing, down>>

PlayerLoaded(s) ==
  /\ s \in loading
  /\ loading' = loading \ {s}
  /\ UNCHANGED <<sessions, adding, queue, since, open, inQueue, initializing, down>>

KickAll ==
  /\ ~ down /\ down' = TRUE
  /\ queue' = <<>>
  /\ open' = open \ Added
  /\ UNCHANGED <<sessions, adding, since, inQueue, initializing, loading>>

(* Bound: a time longer than the tolerance is the tolerance.                *)
TimePasses ==
  /\ \E a \in Account : since[a] # None /\ since[a] < Tolerance
  /\ since' = [a \in Account |-> IF since[a] = None \/ since[a] = Tolerance
                                 THEN since[a] ELSE since[a] + 1]
  /\ UNCHANGED <<sessions, adding, queue, flags, down>>

Next ==
  \/ \E s \in Session :
       \/ AddSession(s) \/ CloseSocket(s)
       \/ RemoveSession(s) \/ InitializeSessionCallback(s)
       \/ HandlePlayerLogin(s) \/ PlayerLoaded(s)
  \/ RejectSession \/ AddSession_ \/ KickAll \/ TimePasses

Spec == Init /\ [][Next]_vars

-----------------------------------------------------------------------------
(* Safety.                                                                 *)

Active == Added \ Range(queue)

(* A session is in one place: not yet added, waiting in the queue, or about *)
(* to be let in.                                                           *)
PlacesApart ==
  /\ IsInjective(adding) /\ Range(adding) \cap Added = {}
  /\ IsInjective(queue) /\ Range(queue) \subseteq Added \ initializing

(* The queue holds pointers to sessions: none of a session that was replaced*)
(* or deleted is left in it, and none is in it twice (AddSession_ and       *)
(* UpdateSessions delete sessions) or while it is being let in, nor in any  *)
(* other place where sessions are noted (TypeOK).  And a client whose       *)
(* packets are held back by m_inQueue, and who is still connected, is in the*)
(* queue or about to be let in: nobody is forgotten.                       *)
QueueIsLive ==
  /\ TypeOK
  /\ PlacesApart
  /\ \A s \in inQueue \cap open : IsQueued(queue, s) \/ s \in initializing

(* There is a queue only as long as the server is full: whoever leaves, and *)
(* however (a logout, a lost connection, a second login), makes room for the*)
(* first in the queue at once (the two calls of RemoveQueuedPlayer).        *)
FullWhileQueued == queue # <<>> => Limit > 0 /\ Cardinality(Active) >= Limit

(* The sessions that become active without a right to skip the queue leave, *)
(* with those that were active before, no more than the limit (AddSession_, *)
(* RemoveQueuedPlayer: the counts include the session that is leaving or    *)
(* being added).                                                           *)
MaySkip(s) == AccountOf(s) \in Skips \/ HasRecentlyDisconnected(AccountOf(s))

NewlyActive ==
  {s \in Active' \ Active : s \in initializing' /\ ~ MaySkip(s)}

LimitIsKept ==
  [][Limit > 0 /\ NewlyActive # {}
       => Cardinality((Active \cap Active') \cup NewlyActive) <= Limit]_vars

(* First come, first served: whoever is ahead of somebody in the queue after*)
(* a step was ahead of him before, and none of those who stay in it is ahead*)
(* of somebody who is let in (RemoveQueuedPlayer takes the front;           *)
(* AddQueuedPlayer appends).                                                *)
OrderIsKept(q, r) ==
  \A k, l \in DOMAIN r : k < l /\ r[l] \in Range(q) =>
    \E m, n \in DOMAIN q : m < n /\ q[m] = r[k] /\ q[n] = r[l]

FirstIsLetIn(q, r, A) ==
  \A n \in DOMAIN q : \A m \in 1 .. (n - 1) : q[n] \in A => q[m] \notin Range(r)

QueueIsFair ==
  [][OrderIsKept(queue, queue') /\ FirstIsLetIn(queue, queue', Active')]_vars

(* A session with an open connection whose character is being loaded is not *)
(* deleted by a second login of the account (World::RemoveSession).         *)
LoadingIsKept == [][loading \cap open \subseteq Added']_vars

(* worldserver.conf.dist, DisconnectToleranceInterval: "Tolerance (in       *)
(* seconds) for disconnected players before reentering the queue."  A       *)
(* session that is new and goes past a full server without the permission   *)
(* was disconnected less than that ago.                                    *)
Passes(s) ==
  /\ s \in Active' /\ s \notin Added /\ AccountOf(s) \notin Skips
  /\ Limit > 0 /\ Cardinality(Active') > Limit

ToleranceExpires ==
  [][\A s \in Session : Passes(s) =>
       since[AccountOf(s)] # None /\ since[AccountOf(s)] < Tolerance]_vars

=============================================================================
