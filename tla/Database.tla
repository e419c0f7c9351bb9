------------------------------ MODULE Database ------------------------------
(***************************************************************************)
(* A pool of connections to a database (DatabaseWorkerPool), its worker     *)
(* threads, and what they make of transactions and statements.             *)
(*                                                                         *)
(* Each asynchronous connection has a thread (DatabaseWorker) that takes   *)
(* operations from a common queue; a synchronous one is locked by the      *)
(* caller for as long as its operation takes.  A transaction that the      *)
(* server chooses to end a deadlock is tried again: by a worker for 60     *)
(* seconds and under a lock that only one worker holds, by a caller five   *)
(* times.  A connection that is lost is opened again on the way, and the   *)
(* statement repeated.                                                     *)
(*                                                                         *)
(* The server is external: the writer of a row locks it until its          *)
(* transaction ends, waiting goes in turn, and one transaction of a cycle  *)
(* is rolled back and told so.  START TRANSACTION is part of the step      *)
(* before it, ROLLBACK of the statement that fails.  The queue's condition *)
(* variable is the subject of MapUpdater; here a worker without work simply*)
(* does nothing.                                                           *)
(***************************************************************************)
EXTENDS Integers, Sequences, FiniteSets, Functions

CONSTANTS
  Worker,      \* _connections[IDX_ASYNC], each with its DatabaseWorker
  Sync,        \* _connections[IDX_SYNCH]
  Op,          \* operations of the callers
  Transaction, \* those of TransactionTask or DirectCommitTransaction
  Direct,      \* those executed by the caller itself
  Faulty,      \* those whose last statement the server refuses
  Row,         \* rows of the tables
  Rows,        \* the row each statement of an operation writes
  AsyncTries,  \* bound: retries a worker has time for, at least
  MaxLost,     \* bound: operations that lose their connection, once each
  None         \* no operation, no connection

DirectTries == 5  \* loopBreaker

Connection == Worker \cup Sync

ASSUME DatabaseAssumption ==
  /\ IsFiniteSet(Worker) /\ Worker # {} /\ IsFiniteSet(Sync)
  /\ Worker \cap Sync = {} /\ None \notin Connection \cup Op
  /\ Transaction \subseteq Op /\ Direct \subseteq Op /\ Faulty \subseteq Op
  /\ Rows \in [Op -> Seq(Row)]
  /\ \A o \in Op \ Transaction : Len(Rows[o]) = 1
  \* a transaction without statements is refused (-1)
  /\ \A o \in Transaction : Rows[o] = <<>> => o \in Faulty
  /\ AsyncTries \in Nat \ {0} /\ MaxLost \in Nat

VARIABLES
  main,      \* how far the thread that closes the pool is
  queue,     \* _queue
  shutdown,  \* ProducerConsumerQueue::_shutdown
  token,     \* DatabaseWorker::_cancelationToken
  at,        \* where the user of a connection is
  op,        \* its operation
  next,      \* the next statement, COMMIT being the one after the last
  tries,     \* how often it has repeated a transaction
  mutex,     \* who holds TransactionTask::_deadlockLock
  answer,    \* of each operation: its promise, or what Execute returns
  table,     \* server: the last operation that wrote a row
  open,      \* server: has the connection an open transaction?
  undo,      \* server: what the rows it has locked were before it
  lost       \* operations whose connection was lost (history)

pool   == <<main, queue, shutdown, token>>
vars   == <<pool, at, op, next, tries, mutex, answer, table, open, undo, lost>>

Busy(c) == at[c] \in {"executing", "waiting"}

OpType ==
  /\ queue \in Seq(Op)
  /\ op \in [Connection -> Op \cup {None}]
  /\ \A c \in Connection : op[c] = None <=> at[c] \in {"idle", "gone"}
  /\ next \in [Connection -> Nat \ {0}]
  /\ \A c \in Connection :
       Busy(c) => next[c] <= Len(Rows[op[c]]) + (IF op[c] \in Transaction THEN 1 ELSE 0)

(* The one worker that repeats a transaction holds the deadlock lock, and   *)
(* is neither waiting for it nor done.                                      *)
LockHeld ==
  /\ tries \in [Connection -> Nat]
  /\ \A w \in Worker : mutex = w <=> tries[w] > 0
  /\ mutex # None => mutex \in Worker /\ Busy(mutex)

(* No row is locked twice, and only by transactions in the middle of their  *)
(* statements: not while a connection waits for the deadlock lock or for    *)
(* work.                                                                    *)
Before == UNION {[R -> Op \cup {None}] : R \in SUBSET Row}

RowsLocked ==
  /\ open \in [Connection -> BOOLEAN] /\ undo \in [Connection -> Before]
  /\ \A c \in Connection :
       /\ open[c] => Busy(c)
       /\ DOMAIN undo[c] # {} => open[c]
       /\ \A d \in Connection \ {c} : DOMAIN undo[c] \cap DOMAIN undo[d] = {}

TypeOK ==
  /\ main \in {"running", "closing", "cancelling", "joining", "closed"}
  /\ shutdown \in BOOLEAN /\ token \in [Worker -> BOOLEAN]
  /\ at \in [Connection -> {"idle", "popped", "executing", "waiting",
                            "locking", "gone"}]
  /\ OpType /\ LockHeld /\ RowsLocked
  /\ answer \in [Op -> {"new", "pending", "true", "false", "dropped"}]
  /\ table \in [Row -> Op \cup {None}]
  /\ lost \subseteq Op

Init ==
  /\ main = "running" /\ queue = <<>> /\ shutdown = FALSE
  /\ token = [w \in Worker |-> FALSE]
  /\ at = [c \in Connection |-> "idle"] /\ op = [c \in Connection |-> None]
  /\ next = [c \in Connection |-> 1] /\ tries = [c \in Connection |-> 0]
  /\ mutex = None
  /\ answer = [o \in Op |-> "new"]
  /\ table = [r \in Row |-> None]
  /\ open = [c \in Connection |-> FALSE] /\ undo = [c \in Connection |-> <<>>]
  /\ lost = {}

-----------------------------------------------------------------------------
(* The server.                                                             *)

RowOf(c) == Rows[op[c]][next[c]]

Committing(c) == op[c] \in Transaction /\ next[c] > Len(Rows[op[c]])

Holds(c, r) == r \in DOMAIN undo[c]

Awaits(c, r) == at[c] = "waiting" /\ RowOf(c) = r

Locked(c) ==
  /\ next[c] \in DOMAIN Rows[op[c]]
  /\ \E d \in Connection \ {c} : Holds(d, RowOf(c))

(* Those who were told to wait come first when the lock is free.            *)
Overtakes(c) ==
  /\ at[c] = "executing"
  /\ next[c] \in DOMAIN Rows[op[c]] /\ ~ Holds(c, RowOf(c))
  /\ \E d \in Connection : Awaits(d, RowOf(c))

Blocked(c) == Locked(c) \/ Overtakes(c)

OnCycle(c) ==
  \E S \in SUBSET Connection :
    /\ c \in S
    /\ \A x \in S : /\ \E y \in S \ {x} : Awaits(x, RowOf(x)) /\ Holds(y, RowOf(x))
                    /\ \E y \in S \ {x} : Awaits(y, RowOf(y)) /\ Holds(x, RowOf(y))

(* What a row was before the transaction.                                   *)
Old(c, r) == IF Holds(c, r) THEN undo[c][r] ELSE table[r]

RolledBack(c) == [r \in Row |-> Old(c, r)]

Noted(c) == [r \in DOMAIN undo[c] \cup {RowOf(c)} |-> Old(c, r)]

Written(c) == [table EXCEPT ![RowOf(c)] = op[c]]

-----------------------------------------------------------------------------
(* One operation on a connection.                                          *)

(* Broken: the transaction goes on with the statement that failed.          *)
BeginWhereItFailed(c, o, n) ==
  /\ at' = [at EXCEPT ![c] = "executing"]
  /\ op' = [op EXCEPT ![c] = o]
  /\ next' = [next EXCEPT ![c] = IF n = 0 THEN 1 ELSE @]
  /\ tries' = [tries EXCEPT ![c] = n]
  /\ open' = [open EXCEPT ![c] = o \in Transaction]
  /\ undo' = [undo EXCEPT ![c] = <<>>]

(* Broken: the 60 seconds begin again with every retry.                     *)
BeginTimeAnew(c, o, n) ==
  /\ at' = [at EXCEPT ![c] = "executing"]
  /\ op' = [op EXCEPT ![c] = o]
  /\ next' = [next EXCEPT ![c] = 1]
  /\ tries' = [tries EXCEPT ![c] = IF n = 0 THEN 0 ELSE 1]
  /\ open' = [open EXCEPT ![c] = o \in Transaction]
  /\ undo' = [undo EXCEPT ![c] = <<>>]

(* ExecuteTransaction begins, for the n-th time again; or a single statement*)
(* is to be executed.  The server commits what is still open.               *)
Begin(c, o, n) ==
  /\ at' = [at EXCEPT ![c] = "executing"]
  /\ op' = [op EXCEPT ![c] = o]
  /\ next' = [next EXCEPT ![c] = 1]
  /\ tries' = [tries EXCEPT ![c] = n]
  /\ open' = [open EXCEPT ![c] = o \in Transaction]
  /\ undo' = [undo EXCEPT ![c] = <<>>]

(* Execute returns a, and the deadlock lock is released if it was taken.    *)
End(c, a) ==
  /\ at' = [at EXCEPT ![c] = "idle"]
  /\ op' = [op EXCEPT ![c] = None]
  /\ next' = [next EXCEPT ![c] = 1]
  /\ tries' = [tries EXCEPT ![c] = 0]
  /\ open' = [open EXCEPT ![c] = FALSE]
  /\ undo' = [undo EXCEPT ![c] = <<>>]
  /\ mutex' = IF mutex = c THEN None ELSE mutex
  /\ answer' = [answer EXCEPT ![op[c]] = a]

Tries(c) == IF c \in Worker THEN AsyncTries ELSE DirectTries

(* Only a deadlock begins the retries, which any error continues.           *)
TryAgain(c, deadlock) ==
  /\ op[c] \in Transaction
  /\ IF tries[c] = 0 THEN deadlock ELSE tries[c] < Tries(c)

(* Broken: a worker rolls back once it has the deadlock lock.               *)
AskForLockFirst(c) ==
  /\ at' = [at EXCEPT ![c] = "locking"]
  /\ UNCHANGED <<op, next, tries, open, undo>>

(* A worker rolls back before it waits for the deadlock lock.               *)
AskForLock(c) ==
  /\ at' = [at EXCEPT ![c] = "locking"]
  /\ open' = [open EXCEPT ![c] = FALSE]
  /\ undo' = [undo EXCEPT ![c] = <<>>]
  /\ UNCHANGED <<op, next, tries>>

Fail(c, deadlock) ==
  /\ table' = RolledBack(c)
  /\ IF TryAgain(c, deadlock)
     THEN /\ IF c \in Worker /\ tries[c] = 0
             THEN AskForLock(c)
             ELSE Begin(c, op[c], tries[c] + 1)
          /\ UNCHANGED <<mutex, answer>>
     ELSE End(c, "false")
  /\ UNCHANGED <<pool, lost>>

Lock(w) ==
  /\ at[w] = "locking" /\ mutex = None
  /\ mutex' = w
  /\ Begin(w, op[w], 1)
  /\ UNCHANGED <<pool, answer, table, lost>>

Await(c) ==
  /\ at[c] = "executing" /\ Locked(c)
  /\ at' = [at EXCEPT ![c] = "waiting"]
  /\ UNCHANGED <<pool, op, next, tries, mutex, answer, table, open, undo, lost>>

Refused(c) == op[c] \in Faulty /\ next[c] >= Len(Rows[op[c]])

Executable(c) == Busy(c) /\ ~ Blocked(c) /\ ~ Refused(c)

(* Execute(stmt), on its own committed at once.                             *)
Execute(c) ==
  /\ Executable(c) /\ ~ Committing(c)
  /\ table' = Written(c)
  /\ IF op[c] \notin Transaction
     THEN End(c, "true")
     ELSE /\ at' = [at EXCEPT ![c] = "executing"]
          /\ next' = [next EXCEPT ![c] = @ + 1]
          /\ undo' = IF open[c] THEN [undo EXCEPT ![c] = Noted(c)] ELSE undo
          /\ UNCHANGED <<op, tries, mutex, answer, open>>
  /\ UNCHANGED <<pool, lost>>

Commit(c) ==
  /\ Executable(c) /\ Committing(c)
  /\ End(c, "true")
  /\ UNCHANGED <<pool, table, lost>>

StatementFails(c) ==
  /\ Busy(c) /\ ~ Blocked(c) /\ Refused(c)
  /\ Fail(c, FALSE)

(* ER_LOCK_DEADLOCK.                                                        *)
Deadlock(c) ==
  /\ at[c] = "waiting" /\ OnCycle(c)
  /\ Fail(c, TRUE)

(* _HandleMySQLErrno opens the connection again, without a transaction, and *)
(* the same statement is executed once more; the server may have executed it*)
(* (committed it) before.                                                   *)
LoseConnection(c) ==
  /\ Busy(c) /\ op[c] \notin lost /\ Cardinality(lost) < MaxLost
  /\ \/ table' = RolledBack(c)
     \/ Executable(c) /\ Committing(c) /\ table' = table
     \/ Executable(c) /\ ~ open[c] /\ table' = Written(c)
  /\ at' = [at EXCEPT ![c] = "executing"]
  /\ open' = [open EXCEPT ![c] = FALSE]
  /\ undo' = [undo EXCEPT ![c] = <<>>]
  /\ lost' = lost \cup {op[c]}
  /\ UNCHANGED <<pool, op, next, tries, mutex, answer>>

-----------------------------------------------------------------------------
(* Callers, workers and the closing of the pool.                           *)

(* Execute, CommitTransaction, AsyncCommitTransaction.                      *)
Enqueue(o) ==
  /\ main = "running" /\ o \notin Direct /\ answer[o] = "new"
  /\ queue' = Append(queue, o)
  /\ answer' = [answer EXCEPT ![o] = "pending"]
  /\ UNCHANGED <<main, shutdown, token, at, op, next, tries, mutex, table, open,
                 undo, lost>>

(* DirectExecute, DirectCommitTransaction on a connection that was free.    *)
DirectCommit(c, o) ==
  /\ main = "running" /\ o \in Direct /\ answer[o] = "new"
  /\ at[c] = "idle"
  /\ Begin(c, o, 0)
  /\ answer' = [answer EXCEPT ![o] = "pending"]
  /\ UNCHANGED <<pool, mutex, table, lost>>

WaitAndPop(w) ==
  /\ at[w] = "idle" /\ queue # <<>> /\ ~ shutdown
  /\ queue' = Tail(queue)
  /\ at' = [at EXCEPT ![w] = "popped"]
  /\ op' = [op EXCEPT ![w] = Head(queue)]
  /\ UNCHANGED <<main, shutdown, token, next, tries, mutex, answer, table, open,
                 undo, lost>>

PopNothing(w) ==
  /\ at[w] = "idle" /\ shutdown
  /\ at' = [at EXCEPT ![w] = "gone"]
  /\ UNCHANGED <<pool, op, next, tries, mutex, answer, table, open, undo, lost>>

Start(w) ==
  /\ at[w] = "popped" /\ ~ token[w]
  /\ Begin(w, op[w], 0)
  /\ UNCHANGED <<pool, mutex, answer, table, lost>>

(* The worker was cancelled between WaitAndPop and its look at the token:   *)
(* the operation is neither executed nor deleted.                           *)
Leave(w) ==
  /\ at[w] = "popped" /\ token[w]
  /\ at' = [at EXCEPT ![w] = "gone"]
  /\ op' = [op EXCEPT ![w] = None]
  /\ answer' = [answer EXCEPT ![op[w]] = "dropped"]
  /\ UNCHANGED <<pool, next, tries, mutex, table, open, undo, lost>>

(* "should only be called after any other thread tasks in the core have     *)
(* exited".                                                                 *)
Close ==
  /\ main = "running" /\ \A c \in Sync : at[c] = "idle"
  /\ main' = "closing"
  /\ UNCHANGED <<queue, shutdown, token, at, op, next, tries, mutex, answer,
                 table, open, undo, lost>>

SetToken(w) ==
  /\ main = "closing" /\ ~ token[w]
  /\ token' = [token EXCEPT ![w] = TRUE]
  /\ main' = "cancelling"
  /\ UNCHANGED <<queue, shutdown, at, op, next, tries, mutex, answer, table, open,
                 undo, lost>>

CancelQueue ==
  /\ main = "cancelling"
  /\ queue' = <<>> /\ shutdown' = TRUE
  /\ answer' = [o \in Op |-> IF o \in Range(queue) THEN "dropped" ELSE answer[o]]
  /\ main' = "joining"
  /\ UNCHANGED <<token, at, op, next, tries, mutex, table, open, undo, lost>>

Join ==
  /\ main = "joining" /\ \A w \in Worker : token[w] => at[w] = "gone"
  /\ main' = IF \A w \in Worker : token[w] THEN "closed" ELSE "closing"
  /\ UNCHANGED <<queue, shutdown, token, at, op, next, tries, mutex, answer,
                 table, open, undo, lost>>

Closed == main = "closed" /\ UNCHANGED vars

-----------------------------------------------------------------------------
WorkerSteps(w) ==
  WaitAndPop(w) \/ PopNothing(w) \/ Start(w) \/ Leave(w) \/ Lock(w)

Steps(c) == Await(c) \/ Execute(c) \/ Commit(c) \/ StatementFails(c)

Closing == (\E w \in Worker : SetToken(w)) \/ CancelQueue \/ Join

Next ==
  \/ \E o \in Op : Enqueue(o)
  \/ \E c \in Sync, o \in Op : DirectCommit(c, o)
  \/ \E w \in Worker : WorkerSteps(w)
  \/ \E c \in Connection : Steps(c) \/ Deadlock(c) \/ LoseConnection(c)
  \/ Close \/ Closing \/ Closed

(* Threads are scheduled and the server serves every connection and notices *)
(* every deadlock.  Nothing need be asked, and no connection be lost.       *)
Spec ==
  /\ Init /\ [][Next]_vars
  /\ \A w \in Worker : WF_vars(WorkerSteps(w))
  /\ \A c \in Connection : WF_vars(Steps(c))
  /\ WF_vars(\E c \in Connection : Deadlock(c))
  /\ WF_vars(Closing)

-----------------------------------------------------------------------------
(* Properties.                                                             *)

(* What others can see: the table without what is still to be committed.    *)
Committed ==
  [r \in Row |->
     IF \E c \in Connection : Holds(c, r)
     THEN undo[CHOOSE c \in Connection : Holds(c, r)][r] ELSE table[r]]

Promise == INSTANCE Store WITH
  table <- Committed,
  closing <- main # "running",
  Writes <- [o \in Op |-> Range(Rows[o])],
  Mistaken <- Faulty,
  Deserted <- Direct

(* Retries after deadlocks, rollbacks and the cancelled queue leave every   *)
(* operation whole or without effect, and the answer says which; a worker   *)
(* never gives up a transaction for deadlocks alone.  Only the loss of a    *)
(* connection breaks this (Store).                                          *)
ImplementsStore == Promise!Spec

(* No circle of row locks, the deadlock lock, and the thread that joins the *)
(* workers: every operation is answered or dropped, and a pool that is being*)
(* closed is closed in the end.                                             *)
OperationsEnd ==
  <>[](/\ \A o \in Op : answer[o] # "pending"
       /\ main \in {"running", "closed"})

(* A transaction "will automatically rollback if not commited", says        *)
(* DatabaseWorkerPool::BeginTransaction: what is visible of it is all of it *)
(* or nothing.  Stated only: with MaxLost > 0 it is false, see README.      *)
TransactionsAreAtomic ==
  \A o \in Transaction :
    answer[o] = "false" => \A r \in Row : Committed[r] # o

=============================================================================
