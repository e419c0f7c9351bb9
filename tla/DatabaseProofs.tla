--------------------------- MODULE DatabaseProofs ---------------------------
(***************************************************************************)
(* Proofs about Database, for any number of connections, operations and     *)
(* rows: first that rows are locked once and only in the middle of a        *)
(* transaction, and that the lock under which transactions are repeated is  *)
(* held by the one worker that repeats one; then, from who has which        *)
(* operation and how far the writer of each row is, that the pool implements*)
(* Store.                                                                   *)
(***************************************************************************)
EXTENDS Database, TLAPS

Place == {"idle", "popped", "executing", "waiting", "locking", "gone"}

Table == [Row -> Op \cup {None}]

-----------------------------------------------------------------------------
(* The rows that a transaction has changed.                                *)

(* A connection without an open transaction has changed none.               *)
LEMMA Nothing == <<>> \in Before /\ DOMAIN <<>> = {}
<1>1. <<>> \in [{} -> Op \cup {None}]
  OBVIOUS
<1> QED
  BY <1>1 DEF Before

LEMMA BeforeMember ==
  ASSUME NEW f \in Before
  PROVE  DOMAIN f \subseteq Row /\ f \in [DOMAIN f -> Op \cup {None}]
<1>1. PICK R \in SUBSET Row : f \in [R -> Op \cup {None}]
  BY DEF Before
<1> QED
  BY <1>1

(* What a row was is an operation or none, noted in the log or not.         *)
LEMMA OldType ==
  ASSUME RowsLocked, table \in Table, NEW c \in Connection, NEW r \in Row
  PROVE  Old(c, r) \in Op \cup {None}
<1>1. undo[c] \in Before
  BY DEF RowsLocked
<1>2. undo[c] \in [DOMAIN undo[c] -> Op \cup {None}]
  BY <1>1, BeforeMember
<1> QED
  BY <1>2 DEF Old, Holds, Table

(* A rollback leaves a table, and one more row in the log leaves a log.     *)
LEMMA RollbackType ==
  ASSUME RowsLocked, table \in Table, NEW c \in Connection
  PROVE  RolledBack(c) \in Table
BY OldType DEF RolledBack, Table

LEMMA NotedType ==
  ASSUME RowsLocked, table \in Table, NEW c \in Connection, RowOf(c) \in Row
  PROVE  Noted(c) \in Before /\ DOMAIN Noted(c) = DOMAIN undo[c] \cup {RowOf(c)}
<1> DEFINE R == DOMAIN undo[c] \cup {RowOf(c)}
<1>1. undo[c] \in Before
  BY DEF RowsLocked
<1>2. R \in SUBSET Row
  BY <1>1, BeforeMember
<1>3. Noted(c) \in [R -> Op \cup {None}]
  BY <1>2, OldType DEF Noted
<1> QED
  BY <1>2, <1>3 DEF Before, Noted

(* A statement that is not the COMMIT has a row.                            *)
LEMMA StatementHasRow ==
  ASSUME TypeOK, NEW c \in Connection, Busy(c), ~ Committing(c)
  PROVE  /\ op[c] \in Op /\ Rows[op[c]] \in Seq(Row)
         /\ next[c] \in 1 .. Len(Rows[op[c]]) /\ RowOf(c) \in Row
<1>1. op[c] \in Op
  BY DEF TypeOK, OpType, Busy
<1>2. Rows[op[c]] \in Seq(Row)
  BY <1>1, DatabaseAssumption DEF DatabaseAssumption
<1>3. next[c] \in Nat \ {0}
  BY DEF TypeOK, OpType
<1>4. next[c] <= Len(Rows[op[c]])
  <2>1. next[c] <= Len(Rows[op[c]]) + (IF op[c] \in Transaction THEN 1 ELSE 0)
    BY DEF TypeOK, OpType
  <2>2. Len(Rows[op[c]]) \in Nat
    BY <1>2
  <2>3. CASE op[c] \in Transaction
    BY <1>3, <2>2, <2>3 DEF Committing
  <2>4. CASE op[c] \notin Transaction
    BY <1>3, <2>1, <2>2, <2>4
  <2> QED
    BY <2>3, <2>4
<1> QED
  BY <1>1, <1>2, <1>3, <1>4 DEF RowOf

-----------------------------------------------------------------------------
(* The pieces of which steps are made.                                     *)

(* What is left to do fits the operation when it begins.                    *)
LEMMA FirstStatement ==
  ASSUME NEW o \in Op
  PROVE  1 <= Len(Rows[o]) + (IF o \in Transaction THEN 1 ELSE 0)
<1>1. Rows[o] \in Seq(Row)
  BY DatabaseAssumption DEF DatabaseAssumption
<1>2. Len(Rows[o]) \in Nat
  BY <1>1
<1>3. CASE o \in Transaction
  BY <1>2, <1>3
<1>4. CASE o \notin Transaction
  <2>1. Len(Rows[o]) = 1
    BY <1>4, DatabaseAssumption DEF DatabaseAssumption
  <2> QED
    BY <1>4, <2>1
<1> QED
  BY <1>3, <1>4

(* An operation begins, or begins again: the log of its connection is empty.*)
LEMMA BeginKeeps ==
  ASSUME TypeOK, NEW c \in Connection, NEW o \in Op, NEW n \in Nat,
         Begin(c, o, n)
  PROVE  /\ at' \in [Connection -> Place] /\ RowsLocked'
         /\ queue' \in Seq(Op) => OpType'
<1> USE DEF Begin
<1>1. at' \in [Connection -> Place]
  BY DEF TypeOK, Place
<1>2. ASSUME queue' \in Seq(Op) PROVE OpType'
  <2>1. op' \in [Connection -> Op \cup {None}] /\ next' \in [Connection -> Nat \ {0}]
    BY DEF TypeOK, OpType
  <2>2. ASSUME NEW d \in Connection
        PROVE  op'[d] = None <=> at'[d] \in {"idle", "gone"}
    BY DatabaseAssumption DEF TypeOK, OpType, DatabaseAssumption
  <2>3. ASSUME NEW d \in Connection, Busy(d)'
        PROVE  next'[d] <= Len(Rows[op'[d]])
                             + (IF op'[d] \in Transaction THEN 1 ELSE 0)
    <3>1. CASE d = c
      BY <3>1, FirstStatement DEF TypeOK, OpType
    <3>2. CASE d # c
      BY <3>2, <2>3 DEF TypeOK, OpType, Busy
    <3> QED
      BY <3>1, <3>2
  <2> QED
    BY <1>2, <2>1, <2>2, <2>3 DEF OpType
<1>3. RowsLocked'
  <2>1. open' \in [Connection -> BOOLEAN] /\ undo' \in [Connection -> Before]
    BY Nothing DEF TypeOK, RowsLocked
  <2>2. ASSUME NEW d \in Connection
        PROVE  /\ open'[d] => Busy(d)'
               /\ DOMAIN undo'[d] # {} => open'[d]
               /\ \A x \in Connection \ {d} : DOMAIN undo'[d] \cap DOMAIN undo'[x] = {}
    BY Nothing DEF TypeOK, RowsLocked, Busy
  <2> QED
    BY <2>1, <2>2 DEF RowsLocked
<1> QED
  BY <1>1, <1>2, <1>3

(* An operation ends: the deadlock lock is free if this one held it.        *)
LEMMA EndKeeps ==
  ASSUME TypeOK, NEW c \in Connection, NEW a \in {"true", "false"}, Busy(c),
         End(c, a), queue' = queue
  PROVE  /\ at' \in [Connection -> Place] /\ OpType' /\ LockHeld' /\ RowsLocked'
         /\ answer' \in [Op -> {"new", "pending", "true", "false", "dropped"}]
<1> USE DEF End
<1>1. at' \in [Connection -> Place]
  BY DEF TypeOK, Place
<1>2. OpType'
  <2>1. op' \in [Connection -> Op \cup {None}] /\ next' \in [Connection -> Nat \ {0}]
    BY DEF TypeOK, OpType
  <2>2. ASSUME NEW d \in Connection
        PROVE  /\ op'[d] = None <=> at'[d] \in {"idle", "gone"}
               /\ Busy(d)' => next'[d] <= Len(Rows[op'[d]])
                                 + (IF op'[d] \in Transaction THEN 1 ELSE 0)
    BY DEF TypeOK, OpType, Busy
  <2> QED
    BY <2>1, <2>2 DEF OpType, TypeOK
<1>3. LockHeld'
  <2>1. tries' \in [Connection -> Nat]
    BY DEF TypeOK, LockHeld
  <2>2. None \notin Connection /\ Worker \subseteq Connection
    BY DatabaseAssumption DEF DatabaseAssumption, Connection
  <2>3. ASSUME NEW w \in Worker PROVE mutex' = w <=> tries'[w] > 0
    <3>1. mutex = w <=> tries[w] > 0
      BY DEF TypeOK, LockHeld
    <3>2. mutex' # c /\ (w # c => (mutex' = w <=> mutex = w))
      BY <2>2
    <3>3. tries'[w] = IF w = c THEN 0 ELSE tries[w]
      BY <2>2 DEF TypeOK, LockHeld
    <3> QED
      BY <3>1, <3>2, <3>3
  <2>4. ASSUME mutex' # None PROVE mutex' \in Worker /\ Busy(mutex)'
    <3>1. mutex' = mutex /\ mutex # c
      BY <2>4
    <3>2. mutex \in Worker /\ Busy(mutex)
      BY <2>4, <3>1 DEF TypeOK, LockHeld
    <3>3. at'[mutex] = at[mutex]
      BY <3>1, <3>2, <2>2 DEF TypeOK
    <3> QED
      BY <3>1, <3>2, <3>3 DEF Busy
  <2> QED
    BY <2>1, <2>3, <2>4 DEF LockHeld
<1>4. RowsLocked'
  <2>1. open' \in [Connection -> BOOLEAN] /\ undo' \in [Connection -> Before]
    BY Nothing DEF TypeOK, RowsLocked
  <2>2. ASSUME NEW d \in Connection
        PROVE  /\ open'[d] => Busy(d)'
               /\ DOMAIN undo'[d] # {} => open'[d]
               /\ \A x \in Connection \ {d} : DOMAIN undo'[d] \cap DOMAIN undo'[x] = {}
    BY Nothing DEF TypeOK, RowsLocked, Busy
  <2> QED
    BY <2>1, <2>2 DEF RowsLocked
<1>5. answer' \in [Op -> {"new", "pending", "true", "false", "dropped"}]
  BY DEF TypeOK
<1> QED
  BY <1>1, <1>2, <1>3, <1>4, <1>5

(* What a step that leaves rows, lock or the other connections alone keeps. *)
LEMMA SameRows ==
  ASSUME RowsLocked, UNCHANGED <<open, undo>>,
         \A c \in Connection : Busy(c) => Busy(c)'
  PROVE  RowsLocked'
BY DEF RowsLocked

LEMMA SameLock ==
  ASSUME LockHeld, UNCHANGED <<mutex, tries>>,
         \A w \in Worker : Busy(w) => Busy(w)'
  PROVE  LockHeld'
BY DEF LockHeld

LEMMA OthersFit ==
  ASSUME OpType, NEW c \in Connection,
         queue' \in Seq(Op), op' \in [Connection -> Op \cup {None}],
         next' \in [Connection -> Nat \ {0}],
         \A d \in Connection \ {c} :
           at'[d] = at[d] /\ op'[d] = op[d] /\ next'[d] = next[d],
         op'[c] = None <=> at'[c] \in {"idle", "gone"},
         Busy(c)' => next'[c] <= Len(Rows[op'[c]])
                                   + (IF op'[c] \in Transaction THEN 1 ELSE 0)
  PROVE  OpType'
<1>1. ASSUME NEW d \in Connection \ {c}
      PROVE  /\ op'[d] = None <=> at'[d] \in {"idle", "gone"}
             /\ Busy(d)' => next'[d] <= Len(Rows[op'[d]])
                               + (IF op'[d] \in Transaction THEN 1 ELSE 0)
  BY DEF OpType, Busy
<1> QED
  BY <1>1 DEF OpType

(* A busy worker that has tried once waits for the deadlock lock; whoever   *)
(* holds it is another.                                                     *)
LEMMA AskForLockKeeps ==
  ASSUME TypeOK, NEW c \in Worker, Busy(c), tries[c] = 0,
         AskForLock(c), UNCHANGED <<queue, mutex>>
  PROVE  /\ at' \in [Connection -> Place] /\ OpType' /\ LockHeld' /\ RowsLocked'
<1> USE DEF AskForLock
<1>1. c \in Connection
  BY DEF Connection
<1>2. at' \in [Connection -> Place]
  BY <1>1 DEF TypeOK, Place
<1>3. OpType'
  BY <1>1, OthersFit DEF TypeOK, OpType, Busy
<1>4. LockHeld'
  <2>1. mutex # c
    BY DEF TypeOK, LockHeld
  <2> QED
    BY <1>1, <2>1 DEF TypeOK, LockHeld, Busy, Connection
<1>5. RowsLocked'
  <2>1. open' \in [Connection -> BOOLEAN] /\ undo' \in [Connection -> Before]
    BY Nothing DEF TypeOK, RowsLocked
  <2>2. ASSUME NEW d \in Connection
        PROVE  /\ open'[d] => Busy(d)'
               /\ DOMAIN undo'[d] # {} => open'[d]
               /\ \A x \in Connection \ {d} : DOMAIN undo'[d] \cap DOMAIN undo'[x] = {}
    BY <1>1, Nothing DEF TypeOK, RowsLocked, Busy
  <2> QED
    BY <2>1, <2>2 DEF RowsLocked
<1> QED
  BY <1>2, <1>3, <1>4, <1>5

(* A transaction or statement fails: it is begun again, by a worker under   *)
(* the lock, or ends.                                                       *)
LEMMA FailStep ==
  ASSUME TypeOK, NEW c \in Connection, Busy(c), NEW b \in BOOLEAN, Fail(c, b)
  PROVE  TypeOK'
<1> USE DEF Fail
<1>1. op[c] \in Op
  BY DEF TypeOK, OpType, Busy
<1>2. table' \in Table
  BY RollbackType DEF TypeOK, Table
<1>3. UNCHANGED <<main, queue, shutdown, token, lost>>
  BY DEF pool
<1>4. queue \in Seq(Op)
  BY DEF TypeOK, OpType
<1>5. CASE TryAgain(c, b) /\ c \in Worker /\ tries[c] = 0
  <2>1. AskForLock(c) /\ UNCHANGED <<mutex, answer>>
    BY <1>5
  <2>2. at' \in [Connection -> Place] /\ OpType' /\ LockHeld' /\ RowsLocked'
    BY <1>3, <1>5, <2>1, AskForLockKeeps
  <2> QED
    BY <1>2, <1>3, <2>1, <2>2 DEF TypeOK, Place, Table
<1>6. CASE TryAgain(c, b) /\ ~ (c \in Worker /\ tries[c] = 0)
  <2>1. Begin(c, op[c], tries[c] + 1) /\ UNCHANGED <<mutex, answer>>
    BY <1>6
  <2>2. tries \in [Connection -> Nat]
    BY DEF TypeOK, LockHeld
  <2>3. tries[c] + 1 \in Nat
    BY <2>2
  <2>4. at' \in [Connection -> Place] /\ OpType' /\ RowsLocked'
    BY <1>1, <1>3, <1>4, <2>1, <2>3, BeginKeeps
  <2>5. LockHeld'
    <3>1. tries' = [tries EXCEPT ![c] = tries[c] + 1]
      BY <2>1 DEF Begin
    <3>2. tries' \in [Connection -> Nat]
      BY <2>2, <2>3, <3>1
    <3>3. ASSUME NEW w \in Worker PROVE mutex' = w <=> tries'[w] > 0
      <4>1. mutex = w <=> tries[w] > 0
        BY DEF TypeOK, LockHeld
      <4>2. w \in Connection
        BY DEF Connection
      <4>3. CASE w = c
        <5>1. tries[w] > 0
          BY <1>6, <2>2, <4>2, <4>3
        <5> QED
          BY <2>1, <2>2, <3>1, <4>1, <4>2, <4>3, <5>1
      <4>4. CASE w # c
        BY <2>1, <2>2, <3>1, <4>1, <4>2, <4>4
      <4> QED
        BY <4>3, <4>4
    <3>4. ASSUME mutex' # None PROVE mutex' \in Worker /\ Busy(mutex)'
      BY <2>1, <3>4 DEF TypeOK, LockHeld, Begin, Busy, Connection
    <3> QED
      BY <3>2, <3>3, <3>4 DEF LockHeld
  <2> QED
    BY <1>2, <1>3, <2>1, <2>4, <2>5 DEF TypeOK, Place, Table
<1>7. CASE ~ TryAgain(c, b)
  <2>1. End(c, "false")
    BY <1>7
  <2>2. /\ at' \in [Connection -> Place] /\ OpType' /\ LockHeld' /\ RowsLocked'
        /\ answer' \in [Op -> {"new", "pending", "true", "false", "dropped"}]
    BY <1>3, <2>1, EndKeeps
  <2> QED
    BY <1>2, <1>3, <2>2 DEF TypeOK, Place, Table
<1> QED
  BY <1>5, <1>6, <1>7

-----------------------------------------------------------------------------
(* Every step keeps the invariant.                                         *)

LEMMA LockStep ==
  ASSUME TypeOK, NEW w \in Worker, Lock(w)
  PROVE  TypeOK'
<1> USE DEF Lock
<1>1. w \in Connection /\ op[w] \in Op /\ queue \in Seq(Op)
  BY DEF TypeOK, OpType, Connection
<1>2. UNCHANGED <<main, queue, shutdown, token, answer, table, lost>>
  BY DEF pool
<1>3. at' \in [Connection -> Place] /\ OpType' /\ RowsLocked'
  BY <1>1, <1>2, BeginKeeps
<1>4. LockHeld'
  <2>1. tries' = [tries EXCEPT ![w] = 1] /\ tries \in [Connection -> Nat]
    BY DEF Begin, TypeOK, LockHeld
  <2>2. None \notin Worker
    BY DatabaseAssumption DEF DatabaseAssumption, Connection
  <2>3. ASSUME NEW x \in Worker PROVE mutex' = x <=> tries'[x] > 0
    <3>1. ~ tries[x] > 0 /\ x \in Connection
      BY <2>2 DEF TypeOK, LockHeld, Connection
    <3>2. tries'[x] = IF x = w THEN 1 ELSE tries[x]
      BY <2>1, <3>1
    <3> QED
      BY <3>1, <3>2
  <2>4. tries' \in [Connection -> Nat]
    BY <2>1
  <2>5. Busy(w)'
    BY <1>1 DEF Begin, TypeOK, Busy
  <2> QED
    BY <2>3, <2>4, <2>5 DEF LockHeld, Busy
<1> QED
  BY <1>2, <1>3, <1>4 DEF TypeOK, Place

LEMMA AwaitStep ==
  ASSUME TypeOK, NEW c \in Connection, Await(c)
  PROVE  TypeOK'
<1> USE DEF Await
<1>1. at' = [at EXCEPT ![c] = "waiting"] /\ at[c] = "executing"
  OBVIOUS
<1>2. UNCHANGED <<main, queue, shutdown, token, op, next, tries, mutex, answer,
                  table, open, undo, lost>>
  BY DEF pool
<1>3. at' \in [Connection -> Place]
  BY <1>1 DEF TypeOK, Place
<1>4. \A d \in Connection : Busy(d)' <=> Busy(d)
  BY <1>1 DEF TypeOK, Busy
<1>5. OpType'
  BY <1>1, <1>2, <1>4, OthersFit DEF TypeOK, OpType, Busy
<1>6. LockHeld' /\ RowsLocked'
  BY <1>2, <1>4, SameLock, SameRows DEF TypeOK, Connection
<1> QED
  BY <1>2, <1>3, <1>5, <1>6 DEF TypeOK, Place

(* A statement of a transaction locks a row that nobody else has locked.    *)
LEMMA ExecuteStep ==
  ASSUME TypeOK, NEW c \in Connection, Execute(c)
  PROVE  TypeOK'
<1> USE DEF Execute
<1>1. /\ Busy(c) /\ op[c] \in Op /\ Rows[op[c]] \in Seq(Row)
      /\ next[c] \in 1 .. Len(Rows[op[c]]) /\ RowOf(c) \in Row
  BY StatementHasRow DEF Executable
<1>2. UNCHANGED <<main, queue, shutdown, token, lost>>
  BY DEF pool
<1>3. table' \in Table
  BY <1>1 DEF Written, TypeOK, Table
<1>4. CASE op[c] \notin Transaction
  <2>1. End(c, "true")
    BY <1>4
  <2>2. /\ at' \in [Connection -> Place] /\ OpType' /\ LockHeld' /\ RowsLocked'
        /\ answer' \in [Op -> {"new", "pending", "true", "false", "dropped"}]
    BY <1>1, <1>2, <2>1, EndKeeps
  <2> QED
    BY <1>2, <1>3, <2>2 DEF TypeOK, Place, Table
<1>5. CASE op[c] \in Transaction
  <2>1. /\ at' = [at EXCEPT ![c] = "executing"]
        /\ next' = [next EXCEPT ![c] = @ + 1]
        /\ undo' = IF open[c] THEN [undo EXCEPT ![c] = Noted(c)] ELSE undo
        /\ UNCHANGED <<op, tries, mutex, answer, open>>
    BY <1>5
  <2>2. at' \in [Connection -> Place]
    BY <2>1 DEF TypeOK, Place
  <2>3. \A d \in Connection : Busy(d)' <=> Busy(d)
    BY <1>1, <2>1 DEF TypeOK, Busy
  <2>4. OpType'
    <3>1. next' \in [Connection -> Nat \ {0}]
      BY <1>1, <2>1 DEF TypeOK, OpType
    <3>2. next'[c] <= Len(Rows[op'[c]]) + (IF op'[c] \in Transaction THEN 1 ELSE 0)
      BY <1>1, <1>5, <2>1 DEF TypeOK, OpType
    <3>3. op'[c] # None /\ at'[c] = "executing"
      BY <1>1, <2>1, DatabaseAssumption DEF TypeOK, DatabaseAssumption
    <3> QED
      BY <1>2, <2>1, <3>1, <3>2, <3>3, OthersFit DEF TypeOK, OpType
  <2>5. LockHeld'
    BY <2>1, <2>3, SameLock DEF TypeOK, Connection
  <2>6. RowsLocked'
    <3>1. CASE ~ open[c]
      BY <2>1, <2>3, <3>1, SameRows DEF TypeOK
    <3>2. CASE open[c]
      <4>1. undo' = [undo EXCEPT ![c] = Noted(c)] /\ undo \in [Connection -> Before]
        BY <2>1, <3>2 DEF TypeOK, RowsLocked
      <4>2. Noted(c) \in Before /\ DOMAIN Noted(c) = DOMAIN undo[c] \cup {RowOf(c)}
        BY <1>1, NotedType DEF TypeOK, Table
      <4>3. undo' \in [Connection -> Before]
        BY <4>1, <4>2
      <4>4. \A d \in Connection \ {c} : RowOf(c) \notin DOMAIN undo[d]
        BY <1>1 DEF Executable, Blocked, Locked, Holds
      <4>5. ASSUME NEW d \in Connection
            PROVE  /\ open'[d] => Busy(d)'
                   /\ DOMAIN undo'[d] # {} => open'[d]
                   /\ \A x \in Connection \ {d} : DOMAIN undo'[d] \cap DOMAIN undo'[x] = {}
        <5>1. /\ open[d] => Busy(d)
              /\ DOMAIN undo[d] # {} => open[d]
              /\ \A x \in Connection \ {d} : DOMAIN undo[d] \cap DOMAIN undo[x] = {}
          BY DEF TypeOK, RowsLocked
        <5>2. /\ open'[d] = open[d] /\ (Busy(d)' <=> Busy(d))
              /\ \A x \in Connection : undo'[x] = IF x = c THEN Noted(c) ELSE undo[x]
          BY <2>1, <2>3, <4>1
        <5>3. ASSUME NEW x \in Connection \ {d}
              PROVE  DOMAIN undo'[d] \cap DOMAIN undo'[x] = {}
          <6>1. DOMAIN undo[d] \cap DOMAIN undo[x] = {}
            BY <5>1, <5>3
          <6>2. CASE d = c
            <7>1. undo'[d] = Noted(c) /\ undo'[x] = undo[x] /\ x # c
              BY <5>2, <5>3, <6>2
            <7> QED
              BY <4>2, <4>4, <6>1, <6>2, <7>1
          <6>3. CASE x = c
            <7>1. undo'[d] = undo[d] /\ undo'[x] = Noted(c) /\ d # c
              BY <5>2, <5>3, <6>3
            <7> QED
              BY <4>2, <4>4, <6>1, <6>3, <7>1
          <6>4. CASE d # c /\ x # c
            BY <5>2, <5>3, <6>1, <6>4
          <6> QED
            BY <6>2, <6>3, <6>4
        <5>4. DOMAIN undo'[d] # {} => open'[d]
          BY <3>2, <5>1, <5>2
        <5> QED
          BY <5>1, <5>2, <5>3, <5>4
      <4>6. open' \in [Connection -> BOOLEAN]
        BY <2>1 DEF TypeOK, RowsLocked
      <4> QED
        BY <4>3, <4>5, <4>6 DEF RowsLocked
    <3> QED
      BY <3>1, <3>2
  <2> QED
    BY <1>2, <1>3, <2>1, <2>2, <2>4, <2>5, <2>6 DEF TypeOK, Place, Table
<1> QED
  BY <1>4, <1>5

LEMMA CommitStep ==
  ASSUME TypeOK, NEW c \in Connection, Commit(c)
  PROVE  TypeOK'
<1> USE DEF Commit, Executable
<1>1. UNCHANGED <<main, queue, shutdown, token, table, lost>>
  BY DEF pool
<1>2. /\ at' \in [Connection -> Place] /\ OpType' /\ LockHeld' /\ RowsLocked'
      /\ answer' \in [Op -> {"new", "pending", "true", "false", "dropped"}]
  BY <1>1, EndKeeps
<1> QED
  BY <1>1, <1>2 DEF TypeOK, Place

LEMMA FailureSteps ==
  ASSUME TypeOK, NEW c \in Connection, StatementFails(c) \/ Deadlock(c)
  PROVE  TypeOK'
<1>1. CASE StatementFails(c)
  BY <1>1, FailStep DEF StatementFails
<1>2. CASE Deadlock(c)
  BY <1>2, FailStep DEF Deadlock, Busy
<1> QED
  BY <1>1, <1>2

(* A connection that is lost loses its row locks.                           *)
LEMMA LoseConnectionStep ==
  ASSUME TypeOK, NEW c \in Connection, LoseConnection(c)
  PROVE  TypeOK'
<1> USE DEF LoseConnection
<1>1. Busy(c) /\ op[c] \in Op
  BY DEF TypeOK, OpType, Busy
<1>2. UNCHANGED <<main, queue, shutdown, token, op, next, tries, mutex, answer>>
  BY DEF pool
<1>3. table' \in Table
  <2>1. RolledBack(c) \in Table /\ table \in Table
    BY RollbackType DEF TypeOK, Table
  <2>2. ASSUME table' = Written(c) PROVE table' \in Table
    BY <1>1, <2>1, <2>2 DEF Written, Table
  <2> QED
    BY <2>1, <2>2
<1>4. at' \in [Connection -> Place]
  BY DEF TypeOK, Place
<1>5. \A d \in Connection : Busy(d)' <=> Busy(d)
  BY <1>1 DEF TypeOK, Busy
<1>6. OpType'
  BY <1>1, <1>2, <1>5, OthersFit DEF TypeOK, OpType, Busy
<1>7. LockHeld'
  BY <1>2, <1>5, SameLock DEF TypeOK, Connection
<1>8. RowsLocked'
  <2>1. open' \in [Connection -> BOOLEAN] /\ undo' \in [Connection -> Before]
    BY Nothing DEF TypeOK, RowsLocked
  <2>2. ASSUME NEW d \in Connection
        PROVE  /\ open'[d] => Busy(d)'
               /\ DOMAIN undo'[d] # {} => open'[d]
               /\ \A x \in Connection \ {d} : DOMAIN undo'[d] \cap DOMAIN undo'[x] = {}
    BY <1>5, Nothing DEF TypeOK, RowsLocked
  <2> QED
    BY <2>1, <2>2 DEF RowsLocked
<1> QED
  BY <1>1, <1>2, <1>3, <1>4, <1>6, <1>7, <1>8 DEF TypeOK, Place, Table

-----------------------------------------------------------------------------
(* Callers, workers and the closing of the pool.                           *)

LEMMA EnqueueStep ==
  ASSUME TypeOK, NEW o \in Op, Enqueue(o)
  PROVE  TypeOK'
<1> USE DEF Enqueue
<1>1. queue' \in Seq(Op)
  BY DEF TypeOK, OpType
<1>2. OpType'
  BY <1>1 DEF TypeOK, OpType, Busy
<1>3. LockHeld' /\ RowsLocked'
  BY SameLock, SameRows DEF TypeOK, Busy
<1>4. answer' \in [Op -> {"new", "pending", "true", "false", "dropped"}]
  BY DEF TypeOK
<1> QED
  BY <1>2, <1>3, <1>4 DEF TypeOK

(* An operation begins for the first time, on a connection that does not    *)
(* hold the deadlock lock because it was not busy.                          *)
LEMMA FirstBegin ==
  ASSUME TypeOK, NEW c \in Connection, NEW o \in Op, ~ Busy(c),
         Begin(c, o, 0), UNCHANGED mutex
  PROVE  LockHeld'
<1> USE DEF Begin
<1>1. tries' = [tries EXCEPT ![c] = 0] /\ tries \in [Connection -> Nat]
  BY DEF TypeOK, LockHeld
<1>2. mutex # c \/ mutex = None
  BY DEF TypeOK, LockHeld
<1>3. ASSUME NEW w \in Worker PROVE mutex' = w <=> tries'[w] > 0
  <2>1. mutex = w <=> tries[w] > 0
    BY DEF TypeOK, LockHeld
  <2>2. w \in Connection /\ w # None
    BY DatabaseAssumption DEF Connection, DatabaseAssumption
  <2> QED
    BY <1>1, <1>2, <2>1, <2>2
<1>4. ASSUME mutex' # None PROVE mutex' \in Worker /\ Busy(mutex)'
  <2>1. mutex \in Worker /\ Busy(mutex) /\ mutex # c
    BY <1>2, <1>4 DEF TypeOK, LockHeld
  <2>2. at'[mutex] = at[mutex]
    BY <2>1 DEF TypeOK, Connection
  <2> QED
    BY <2>1, <2>2 DEF Busy
<1> QED
  BY <1>1, <1>3, <1>4 DEF LockHeld

LEMMA DirectCommitStep ==
  ASSUME TypeOK, NEW c \in Connection, NEW o \in Op, DirectCommit(c, o)
  PROVE  TypeOK'
<1> USE DEF DirectCommit
<1>1. UNCHANGED <<main, queue, shutdown, token, mutex, table, lost>>
  BY DEF pool
<1>2. queue' \in Seq(Op) /\ ~ Busy(c)
  BY <1>1 DEF TypeOK, OpType, Busy
<1>3. at' \in [Connection -> Place] /\ OpType' /\ RowsLocked'
  BY <1>2, BeginKeeps
<1>4. LockHeld'
  BY <1>1, <1>2, FirstBegin
<1>5. answer' \in [Op -> {"new", "pending", "true", "false", "dropped"}]
  BY DEF TypeOK
<1> QED
  BY <1>1, <1>3, <1>4, <1>5 DEF TypeOK, Place

LEMMA StartStep ==
  ASSUME TypeOK, NEW w \in Worker, Start(w)
  PROVE  TypeOK'
<1> USE DEF Start
<1>1. UNCHANGED <<main, queue, shutdown, token, mutex, answer, table, lost>>
  BY DEF pool
<1>2. w \in Connection /\ op[w] \in Op /\ queue' \in Seq(Op) /\ ~ Busy(w)
  BY <1>1 DEF TypeOK, OpType, Busy, Connection
<1>3. at' \in [Connection -> Place] /\ OpType' /\ RowsLocked'
  BY <1>2, BeginKeeps
<1>4. LockHeld'
  BY <1>1, <1>2, FirstBegin
<1> QED
  BY <1>1, <1>3, <1>4 DEF TypeOK, Place

(* A worker goes from one place outside Execute to another.                 *)
LEMMA PlaceStep ==
  ASSUME TypeOK, NEW w \in Worker, NEW p \in Place, NEW o \in Op \cup {None},
         ~ Busy(w), p \notin {"executing", "waiting"},
         o = None <=> p \in {"idle", "gone"},
         queue' \in Seq(Op),
         at' = [at EXCEPT ![w] = p], op' = [op EXCEPT ![w] = o],
         answer' \in [Op -> {"new", "pending", "true", "false", "dropped"}],
         UNCHANGED <<main, shutdown, token, next, tries, mutex, table, open,
                     undo, lost>>
  PROVE  TypeOK'
<1>1. w \in Connection
  BY DEF Connection
<1>2. at' \in [Connection -> Place]
  BY <1>1 DEF TypeOK, Place
<1>3. ASSUME NEW d \in Connection PROVE Busy(d)' <=> Busy(d)
  BY <1>1 DEF TypeOK, Busy
<1>4. OpType'
  BY <1>1, <1>3, OthersFit DEF TypeOK, OpType
<1>5. LockHeld' /\ RowsLocked'
  BY <1>3, SameLock, SameRows DEF TypeOK, Connection
<1> QED
  BY <1>2, <1>4, <1>5 DEF TypeOK, Place

LEMMA WorkerPlaces ==
  ASSUME TypeOK, NEW w \in Worker, WaitAndPop(w) \/ PopNothing(w) \/ Leave(w)
  PROVE  TypeOK'
<1>1. w \in Connection /\ None \notin Op
  BY DatabaseAssumption DEF Connection, DatabaseAssumption
<1>2. queue \in Seq(Op) /\ op \in [Connection -> Op \cup {None}]
  BY DEF TypeOK, OpType
<1>3. CASE WaitAndPop(w)
  <2>1. Head(queue) \in Op /\ Tail(queue) \in Seq(Op)
    BY <1>2, <1>3 DEF WaitAndPop
  <2> QED
    BY <1>1, <1>3, <2>1, PlaceStep DEF WaitAndPop, TypeOK, Place, Busy
<1>4. CASE PopNothing(w)
  <2>1. op[w] = None /\ op' = [op EXCEPT ![w] = None]
    BY <1>1, <1>2, <1>4 DEF PopNothing, TypeOK, OpType
  <2> QED
    BY <1>2, <1>4, <2>1, PlaceStep DEF PopNothing, pool, TypeOK, Place, Busy
<1>5. CASE Leave(w)
  <2>1. op[w] \in Op
    BY <1>1, <1>5 DEF Leave, TypeOK, OpType
  <2>2. answer' \in [Op -> {"new", "pending", "true", "false", "dropped"}]
    BY <1>5 DEF Leave, TypeOK
  <2> QED
    BY <1>2, <1>5, <2>2, PlaceStep DEF Leave, pool, Place, Busy
<1> QED
  BY <1>3, <1>4, <1>5

(* Closing the pool touches no connection.                                  *)
LEMMA ClosingSteps ==
  ASSUME TypeOK, Close \/ Closing \/ Closed \/ UNCHANGED vars
  PROVE  TypeOK'
<1>1. UNCHANGED <<at, op, next, tries, mutex, table, open, undo, lost>>
  BY DEF Close, Closing, SetToken, CancelQueue, Join, Closed, vars
<1>2. LockHeld' /\ RowsLocked'
  BY <1>1, SameLock, SameRows DEF TypeOK, Busy
<1>3. queue' \in Seq(Op)
  <2>1. queue \in Seq(Op)
    BY DEF TypeOK, OpType
  <2>2. queue' = queue \/ queue' = <<>>
    BY DEF Close, Closing, SetToken, CancelQueue, Join, Closed, vars, pool
  <2>3. <<>> \in Seq(Op)
    OBVIOUS
  <2>4. CASE queue' = queue
    BY <2>1, <2>4
  <2>5. CASE queue' = <<>>
    BY <2>3, <2>5
  <2> QED
    BY <2>2, <2>4, <2>5
<1>4. OpType'
  BY <1>1, <1>3 DEF TypeOK, OpType, Busy
<1>5. answer' \in [Op -> {"new", "pending", "true", "false", "dropped"}]
  <2>1. CASE CancelQueue
    BY <2>1 DEF CancelQueue, TypeOK
  <2>2. CASE ~ CancelQueue
    BY <2>2 DEF TypeOK, Close, Closing, SetToken, Join, Closed, vars
  <2> QED
    BY <2>1, <2>2
<1>6. /\ main' \in {"running", "closing", "cancelling", "joining", "closed"}
      /\ shutdown' \in BOOLEAN /\ token' \in [Worker -> BOOLEAN]
  BY DEF TypeOK, Close, Closing, SetToken, CancelQueue, Join, Closed, vars, pool
<1> QED
  BY <1>1, <1>2, <1>4, <1>5, <1>6 DEF TypeOK

-----------------------------------------------------------------------------
LEMMA InitType == Init => TypeOK
<1> SUFFICES ASSUME Init PROVE TypeOK
  OBVIOUS
<1> USE DEF Init
<1>1. OpType
  BY DatabaseAssumption DEF OpType, Busy, DatabaseAssumption
<1>2. LockHeld
  BY DatabaseAssumption DEF LockHeld, Connection, DatabaseAssumption
<1>3. RowsLocked
  <2>1. undo \in [Connection -> Before]
    BY Nothing
  <2> QED
    BY <2>1, Nothing DEF RowsLocked
<1> QED
  BY <1>1, <1>2, <1>3 DEF TypeOK

LEMMA NextKeeps == TypeOK /\ [Next]_vars => TypeOK'
<1> SUFFICES ASSUME TypeOK, [Next]_vars PROVE TypeOK'
  OBVIOUS
<1>1. CASE \E o \in Op : Enqueue(o)
  BY <1>1, EnqueueStep
<1>2. CASE \E c \in Sync, o \in Op : DirectCommit(c, o)
  BY <1>2, DirectCommitStep DEF Connection
<1>3. CASE \E w \in Worker : WorkerSteps(w)
  <2>1. PICK w \in Worker : WorkerSteps(w)
    BY <1>3
  <2>2. CASE WaitAndPop(w) \/ PopNothing(w) \/ Leave(w)
    BY <2>2, WorkerPlaces
  <2>3. CASE Start(w)
    BY <2>3, StartStep
  <2>4. CASE Lock(w)
    BY <2>4, LockStep
  <2> QED
    BY <2>1, <2>2, <2>3, <2>4 DEF WorkerSteps
<1>4. CASE \E c \in Connection : Steps(c) \/ Deadlock(c) \/ LoseConnection(c)
  <2>1. PICK c \in Connection : Steps(c) \/ Deadlock(c) \/ LoseConnection(c)
    BY <1>4
  <2>2. CASE Await(c)
    BY <2>2, AwaitStep
  <2>3. CASE Execute(c)
    BY <2>3, ExecuteStep
  <2>4. CASE Commit(c)
    BY <2>4, CommitStep
  <2>5. CASE StatementFails(c) \/ Deadlock(c)
    BY <2>5, FailureSteps
  <2>6. CASE LoseConnection(c)
    BY <2>6, LoseConnectionStep
  <2> QED
    BY <2>1, <2>2, <2>3, <2>4, <2>5, <2>6 DEF Steps
<1>5. CASE Close \/ Closing \/ Closed \/ UNCHANGED vars
  BY <1>5, ClosingSteps
<1> QED
  BY <1>1, <1>2, <1>3, <1>4, <1>5 DEF Next

(* No row is locked twice or outside a transaction, and the lock under      *)
(* which TransactionTask::Execute repeats transactions is held exactly by   *)
(* the worker that repeats one and that is neither waiting for it nor done. *)
THEOREM TypeCorrect == Spec => []TypeOK
BY InitType, NextKeeps, PTL DEF Spec

-----------------------------------------------------------------------------
(* What TypeOK does not say and the promise needs: who has which operation, *)
(* and how far the writer of a row is.                                      *)

(* An operation that a connection has or that is queued is asked for and not*)
(* answered, and is nowhere else; callers execute theirs themselves.        *)
Asked ==
  /\ \A c \in Connection :
       op[c] # None => answer[op[c]] = "pending" /\ (op[c] \in Direct <=> c \in Sync)
  /\ \A c, d \in Connection : c # d /\ op[c] # None => op[c] # op[d]
  /\ \A i \in DOMAIN queue :
       /\ answer[queue[i]] = "pending" /\ queue[i] \notin Direct
       /\ \A c \in Connection : op[c] # queue[i]
       /\ \A j \in DOMAIN queue \ {i} : queue[j] # queue[i]

Done(c) == {Rows[op[c]][i] : i \in 1 .. next[c] - 1}

(* A row that is locked has what its holder wrote; what a transaction has   *)
(* locked are the rows of its statements so far, all of them unless its     *)
(* connection was lost.                                                     *)
Logged ==
  \A c \in Connection :
    /\ open[c] => op[c] \in Transaction
    /\ \A r \in DOMAIN undo[c] : table[r] = op[c]
    /\ DOMAIN undo[c] \subseteq Done(c)
    /\ Busy(c) /\ op[c] \in Transaction /\ op[c] \notin lost =>
         open[c] /\ DOMAIN undo[c] = Done(c)

Told == \A w \in Worker : token[w] => main # "running"

IInv == TypeOK /\ Asked /\ Logged /\ Told

(* A connection that is not in the middle of an operation has locked no row.*)
LEMMA IdleHoldsNothing ==
  ASSUME TypeOK, NEW c \in Connection, ~ Busy(c)
  PROVE  ~ open[c] /\ DOMAIN undo[c] = {}
BY DEF TypeOK, RowsLocked

LEMMA BusyHasAsked ==
  ASSUME TypeOK, Asked, NEW c \in Connection, op[c] \in Op
  PROVE  answer[op[c]] = "pending" /\ (op[c] \in Direct <=> c \in Sync)
BY DatabaseAssumption DEF Asked, DatabaseAssumption

(* A step that changes one connection and none of the rows the others hold. *)
LEMMA LoggedOthers ==
  ASSUME Logged, NEW c \in Connection, lost \subseteq lost',
         \A d \in Connection \ {c} :
           /\ at'[d] = at[d] /\ op'[d] = op[d] /\ next'[d] = next[d]
           /\ open'[d] = open[d] /\ undo'[d] = undo[d]
           /\ \A r \in DOMAIN undo[d] : table'[r] = table[r],
         open'[c] => op'[c] \in Transaction,
         \A r \in DOMAIN undo'[c] : table'[r] = op'[c],
         DOMAIN undo'[c] \subseteq Done(c)',
         Busy(c)' /\ op'[c] \in Transaction /\ op'[c] \notin lost' =>
           open'[c] /\ DOMAIN undo'[c] = Done(c)'
  PROVE  Logged'
<1>1. ASSUME NEW d \in Connection \ {c}
      PROVE  /\ open'[d] => op'[d] \in Transaction
             /\ \A r \in DOMAIN undo'[d] : table'[r] = op'[d]
             /\ DOMAIN undo'[d] \subseteq Done(d)'
             /\ Busy(d)' /\ op'[d] \in Transaction /\ op'[d] \notin lost' =>
                  open'[d] /\ DOMAIN undo'[d] = Done(d)'
  <2>1. /\ at'[d] = at[d] /\ op'[d] = op[d] /\ next'[d] = next[d]
        /\ open'[d] = open[d] /\ undo'[d] = undo[d]
        /\ \A r \in DOMAIN undo[d] : table'[r] = table[r]
    OBVIOUS
  <2>2. (Busy(d)' <=> Busy(d)) /\ Done(d)' = Done(d)
    BY <2>1 DEF Busy, Done
  <2> QED
    BY <2>1, <2>2 DEF Logged
<1> QED
  BY <1>1 DEF Logged

(* The same if the connection holds nothing afterwards.                     *)
LEMMA LoggedEmpty ==
  ASSUME Logged, NEW c \in Connection, lost \subseteq lost',
         \A d \in Connection \ {c} :
           /\ at'[d] = at[d] /\ op'[d] = op[d] /\ next'[d] = next[d]
           /\ open'[d] = open[d] /\ undo'[d] = undo[d]
           /\ \A r \in DOMAIN undo[d] : table'[r] = table[r],
         open'[c] => op'[c] \in Transaction,
         DOMAIN undo'[c] = {},
         Busy(c)' /\ op'[c] \in Transaction /\ op'[c] \notin lost' =>
           open'[c] /\ next'[c] = 1
  PROVE  Logged'
<1>1. next'[c] = 1 => Done(c)' = {}
  BY DEF Done
<1> QED
  BY <1>1, LoggedOthers

(* A rollback restores no row that another connection holds.                *)
LEMMA OthersRowsStay ==
  ASSUME TypeOK, NEW c \in Connection, NEW d \in Connection \ {c},
         NEW r \in DOMAIN undo[d], table' = RolledBack(c)
  PROVE  table'[r] = table[r]
<1>1. r \notin DOMAIN undo[c] /\ r \in Row
  BY BeforeMember DEF TypeOK, RowsLocked
<1> QED
  BY <1>1 DEF RolledBack, Old, Holds

LEMMA UnlockedStays ==
  ASSUME TypeOK, NEW c \in Connection, Busy(c), ~ Committing(c), ~ Blocked(c),
         NEW d \in Connection \ {c}, NEW r \in DOMAIN undo[d], table' = Written(c)
  PROVE  table'[r] = table[r]
<1>1. next[c] \in DOMAIN Rows[op[c]]
  BY StatementHasRow
<1>2. r # RowOf(c) /\ r \in Row
  BY <1>1, BeforeMember DEF TypeOK, RowsLocked, Blocked, Locked, Holds
<1> QED
  BY <1>2 DEF Written, TypeOK

LEMMA BeginLogged ==
  ASSUME TypeOK, Logged, NEW c \in Connection, NEW o \in Op, NEW n, Begin(c, o, n),
         table' = RolledBack(c) \/ table' = table, lost' = lost
  PROVE  Logged'
<1>1. /\ \A d \in Connection \ {c} :
           /\ at'[d] = at[d] /\ op'[d] = op[d] /\ next'[d] = next[d]
           /\ open'[d] = open[d] /\ undo'[d] = undo[d]
      /\ op'[c] = o /\ next'[c] = 1 /\ open'[c] = (o \in Transaction) /\ undo'[c] = <<>>
  BY DEF Begin, TypeOK, OpType, RowsLocked
<1>2. \A d \in Connection \ {c} : \A r \in DOMAIN undo[d] : table'[r] = table[r]
  BY OthersRowsStay
<1> QED
  BY <1>1, <1>2, Nothing, LoggedEmpty

LEMMA EndLogged ==
  ASSUME TypeOK, Logged, NEW c \in Connection, NEW a, End(c, a), lost' = lost,
         \A d \in Connection \ {c} : \A r \in DOMAIN undo[d] : table'[r] = table[r]
  PROVE  Logged'
<1>1. /\ \A d \in Connection \ {c} :
           /\ at'[d] = at[d] /\ op'[d] = op[d] /\ next'[d] = next[d]
           /\ open'[d] = open[d] /\ undo'[d] = undo[d]
      /\ at'[c] = "idle" /\ open'[c] = FALSE /\ undo'[c] = <<>>
  BY DEF End, TypeOK, OpType, RowsLocked
<1> QED
  BY <1>1, Nothing, LoggedEmpty DEF Busy

-----------------------------------------------------------------------------
(* Who has which operation.                                                *)

(* Nothing changes about it, or only an operation ends.                     *)
LEMMA AskedStays ==
  ASSUME Asked, UNCHANGED <<op, queue, answer>>
  PROVE  Asked'
BY DEF Asked

LEMMA EndAsked ==
  ASSUME TypeOK, Asked, NEW c \in Connection, NEW o, op[c] \in Op,
         op' = [op EXCEPT ![c] = None], queue' = queue,
         answer' = [answer EXCEPT ![op[c]] = o]
  PROVE  Asked'
<1>1. /\ op \in [Connection -> Op \cup {None}] /\ queue \in Seq(Op)
      /\ answer \in [Op -> {"new", "pending", "true", "false", "dropped"}]
      /\ None \notin Op
  BY DatabaseAssumption DEF TypeOK, OpType, DatabaseAssumption
<1>2. ASSUME NEW d \in Connection, op'[d] # None
      PROVE  /\ d # c /\ op'[d] = op[d] /\ op[d] \in Op /\ op[d] # op[c]
             /\ answer'[op[d]] = answer[op[d]]
  <2>1. d # c /\ op'[d] = op[d] /\ op[d] \in Op
    BY <1>1, <1>2
  <2>2. op[d] # op[c]
    BY <1>1, <2>1 DEF Asked
  <2> QED
    BY <1>1, <2>1, <2>2
<1>3. \A d \in Connection :
        op'[d] # None => answer'[op'[d]] = "pending" /\ (op'[d] \in Direct <=> d \in Sync)
  BY <1>2 DEF Asked
<1>4. \A d, e \in Connection : d # e /\ op'[d] # None => op'[d] # op'[e]
  <2>1. ASSUME NEW d \in Connection, NEW e \in Connection, d # e, op'[d] # None
        PROVE  op'[d] # op'[e]
    <3>1. CASE op'[e] = None
      BY <2>1, <3>1
    <3>2. CASE op'[e] # None
      BY <1>1, <1>2, <2>1, <3>2 DEF Asked
    <3> QED
      BY <3>1, <3>2
  <2> QED
    BY <2>1
<1>5. ASSUME NEW i \in DOMAIN queue
      PROVE  /\ answer'[queue[i]] = "pending" /\ queue[i] \notin Direct
             /\ \A d \in Connection : op'[d] # queue[i]
             /\ \A j \in DOMAIN queue \ {i} : queue[j] # queue[i]
  <2>1. queue[i] \in Op /\ op[c] # queue[i]
    BY <1>1 DEF Asked
  <2>2. answer'[queue[i]] = answer[queue[i]]
    BY <1>1, <2>1
  <2>3. \A d \in Connection : op'[d] # queue[i]
    BY <1>1, <2>1 DEF Asked
  <2> QED
    BY <2>2, <2>3 DEF Asked
<1> QED
  BY <1>3, <1>4, <1>5 DEF Asked

(* An operation that is new is nowhere yet.                                 *)
LEMMA NewIsNowhere ==
  ASSUME TypeOK, Asked, NEW o \in Op, answer[o] = "new"
  PROVE  /\ \A c \in Connection : op[c] # o
         /\ \A i \in DOMAIN queue : queue[i] # o
BY DatabaseAssumption DEF Asked, DatabaseAssumption

LEMMA EnqueueAsked ==
  ASSUME TypeOK, Asked, NEW o \in Op, Enqueue(o)
  PROVE  Asked'
<1>1. /\ op \in [Connection -> Op \cup {None}] /\ queue \in Seq(Op)
      /\ answer \in [Op -> {"new", "pending", "true", "false", "dropped"}]
      /\ None \notin Op
  BY DatabaseAssumption DEF TypeOK, OpType, DatabaseAssumption
<1>2. /\ o \notin Direct /\ queue' = Append(queue, o)
      /\ answer' = [answer EXCEPT ![o] = "pending"] /\ op' = op
  BY DEF Enqueue
<1>3. /\ \A c \in Connection : op[c] # o
      /\ \A i \in DOMAIN queue : queue[i] # o
  BY NewIsNowhere DEF Enqueue
<1>4. \A i \in DOMAIN queue' :
        \/ i \in DOMAIN queue /\ queue'[i] = queue[i] /\ queue[i] \in Op
        \/ i = Len(queue) + 1 /\ queue'[i] = o
  BY <1>1, <1>2
<1>5. \A p \in Op : answer'[p] = IF p = o THEN "pending" ELSE answer[p]
  BY <1>1, <1>2
<1>6. \A c \in Connection :
        op[c] # None => answer'[op[c]] = "pending" /\ (op[c] \in Direct <=> c \in Sync)
  BY <1>1, <1>5 DEF Asked
<1>7. ASSUME NEW i \in DOMAIN queue'
      PROVE  /\ answer'[queue'[i]] = "pending" /\ queue'[i] \notin Direct
             /\ \A c \in Connection : op[c] # queue'[i]
             /\ \A j \in DOMAIN queue' \ {i} : queue'[j] # queue'[i]
  <2>1. CASE i \in DOMAIN queue /\ queue'[i] = queue[i] /\ queue[i] \in Op
    <3>1. /\ answer[queue[i]] = "pending" /\ queue[i] \notin Direct
          /\ \A c \in Connection : op[c] # queue[i]
          /\ \A j \in DOMAIN queue \ {i} : queue[j] # queue[i]
      BY <2>1 DEF Asked
    <3> QED
      BY <1>3, <1>4, <1>5, <2>1, <3>1
  <2>2. CASE i = Len(queue) + 1 /\ queue'[i] = o
    <3>1. \A j \in DOMAIN queue' \ {i} : queue'[j] # o
      BY <1>3, <1>4, <2>2
    <3> QED
      BY <1>2, <1>3, <1>5, <2>2, <3>1
  <2> QED
    BY <1>4, <2>1, <2>2
<1> QED
  BY <1>2, <1>6, <1>7 DEF Asked

LEMMA DirectAsked ==
  ASSUME TypeOK, Asked, NEW c \in Sync, NEW o \in Op, DirectCommit(c, o)
  PROVE  Asked'
<1>1. /\ op \in [Connection -> Op \cup {None}] /\ queue \in Seq(Op)
      /\ answer \in [Op -> {"new", "pending", "true", "false", "dropped"}]
      /\ None \notin Op /\ c \in Connection
  BY DatabaseAssumption DEF TypeOK, OpType, DatabaseAssumption, Connection
<1>2. /\ o \in Direct /\ op' = [op EXCEPT ![c] = o] /\ queue' = queue
      /\ answer' = [answer EXCEPT ![o] = "pending"]
  BY DEF DirectCommit, Begin, pool
<1>3. /\ \A d \in Connection : op[d] # o
      /\ \A i \in DOMAIN queue : queue[i] # o
  BY NewIsNowhere DEF DirectCommit
<1>4. \A p \in Op : answer'[p] = IF p = o THEN "pending" ELSE answer[p]
  BY <1>1, <1>2
<1>5. \A d \in Connection : op'[d] = IF d = c THEN o ELSE op[d]
  BY <1>1, <1>2
<1>6. \A d \in Connection :
        op'[d] # None => answer'[op'[d]] = "pending" /\ (op'[d] \in Direct <=> d \in Sync)
  BY <1>1, <1>2, <1>4, <1>5 DEF Asked
<1>7. \A d, e \in Connection : d # e /\ op'[d] # None => op'[d] # op'[e]
  BY <1>3, <1>5 DEF Asked
<1>8. \A i \in DOMAIN queue :
        /\ answer'[queue[i]] = "pending" /\ queue[i] \notin Direct
        /\ \A d \in Connection : op'[d] # queue[i]
        /\ \A j \in DOMAIN queue \ {i} : queue[j] # queue[i]
  BY <1>1, <1>3, <1>4, <1>5 DEF Asked
<1> QED
  BY <1>2, <1>6, <1>7, <1>8 DEF Asked

LEMMA PopAsked ==
  ASSUME TypeOK, Asked, NEW w \in Worker, WaitAndPop(w)
  PROVE  Asked'
<1>1. /\ op \in [Connection -> Op \cup {None}] /\ queue \in Seq(Op) /\ queue # <<>>
      /\ None \notin Op /\ w \in Connection /\ w \notin Sync
  BY DatabaseAssumption DEF TypeOK, OpType, DatabaseAssumption, Connection, WaitAndPop
<1>2. /\ op' = [op EXCEPT ![w] = queue[1]] /\ queue' = Tail(queue) /\ answer' = answer
  BY <1>1 DEF WaitAndPop
<1>3. 1 \in DOMAIN queue /\ queue[1] \in Op
  BY <1>1
<1>4. \A i \in DOMAIN queue' : /\ i + 1 \in DOMAIN queue /\ queue'[i] = queue[i + 1]
                               /\ i + 1 # 1 /\ i \in Nat
  BY <1>1, <1>2
<1>5. \A d \in Connection : op'[d] = IF d = w THEN queue[1] ELSE op[d]
  BY <1>1, <1>2
<1>6. \A d \in Connection :
        op'[d] # None => answer[op'[d]] = "pending" /\ (op'[d] \in Direct <=> d \in Sync)
  BY <1>1, <1>3, <1>5 DEF Asked
<1>7. \A d, e \in Connection : d # e /\ op'[d] # None => op'[d] # op'[e]
  BY <1>3, <1>5 DEF Asked
<1>8. ASSUME NEW i \in DOMAIN queue'
      PROVE  /\ answer[queue'[i]] = "pending" /\ queue'[i] \notin Direct
             /\ \A d \in Connection : op'[d] # queue'[i]
             /\ \A j \in DOMAIN queue' \ {i} : queue'[j] # queue'[i]
  <2>1. i + 1 \in DOMAIN queue /\ queue'[i] = queue[i + 1] /\ i + 1 # 1 /\ i \in Nat
    BY <1>4
  <2>2. /\ answer[queue[i + 1]] = "pending" /\ queue[i + 1] \notin Direct
        /\ \A d \in Connection : op[d] # queue[i + 1]
        /\ \A j \in DOMAIN queue \ {i + 1} : queue[j] # queue[i + 1]
    BY <2>1 DEF Asked
  <2>3. \A d \in Connection : op'[d] # queue'[i]
    BY <1>3, <1>5, <2>1, <2>2
  <2>4. ASSUME NEW j \in DOMAIN queue' \ {i} PROVE queue'[j] # queue'[i]
    <3>1. j + 1 \in DOMAIN queue /\ queue'[j] = queue[j + 1] /\ j \in Nat
      BY <1>4
    <3>2. j + 1 # i + 1
      BY <2>1, <3>1
    <3> QED
      BY <2>1, <2>2, <3>1, <3>2
  <2> QED
    BY <2>1, <2>2, <2>3, <2>4
<1> QED
  BY <1>2, <1>6, <1>7, <1>8 DEF Asked

LEMMA CancelAsked ==
  ASSUME TypeOK, Asked, CancelQueue
  PROVE  Asked'
<1>1. /\ queue' = <<>> /\ op' = op /\ op \in [Connection -> Op \cup {None}]
      /\ answer' = [o \in Op |-> IF o \in Range(queue) THEN "dropped" ELSE answer[o]]
  BY DEF CancelQueue, TypeOK, OpType
<1>2. ASSUME NEW c \in Connection, op[c] # None
      PROVE  answer'[op[c]] = answer[op[c]]
  <2>1. op[c] \in Op
    BY <1>1, <1>2
  <2>2. op[c] \notin Range(queue)
    BY DEF Asked, Range
  <2> QED
    BY <1>1, <2>1, <2>2
<1>3. DOMAIN queue' = {}
  BY <1>1
<1>4. \A c \in Connection :
        op'[c] # None => answer'[op'[c]] = "pending" /\ (op'[c] \in Direct <=> c \in Sync)
  BY <1>1, <1>2 DEF Asked
<1>5. \A c, d \in Connection : c # d /\ op'[c] # None => op'[c] # op'[d]
  BY <1>1 DEF Asked
<1> QED
  BY <1>3, <1>4, <1>5 DEF Asked

-----------------------------------------------------------------------------
(* Every step keeps what the promise needs.                                *)

(* Steps that leave everything at its place.                                *)
LEMMA LoggedStays ==
  ASSUME Logged, UNCHANGED <<at, op, next, open, undo, table, lost>>
  PROVE  Logged'
BY DEF Logged, Busy, Done

LEMMA FailKeeps ==
  ASSUME IInv, NEW c \in Connection, Busy(c), NEW b \in BOOLEAN, Fail(c, b)
  PROVE  Asked' /\ Logged'
<1> USE DEF IInv
<1>1. /\ op[c] \in Op /\ table' = RolledBack(c) /\ lost' = lost /\ queue' = queue
      /\ op \in [Connection -> Op \cup {None}]
  BY DEF Fail, pool, TypeOK, OpType, Busy
<1>2. CASE TryAgain(c, b) /\ c \in Worker /\ tries[c] = 0
  <2>1. AskForLock(c) /\ UNCHANGED answer
    BY <1>2 DEF Fail
  <2>2. /\ \A d \in Connection \ {c} :
             /\ at'[d] = at[d] /\ op'[d] = op[d] /\ next'[d] = next[d]
             /\ open'[d] = open[d] /\ undo'[d] = undo[d]
        /\ at'[c] = "locking" /\ open'[c] = FALSE /\ undo'[c] = <<>> /\ op' = op
    BY <2>1 DEF AskForLock, TypeOK, RowsLocked
  <2>3. \A d \in Connection \ {c} : \A r \in DOMAIN undo[d] : table'[r] = table[r]
    BY <1>1, OthersRowsStay
  <2>4. Logged'
    BY <1>1, <2>2, <2>3, Nothing, LoggedEmpty DEF Busy
  <2> QED
    BY <1>1, <2>1, <2>2, <2>4, AskedStays
<1>3. CASE TryAgain(c, b) /\ ~ (c \in Worker /\ tries[c] = 0)
  <2>1. Begin(c, op[c], tries[c] + 1) /\ UNCHANGED answer
    BY <1>3 DEF Fail
  <2>2. op' = op
    BY <1>1, <2>1 DEF Begin
  <2> QED
    BY <1>1, <2>1, <2>2, AskedStays, BeginLogged
<1>4. CASE ~ TryAgain(c, b)
  <2>1. End(c, "false")
    BY <1>4 DEF Fail
  <2>2. Logged'
    BY <1>1, <2>1, OthersRowsStay, EndLogged
  <2>3. Asked'
    BY <1>1, <2>1, EndAsked DEF End
  <2> QED
    BY <2>2, <2>3
<1> QED
  BY <1>2, <1>3, <1>4

(* The row of a statement joins those that the transaction has locked.      *)
LEMMA ExecuteKeeps ==
  ASSUME IInv, NEW c \in Connection, Execute(c)
  PROVE  Asked' /\ Logged'
<1> USE DEF IInv
<1>1. /\ Busy(c) /\ op[c] \in Op /\ Rows[op[c]] \in Seq(Row)
      /\ next[c] \in 1 .. Len(Rows[op[c]]) /\ RowOf(c) \in Row
  BY StatementHasRow DEF Execute, Executable
<1>2. table' = Written(c) /\ lost' = lost /\ queue' = queue
  BY DEF Execute, pool
<1>3. \A d \in Connection \ {c} : \A r \in DOMAIN undo[d] : table'[r] = table[r]
  BY <1>1, <1>2, UnlockedStays DEF Execute, Executable
<1>4. CASE op[c] \notin Transaction
  <2>1. End(c, "true")
    BY <1>4 DEF Execute
  <2>2. Logged'
    BY <1>2, <1>3, <2>1, EndLogged
  <2>3. Asked'
    BY <1>1, <1>2, <2>1, EndAsked DEF End
  <2> QED
    BY <2>2, <2>3
<1>5. CASE op[c] \in Transaction
  <2>1. /\ at' = [at EXCEPT ![c] = "executing"]
        /\ next' = [next EXCEPT ![c] = @ + 1]
        /\ undo' = IF open[c] THEN [undo EXCEPT ![c] = Noted(c)] ELSE undo
        /\ UNCHANGED <<op, answer, open>>
    BY <1>5 DEF Execute
  <2>2. Asked'
    BY <1>2, <2>1, AskedStays
  <2>3. \A d \in Connection \ {c} :
          /\ at'[d] = at[d] /\ op'[d] = op[d] /\ next'[d] = next[d]
          /\ open'[d] = open[d] /\ undo'[d] = undo[d]
    BY <2>1 DEF TypeOK, OpType, RowsLocked
  <2>4. next'[c] = next[c] + 1 /\ op'[c] = op[c] /\ open'[c] = open[c]
    BY <2>1 DEF TypeOK, OpType
  <2>5. Done(c)' = Done(c) \cup {RowOf(c)}
    <3>1. 1 .. next'[c] - 1 = (1 .. next[c] - 1) \cup {next[c]}
      BY <1>1, <2>4
    <3> QED
      BY <2>4, <3>1 DEF Done, RowOf
  <2>6. table'[RowOf(c)] = op[c] /\ \A r \in Row : r # RowOf(c) => table'[r] = table[r]
    BY <1>1, <1>2 DEF Written, TypeOK
  <2>7. \A r \in DOMAIN undo[c] : r \in Row /\ table[r] = op[c]
    BY BeforeMember DEF TypeOK, RowsLocked, Logged
  <2>8. CASE open[c]
    <3>1. DOMAIN undo'[c] = DOMAIN undo[c] \cup {RowOf(c)}
      BY <1>1, <2>1, <2>8, NotedType DEF TypeOK, RowsLocked, Table
    <3>2. \A r \in DOMAIN undo'[c] : table'[r] = op'[c]
      BY <2>4, <2>6, <2>7, <3>1
    <3>3. /\ DOMAIN undo'[c] \subseteq Done(c)'
          /\ op[c] \notin lost => DOMAIN undo'[c] = Done(c)'
      BY <1>1, <1>5, <2>5, <3>1 DEF Logged
    <3> QED
      BY <1>2, <1>3, <1>5, <2>2, <2>3, <2>4, <2>8, <3>2, <3>3, LoggedOthers
  <2>9. CASE ~ open[c]
    <3>1. undo' = undo /\ DOMAIN undo[c] = {}
      BY <2>1, <2>9 DEF TypeOK, RowsLocked
    <3>2. op[c] \in lost
      BY <1>1, <1>5, <2>9 DEF Logged
    <3> QED
      BY <1>2, <1>3, <2>2, <2>3, <2>4, <2>9, <3>1, <3>2, LoggedEmpty
  <2> QED
    BY <2>8, <2>9
<1> QED
  BY <1>4, <1>5

LEMMA CommitKeeps ==
  ASSUME IInv, NEW c \in Connection, Commit(c)
  PROVE  Asked' /\ Logged'
<1>1. op[c] \in Op
  BY DEF IInv, TypeOK, OpType, Commit, Executable, Busy
<1>2. End(c, "true") /\ table' = table /\ lost' = lost /\ queue' = queue
  BY DEF Commit, pool
<1>3. Logged'
  BY <1>2, EndLogged DEF IInv
<1>4. Asked'
  BY <1>1, <1>2, EndAsked DEF End, IInv
<1> QED
  BY <1>3, <1>4

LEMMA AwaitKeeps ==
  ASSUME IInv, NEW c \in Connection, Await(c)
  PROVE  Asked' /\ Logged'
<1>1. /\ at[c] = "executing" /\ at' = [at EXCEPT ![c] = "waiting"]
      /\ UNCHANGED <<queue, op, next, answer, table, open, undo, lost>>
  BY DEF Await, pool
<1>2. \A d \in Connection : Busy(d)' <=> Busy(d)
  BY <1>1 DEF IInv, TypeOK, Busy
<1>3. Logged'
  BY <1>1, <1>2 DEF IInv, Logged, Done
<1> QED
  BY <1>1, <1>3, AskedStays DEF IInv

LEMMA LoseConnectionKeeps ==
  ASSUME IInv, NEW c \in Connection, LoseConnection(c)
  PROVE  Asked' /\ Logged'
<1> USE DEF IInv
<1>1. /\ Busy(c) /\ at' = [at EXCEPT ![c] = "executing"]
      /\ open' = [open EXCEPT ![c] = FALSE] /\ undo' = [undo EXCEPT ![c] = <<>>]
      /\ lost' = lost \cup {op[c]} /\ UNCHANGED <<queue, op, next, answer>>
  BY DEF LoseConnection, pool
<1>2. \A d \in Connection \ {c} : \A r \in DOMAIN undo[d] : table'[r] = table[r]
  <2>1. CASE table' = RolledBack(c)
    BY <2>1, OthersRowsStay
  <2>2. CASE table' = table
    BY <2>2
  <2>3. CASE Executable(c) /\ ~ open[c] /\ table' = Written(c)
    <3>1. ~ Committing(c)
      BY <1>1, <2>3 DEF Logged, LoseConnection, Committing
    <3> QED
      BY <1>1, <2>3, <3>1, UnlockedStays DEF Executable
  <2> QED
    BY <2>1, <2>2, <2>3 DEF LoseConnection
<1>3. /\ \A d \in Connection \ {c} :
           /\ at'[d] = at[d] /\ op'[d] = op[d] /\ next'[d] = next[d]
           /\ open'[d] = open[d] /\ undo'[d] = undo[d]
      /\ open'[c] = FALSE /\ undo'[c] = <<>>
      /\ op'[c] \in lost' /\ lost \subseteq lost'
  BY <1>1 DEF TypeOK, RowsLocked
<1>4. Logged'
  BY <1>2, <1>3, Nothing, LoggedEmpty
<1> QED
  BY <1>1, <1>4, AskedStays

(* Callers and workers: the connection was idle and holds nothing.          *)
LEMMA DirectKeeps ==
  ASSUME IInv, NEW c \in Sync, NEW o \in Op, DirectCommit(c, o)
  PROVE  Asked' /\ Logged'
<1>1. c \in Connection /\ Begin(c, o, 0) /\ table' = table /\ lost' = lost
  BY DEF DirectCommit, Connection
<1> QED
  BY <1>1, DirectAsked, BeginLogged DEF IInv

LEMMA StartKeeps ==
  ASSUME IInv, NEW w \in Worker, Start(w) \/ Lock(w)
  PROVE  Asked' /\ Logged'
<1>1. /\ w \in Connection /\ op[w] \in Op /\ op \in [Connection -> Op \cup {None}]
      /\ \E n \in {0, 1} : Begin(w, op[w], n)
      /\ table' = table /\ lost' = lost /\ UNCHANGED <<queue, answer>>
  BY DEF Start, Lock, pool, Connection, IInv, TypeOK, OpType
<1>2. op' = op
  BY <1>1 DEF Begin
<1> QED
  BY <1>1, <1>2, AskedStays, BeginLogged DEF IInv

LEMMA WorkerKeeps ==
  ASSUME IInv, NEW w \in Worker, WaitAndPop(w) \/ PopNothing(w) \/ Leave(w)
  PROVE  Asked' /\ Logged'
<1> USE DEF IInv
<1>1. /\ w \in Connection /\ ~ Busy(w)
      /\ op \in [Connection -> Op \cup {None}] /\ at \in [Connection -> Place]
  BY DEF Connection, WaitAndPop, PopNothing, Leave, Busy, TypeOK, OpType, Place
<1>2. ~ open[w] /\ DOMAIN undo[w] = {}
  BY <1>1, IdleHoldsNothing
<1>3. /\ \A d \in Connection \ {w} : at'[d] = at[d] /\ op'[d] = op[d]
      /\ at'[w] \in {"popped", "gone"}
      /\ UNCHANGED <<next, table, open, undo, lost>>
  BY <1>1 DEF WaitAndPop, PopNothing, Leave
<1>4. Logged'
  BY <1>1, <1>2, <1>3, LoggedEmpty DEF Busy
<1>5. CASE WaitAndPop(w)
  BY <1>4, <1>5, PopAsked
<1>6. CASE PopNothing(w)
  BY <1>4, <1>6, AskedStays DEF PopNothing, pool
<1>7. CASE Leave(w)
  <2>1. op[w] \in Op
    BY <1>1, <1>7, DatabaseAssumption DEF Leave, TypeOK, OpType, DatabaseAssumption
  <2> QED
    BY <1>1, <1>4, <1>7, <2>1, EndAsked DEF Leave, pool
<1> QED
  BY <1>5, <1>6, <1>7

LEMMA ClosingKeeps ==
  ASSUME IInv, Close \/ Closing \/ Closed \/ UNCHANGED vars
  PROVE  Asked' /\ Logged'
<1>1. UNCHANGED <<at, op, next, table, open, undo, lost>>
  BY DEF Close, Closing, SetToken, CancelQueue, Join, Closed, vars
<1>2. CASE CancelQueue
  BY <1>1, <1>2, CancelAsked, LoggedStays DEF IInv
<1>3. CASE ~ CancelQueue
  <2>1. UNCHANGED <<op, queue, answer>>
    BY <1>3 DEF Close, Closing, SetToken, Join, Closed, vars, pool
  <2> QED
    BY <1>1, <2>1, AskedStays, LoggedStays DEF IInv
<1> QED
  BY <1>2, <1>3

(* Only a pool that is being closed cancels its workers.                    *)
LEMMA ToldStays ==
  ASSUME Told, TypeOK, [Next]_vars
  PROVE  Told'
<1>1. CASE UNCHANGED <<main, token>>
  BY <1>1 DEF Told
<1>2. CASE Close \/ CancelQueue \/ Join \/ \E w \in Worker : SetToken(w)
  <2>1. main' # "running"
    BY <1>2 DEF Close, CancelQueue, Join, SetToken
  <2> QED
    BY <2>1 DEF Told
<1>3. CASE Close \/ Closing \/ Closed \/ UNCHANGED vars
  BY <1>1, <1>2, <1>3 DEF Closing, Closed, vars, pool
<1>4. ASSUME NEW c \in Connection, Steps(c) \/ Deadlock(c) \/ LoseConnection(c)
      PROVE  UNCHANGED <<main, token>>
  BY <1>4 DEF Steps, Await, Execute, Commit, StatementFails, Deadlock, Fail,
              LoseConnection, pool
<1>5. ASSUME NEW w \in Worker, WorkerSteps(w) PROVE UNCHANGED <<main, token>>
  BY <1>5 DEF WorkerSteps, WaitAndPop, PopNothing, Start, Leave, Lock, pool
<1>6. ASSUME NEW o \in Op, Enqueue(o) PROVE UNCHANGED <<main, token>>
  BY <1>6 DEF Enqueue
<1>7. ASSUME NEW c, NEW o, DirectCommit(c, o) PROVE UNCHANGED <<main, token>>
  BY <1>7 DEF DirectCommit, pool
<1> QED
  BY <1>1, <1>3, <1>4, <1>5, <1>6, <1>7 DEF Next

LEMMA InitInvariant == Init => IInv
<1> SUFFICES ASSUME Init PROVE IInv
  OBVIOUS
<1>1. Asked /\ Told
  BY DEF Init, Asked, Told
<1>2. Logged
  BY Nothing DEF Init, Logged, Busy
<1> QED
  BY <1>1, <1>2, InitType DEF IInv

LEMMA NextInvariant == IInv /\ [Next]_vars => IInv'
<1> SUFFICES ASSUME IInv, [Next]_vars PROVE IInv'
  OBVIOUS
<1>1. TypeOK' /\ Told'
  BY NextKeeps, ToldStays DEF IInv
<1>2. ASSUME NEW o \in Op, Enqueue(o) PROVE Asked' /\ Logged'
  BY <1>2, EnqueueAsked, LoggedStays DEF IInv, Enqueue
<1>3. ASSUME NEW w \in Worker, WorkerSteps(w) PROVE Asked' /\ Logged'
  BY <1>3, WorkerKeeps, StartKeeps DEF WorkerSteps
<1>4. ASSUME NEW c \in Connection, Steps(c) \/ Deadlock(c) \/ LoseConnection(c)
      PROVE  Asked' /\ Logged'
  <2>1. CASE StatementFails(c) \/ Deadlock(c)
    BY <2>1, FailKeeps DEF StatementFails, Deadlock, Busy
  <2> QED
    BY <1>4, <2>1, AwaitKeeps, ExecuteKeeps, CommitKeeps, LoseConnectionKeeps DEF Steps
<1> QED
  BY <1>1, <1>2, <1>3, <1>4, DirectKeeps, ClosingKeeps DEF Next, IInv

(* The invariant behind the implementation of Store.                        *)
THEOREM InvariantHolds == Spec => []IInv
BY InitInvariant, NextInvariant, PTL DEF Spec

-----------------------------------------------------------------------------
(* The table that others can see.                                          *)

Holder(und, r) == CHOOSE c \in Connection : r \in DOMAIN und[c]

View(tbl, und) ==
  [r \in Row |-> IF \E c \in Connection : r \in DOMAIN und[c]
                 THEN und[Holder(und, r)][r] ELSE tbl[r]]

LEMMA CommittedIsView == Committed = View(table, undo) /\ Committed' = View(table', undo')
BY DEF Committed, View, Holder, Holds

Apart(und) ==
  \A c, d \in Connection : c # d => DOMAIN und[c] \cap DOMAIN und[d] = {}

(* Of a locked row others see what its holder found.                        *)
LEMMA ViewOfRow ==
  ASSUME NEW tbl, NEW und, Apart(und), NEW r \in Row
  PROVE  /\ \A c \in Connection : r \in DOMAIN und[c] => View(tbl, und)[r] = und[c][r]
         /\ (\A c \in Connection : r \notin DOMAIN und[c]) => View(tbl, und)[r] = tbl[r]
<1>1. ASSUME NEW c \in Connection, r \in DOMAIN und[c]
      PROVE  View(tbl, und)[r] = und[c][r]
  <2>1. Holder(und, r) \in Connection /\ r \in DOMAIN und[Holder(und, r)]
    BY <1>1 DEF Holder
  <2>2. Holder(und, r) = c
    BY <1>1, <2>1 DEF Apart
  <2> QED
    BY <1>1, <2>2 DEF View
<1>2. ASSUME \A c \in Connection : r \notin DOMAIN und[c]
      PROVE  View(tbl, und)[r] = tbl[r]
  BY <1>2 DEF View
<1> QED
  BY <1>1, <1>2

(* Before and after a step others see, of a row that is locked, what its    *)
(* holder found, and else the table.                                        *)
LEMMA SeenBefore ==
  ASSUME TypeOK, NEW r \in Row
  PROVE  /\ \A c \in Connection : r \in DOMAIN undo[c] => Committed[r] = undo[c][r]
         /\ (\A c \in Connection : r \notin DOMAIN undo[c]) => Committed[r] = table[r]
<1>1. Apart(undo)
  BY DEF TypeOK, RowsLocked, Apart
<1> QED
  BY <1>1, ViewOfRow, CommittedIsView

LEMMA SeenAfter ==
  ASSUME TypeOK', NEW r \in Row
  PROVE  /\ \A c \in Connection : r \in DOMAIN undo'[c] => Committed'[r] = undo'[c][r]
         /\ (\A c \in Connection : r \notin DOMAIN undo'[c]) => Committed'[r] = table'[r]
<1>1. Apart(undo')
  BY DEF TypeOK, RowsLocked, Apart
<1> QED
  BY <1>1, ViewOfRow, CommittedIsView

(* The rows that others have locked look the same as long as they are.      *)
LEMMA OthersLookTheSame ==
  ASSUME TypeOK, TypeOK', NEW d \in Connection, undo'[d] = undo[d],
         NEW r \in Row, r \in DOMAIN undo[d]
  PROVE  Committed'[r] = Committed[r] /\ \A c \in Connection \ {d} : r \notin DOMAIN undo[c]
<1>1. Committed[r] = undo[d][r]
  BY SeenBefore
<1>2. Committed'[r] = undo'[d][r]
  BY SeenAfter
<1>3. \A c \in Connection \ {d} : r \notin DOMAIN undo[c]
  BY DEF TypeOK, RowsLocked
<1> QED
  BY <1>1, <1>2, <1>3

(* A table is what its rows are.                                            *)
LEMMA SameRowsSameTable ==
  (\A r \in Row : Committed'[r] = Committed[r]) => Committed' = Committed
BY DEF Committed

LEMMA RowsPut ==
  ASSUME NEW o, NEW R,
         \A r \in Row : Committed'[r] = IF r \in R THEN o ELSE Committed[r]
  PROVE  Committed' = Promise!Put(o, R)
<1>1. Committed' = [r \in Row |-> Committed'[r]]
  BY DEF Committed
<1> QED
  BY <1>1 DEF Promise!Put

(* A rollback changes nothing that others see.                              *)
LEMMA RollbackIsInvisible ==
  ASSUME TypeOK, TypeOK', NEW c \in Connection,
         table' = RolledBack(c), undo' = [undo EXCEPT ![c] = <<>>]
  PROVE  Committed' = Committed
<1>1. /\ \A d \in Connection \ {c} : undo'[d] = undo[d]
      /\ undo'[c] = <<>> /\ DOMAIN undo'[c] = {}
  BY Nothing DEF TypeOK, RowsLocked
<1>2. ASSUME NEW r \in Row PROVE Committed'[r] = Committed[r]
  <2>1. CASE \E d \in Connection \ {c} : r \in DOMAIN undo[d]
    BY <1>1, <2>1, OthersLookTheSame
  <2>2. CASE \A d \in Connection \ {c} : r \notin DOMAIN undo[d]
    <3>1. \A d \in Connection : r \notin DOMAIN undo'[d]
      BY <1>1, <2>2
    <3>2. Committed'[r] = table'[r]
      BY <3>1, SeenAfter
    <3>3. table'[r] = IF r \in DOMAIN undo[c] THEN undo[c][r] ELSE table[r]
      BY DEF RolledBack, Old, Holds
    <3>4. Committed[r] = IF r \in DOMAIN undo[c] THEN undo[c][r] ELSE table[r]
      BY <2>2, SeenBefore
    <3> QED
      BY <3>2, <3>3, <3>4
  <2> QED
    BY <2>1, <2>2
<1> QED
  BY <1>2, SameRowsSameTable

(* A commit shows the rows that the connection has locked, all at once.     *)
LEMMA CommitShows ==
  ASSUME TypeOK, Logged, TypeOK', NEW c \in Connection,
         table' = table, undo' = [undo EXCEPT ![c] = <<>>]
  PROVE  Committed' = Promise!Put(op[c], DOMAIN undo[c])
<1>1. /\ \A d \in Connection \ {c} : undo'[d] = undo[d]
      /\ undo'[c] = <<>> /\ DOMAIN undo'[c] = {}
  BY Nothing DEF TypeOK, RowsLocked
<1>2. ASSUME NEW r \in Row
      PROVE  Committed'[r] = IF r \in DOMAIN undo[c] THEN op[c] ELSE Committed[r]
  <2>1. CASE \E d \in Connection \ {c} : r \in DOMAIN undo[d]
    BY <1>1, <2>1, OthersLookTheSame
  <2>2. CASE \A d \in Connection \ {c} : r \notin DOMAIN undo[d]
    <3>1. \A d \in Connection : r \notin DOMAIN undo'[d]
      BY <1>1, <2>2
    <3>2. Committed'[r] = table[r]
      BY <3>1, SeenAfter
    <3>3. r \in DOMAIN undo[c] => table[r] = op[c]
      BY DEF Logged
    <3>4. r \notin DOMAIN undo[c] => Committed[r] = table[r]
      BY <2>2, SeenBefore
    <3> QED
      BY <3>2, <3>3, <3>4
  <2> QED
    BY <2>1, <2>2
<1> QED
  BY <1>2, RowsPut

(* A statement outside a transaction shows its row at once.                 *)
LEMMA StatementShows ==
  ASSUME TypeOK, TypeOK', NEW c \in Connection, Busy(c), ~ Committing(c), ~ Blocked(c),
         DOMAIN undo[c] = {}, DOMAIN undo'[c] = {},
         \A d \in Connection \ {c} : undo'[d] = undo[d],
         table' = Written(c)
  PROVE  Committed' = Promise!Put(op[c], {RowOf(c)})
<1>1. /\ RowOf(c) \in Row /\ next[c] \in DOMAIN Rows[op[c]]
      /\ \A r \in Row : table'[r] = IF r = RowOf(c) THEN op[c] ELSE table[r]
  BY StatementHasRow DEF Written, TypeOK
<1>2. \A d \in Connection : RowOf(c) \notin DOMAIN undo[d]
  BY <1>1 DEF Blocked, Locked, Holds
<1>3. ASSUME NEW r \in Row
      PROVE  Committed'[r] = IF r \in {RowOf(c)} THEN op[c] ELSE Committed[r]
  <2>1. CASE \E d \in Connection : r \in DOMAIN undo[d]
    BY <1>2, <2>1, OthersLookTheSame
  <2>2. CASE \A d \in Connection : r \notin DOMAIN undo[d]
    <3>1. \A d \in Connection : r \notin DOMAIN undo'[d]
      BY <2>2
    <3>2. Committed'[r] = table'[r] /\ Committed[r] = table[r]
      BY <2>2, <3>1, SeenBefore, SeenAfter
    <3> QED
      BY <1>1, <3>2
  <2> QED
    BY <2>1, <2>2
<1> QED
  BY <1>3, RowsPut

(* One inside a transaction is not seen.                                    *)
LEMMA NoteIsInvisible ==
  ASSUME TypeOK, TypeOK', NEW c \in Connection, Busy(c), ~ Committing(c), ~ Blocked(c),
         undo' = [undo EXCEPT ![c] = Noted(c)], table' = Written(c)
  PROVE  Committed' = Committed
<1>1. /\ RowOf(c) \in Row /\ next[c] \in DOMAIN Rows[op[c]]
      /\ \A r \in Row : table'[r] = IF r = RowOf(c) THEN op[c] ELSE table[r]
  BY StatementHasRow DEF Written, TypeOK
<1>2. \A d \in Connection \ {c} : RowOf(c) \notin DOMAIN undo[d] /\ undo'[d] = undo[d]
  BY <1>1 DEF Blocked, Locked, Holds, TypeOK, RowsLocked
<1>3. /\ undo'[c] = Noted(c) /\ DOMAIN undo'[c] = DOMAIN undo[c] \cup {RowOf(c)}
      /\ \A r \in DOMAIN undo'[c] :
           undo'[c][r] = IF r \in DOMAIN undo[c] THEN undo[c][r] ELSE table[r]
  BY DEF TypeOK, RowsLocked, Noted, Old, Holds
<1>4. ASSUME NEW r \in Row PROVE Committed'[r] = Committed[r]
  <2>1. CASE \E d \in Connection \ {c} : r \in DOMAIN undo[d]
    BY <1>2, <2>1, OthersLookTheSame
  <2>2. CASE \A d \in Connection \ {c} : r \notin DOMAIN undo[d]
    <3>1. Committed[r] = IF r \in DOMAIN undo[c] THEN undo[c][r] ELSE table[r]
      BY <2>2, SeenBefore
    <3>2. CASE r \in DOMAIN undo'[c]
      BY <1>3, <3>1, <3>2, SeenAfter
    <3>3. CASE r \notin DOMAIN undo'[c]
      <4>1. \A d \in Connection : r \notin DOMAIN undo'[d]
        BY <1>2, <2>2, <3>3
      <4>2. Committed'[r] = table'[r] /\ r # RowOf(c) /\ r \notin DOMAIN undo[c]
        BY <1>3, <3>3, <4>1, SeenAfter
      <4> QED
        BY <1>1, <3>1, <4>2
    <3> QED
      BY <3>2, <3>3
  <2> QED
    BY <2>1, <2>2
<1> QED
  BY <1>4, SameRowsSameTable

(* Nor is it when the empty log of an idle connection is emptied.           *)
LEMMA EmptyLogIsInvisible ==
  ASSUME TypeOK, TypeOK', NEW c \in Connection, ~ Busy(c),
         table' = table, undo' = [undo EXCEPT ![c] = <<>>]
  PROVE  Committed' = Committed
<1>1. RolledBack(c) = [r \in Row |-> table[r]]
  BY IdleHoldsNothing DEF RolledBack, Old, Holds
<1>2. table' = RolledBack(c)
  BY <1>1 DEF TypeOK
<1> QED
  BY <1>2, RollbackIsInvisible

-----------------------------------------------------------------------------
(* Each step is a step of Store, or none.                                  *)

(* A worker has time for another retry when a deadlock may end its          *)
(* transaction.  The 60 seconds of the code are AsyncTries retries at least,*)
(* which may be too few against enough transactions of others.              *)
HasTime ==
  \A w \in Worker :
    at[w] = "waiting" /\ OnCycle(w) /\ op[w] \notin Faulty \cup lost
    => tries[w] < AsyncTries

(* What others see stays as it is.                                          *)
Hidden == Committed' = Committed /\ UNCHANGED <<answer, lost>> /\ main' = main

LEMMA HiddenIsStutter == Hidden => UNCHANGED Promise!vars
BY DEF Hidden, Promise!vars

(* The rows of the statements so far are rows of the operation.             *)
LEMMA DoneIsWritten ==
  ASSUME TypeOK, NEW c \in Connection, Busy(c)
  PROVE  /\ Done(c) \subseteq Range(Rows[op[c]])
         /\ Committing(c) => Done(c) = Range(Rows[op[c]])
         /\ ~ Committing(c) => RowOf(c) \in Range(Rows[op[c]])
<1>1. /\ op[c] \in Op /\ Rows[op[c]] \in Seq(Row) /\ next[c] \in Nat \ {0}
      /\ next[c] <= Len(Rows[op[c]]) + (IF op[c] \in Transaction THEN 1 ELSE 0)
  BY DatabaseAssumption DEF TypeOK, OpType, Busy, DatabaseAssumption
<1>2. Len(Rows[op[c]]) \in Nat /\ DOMAIN Rows[op[c]] = 1 .. Len(Rows[op[c]])
  BY <1>1
<1>3. 1 .. (next[c] - 1) \subseteq DOMAIN Rows[op[c]]
  <2> DEFINE n == next[c]
             m == Len(Rows[op[c]])
  <2>1. n \in Nat /\ m \in Nat /\ (n <= m + 1 \/ n <= m + 0)
    <3>1. CASE op[c] \in Transaction
      BY <1>1, <1>2, <3>1
    <3>2. CASE op[c] \notin Transaction
      BY <1>1, <1>2, <3>2
    <3> QED
      BY <3>1, <3>2
  <2> HIDE DEF n, m
  <2>2. 1 .. (n - 1) \subseteq 1 .. m
    BY <2>1
  <2> QED
    BY <1>2, <2>2 DEF n, m
<1>4. Committing(c) => 1 .. next[c] - 1 = DOMAIN Rows[op[c]]
  BY <1>1, <1>2 DEF Committing
<1>5. ~ Committing(c) => RowOf(c) \in Range(Rows[op[c]])
  <2>1. ~ Committing(c) => next[c] \in DOMAIN Rows[op[c]]
    BY <1>2, StatementHasRow
  <2> QED
    BY <2>1 DEF RowOf, Range
<1> QED
  BY <1>3, <1>4, <1>5 DEF Done, Range

(* What is answered has been asked for, and nothing else is answered.       *)
LEMMA EndMaps ==
  ASSUME IInv, NEW c \in Connection, Busy(c), NEW a \in {"true", "false"},
         End(c, a), lost' = lost, main' = main
  PROVE  /\ op[c] \in Op /\ answer[op[c]] = "pending"
         /\ answer' = [answer EXCEPT ![op[c]] = a]
         /\ (main # "running")' = (main # "running")
         /\ undo' = [undo EXCEPT ![c] = <<>>]
<1>1. op[c] \in Op
  BY DEF IInv, TypeOK, OpType, Busy
<1> QED
  BY <1>1, BusyHasAsked DEF IInv, End

(* An operation fails without effect because the server refuses it, because *)
(* a caller gives up, or because its connection was lost.                   *)
LEMMA FailMaps ==
  ASSUME IInv, TypeOK', NEW c \in Connection, Busy(c), NEW b \in BOOLEAN, Fail(c, b),
         TryAgain(c, b) \/ op[c] \in Faulty \cup Direct \cup lost
  PROVE  [Promise!Next]_Promise!vars
<1>1. /\ table' = RolledBack(c) /\ lost' = lost /\ main' = main
      /\ op[c] \in Op
  BY DEF Fail, pool, IInv, TypeOK, OpType, Busy
<1>2. undo' = [undo EXCEPT ![c] = <<>>]
  BY DEF Fail, AskForLock, Begin, End
<1>3. Committed' = Committed
  BY <1>1, <1>2, RollbackIsInvisible DEF IInv
<1>4. CASE TryAgain(c, b)
  <2>1. Hidden
    BY <1>1, <1>3, <1>4 DEF Fail, Hidden
  <2> QED
    BY <2>1, HiddenIsStutter
<1>5. CASE ~ TryAgain(c, b)
  <2>1. End(c, "false")
    BY <1>5 DEF Fail
  <2>2. /\ op[c] \in Op /\ answer[op[c]] = "pending"
        /\ answer' = [answer EXCEPT ![op[c]] = "false"]
        /\ (main # "running")' = (main # "running")
    BY <1>1, <2>1, EndMaps
  <2>3. CASE op[c] \notin lost
    <3>1. Promise!Fail(op[c])
      BY <1>1, <1>3, <1>5, <2>2, <2>3 DEF Promise!Fail
    <3> QED
      BY <2>2, <3>1 DEF Promise!Next
  <2>4. CASE op[c] \in lost
    <3>1. Committed' = Promise!Put(op[c], {})
      BY <1>3, RowsPut
    <3>2. Promise!EndLost(op[c])
      BY <1>1, <2>2, <2>4, <3>1 DEF Promise!EndLost
    <3> QED
      BY <2>2, <3>2 DEF Promise!Next
  <2> QED
    BY <2>3, <2>4
<1> QED
  BY <1>4, <1>5

(* A commit makes the transaction as a whole visible.                       *)
LEMMA CommitMaps ==
  ASSUME IInv, TypeOK', NEW c \in Connection, Commit(c)
  PROVE  [Promise!Next]_Promise!vars
<1> USE DEF IInv
<1>1. /\ Busy(c) /\ Committing(c) /\ ~ Refused(c) /\ End(c, "true")
      /\ table' = table /\ lost' = lost /\ main' = main
  BY DEF Commit, Executable, pool
<1>2. /\ op[c] \in Op /\ answer[op[c]] = "pending"
      /\ answer' = [answer EXCEPT ![op[c]] = "true"]
      /\ (main # "running")' = (main # "running")
      /\ undo' = [undo EXCEPT ![c] = <<>>]
  BY <1>1, EndMaps
<1>3. Committed' = Promise!Put(op[c], DOMAIN undo[c])
  BY <1>1, <1>2, CommitShows
<1>4. DOMAIN undo[c] \subseteq Range(Rows[op[c]])
  BY <1>1, DoneIsWritten DEF Logged
<1>5. CASE op[c] \notin lost
  <2>1. DOMAIN undo[c] = Range(Rows[op[c]])
    BY <1>1, <1>5, DoneIsWritten DEF Logged, Committing
  <2>2. op[c] \notin Faulty
    <3>1. Len(Rows[op[c]]) \in Nat /\ next[c] \in Nat
      BY <1>2, DatabaseAssumption DEF DatabaseAssumption, TypeOK, OpType
    <3> QED
      BY <1>1, <3>1 DEF Refused, Committing
  <2>3. Promise!Succeed(op[c])
    BY <1>1, <1>2, <1>3, <1>5, <2>1, <2>2 DEF Promise!Succeed
  <2> QED
    BY <1>2, <2>3 DEF Promise!Next
<1>6. CASE op[c] \in lost
  <2>1. Promise!EndLost(op[c])
    BY <1>1, <1>2, <1>3, <1>4, <1>6 DEF Promise!EndLost
  <2> QED
    BY <1>2, <2>1 DEF Promise!Next
<1> QED
  BY <1>5, <1>6

(* A single statement is visible at once, and so is one of a transaction    *)
(* whose connection was lost; all others only when they are committed.      *)
LEMMA ExecuteMaps ==
  ASSUME IInv, TypeOK', NEW c \in Connection, Execute(c)
  PROVE  [Promise!Next]_Promise!vars
<1> USE DEF IInv
<1>1. /\ Busy(c) /\ ~ Committing(c) /\ ~ Blocked(c) /\ ~ Refused(c)
      /\ table' = Written(c) /\ lost' = lost /\ main' = main
  BY DEF Execute, Executable, pool
<1>2. /\ op[c] \in Op /\ Rows[op[c]] \in Seq(Row) /\ answer[op[c]] = "pending"
      /\ RowOf(c) \in Range(Rows[op[c]]) /\ next[c] \in 1 .. Len(Rows[op[c]])
  BY <1>1, StatementHasRow, DoneIsWritten, BusyHasAsked
<1>3. (main # "running")' = (main # "running")
  BY <1>1
<1>4. CASE op[c] \notin Transaction
  <2>1. End(c, "true")
    BY <1>4 DEF Execute
  <2>2. /\ answer' = [answer EXCEPT ![op[c]] = "true"]
        /\ undo' = [undo EXCEPT ![c] = <<>>]
    BY <1>1, <2>1, EndMaps
  <2>3. DOMAIN undo[c] = {} /\ DOMAIN undo'[c] = {}
    BY <1>4, <2>2, Nothing DEF Logged, TypeOK, RowsLocked
  <2>4. \A d \in Connection \ {c} : undo'[d] = undo[d]
    BY <2>2 DEF TypeOK, RowsLocked
  <2>5. Committed' = Promise!Put(op[c], {RowOf(c)})
    BY <1>1, <2>3, <2>4, StatementShows
  <2>6. Len(Rows[op[c]]) = 1
    BY <1>2, <1>4, DatabaseAssumption DEF DatabaseAssumption
  <2>7. Range(Rows[op[c]]) = {RowOf(c)} /\ op[c] \notin Faulty
    <3>1. next[c] = 1 /\ DOMAIN Rows[op[c]] = {1}
      BY <1>2, <2>6
    <3> QED
      BY <1>1, <2>6, <3>1 DEF Range, RowOf, Refused
  <2>8. CASE op[c] \notin lost
    <3>1. Promise!Succeed(op[c])
      BY <1>1, <1>2, <1>3, <2>2, <2>5, <2>7, <2>8 DEF Promise!Succeed
    <3> QED
      BY <1>2, <3>1 DEF Promise!Next
  <2>9. CASE op[c] \in lost
    <3>1. Promise!EndLost(op[c])
      BY <1>1, <1>2, <1>3, <2>2, <2>5, <2>9 DEF Promise!EndLost
    <3> QED
      BY <1>2, <3>1 DEF Promise!Next
  <2> QED
    BY <2>8, <2>9
<1>5. CASE op[c] \in Transaction
  <2>1. /\ undo' = IF open[c] THEN [undo EXCEPT ![c] = Noted(c)] ELSE undo
        /\ answer' = answer
    BY <1>5 DEF Execute
  <2>2. CASE open[c]
    <3>1. Committed' = Committed
      BY <1>1, <2>1, <2>2, NoteIsInvisible
    <3> QED
      BY <1>1, <2>1, <3>1, HiddenIsStutter DEF Hidden
  <2>3. CASE ~ open[c]
    <3>1. undo' = undo /\ DOMAIN undo[c] = {} /\ op[c] \in lost
      BY <1>1, <1>5, <2>1, <2>3 DEF Logged, TypeOK, RowsLocked
    <3>2. Committed' = Promise!Put(op[c], {RowOf(c)})
      BY <1>1, <3>1, StatementShows
    <3>3. lost' = lost \cup {op[c]}
      BY <1>1, <3>1
    <3>4. Promise!Lose(op[c])
      BY <1>2, <1>3, <2>1, <3>2, <3>3 DEF Promise!Lose
    <3> QED
      BY <1>2, <3>4 DEF Promise!Next
  <2> QED
    BY <2>2, <2>3
<1> QED
  BY <1>4, <1>5

(* With the connection the server loses what was not committed, except when *)
(* it had just executed the COMMIT or the single statement.                 *)
LEMMA LoseConnectionMaps ==
  ASSUME IInv, TypeOK', NEW c \in Connection, LoseConnection(c)
  PROVE  [Promise!Next]_Promise!vars
<1> USE DEF IInv
<1>1. /\ Busy(c) /\ undo' = [undo EXCEPT ![c] = <<>>] /\ op[c] \notin lost
      /\ lost' = lost \cup {op[c]} /\ answer' = answer /\ main' = main
  BY DEF LoseConnection, pool
<1>2. op[c] \in Op /\ answer[op[c]] = "pending"
  BY <1>1, BusyHasAsked DEF TypeOK, OpType, Busy
<1>3. \E R \in SUBSET Range(Rows[op[c]]) : Committed' = Promise!Put(op[c], R)
  <2>1. CASE table' = RolledBack(c)
    <3>1. Committed' = Committed
      BY <1>1, <2>1, RollbackIsInvisible
    <3>2. Committed' = Promise!Put(op[c], {})
      BY <3>1, RowsPut
    <3> QED
      BY <3>2
  <2>2. CASE table' = table
    <3>1. Committed' = Promise!Put(op[c], DOMAIN undo[c])
      BY <1>1, <2>2, CommitShows
    <3>2. DOMAIN undo[c] \subseteq Range(Rows[op[c]])
      BY <1>1, DoneIsWritten DEF Logged
    <3> QED
      BY <3>1, <3>2
  <2>3. CASE Executable(c) /\ ~ open[c] /\ table' = Written(c)
    <3>1. ~ Committing(c) /\ DOMAIN undo[c] = {}
      BY <1>1, <2>3 DEF Logged, Committing, TypeOK, RowsLocked
    <3>2. DOMAIN undo'[c] = {} /\ \A d \in Connection \ {c} : undo'[d] = undo[d]
      BY <1>1, Nothing DEF TypeOK, RowsLocked
    <3>3. Committed' = Promise!Put(op[c], {RowOf(c)})
      BY <1>1, <2>3, <3>1, <3>2, StatementShows DEF Executable
    <3>4. {RowOf(c)} \subseteq Range(Rows[op[c]])
      BY <1>1, <3>1, DoneIsWritten
    <3> QED
      BY <3>3, <3>4
  <2> QED
    BY <2>1, <2>2, <2>3 DEF LoseConnection
<1>4. Promise!Lose(op[c])
  BY <1>1, <1>2, <1>3 DEF Promise!Lose
<1> QED
  BY <1>2, <1>4 DEF Promise!Next

(* Of the steps of threads others see only that an operation is asked for.  *)
LEMMA HiddenSteps ==
  ASSUME IInv, TypeOK', NEW c \in Connection,
         \/ Await(c)
         \/ c \in Worker /\ (WaitAndPop(c) \/ PopNothing(c) \/ Start(c) \/ Lock(c))
  PROVE  UNCHANGED Promise!vars
<1> USE DEF IInv
<1>1. UNCHANGED <<table, answer, lost>> /\ main' = main
  BY DEF Await, WaitAndPop, PopNothing, Start, Lock, pool
<1>2. CASE Await(c) \/ WaitAndPop(c) \/ PopNothing(c)
  <2>1. undo' = undo
    BY <1>2 DEF Await, WaitAndPop, PopNothing
  <2>2. Committed' = Committed
    BY <1>1, <2>1 DEF Committed, Holds
  <2> QED
    BY <1>1, <2>2, HiddenIsStutter DEF Hidden
<1>3. CASE Start(c) \/ Lock(c)
  <2>1. ~ Busy(c) /\ undo' = [undo EXCEPT ![c] = <<>>]
    BY <1>3 DEF Start, Lock, Begin, Busy
  <2>2. Committed' = Committed
    BY <1>1, <2>1, EmptyLogIsInvisible
  <2> QED
    BY <1>1, <2>2, HiddenIsStutter DEF Hidden
<1> QED
  BY <1>2, <1>3

LEMMA AskMaps ==
  ASSUME IInv, TypeOK', NEW o \in Op, Enqueue(o) \/ \E c \in Sync : DirectCommit(c, o)
  PROVE  Promise!Next
<1>1. /\ answer[o] = "new" /\ main = "running" /\ main' = main
      /\ answer' = [answer EXCEPT ![o] = "pending"] /\ UNCHANGED <<table, lost>>
  BY DEF Enqueue, DirectCommit, pool
<1>2. Committed' = Committed
  <2>1. CASE Enqueue(o)
    BY <1>1, <2>1 DEF Enqueue, Committed, Holds
  <2>2. ASSUME NEW c \in Sync, DirectCommit(c, o) PROVE Committed' = Committed
    <3>1. c \in Connection /\ ~ Busy(c) /\ undo' = [undo EXCEPT ![c] = <<>>]
      BY <2>2 DEF DirectCommit, Begin, Busy, Connection
    <3> QED
      BY <1>1, <3>1, EmptyLogIsInvisible DEF IInv
  <2> QED
    BY <2>1, <2>2
<1>3. Promise!Ask(o)
  BY <1>1, <1>2 DEF Promise!Ask
<1> QED
  BY <1>3 DEF Promise!Next

(* Operations are dropped by the closing of the pool only: by a worker that *)
(* was told to stop, or with the queue.                                     *)
LEMMA DropMaps ==
  ASSUME IInv, TypeOK', (\E w \in Worker : Leave(w)) \/ CancelQueue
  PROVE  Promise!Next
<1> USE DEF IInv
<1>1. UNCHANGED <<table, lost, undo>>
  BY DEF Leave, CancelQueue, pool
<1>2. Committed' = Committed
  BY <1>1 DEF Committed, Holds
<1>3. ASSUME NEW D \in SUBSET Op, \A o \in D : answer[o] = "pending",
             answer' = [o \in Op |-> IF o \in D THEN "dropped" ELSE answer[o]],
             main # "running", main' # "running"
      PROVE  Promise!Next
  <2>1. Promise!Drop(D)
    BY <1>1, <1>2, <1>3 DEF Promise!Drop
  <2> QED
    BY <2>1 DEF Promise!Next
<1>4. ASSUME NEW w \in Worker, Leave(w) PROVE Promise!Next
  <2>1. main # "running" /\ main' = main
    BY <1>4 DEF Leave, Told, pool
  <2>2. op[w] \in Op /\ w \in Connection
    BY <1>4, DatabaseAssumption
       DEF Leave, TypeOK, OpType, DatabaseAssumption, Connection
  <2>3. answer[op[w]] = "pending"
    BY <2>2, BusyHasAsked
  <2> DEFINE D == {op[w]}
  <2>4. answer' = [o \in Op |-> IF o \in D THEN "dropped" ELSE answer[o]]
    BY <1>4, <2>2 DEF Leave, TypeOK
  <2>5. D \in SUBSET Op /\ \A o \in D : answer[o] = "pending"
    BY <2>2, <2>3
  <2> HIDE DEF D
  <2> QED
    BY <1>3, <2>1, <2>4, <2>5
<1>5. CASE CancelQueue
  <2>1. main # "running" /\ main' # "running"
    BY <1>5 DEF CancelQueue
  <2>2. Range(queue) \in SUBSET Op /\ \A o \in Range(queue) : answer[o] = "pending"
    BY DEF TypeOK, OpType, Asked, Range
  <2>3. answer' = [o \in Op |-> IF o \in Range(queue) THEN "dropped" ELSE answer[o]]
    BY <1>5 DEF CancelQueue
  <2> QED
    BY <1>3, <2>1, <2>2, <2>3
<1> QED
  BY <1>4, <1>5

LEMMA ClosingMaps ==
  ASSUME TypeOK, \/ Close \/ (\E w \in Worker : SetToken(w)) \/ Join \/ Closed
                 \/ UNCHANGED vars
  PROVE  [Promise!Next]_Promise!vars
<1>1. UNCHANGED <<table, answer, lost, undo>>
  BY DEF Close, SetToken, Join, Closed, vars
<1>2. Committed' = Committed
  BY <1>1 DEF Committed, Holds
<1>3. CASE Close
  <2>1. Promise!Close
    BY <1>1, <1>2, <1>3 DEF Close, Promise!Close
  <2> QED
    BY <2>1 DEF Promise!Next
<1>4. CASE ~ Close
  <2>1. (main # "running")' = (main # "running")
    BY <1>4 DEF SetToken, Join, Closed, vars, pool
  <2> QED
    BY <1>1, <1>2, <2>1 DEF Promise!vars
<1> QED
  BY <1>3, <1>4

(* Whose deadlock it is holds rows and thus has a transaction.              *)
LEMMA OnCycleHolds ==
  ASSUME IInv, NEW c \in Connection, OnCycle(c)
  PROVE  op[c] \in Transaction
<1>1. \E r : Holds(c, r)
  BY DEF OnCycle
<1>2. open[c]
  BY <1>1 DEF Holds, IInv, TypeOK, RowsLocked
<1> QED
  BY <1>2 DEF IInv, Logged

(* The one thing that Store does not allow: a worker has no time for another*)
(* retry of a transaction that the server would not refuse.                 *)
GivesUp(w) ==
  /\ Deadlock(w) /\ ~ TryAgain(w, TRUE)
  /\ op[w] \notin Faulty \cup lost

LEMMA StepMaps ==
  ASSUME IInv, TypeOK', [Next]_vars
  PROVE  [Promise!Next]_Promise!vars \/ \E w \in Worker : GivesUp(w)
<1>1. ASSUME NEW c \in Connection, StatementFails(c) PROVE [Promise!Next]_Promise!vars
  <2>1. Busy(c) /\ Fail(c, FALSE) /\ op[c] \in Faulty
    BY <1>1 DEF StatementFails, Refused
  <2> QED
    BY <2>1, FailMaps
<1>2. ASSUME NEW c \in Connection, Deadlock(c)
      PROVE  [Promise!Next]_Promise!vars \/ \E w \in Worker : GivesUp(w)
  <2>1. Busy(c) /\ Fail(c, TRUE) /\ op[c] \in Op
    BY <1>2 DEF Deadlock, Busy, IInv, TypeOK, OpType
  <2>2. c \in Sync => op[c] \in Direct
    BY <2>1, BusyHasAsked DEF IInv
  <2>3. CASE TryAgain(c, TRUE) \/ op[c] \in Faulty \cup Direct \cup lost
    BY <2>1, <2>3, FailMaps
  <2>4. CASE ~ (TryAgain(c, TRUE) \/ op[c] \in Faulty \cup Direct \cup lost)
    BY <1>2, <2>2, <2>4 DEF GivesUp, Connection
  <2> QED
    BY <2>3, <2>4
<1>3. ASSUME NEW c \in Connection, Steps(c) \/ Deadlock(c) \/ LoseConnection(c)
      PROVE  [Promise!Next]_Promise!vars \/ \E w \in Worker : GivesUp(w)
  BY <1>1, <1>2, <1>3, HiddenSteps, ExecuteMaps, CommitMaps, LoseConnectionMaps DEF Steps
<1>4. ASSUME NEW w \in Worker, WorkerSteps(w) PROVE [Promise!Next]_Promise!vars
  <2>1. w \in Connection
    BY DEF Connection
  <2> QED
    BY <1>4, <2>1, HiddenSteps, DropMaps DEF WorkerSteps
<1>5. ASSUME NEW c \in Sync, NEW o \in Op, DirectCommit(c, o) PROVE Promise!Next
  BY <1>5, AskMaps
<1>6. ASSUME NEW o \in Op, Enqueue(o) PROVE Promise!Next
  BY <1>6, AskMaps
<1>7. CASE Close \/ Closing \/ Closed \/ UNCHANGED vars
  BY <1>7, DropMaps, ClosingMaps DEF Closing, IInv
<1> QED
  BY <1>3, <1>4, <1>5, <1>6, <1>7 DEF Next

LEMMA NobodyGivesUp ==
  ASSUME IInv, HasTime, NEW w \in Worker
  PROVE  ~ GivesUp(w)
<1> SUFFICES ASSUME GivesUp(w) PROVE FALSE
  OBVIOUS
<1>1. w \in Connection /\ at[w] = "waiting" /\ OnCycle(w) /\ op[w] \notin Faulty \cup lost
  BY DEF GivesUp, Deadlock, Connection
<1>2. op[w] \in Transaction /\ tries[w] < AsyncTries
  BY <1>1, OnCycleHolds DEF HasTime
<1> QED
  BY <1>2 DEF GivesUp, TryAgain, Tries

LEMMA InitMaps == Init => Promise!Init
<1> SUFFICES ASSUME Init PROVE Promise!Init
  OBVIOUS
<1>1. \A r \in Row : ~ \E c \in Connection : Holds(c, r)
  BY Nothing DEF Init, Holds
<1>2. Committed = [r \in Row |-> None]
  BY <1>1 DEF Init, Committed
<1> QED
  BY <1>2 DEF Init, Promise!Init

(* Retries after deadlocks, rollbacks, direct calls on synchronous          *)
(* connections and the closing of the pool leave every operation whole or   *)
(* without effect and answered accordingly, and no worker gives up one that *)
(* it could have repeated, if workers have time for the retries they need.  *)
THEOREM PoolImplementsStore == Spec /\ []HasTime => ImplementsStore
<1>1. Init => Promise!Init
  BY InitMaps
<1>2. IInv /\ IInv' /\ HasTime /\ [Next]_vars => [Promise!Next]_Promise!vars
  BY StepMaps, NobodyGivesUp DEF IInv
<1> QED
  BY <1>1, <1>2, InvariantHolds, PTL DEF Spec, ImplementsStore, Promise!Spec

-----------------------------------------------------------------------------
(* Without any assumption about time.                                      *)

(* The promise of a pool that may give up any operation.                    *)
Lenient == INSTANCE Store WITH
  table <- Committed,
  closing <- main # "running",
  Writes <- [o \in Op |-> Range(Rows[o])],
  Mistaken <- Faulty,
  Deserted <- Op

LEMMA PromiseIsLenient == [Promise!Next]_Promise!vars => [Lenient!Next]_Lenient!vars
<1> SUFFICES ASSUME [Promise!Next]_Promise!vars PROVE [Lenient!Next]_Lenient!vars
  OBVIOUS
<1>1. ASSUME NEW o \in Op, \/ Promise!Ask(o) \/ Promise!Succeed(o) \/ Promise!Fail(o)
                           \/ Promise!Lose(o) \/ Promise!EndLost(o)
      PROVE  Lenient!Next
  <2>1. Promise!Ask(o) => Lenient!Ask(o)
    BY DEF Promise!Ask, Lenient!Ask
  <2>2. Promise!Succeed(o) => Lenient!Succeed(o)
    BY DEF Promise!Succeed, Lenient!Succeed, Promise!Put, Lenient!Put
  <2>3. Promise!Fail(o) => Lenient!Fail(o)
    BY DEF Promise!Fail, Lenient!Fail
  <2>4. Promise!Lose(o) => Lenient!Lose(o)
    BY DEF Promise!Lose, Lenient!Lose, Promise!Put, Lenient!Put
  <2>5. Promise!EndLost(o) => Lenient!EndLost(o)
    BY DEF Promise!EndLost, Lenient!EndLost, Promise!Put, Lenient!Put
  <2> QED
    BY <1>1, <2>1, <2>2, <2>3, <2>4, <2>5 DEF Lenient!Next
<1>2. ASSUME NEW D \in SUBSET Op, Promise!Drop(D) PROVE Lenient!Next
  <2>1. Lenient!Drop(D)
    BY <1>2 DEF Promise!Drop, Lenient!Drop
  <2> QED
    BY <2>1 DEF Lenient!Next
<1>3. CASE Promise!Close
  <2>1. Lenient!Close
    BY <1>3 DEF Promise!Close, Lenient!Close
  <2> QED
    BY <2>1 DEF Lenient!Next
<1>4. CASE UNCHANGED Promise!vars
  BY <1>4 DEF Promise!vars, Lenient!vars
<1> QED
  BY <1>1, <1>2, <1>3, <1>4 DEF Promise!Next

LEMMA GivingUpIsLenient ==
  ASSUME IInv, TypeOK', NEW w \in Worker, GivesUp(w)
  PROVE  Lenient!Next
<1>1. /\ w \in Connection /\ Busy(w) /\ op[w] \notin lost
      /\ table' = RolledBack(w) /\ End(w, "false") /\ lost' = lost /\ main' = main
  BY DEF GivesUp, Deadlock, Fail, Busy, Connection, pool
<1>2. /\ op[w] \in Op /\ answer[op[w]] = "pending"
      /\ answer' = [answer EXCEPT ![op[w]] = "false"]
      /\ (main # "running")' = (main # "running")
      /\ undo' = [undo EXCEPT ![w] = <<>>]
  BY <1>1, EndMaps
<1>3. Committed' = Committed
  BY <1>1, <1>2, RollbackIsInvisible DEF IInv
<1>4. Lenient!Fail(op[w])
  BY <1>1, <1>2, <1>3 DEF Lenient!Fail
<1> QED
  BY <1>2, <1>4 DEF Lenient!Next

(* Whatever the load, every operation is whole or without effect, and its   *)
(* answer says which: Execute and ExecuteTransaction return TRUE exactly if *)
(* the COMMIT was executed.  Only lost connections break this.              *)
THEOREM AnswersAreTrue == Spec => Lenient!Spec
<1>1. Init => Lenient!Init
  BY InitMaps DEF Promise!Init, Lenient!Init
<1>2. IInv /\ IInv' /\ [Next]_vars => [Lenient!Next]_Lenient!vars
  BY StepMaps, PromiseIsLenient, GivingUpIsLenient DEF IInv
<1> QED
  BY <1>1, <1>2, InvariantHolds, PTL DEF Spec, Lenient!Spec

=============================================================================
