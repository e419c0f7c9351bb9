------------------------------- MODULE Store --------------------------------
(* What the database pool promises to its callers: an operation changes all *)
(* its rows at once, as if no other were running, or none of them; it is    *)
(* answered TRUE iff it did; and only the closing of the pool drops one.    *)
(* An operation whose connection was lost on the way may write some of its  *)
(* rows, again or not at all, and be answered either way.                   *)
EXTENDS FiniteSets

CONSTANTS
  Op,        \* operations of the callers
  Row,       \* rows of the tables
  Writes,    \* the rows an operation writes
  Mistaken,  \* operations that the server refuses
  Deserted,  \* operations that are given up after some deadlocks
  None       \* no operation

VARIABLES
  table,     \* the last operation that wrote a row
  answer,    \* of each operation
  lost,      \* operations whose connection was lost
  closing    \* is the pool being closed?

vars == <<table, answer, lost, closing>>

Init ==
  /\ table = [r \in Row |-> None]
  /\ answer = [o \in Op |-> "new"]
  /\ lost = {} /\ closing = FALSE

Put(o, R) == [r \in Row |-> IF r \in R THEN o ELSE table[r]]

Ask(o) ==
  /\ answer[o] = "new" /\ ~ closing
  /\ answer' = [answer EXCEPT ![o] = "pending"]
  /\ UNCHANGED <<table, lost, closing>>

Succeed(o) ==
  /\ answer[o] = "pending" /\ o \notin lost \cup Mistaken
  /\ table' = Put(o, Writes[o])
  /\ answer' = [answer EXCEPT ![o] = "true"]
  /\ UNCHANGED <<lost, closing>>

Fail(o) ==
  /\ answer[o] = "pending" /\ o \in (Mistaken \cup Deserted) \ lost
  /\ answer' = [answer EXCEPT ![o] = "false"]
  /\ UNCHANGED <<table, lost, closing>>

Lose(o) ==
  /\ answer[o] = "pending"
  /\ lost' = lost \cup {o}
  /\ \E R \in SUBSET Writes[o] : table' = Put(o, R)
  /\ UNCHANGED <<answer, closing>>

EndLost(o) ==
  /\ answer[o] = "pending" /\ o \in lost
  /\ \E R \in SUBSET Writes[o] : table' = Put(o, R)
  /\ \E a \in {"true", "false"} : answer' = [answer EXCEPT ![o] = a]
  /\ UNCHANGED <<lost, closing>>

Close ==
  /\ closing' = TRUE
  /\ UNCHANGED <<table, answer, lost>>

Drop(D) ==
  /\ closing /\ \A o \in D : answer[o] = "pending"
  /\ answer' = [o \in Op |-> IF o \in D THEN "dropped" ELSE answer[o]]
  /\ UNCHANGED <<table, lost, closing>>

Next ==
  \/ \E o \in Op : Ask(o) \/ Succeed(o) \/ Fail(o) \/ Lose(o) \/ EndLost(o)
  \/ \E D \in SUBSET Op : Drop(D)
  \/ Close

Spec == Init /\ [][Next]_vars

=============================================================================
