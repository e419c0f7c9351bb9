----------------------------- MODULE MPSCQueue ------------------------------
(***************************************************************************)
(* The intrusive queue for many producers and one consumer of              *)
(* src/common/Threading/MPSCQueue.h, without locks: the nodes are linked   *)
(* from the tail, where the consumer takes them, to the head, which a      *)
(* producer exchanges before it stores the link to its node.  Every load,  *)
(* store and exchange that other threads may see between two others is a   *)
(* step.  A node is deleted by the consumer once it has been taken.        *)
(***************************************************************************)
EXTENDS Sequences

CONSTANTS
  Node,       \* the elements
  Dummy,      \* MPSCQueueIntrusive::_dummy
  Thread,     \* the producers and the consumer
  Consumer,
  Nil

ASSUME QueueAssumption ==
  /\ Dummy \notin Node /\ Consumer \in Thread
  /\ Nil \notin Node \cup {Dummy} /\ Nil \notin (Node \cup {Dummy}) \X (Node \cup {Dummy})

VARIABLES
  next,      \* IntrusiveLink of every node
  head,      \* _head
  tail,      \* _tail
  link,      \* what a thread has still to store: <<prevHead, input>>, or Nil
  dequeue,   \* where the consumer is in Dequeue
  taken      \* the nodes that Dequeue returned, which are deleted

queueVars == <<next, head, tail, link, dequeue, taken>>

QueueTypeOK ==
  /\ next \in [Node \cup {Dummy} -> Node \cup {Dummy, Nil}]
  /\ head \in Node \cup {Dummy} /\ tail \in Node \cup {Dummy}
  /\ link \in [Thread -> ((Node \cup {Dummy}) \X (Node \cup {Dummy})) \cup {Nil}]
  /\ dequeue \in {"idle", "head", "dummy", "link", "again"}
  /\ taken \subseteq Node

QueueInit ==
  /\ next = [n \in Node \cup {Dummy} |-> Nil]
  /\ head = Dummy /\ tail = Dummy
  /\ link = [t \in Thread |-> Nil]
  /\ dequeue = "idle" /\ taken = {}

-----------------------------------------------------------------------------
(* Enqueue(n): up to the exchange of the head, and the store of the link.   *)

Exchange(t, n) ==
  /\ link[t] = Nil
  /\ next' = [next EXCEPT ![n] = Nil]
  /\ head' = n
  /\ link' = [link EXCEPT ![t] = <<head, n>>]

Link(t) ==
  /\ link[t] # Nil
  /\ next' = [next EXCEPT ![link[t][1]] = link[t][2]]
  /\ link' = [link EXCEPT ![t] = Nil]
  /\ UNCHANGED head

-----------------------------------------------------------------------------
(* Dequeue: Return(n) is its end, with Nil for false.                       *)

Return(n) ==
  /\ dequeue' = "idle"
  /\ taken' = IF n = Nil THEN taken ELSE taken \cup {n}

(* The node after t is known: t is taken.                                   *)
TakeLinked(t) == /\ next[t] # Nil /\ tail' = next[t] /\ Return(t)

ReadTail ==
  LET first == IF tail = Dummy THEN next[Dummy] ELSE tail
  IN /\ dequeue = "idle"
     /\ \/ first = Nil /\ UNCHANGED tail /\ Return(Nil)
        \/ first # Nil /\ TakeLinked(first)
        \/ /\ first # Nil /\ next[first] = Nil
           /\ tail' = first /\ dequeue' = "head" /\ UNCHANGED taken
     /\ UNCHANGED <<next, head, link>>

ReadHead ==
  /\ dequeue = "head"
  /\ \/ tail # head /\ Return(Nil)
     \/ tail = head /\ dequeue' = "dummy" /\ UNCHANGED taken
  /\ UNCHANGED <<next, head, tail, link>>

(* A store where an exchange is needed, and no link.                        *)
StoreDummy ==
  /\ dequeue = "dummy"
  /\ next' = [next EXCEPT ![Dummy] = Nil]
  /\ head' = Dummy /\ tail' = Dummy /\ Return(tail)
  /\ UNCHANGED link

EnqueueDummy ==
  /\ dequeue = "dummy"
  /\ Exchange(Consumer, Dummy)
  /\ dequeue' = "link"
  /\ UNCHANGED <<tail, taken>>

LinkDummy ==
  /\ dequeue = "link"
  /\ Link(Consumer)
  /\ dequeue' = "again"
  /\ UNCHANGED <<tail, taken>>

ReadTailAgain ==
  /\ dequeue = "again"
  /\ \/ TakeLinked(tail)
     \/ next[tail] = Nil /\ UNCHANGED tail /\ Return(Nil)
  /\ UNCHANGED <<next, head, link>>

DequeueStep ==
  ReadTail \/ ReadHead \/ EnqueueDummy \/ LinkDummy \/ ReadTailAgain

-----------------------------------------------------------------------------
(* Whoever is about to store a link, or to follow one, does so in a node    *)
(* that was not deleted.                                                   *)
NothingDeletedIsUsed ==
  /\ head \notin taken /\ tail \notin taken
  /\ \A t \in Thread : link[t] # Nil => link[t][1] \notin taken

=============================================================================
