---------------------------- MODULE SocketProofs -----------------------------
(***************************************************************************)
(* Proofs about Socket and its MPSCQueue, for any packets, threads, senders *)
(* and size of a buffer.                                                    *)
(*                                                                          *)
(* No variable holds the content of the queue: the links between the nodes  *)
(* are what it is, and some of them are still to be stored.  The invariant   *)
(* says that there is a sequence of nodes, the chain, that the links        *)
(* describe; that its elements, without the dummy, are the packets that were*)
(* put into the queue and not taken from it, in that order; and that the    *)
(* packets taken are the first ones.                                        *)
(***************************************************************************)
EXTENDS Socket, FiniteSetTheorems, SequenceTheorems, TLAPS

Nodes == Node \cup {Dummy}

(* The links from first to the head: where one is missing, it is what some  *)
(* thread has still to store, and nobody has another to store.              *)
Chain(ch, first) ==
  /\ Len(ch) > 0 /\ IsInjective(ch)
  /\ ch[1] = first /\ ch[Len(ch)] = head /\ next[head] = Nil
  /\ \A i \in 1 .. Len(ch) - 1 :
       \/ next[ch[i]] = ch[i + 1]
       \/ next[ch[i]] = Nil /\ \E t \in Thread : link[t] = <<ch[i], ch[i + 1]>>
  /\ \A t \in Thread : link[t] # Nil =>
       /\ \E i \in 1 .. Len(ch) - 1 : link[t] = <<ch[i], ch[i + 1]>> /\ next[ch[i]] = Nil
       /\ \A u \in Thread : link[u] # Nil /\ link[u][1] = link[t][1] => u = t

(* Its packets: those that were sent and are not gone, in their order.       *)
Follows(ch, packets) ==
  \A i, j \in DOMAIN ch : i < j /\ ch[i] # Dummy /\ ch[j] # Dummy =>
    \E k, l \in DOMAIN packets : k < l /\ packets[k] = ch[i] /\ packets[l] = ch[j]

Holds(ch, gone) == Range(ch) \ {Dummy} = Range(sent) \ gone /\ Follows(ch, sent)

(* The consumer puts the dummy into the queue only when it is not there.     *)
DummyIsOut(ch) ==
  /\ dequeue # "idle" => tail # Dummy
  /\ dequeue = "dummy" => Dummy \notin Range(ch)

QueueIsChained ==
  \E ch \in Seq(Nodes) : Chain(ch, tail) /\ Holds(ch, taken) /\ DummyIsOut(ch)

SentOnce ==
  /\ IsInjective(sent) /\ admitted \cap Range(sent) = {}
  /\ \A n \in admitted : Sender[n] # Consumer

TakenFirst(c) == taken = {sent[k] : k \in 1 .. c}

InOrder(c) ==
  /\ TakenFirst(c)
  /\ Len(wire) <= Len(sent) /\ wire = SubSeq(sent, 1, Len(wire))
  /\ ~ WriteFails => WaitsInOrder(Len(wire), c)

HasToSend == network = "send" => writeQueue # <<>>

IInv ==
  /\ TypeOK /\ QueueIsChained /\ SentOnce /\ HasToSend
  /\ \E c \in 0 .. Len(sent) : InOrder(c)

-----------------------------------------------------------------------------
(* Sequences.                                                              *)

LEMMA AppendedTo ==
  ASSUME NEW S, NEW q \in Seq(S), NEW s \in S
  PROVE  /\ Append(q, s) \in Seq(S) /\ Len(Append(q, s)) = Len(q) + 1
         /\ Append(q, s)[Len(q) + 1] = s
         /\ \A k \in 1 .. Len(q) : Append(q, s)[k] = q[k]
         /\ Range(Append(q, s)) = Range(q) \cup {s}
         /\ IsInjective(q) /\ s \notin Range(q) => IsInjective(Append(q, s))
<1> DEFINE r == Append(q, s)
<1>1. /\ r \in Seq(S) /\ Len(r) = Len(q) + 1 /\ Len(q) \in Nat
      /\ DOMAIN q = 1 .. Len(q) /\ DOMAIN r = 1 .. (Len(q) + 1)
      /\ r[Len(q) + 1] = s /\ \A k \in 1 .. Len(q) : r[k] = q[k]
  OBVIOUS
<1> HIDE DEF r
<1>2. 1 .. (Len(q) + 1) = (1 .. Len(q)) \cup {Len(q) + 1}
  BY <1>1
<1>3. Range(r) = Range(q) \cup {s}
  BY <1>1, <1>2 DEF Range
<1>4. IsInjective(q) /\ s \notin Range(q) => IsInjective(r)
  BY <1>1, <1>2 DEF IsInjective, Range
<1> QED
  BY <1>1, <1>3, <1>4 DEF r

LEMMA TailOf ==
  ASSUME NEW S, NEW q \in Seq(S), Len(q) > 0
  PROVE  /\ Tail(q) \in Seq(S) /\ Len(Tail(q)) = Len(q) - 1
         /\ \A k \in 1 .. Len(q) - 1 : Tail(q)[k] = q[k + 1]
         /\ IsInjective(q) => /\ IsInjective(Tail(q))
                              /\ Range(Tail(q)) = Range(q) \ {q[1]}
<1> DEFINE r == Tail(q)
<1>1. /\ r \in Seq(S) /\ Len(r) = Len(q) - 1 /\ Len(q) \in Nat
      /\ DOMAIN q = 1 .. Len(q) /\ DOMAIN r = 1 .. Len(q) - 1
      /\ \A k \in 1 .. Len(q) - 1 : r[k] = q[k + 1]
  BY HeadTailProperties
<1> HIDE DEF r
<1>2. IsInjective(q) => IsInjective(r)
  <2> SUFFICES ASSUME IsInjective(q), NEW a \in DOMAIN r, NEW b \in DOMAIN r, r[a] = r[b]
               PROVE  a = b
    BY DEF IsInjective
  <2>1. a + 1 \in DOMAIN q /\ b + 1 \in DOMAIN q /\ q[a + 1] = q[b + 1]
    BY <1>1
  <2> QED
    BY <1>1, <2>1 DEF IsInjective
<1>3. IsInjective(q) => Range(r) = Range(q) \ {q[1]}
  <2> SUFFICES ASSUME IsInjective(q) PROVE Range(r) = Range(q) \ {q[1]}
    OBVIOUS
  <2>1. ASSUME NEW k \in DOMAIN r PROVE r[k] \in Range(q) \ {q[1]}
    <3>1. k + 1 \in DOMAIN q /\ k + 1 # 1 /\ 1 \in DOMAIN q
      BY <1>1
    <3> QED
      BY <1>1, <3>1 DEF IsInjective, Range
  <2>2. ASSUME NEW k \in DOMAIN q, k # 1 PROVE q[k] \in Range(r)
    <3>1. k - 1 \in DOMAIN r /\ r[k - 1] = q[(k - 1) + 1] /\ (k - 1) + 1 = k
      BY <1>1, <2>2
    <3> QED
      BY <3>1 DEF Range
  <2> QED
    BY <2>1, <2>2 DEF Range
<1> QED
  BY <1>1, <1>2, <1>3 DEF r

LEMMA RangeOf ==
  ASSUME NEW S, NEW q \in Seq(S)
  PROVE  /\ Len(q) \in Nat /\ DOMAIN q = 1 .. Len(q)
         /\ \A k \in 1 .. Len(q) : q[k] \in Range(q)
         /\ \A s \in Range(q) : \E k \in 1 .. Len(q) : s = q[k]
         /\ Range(q) \subseteq S
<1>1. Len(q) \in Nat /\ DOMAIN q = 1 .. Len(q) /\ \A k \in 1 .. Len(q) : q[k] \in S
  OBVIOUS
<1> QED
  BY <1>1 DEF Range

(* The first c of a sequence without repetition are c.                      *)
LEMMA SizeOfFirst ==
  ASSUME NEW S, NEW q \in Seq(S), IsInjective(q), NEW c \in 0 .. Len(q)
  PROVE  Cardinality({q[k] : k \in 1 .. c}) = c
<1> DEFINE f == [k \in 1 .. c |-> q[k]]
           T == {q[k] : k \in 1 .. c}
<1>1. DOMAIN q = 1 .. Len(q) /\ Len(q) \in Nat
  OBVIOUS
<1>2. f \in Injection(1 .. c, T)
  BY <1>1 DEF IsInjective, Injection
<1>3. f \in Surjection(1 .. c, T)
  BY DEF Surjection
<1>4. IsFiniteSet(1 .. c) /\ Cardinality(1 .. c) = c
  BY <1>1, FS_Interval
<1> HIDE DEF f, T
<1>5. Cardinality(T) = Cardinality(1 .. c) <=> f \in Injection(1 .. c, T)
  BY <1>3, <1>4, FS_Surjection
<1> QED
  BY <1>2, <1>4, <1>5 DEF T

-----------------------------------------------------------------------------
(* What the steps of the queue do to the chain.                             *)

(* An exchange puts a node at its end.                                      *)
LEMMA ExchangeAppends ==
  ASSUME QueueTypeOK, QueueAssumption, NEW ch \in Seq(Nodes), NEW first, Chain(ch, first),
         NEW t \in Thread, NEW n \in Nodes, n \notin Range(ch), Exchange(t, n)
  PROVE  Chain(Append(ch, n), first)'
<1> DEFINE r == Append(ch, n)
           m == Len(ch)
<1>1. /\ r \in Seq(Nodes) /\ Len(r) = m + 1 /\ r[m + 1] = n /\ IsInjective(r)
      /\ \A k \in 1 .. m : r[k] = ch[k]
  BY AppendedTo DEF Chain
<1>2. m \in Nat /\ m > 0 /\ \A k \in 1 .. m : ch[k] \in Nodes /\ ch[k] # n
  BY RangeOf DEF Chain
<1> HIDE DEF r, m
<1>3. /\ link[t] = Nil /\ link' = [link EXCEPT ![t] = <<head, n>>]
      /\ head' = n /\ next' = [next EXCEPT ![n] = Nil]
  BY DEF Exchange
<1>4. /\ next'[n] = Nil /\ link'[t] = <<head, n>> /\ head = ch[m]
      /\ \A k \in 1 .. m : next'[ch[k]] = next[ch[k]]
      /\ \A u \in Thread : u # t => link'[u] = link[u]
  BY <1>2, <1>3 DEF QueueTypeOK, Chain, m, Nodes
<1>5. <<head, n>> # Nil /\ head # Nil
  BY DEF QueueAssumption, QueueTypeOK, Nodes
<1>6. Len(r) > 0 /\ r[1] = first /\ r[Len(r)] = n
  BY <1>1, <1>2 DEF Chain
<1>7. ASSUME NEW i \in 1 .. m
      PROVE  \/ next'[r[i]] = r[i + 1]
             \/ /\ next'[r[i]] = Nil
                /\ \E u \in Thread : link'[u] = <<r[i], r[i + 1]>>
  <2>1. CASE i = m
    <3>1. next[ch[m]] = Nil
      BY <1>4 DEF Chain
    <3> QED
      BY <1>1, <1>2, <1>4, <2>1, <3>1
  <2>2. CASE i # m
    <3>1. i \in 1 .. m - 1 /\ i + 1 \in 1 .. m
      BY <1>2, <2>2
    <3>2. r[i] = ch[i] /\ r[i + 1] = ch[i + 1] /\ next'[r[i]] = next[ch[i]]
      BY <1>1, <1>4, <3>1
    <3>3. \/ next[ch[i]] = ch[i + 1]
          \/ next[ch[i]] = Nil /\ \E u \in Thread : link[u] = <<ch[i], ch[i + 1]>>
      BY <3>1 DEF Chain, m
    <3>4. ASSUME NEW u \in Thread, link[u] = <<ch[i], ch[i + 1]>> PROVE link'[u] = link[u]
      <4>1. <<ch[i], ch[i + 1]>> # Nil
        BY <1>2, <3>1 DEF QueueAssumption, Nodes
      <4> QED
        BY <1>3, <1>4, <3>4, <4>1
    <3> QED
      BY <3>2, <3>3, <3>4
  <2> QED
    BY <2>1, <2>2
<1>8. ASSUME NEW u \in Thread, link'[u] # Nil
      PROVE  /\ \E i \in 1 .. m : link'[u] = <<r[i], r[i + 1]>> /\ next'[r[i]] = Nil
             /\ u # t => link'[u][1] # head
  <2>1. CASE u = t
    <3>1. next[ch[m]] = Nil
      BY <1>4 DEF Chain
    <3> QED
      BY <1>1, <1>2, <1>4, <2>1, <3>1
  <2>2. CASE u # t
    <3>1. link'[u] = link[u] /\ link[u] # Nil
      BY <1>4, <1>8, <2>2
    <3>2. PICK i \in 1 .. m - 1 : link[u] = <<ch[i], ch[i + 1]>> /\ next[ch[i]] = Nil
      BY <3>1 DEF Chain, m
    <3>3. i \in 1 .. m /\ i + 1 \in 1 .. m /\ i # m /\ DOMAIN ch = 1 .. m
      BY <1>2 DEF m
    <3>4. ch[i] # ch[m]
      BY <1>2, <3>3 DEF Chain, IsInjective
    <3> QED
      BY <1>1, <1>4, <3>1, <3>2, <3>3, <3>4
  <2> QED
    BY <2>1, <2>2
<1>9. ASSUME NEW u \in Thread, NEW v \in Thread, link'[u] # Nil, link'[v] # Nil,
             link'[v][1] = link'[u][1]
      PROVE  v = u
  <2>1. CASE u = t
    BY <1>4, <1>8, <1>9, <2>1
  <2>2. CASE v = t
    BY <1>4, <1>8, <1>9, <2>2
  <2>3. CASE u # t /\ v # t
    BY <1>4, <1>9, <2>3 DEF Chain
  <2> QED
    BY <2>1, <2>2, <2>3
<1>10. m = Len(r) - 1
  BY <1>1, <1>2
<1> QED
  BY <1>1, <1>3, <1>4, <1>6, <1>7, <1>8, <1>9, <1>10 DEF Chain, r

(* The store of a link only mends it.                                       *)
LEMMA LinkMends ==
  ASSUME QueueTypeOK, QueueAssumption, NEW ch \in Seq(Nodes), NEW first, Chain(ch, first),
         NEW t \in Thread, Link(t)
  PROVE  Chain(ch, first)'
<1> DEFINE m == Len(ch)
<1>1. /\ m \in Nat /\ m > 0 /\ DOMAIN ch = 1 .. m
      /\ \A k \in 1 .. m : ch[k] \in Nodes
  BY RangeOf DEF Chain
<1> HIDE DEF m
<1>2. link[t] # Nil
  BY DEF Link
<1>3. PICK j \in 1 .. m - 1 : link[t] = <<ch[j], ch[j + 1]>> /\ next[ch[j]] = Nil
  BY <1>2 DEF Chain, m
<1>4. j \in 1 .. m /\ j + 1 \in 1 .. m /\ j # m /\ m \in 1 .. m
  BY <1>1
<1>5. /\ next' = [next EXCEPT ![ch[j]] = ch[j + 1]]
      /\ link' = [link EXCEPT ![t] = Nil] /\ head' = head
  <2>1. link[t][1] = ch[j] /\ link[t][2] = ch[j + 1]
    BY <1>3
  <2> QED
    BY <2>1 DEF Link
<1>6. /\ next'[ch[j]] = ch[j + 1]
      /\ \A k \in 1 .. m : k # j => next'[ch[k]] = next[ch[k]]
      /\ link'[t] = Nil /\ \A u \in Thread : u # t => link'[u] = link[u]
  BY <1>1, <1>4, <1>5 DEF QueueTypeOK, Chain, IsInjective, Nodes
<1>7. next'[head] = Nil
  BY <1>4, <1>6 DEF Chain, m
<1>8. ASSUME NEW i \in 1 .. m - 1
      PROVE  \/ next'[ch[i]] = ch[i + 1]
             \/ next'[ch[i]] = Nil /\ \E u \in Thread : link'[u] = <<ch[i], ch[i + 1]>>
  <2>1. CASE i = j
    BY <1>6, <2>1
  <2>2. CASE i # j
    <3>1. i \in 1 .. m /\ next'[ch[i]] = next[ch[i]]
      BY <1>1, <1>6, <2>2
    <3>2. \/ next[ch[i]] = ch[i + 1]
          \/ next[ch[i]] = Nil /\ \E u \in Thread : link[u] = <<ch[i], ch[i + 1]>>
      BY DEF Chain, m
    <3>3. <<ch[i], ch[i + 1]>> # link[t]
      BY <1>1, <1>3, <1>4, <2>2, <3>1 DEF Chain, IsInjective
    <3> QED
      BY <1>6, <3>1, <3>2, <3>3
  <2> QED
    BY <2>1, <2>2
<1>9. ASSUME NEW u \in Thread, link'[u] # Nil
      PROVE  /\ u # t /\ link'[u] = link[u]
             /\ \E i \in 1 .. m - 1 : link'[u] = <<ch[i], ch[i + 1]>> /\ next'[ch[i]] = Nil
  <2>1. u # t /\ link'[u] = link[u] /\ link[u] # Nil
    BY <1>6, <1>9
  <2>2. PICK i \in 1 .. m - 1 : link[u] = <<ch[i], ch[i + 1]>> /\ next[ch[i]] = Nil
    BY <2>1 DEF Chain, m
  <2>3. link[u][1] = ch[i] /\ link[t][1] = ch[j]
    BY <1>3, <2>2
  <2>4. i # j
    BY <1>2, <2>1, <2>3 DEF Chain
  <2>5. i \in 1 .. m
    BY <1>1
  <2> QED
    BY <1>6, <2>1, <2>2, <2>4, <2>5
<1>10. ASSUME NEW u \in Thread, link'[u] # Nil, NEW v \in Thread, link'[v] # Nil,
              link'[v][1] = link'[u][1]
       PROVE  v = u
  <2>1. link'[u] = link[u] /\ link'[v] = link[v]
    BY <1>9, <1>10
  <2> QED
    BY <1>10, <2>1 DEF Chain
<1> QED
  BY <1>5, <1>7, <1>8, <1>9, <1>10 DEF Chain, m

(* A node whose link is known can be left behind: nobody has a link to store *)
(* in it.                                                                   *)
LEMMA LeaveFirst ==
  ASSUME QueueTypeOK, QueueAssumption, NEW ch \in Seq(Nodes), NEW first, Chain(ch, first),
         next[first] # Nil
  PROVE  /\ Len(ch) > 1 /\ ch[2] = next[first]
         /\ Chain(Tail(ch), next[first])
<1> DEFINE m == Len(ch)
           r == Tail(ch)
<1>1. /\ m \in Nat /\ m > 0 /\ DOMAIN ch = 1 .. m
      /\ \A k \in 1 .. m : ch[k] \in Nodes
  BY RangeOf DEF Chain
<1>2. m > 1
  <2>1. m # 1
    BY DEF Chain
  <2> QED
    BY <1>1, <2>1
<1>3. 1 \in 1 .. m - 1 /\ ch[1] = first
  BY <1>1, <1>2 DEF Chain
<1>4. next[first] = ch[2]
  BY <1>3 DEF Chain
<1>5. /\ r \in Seq(Nodes) /\ Len(r) = m - 1 /\ IsInjective(r)
      /\ \A k \in 1 .. m - 1 : r[k] = ch[k + 1]
  BY <1>1, TailOf DEF Chain
<1> HIDE DEF r, m
<1>6. Len(r) > 0 /\ r[1] = next[first] /\ r[Len(r)] = head
  <2>1. m - 1 \in 1 .. m - 1 /\ m - 1 + 1 = m
    BY <1>1, <1>2
  <2>2. r[m - 1] = ch[m]
    BY <1>5, <2>1
  <2> QED
    BY <1>1, <1>2, <1>3, <1>4, <1>5, <2>2 DEF Chain, m
<1>7. ASSUME NEW i \in 1 .. Len(r) - 1
      PROVE  \/ next[r[i]] = r[i + 1]
             \/ next[r[i]] = Nil /\ \E t \in Thread : link[t] = <<r[i], r[i + 1]>>
  <2>1. i + 1 \in 1 .. m - 1 /\ i \in 1 .. m - 1
    BY <1>1, <1>5
  <2>2. r[i] = ch[i + 1] /\ r[i + 1] = ch[(i + 1) + 1]
    BY <1>5, <2>1
  <2>3. \/ next[ch[i + 1]] = ch[(i + 1) + 1]
        \/ /\ next[ch[i + 1]] = Nil
           /\ \E t \in Thread : link[t] = <<ch[i + 1], ch[(i + 1) + 1]>>
    BY <2>1 DEF Chain, m
  <2> QED
    BY <2>2, <2>3
<1>8. ASSUME NEW t \in Thread, link[t] # Nil
      PROVE  \E i \in 1 .. Len(r) - 1 : link[t] = <<r[i], r[i + 1]>> /\ next[r[i]] = Nil
  <2>1. PICK i \in 1 .. m - 1 : link[t] = <<ch[i], ch[i + 1]>> /\ next[ch[i]] = Nil
    BY <1>8 DEF Chain, m
  <2>2. i # 1
    BY <1>3, <2>1
  <2>3. /\ i - 1 \in 1 .. Len(r) - 1 /\ i - 1 \in 1 .. m - 1
        /\ (i - 1) + 1 = i /\ i \in 1 .. m - 1
    BY <1>1, <1>5, <2>2
  <2>4. r[i - 1] = ch[i] /\ r[(i - 1) + 1] = ch[i + 1]
    BY <1>5, <2>3
  <2> QED
    BY <2>1, <2>3, <2>4
<1> QED
  BY <1>2, <1>4, <1>5, <1>6, <1>7, <1>8 DEF Chain, m, r

(* A packet at the end of the queue and of sent.                            *)
LEMMA SentLast ==
  ASSUME NEW ch \in Seq(Nodes), sent \in Seq(Node), NEW gone, Holds(ch, gone),
         NEW n \in Node, n \notin Range(sent), gone \subseteq Range(sent), QueueAssumption
  PROVE  /\ Range(Append(ch, n)) \ {Dummy} = Range(Append(sent, n)) \ gone
         /\ Follows(Append(ch, n), Append(sent, n))
<1> DEFINE r == Append(ch, n)
           m == Len(ch)
           s == Append(sent, n)
           q == Len(sent)
<1>1. /\ r \in Seq(Nodes) /\ Len(r) = m + 1 /\ r[m + 1] = n
      /\ \A k \in 1 .. m : r[k] = ch[k]
      /\ Range(r) = Range(ch) \cup {n}
  BY AppendedTo DEF Nodes
<1>2. /\ s \in Seq(Node) /\ Len(s) = q + 1 /\ s[q + 1] = n
      /\ \A k \in 1 .. q : s[k] = sent[k]
      /\ Range(s) = Range(sent) \cup {n}
  BY AppendedTo
<1>3. /\ m \in Nat /\ q \in Nat /\ DOMAIN ch = 1 .. m /\ DOMAIN sent = 1 .. q
      /\ DOMAIN r = 1 .. m + 1 /\ DOMAIN s = 1 .. q + 1
      /\ \A k \in 1 .. m : ch[k] \in Range(ch)
      /\ \A x \in Range(sent) : \E k \in 1 .. q : x = sent[k]
  BY <1>1, <1>2, RangeOf
<1> HIDE DEF r, m, s, q
<1>4. Range(r) \ {Dummy} = Range(s) \ gone
  BY <1>1, <1>2 DEF Holds, Follows, QueueAssumption
<1>5. ASSUME NEW i \in DOMAIN r, NEW j \in DOMAIN r, i < j, r[i] # Dummy, r[j] # Dummy
      PROVE  \E k, l \in DOMAIN s : k < l /\ s[k] = r[i] /\ s[l] = r[j]
  <2>1. i \in 1 .. m /\ r[i] = ch[i]
    BY <1>1, <1>3, <1>5
  <2>2. CASE j = m + 1
    <3>1. ch[i] \in Range(sent)
      BY <1>3, <1>5, <2>1 DEF Holds, Follows
    <3>2. PICK k \in 1 .. q : sent[k] = ch[i]
      BY <1>3, <3>1
    <3>3. k \in DOMAIN s /\ q + 1 \in DOMAIN s /\ k < q + 1
      BY <1>3
    <3>4. s[k] = r[i] /\ s[q + 1] = r[j]
      BY <1>1, <1>2, <2>1, <2>2, <3>2
    <3> QED
      BY <3>3, <3>4
  <2>3. CASE j # m + 1
    <3>1. j \in 1 .. m /\ r[j] = ch[j]
      BY <1>1, <1>3, <2>3
    <3>2. PICK k \in 1 .. q, l \in 1 .. q : k < l /\ sent[k] = ch[i] /\ sent[l] = ch[j]
      BY <1>3, <1>5, <2>1, <3>1 DEF Holds, Follows
    <3>3. k \in DOMAIN s /\ l \in DOMAIN s
      BY <1>3
    <3> QED
      BY <1>2, <2>1, <3>1, <3>2, <3>3
  <2> QED
    BY <2>2, <2>3
<1>6. Follows(r, s)
  BY <1>5 DEF Follows
<1> QED
  BY <1>4, <1>6 DEF r, s

(* The dummy at the end is no packet.                                       *)
LEMMA DummyLast ==
  ASSUME NEW ch \in Seq(Nodes), NEW gone, Holds(ch, gone)
  PROVE  Holds(Append(ch, Dummy), gone)
<1> DEFINE r == Append(ch, Dummy)
           m == Len(ch)
<1>1. /\ Len(r) = m + 1 /\ r[m + 1] = Dummy /\ DOMAIN r = 1 .. m + 1
      /\ m \in Nat /\ DOMAIN ch = 1 .. m
      /\ \A k \in 1 .. m : r[k] = ch[k]
      /\ Range(r) = Range(ch) \cup {Dummy}
  BY AppendedTo, RangeOf DEF Nodes
<1> HIDE DEF r, m
<1>2. \A i \in DOMAIN r : r[i] # Dummy => i \in DOMAIN ch /\ r[i] = ch[i]
  BY <1>1
<1> QED
  BY <1>1, <1>2 DEF Holds, Follows, r

LEMMA HoldsRest ==
  ASSUME NEW ch \in Seq(Nodes), Len(ch) > 0, IsInjective(ch), NEW gone, Holds(ch, gone)
  PROVE  /\ ch[1] = Dummy => Holds(Tail(ch), gone)
         /\ ch[1] # Dummy => Holds(Tail(ch), gone \cup {ch[1]})
         /\ Tail(ch) \in Seq(Nodes)
         /\ Range(Tail(ch)) = Range(ch) \ {ch[1]}
<1> DEFINE r == Tail(ch)
           m == Len(ch)
<1>1. /\ Len(r) = m - 1 /\ DOMAIN r = 1 .. m - 1 /\ r \in Seq(Nodes)
      /\ m \in Nat /\ DOMAIN ch = 1 .. m
      /\ \A k \in 1 .. m - 1 : r[k] = ch[k + 1]
      /\ Range(r) = Range(ch) \ {ch[1]}
  BY TailOf, RangeOf
<1> HIDE DEF r, m
<1>2. ASSUME NEW i \in DOMAIN r, NEW j \in DOMAIN r, i < j, r[i] # Dummy, r[j] # Dummy
      PROVE  \E k, l \in DOMAIN sent : k < l /\ sent[k] = r[i] /\ sent[l] = r[j]
  <2>1. i + 1 \in DOMAIN ch /\ j + 1 \in DOMAIN ch /\ i + 1 < j + 1
    BY <1>1, <1>2
  <2> QED
    BY <1>1, <1>2, <2>1 DEF Holds, Follows
<1>3. ch[1] = Dummy => Range(r) \ {Dummy} = Range(sent) \ gone
  BY <1>1 DEF Holds, Follows
<1>4. ch[1] # Dummy => Range(r) \ {Dummy} = Range(sent) \ (gone \cup {ch[1]})
  BY <1>1 DEF Holds, Follows
<1> QED
  BY <1>1, <1>2, <1>3, <1>4 DEF Holds, Follows, r

(* The first of the queue is the first that was not taken.                  *)
LEMMA FirstIsNext ==
  ASSUME NEW ch \in Seq(Nodes), Len(ch) > 0, Holds(ch, taken), ch[1] # Dummy,
         sent \in Seq(Node), IsInjective(sent), QueueAssumption,
         NEW c \in 0 .. Len(sent), TakenFirst(c)
  PROVE  c < Len(sent) /\ ch[1] = sent[c + 1] /\ ch[1] \notin taken
<1> DEFINE q == Len(sent)
           m == Len(ch)
<1>1. /\ m \in Nat /\ m > 0 /\ DOMAIN ch = 1 .. m /\ ch[1] \in Range(ch)
      /\ \A x \in Range(ch) : \E k \in 1 .. m : x = ch[k]
  BY RangeOf
<1>2. /\ q \in Nat /\ DOMAIN sent = 1 .. q /\ \A k \in 1 .. q : sent[k] \in Range(sent) /\ sent[k] \in Node
      /\ \A x \in Range(sent) : \E k \in 1 .. q : x = sent[k]
  BY RangeOf
<1> HIDE DEF q, m
<1>3. ch[1] \in Range(sent) /\ ch[1] \notin taken
  BY <1>1 DEF Holds, Follows
<1>4. PICK k \in 1 .. q : ch[1] = sent[k]
  BY <1>2, <1>3
<1>5. c \in 0 .. q /\ k > c
  BY <1>2, <1>3, <1>4 DEF TakenFirst, q
<1>6. c + 1 \in 1 .. q
  BY <1>2, <1>5
<1>7. ASSUME NEW i \in 1 .. c PROVE sent[i] # sent[c + 1]
  <2>1. i \in DOMAIN sent /\ c + 1 \in DOMAIN sent /\ i # c + 1
    BY <1>2, <1>5, <1>6
  <2> QED
    BY <2>1 DEF IsInjective
<1>8. sent[c + 1] \in Range(sent) /\ sent[c + 1] \notin taken /\ sent[c + 1] # Dummy
  BY <1>2, <1>6, <1>7 DEF TakenFirst, QueueAssumption
<1>9. PICK j \in 1 .. m : ch[j] = sent[c + 1]
  BY <1>1, <1>8 DEF Holds, Follows
<1>10. CASE j = 1
  BY <1>2, <1>3, <1>5, <1>6, <1>9, <1>10 DEF q
<1>11. CASE j # 1
  <2>1. 1 \in DOMAIN ch /\ j \in DOMAIN ch /\ 1 < j
    BY <1>1, <1>11
  <2>2. PICK a \in DOMAIN sent, b \in DOMAIN sent :
          a < b /\ sent[a] = ch[1] /\ sent[b] = ch[j]
    BY <1>8, <1>9, <2>1 DEF Holds, Follows
  <2>3. b = c + 1 /\ a = k
    BY <1>2, <1>4, <1>6, <1>9, <2>2 DEF IsInjective
  <2> QED
    BY <1>5, <2>2, <2>3
<1> QED
  BY <1>10, <1>11

-----------------------------------------------------------------------------
(* The queue keeps its types.                                               *)
LEMMA ExchangeTypes ==
  ASSUME QueueTypeOK, NEW t \in Thread, NEW n \in Nodes, Exchange(t, n)
  PROVE  /\ next' \in [Nodes -> Nodes \cup {Nil}] /\ head' \in Nodes
         /\ link' \in [Thread -> (Nodes \X Nodes) \cup {Nil}]
BY DEF QueueTypeOK, Nodes, Exchange

LEMMA LinkTypes ==
  ASSUME QueueTypeOK, NEW t \in Thread, Link(t)
  PROVE  /\ next' \in [Nodes -> Nodes \cup {Nil}] /\ head' \in Nodes
         /\ link' \in [Thread -> (Nodes \X Nodes) \cup {Nil}]
<1>1. link[t] \in Nodes \X Nodes
  BY DEF QueueTypeOK, Nodes, Link
<1>2. link[t][1] \in Nodes /\ link[t][2] \in Nodes
  BY <1>1
<1> QED
  BY <1>2 DEF QueueTypeOK, Nodes, Link

(* What a call of Dequeue does to the packets, and what it leaves.           *)
Effect(c) ==
  /\ QueueTypeOK' /\ QueueIsChained'
  /\ \/ taken' = taken
     \/ /\ c < Len(sent) /\ sent[c + 1] \notin taken
        /\ taken' = taken \cup {sent[c + 1]} /\ dequeue' = "idle"

LEMMA TakesFirst ==
  ASSUME QueueTypeOK, QueueAssumption, sent \in Seq(Node), IsInjective(sent), sent' = sent,
         NEW c \in 0 .. Len(sent), TakenFirst(c),
         NEW ch \in Seq(Nodes), NEW first \in Node,
         Chain(ch, first), Holds(ch, taken),
         TakeLinked(first), UNCHANGED <<next, head, link>>
  PROVE  Effect(c)
<1> DEFINE r == Tail(ch)
<1>1. Len(ch) > 0 /\ IsInjective(ch) /\ ch[1] = first /\ first # Dummy
  BY DEF Chain, QueueAssumption
<1>2. c < Len(sent) /\ first = sent[c + 1] /\ first \notin taken
  BY <1>1, FirstIsNext
<1>3. Chain(r, next[first]) /\ Len(ch) > 1 /\ ch[2] = next[first]
  BY LeaveFirst DEF TakeLinked
<1>4. Holds(r, taken \cup {first}) /\ r \in Seq(Nodes)
  BY <1>1, HoldsRest
<1> HIDE DEF r
<1>5. tail' = next[first] /\ dequeue' = "idle" /\ taken' = taken \cup {first}
  BY DEF TakeLinked, Return, QueueAssumption
<1>6. Chain(r, tail)'
  BY <1>3, <1>5 DEF Chain
<1>7. Holds(r, taken)'
  BY <1>4, <1>5 DEF Holds
<1>8. DummyIsOut(r)'
  BY <1>5 DEF DummyIsOut
<1>9. next[first] \in Nodes
  BY <1>3, RangeOf
<1>10. QueueTypeOK'
  BY <1>5, <1>9 DEF QueueTypeOK, Nodes
<1> QED
  BY <1>2, <1>4, <1>5, <1>6, <1>7, <1>8, <1>10 DEF Effect, QueueIsChained

LEMMA DequeueTakesInOrder ==
  ASSUME QueueTypeOK, QueueAssumption, sent \in Seq(Node), IsInjective(sent), sent' = sent,
         QueueIsChained, NEW c \in 0 .. Len(sent), TakenFirst(c), DequeueStep
  PROVE  Effect(c)
<1> PICK ch \in Seq(Nodes) : Chain(ch, tail) /\ Holds(ch, taken) /\ DummyIsOut(ch)
  BY DEF QueueIsChained
<1>1. /\ Len(ch) > 0 /\ IsInjective(ch) /\ ch[1] = tail /\ tail # Nil
      /\ Len(ch) \in Nat /\ DOMAIN ch = 1 .. Len(ch)
  BY RangeOf DEF Chain, QueueTypeOK, QueueAssumption
<1>2. ASSUME NEW r \in Seq(Nodes), Chain(r, tail'), Holds(r, taken),
             DummyIsOut(r)', taken' = taken, UNCHANGED <<next, head, link>>,
             tail' \in Nodes, dequeue' \in {"idle", "head", "dummy", "link", "again"}
      PROVE  Effect(c)
  <2>1. Chain(r, tail)'
    BY <1>2 DEF Chain
  <2>2. Holds(r, taken)'
    BY <1>2 DEF Holds
  <2>3. QueueTypeOK'
    BY <1>2 DEF QueueTypeOK, Nodes
  <2> QED
    BY <1>2, <2>1, <2>2, <2>3 DEF Effect, QueueIsChained
<1>3. ASSUME UNCHANGED <<next, head, link, tail>>, Return(Nil) PROVE Effect(c)
  <2>1. taken' = taken /\ DummyIsOut(ch)' /\ dequeue' = "idle"
    BY <1>3 DEF Return, DummyIsOut
  <2> QED
    BY <1>2, <1>3, <2>1 DEF QueueTypeOK, Nodes
<1>4. CASE ReadTail
  <2> DEFINE first == IF tail = Dummy THEN next[Dummy] ELSE tail
  <2>1. CASE first = Nil
    <3>1. UNCHANGED tail /\ Return(Nil)
      BY <1>4, <2>1 DEF ReadTail
    <3> QED
      BY <1>3, <1>4, <3>1 DEF ReadTail
  <2>2. CASE first # Nil
    <3>1. \E r \in Seq(Nodes) : Chain(r, first) /\ Holds(r, taken) /\ first \in Node
      <4>1. CASE tail = Dummy
        <5>1. next[tail] # Nil
          BY <2>2, <4>1
        <5>2. Len(ch) > 1 /\ ch[2] = next[tail] /\ Chain(Tail(ch), next[tail])
          BY <5>1, LeaveFirst
        <5>3. Tail(ch) \in Seq(Nodes) /\ Holds(Tail(ch), taken)
          BY <1>1, <4>1, HoldsRest
        <5>4. ch[2] \in Nodes /\ ch[2] # ch[1]
          BY <1>1, <5>2, RangeOf DEF IsInjective
        <5> QED
          BY <1>1, <4>1, <5>2, <5>3, <5>4 DEF Nodes
      <4>2. CASE tail # Dummy
        BY <4>2 DEF QueueTypeOK
      <4> QED
        BY <4>1, <4>2
    <3> HIDE DEF first
    <3>2. PICK r \in Seq(Nodes) : Chain(r, first) /\ Holds(r, taken) /\ first \in Node
      BY <3>1
    <3>3. \/ TakeLinked(first)
          \/ tail' = first /\ dequeue' = "head" /\ UNCHANGED taken
      BY <1>4, <2>2 DEF ReadTail, first
    <3>4. UNCHANGED <<next, head, link>>
      BY <1>4 DEF ReadTail
    <3>5. CASE TakeLinked(first)
      BY <3>2, <3>4, <3>5, TakesFirst
    <3>6. CASE tail' = first /\ dequeue' = "head" /\ UNCHANGED taken
      <4>1. DummyIsOut(r)' /\ first \in Nodes
        BY <3>2, <3>6 DEF DummyIsOut, QueueAssumption, Nodes
      <4> QED
        BY <1>2, <3>2, <3>4, <3>6, <4>1
    <3> QED
      BY <3>3, <3>5, <3>6
  <2> QED
    BY <2>1, <2>2
<1>5. CASE ReadHead
  <2>1. CASE tail # head
    BY <1>3, <1>5, <2>1 DEF ReadHead
  <2>2. CASE tail = head
    <3>1. /\ dequeue = "head" /\ dequeue' = "dummy"
          /\ UNCHANGED <<next, head, tail, link, taken>>
      BY <1>5, <2>2 DEF ReadHead
    <3>2. Len(ch) = 1
      BY <1>1, <2>2 DEF Chain, IsInjective
    <3>3. Range(ch) = {tail} /\ tail # Dummy
      BY <1>1, <3>1, <3>2 DEF Range, DummyIsOut
    <3>4. DummyIsOut(ch)'
      BY <3>1, <3>3 DEF DummyIsOut
    <3> QED
      BY <1>2, <3>1, <3>4 DEF QueueTypeOK, Nodes
  <2> QED
    BY <2>1, <2>2
<1>6. CASE EnqueueDummy
  <2>1. /\ dequeue = "dummy" /\ Exchange(Consumer, Dummy) /\ dequeue' = "link"
        /\ tail' = tail /\ taken' = taken
    BY <1>6 DEF EnqueueDummy
  <2>2. Dummy \notin Range(ch) /\ tail # Dummy /\ Dummy \in Nodes /\ Consumer \in Thread
    BY <2>1 DEF DummyIsOut, Nodes, QueueAssumption
  <2> DEFINE r == Append(ch, Dummy)
  <2>3. PICK f : f = tail
    OBVIOUS
  <2>4. Chain(r, f)'
    BY <2>1, <2>2, <2>3, ExchangeAppends
  <2>5. Holds(r, taken) /\ r \in Seq(Nodes)
    BY <2>2, DummyLast, AppendedTo
  <2> HIDE DEF r
  <2>6. Chain(r, tail)'
    BY <2>1, <2>3, <2>4 DEF Chain
  <2>7. Holds(r, taken)' /\ DummyIsOut(r)'
    BY <2>1, <2>2, <2>5 DEF Holds, DummyIsOut
  <2>8. QueueTypeOK'
    BY <2>1, <2>2, ExchangeTypes DEF QueueTypeOK, Nodes
  <2> QED
    BY <2>1, <2>5, <2>6, <2>7, <2>8 DEF Effect, QueueIsChained
<1>7. CASE LinkDummy
  <2>1. /\ dequeue = "link" /\ Link(Consumer) /\ dequeue' = "again"
        /\ tail' = tail /\ taken' = taken
    BY <1>7 DEF LinkDummy
  <2>2. PICK f : f = tail
    OBVIOUS
  <2>3. Chain(ch, f)'
    BY <2>1, <2>2, LinkMends DEF QueueAssumption
  <2>4. Chain(ch, tail)'
    BY <2>1, <2>2, <2>3 DEF Chain
  <2>5. Holds(ch, taken)' /\ DummyIsOut(ch)'
    BY <2>1 DEF Holds, DummyIsOut
  <2>6. QueueTypeOK'
    BY <2>1, LinkTypes DEF QueueTypeOK, Nodes, QueueAssumption
  <2> QED
    BY <2>1, <2>4, <2>5, <2>6 DEF Effect, QueueIsChained
<1>8. CASE ReadTailAgain
  <2>1. tail \in Node /\ UNCHANGED <<next, head, link>>
    BY <1>8 DEF ReadTailAgain, DummyIsOut, QueueTypeOK
  <2>2. CASE TakeLinked(tail)
    BY <2>1, <2>2, TakesFirst
  <2>3. CASE UNCHANGED tail /\ Return(Nil)
    BY <1>3, <2>1, <2>3
  <2> QED
    BY <1>8, <2>2, <2>3 DEF ReadTailAgain
<1> QED
  BY <1>4, <1>5, <1>6, <1>7, <1>8 DEF DequeueStep

-----------------------------------------------------------------------------
(* The buffers: WaitsInOrder of a _writeQueue, a buffer and packets sent.    *)
Cuts(queue, last, packets, written, all) ==
  /\ all <= Len(packets)
  /\ \E cut \in [0 .. Len(queue) -> 0 .. all] :
       /\ cut[0] = written
       /\ \A i \in 1 .. Len(queue) : queue[i] = SubSeq(packets, cut[i - 1] + 1, cut[i])
       /\ last = SubSeq(packets, cut[Len(queue)] + 1, all)

Buffers == Seq(Seq(Node) \ {<<>>})

LEMMA WaitsIsCuts ==
  ASSUME NEW written, NEW all
  PROVE  WaitsInOrder(written, all) <=> Cuts(writeQueue, buffer, sent, written, all)
BY DEF WaitsInOrder, Cuts

LEMMA Part ==
  ASSUME NEW S, NEW q \in Seq(S), NEW a \in Nat, NEW b \in Nat, b <= Len(q)
  PROVE  /\ SubSeq(q, a + 1, b) \in Seq(S)
         /\ Len(SubSeq(q, a + 1, b)) = IF a < b THEN b - a ELSE 0
         /\ \A i \in 1 .. b - a : SubSeq(q, a + 1, b)[i] = q[a + i]
<1>1. \A i \in a + 1 .. b : q[i] \in S
  OBVIOUS
<1>2. /\ SubSeq(q, a + 1, b) \in Seq(S)
      /\ Len(SubSeq(q, a + 1, b)) = IF a + 1 <= b THEN b - (a + 1) + 1 ELSE 0
      /\ \A i \in 1 .. b - (a + 1) + 1 : SubSeq(q, a + 1, b)[i] = q[a + 1 + i - 1]
  BY <1>1, SubSeqProperties
<1> QED
  BY <1>2

(* A part does not change when something is added behind it.                *)
LEMMA PartOfLonger ==
  ASSUME NEW S, NEW q \in Seq(S), NEW n \in S, NEW a \in Nat, NEW b \in Nat, b <= Len(q)
  PROVE  SubSeq(Append(q, n), a + 1, b) = SubSeq(q, a + 1, b)
<1> DEFINE r == Append(q, n)
<1>1. r \in Seq(S) /\ Len(r) = Len(q) + 1 /\ \A i \in 1 .. Len(q) : r[i] = q[i]
  BY AppendedTo
<1>2. Len(q) \in Nat
  OBVIOUS
<1> HIDE DEF r
<1>3. /\ SubSeq(r, a + 1, b) \in Seq(S)
      /\ Len(SubSeq(r, a + 1, b)) = IF a < b THEN b - a ELSE 0
      /\ \A i \in 1 .. b - a : SubSeq(r, a + 1, b)[i] = r[a + i]
  BY <1>1, <1>2, Part
<1>4. /\ SubSeq(q, a + 1, b) \in Seq(S)
      /\ Len(SubSeq(q, a + 1, b)) = IF a < b THEN b - a ELSE 0
      /\ \A i \in 1 .. b - a : SubSeq(q, a + 1, b)[i] = q[a + i]
  BY Part
<1> DEFINE x == SubSeq(r, a + 1, b)
           y == SubSeq(q, a + 1, b)
<1>5. ASSUME NEW i \in 1 .. Len(x) PROVE x[i] = y[i]
  <2>1. i \in 1 .. b - a /\ a + i \in 1 .. Len(q)
    BY <1>2, <1>3
  <2> QED
    BY <1>1, <1>3, <1>4, <2>1
<1> QED
  BY <1>3, <1>4, <1>5, SeqEqual DEF r

LEMMA PartAndOne ==
  ASSUME NEW S, NEW q \in Seq(S), NEW b \in 0 .. Len(q) - 1, NEW a \in 0 .. b
  PROVE  SubSeq(q, a + 1, b + 1) = Append(SubSeq(q, a + 1, b), q[b + 1])
<1> DEFINE x == SubSeq(q, a + 1, b)
           y == SubSeq(q, a + 1, b + 1)
           z == Append(x, q[b + 1])
<1>1. a \in Nat /\ b \in Nat /\ Len(q) \in Nat /\ b + 1 \in Nat /\ b + 1 <= Len(q)
  OBVIOUS
<1>2. x \in Seq(S) /\ Len(x) = b - a /\ \A i \in 1 .. b - a : x[i] = q[a + i]
  BY <1>1, Part
<1>3. y \in Seq(S) /\ Len(y) = b + 1 - a /\ \A i \in 1 .. b + 1 - a : y[i] = q[a + i]
  BY <1>1, Part
<1>4. q[b + 1] \in S
  BY <1>1
<1>5. /\ z \in Seq(S) /\ Len(z) = b - a + 1 /\ z[b - a + 1] = q[b + 1]
      /\ \A i \in 1 .. b - a : z[i] = x[i]
  BY <1>2, <1>4, AppendedTo
<1> HIDE DEF x, y, z
<1>6. ASSUME NEW i \in 1 .. Len(y) PROVE y[i] = z[i]
  <2>1. CASE i = b - a + 1
    <3>1. a + i = b + 1
      BY <1>1, <2>1
    <3> QED
      BY <1>3, <1>5, <2>1, <3>1
  <2>2. CASE i # b - a + 1
    <3>1. i \in 1 .. b - a /\ i \in 1 .. b + 1 - a
      BY <1>1, <1>3, <2>2
    <3> QED
      BY <1>2, <1>3, <1>5, <3>1
  <2> QED
    BY <2>1, <2>2
<1>7. Len(y) = Len(z)
  BY <1>1, <1>3, <1>5
<1> QED
  BY <1>3, <1>5, <1>6, <1>7, SeqEqual DEF x, y, z

LEMMA PartOfPart ==
  ASSUME NEW S, NEW q \in Seq(S), NEW b \in 0 .. Len(q), NEW a \in 0 .. b,
         NEW k \in 0 .. b - a, NEW l \in k .. b - a
  PROVE  SubSeq(SubSeq(q, a + 1, b), k + 1, l) = SubSeq(q, a + k + 1, a + l)
<1> DEFINE x == SubSeq(q, a + 1, b)
           y == SubSeq(x, k + 1, l)
           z == SubSeq(q, a + k + 1, a + l)
<1>1. /\ a \in Nat /\ b \in Nat /\ Len(q) \in Nat /\ k \in Nat /\ l \in Nat
      /\ a + k \in Nat /\ a + l \in Nat /\ a + l <= Len(q) /\ l <= b - a
  OBVIOUS
<1>2. x \in Seq(S) /\ Len(x) = b - a /\ \A i \in 1 .. b - a : x[i] = q[a + i]
  BY <1>1, Part
<1> HIDE DEF x
<1>3. y \in Seq(S) /\ Len(y) = l - k /\ \A i \in 1 .. l - k : y[i] = x[k + i]
  BY <1>1, <1>2, Part
<1>4. /\ z \in Seq(S) /\ Len(z) = l - k
      /\ \A i \in 1 .. a + l - (a + k) : z[i] = q[a + k + i]
  BY <1>1, Part
<1> HIDE DEF y, z
<1>5. ASSUME NEW i \in 1 .. Len(y) PROVE y[i] = z[i]
  <2>1. /\ i \in 1 .. l - k /\ i \in 1 .. a + l - (a + k) /\ k + i \in 1 .. b - a
        /\ a + (k + i) = a + k + i
    BY <1>1, <1>3
  <2> QED
    BY <1>2, <1>3, <1>4, <2>1
<1> QED
  BY <1>3, <1>4, <1>5, SeqEqual DEF x, y, z

(* The next packet goes to the end of the buffer.                           *)
LEMMA CutsTaken ==
  ASSUME NEW queue \in Buffers, NEW last \in Seq(Node), NEW packets \in Seq(Node), NEW w,
         NEW c \in 0 .. Len(packets) - 1, Cuts(queue, last, packets, w, c)
  PROVE  Cuts(queue, Append(last, packets[c + 1]), packets, w, c + 1)
<1> DEFINE m == Len(queue)
<1>1. PICK cut \in [0 .. m -> 0 .. c] :
        /\ cut[0] = w
        /\ \A i \in 1 .. m : queue[i] = SubSeq(packets, cut[i - 1] + 1, cut[i])
        /\ last = SubSeq(packets, cut[m] + 1, c)
  BY DEF Cuts
<1>2. m \in Nat /\ Len(packets) \in Nat
  BY DEF Buffers
<1> HIDE DEF m
<1>3. cut[m] \in 0 .. c
  BY <1>1, <1>2
<1>4. Append(last, packets[c + 1]) = SubSeq(packets, cut[m] + 1, c + 1)
  BY <1>1, <1>3, PartAndOne
<1>5. cut \in [0 .. m -> 0 .. c + 1] /\ c + 1 <= Len(packets)
  BY <1>1, <1>2
<1> QED
  BY <1>1, <1>4, <1>5 DEF Cuts, m

(* The buffer is queued, unless it is empty.                                *)
LEMMA CutsQueued ==
  ASSUME NEW queue \in Buffers, NEW last \in Seq(Node), NEW packets \in Seq(Node), NEW w,
         NEW c \in 0 .. Len(packets), Cuts(queue, last, packets, w, c)
  PROVE  Cuts(IF last = <<>> THEN queue ELSE Append(queue, last), <<>>, packets, w, c)
<1> DEFINE m == Len(queue)
           r == Append(queue, last)
<1>1. CASE last = <<>>
  BY <1>1
<1>2. CASE last # <<>>
  <2>1. PICK cut \in [0 .. m -> 0 .. c] :
          /\ cut[0] = w
          /\ \A i \in 1 .. m : queue[i] = SubSeq(packets, cut[i - 1] + 1, cut[i])
          /\ last = SubSeq(packets, cut[m] + 1, c)
    BY DEF Cuts
  <2>2. m \in Nat /\ c \in Nat /\ c <= Len(packets)
    BY DEF Buffers
  <2>3. /\ r \in Buffers /\ Len(r) = m + 1 /\ r[m + 1] = last
        /\ \A k \in 1 .. m : r[k] = queue[k]
    BY <1>2, AppendedTo DEF Buffers
  <2> DEFINE new == [i \in 0 .. m + 1 |-> IF i <= m THEN cut[i] ELSE c]
  <2> HIDE DEF m, r
  <2>4. /\ new \in [0 .. m + 1 -> 0 .. c] /\ new[0] = w /\ new[m + 1] = c
        /\ \A i \in 0 .. m : new[i] = cut[i]
    BY <2>1, <2>2
  <2> HIDE DEF new
  <2>5. ASSUME NEW i \in 1 .. m + 1
        PROVE  r[i] = SubSeq(packets, new[i - 1] + 1, new[i])
    <3>1. CASE i = m + 1
      <4>1. i - 1 = m /\ m \in 0 .. m
        BY <2>2, <3>1
      <4> QED
        BY <2>1, <2>3, <2>4, <3>1, <4>1
    <3>2. CASE i # m + 1
      <4>1. i \in 1 .. m /\ i \in 0 .. m /\ i - 1 \in 0 .. m
        BY <2>2, <3>2
      <4> QED
        BY <2>1, <2>3, <2>4, <4>1
    <3> QED
      BY <3>1, <3>2
  <2>6. <<>> = SubSeq(packets, new[m + 1] + 1, c)
    BY <2>2, <2>4, SubSeqEmpty
  <2>7. Cuts(r, <<>>, packets, w, c)
    BY <2>2, <2>3, <2>4, <2>5, <2>6 DEF Cuts
  <2> QED
    BY <1>2, <2>7 DEF r
<1> QED
  BY <1>1, <1>2

(* A packet is sent.                                                        *)
LEMMA CutsLonger ==
  ASSUME NEW queue \in Buffers, NEW last \in Seq(Node), NEW packets \in Seq(Node), NEW w,
         NEW c \in 0 .. Len(packets), Cuts(queue, last, packets, w, c), NEW n \in Node
  PROVE  Cuts(queue, last, Append(packets, n), w, c)
<1> DEFINE m == Len(queue)
           r == Append(packets, n)
<1>1. PICK cut \in [0 .. m -> 0 .. c] :
        /\ cut[0] = w
        /\ \A i \in 1 .. m : queue[i] = SubSeq(packets, cut[i - 1] + 1, cut[i])
        /\ last = SubSeq(packets, cut[m] + 1, c)
  BY DEF Cuts
<1>2. m \in Nat /\ c \in Nat /\ c <= Len(packets) /\ Len(packets) \in Nat
  BY DEF Buffers
<1>3. Len(r) = Len(packets) + 1
  BY AppendedTo
<1> HIDE DEF m
<1>4. ASSUME NEW a \in 0 .. c, NEW b \in 0 .. c
      PROVE  SubSeq(r, a + 1, b) = SubSeq(packets, a + 1, b)
  <2>1. a \in Nat /\ b \in Nat /\ b <= Len(packets)
    BY <1>2
  <2> QED
    BY <2>1, PartOfLonger
<1> HIDE DEF r
<1>5. ASSUME NEW i \in 1 .. m
      PROVE  queue[i] = SubSeq(r, cut[i - 1] + 1, cut[i])
  <2>1. cut[i - 1] \in 0 .. c /\ cut[i] \in 0 .. c
    BY <1>1, <1>2
  <2> QED
    BY <1>1, <1>4, <2>1
<1>6. last = SubSeq(r, cut[m] + 1, c)
  <2>1. cut[m] \in 0 .. c /\ c \in 0 .. c
    BY <1>1, <1>2
  <2> QED
    BY <1>1, <1>4, <2>1
<1>7. c <= Len(r)
  BY <1>2, <1>3
<1> QED
  BY <1>1, <1>5, <1>6, <1>7 DEF Cuts, m, r

(* The first k packets of the first buffer are written.                     *)
LEMMA CutsWritten ==
  ASSUME NEW queue \in Buffers, queue # <<>>,
         NEW last \in Seq(Node), NEW packets \in Seq(Node), NEW w \in Nat,
         NEW c \in 0 .. Len(packets), Cuts(queue, last, packets, w, c),
         NEW k \in 1 .. Len(Head(queue))
  PROVE  /\ w + k <= c
         /\ SubSeq(Head(queue), 1, k) = SubSeq(packets, w + 1, w + k)
         /\ k < Len(Head(queue)) =>
              Cuts(<<SubSeq(Head(queue), k + 1, Len(Head(queue)))>> \o Tail(queue),
                   last, packets, w + k, c)
         /\ k = Len(Head(queue)) => Cuts(Tail(queue), last, packets, w + k, c)
<1> DEFINE m == Len(queue)
           f == Head(queue)
           t == Tail(queue)
<1>1. PICK cut \in [0 .. m -> 0 .. c] :
        /\ cut[0] = w
        /\ \A i \in 1 .. m : queue[i] = SubSeq(packets, cut[i - 1] + 1, cut[i])
        /\ last = SubSeq(packets, cut[m] + 1, c)
  BY DEF Cuts
<1>2. /\ m \in Nat /\ m > 0 /\ c \in Nat /\ c <= Len(packets) /\ Len(packets) \in Nat
      /\ f = queue[1] /\ f \in Seq(Node) /\ Len(f) \in Nat
  BY DEF Buffers
<1>3. t \in Buffers /\ Len(t) = m - 1 /\ \A i \in 1 .. m - 1 : t[i] = queue[i + 1]
  BY HeadTailProperties DEF Buffers
<1> HIDE DEF m, f, t
<1> DEFINE b == cut[1]
<1>4. b \in 0 .. c /\ b \in Nat /\ b <= Len(packets) /\ f = SubSeq(packets, w + 1, b)
  <2>1. 1 \in 1 .. m /\ 1 \in 0 .. m /\ 1 - 1 = 0
    BY <1>2
  <2>2. queue[1] = SubSeq(packets, cut[1 - 1] + 1, cut[1])
    BY <1>1, <2>1
  <2>3. cut[1] \in 0 .. c
    BY <1>1, <2>1
  <2>4. f = SubSeq(packets, w + 1, b)
    BY <1>1, <1>2, <2>1, <2>2
  <2> HIDE DEF b
  <2>5. b \in 0 .. c
    BY <2>3 DEF b
  <2> QED
    BY <1>2, <2>4, <2>5
<1> HIDE DEF b
<1>5. w < b /\ Len(f) = b - w
  <2>1. Len(f) = IF w < b THEN b - w ELSE 0
    BY <1>4, Part
  <2>2. k \in 1 .. Len(f)
    BY DEF f
  <2> QED
    BY <2>1, <2>2
<1>6. k \in 1 .. b - w /\ w \in 0 .. b /\ b \in 0 .. Len(packets)
  BY <1>4, <1>5 DEF f
<1>7. w + k <= c /\ w + k \in 0 .. c
  BY <1>2, <1>4, <1>6
<1>8. SubSeq(f, 1, k) = SubSeq(packets, w + 1, w + k)
  <2>1. 0 \in 0 .. b - w /\ k \in 0 .. b - w /\ w + 0 = w /\ 0 + 1 = 1
    BY <1>6
  <2>2. SubSeq(f, 0 + 1, k) = SubSeq(packets, w + 0 + 1, w + k)
    BY <1>4, <1>6, <2>1, PartOfPart
  <2> QED
    BY <2>1, <2>2
<1>9. ASSUME k < Len(f)
      PROVE  Cuts(<<SubSeq(f, k + 1, Len(f))>> \o t, last, packets, w + k, c)
  <2> DEFINE g == SubSeq(f, k + 1, Len(f))
             r == <<g>> \o t
             new == [cut EXCEPT ![0] = w + k]
  <2>1. g = SubSeq(packets, w + k + 1, b)
    <3>1. k \in 0 .. b - w /\ b - w \in k .. b - w /\ w + (b - w) = b
      BY <1>4, <1>6
    <3> QED
      BY <1>4, <1>5, <1>6, <3>1, PartOfPart
  <2>2. g \in Seq(Node) \ {<<>>}
    <3>1. g \in Seq(Node) /\ Len(g) = Len(f) - k
      BY <1>2, <1>9, Part
    <3> HIDE DEF g
    <3>2. Len(g) > 0
      BY <1>2, <1>6, <1>9, <3>1
    <3>3. Len(<<>>) = 0
      OBVIOUS
    <3>4. g # <<>>
      BY <3>2, <3>3
    <3> QED
      BY <3>1, <3>4
  <2> HIDE DEF g
  <2>3. <<g>> \in Buffers /\ Len(<<g>>) = 1 /\ <<g>>[1] = g
    BY <2>2 DEF Buffers
  <2>4. /\ Len(r) = 1 + (m - 1)
        /\ \A i \in 1 .. 1 + (m - 1) : r[i] = IF i <= 1 THEN <<g>>[i] ELSE t[i - 1]
    BY <1>3, <2>3, ConcatProperties DEF Buffers
  <2> HIDE DEF r
  <2>5. Len(r) = m /\ r[1] = g /\ \A i \in 2 .. m : r[i] = queue[i]
    <3>1. 1 + (m - 1) = m
      BY <1>2
    <3>2. ASSUME NEW i \in 2 .. m PROVE r[i] = queue[i]
      <4>1. i - 1 \in 1 .. m - 1 /\ (i - 1) + 1 = i /\ i \in 1 .. m /\ ~ (i <= 1)
        BY <1>2
      <4> QED
        BY <1>3, <2>4, <3>1, <4>1
    <3>3. r[1] = g
      BY <1>2, <2>3, <2>4, <3>1
    <3> QED
      BY <2>4, <3>1, <3>2, <3>3
  <2>6. /\ new \in [0 .. m -> 0 .. c] /\ new[0] = w + k
        /\ \A i \in 1 .. m : new[i] = cut[i]
    <3>1. 0 \in 0 .. m /\ \A i \in 1 .. m : i \in 0 .. m /\ i # 0
      BY <1>2
    <3> QED
      BY <1>1, <1>7, <3>1
  <2> HIDE DEF new
  <2>7. ASSUME NEW i \in 1 .. m
        PROVE  r[i] = SubSeq(packets, new[i - 1] + 1, new[i])
    <3>1. CASE i = 1
      <4>1. i - 1 = 0 /\ new[i] = b
        BY <2>6, <3>1 DEF b
      <4> QED
        BY <2>1, <2>5, <2>6, <3>1, <4>1
    <3>2. CASE i # 1
      <4>1. i \in 2 .. m /\ i - 1 \in 1 .. m
        BY <1>2, <3>2
      <4> QED
        BY <1>1, <2>5, <2>6, <4>1
    <3> QED
      BY <3>1, <3>2
  <2>8. last = SubSeq(packets, new[m] + 1, c)
    <3>1. m \in 1 .. m
      BY <1>2
    <3> QED
      BY <1>1, <2>6, <3>1
  <2>9. Cuts(r, last, packets, w + k, c)
    BY <1>2, <2>5, <2>6, <2>7, <2>8 DEF Cuts
  <2> QED
    BY <2>9 DEF r, g
<1>10. ASSUME k = Len(f) PROVE Cuts(t, last, packets, w + k, c)
  <2> DEFINE new == [i \in 0 .. m - 1 |-> cut[i + 1]]
  <2>1. /\ new \in [0 .. m - 1 -> 0 .. c] /\ new[0] = b /\ new[m - 1] = cut[m]
        /\ \A i \in 0 .. m - 1 : new[i] = cut[i + 1]
    <3>1. \A i \in 0 .. m - 1 : i + 1 \in 0 .. m
      BY <1>2
    <3>2. 0 \in 0 .. m - 1 /\ m - 1 \in 0 .. m - 1 /\ 0 + 1 = 1 /\ m - 1 + 1 = m
      BY <1>2
    <3> QED
      BY <1>1, <3>1, <3>2 DEF b
  <2> HIDE DEF new
  <2>2. b = w + k
    BY <1>4, <1>5, <1>10
  <2>3. ASSUME NEW i \in 1 .. m - 1
        PROVE  t[i] = SubSeq(packets, new[i - 1] + 1, new[i])
    <3>1. /\ i + 1 \in 1 .. m /\ i \in 0 .. m - 1 /\ i - 1 \in 0 .. m - 1
          /\ (i + 1) - 1 = i /\ (i - 1) + 1 = i
      BY <1>2
    <3>2. queue[i + 1] = SubSeq(packets, cut[(i + 1) - 1] + 1, cut[i + 1])
      BY <1>1, <3>1
    <3>3. t[i] = queue[i + 1] /\ new[i] = cut[i + 1] /\ new[i - 1] = cut[(i - 1) + 1]
      BY <1>3, <2>1, <3>1
    <3> QED
      BY <3>1, <3>2, <3>3
  <2> QED
    BY <1>1, <1>2, <1>3, <2>1, <2>2, <2>3 DEF Cuts
<1> QED
  BY <1>7, <1>8, <1>9, <1>10 DEF f, t

-----------------------------------------------------------------------------
(* What some steps leave alone.                                             *)

LEMMA SameQueue ==
  ASSUME QueueTypeOK, QueueIsChained, UNCHANGED <<queueVars, sent>>
  PROVE  QueueTypeOK' /\ QueueIsChained'
<1>1. PICK ch \in Seq(Nodes) : Chain(ch, tail) /\ Holds(ch, taken) /\ DummyIsOut(ch)
  BY DEF QueueIsChained
<1>2. Chain(ch, tail)'
  BY <1>1 DEF Chain, queueVars
<1>3. Holds(ch, taken)' /\ DummyIsOut(ch)'
  BY <1>1 DEF Holds, DummyIsOut, queueVars
<1> QED
  BY <1>2, <1>3 DEF QueueIsChained, QueueTypeOK, queueVars

LEMMA SameOrder ==
  ASSUME NEW c, InOrder(c), WriteFails => WriteFails',
         UNCHANGED <<taken, sent, writeQueue, buffer, wire>>
  PROVE  InOrder(c)'
<1>1. ~ WriteFails' => WaitsInOrder(Len(wire), c)'
  BY DEF InOrder, WaitsInOrder
<1>2. TakenFirst(c)' /\ (Len(wire) <= Len(sent))' /\ (wire = SubSeq(sent, 1, Len(wire)))'
  BY DEF InOrder, TakenFirst
<1> QED
  BY <1>1, <1>2 DEF InOrder

(* What the network thread and the world do to the socket's own state, when *)
(* they move no packet.                                                     *)
Idle ==
  \/ KickPlayer \/ LoseConnection \/ StartUpdate \/ Update \/ ReadError
  \/ NoCallback \/ IsBannedAddress \/ CreateSession \/ DelayedCloseSocket
  \/ \E n \in Node : SendPacket(n)

LEMMA IdleEffect ==
  ASSUME TypeOK, SentOnce, HasToSend, Idle
  PROVE  /\ UNCHANGED <<queueVars, sent, writeQueue, buffer, wire, isWritingAsync>>
         /\ WriteFails => WriteFails'
         /\ openState' \subseteq {OpenState_Closing, OpenState_Closed}
         /\ network' \in {"idle", "dequeue", "update", "send", "callbacks", "answer", "close",
                          "removed"}
         /\ session' \in BOOLEAN /\ lost' \in BOOLEAN /\ kicked' \in BOOLEAN
         /\ admitted' \subseteq Node /\ HasToSend' /\ SentOnce'
<1> USE DEF TypeOK, WriteFails, HasToSend, SentOnce, socketVars, world
<1>1. CASE KickPlayer
  <2>1. /\ UNCHANGED <<queueVars, writeQueue, isWritingAsync, admitted, session, lost,
                        network, buffer, sent, wire>>
        /\ openState' = openState \cup {OpenState_Closed} /\ kicked' \in BOOLEAN
    BY <1>1 DEF KickPlayer
  <2>2. WriteFails => WriteFails'
    BY <2>1
  <2>3. HasToSend' /\ SentOnce'
    BY <2>1
  <2> HIDE DEF HasToSend, SentOnce, WriteFails
  <2> QED
    BY <2>1, <2>2, <2>3
<1>2. CASE LoseConnection
  <2>1. /\ UNCHANGED <<queueVars, socketVars, admitted, session, kicked, network, buffer,
                        sent, wire>>
        /\ lost' \in BOOLEAN
    BY <1>2 DEF LoseConnection
  <2>2. WriteFails'
    BY <1>2 DEF LoseConnection
  <2>3. HasToSend' /\ SentOnce'
    BY <2>1
  <2> HIDE DEF HasToSend, SentOnce, WriteFails
  <2> QED
    BY <2>1, <2>2, <2>3
<1>3. CASE StartUpdate
  BY <1>3 DEF StartUpdate, NetworkUnchanged
<1>4. CASE Update
  BY <1>4 DEF Update, NetworkUnchanged
<1>5. CASE ReadError
  BY <1>5 DEF ReadError, NetworkUnchanged
<1>6. CASE NoCallback
  BY <1>6 DEF NoCallback, NetworkUnchanged
<1>7. CASE IsBannedAddress
  BY <1>7 DEF IsBannedAddress, NetworkUnchanged
<1>8. CASE CreateSession
  BY <1>8 DEF CreateSession
<1>9. CASE DelayedCloseSocket
  BY <1>9 DEF DelayedCloseSocket, NetworkUnchanged
<1>10. ASSUME NEW n \in Node, SendPacket(n) PROVE UNCHANGED sent /\ n \notin Range(sent)
  BY <1>10 DEF SendPacket, IsNew
<1>11. ASSUME NEW n \in Node, SendPacket(n)
       PROVE  /\ UNCHANGED <<queueVars, sent, socketVars, buffer, wire, network, session,
                             lost, kicked>>
              /\ admitted' = admitted \cup {n} /\ Sender[n] # Consumer
  BY <1>11 DEF SendPacket
<1>12. CASE \E n \in Node : SendPacket(n)
  <2>1. PICK n \in Node : SendPacket(n)
    BY <1>12
  <2>2. WriteFails => WriteFails'
    BY <1>11, <2>1
  <2>3. /\ UNCHANGED <<queueVars, sent, socketVars, buffer, wire, network, session,
                       lost, kicked>>
        /\ admitted' = admitted \cup {n} /\ Sender[n] # Consumer /\ n \notin Range(sent)
    BY <1>10, <1>11, <2>1
  <2>4. SentOnce'
    BY <2>3
  <2>5. HasToSend' /\ admitted' \subseteq Node
    BY <2>3
  <2> HIDE DEF HasToSend, SentOnce, WriteFails
  <2> QED
    BY <2>2, <2>3, <2>4, <2>5
<1> QED
  BY <1>1, <1>2, <1>3, <1>4, <1>5, <1>6, <1>7, <1>8, <1>9, <1>12 DEF Idle

LEMMA IdleInv ==
  ASSUME IInv, Idle
  PROVE  IInv'
<1>1. TypeOK /\ QueueTypeOK /\ SentOnce /\ HasToSend /\ QueueIsChained
  BY DEF IInv, TypeOK
<1>2. QueueTypeOK' /\ QueueIsChained'
  BY <1>1, IdleEffect, SameQueue
<1>3. PICK c \in 0 .. Len(sent) : InOrder(c)
  BY DEF IInv
<1>4. InOrder(c)' /\ sent' = sent
  BY <1>1, <1>3, IdleEffect, SameOrder DEF queueVars
<1>5. TypeOK'
  BY <1>1, <1>2, IdleEffect DEF TypeOK
<1> QED
  BY <1>1, <1>2, <1>4, <1>5, IdleEffect DEF IInv

-----------------------------------------------------------------------------
(* A thread has stored its link.                                            *)
LEMMA LinkInv ==
  ASSUME IInv, NEW t \in Thread, Link(t),
         UNCHANGED <<tail, dequeue, taken, socketVars, world, buffer, sent, wire>>,
         network' \in {network, "idle", "close"}
  PROVE  IInv'
<1>1. TypeOK /\ QueueTypeOK /\ SentOnce /\ HasToSend
  BY DEF IInv, TypeOK
<1>2. PICK ch \in Seq(Nodes) : Chain(ch, tail) /\ Holds(ch, taken) /\ DummyIsOut(ch)
  BY DEF IInv, QueueIsChained
<1>3. PICK f : f = tail
  OBVIOUS
<1>4. Chain(ch, f)'
  BY <1>1, <1>2, <1>3, LinkMends, QueueAssumption
<1>5. Chain(ch, tail)'
  BY <1>3, <1>4 DEF Chain
<1>6. QueueIsChained'
  BY <1>2, <1>5 DEF Holds, DummyIsOut, QueueIsChained
<1>7. QueueTypeOK'
  BY <1>1, LinkTypes DEF QueueTypeOK, Nodes
<1>8. PICK c \in 0 .. Len(sent) : InOrder(c)
  BY DEF IInv
<1>9. InOrder(c)'
  BY <1>8, SameOrder DEF WriteFails, socketVars, world
<1>10. TypeOK' /\ HasToSend' /\ SentOnce'
  BY <1>1, <1>7 DEF TypeOK, HasToSend, SentOnce, socketVars, world
<1> QED
  BY <1>6, <1>8, <1>9, <1>10 DEF IInv

(* A thread has exchanged the head for a packet, which is thereby sent.     *)
LEMMA ExchangeInv ==
  ASSUME IInv, NEW t \in Thread, NEW n \in Node, n \notin Range(sent), Exchange(t, n),
         sent' = Append(sent, n), n \notin admitted', admitted' \subseteq admitted,
         UNCHANGED <<tail, dequeue, taken, socketVars, session, lost, kicked, buffer, wire>>,
         network' \in {network, "answer"}
  PROVE  IInv'
<1>1. TypeOK /\ QueueTypeOK /\ SentOnce /\ HasToSend /\ sent \in Seq(Node)
  BY DEF IInv, TypeOK
<1>2. PICK ch \in Seq(Nodes) : Chain(ch, tail) /\ Holds(ch, taken) /\ DummyIsOut(ch)
  BY DEF IInv, QueueIsChained
<1>3. PICK c \in 0 .. Len(sent) : InOrder(c)
  BY DEF IInv
<1> DEFINE r == Append(ch, n)
<1>4. n \in Nodes /\ n # Dummy /\ n \notin Range(ch)
  BY <1>2, QueueAssumption DEF QueueAssumption, Nodes, Holds
<1>5. r \in Seq(Nodes) /\ Range(r) = Range(ch) \cup {n}
  BY <1>4, AppendedTo
<1>6. /\ sent' \in Seq(Node) /\ Len(sent') = Len(sent) + 1 /\ Len(sent) \in Nat
      /\ Range(sent') = Range(sent) \cup {n} /\ IsInjective(sent')
      /\ \A k \in 1 .. Len(sent) : sent'[k] = sent[k]
  BY <1>1, AppendedTo DEF SentOnce
<1>7. QueueIsChained'
  <2>1. PICK f : f = tail
    OBVIOUS
  <2>2. Chain(r, f)'
    BY <1>1, <1>2, <1>4, <2>1, ExchangeAppends, QueueAssumption
  <2>3. taken \subseteq Range(sent)
    BY <1>1, <1>3, RangeOf DEF InOrder, TakenFirst
  <2> DEFINE s == Append(sent, n)
  <2>4. Range(r) \ {Dummy} = Range(s) \ taken /\ Follows(r, s)
    BY <1>1, <1>2, <2>3, SentLast, QueueAssumption
  <2>9. sent' = s /\ taken' = taken
    OBVIOUS
  <2> HIDE DEF r, s
  <2>5. Chain(r, tail)'
    BY <2>1, <2>2 DEF Chain
  <2>6. Holds(r, taken)'
    BY <2>4, <2>9 DEF Holds
  <2>7. DummyIsOut(r)'
    BY <1>2, <1>4, <1>5 DEF DummyIsOut
  <2> QED
    BY <1>5, <2>5, <2>6, <2>7 DEF QueueIsChained
<1>8. QueueTypeOK'
  BY <1>1, <1>4, ExchangeTypes DEF QueueTypeOK, Nodes
<1>9. SentOnce'
  BY <1>1, <1>6 DEF SentOnce
<1>10. TypeOK' /\ HasToSend'
  BY <1>1, <1>6, <1>8 DEF TypeOK, HasToSend, socketVars
<1>11. InOrder(c)'
  <2>1. TakenFirst(c)'
    <3>1. \A k \in 1 .. c : k \in 1 .. Len(sent)
      BY <1>6
    <3> QED
      BY <1>3, <1>6, <3>1 DEF InOrder, TakenFirst
  <2>2. Len(wire) \in Nat /\ Len(wire) <= Len(sent) /\ wire' = wire
    BY <1>1, <1>3 DEF InOrder, TypeOK
  <2>3. wire = SubSeq(sent', 1, Len(wire))
    <3>1. SubSeq(Append(sent, n), 0 + 1, Len(wire)) = SubSeq(sent, 0 + 1, Len(wire))
      BY <1>1, <2>2, PartOfLonger
    <3>2. 0 + 1 = 1
      OBVIOUS
    <3> QED
      BY <1>3, <3>1, <3>2 DEF InOrder
  <2>4. ASSUME ~ WriteFails' PROVE WaitsInOrder(Len(wire), c)'
    <3>1. ~ WriteFails
      BY <2>4 DEF WriteFails, socketVars
    <3>2. Cuts(writeQueue, buffer, sent, Len(wire), c)
      BY <1>3, <3>1, WaitsIsCuts DEF InOrder
    <3>3. Cuts(writeQueue, buffer, sent', Len(wire), c)
      BY <1>1, <3>2, CutsLonger DEF TypeOK, Buffers
    <3>4. Cuts(writeQueue, buffer, sent, Len(wire), c)'
      BY <3>3 DEF Cuts, socketVars
    <3> QED
      BY <3>4 DEF Cuts, WaitsInOrder
  <2> QED
    BY <1>6, <2>1, <2>2, <2>3, <2>4 DEF InOrder
<1> QED
  BY <1>6, <1>7, <1>9, <1>10, <1>11 DEF IInv

-----------------------------------------------------------------------------
(* The packets move on.                                                     *)

LEMMA DequeueInv ==
  ASSUME IInv, Dequeue
  PROVE  IInv'
<1>1. TypeOK /\ QueueTypeOK /\ SentOnce /\ HasToSend /\ QueueIsChained /\ sent \in Seq(Node)
  BY DEF IInv, TypeOK
<1>2. PICK c \in 0 .. Len(sent) : InOrder(c)
  BY DEF IInv
<1>3. /\ DequeueStep
      /\ UNCHANGED <<openState, isWritingAsync, wire, sent>> /\ UNCHANGED world
  BY DEF Dequeue, NetworkUnchanged
<1>4. Effect(c)
  BY <1>1, <1>2, <1>3, DequeueTakesInOrder, QueueAssumption DEF SentOnce, InOrder
<1>5. /\ Len(sent) \in Nat /\ c \in Nat /\ Len(buffer) \in Nat
      /\ writeQueue \in Buffers /\ buffer \in Seq(Node)
      /\ UNCHANGED WriteFails
  BY <1>1, <1>3 DEF TypeOK, Buffers, WriteFails, world
<1>6. ASSUME NEW d \in 0 .. Len(sent), TakenFirst(d)', writeQueue' \in Buffers,
             buffer' \in Seq(Node), Len(buffer') <= BufferSize,
             isWritingAsync => writeQueue' # <<>>,
             network' \in {"dequeue", "update"},
             ~ WriteFails => Cuts(writeQueue', buffer', sent, Len(wire), d)
      PROVE  IInv'
  <2>1. QueueTypeOK' /\ QueueIsChained'
    BY <1>4 DEF Effect
  <2>2. SentOnce' /\ HasToSend'
    BY <1>1, <1>3, <1>6 DEF SentOnce, HasToSend, world
  <2>3. TypeOK'
    BY <1>1, <1>3, <1>6, <2>1 DEF TypeOK, Buffers, world
  <2>4. ASSUME ~ WriteFails' PROVE WaitsInOrder(Len(wire), d)'
    <3>1. Cuts(writeQueue', buffer', sent, Len(wire), d)
      BY <1>5, <1>6, <2>4
    <3> QED
      BY <1>3, <3>1 DEF Cuts, WaitsInOrder
  <2>5. InOrder(d)'
    BY <1>2, <1>3, <1>6, <2>4 DEF InOrder
  <2> QED
    BY <1>3, <2>1, <2>2, <2>3, <2>5 DEF IInv
<1>7. ~ WriteFails => Cuts(writeQueue, buffer, sent, Len(wire), c)
  BY <1>2, WaitsIsCuts DEF InOrder
<1>8. TakenFirst(c) /\ (isWritingAsync => writeQueue # <<>>) /\ Len(buffer) <= BufferSize
      /\ BufferSize \in Nat /\ BufferSize > 0
  BY <1>1, <1>2, SocketAssumption DEF InOrder, TypeOK, SocketAssumption
<1>9. CASE dequeue' # "idle" /\ UNCHANGED <<network, buffer, writeQueue>>
  <2>1. TakenFirst(c)'
    BY <1>3, <1>4, <1>8, <1>9 DEF Effect, TakenFirst
  <2>2. network' = "dequeue"
    BY <1>9 DEF Dequeue
  <2> QED
    BY <1>5, <1>6, <1>7, <1>8, <1>9, <2>1, <2>2
<1>10. CASE /\ dequeue' = "idle" /\ taken' # taken
            /\ \E n \in taken' \ taken :
                 IF Len(buffer) = BufferSize
                 THEN QueuePacket(buffer) /\ buffer' = <<n>>
                 ELSE buffer' = Append(buffer, n) /\ UNCHANGED writeQueue
            /\ UNCHANGED network
  <2> DEFINE n == sent[c + 1]
  <2>1. c + 1 \in 1 .. Len(sent) /\ taken' = taken \cup {n} /\ n \notin taken
    BY <1>4, <1>5, <1>10 DEF Effect
  <2>2. n \in Node /\ c \in 0 .. Len(sent) - 1 /\ c + 1 \in 0 .. Len(sent)
    BY <1>1, <1>5, <2>1
  <2>3. taken' \ taken = {n}
    BY <2>1
  <2>4. TakenFirst(c + 1)'
    <3>1. 1 .. c + 1 = (1 .. c) \cup {c + 1}
      BY <1>5
    <3> QED
      BY <1>3, <1>8, <2>1, <3>1 DEF TakenFirst
  <2>5. network' = "dequeue"
    BY <1>10 DEF Dequeue
  <2> HIDE DEF n
  <2>6. CASE Len(buffer) = BufferSize
    <3>1. QueuePacket(buffer) /\ buffer' = <<n>>
      BY <1>10, <2>3, <2>6
    <3>2. buffer # <<>>
      BY <1>8, <2>6
    <3>3. writeQueue' = Append(writeQueue, buffer)
      BY <3>1, <3>2 DEF QueuePacket
    <3>4. writeQueue' \in Buffers /\ writeQueue' # <<>>
      BY <1>5, <3>2, <3>3, AppendProperties DEF Buffers
    <3>5. buffer' \in Seq(Node) /\ Len(buffer') <= BufferSize /\ buffer' = Append(<<>>, n)
      BY <1>8, <2>2, <3>1
    <3>6. ASSUME ~ WriteFails PROVE Cuts(writeQueue', buffer', sent, Len(wire), c + 1)
      <4>1. Cuts(writeQueue', <<>>, sent, Len(wire), c)
        BY <1>1, <1>5, <1>7, <3>2, <3>3, <3>6, CutsQueued
      <4>2. <<>> \in Seq(Node)
        OBVIOUS
      <4> QED
        BY <1>1, <2>2, <3>4, <3>5, <4>1, <4>2, CutsTaken DEF n
    <3> QED
      BY <1>6, <2>2, <2>4, <2>5, <3>4, <3>5, <3>6
  <2>7. CASE Len(buffer) # BufferSize
    <3>1. buffer' = Append(buffer, n) /\ writeQueue' = writeQueue
      BY <1>10, <2>3, <2>7
    <3>2. buffer' \in Seq(Node) /\ Len(buffer') <= BufferSize
      BY <1>5, <1>8, <2>2, <2>7, <3>1
    <3>3. ~ WriteFails => Cuts(writeQueue', buffer', sent, Len(wire), c + 1)
      BY <1>1, <1>5, <1>7, <2>2, <3>1, CutsTaken DEF n
    <3> QED
      BY <1>5, <1>6, <1>8, <2>2, <2>4, <2>5, <3>1, <3>2, <3>3
  <2> QED
    BY <2>6, <2>7
<1>11. CASE /\ dequeue' = "idle" /\ taken' = taken
            /\ QueuePacket(buffer) /\ buffer' = <<>>
            /\ network' = "update"
  <2>1. TakenFirst(c)'
    BY <1>3, <1>8, <1>11 DEF TakenFirst
  <2>2. writeQueue' = IF buffer = <<>> THEN writeQueue ELSE Append(writeQueue, buffer)
    BY <1>11 DEF QueuePacket
  <2>3. writeQueue' \in Buffers /\ (isWritingAsync => writeQueue' # <<>>)
    BY <1>5, <1>8, <2>2, AppendProperties DEF Buffers
  <2>4. buffer' \in Seq(Node) /\ Len(buffer') <= BufferSize
    BY <1>8, <1>11
  <2>5. ~ WriteFails => Cuts(writeQueue', buffer', sent, Len(wire), c)
    BY <1>1, <1>5, <1>7, <1>11, <2>2, CutsQueued
  <2> QED
    BY <1>6, <1>11, <2>1, <2>3, <2>4, <2>5
<1> QED
  BY <1>9, <1>10, <1>11 DEF Dequeue

LEMMA WriteInv ==
  ASSUME IInv, HandleQueue, writeQueue # <<>>,
         UNCHANGED <<queueVars, buffer, sent>>, UNCHANGED world,
         network' \in {"idle", "send", "callbacks", "removed"}, HasToSend'
  PROVE  IInv'
<1>1. TypeOK /\ QueueTypeOK /\ SentOnce /\ QueueIsChained /\ sent \in Seq(Node)
  BY DEF IInv, TypeOK
<1>2. PICK c \in 0 .. Len(sent) : InOrder(c)
  BY DEF IInv
<1>3. QueueTypeOK' /\ QueueIsChained'
  BY <1>1, SameQueue
<1>4. SentOnce'
  BY <1>1 DEF SentOnce, world
<1> DEFINE f == Head(writeQueue)
           t == Tail(writeQueue)
<1>5. /\ writeQueue \in Buffers /\ f \in Seq(Node) /\ Len(f) \in Nat /\ t \in Buffers
      /\ buffer \in Seq(Node) /\ Len(sent) \in Nat /\ wire \in Seq(Node) /\ Len(wire) \in Nat
  BY <1>1, HeadTailProperties DEF TypeOK, Buffers
<1> HIDE DEF f, t
<1>6. ASSUME openState' \in {openState, openState \cup {OpenState_Closed}},
             writeQueue' \in Buffers, isWritingAsync' \in BOOLEAN,
             isWritingAsync' => writeQueue' # <<>>,
             wire' \in Seq(Node), Len(wire') <= Len(sent),
             wire' = SubSeq(sent, 1, Len(wire')),
             ~ WriteFails' => Cuts(writeQueue', buffer, sent, Len(wire'), c)
      PROVE  IInv'
  <2>1. TypeOK'
    BY <1>1, <1>3, <1>6 DEF TypeOK, Buffers, world
  <2>2. ~ WriteFails' => WaitsInOrder(Len(wire), c)'
    BY <1>6 DEF Cuts, WaitsInOrder
  <2>3. TakenFirst(c)'
    BY <1>2 DEF InOrder, TakenFirst, queueVars
  <2>4. InOrder(c)'
    BY <1>6, <2>2, <2>3 DEF InOrder
  <2> QED
    BY <1>3, <1>4, <2>1, <2>4 DEF IInv
<1>7. /\ Len(wire) <= Len(sent) /\ wire = SubSeq(sent, 1, Len(wire))
      /\ ~ WriteFails => Cuts(writeQueue, buffer, sent, Len(wire), c)
  BY <1>2, WaitsIsCuts DEF InOrder
<1>8. CASE WriteError
  <2>1. /\ WriteFails /\ writeQueue' = t /\ isWritingAsync' = FALSE /\ wire' = wire
        /\ openState' \in {openState, openState \cup {OpenState_Closed}}
    BY <1>8 DEF WriteError, CloseIfFlushed, t
  <2>2. WriteFails'
    BY <2>1 DEF WriteFails, world
  <2> QED
    BY <1>5, <1>6, <1>7, <2>1, <2>2
<1>9. CASE WouldBlock
  BY <1>5, <1>6, <1>7, <1>9 DEF WouldBlock, WriteFails, world
<1>10. ASSUME NEW k \in 1 .. BufferSize, WriteSome(k) PROVE IInv'
  <2>1. /\ ~ WriteFails /\ k \in 1 .. Len(f) /\ wire' = wire \o SubSeq(f, 1, k)
        /\ openState' \in {openState, openState \cup {OpenState_Closed}}
        /\ k < Len(f) =>
             /\ writeQueue' = <<SubSeq(f, k + 1, Len(f))>> \o t
             /\ isWritingAsync' = TRUE
        /\ ~ k < Len(f) => writeQueue' = t /\ isWritingAsync' = FALSE
    BY <1>10 DEF WriteSome, CloseIfFlushed, f, t
  <2>2. /\ Len(wire) + k <= c
        /\ SubSeq(f, 1, k) = SubSeq(sent, Len(wire) + 1, Len(wire) + k)
        /\ k < Len(f) =>
             Cuts(<<SubSeq(f, k + 1, Len(f))>> \o t, buffer, sent, Len(wire) + k, c)
        /\ k = Len(f) => Cuts(t, buffer, sent, Len(wire) + k, c)
    BY <1>1, <1>5, <1>7, <2>1, CutsWritten DEF f, t
  <2>3. wire' = SubSeq(sent, 1, Len(wire) + k)
    <3>1. /\ 1 \in 1 .. Len(sent) + 1 /\ Len(wire) \in 1 - 1 .. Len(sent)
          /\ Len(wire) + k \in Len(wire) .. Len(sent)
      BY <1>5, <2>1, <2>2
    <3>2. SubSeq(sent, 1, Len(wire)) \o SubSeq(sent, Len(wire) + 1, Len(wire) + k)
            = SubSeq(sent, 1, Len(wire) + k)
      BY <1>1, <3>1, ConcatAdjacentSubSeq
    <3> QED
      BY <1>7, <2>1, <2>2, <3>2
  <2>4. wire' \in Seq(Node) /\ Len(wire') = Len(wire) + k /\ Len(wire') <= Len(sent)
    <3>1. 0 \in Nat /\ Len(wire) + k \in Nat /\ Len(wire) + k <= Len(sent) /\ 0 < Len(wire) + k
      BY <1>5, <2>1, <2>2
    <3>2. /\ SubSeq(sent, 0 + 1, Len(wire) + k) \in Seq(Node)
          /\ Len(SubSeq(sent, 0 + 1, Len(wire) + k)) = Len(wire) + k - 0
      BY <1>1, <3>1, Part
    <3>3. 0 + 1 = 1 /\ Len(wire) + k - 0 = Len(wire) + k
      BY <3>1
    <3> QED
      BY <2>3, <3>1, <3>2, <3>3
  <2>5. CASE k < Len(f)
    <3>1. /\ SubSeq(f, k + 1, Len(f)) \in Seq(Node)
          /\ Len(SubSeq(f, k + 1, Len(f))) = Len(f) - k
      BY <1>5, <2>1, <2>5, Part
    <3> DEFINE g == SubSeq(f, k + 1, Len(f))
    <3>2. g \in Seq(Node) /\ Len(g) > 0
      BY <1>5, <2>1, <2>5, <3>1
    <3> HIDE DEF g
    <3>3. Len(<<>>) = 0
      OBVIOUS
    <3>4. g \in Seq(Node) \ {<<>>}
      BY <3>2, <3>3
    <3>5. <<g>> \in Buffers /\ Len(<<g>>) = 1
      BY <3>4 DEF Buffers
    <3>6. /\ <<g>> \o t \in Buffers /\ Len(<<g>> \o t) = 1 + Len(t) /\ Len(t) \in Nat
      BY <1>5, <3>5, ConcatProperties DEF Buffers
    <3>7. <<g>> \o t # <<>>
      BY <3>3, <3>6
    <3>8. writeQueue' = <<g>> \o t /\ isWritingAsync' = TRUE
      BY <2>1, <2>5 DEF g
    <3>9. Cuts(<<g>> \o t, buffer, sent, Len(wire) + k, c)
      BY <2>2, <2>5 DEF g
    <3> QED
      BY <1>6, <2>1, <2>3, <2>4, <3>6, <3>7, <3>8, <3>9
  <2>6. CASE ~ k < Len(f)
    <3>1. k = Len(f)
      BY <1>5, <2>1, <2>6
    <3> QED
      BY <1>5, <1>6, <2>1, <2>2, <2>3, <2>4, <2>6, <3>1
  <2> QED
    BY <2>5, <2>6
<1> QED
  BY <1>8, <1>9, <1>10 DEF HandleQueue

-----------------------------------------------------------------------------
LEMMA NetworkInv ==
  ASSUME IInv, NetworkStep
  PROVE  IInv'
<1>1. TypeOK /\ SentOnce /\ HasToSend
  BY DEF IInv
<1>2. CASE StartUpdate \/ Update \/ ReadError \/ NoCallback \/ IsBannedAddress
           \/ CreateSession \/ DelayedCloseSocket
  BY <1>2, IdleInv DEF Idle
<1>3. CASE Dequeue
  BY <1>3, DequeueInv
<1>4. CASE SendQueue
  <2>1. /\ HandleQueue /\ writeQueue # <<>>
        /\ UNCHANGED <<queueVars, buffer, sent>> /\ UNCHANGED world
        /\ network' \in {"callbacks", "send"} /\ HasToSend'
    BY <1>1, <1>4 DEF SendQueue, NetworkUnchanged, HasToSend
  <2> QED
    BY <2>1, WriteInv
<1>5. ASSUME NEW n \in Node, n \notin Range(sent), n \notin admitted,
             NEW then \in {"idle", "close"}, Answers(n, then)
      PROVE  IInv'
  <2>1. CASE IsOpen
    BY <1>5, <2>1, ExchangeInv, QueueAssumption DEF Answers, world, QueueAssumption
  <2>2. CASE ~ IsOpen
    <3>1. UNCHANGED <<queueVars, socketVars, world, sent, buffer, wire>> /\ network' = then
      BY <1>5, <2>2 DEF Answers, queueVars
    <3>2. QueueTypeOK' /\ QueueIsChained'
      BY <3>1, SameQueue DEF IInv, TypeOK
    <3>3. TypeOK' /\ SentOnce' /\ HasToSend'
      BY <1>1, <1>5, <3>1, <3>2 DEF TypeOK, SentOnce, HasToSend, world, socketVars
    <3>4. PICK c \in 0 .. Len(sent) : InOrder(c)
      BY DEF IInv
    <3>5. InOrder(c)'
      BY <3>1, <3>4, SameOrder DEF WriteFails, socketVars, world, queueVars
    <3> QED
      BY <3>1, <3>2, <3>3, <3>5 DEF IInv
  <2> QED
    BY <2>1, <2>2
<1>6. CASE SendAuthSession
  <2>1. Challenge \in Node /\ Challenge \notin Range(sent) /\ Challenge \notin admitted
    BY <1>1, <1>6, SocketAssumption DEF SendAuthSession, SocketAssumption, SentOnce, Range
  <2> QED
    BY <1>5, <1>6, <2>1 DEF SendAuthSession
<1>7. CASE SendAuthResponseError
  <2>1. Answer \in Node /\ Answer \notin Range(sent) /\ Answer \notin admitted
    BY <1>7, SocketAssumption DEF SendAuthResponseError, Authenticates, IsNew, SocketAssumption
  <2> QED
    BY <1>5, <1>7, <2>1 DEF SendAuthResponseError
<1>8. CASE EndAnswer
  BY <1>8, LinkInv, QueueAssumption DEF EndAnswer, NetworkUnchanged, QueueAssumption
<1> QED
  BY <1>2, <1>3, <1>4, <1>6, <1>7, <1>8 DEF NetworkStep

LEMMA Step == IInv /\ [Next]_vars => IInv'
<1> SUFFICES ASSUME IInv, [Next]_vars PROVE IInv'
  OBVIOUS
<1>1. TypeOK /\ SentOnce /\ HasToSend
  BY DEF IInv
<1>2. CASE NetworkStep
  BY <1>2, NetworkInv
<1>3. CASE WriteHandlerWrapper
  <2>1. /\ HandleQueue /\ writeQueue # <<>>
        /\ UNCHANGED <<queueVars, buffer, sent>> /\ UNCHANGED world
        /\ network' \in {"idle", "removed"}
    BY <1>1, <1>3 DEF WriteHandlerWrapper, HandleQueue, NetworkUnchanged, TypeOK
  <2>2. HasToSend'
    BY <2>1 DEF HasToSend
  <2> QED
    BY <2>1, <2>2, WriteInv
<1>4. CASE KickPlayer \/ LoseConnection \/ \E n \in Node : SendPacket(n)
  BY <1>4, IdleInv DEF Idle
<1>5. ASSUME NEW n \in Node, Enqueue(n) PROVE IInv'
  <2>1. n \in admitted /\ n \notin Range(sent) /\ Sender[n] \in Thread
    BY <1>1, <1>5, SocketAssumption DEF Enqueue, SentOnce, SocketAssumption
  <2> QED
    BY <1>5, <2>1, ExchangeInv DEF Enqueue
<1>6. ASSUME NEW t \in Thread, EndEnqueue(t) PROVE IInv'
  BY <1>6, LinkInv DEF EndEnqueue
<1>7. CASE UNCHANGED vars
  <2>1. UNCHANGED <<queueVars, socketVars, world, network, sent, buffer, wire>>
    BY <1>7 DEF vars
  <2>2. QueueTypeOK' /\ QueueIsChained'
    BY <2>1, SameQueue DEF IInv, TypeOK
  <2>3. TypeOK' /\ SentOnce' /\ HasToSend'
    BY <1>1, <2>1, <2>2 DEF TypeOK, SentOnce, HasToSend, world, socketVars
  <2>4. PICK c \in 0 .. Len(sent) : InOrder(c)
    BY DEF IInv
  <2>5. InOrder(c)'
    BY <2>1, <2>4, SameOrder DEF WriteFails, socketVars, world, queueVars
  <2> QED
    BY <2>1, <2>2, <2>3, <2>5 DEF IInv
<1> QED
  BY <1>2, <1>3, <1>4, <1>5, <1>6, <1>7 DEF Next

LEMMA Initially == Init => IInv
<1> SUFFICES ASSUME Init PROVE IInv
  OBVIOUS
<1> DEFINE ch == <<Dummy>>
<1>1. TypeOK
  <2>1. QueueTypeOK
    BY DEF Init, QueueInit, QueueTypeOK
  <2>2. <<>> \in Seq(Node) /\ <<>> \in Seq(Seq(Node) \ {<<>>}) /\ Len(<<>>) = 0
    OBVIOUS
  <2>3. /\ sent \in Seq(Node) /\ wire \in Seq(Node) /\ writeQueue \in Seq(Seq(Node) \ {<<>>})
        /\ buffer \in Seq(Node) /\ Len(buffer) <= BufferSize
    BY <2>2, SocketAssumption DEF Init, SocketAssumption
  <2>4. /\ openState = {} /\ isWritingAsync = FALSE /\ network = "idle" /\ admitted = {}
        /\ session = FALSE /\ lost = FALSE /\ kicked = FALSE
    BY DEF Init
  <2> QED
    BY <2>1, <2>3, <2>4 DEF TypeOK
<1>2. ch \in Seq(Nodes) /\ Len(ch) = 1 /\ ch[1] = Dummy /\ DOMAIN ch = 1 .. 1
  BY DEF Nodes
<1>3. Range(ch) = {Dummy} /\ Range(sent) = {} /\ Len(sent) = 0 /\ DOMAIN sent = {}
  BY <1>2 DEF Range, Init
<1> HIDE DEF ch
<1>4. Chain(ch, tail)
  BY <1>2 DEF Chain, Init, QueueInit, IsInjective
<1>5. Holds(ch, taken) /\ DummyIsOut(ch)
  BY <1>2, <1>3 DEF Holds, Follows, DummyIsOut, Init, QueueInit
<1>6. SentOnce /\ HasToSend
  BY <1>3 DEF SentOnce, HasToSend, Init, IsInjective
<1>7. InOrder(0)
  <2>1. TakenFirst(0)
    BY DEF TakenFirst, Init, QueueInit
  <2>2. Cuts(<<>>, <<>>, <<>>, 0, 0)
    <3> DEFINE cut == [i \in 0 .. 0 |-> 0]
    <3>1. cut \in [0 .. 0 -> 0 .. 0] /\ cut[0] = 0
      OBVIOUS
    <3>2. Len(<<>>) = 0 /\ <<>> = SubSeq(<<>>, 0 + 1, 0)
      BY SubSeqEmpty
    <3> HIDE DEF cut
    <3> QED
      BY <3>1, <3>2 DEF Cuts
  <2>3. WaitsInOrder(0, 0)
    BY <2>2 DEF Init, Cuts, WaitsInOrder
  <2>4. wire = <<>> /\ sent = <<>> /\ Len(wire) = 0 /\ wire = SubSeq(sent, 1, 0)
    BY SubSeqEmpty DEF Init
  <2> QED
    BY <2>1, <2>3, <2>4 DEF InOrder
<1> QED
  BY <1>1, <1>2, <1>3, <1>4, <1>5, <1>6, <1>7 DEF IInv, QueueIsChained

LEMMA Invariance == Spec => []IInv
BY Initially, Step, PTL DEF Spec

-----------------------------------------------------------------------------
(* MPSCQueueIntrusive works with threads that link behind each other: in the *)
(* sequence of nodes from the tail to the head a link is missing only while *)
(* the one thread that has it to store has not done so, and the dummy is put*)
(* in only when it is out.  So the queue holds, at every moment, the packets*)
(* that were put in and not taken, in that order.                           *)
THEOREM NoLinkIsLost == Spec => []QueueIsChained
<1>1. IInv => QueueIsChained
  BY DEF IInv
<1> QED
  BY <1>1, Invariance, PTL

(* The consumer deletes a node that it has taken while producers may be about*)
(* to store a link in another one (MPSCQueueIntrusive::Enqueue after the     *)
(* exchange): no thread, now or later, uses a node that was deleted.        *)
THEOREM NothingIsUsedAfterDeletion == Spec => []NothingDeletedIsUsed
<1>1. ASSUME IInv PROVE NothingDeletedIsUsed
  <2>1. PICK ch \in Seq(Nodes) : Chain(ch, tail) /\ Holds(ch, taken)
    BY <1>1 DEF IInv, QueueIsChained
  <2>2. /\ Len(ch) \in Nat /\ Len(ch) > 0 /\ taken \subseteq Node
        /\ \A i \in 1 .. Len(ch) : ch[i] \in Range(ch)
    BY <1>1, <2>1, RangeOf DEF Chain, IInv, TypeOK, QueueTypeOK
  <2>3. \A i \in 1 .. Len(ch) : ch[i] \notin taken
    BY <2>1, <2>2, QueueAssumption DEF Holds, QueueAssumption
  <2>4. head \notin taken /\ tail \notin taken
    BY <2>1, <2>2, <2>3 DEF Chain
  <2>5. ASSUME NEW t \in Thread, link[t] # Nil PROVE link[t][1] \notin taken
    <3>1. PICK i \in 1 .. Len(ch) - 1 : link[t] = <<ch[i], ch[i + 1]>>
      BY <2>1, <2>5 DEF Chain
    <3>2. link[t][1] = ch[i] /\ i \in 1 .. Len(ch)
      BY <2>2, <3>1
    <3> QED
      BY <2>3, <3>2
  <2> QED
    BY <2>4, <2>5 DEF NothingDeletedIsUsed
<1> QED
  BY <1>1, Invariance, PTL

(* What the client receives is the beginning of what was put into the queue, *)
(* in that order, and what was taken from it since is in the buffers         *)
(* (WorldSocket::Update, Socket::HandleQueue): whatever the packets, their   *)
(* senders, the size of a buffer and the parts that are written at a time.  *)
THEOREM WireIsInOrder == Spec => []WireInOrder
<1>1. ASSUME IInv PROVE WireInOrder
  <2>1. PICK c \in 0 .. Len(sent) : InOrder(c)
    BY <1>1 DEF IInv
  <2>2. Cardinality(taken) = c
    BY <1>1, <2>1, SizeOfFirst DEF IInv, SentOnce, TypeOK, InOrder, TakenFirst
  <2> QED
    BY <1>1, <2>1, <2>2 DEF IInv, InOrder, WireInOrder
<1> QED
  BY <1>1, Invariance, PTL

=============================================================================
