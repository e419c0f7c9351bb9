-------------------------- MODULE AdmissionProofs ---------------------------
(***************************************************************************)
(* Proofs about Admission, for any number of accounts and sessions, any     *)
(* limit and any tolerance.  The invariant is the conjunction of the two     *)
(* that TLC checks: as the queue holds sessions there are, each once, its    *)
(* length is the number of sessions that are not active, and the code, which *)
(* subtracts one from the other, counts the active sessions right.          *)
(***************************************************************************)
EXTENDS Admission, FiniteSetTheorems, SequenceTheorems, TLAPS

-----------------------------------------------------------------------------
(* Sequences without repetition.                                           *)

(* r has what q has, in the same order, but for some that were taken out.   *)
Kept(q, r) ==
  \A k, l \in DOMAIN r : k < l =>
    \E m, n \in DOMAIN q : m < n /\ q[m] = r[k] /\ q[n] = r[l]

LEMMA KeptTwice ==
  ASSUME NEW S, NEW q \in Seq(S), NEW r \in Seq(S), NEW t \in Seq(S),
         IsInjective(r), Kept(q, r), Kept(r, t)
  PROVE  Kept(q, t)
<1> SUFFICES ASSUME NEW k \in DOMAIN t, NEW l \in DOMAIN t, k < l
             PROVE  \E m, n \in DOMAIN q : m < n /\ q[m] = t[k] /\ q[n] = t[l]
  BY DEF Kept
<1>1. PICK i \in DOMAIN r, j \in DOMAIN r : i < j /\ r[i] = t[k] /\ r[j] = t[l]
  BY DEF Kept
<1> QED
  BY <1>1 DEF Kept

LEMMA ElementsOfSeq ==
  ASSUME NEW S, NEW q \in Seq(S)
  PROVE  /\ Range(q) = {q[k] : k \in 1 .. Len(q)} /\ Range(q) \subseteq S
         /\ IsFiniteSet(Range(q))
         /\ IsInjective(q) => Cardinality(Range(q)) = Len(q)
<1>1. Len(q) \in Nat /\ DOMAIN q = 1 .. Len(q) /\ q \in [1 .. Len(q) -> S]
  OBVIOUS
<1>2. Range(q) = {q[k] : k \in 1 .. Len(q)} /\ Range(q) \subseteq S
  BY <1>1 DEF Range
<1>3. q \in Surjection(1 .. Len(q), Range(q))
  BY <1>1 DEF Range, Surjection
<1>4. IsFiniteSet(1 .. Len(q)) /\ Cardinality(1 .. Len(q)) = Len(q)
  BY <1>1, FS_Interval
<1>5. /\ IsFiniteSet(Range(q))
      /\ Cardinality(Range(q)) = Cardinality(1 .. Len(q))
           <=> q \in Injection(1 .. Len(q), Range(q))
  BY <1>3, <1>4, FS_Surjection
<1>6. IsInjective(q) => Cardinality(Range(q)) = Len(q)
  <2>1. IsInjective(q) => q \in Injection(1 .. Len(q), Range(q))
    BY <1>3 DEF Injection, Surjection
  <2> QED
    BY <1>4, <1>5, <2>1
<1> QED
  BY <1>2, <1>5, <1>6

LEMMA AppendedTo ==
  ASSUME NEW S, NEW q \in Seq(S), NEW s \in S
  PROVE  /\ Append(q, s) \in Seq(S) /\ Len(Append(q, s)) = Len(q) + 1
         /\ Range(Append(q, s)) = Range(q) \cup {s}
         /\ IsInjective(q) /\ s \notin Range(q) => IsInjective(Append(q, s))
<1> DEFINE r == Append(q, s)
<1>1. /\ r \in Seq(S) /\ Len(r) = Len(q) + 1 /\ Len(q) \in Nat
      /\ DOMAIN q = 1 .. Len(q) /\ DOMAIN r = 1 .. (Len(q) + 1)
      /\ r[Len(q) + 1] = s /\ \A k \in 1 .. Len(q) : r[k] = q[k]
  OBVIOUS
<1> HIDE DEF r
<1>2. 1 .. (Len(q) + 1) = (1 .. Len(q)) \cup {Len(q) + 1}
  BY <1>1
<1>3. Range(r) = Range(q) \cup {s}
  BY <1>1, <1>2 DEF Range
<1>4. IsInjective(q) /\ s \notin Range(q) => IsInjective(r)
  BY <1>1, <1>2 DEF IsInjective, Range
<1> QED
  BY <1>1, <1>3, <1>4 DEF r

(* Taking out the n-th.                                                     *)
LEMMA RemoveAtProperties ==
  ASSUME NEW S, NEW q \in Seq(S), NEW n \in 1 .. Len(q)
  PROVE  LET r == RemoveAt(q, n)
         IN  /\ r \in Seq(S) /\ Len(r) = Len(q) - 1
             /\ \A k \in 1 .. Len(r) : r[k] = IF k < n THEN q[k] ELSE q[k + 1]
<1> DEFINE a == SubSeq(q, 1, n - 1)
           b == SubSeq(q, n + 1, Len(q))
<1>1. a \in Seq(S) /\ Len(a) = n - 1 /\ \A k \in 1 .. n - 1 : a[k] = q[k]
  OBVIOUS
<1>2. /\ b \in Seq(S) /\ Len(b) = Len(q) - n
      /\ \A k \in 1 .. Len(q) - n : b[k] = q[n + k]
  OBVIOUS
<1> HIDE DEF a, b
<1>3. /\ a \o b \in Seq(S) /\ Len(a \o b) = Len(q) - 1
      /\ \A k \in 1 .. Len(q) - 1 :
           (a \o b)[k] = IF k <= n - 1 THEN a[k] ELSE b[k - (n - 1)]
  BY <1>1, <1>2
<1>4. ASSUME NEW k \in 1 .. Len(q) - 1
      PROVE  (a \o b)[k] = IF k < n THEN q[k] ELSE q[k + 1]
  <2>1. CASE k < n
    BY <1>1, <1>3, <2>1
  <2>2. CASE ~ (k < n)
    <3>1. k - (n - 1) \in 1 .. Len(q) - n /\ n + (k - (n - 1)) = k + 1
      BY <2>2
    <3> QED
      BY <1>2, <1>3, <2>2, <3>1
  <2> QED
    BY <2>1, <2>2
<1> QED
  BY <1>3, <1>4 DEF a, b, RemoveAt

(* In a sequence without repetition the first s is the only one.            *)
LEMMA RemoveFirstProperties ==
  ASSUME NEW S, NEW q \in Seq(S), IsInjective(q), NEW s,
         NEW r, r = RemoveFirst(q, s)
  PROVE  /\ r \in Seq(S) /\ IsInjective(r) /\ Range(r) = Range(q) \ {s}
         /\ Len(r) = IF s \in Range(q) THEN Len(q) - 1 ELSE Len(q)
         /\ Kept(q, r)
<1>1. Len(q) \in Nat /\ DOMAIN q = 1 .. Len(q)
  OBVIOUS
<1>2. CASE s \notin Range(q)
  <2>1. r = q
    BY <1>1, <1>2 DEF RemoveFirst, Range
  <2> QED
    BY <1>2, <2>1 DEF Kept
<1>3. CASE s \in Range(q)
  <2>1. PICK n \in 1 .. Len(q) : q[n] = s
    BY <1>1, <1>3 DEF Range
  <2>2. {k \in 1 .. Len(q) : q[k] = s} = {n}
    BY <1>1, <2>1 DEF IsInjective
  <2>3. Min({n}) = n
    BY DEF Min
  <2>4. r = RemoveAt(q, n)
    BY <2>1, <2>2, <2>3 DEF RemoveFirst, SelectInSeq
  <2>5. /\ r \in Seq(S) /\ Len(r) = Len(q) - 1
        /\ \A k \in 1 .. Len(r) : r[k] = IF k < n THEN q[k] ELSE q[k + 1]
    BY <2>4, RemoveAtProperties
  <2>6. DOMAIN r = 1 .. Len(r) /\ Len(r) \in Nat
    BY <2>5
  <2> DEFINE g(k) == IF k < n THEN k ELSE k + 1
  <2>7. /\ \A k \in DOMAIN r : g(k) \in DOMAIN q /\ g(k) # n /\ r[k] = q[g(k)]
        /\ \A k, l \in DOMAIN r : k < l <=> g(k) < g(l)
    BY <1>1, <2>5, <2>6
  <2>8. IsInjective(r)
    <3> SUFFICES ASSUME NEW k \in DOMAIN r, NEW l \in DOMAIN r, r[k] = r[l]
                 PROVE  k = l
      BY DEF IsInjective
    <3>1. g(k) = g(l)
      BY <2>7 DEF IsInjective
    <3> QED
      BY <2>6, <3>1
  <2>9. Kept(q, r)
    BY <2>7 DEF Kept
  <2>10. Range(r) \subseteq Range(q) \ {s}
    BY <1>1, <2>1, <2>7 DEF Range, IsInjective
  <2>11. Range(q) \ {s} \subseteq Range(r)
    <3> SUFFICES ASSUME NEW k \in 1 .. Len(q), k # n PROVE q[k] \in Range(r)
      BY <1>1, <2>1 DEF Range
    <3>1. CASE k < n
      BY <2>5, <2>6, <3>1 DEF Range
    <3>2. CASE k > n
      <4>1. k - 1 \in DOMAIN r /\ r[k - 1] = q[k]
        BY <2>5, <2>6, <3>2
      <4> QED
        BY <4>1 DEF Range
    <3> QED
      BY <1>1, <3>1, <3>2
  <2> QED
    BY <1>3, <2>5, <2>8, <2>9, <2>10, <2>11
<1> QED
  BY <1>2, <1>3

LEMMA TailProperties ==
  ASSUME NEW S, NEW q \in Seq(S), IsInjective(q), q # <<>>
  PROVE  /\ Tail(q) \in Seq(S) /\ IsInjective(Tail(q)) /\ Len(Tail(q)) = Len(q) - 1
         /\ Head(q) \in Range(q) /\ Head(q) = q[1]
         /\ Range(Tail(q)) = Range(q) \ {Head(q)} /\ Kept(q, Tail(q))
<1> DEFINE r == Tail(q)
<1>1. /\ r \in Seq(S) /\ Len(q) \in Nat \ {0} /\ Len(r) = Len(q) - 1
      /\ DOMAIN r = 1 .. Len(r) /\ DOMAIN q = 1 .. Len(q) /\ Head(q) = q[1]
      /\ \A k \in 1 .. Len(r) : r[k] = q[k + 1]
  OBVIOUS
<1> HIDE DEF r
<1>2. IsInjective(r)
  <2> SUFFICES ASSUME NEW k \in DOMAIN r, NEW l \in DOMAIN r, r[k] = r[l]
               PROVE  k = l
    BY DEF IsInjective
  <2>1. k + 1 \in DOMAIN q /\ l + 1 \in DOMAIN q /\ q[k + 1] = q[l + 1]
    BY <1>1
  <2>2. k + 1 = l + 1
    BY <2>1 DEF IsInjective
  <2> QED
    BY <1>1, <2>2
<1>3. Kept(q, r)
  <2> SUFFICES ASSUME NEW k \in DOMAIN r, NEW l \in DOMAIN r, k < l
               PROVE  \E m, n \in DOMAIN q : m < n /\ q[m] = r[k] /\ q[n] = r[l]
    BY DEF Kept
  <2>1. k + 1 \in DOMAIN q /\ l + 1 \in DOMAIN q /\ k + 1 < l + 1
    BY <1>1
  <2> QED
    BY <1>1, <2>1
<1>4. Range(r) = Range(q) \ {Head(q)}
  <2>1. ASSUME NEW k \in 1 .. Len(r) PROVE r[k] \in Range(q) \ {Head(q)}
    <3>1. k + 1 \in DOMAIN q /\ 1 \in DOMAIN q /\ k + 1 # 1
      BY <1>1
    <3> QED
      BY <1>1, <3>1 DEF Range, IsInjective
  <2>2. ASSUME NEW k \in 1 .. Len(q), k # 1 PROVE q[k] \in Range(r)
    <3>1. k - 1 \in 1 .. Len(r) /\ r[k - 1] = q[k]
      BY <1>1, <2>2
    <3> QED
      BY <1>1, <3>1 DEF Range
  <2>3. ASSUME NEW x \in Range(r) PROVE x \in Range(q) \ {Head(q)}
    <3>1. PICK k \in 1 .. Len(r) : x = r[k]
      BY <1>1, <2>3 DEF Range
    <3> QED
      BY <2>1, <3>1
  <2>4. ASSUME NEW x \in Range(q) \ {Head(q)} PROVE x \in Range(r)
    <3>1. PICK k \in 1 .. Len(q) : x = q[k]
      BY <1>1, <2>4 DEF Range
    <3>2. k # 1
      BY <1>1, <2>4, <3>1
    <3> QED
      BY <2>2, <3>1, <3>2
  <2> QED
    BY <2>3, <2>4
<1>5. Head(q) \in Range(q)
  <2>1. 1 \in DOMAIN q
    BY <1>1
  <2> QED
    BY <1>1, <2>1 DEF Range
<1> QED
  BY <1>1, <1>2, <1>3, <1>4, <1>5 DEF r

-----------------------------------------------------------------------------
(* Counting sessions.                                                      *)

IInv == QueueIsLive /\ FullWhileQueued

(* m_sessions has as many entries as there are sessions.                    *)
LEMMA SizeOfAdded == TypeOK => IsFiniteSet(Added) /\ Size = Cardinality(Added)
<1> SUFFICES ASSUME TypeOK
             PROVE  IsFiniteSet(Added) /\ Size = Cardinality(Added)
  OBVIOUS
<1> DEFINE A == {a \in Account : sessions[a] # None}
           f == [a \in A |-> sessions[a]]
<1>1. \A s \in Session : AccountOf(s) \in Account /\ s # None
  BY AdmissionAssumption DEF AccountOf
<1>2. \A a \in A : sessions[a] \in Added /\ AccountOf(sessions[a]) = a
  BY DEF TypeOK, Added
<1>3. \A s \in Added : AccountOf(s) \in A /\ f[AccountOf(s)] = s
  BY <1>1 DEF Added
<1>4. f \in Bijection(A, Added)
  <2>1. f \in [A -> Added]
    BY <1>2
  <2>2. IsInjective(f)
    BY <1>2 DEF IsInjective
  <2>3. \A s \in Added : \E a \in A : f[a] = s
    BY <1>3
  <2> QED
    BY <2>1, <2>2, <2>3 DEF Bijection, Injection, Surjection
<1>5. IsFiniteSet(A)
  <2>1. A \in SUBSET Account /\ IsFiniteSet(Account)
    BY AdmissionAssumption
  <2> QED
    BY <2>1, FS_Subset
<1>6. IsFiniteSet(Added) /\ Cardinality(Added) = Cardinality(A)
  <2>1. ExistsBijection(A, Added)
    BY <1>4 DEF ExistsBijection
  <2> QED
    BY <1>5, <2>1, FS_Bijection
<1> QED
  BY <1>6 DEF Size

(* GetActiveSessionCount is the number of active sessions.                  *)
CountIsRight ==
  /\ Size \in Nat /\ Len(queue) \in 0 .. Size
  /\ IsFiniteSet(Active) /\ Cardinality(Active) = Size - Len(queue)
  /\ IsFiniteSet(Added) /\ Cardinality(Added) = Size
  /\ Range(queue) # Added => Len(queue) < Size

LEMMA ActiveIsCounted == TypeOK /\ PlacesApart => CountIsRight
<1> SUFFICES ASSUME TypeOK, PlacesApart
             PROVE  CountIsRight
  OBVIOUS
<1>1. IsFiniteSet(Added) /\ Size = Cardinality(Added) /\ Size \in Nat
  BY SizeOfAdded, FS_CardinalityType
<1>2. /\ Range(queue) \in SUBSET Added /\ queue \in Seq(Session)
      /\ Cardinality(Range(queue)) = Len(queue) /\ Len(queue) \in Nat
  BY ElementsOfSeq DEF TypeOK, PlacesApart
<1>3. /\ Cardinality(Range(queue)) <= Cardinality(Added)
      /\ Cardinality(Added) = Cardinality(Range(queue)) => Added = Range(queue)
  BY <1>1, <1>2, FS_Subset
<1>4. IsFiniteSet(Active) /\ Cardinality(Active) = Size - Len(queue)
  <2>1. Added \cap Range(queue) = Range(queue)
    BY <1>2
  <2>2. /\ IsFiniteSet(Added \ Range(queue))
        /\ Cardinality(Added \ Range(queue))
             = Cardinality(Added) - Cardinality(Added \cap Range(queue))
    BY <1>1, FS_Difference
  <2> QED
    BY <1>1, <1>2, <2>1, <2>2 DEF Active
<1> QED
  BY <1>1, <1>2, <1>3, <1>4 DEF CountIsRight

-----------------------------------------------------------------------------
(* RemoveQueuedPlayer.                                                     *)

(* Of those that leave the queue, but for s, nobody was behind one who stays.*)
InTurn(q, r, s) ==
  \A n \in DOMAIN q : \A m \in 1 .. (n - 1) :
    q[n] \notin Range(r) \cup {s} => q[m] \notin Range(r)

(* Taking the first of those that are left when s is removed.               *)
LEMMA FirstInTurn ==
  ASSUME NEW q \in Seq(Session), IsInjective(q), NEW s,
         NEW p \in Seq(Session), p # <<>>, IsInjective(p),
         Range(p) = Range(q) \ {s}, Kept(q, p)
  PROVE  InTurn(q, Tail(p), s)
<1> SUFFICES ASSUME NEW n \in DOMAIN q, NEW m \in 1 .. (n - 1),
                    q[n] \notin Range(Tail(p)) \cup {s}, q[m] \in Range(Tail(p))
             PROVE  FALSE
  BY DEF InTurn
<1>1. DOMAIN q = 1 .. Len(q) /\ Len(q) \in Nat /\ m \in DOMAIN q /\ m < n
  OBVIOUS
<1>2. /\ Head(p) = p[1] /\ Range(Tail(p)) = Range(p) \ {Head(p)}
      /\ DOMAIN p = 1 .. Len(p) /\ Len(p) \in Nat \ {0}
  BY TailProperties
<1>3. q[n] = p[1]
  BY <1>1, <1>2 DEF Range
<1>4. PICK k \in DOMAIN p : p[k] = q[m]
  BY <1>1, <1>2 DEF Range
<1>5. 1 \in DOMAIN p /\ 1 < k
  BY <1>2, <1>4
<1>6. PICK i \in DOMAIN q, j \in DOMAIN q : i < j /\ q[i] = p[1] /\ q[j] = p[k]
  BY <1>5 DEF Kept
<1>7. i = n /\ j = m
  BY <1>1, <1>3, <1>4, <1>6 DEF IsInjective
<1> QED
  BY <1>1, <1>6, <1>7

(* Without s the sessions that are left active are again no fewer than the  *)
(* limit if somebody is still waiting, and no more if somebody was let in.  *)
LEMMA Removal ==
  ASSUME IInv, NEW s \in Added, NEW r, r = RemoveOnce(s)
  PROVE  /\ r \in Seq(Session) /\ IsInjective(r) /\ Range(r) \subseteq Range(queue) \ {s}
         /\ Kept(queue, r) /\ InTurn(queue, r, s)
         /\ Size \in Nat /\ Len(r) \in Nat /\ Len(r) < Size
         /\ r # <<>> => Limit > 0 /\ Size - 1 - Len(r) >= Limit
         /\ Limit > 0 /\ Admitted(queue, r) \ {s} # {} =>
              Size - 1 - Len(r) <= Limit /\ s \notin Range(queue)
<1> DEFINE p == RemoveFirst(queue, s)
           c == Size - Len(queue)
<1>1. /\ TypeOK /\ PlacesApart /\ FullWhileQueued /\ queue \in Seq(Session)
      /\ IsInjective(queue) /\ Range(queue) \subseteq Added
      /\ Size \in Nat /\ Len(queue) \in 0 .. Size /\ Limit \in Nat
      /\ Cardinality(Active) = c /\ (s \notin Range(queue) => Len(queue) < Size)
  BY ActiveIsCounted, AdmissionAssumption
     DEF CountIsRight, IInv, QueueIsLive, PlacesApart, TypeOK
<1>2. queue # <<>> => Limit > 0 /\ c >= Limit
  BY <1>1 DEF FullWhileQueued
<1>3. /\ p \in Seq(Session) /\ IsInjective(p) /\ Range(p) = Range(queue) \ {s}
      /\ Len(p) = (IF s \in Range(queue) THEN Len(queue) - 1 ELSE Len(queue))
      /\ Kept(queue, p)
  BY <1>1, RemoveFirstProperties
<1> HIDE DEF p, c
<1>4. c \in Nat /\ c = Size - Len(queue) /\ Len(p) \in Nat
  BY <1>1, <1>3 DEF c
<1>5. s \in Range(queue) => queue # <<>>
  BY DEF Range
<1>6. Others(queue, s, Size) = IF s \in Range(queue) THEN c ELSE c - 1
  BY <1>1, <1>4 DEF Others, IsQueued
<1>7. r = IF HasRoom(Others(queue, s, Size)) /\ p # <<>> THEN Tail(p) ELSE p
  BY DEF RemoveOnce, RemoveQueuedPlayer, p
<1>8. CASE r = p /\ (p # <<>> => ~ HasRoom(Others(queue, s, Size)))
  <2>1. Admitted(queue, r) \ {s} = {} /\ InTurn(queue, r, s)
    <3>1. \A n \in DOMAIN queue : queue[n] \in Range(r) \cup {s}
      BY <1>3, <1>8 DEF Range
    <3> QED
      BY <1>3, <1>8, <3>1 DEF Admitted, InTurn
  <2>2. p # <<>> => queue # <<>>
    BY <1>3, <1>4, <1>1
  <2> QED
    BY <1>1, <1>2, <1>3, <1>4, <1>5, <1>6, <1>8, <2>1, <2>2 DEF HasRoom
<1>9. CASE r = Tail(p) /\ p # <<>> /\ HasRoom(Others(queue, s, Size))
  <2>1. /\ r \in Seq(Session) /\ IsInjective(r) /\ Len(r) = Len(p) - 1
        /\ Range(r) \subseteq Range(p) /\ Kept(p, r) /\ Len(r) \in Nat
    BY <1>3, <1>9, TailProperties
  <2>2. Kept(queue, r)
    BY <1>1, <1>3, <2>1, KeptTwice
  <2>3. InTurn(queue, r, s)
    BY <1>1, <1>3, <1>9, FirstInTurn
  <2>4. queue # <<>>
    BY <1>1, <1>3, <1>4, <1>9
  <2>5. s \notin Range(queue)
    BY <1>1, <1>2, <1>4, <1>6, <1>9, <2>4 DEF HasRoom
  <2>6. c - 1 < Limit
    BY <1>2, <1>6, <1>9, <2>4, <2>5 DEF HasRoom
  <2> QED
    BY <1>1, <1>2, <1>3, <1>4, <2>1, <2>2, <2>3, <2>4, <2>5, <2>6
<1> QED
  BY <1>7, <1>8, <1>9

(* UpdateSessions calls RemoveQueuedPlayer twice, and the second call does   *)
(* nothing: the first has made the queue right for the session that leaves. *)
LEMMA SecondCallIsIdle ==
  ASSUME IInv, NEW s \in Added
  PROVE  RemoveTwice(s) = RemoveOnce(s)
<1> DEFINE r == RemoveOnce(s)
<1>1. /\ r \in Seq(Session) /\ IsInjective(r) /\ s \notin Range(r)
      /\ Size \in Nat /\ Len(r) \in Nat /\ Len(r) < Size
      /\ r # <<>> => Limit > 0 /\ Size - 1 - Len(r) >= Limit
  BY Removal
<1>2. RemoveTwice(s) = RemoveQueuedPlayer(r, s, Size)
  BY DEF RemoveTwice
<1> HIDE DEF r
<1>3. DOMAIN r = 1 .. Len(r)
  BY <1>1
<1>4. RemoveFirst(r, s) = r
  BY <1>1, <1>3 DEF RemoveFirst, Range
<1>5. Others(r, s, Size) = Size - Len(r) - 1
  BY <1>1 DEF Others, IsQueued
<1>6. r # <<>> => ~ HasRoom(Others(r, s, Size))
  BY <1>1, <1>5, AdmissionAssumption DEF HasRoom
<1>7. RemoveQueuedPlayer(r, s, Size) = r
  BY <1>4, <1>6 DEF RemoveQueuedPlayer
<1> QED
  BY <1>2, <1>7 DEF r

-----------------------------------------------------------------------------
(* The invariant.                                                          *)

LEMMA Initially == Init => IInv
<1> SUFFICES ASSUME Init PROVE IInv
  OBVIOUS
<1>1. Added = {} /\ Known = {}
  BY AdmissionAssumption DEF Init, Added, Known, Range, AccountOf
<1>2. TypeOK
  <2>1. sessions \in [Account -> Session \cup {None}] /\ \A a \in Account : sessions[a] = None
    BY DEF Init
  <2>2. since \in [Account -> 0 .. Tolerance \cup {None}]
    BY DEF Init
  <2>3. <<>> \in Seq(Session)
    OBVIOUS
  <2> QED
    BY <2>1, <2>2, <2>3 DEF Init, TypeOK
<1>3. PlacesApart
  BY DEF Init, PlacesApart, IsInjective, Range
<1> QED
  BY <1>2, <1>3 DEF Init, IInv, QueueIsLive, FullWhileQueued

(* When neither the sessions nor the queue change, nor those about to be let*)
(* in but for some who leave, there is little to show.                      *)
LEMMA SameQueue ==
  ASSUME IInv, UNCHANGED <<sessions, queue>>, TypeOK',
         IsInjective(adding'), Range(adding') \cap Added = {},
         initializing' \subseteq initializing,
         \A s \in inQueue' \cap open' :
           s \in inQueue \cap open /\ (s \in initializing => s \in initializing')
  PROVE  IInv' /\ Added' = Added /\ Active' = Active
<1>1. Added' = Added /\ Active' = Active
  BY DEF Added, Active
<1>2. PlacesApart'
  BY <1>1 DEF IInv, QueueIsLive, PlacesApart
<1>3. (\A s \in inQueue \cap open : IsQueued(queue, s) \/ s \in initializing)'
  BY DEF IInv, QueueIsLive
<1>4. FullWhileQueued'
  BY <1>1 DEF IInv, FullWhileQueued
<1> QED
  BY <1>1, <1>2, <1>3, <1>4 DEF IInv, QueueIsLive

LEMMA AddSessionInv ==
  ASSUME IInv, NEW s \in Session, AddSession(s)
  PROVE  IInv' /\ Added' = Added /\ Active' = Active
<1>1. TypeOK /\ PlacesApart /\ adding \in Seq(Session)
  BY DEF IInv, QueueIsLive, TypeOK
<1>2. /\ adding' \in Seq(Session) /\ Range(adding') = Range(adding) \cup {s}
      /\ IsInjective(adding')
  <2>1. adding' = Append(adding, s) /\ s \notin Range(adding) /\ IsInjective(adding)
    BY <1>1 DEF AddSession, Known, PlacesApart
  <2> QED
    BY <1>1, <2>1, AppendedTo
<1>3. Added' = Added /\ Known' = Known \cup {s}
  BY <1>2 DEF AddSession, Added, Known
<1>4. TypeOK'
  BY <1>1, <1>2, <1>3 DEF AddSession, TypeOK
<1>5. Range(adding') \cap Added = {}
  BY <1>1, <1>2 DEF AddSession, Known, PlacesApart
<1>6. s \notin inQueue
  BY <1>1 DEF AddSession, Known, TypeOK
<1> QED
  BY <1>2, <1>4, <1>5, <1>6, SameQueue DEF AddSession

LEMMA RejectSessionInv ==
  ASSUME IInv, RejectSession
  PROVE  IInv' /\ Added' = Added /\ Active' = Active
<1>1. TypeOK /\ PlacesApart /\ adding \in Seq(Session) /\ adding # <<>>
  BY DEF IInv, QueueIsLive, TypeOK, RejectSession
<1>2. /\ adding' \in Seq(Session) /\ Range(adding') = Range(adding) \ {Head(adding)}
      /\ IsInjective(adding')
  BY <1>1, TailProperties DEF RejectSession, PlacesApart
<1>3. Added' = Added /\ open' \subseteq Known' /\ open' \subseteq open
  BY <1>1, <1>2 DEF RejectSession, Added, Known, TypeOK
<1>4. TypeOK'
  BY <1>1, <1>2, <1>3 DEF RejectSession, TypeOK
<1>5. Range(adding') \cap Added = {}
  BY <1>1, <1>2 DEF PlacesApart
<1> QED
  BY <1>2, <1>3, <1>4, <1>5, SameQueue DEF RejectSession

LEMMA OtherInv ==
  ASSUME IInv,
         \/ \E s \in Session :
              \/ CloseSocket(s) \/ InitializeSessionCallback(s)
              \/ HandlePlayerLogin(s) \/ PlayerLoaded(s)
         \/ TimePasses
         \/ UNCHANGED vars
  PROVE  IInv' /\ Added' = Added /\ Active' = Active
<1>1. TypeOK /\ PlacesApart
  BY DEF IInv, QueueIsLive
<1> USE DEF flags, vars
<1>2. UNCHANGED <<sessions, queue, adding>>
  BY DEF CloseSocket, InitializeSessionCallback, HandlePlayerLogin, PlayerLoaded,
         TimePasses
<1>3. Added' = Added /\ Known' = Known
  BY <1>2 DEF Added, Known
<1>4. TypeOK'
  <2>1. since' \in [Account -> 0 .. Tolerance \cup {None}]
    <3>1. CASE TimePasses
      <4>1. \A a \in Account : since[a] \in 0 .. Tolerance \cup {None}
        BY <1>1 DEF TypeOK
      <4>2. ASSUME NEW a \in Account, since[a] # None, since[a] # Tolerance
            PROVE  since[a] + 1 \in 0 .. Tolerance
        BY <4>1, <4>2, AdmissionAssumption
      <4> QED
        BY <3>1, <4>1, <4>2 DEF TimePasses
    <3>2. CASE UNCHANGED since
      BY <1>1, <3>2 DEF TypeOK
    <3> QED
      BY <3>1, <3>2 DEF CloseSocket, InitializeSessionCallback, HandlePlayerLogin,
                        PlayerLoaded
  <2>2. /\ open' \subseteq open /\ inQueue' \subseteq inQueue
        /\ initializing' \subseteq initializing /\ loading' \subseteq loading \cup Added
        /\ down' = down
    BY DEF CloseSocket, InitializeSessionCallback, HandlePlayerLogin, PlayerLoaded,
           TimePasses
  <2> QED
    BY <1>1, <1>2, <1>3, <2>1, <2>2 DEF TypeOK
<1>5. /\ initializing' \subseteq initializing
      /\ \A x \in inQueue' \cap open' :
           x \in inQueue \cap open /\ (x \in initializing => x \in initializing')
  BY DEF CloseSocket, InitializeSessionCallback, HandlePlayerLogin, PlayerLoaded,
         TimePasses
<1>6. IsInjective(adding') /\ Range(adding') \cap Added = {}
  BY <1>1, <1>2 DEF PlacesApart
<1> QED
  BY <1>2, <1>4, <1>5, <1>6, SameQueue

LEMMA KickAllInv ==
  ASSUME IInv, KickAll
  PROVE  IInv' /\ Added' = Added
<1>1. TypeOK /\ PlacesApart
  BY DEF IInv, QueueIsLive
<1>2. Added' = Added /\ Known' = Known
  BY DEF KickAll, Added, Known
<1>3. TypeOK'
  BY <1>1, <1>2 DEF KickAll, TypeOK
<1>4. PlacesApart'
  BY <1>1, <1>2 DEF KickAll, PlacesApart, IsInjective, Range
<1>5. inQueue' \cap open' = {}
  BY <1>1 DEF KickAll, TypeOK
<1> QED
  BY <1>2, <1>3, <1>4, <1>5 DEF KickAll, IInv, QueueIsLive, FullWhileQueued

(* The count of active sessions, after a step.                              *)
LEMMA ActiveIsCountedAfter == TypeOK' /\ PlacesApart' => CountIsRight'
BY ActiveIsCounted, PTL

(* What makes the queue r right for the n sessions that there will be       *)
(* besides a new one.                                                      *)
IsRightFor(r, n) ==
  /\ n \in Nat /\ Len(r) \in 0 .. n
  /\ r # <<>> => Limit > 0 /\ n - Len(r) >= Limit

LEMMA RemoveSessionInv ==
  ASSUME IInv, NEW s \in Session, RemoveSession(s)
  PROVE  /\ IInv' /\ Added' = Added \ {s}
         /\ queue' = RemoveOnce(s) /\ Size' = Size - 1 /\ Size \in Nat
<1>1. /\ TypeOK /\ PlacesApart /\ s \in Added
      /\ \A x \in inQueue \cap open : IsQueued(queue, x) \/ x \in initializing
  BY DEF IInv, QueueIsLive, RemoveSession
<1>2. queue' = RemoveOnce(s)
  BY <1>1, SecondCallIsIdle DEF RemoveSession
<1>3. /\ queue' \in Seq(Session) /\ IsInjective(queue')
      /\ Range(queue') \subseteq Range(queue) \ {s}
      /\ Size \in Nat /\ Len(queue') \in Nat /\ Len(queue') < Size
      /\ queue' # <<>> => Limit > 0 /\ Size - 1 - Len(queue') >= Limit
  <2> DEFINE r == RemoveOnce(s)
  <2>1. /\ r \in Seq(Session) /\ IsInjective(r) /\ Range(r) \subseteq Range(queue) \ {s}
        /\ Size \in Nat /\ Len(r) \in Nat /\ Len(r) < Size
        /\ r # <<>> => Limit > 0 /\ Size - 1 - Len(r) >= Limit
    BY <1>1, Removal
  <2> HIDE DEF r
  <2> QED
    BY <1>2, <2>1 DEF r
<1>4. AccountOf(s) \in Account /\ sessions[AccountOf(s)] = s /\ None # s
  BY <1>1, AdmissionAssumption DEF Added, AccountOf
<1>5. /\ sessions' \in [Account -> Session \cup {None}]
      /\ \A a \in Account :
           sessions'[a] = IF a = AccountOf(s) THEN None ELSE sessions[a]
  BY <1>1 DEF RemoveSession, TypeOK
<1>6. \A x \in Session : AccountOf(x) \in Account /\ x # None
  BY AdmissionAssumption DEF AccountOf
<1>7. Added' = Added \ {s}
  BY <1>4, <1>5, <1>6 DEF Added
<1>8. open' = open /\ adding' = adding /\ down' = down /\ s \notin open
  BY DEF RemoveSession
<1>9. initializing' = (initializing \cup (Range(queue) \ Range(queue'))) \ {s}
  BY DEF RemoveSession, Admitted
<1>10. TypeOK'
  <2>1. since' \in [Account -> 0 .. Tolerance \cup {None}]
    <3>1. 0 \in 0 .. Tolerance
      BY AdmissionAssumption
    <3> QED
      BY <1>1, <3>1 DEF RemoveSession, TypeOK
  <2>2. \A a \in Account : sessions'[a] # None => AccountOf(sessions'[a]) = a
    BY <1>1, <1>5 DEF TypeOK
  <2>3. /\ open' \subseteq Known' /\ inQueue' \subseteq Added'
        /\ initializing' \subseteq Added' /\ loading' \subseteq Added'
    BY <1>1, <1>7, <1>8, <1>9 DEF RemoveSession, TypeOK, Known, PlacesApart
  <2> QED
    BY <1>1, <1>3, <1>5, <1>8, <2>1, <2>2, <2>3 DEF TypeOK
<1>11. PlacesApart'
  BY <1>1, <1>3, <1>7, <1>8, <1>9 DEF PlacesApart
<1>12. (\A x \in inQueue \cap open : IsQueued(queue, x) \/ x \in initializing)'
  BY <1>1, <1>8, <1>9 DEF RemoveSession, IsQueued
<1>13. Size' = Size - 1
  <2>1. IsFiniteSet(Added) /\ Cardinality(Added) = Size
    BY <1>1, ActiveIsCounted DEF CountIsRight
  <2>2. Cardinality(Added') = Cardinality(Added) - 1
    BY <1>1, <1>7, <2>1, FS_RemoveElement
  <2>3. Cardinality(Added') = Size'
    BY <1>10, <1>11, ActiveIsCountedAfter DEF CountIsRight
  <2> QED
    BY <2>1, <2>2, <2>3
<1>14. FullWhileQueued'
  <2>1. Cardinality(Active') = Size' - Len(queue')
    BY <1>10, <1>11, ActiveIsCountedAfter DEF CountIsRight
  <2> QED
    BY <1>3, <1>13, <2>1 DEF FullWhileQueued
<1> QED
  BY <1>2, <1>3, <1>7, <1>10, <1>11, <1>12, <1>13, <1>14 DEF IInv, QueueIsLive

-----------------------------------------------------------------------------
(* AddSession_: Old is the session that is replaced, Left the queue without *)
(* it, and Rest the number of the sessions there are without it.            *)
Old  == sessions[AccountOf(Head(adding))]
Left == QueueAfterReplacing(Old)
Rest == IF Old = None THEN Size ELSE Size - 1

LEMMA Newcomer ==
  ASSUME IInv, adding # <<>>
  PROVE  /\ Head(adding) \in Session \ Added /\ Head(adding) # None
         /\ AccountOf(Head(adding)) \in Account
         /\ Head(adding) \in Range(adding) /\ Tail(adding) \in Seq(Session)
         /\ IsInjective(Tail(adding))
         /\ Range(Tail(adding)) = Range(adding) \ {Head(adding)}
         /\ Old \in Added \cup {None} /\ None \notin Added
         /\ Head(adding) \notin inQueue \cup initializing \cup loading \cup Range(queue)
         /\ Old # Head(adding)
<1>1. /\ TypeOK /\ PlacesApart /\ adding \in Seq(Session) /\ IsInjective(adding)
      /\ Range(adding) \cap Added = {} /\ Range(queue) \subseteq Added
      /\ inQueue \cup initializing \cup loading \subseteq Added
      /\ sessions \in [Account -> Session \cup {None}]
      /\ \A a \in Account : sessions[a] # None => AccountOf(sessions[a]) = a
  BY DEF IInv, QueueIsLive, TypeOK, PlacesApart
<1>2. /\ Head(adding) \in Session /\ Head(adding) \in Range(adding)
      /\ Tail(adding) \in Seq(Session) /\ IsInjective(Tail(adding))
      /\ Range(Tail(adding)) = Range(adding) \ {Head(adding)}
  BY <1>1, TailProperties, HeadTailProperties
<1> DEFINE s == Head(adding)
<1> HIDE DEF s
<1>3. s \in Session \ Added /\ s # None /\ AccountOf(s) \in Account /\ None \notin Added
  BY <1>1, <1>2, AdmissionAssumption DEF AccountOf, Added, s
<1>4. sessions[AccountOf(s)] \in Added \cup {None}
  BY <1>1, <1>3 DEF Added
<1> QED
  BY <1>1, <1>2, <1>3, <1>4 DEF s, Old

(* The queue without the session that is replaced is right for those there  *)
(* are, who are counted right when it is decided whether the new one waits. *)
LEMMA Replacing ==
  ASSUME IInv, adding # <<>>
  PROVE  /\ Left \in Seq(Session) /\ IsInjective(Left)
         /\ Range(Left) \subseteq Range(queue) \ {Old}
         /\ Kept(queue, Left) /\ InTurn(queue, Left, Old)
         /\ IsRightFor(Left, Rest) /\ Size \in Nat
         /\ Limit > 0 /\ Admitted(queue, Left) \ {Old} # {} => Rest - Len(Left) <= Limit
         /\ Limit > 0 /\ OthersFor(Old) >= Limit => Rest - Len(Left) >= Limit
         /\ Limit > 0 /\ ~ (OthersFor(Old) >= Limit) => Rest < Limit
<1>1. /\ TypeOK /\ PlacesApart /\ queue \in Seq(Session) /\ IsInjective(queue)
      /\ Range(queue) \subseteq Added /\ Size \in Nat /\ Len(queue) \in 0 .. Size
      /\ Limit \in Nat
      /\ queue # <<>> => Limit > 0 /\ Size - Len(queue) >= Limit
      /\ Old \in Added \cup {None} /\ None \notin Added
  BY ActiveIsCounted, Newcomer, AdmissionAssumption
     DEF IInv, QueueIsLive, TypeOK, PlacesApart, CountIsRight, FullWhileQueued
<1>2. CASE Old = None
  <2>1. Left = queue /\ Rest = Size /\ OthersFor(Old) = Size
    BY <1>2 DEF Left, QueueAfterReplacing, Rest, OthersFor
  <2>2. Kept(queue, queue) /\ Admitted(queue, queue) = {} /\ InTurn(queue, queue, Old)
    BY DEF Kept, Admitted, InTurn, Range
  <2>3. queue = <<>> => Len(queue) = 0
    OBVIOUS
  <2> QED
    BY <1>1, <1>2, <2>1, <2>2, <2>3 DEF IsRightFor
<1>3. CASE Old # None
  <2> DEFINE r == Left
  <2>1. /\ r = RemoveOnce(Old) /\ Old \in Added /\ Rest = Size - 1
        /\ OthersFor(Old) = IF Old \in Range(queue) THEN Size ELSE Size - 1
    BY <1>1, <1>3 DEF Left, QueueAfterReplacing, RemoveOnce, Rest, OthersFor, IsQueued
  <2> HIDE DEF r
  <2>2. /\ r \in Seq(Session) /\ IsInjective(r) /\ Range(r) \subseteq Range(queue) \ {Old}
        /\ Kept(queue, r) /\ InTurn(queue, r, Old)
        /\ Len(r) \in Nat /\ Len(r) < Size
        /\ r # <<>> => Limit > 0 /\ Size - 1 - Len(r) >= Limit
        /\ Limit > 0 /\ Admitted(queue, r) \ {Old} # {} => Size - 1 - Len(r) <= Limit
    BY <2>1, Removal
  <2>3. Old \in Range(queue) => Size - 1 >= Limit
    <3>1. Old \in Range(queue) => Len(queue) >= 1 /\ queue # <<>>
      BY <1>1 DEF Range
    <3> QED
      BY <1>1, <3>1
  <2>4. r = <<>> => Len(r) = 0
    OBVIOUS
  <2>5. Limit > 0 /\ OthersFor(Old) >= Limit => Size - 1 - Len(r) >= Limit
    BY <1>1, <2>1, <2>2, <2>3, <2>4
  <2>6. Limit > 0 /\ ~ (OthersFor(Old) >= Limit) => Size - 1 < Limit
    BY <1>1, <2>1
  <2>7. IsRightFor(r, Rest)
    BY <1>1, <2>1, <2>2 DEF IsRightFor
  <2> QED
    BY <1>1, <2>1, <2>2, <2>5, <2>6, <2>7 DEF r
<1> QED
  BY <1>2, <1>3

(* Whether the new session waits.                                          *)
Waits == MustWait(Head(adding), OthersFor(Old))

LEMMA AddSession_Effect ==
  ASSUME AddSession_
  PROVE  /\ adding # <<>> /\ Old \notin loading /\ adding' = Tail(adding)
         /\ sessions' = [sessions EXCEPT ![AccountOf(Head(adding))] = Head(adding)]
         /\ queue' = IF Waits THEN Append(Left, Head(adding)) ELSE Left
         /\ inQueue' = (inQueue \ {Old}) \cup (IF Waits THEN {Head(adding)} ELSE {})
         /\ initializing' = ((initializing \ {Old}) \cup (Admitted(queue, Left) \ {Old}))
                              \cup (IF Waits THEN {} ELSE {Head(adding)})
         /\ open' = open \ {Old} /\ UNCHANGED <<since, loading, down>>
BY DEF AddSession_, Old, Left, Waits

LEMMA AddSession_Inv ==
  ASSUME IInv, AddSession_
  PROVE  /\ IInv' /\ Added' = (Added \ {Old}) \cup {Head(adding)}
         /\ Size' = Rest + 1
<1> DEFINE s == Head(adding)
           go == Admitted(queue, Left) \ {Old}
<1>1. /\ TypeOK /\ PlacesApart
      /\ \A x \in inQueue \cap open : IsQueued(queue, x) \/ x \in initializing
  BY DEF IInv, QueueIsLive
<1>2. /\ adding # <<>> /\ Old \notin loading /\ adding' = Tail(adding)
      /\ sessions' = [sessions EXCEPT ![AccountOf(s)] = s]
      /\ queue' = IF Waits THEN Append(Left, s) ELSE Left
      /\ inQueue' = (inQueue \ {Old}) \cup (IF Waits THEN {s} ELSE {})
      /\ initializing' = ((initializing \ {Old}) \cup go) \cup (IF Waits THEN {} ELSE {s})
      /\ open' = open \ {Old} /\ UNCHANGED <<since, loading, down>>
  BY AddSession_Effect
<1>3. /\ s \in Session \ Added /\ s # None /\ AccountOf(s) \in Account
      /\ s \in Range(adding) /\ Tail(adding) \in Seq(Session) /\ IsInjective(Tail(adding))
      /\ Range(Tail(adding)) = Range(adding) \ {s}
      /\ Old \in Added \cup {None} /\ None \notin Added
      /\ s \notin inQueue \cup initializing \cup loading \cup Range(queue)
      /\ Old # s /\ Old = sessions[AccountOf(s)]
  BY <1>2, Newcomer DEF Old
<1>4. /\ Left \in Seq(Session) /\ IsInjective(Left)
      /\ Range(Left) \subseteq Range(queue) \ {Old} /\ s \notin Range(Left)
      /\ IsRightFor(Left, Rest) /\ Size \in Nat
      /\ Limit > 0 /\ OthersFor(Old) >= Limit => Rest - Len(Left) >= Limit
  BY <1>2, <1>3, Replacing
<1>5. go = (Range(queue) \ Range(Left)) \ {Old}
  BY DEF Admitted
<1> HIDE DEF s, go
<1>6. /\ sessions' \in [Account -> Session \cup {None}]
      /\ \A a \in Account :
           sessions'[a] = IF a = AccountOf(s) THEN s ELSE sessions[a]
  BY <1>1, <1>2, <1>3 DEF TypeOK
<1>7. Added' = (Added \ {Old}) \cup {s}
  <2>1. \A x \in Session : AccountOf(x) \in Account /\ x # None
    BY AdmissionAssumption DEF AccountOf
  <2> QED
    BY <1>1, <1>3, <1>6, <2>1 DEF Added, TypeOK
<1>8. /\ queue' \in Seq(Session) /\ IsInjective(queue')
      /\ Range(queue') = Range(Left) \cup (IF Waits THEN {s} ELSE {})
      /\ Len(queue') = Len(Left) + (IF Waits THEN 1 ELSE 0)
  <2>1. CASE Waits
    <3>1. queue' = Append(Left, s)
      BY <1>2, <2>1
    <3> QED
      BY <1>3, <1>4, <2>1, <3>1, AppendedTo
  <2>2. CASE ~ Waits
    BY <1>2, <1>4, <2>2
  <2> QED
    BY <2>1, <2>2
<1>9. TypeOK'
  <2>1. \A a \in Account : sessions'[a] # None => AccountOf(sessions'[a]) = a
    BY <1>1, <1>6 DEF TypeOK
  <2>2. /\ adding' \in Seq(Session) /\ Known \ {Old} \subseteq Known'
        /\ open' \subseteq Known'
    BY <1>1, <1>2, <1>3, <1>7 DEF TypeOK, Known
  <2>3. inQueue' \subseteq Added' /\ initializing' \subseteq Added'
    BY <1>1, <1>2, <1>5, <1>7 DEF TypeOK, PlacesApart
  <2>4. loading' \subseteq Added'
    BY <1>1, <1>2, <1>7 DEF TypeOK
  <2> QED
    BY <1>1, <1>2, <1>6, <1>8, <2>1, <2>2, <2>3, <2>4 DEF TypeOK
<1>10. PlacesApart'
  <2>1. IsInjective(adding') /\ Range(adding') \cap Added' = {}
    BY <1>1, <1>2, <1>3, <1>7 DEF PlacesApart
  <2>2. Range(queue') \subseteq Added' \ initializing'
    BY <1>1, <1>2, <1>3, <1>4, <1>5, <1>7, <1>8 DEF PlacesApart
  <2> QED
    BY <1>8, <2>1, <2>2 DEF PlacesApart
<1>11. (\A x \in inQueue \cap open : IsQueued(queue, x) \/ x \in initializing)'
  BY <1>1, <1>2, <1>5, <1>8 DEF IsQueued
<1>12. Size' = Rest + 1
  <2>1. IsFiniteSet(Added) /\ Cardinality(Added) = Size
    BY <1>1, ActiveIsCounted DEF CountIsRight
  <2>2. IsFiniteSet(Added \ {Old}) /\ Cardinality(Added \ {Old}) = Rest
    BY <1>3, <2>1, FS_RemoveElement DEF Rest
  <2>3. Cardinality(Added') = Rest + 1
    BY <1>3, <1>7, <2>2, FS_AddElement
  <2> QED
    BY <1>9, <1>10, <2>3, ActiveIsCountedAfter DEF CountIsRight
<1>13. FullWhileQueued'
  <2>1. Cardinality(Active') = Size' - Len(queue')
    BY <1>9, <1>10, ActiveIsCountedAfter DEF CountIsRight
  <2>2. Waits => Limit > 0 /\ OthersFor(Old) >= Limit
    BY DEF Waits, MustWait
  <2>3. /\ Rest \in Nat /\ Len(Left) \in Nat /\ Limit \in Nat
        /\ Left # <<>> => Limit > 0 /\ Rest - Len(Left) >= Limit
    BY <1>4, AdmissionAssumption DEF IsRightFor
  <2>4. CASE Waits
    BY <1>4, <1>8, <1>12, <2>1, <2>2, <2>3, <2>4 DEF FullWhileQueued
  <2>5. CASE ~ Waits
    <3>1. queue' = Left
      BY <1>2, <2>5
    <3> QED
      BY <1>12, <2>1, <2>3, <3>1 DEF FullWhileQueued
  <2> QED
    BY <2>4, <2>5
<1> QED
  BY <1>7, <1>9, <1>10, <1>11, <1>12, <1>13 DEF IInv, QueueIsLive, s

LEMMA Step == IInv /\ [Next]_vars => IInv'
<1> SUFFICES ASSUME IInv, [Next]_vars PROVE IInv'
  OBVIOUS
<1>1. ASSUME NEW s \in Session, AddSession(s) PROVE IInv'
  BY <1>1, AddSessionInv
<1>2. ASSUME NEW s \in Session, RemoveSession(s) PROVE IInv'
  BY <1>2, RemoveSessionInv
<1>3. ASSUME NEW s \in Session,
             \/ CloseSocket(s) \/ InitializeSessionCallback(s)
             \/ HandlePlayerLogin(s) \/ PlayerLoaded(s)
      PROVE  IInv'
  BY <1>3, OtherInv
<1>4. CASE RejectSession
  BY <1>4, RejectSessionInv
<1>5. CASE AddSession_
  BY <1>5, AddSession_Inv
<1>6. CASE KickAll
  BY <1>6, KickAllInv
<1>7. CASE TimePasses \/ UNCHANGED vars
  BY <1>7, OtherInv
<1> QED
  BY <1>1, <1>2, <1>3, <1>4, <1>5, <1>6, <1>7 DEF Next

(* The inductive invariant holds in every state.                            *)
LEMMA Invariance == Spec => []IInv
BY Initially, Step, PTL DEF Spec

(* No pointer to a session that was deleted or replaced is left in the      *)
(* queue, and nobody whose packets are held back is forgotten, however the  *)
(* steps of the network and of the world thread follow each other           *)
(* (AddSession_, RemoveQueuedPlayer, UpdateSessions).                       *)
THEOREM NobodyIsForgotten == Spec => []QueueIsLive
<1>1. IInv => QueueIsLive
  BY DEF IInv
<1> QED
  BY <1>1, Invariance, PTL

(* Somebody waits only while the server is full: each of the ways in which a *)
(* session ends makes room for the first in the queue (RemoveQueuedPlayer).  *)
THEOREM NobodyWaitsInVain == Spec => []FullWhileQueued
<1>1. IInv => FullWhileQueued
  BY DEF IInv
<1> QED
  BY <1>1, Invariance, PTL

(* The second call of RemoveQueuedPlayer in UpdateSessions never lets in a   *)
(* second session: what the first has left of the queue it leaves alone.    *)
THEOREM OneIsLetInAtATime ==
  Spec => [](\A s \in Added : RemoveTwice(s) = RemoveOnce(s))
<1>1. IInv => \A s \in Added : RemoveTwice(s) = RemoveOnce(s)
  BY SecondCallIsIdle
<1> QED
  BY <1>1, Invariance, PTL

-----------------------------------------------------------------------------
(* The limit.                                                              *)

(* Who becomes active and was there before comes from the queue.            *)
LEMMA FromTheQueue ==
  ASSUME IInv, NEW x \in NewlyActive, x \in Added
  PROVE  x \in Range(queue) \ Range(queue')
BY DEF NewlyActive, Active

LEMMA FewerThan ==
  ASSUME NEW S, IsFiniteSet(S), NEW T, T \subseteq S, NEW n \in Nat,
         Cardinality(S) <= n
  PROVE  Cardinality(T) <= n
<1>1. /\ IsFiniteSet(T) /\ Cardinality(T) <= Cardinality(S)
      /\ Cardinality(S) \in Nat /\ Cardinality(T) \in Nat
  BY FS_Subset, FS_CardinalityType
<1> QED
  BY <1>1

LEMMA LimitWhenRemoving ==
  ASSUME IInv, NEW s \in Session, RemoveSession(s), Limit > 0, NewlyActive # {}
  PROVE  Cardinality((Active \cap Active') \cup NewlyActive) <= Limit
<1>1. /\ IInv' /\ Added' = Added \ {s} /\ queue' = RemoveOnce(s)
      /\ Size' = Size - 1 /\ s \in Added
  BY RemoveSessionInv DEF RemoveSession
<1>2. IsFiniteSet(Active') /\ Cardinality(Active') = Size' - Len(queue')
  BY <1>1, ActiveIsCountedAfter DEF IInv, QueueIsLive, CountIsRight
<1>3. PICK x \in NewlyActive : TRUE
  OBVIOUS
<1>4. x \in Added \ {s}
  BY <1>1 DEF NewlyActive, Active
<1>5. x \in Admitted(queue, queue') \ {s}
  BY <1>4, FromTheQueue DEF Admitted
<1>6. Size - 1 - Len(queue') <= Limit
  <2> DEFINE r == RemoveOnce(s)
  <2>1. Limit > 0 /\ Admitted(queue, r) \ {s} # {} => Size - 1 - Len(r) <= Limit
    BY <1>1, Removal
  <2> HIDE DEF r
  <2>2. queue' = r
    BY <1>1 DEF r
  <2> QED
    BY <1>5, <2>1, <2>2
<1>7. (Active \cap Active') \cup NewlyActive \subseteq Active'
  BY DEF NewlyActive
<1> QED
  BY <1>1, <1>2, <1>6, <1>7, FewerThan, AdmissionAssumption

LEMMA LimitWhenAdding ==
  ASSUME IInv, AddSession_, Limit > 0, NewlyActive # {}
  PROVE  Cardinality((Active \cap Active') \cup NewlyActive) <= Limit
<1> DEFINE s == Head(adding)
           U == (Active \cap Active') \cup NewlyActive
<1>1. /\ IInv' /\ Added' = (Added \ {Old}) \cup {s} /\ Size' = Rest + 1
      /\ queue' = IF Waits THEN Append(Left, s) ELSE Left
      /\ adding # <<>>
  BY AddSession_Inv, AddSession_Effect
<1>2. IsFiniteSet(Active') /\ Cardinality(Active') = Size' - Len(queue')
  BY <1>1, ActiveIsCountedAfter DEF IInv, QueueIsLive, CountIsRight
<1>3. /\ s \in Session \ Added /\ s \notin Range(queue)
      /\ Left \in Seq(Session) /\ Range(Left) \subseteq Range(queue)
      /\ Rest \in Nat /\ Len(Left) \in 0 .. Rest /\ Limit \in Nat
      /\ Admitted(queue, Left) \ {Old} # {} => Rest - Len(Left) <= Limit
      /\ ~ (OthersFor(Old) >= Limit) => Rest < Limit
  BY <1>1, Newcomer, Replacing, AdmissionAssumption DEF IsRightFor
<1> HIDE DEF s, U
<1>4. U \subseteq Active'
  BY DEF U, NewlyActive
<1>5. ASSUME NEW x \in NewlyActive, x # s
      PROVE  Rest - Len(Left) <= Limit
  <2>1. x \in Added \ {Old}
    BY <1>1, <1>5 DEF NewlyActive, Active
  <2>2. x \in Range(queue) \ Range(queue')
    BY <2>1, FromTheQueue
  <2>3. x \notin Range(Left)
    <3>1. CASE Waits
      <4>1. queue' = Append(Left, s)
        BY <1>1, <3>1
      <4>2. Range(queue') = Range(Left) \cup {s}
        BY <1>3, <4>1, AppendedTo
      <4> QED
        BY <2>2, <4>2
    <3>2. CASE ~ Waits
      BY <1>1, <2>2, <3>2
    <3> QED
      BY <3>1, <3>2
  <2> QED
    BY <1>3, <2>1, <2>2, <2>3 DEF Admitted
<1>6. CASE Waits
  <2>1. queue' = Append(Left, s)
    BY <1>1, <1>6
  <2>2. Len(queue') = Len(Left) + 1 /\ s \in Range(queue')
    BY <1>3, <2>1, AppendedTo
  <2>3. s \notin NewlyActive
    BY <2>2 DEF NewlyActive, Active
  <2>4. Rest - Len(Left) <= Limit
    BY <1>5, <2>3
  <2>5. Cardinality(Active') <= Limit
    BY <1>1, <1>2, <1>3, <2>2, <2>4
  <2> QED
    BY <1>2, <1>3, <1>4, <2>5, FewerThan DEF U
<1>7. CASE ~ Waits /\ s \in NewlyActive
  <2>1. Rest < Limit
    BY <1>3, <1>7 DEF Waits, MustWait, NewlyActive, MaySkip, s
  <2>2. Cardinality(Active') <= Limit
    BY <1>1, <1>2, <1>3, <1>7, <2>1
  <2> QED
    BY <1>2, <1>3, <1>4, <2>2, FewerThan DEF U
<1>8. CASE ~ Waits /\ s \notin NewlyActive
  <2>1. Rest - Len(Left) <= Limit
    BY <1>5, <1>8
  <2>2. s \in Active'
    BY <1>1, <1>3, <1>8 DEF Active
  <2>3. U \subseteq Active' \ {s}
    BY <1>3, <1>4, <1>8 DEF U, Active
  <2>4. /\ IsFiniteSet(Active' \ {s})
        /\ Cardinality(Active' \ {s}) = Cardinality(Active') - 1
    BY <1>2, <2>2, FS_RemoveElement
  <2>5. Cardinality(Active' \ {s}) <= Limit
    BY <1>1, <1>2, <1>3, <1>8, <2>1, <2>4
  <2> QED
    BY <1>3, <2>3, <2>4, <2>5, FewerThan DEF U
<1> QED
  BY <1>6, <1>7, <1>8

(* Without a right to skip the queue nobody becomes active beyond the limit,*)
(* with any number of accounts, whichever session leaves, is replaced or     *)
(* comes (AddSession_, RemoveQueuedPlayer).                                 *)
THEOREM NobodyPassesTheLimit == Spec => LimitIsKept
<1>1. ASSUME IInv, [Next]_vars, Limit > 0, NewlyActive # {}
      PROVE  Cardinality((Active \cap Active') \cup NewlyActive) <= Limit
  <2>1. ASSUME Active' = Active PROVE FALSE
    BY <1>1, <2>1 DEF NewlyActive
  <2>2. CASE KickAll
    <3>1. Added' = Added /\ initializing' = initializing
      BY <1>1, <2>2, KickAllInv DEF KickAll
    <3>2. PICK x \in NewlyActive : TRUE
      BY <1>1
    <3>3. x \in Range(queue) /\ x \in initializing
      BY <3>1 DEF NewlyActive, Active
    <3> QED
      BY <1>1, <3>3 DEF IInv, QueueIsLive, PlacesApart
  <2>3. ASSUME NEW s \in Session, AddSession(s) PROVE FALSE
    BY <1>1, <2>1, <2>3, AddSessionInv
  <2>4. CASE RejectSession
    BY <1>1, <2>1, <2>4, RejectSessionInv
  <2>5. CASE \/ \E s \in Session :
                  \/ CloseSocket(s) \/ InitializeSessionCallback(s)
                  \/ HandlePlayerLogin(s) \/ PlayerLoaded(s)
             \/ TimePasses \/ UNCHANGED vars
    BY <1>1, <2>1, <2>5, OtherInv
  <2>6. ASSUME NEW s \in Session, RemoveSession(s)
        PROVE  Cardinality((Active \cap Active') \cup NewlyActive) <= Limit
    BY <1>1, <2>6, LimitWhenRemoving
  <2>7. CASE AddSession_
    BY <1>1, <2>7, LimitWhenAdding
  <2> QED
    BY <1>1, <2>2, <2>3, <2>4, <2>5, <2>6, <2>7 DEF Next
<1>2. IInv /\ [Next]_vars =>
        [Limit > 0 /\ NewlyActive # {}
           => Cardinality((Active \cap Active') \cup NewlyActive) <= Limit]_vars
  BY <1>1
<1> QED
  BY <1>2, Invariance, PTL DEF Spec, LimitIsKept

-----------------------------------------------------------------------------
(* The order of the queue.                                                 *)

(* A queue from which some are taken in turn, and to whose end some that    *)
(* are new are appended, is kept in order.                                  *)
LEMMA KeptInOrder ==
  ASSUME NEW q \in Seq(Session), NEW r \in Seq(Session), Kept(q, r)
  PROVE  OrderIsKept(q, r)
BY DEF Kept, OrderIsKept

LEMMA AppendedInOrder ==
  ASSUME NEW q \in Seq(Session), NEW r \in Seq(Session), Kept(q, r),
         NEW s \in Session, s \notin Range(q), NEW t, t = Append(r, s)
  PROVE  OrderIsKept(q, t)
<1>1. /\ DOMAIN t = 1 .. (Len(r) + 1) /\ DOMAIN r = 1 .. Len(r) /\ Len(r) \in Nat
      /\ t[Len(r) + 1] = s /\ \A k \in DOMAIN r : t[k] = r[k]
  OBVIOUS
<1> SUFFICES ASSUME NEW k \in DOMAIN t, NEW l \in DOMAIN t, k < l, t[l] \in Range(q)
             PROVE  \E m, n \in DOMAIN q : m < n /\ q[m] = t[k] /\ q[n] = t[l]
  BY DEF OrderIsKept
<1>2. l # Len(r) + 1
  BY <1>1
<1>3. k \in DOMAIN r /\ l \in DOMAIN r /\ t[k] = r[k] /\ t[l] = r[l]
  BY <1>1, <1>2
<1> QED
  BY <1>3 DEF Kept

LEMMA InTurnIsFair ==
  ASSUME NEW q \in Seq(Session), NEW r, NEW t, NEW s, NEW x, NEW A,
         InTurn(q, r, s), s \notin A, x \notin Range(q),
         Range(r) \cap A = {}, Range(t) \subseteq Range(r) \cup {x}
  PROVE  FirstIsLetIn(q, t, A)
<1> SUFFICES ASSUME NEW n \in DOMAIN q, NEW m \in 1 .. (n - 1), q[n] \in A
             PROVE  q[m] \notin Range(t)
  BY DEF FirstIsLetIn
<1>1. DOMAIN q = 1 .. Len(q) /\ Len(q) \in Nat /\ m \in DOMAIN q
  OBVIOUS
<1>2. q[m] \in Range(q)
  BY <1>1 DEF Range
<1>3. q[n] \notin Range(r) \cup {s}
  OBVIOUS
<1>4. q[m] \notin Range(r)
  BY <1>3 DEF InTurn
<1> QED
  BY <1>2, <1>4

LEMMA FairWhenUnchanged ==
  ASSUME IInv, UNCHANGED queue
  PROVE  OrderIsKept(queue, queue') /\ FirstIsLetIn(queue, queue', Active')
<1>1. queue \in Seq(Session)
  BY DEF IInv, QueueIsLive, TypeOK
<1>2. OrderIsKept(queue, queue)
  BY DEF OrderIsKept
<1>3. \A n \in DOMAIN queue : queue[n] \notin Active'
  BY DEF Active, Range
<1>4. FirstIsLetIn(queue, queue, Active')
  BY <1>3 DEF FirstIsLetIn
<1> QED
  BY <1>2, <1>4

LEMMA FairWhenRemoving ==
  ASSUME IInv, NEW s \in Session, RemoveSession(s)
  PROVE  OrderIsKept(queue, queue') /\ FirstIsLetIn(queue, queue', Active')
<1> DEFINE r == RemoveOnce(s)
<1>1. /\ Added' = Added \ {s} /\ queue' = r /\ s \in Added
  BY RemoveSessionInv DEF RemoveSession
<1>2. /\ r \in Seq(Session) /\ Kept(queue, r) /\ InTurn(queue, r, s)
      /\ Range(r) \subseteq Range(queue) \ {s}
  BY <1>1, Removal
<1> HIDE DEF r
<1>3. queue \in Seq(Session)
  BY DEF IInv, QueueIsLive, TypeOK
<1>4. s \notin Active' /\ s \notin Range(r) /\ Range(r) \cap Active' = {}
  BY <1>1, <1>2 DEF Active
<1>5. OrderIsKept(queue, r)
  BY <1>2, <1>3, KeptInOrder
<1>6. FirstIsLetIn(queue, r, Active')
  <2> SUFFICES ASSUME NEW n \in DOMAIN queue, NEW m \in 1 .. (n - 1),
                      queue[n] \in Active'
               PROVE  queue[m] \notin Range(r)
    BY DEF FirstIsLetIn
  <2> QED
    BY <1>2, <1>4 DEF InTurn
<1> QED
  BY <1>1, <1>5, <1>6

LEMMA FairWhenAdding ==
  ASSUME IInv, AddSession_
  PROVE  OrderIsKept(queue, queue') /\ FirstIsLetIn(queue, queue', Active')
<1> DEFINE s == Head(adding)
<1>1. /\ Added' = (Added \ {Old}) \cup {s}
      /\ queue' = IF Waits THEN Append(Left, s) ELSE Left
      /\ adding # <<>>
  BY AddSession_Inv, AddSession_Effect
<1>2. /\ s \in Session \ Added /\ s \notin Range(queue) /\ Old # s
      /\ Left \in Seq(Session) /\ Kept(queue, Left) /\ InTurn(queue, Left, Old)
  BY <1>1, Newcomer, Replacing
<1> HIDE DEF s
<1>3. queue \in Seq(Session)
  BY DEF IInv, QueueIsLive, TypeOK
<1>4. Range(queue') = Range(Left) \cup (IF Waits THEN {s} ELSE {})
  BY <1>1, <1>2, AppendedTo
<1>5. Old \notin Active' /\ Range(Left) \cap Active' = {}
  BY <1>1, <1>2, <1>4 DEF Active
<1>6. OrderIsKept(queue, queue')
  <2>1. CASE Waits
    <3> DEFINE t == Append(Left, s)
    <3> HIDE DEF t
    <3>1. t = Append(Left, s) /\ queue' = t
      BY <1>1, <2>1 DEF t
    <3>2. OrderIsKept(queue, t)
      BY <1>2, <1>3, <3>1, AppendedInOrder
    <3> QED
      BY <3>1, <3>2
  <2>2. CASE ~ Waits
    BY <1>1, <1>2, <1>3, <2>2, KeptInOrder
  <2> QED
    BY <2>1, <2>2
<1>7. FirstIsLetIn(queue, queue', Active')
  <2>1. Range(queue') \subseteq Range(Left) \cup {s}
    BY <1>4
  <2> QED
    BY <1>2, <1>3, <1>5, <2>1, InTurnIsFair
<1> QED
  BY <1>6, <1>7

(* Those who wait keep their order, and nobody is let in before one who came*)
(* earlier and goes on waiting (RemoveQueuedPlayer, AddQueuedPlayer).       *)
THEOREM FirstComeFirstServed == Spec => QueueIsFair
<1>1. ASSUME IInv, [Next]_vars
      PROVE  OrderIsKept(queue, queue') /\ FirstIsLetIn(queue, queue', Active')
  <2>1. CASE KickAll
    BY <2>1 DEF KickAll, OrderIsKept, FirstIsLetIn, Range
  <2>2. ASSUME NEW s \in Session, RemoveSession(s)
        PROVE  OrderIsKept(queue, queue') /\ FirstIsLetIn(queue, queue', Active')
    BY <1>1, <2>2, FairWhenRemoving
  <2>3. CASE AddSession_
    BY <1>1, <2>3, FairWhenAdding
  <2>4. CASE UNCHANGED queue
    BY <1>1, <2>4, FairWhenUnchanged
  <2> QED
    BY <1>1, <2>1, <2>2, <2>3, <2>4
       DEF Next, AddSession, CloseSocket, InitializeSessionCallback,
           HandlePlayerLogin, PlayerLoaded, RejectSession, TimePasses, vars
<1>2. IInv /\ [Next]_vars =>
        [OrderIsKept(queue, queue') /\ FirstIsLetIn(queue, queue', Active')]_vars
  BY <1>1
<1> QED
  BY <1>2, Invariance, PTL DEF Spec, QueueIsFair

-----------------------------------------------------------------------------
(* Loading.                                                                *)

(* While the character of a session is loaded and its connection is open,   *)
(* nothing deletes it, a second login of the account included               *)
(* (World::RemoveSession returns false).                                    *)
THEOREM NoneIsDeletedWhileLoading == Spec => LoadingIsKept
<1>1. ASSUME IInv, [Next]_vars
      PROVE  loading \cap open \subseteq Added'
  <2>1. loading \subseteq Added
    BY <1>1 DEF IInv, QueueIsLive, TypeOK
  <2>2. ASSUME NEW s \in Session, AddSession(s) PROVE Added' = Added
    BY <1>1, <2>2, AddSessionInv
  <2>3. CASE RejectSession \/ KickAll
    BY <1>1, <2>1, <2>3, RejectSessionInv, KickAllInv
  <2>4. CASE \/ \E s \in Session :
                  \/ CloseSocket(s) \/ InitializeSessionCallback(s)
                  \/ HandlePlayerLogin(s) \/ PlayerLoaded(s)
             \/ TimePasses \/ UNCHANGED vars
    BY <1>1, <2>1, <2>4, OtherInv
  <2>5. ASSUME NEW s \in Session, RemoveSession(s)
        PROVE  loading \cap open \subseteq Added'
    BY <1>1, <2>1, <2>5, RemoveSessionInv DEF RemoveSession
  <2>6. CASE AddSession_
    BY <1>1, <2>1, <2>6, AddSession_Inv, AddSession_Effect
  <2> QED
    BY <1>1, <2>1, <2>2, <2>3, <2>4, <2>5, <2>6 DEF Next
<1>2. IInv /\ [Next]_vars => [loading \cap open \subseteq Added']_vars
  BY <1>1
<1> QED
  BY <1>2, Invariance, PTL DEF Spec, LoadingIsKept

=============================================================================
