---------------------------- MODULE CombatProofs ----------------------------
(***************************************************************************)
(* Proofs about Combat, for every set of units, every timeout and every    *)
(* choice of threat owners, players, charmable units and fickle pairs.     *)
(* The conjunction of the state properties is inductive: each of them      *)
(* needs RefsMatched, because an operation names one end of a reference    *)
(* and has to find the other.                                              *)
(***************************************************************************)
EXTENDS Combat, TLAPS

-----------------------------------------------------------------------------
(* Sets of pairs.                                                          *)

(* A pair of units is its two components: what Flip is built on.            *)
LEMMA PairIsTuple ==
  ASSUME NEW p \in Pairs
  PROVE  p = <<p[1], p[2]>> /\ p[1] \in Unit /\ p[2] \in Unit
BY DEF Pairs

(* Flip turns the pairs of a set around, and nothing else.                  *)
LEMMA FlipMember ==
  ASSUME NEW P \in SUBSET Pairs, NEW a, NEW b
  PROVE  <<a, b>> \in Flip(P) <=> <<b, a>> \in P
<1>1. ASSUME <<b, a>> \in P PROVE <<a, b>> \in Flip(P)
  BY <1>1 DEF Flip
<1>2. ASSUME <<a, b>> \in Flip(P) PROVE <<b, a>> \in P
  <2>1. PICK p \in P : <<a, b>> = <<p[2], p[1]>>
    BY <1>2 DEF Flip
  <2>2. p = <<p[1], p[2]>>
    BY PairIsTuple
  <2> QED
    BY <2>1, <2>2
<1> QED
  BY <1>1, <1>2

LEMMA FlipType ==
  ASSUME NEW P \in SUBSET Pairs
  PROVE  Flip(P) \in SUBSET Pairs /\ Both(P) \in SUBSET Pairs
BY PairIsTuple DEF Flip, Both, Pairs

LEMMA BothMember ==
  ASSUME NEW P \in SUBSET Pairs, NEW a, NEW b
  PROVE  <<a, b>> \in Both(P) <=> <<a, b>> \in P \/ <<b, a>> \in P
BY FlipMember DEF Both

(* Sets of pairs are compared component by component.                       *)
LEMMA SubsetByPairs ==
  ASSUME NEW P \in SUBSET Pairs, NEW Q,
         \A a, b \in Unit : <<a, b>> \in P => <<a, b>> \in Q
  PROVE  P \subseteq Q
<1>1. SUFFICES ASSUME NEW p \in P PROVE p \in Q
  OBVIOUS
<1>2. p = <<p[1], p[2]>> /\ p[1] \in Unit /\ p[2] \in Unit
  BY PairIsTuple
<1> QED
  BY <1>2

LEMMA EqualByPairs ==
  ASSUME NEW P \in SUBSET Pairs, NEW Q \in SUBSET Pairs,
         \A a, b \in Unit : <<a, b>> \in P <=> <<a, b>> \in Q
  PROVE  P = Q
<1>1. P \subseteq Q
  BY SubsetByPairs
<1>2. Q \subseteq P
  BY SubsetByPairs
<1> QED
  BY <1>1, <1>2

LEMMA EndsMember ==
  ASSUME NEW P \in SUBSET Pairs, NEW a \in Unit, NEW b \in Unit,
         <<a, b>> \in Both(P)
  PROVE  a \in Ends(P) /\ b \in Ends(P)
<1>1. CASE <<a, b>> \in P
  BY <1>1, <<a, b>>[1] = a, <<a, b>>[2] = b DEF Ends
<1>2. CASE <<b, a>> \in P
  BY <1>2, <<b, a>>[1] = b, <<b, a>>[2] = a DEF Ends
<1> QED
  BY <1>1, <1>2, BothMember

-----------------------------------------------------------------------------
(* The inductive invariant.                                                *)

(* RefsMatched, pair by pair.                                               *)
Matched ==
  \A u, v \in Unit :
    /\ <<u, v>> \in pve => <<v, u>> \in pve
    /\ <<u, v>> \in pvp => <<v, u>> \in pvp
    /\ ~ (<<u, v>> \in pve /\ <<u, v>> \in pvp)
    /\ <<u, v>> \in pvp <=> (<<u, v>> \in first \/ <<v, u>> \in first)
    /\ <<u, v>> \in first => <<v, u>> \notin first
    /\ IsInCombatWith(u, v) => u # v
    /\ <<u, v>> \in suppressed => IsInCombatWith(u, v)

(* The threat part of RefsMatched and ThreatImpliesCombat, pair by pair.    *)
Threatened ==
  \A u, v \in Unit :
    /\ <<u, v>> \in list <=> <<v, u>> \in byMe
    /\ <<u, v>> \in list => IsInCombatWith(u, v)

Living ==
  \A u, v \in Unit : IsInCombatWith(u, v) => u \in present /\ v \in present

IInv == TypeOK /\ Matched /\ FlagIffActiveRef /\ Threatened /\ Living

(* The properties the runs check say the same as the invariant.             *)
LEMMA InvariantMeans ==
  ASSUME IInv
  PROVE  RefsMatched /\ ThreatImpliesCombat /\ RefsOnlyPresent
<1> USE DEF IInv, TypeOK
<1>1. pve = Flip(pve)
  <2>1. \A a, b \in Unit : <<a, b>> \in pve <=> <<a, b>> \in Flip(pve)
    BY FlipMember DEF Matched
  <2> QED
    BY <2>1, FlipType, EqualByPairs
<1>2. pvp = Flip(pvp)
  <2>1. \A a, b \in Unit : <<a, b>> \in pvp <=> <<a, b>> \in Flip(pvp)
    BY FlipMember DEF Matched
  <2> QED
    BY <2>1, FlipType, EqualByPairs
<1>3. pve \cap pvp = {}
  <2>1. SUFFICES ASSUME NEW p \in pve, p \in pvp PROVE FALSE
    OBVIOUS
  <2>2. p = <<p[1], p[2]>> /\ p[1] \in Unit /\ p[2] \in Unit
    BY PairIsTuple
  <2> QED
    BY <2>1, <2>2 DEF Matched
<1>4. pvp = Both(first)
  <2>1. \A a, b \in Unit : <<a, b>> \in pvp <=> <<a, b>> \in Both(first)
    BY BothMember DEF Matched
  <2> QED
    BY <2>1, FlipType, EqualByPairs
<1>5. first \cap Flip(first) = {}
  <2>1. SUFFICES ASSUME NEW p \in first, p \in Flip(first) PROVE FALSE
    OBVIOUS
  <2>2. p = <<p[1], p[2]>> /\ p[1] \in Unit /\ p[2] \in Unit
    BY PairIsTuple
  <2>3. <<p[2], p[1]>> \in first
    BY <2>1, <2>2, FlipMember
  <2> QED
    BY <2>2, <2>3 DEF Matched
<1>6. \A u \in Unit : <<u, u>> \notin Refs
  BY DEF Matched, IsInCombatWith, Refs
<1>7. suppressed \subseteq Refs
  <2>1. \A a, b \in Unit : <<a, b>> \in suppressed => <<a, b>> \in Refs
    BY DEF Matched, IsInCombatWith, Refs
  <2> QED
    BY <2>1, SubsetByPairs
<1>8. ThreatImpliesCombat
  <2>1. \A a, b \in Unit : <<a, b>> \in list => <<a, b>> \in Refs
    BY DEF Threatened, IsInCombatWith, Refs
  <2> QED
    BY <2>1, SubsetByPairs DEF ThreatImpliesCombat
<1>9. byMe = Flip(list)
  <2>1. \A a, b \in Unit : <<a, b>> \in byMe <=> <<a, b>> \in Flip(list)
    BY FlipMember DEF Threatened
  <2> QED
    BY <2>1, FlipType, EqualByPairs
<1>10. RefsOnlyPresent
  <2>1. SUFFICES ASSUME NEW p \in Refs PROVE p[1] \in present /\ p[2] \in present
    BY DEF RefsOnlyPresent
  <2>2. p = <<p[1], p[2]>> /\ p[1] \in Unit /\ p[2] \in Unit
    BY PairIsTuple DEF Refs
  <2>3. IsInCombatWith(p[1], p[2])
    BY <2>2 DEF Refs, IsInCombatWith
  <2> QED
    BY <2>2, <2>3 DEF Living
<1> QED
  BY <1>1, <1>2, <1>3, <1>4, <1>5, <1>6, <1>7, <1>8, <1>9, <1>10 DEF RefsMatched

-----------------------------------------------------------------------------
(* Starting combat.                                                        *)

LEMMA NewMember ==
  ASSUME NEW P \in SUBSET Pairs, NEW a \in Unit, NEW b \in Unit
  PROVE  /\ <<a, b>> \in New(P) <=>
              <<a, b>> \in P /\ ~ IsInCombatWith(a, b) /\ CanBeginCombat(a, b)
         /\ <<a, b>> \in NewPvP(P) <=>
              <<a, b>> \in New(P) /\ a \in controlled /\ b \in controlled
         /\ New(P) \in SUBSET Pairs /\ NewPvP(P) \in SUBSET Pairs
         /\ <<a, b>> \in Refreshed(P) <=>
              \/ <<a, b>> \in P /\ IsInCombatWith(a, b)
              \/ <<b, a>> \in P /\ IsInCombatWith(b, a)
         /\ Refreshed(P) \in SUBSET Pairs
<1> DEFINE p == <<a, b>>
<1>1. p[1] = a /\ p[2] = b
  OBVIOUS
<1>2. p \in New(P) <=> p \in P /\ ~ IsInCombatWith(a, b) /\ CanBeginCombat(a, b)
  BY <1>1 DEF New, IsInCombatWith, Refs
<1>3. p \in NewPvP(P) <=> p \in New(P) /\ a \in controlled /\ b \in controlled
  BY <1>1 DEF NewPvP
<1>4. New(P) \in SUBSET Pairs /\ NewPvP(P) \in SUBSET Pairs
  BY DEF New, NewPvP
<1>5. P \cap Refs \in SUBSET Pairs
  OBVIOUS
<1>6. p \in Refreshed(P) <=>
        \/ <<a, b>> \in P /\ IsInCombatWith(a, b)
        \/ <<b, a>> \in P /\ IsInCombatWith(b, a)
  BY <1>5, BothMember DEF Refreshed, IsInCombatWith, Refs
<1>7. Refreshed(P) \in SUBSET Pairs
  BY <1>5, FlipType DEF Refreshed
<1> QED
  BY <1>2, <1>3, <1>4, <1>6, <1>7

(* What SetInCombat does to the maps and marks, pair by pair.               *)
LEMMA SetInCombatEffect ==
  ASSUME TypeOK, NEW P \in SUBSET Pairs, NEW quiet \in SUBSET Pairs,
         SetInCombat(P, quiet), NEW a \in Unit, NEW b \in Unit
  PROVE  /\ <<a, b>> \in pve' <=>
              \/ <<a, b>> \in pve
              \/ <<a, b>> \in New(P) /\ <<a, b>> \notin NewPvP(P)
              \/ <<b, a>> \in New(P) /\ <<b, a>> \notin NewPvP(P)
         /\ <<a, b>> \in pvp' <=>
              <<a, b>> \in pvp \/ <<a, b>> \in NewPvP(P) \/ <<b, a>> \in NewPvP(P)
         /\ <<a, b>> \in first' <=> <<a, b>> \in first \/ <<a, b>> \in NewPvP(P)
         /\ <<a, b>> \in suppressed' <=>
              \/ <<a, b>> \in suppressed /\ <<a, b>> \notin Refreshed(P)
              \/ <<b, a>> \in New(P) /\ <<b, a>> \in quiet
<1>1. New(P) \in SUBSET Pairs /\ NewPvP(P) \in SUBSET Pairs
  BY NewMember
<1>2. <<a, b>> \in Both(NewPvP(P)) <=> <<a, b>> \in NewPvP(P) \/ <<b, a>> \in NewPvP(P)
  BY <1>1, BothMember
<1>3. New(P) \ NewPvP(P) \in SUBSET Pairs
  BY <1>1
<1>4. <<a, b>> \in Both(New(P) \ NewPvP(P)) <=>
        \/ <<a, b>> \in New(P) \ NewPvP(P)
        \/ <<b, a>> \in New(P) \ NewPvP(P)
  BY <1>3, BothMember
<1>5. New(P) \cap quiet \in SUBSET Pairs
  BY <1>1
<1>6. <<a, b>> \in Flip(New(P) \cap quiet) <=> <<b, a>> \in New(P) \cap quiet
  BY <1>5, FlipMember
<1> QED
  BY <1>2, <1>4, <1>6 DEF SetInCombat

LEMMA SetInCombatType ==
  ASSUME TypeOK, CombatAssumption, NEW P \in SUBSET Pairs, NEW quiet \in SUBSET Pairs,
         SetInCombat(P, quiet)
  PROVE  /\ pve' \subseteq Pairs /\ pvp' \subseteq Pairs
         /\ first' \subseteq Pairs /\ suppressed' \subseteq Pairs
         /\ timer' \in [Pairs -> 0 .. PvPTimeout]
         /\ flag' \subseteq Unit
<1>1. New(P) \in SUBSET Pairs /\ NewPvP(P) \in SUBSET Pairs
  BY DEF New, NewPvP
<1>2. /\ Both(New(P) \ NewPvP(P)) \in SUBSET Pairs /\ Both(NewPvP(P)) \in SUBSET Pairs
      /\ Flip(New(P) \cap quiet) \in SUBSET Pairs
  BY <1>1, FlipType
<1>3. PvPTimeout \in 0 .. PvPTimeout
  BY DEF CombatAssumption
<1>4. Ends(P) \subseteq Unit
  BY PairIsTuple DEF Ends
<1>5. timer' \in [Pairs -> 0 .. PvPTimeout]
  BY <1>3 DEF SetInCombat, TypeOK
<1>6. flag' \subseteq Unit
  BY <1>4 DEF SetInCombat, UpdateOwnerCombatState, TypeOK
<1> QED
  BY <1>1, <1>2, <1>5, <1>6 DEF SetInCombat, TypeOK

(* Flags are right for the ends of P, which get a new one, and for all      *)
(* others, whose references and marks do not change.                        *)
LEMMA SetInCombatKeeps ==
  ASSUME IInv, NEW u \in Unit, NEW P \in SUBSET ({u} \X Unit), NEW quiet \in SUBSET Pairs,
         SetInCombat(P, quiet), UNCHANGED envVars
  PROVE  /\ Matched' /\ FlagIffActiveRef' /\ Living'
         /\ \A a, b \in Unit : IsInCombatWith(a, b) => IsInCombatWith(a, b)'
         /\ \A a, b \in Unit : <<a, b>> \in New(P) => IsInCombatWith(a, b)'
<1> USE DEF IInv
<1>1. P \in SUBSET Pairs
  BY DEF Pairs
<1>2. \A a, b \in Unit : <<a, b>> \in P => a = u
  OBVIOUS
<1>3. \A a, b \in Unit : <<a, b>> \in New(P) => a = u /\ a # b /\ ~ IsInCombatWith(a, b)
                                               /\ a \in present /\ b \in present
  BY <1>1, <1>2, NewMember DEF CanBeginCombat
<1>4. \A a, b \in Unit : <<a, b>> \in NewPvP(P) => <<a, b>> \in New(P)
  BY <1>1, NewMember
<1> DEFINE n(a, b) == <<a, b>> \in New(P)
           d(a, b) == <<a, b>> \in NewPvP(P)
           r(a, b) == <<a, b>> \in Refreshed(P)
           q(a, b) == <<a, b>> \in quiet
<1>5. \A a, b \in Unit :
        /\ <<a, b>> \in pve' <=> (<<a, b>> \in pve \/ (n(a, b) /\ ~ d(a, b))
                                                   \/ (n(b, a) /\ ~ d(b, a)))
        /\ <<a, b>> \in pvp' <=> <<a, b>> \in pvp \/ d(a, b) \/ d(b, a)
        /\ <<a, b>> \in first' <=> <<a, b>> \in first \/ d(a, b)
        /\ <<a, b>> \in suppressed' <=>
              \/ <<a, b>> \in suppressed /\ ~ r(a, b)
              \/ n(b, a) /\ q(b, a)
  BY <1>1, SetInCombatEffect
<1> HIDE DEF n, d, r, q
<1>6. \A a, b \in Unit : n(a, b) => /\ a = u /\ a # b /\ ~ IsInCombatWith(a, b)
                                    /\ a \in present /\ b \in present
  BY <1>3 DEF n
<1>7. \A a, b \in Unit : d(a, b) => n(a, b)
  BY <1>4 DEF n, d
<1>8. \A a, b \in Unit : IsInCombatWith(a, b)' <=> IsInCombatWith(a, b) \/ n(a, b) \/ n(b, a)
  BY <1>5, <1>7 DEF IsInCombatWith
<1>9. Matched'
  <2>1. SUFFICES ASSUME NEW a \in Unit, NEW b \in Unit
                 PROVE  /\ <<a, b>> \in pve' => <<b, a>> \in pve'
                        /\ <<a, b>> \in pvp' => <<b, a>> \in pvp'
                        /\ ~ (<<a, b>> \in pve' /\ <<a, b>> \in pvp')
                        /\ <<a, b>> \in pvp' <=> (<<a, b>> \in first' \/ <<b, a>> \in first')
                        /\ <<a, b>> \in first' => <<b, a>> \notin first'
                        /\ IsInCombatWith(a, b)' => a # b
                        /\ <<a, b>> \in suppressed' => IsInCombatWith(a, b)'
    BY DEF Matched
  <2>2. ~ (n(a, b) /\ n(b, a))
    BY <1>6
  <2>3. /\ IsInCombatWith(a, b) <=> IsInCombatWith(b, a)
        /\ n(a, b) \/ n(b, a) => ~ IsInCombatWith(a, b) /\ a # b
    BY <1>6 DEF Matched, IsInCombatWith
  <2>4. /\ <<a, b>> \in pve' => <<b, a>> \in pve'
        /\ <<a, b>> \in pvp' => <<b, a>> \in pvp'
    BY <1>5 DEF Matched
  <2>5. ~ (<<a, b>> \in pve' /\ <<a, b>> \in pvp')
    BY <1>5, <1>7, <2>2, <2>3 DEF Matched, IsInCombatWith
  <2>6. /\ <<a, b>> \in pvp' <=> (<<a, b>> \in first' \/ <<b, a>> \in first')
        /\ <<a, b>> \in first' => <<b, a>> \notin first'
    BY <1>5, <1>7, <2>2, <2>3 DEF Matched, IsInCombatWith
  <2>7. /\ IsInCombatWith(a, b)' => a # b
        /\ <<a, b>> \in suppressed' => IsInCombatWith(a, b)'
    BY <1>5, <1>8, <2>3 DEF Matched
  <2> QED
    BY <2>4, <2>5, <2>6, <2>7
<1>10. Living'
  BY <1>6, <1>8 DEF Living, envVars
<1>11. FlagIffActiveRef'
  <2>1. SUFFICES ASSUME NEW w \in Unit PROVE (w \in flag <=> HasCombat(w))'
    BY DEF FlagIffActiveRef
  <2>2. CASE w \in Ends(P)
    BY <2>2 DEF SetInCombat, UpdateOwnerCombatState
  <2>3. CASE w \notin Ends(P)
    <3>1. \A v \in Unit : <<w, v>> \notin P /\ <<v, w>> \notin P
      BY <1>1, <2>3, EndsMember, BothMember
    <3>2. \A v \in Unit : ~ n(w, v) /\ ~ n(v, w) /\ ~ r(w, v)
      BY <1>1, <3>1, NewMember DEF n, r
    <3>4. \A v \in Unit : /\ IsInCombatWith(w, v)' <=> IsInCombatWith(w, v)
                          /\ <<w, v>> \in suppressed' <=> <<w, v>> \in suppressed
      BY <1>5, <1>8, <3>2
    <3>3. HasCombat(w)' <=> HasCombat(w)
      BY <3>4 DEF HasCombat
    <3> QED
      BY <2>3, <3>3 DEF SetInCombat, UpdateOwnerCombatState, FlagIffActiveRef
  <2> QED
    BY <2>2, <2>3
<1> QED
  BY <1>8, <1>9, <1>10, <1>11 DEF n

-----------------------------------------------------------------------------
(* Ending and suppressing combat.                                          *)

(* The references of E end, those of X are marked as suppressed, W are the  *)
(* units whose flag is set anew, T is further threat that is freed.         *)
LEMMA EndCombatKeeps ==
  ASSUME IInv,
         NEW E \in SUBSET Pairs, NEW X \in SUBSET Pairs,
         NEW T \in SUBSET Pairs, NEW W \in SUBSET Unit,
         \A a, b \in Unit : <<a, b>> \in X => /\ IsInCombatWith(a, b)
                                              /\ <<a, b>> \notin Both(E)
                                              /\ a \in W,
         Ends(E) \subseteq W,
         PurgeReference(E),
         suppressed' = (suppressed \ Both(E)) \cup X,
         UpdateOwnerCombatState(W),
         FreeThreat(T \cup Both(E))
  PROVE  /\ Matched' /\ FlagIffActiveRef' /\ Threatened'
         /\ \A a, b \in Unit : IsInCombatWith(a, b)' =>
              IsInCombatWith(a, b) /\ <<a, b>> \notin E /\ <<b, a>> \notin E
         /\ pve' \subseteq Pairs /\ pvp' \subseteq Pairs
         /\ first' \subseteq Pairs /\ suppressed' \subseteq Pairs
         /\ flag' \subseteq Unit /\ list' \subseteq Pairs /\ byMe' \subseteq Pairs
<1> USE DEF IInv
<1> DEFINE e(a, b) == <<a, b>> \in Both(E)
<1>1. \A a, b \in Unit : e(a, b) <=> <<a, b>> \in E \/ <<b, a>> \in E
  BY BothMember
<1>2. \A a, b \in Unit :
        /\ <<a, b>> \in pve' <=> <<a, b>> \in pve /\ ~ e(a, b)
        /\ <<a, b>> \in pvp' <=> <<a, b>> \in pvp /\ ~ e(a, b)
        /\ <<a, b>> \in first' <=> <<a, b>> \in first /\ ~ e(a, b)
        /\ <<a, b>> \in suppressed' <=>
              (<<a, b>> \in suppressed /\ ~ e(a, b)) \/ <<a, b>> \in X
  BY DEF PurgeReference
<1>3. T \cup Both(E) \in SUBSET Pairs
  BY FlipType
<1>4. \A a, b \in Unit :
        /\ <<a, b>> \in list' <=> <<a, b>> \in list /\ <<a, b>> \notin T /\ ~ e(a, b)
        /\ <<b, a>> \in byMe' <=> <<b, a>> \in byMe /\ <<a, b>> \notin T /\ ~ e(a, b)
  BY <1>3, FlipMember DEF FreeThreat
<1>5. \A a, b \in Unit : e(a, b) => a \in W /\ b \in W
  BY EndsMember
<1> HIDE DEF e
<1>6. \A a, b \in Unit : e(a, b) <=> e(b, a)
  BY <1>1
<1>7. \A a, b \in Unit : IsInCombatWith(a, b)' <=> IsInCombatWith(a, b) /\ ~ e(a, b)
  BY <1>2 DEF IsInCombatWith
<1>8. Matched'
  <2>1. SUFFICES ASSUME NEW a \in Unit, NEW b \in Unit
                 PROVE  /\ <<a, b>> \in pve' => <<b, a>> \in pve'
                        /\ <<a, b>> \in pvp' => <<b, a>> \in pvp'
                        /\ ~ (<<a, b>> \in pve' /\ <<a, b>> \in pvp')
                        /\ <<a, b>> \in pvp' <=> (<<a, b>> \in first' \/ <<b, a>> \in first')
                        /\ <<a, b>> \in first' => <<b, a>> \notin first'
                        /\ IsInCombatWith(a, b)' => a # b
                        /\ <<a, b>> \in suppressed' => IsInCombatWith(a, b)'
    BY DEF Matched
  <2>2. <<a, b>> \in X => IsInCombatWith(a, b) /\ ~ e(a, b)
    BY DEF e
  <2> QED
    BY <1>2, <1>6, <1>7, <2>2 DEF Matched
<1>9. Threatened'
  BY <1>4, <1>7 DEF Threatened
<1>10. FlagIffActiveRef'
  <2>1. SUFFICES ASSUME NEW w \in Unit PROVE (w \in flag <=> HasCombat(w))'
    BY DEF FlagIffActiveRef
  <2>2. CASE w \in W
    BY <2>2 DEF UpdateOwnerCombatState
  <2>3. CASE w \notin W
    <3>1. \A v \in Unit : ~ e(w, v) /\ <<w, v>> \notin X
      BY <1>5, <2>3
    <3>2. \A v \in Unit : /\ IsInCombatWith(w, v)' <=> IsInCombatWith(w, v)
                          /\ <<w, v>> \in suppressed' <=> <<w, v>> \in suppressed
      BY <1>2, <1>7, <3>1
    <3>3. HasCombat(w)' <=> HasCombat(w)
      BY <3>2 DEF HasCombat
    <3> QED
      BY <2>3, <3>3 DEF UpdateOwnerCombatState, FlagIffActiveRef
  <2> QED
    BY <2>2, <2>3
<1>11. /\ pve' \subseteq Pairs /\ pvp' \subseteq Pairs /\ first' \subseteq Pairs
       /\ suppressed' \subseteq Pairs /\ list' \subseteq Pairs /\ byMe' \subseteq Pairs
       /\ flag' \subseteq Unit
  BY DEF PurgeReference, FreeThreat, UpdateOwnerCombatState, TypeOK
<1> QED
  BY <1>1, <1>7, <1>8, <1>9, <1>10, <1>11

LEMMA StoppedTimersType ==
  ASSUME TypeOK, CombatAssumption, NEW E
  PROVE  StoppedTimers(E) \in [Pairs -> 0 .. PvPTimeout]
BY DEF StoppedTimers, TypeOK, CombatAssumption

(* The same for EndCombat itself, which marks nothing.                      *)
LEMMA EndCombatStep ==
  ASSUME IInv, CombatAssumption, NEW E \in SUBSET Pairs, NEW T \in SUBSET Pairs,
         EndCombat(E, T)
  PROVE  /\ Matched' /\ FlagIffActiveRef' /\ Threatened'
         /\ \A a, b \in Unit : IsInCombatWith(a, b)' =>
              IsInCombatWith(a, b) /\ <<a, b>> \notin E /\ <<b, a>> \notin E
         /\ pve' \subseteq Pairs /\ pvp' \subseteq Pairs
         /\ first' \subseteq Pairs /\ suppressed' \subseteq Pairs
         /\ timer' \in [Pairs -> 0 .. PvPTimeout]
         /\ flag' \subseteq Unit /\ list' \subseteq Pairs /\ byMe' \subseteq Pairs
<1>1. Ends(E) \in SUBSET Unit
  BY PairIsTuple DEF Ends
<1>2. suppressed' = (suppressed \ Both(E)) \cup {}
  BY DEF EndCombat
<1>3. timer' \in [Pairs -> 0 .. PvPTimeout]
  BY StoppedTimersType DEF EndCombat, IInv
<1>4. /\ PurgeReference(E) /\ UpdateOwnerCombatState(Ends(E))
      /\ FreeThreat(T \cup Both(E))
  BY DEF EndCombat
<1>5. {} \in SUBSET Pairs /\ Ends(E) \subseteq Ends(E)
      /\ \A a, b \in Unit : <<a, b>> \in {} => /\ IsInCombatWith(a, b)
                                               /\ <<a, b>> \notin Both(E)
                                               /\ a \in Ends(E)
  OBVIOUS
<1> HIDE DEF EndCombat
<1>6. /\ Matched' /\ FlagIffActiveRef' /\ Threatened'
      /\ \A a, b \in Unit : IsInCombatWith(a, b)' =>
           IsInCombatWith(a, b) /\ <<a, b>> \notin E /\ <<b, a>> \notin E
      /\ pve' \subseteq Pairs /\ pvp' \subseteq Pairs
      /\ first' \subseteq Pairs /\ suppressed' \subseteq Pairs
      /\ flag' \subseteq Unit /\ list' \subseteq Pairs /\ byMe' \subseteq Pairs
  BY <1>1, <1>2, <1>4, <1>5, EndCombatKeeps
<1> QED
  BY <1>3, <1>6

-----------------------------------------------------------------------------
(* The steps, one lemma for each operation.                                *)

(* An operation that starts combat and changes no threat.                   *)
LEMMA SetInCombatStep ==
  ASSUME IInv, CombatAssumption,
         NEW u \in Unit, NEW P \in SUBSET ({u} \X Unit), NEW quiet \in SUBSET Pairs,
         SetInCombat(P, quiet), UNCHANGED threatVars, UNCHANGED envVars
  PROVE  IInv'
<1>1. P \in SUBSET Pairs
  BY DEF Pairs
<1>2. /\ Matched' /\ FlagIffActiveRef' /\ Living'
      /\ \A a, b \in Unit : IsInCombatWith(a, b) => IsInCombatWith(a, b)'
  BY SetInCombatKeeps
<1>3. /\ pve' \subseteq Pairs /\ pvp' \subseteq Pairs
      /\ first' \subseteq Pairs /\ suppressed' \subseteq Pairs
      /\ timer' \in [Pairs -> 0 .. PvPTimeout]
      /\ flag' \subseteq Unit
  BY <1>1, SetInCombatType DEF IInv
<1>4. TypeOK'
  BY <1>3 DEF IInv, TypeOK, threatVars, envVars
<1>5. Threatened'
  BY <1>2 DEF IInv, Threatened, threatVars
<1> QED
  BY <1>2, <1>4, <1>5 DEF IInv

LEMMA SetInCombatWithStep ==
  ASSUME IInv, CombatAssumption, NEW u \in Unit, NEW v \in Unit, NEW quiet \in BOOLEAN,
         SetInCombatWith(u, v, quiet)
  PROVE  IInv'
<1>1. {<<u, v>>} \in SUBSET ({u} \X Unit)
  OBVIOUS
<1>2. (IF quiet THEN {<<u, v>>} ELSE {}) \in SUBSET Pairs
  BY DEF Pairs
<1>3. /\ SetInCombat({<<u, v>>}, IF quiet THEN {<<u, v>>} ELSE {})
      /\ UNCHANGED threatVars /\ UNCHANGED envVars
  BY DEF SetInCombatWith
<1> HIDE DEF SetInCombatWith
<1> QED
  BY <1>1, <1>2, <1>3, SetInCombatStep

(* Entries go only to those of P that are in combat with u afterwards.      *)
LEMMA AddThreatStep ==
  ASSUME IInv, CombatAssumption, NEW u \in Unit, NEW T \in SUBSET Unit,
         AddThreat(u, T)
  PROVE  IInv'
<1> DEFINE P == {u} \X T
           G == Granted(P)
<1>1. P \in SUBSET ({u} \X Unit) /\ P \in SUBSET Pairs /\ {} \in SUBSET Pairs
  BY DEF Pairs
<1>2. /\ SetInCombat(P, {}) /\ UNCHANGED envVars
      /\ list' = list \cup G /\ byMe' = byMe \cup Flip(G)
  BY DEF AddThreat
<1>3. \A a, b \in Unit : <<a, b>> \in G => IsInCombatWith(a, b) \/ <<a, b>> \in New(P)
  BY DEF Granted, Refs, IsInCombatWith
<1>4. G \in SUBSET Pairs
  BY <1>1 DEF Granted, New
<1> HIDE DEF P, G
<1>5. /\ Matched' /\ FlagIffActiveRef' /\ Living'
      /\ \A a, b \in Unit : IsInCombatWith(a, b) => IsInCombatWith(a, b)'
      /\ \A a, b \in Unit : <<a, b>> \in New(P) => IsInCombatWith(a, b)'
  BY <1>1, <1>2, SetInCombatKeeps
<1>6. /\ pve' \subseteq Pairs /\ pvp' \subseteq Pairs
      /\ first' \subseteq Pairs /\ suppressed' \subseteq Pairs
      /\ timer' \in [Pairs -> 0 .. PvPTimeout]
      /\ flag' \subseteq Unit
  BY <1>1, <1>2, SetInCombatType DEF IInv
<1>7. TypeOK'
  BY <1>2, <1>4, <1>6, FlipType DEF IInv, TypeOK, envVars
<1>8. Threatened'
  <2>1. \A a, b \in Unit : <<b, a>> \in Flip(G) <=> <<a, b>> \in G
    BY <1>4, FlipMember
  <2>2. \A a, b \in Unit : <<a, b>> \in list' <=> <<b, a>> \in byMe'
    BY <1>2, <2>1 DEF IInv, Threatened
  <2>3. \A a, b \in Unit : <<a, b>> \in list' => IsInCombatWith(a, b)'
    BY <1>2, <1>3, <1>5 DEF IInv, Threatened
  <2> QED
    BY <2>2, <2>3 DEF Threatened
<1> QED
  BY <1>5, <1>7, <1>8 DEF IInv

LEMMA AddThreatNoListStep ==
  ASSUME IInv, CombatAssumption, NEW u \in Unit, NEW v \in Unit, NEW R \in SUBSET Unit,
         AddThreatNoList(u, v, R)
  PROVE  IInv'
<1> DEFINE P == {<<u, v>>} \cup {p \in {u} \X R : p \notin Refs}
<1>1. P \in SUBSET ({u} \X Unit) /\ {} \in SUBSET Pairs
  OBVIOUS
<1>2. SetInCombat(P, {}) /\ UNCHANGED threatVars /\ UNCHANGED envVars
  BY DEF AddThreatNoList
<1> HIDE DEF P
<1> QED
  BY <1>1, <1>2, SetInCombatStep

LEMMA InheritStep ==
  ASSUME IInv, CombatAssumption, NEW u \in Unit, NEW w \in Unit, NEW skip,
         InheritCombatStatesFrom(u, w, skip)
  PROVE  IInv'
<1> DEFINE T == {v \in Unit \ skip :
                   \/ <<w, v>> \in pve /\ <<u, v>> \notin Refs
                   \/ <<w, v>> \in pvp}
           P == {u} \X T
<1>1. P \in SUBSET ({u} \X Unit) /\ {} \in SUBSET Pairs
  OBVIOUS
<1>2. SetInCombat(P, {}) /\ UNCHANGED threatVars /\ UNCHANGED envVars
  BY DEF InheritCombatStatesFrom
<1> HIDE DEF P
<1> QED
  BY <1>1, <1>2, SetInCombatStep

(* The sets of references an operation names are sets of pairs.             *)
LEMMA RefSetsType ==
  ASSUME TypeOK, NEW u \in Unit
  PROVE  /\ PvERefs(u) \in SUBSET Pairs /\ PvPRefs(u) \in SUBSET Pairs
         /\ ThreatAround(u) \in SUBSET Pairs
         /\ Counted(u) \in SUBSET Pairs /\ Expired(u) \in SUBSET Pairs
         /\ \A a, b \in Unit : /\ <<a, b>> \in PvERefs(u) <=> <<a, b>> \in pve /\ a = u
                               /\ <<a, b>> \in PvPRefs(u) <=> <<a, b>> \in pvp /\ a = u
<1>1. \A a, b \in Unit : <<a, b>>[1] = a
  OBVIOUS
<1>2. \A a, b \in Unit : /\ <<a, b>> \in PvERefs(u) <=> <<a, b>> \in pve /\ a = u
                         /\ <<a, b>> \in PvPRefs(u) <=> <<a, b>> \in pvp /\ a = u
  BY <1>1 DEF PvERefs, PvPRefs
<1>3. {p \in byMe : p[1] = u} \in SUBSET Pairs /\ ThreatOf(u) \in SUBSET Pairs
  BY DEF TypeOK, ThreatOf
<1>4. ThreatAround(u) \in SUBSET Pairs
  BY <1>3, FlipType DEF ThreatAround
<1> QED
  BY <1>2, <1>4 DEF TypeOK, PvERefs, PvPRefs, Counted, Expired

(* An operation that ends combat and changes nothing about the units.       *)
LEMMA EndAnyStep ==
  ASSUME IInv, CombatAssumption, NEW E \in SUBSET Pairs, NEW T \in SUBSET Pairs,
         EndCombat(E, T), UNCHANGED envVars
  PROVE  IInv'
<1>1. /\ Matched' /\ FlagIffActiveRef' /\ Threatened'
      /\ \A a, b \in Unit : IsInCombatWith(a, b)' =>
           IsInCombatWith(a, b) /\ <<a, b>> \notin E /\ <<b, a>> \notin E
      /\ pve' \subseteq Pairs /\ pvp' \subseteq Pairs
      /\ first' \subseteq Pairs /\ suppressed' \subseteq Pairs
      /\ timer' \in [Pairs -> 0 .. PvPTimeout]
      /\ flag' \subseteq Unit /\ list' \subseteq Pairs /\ byMe' \subseteq Pairs
  BY EndCombatStep
<1>2. TypeOK'
  BY <1>1 DEF IInv, TypeOK, envVars
<1>3. Living'
  BY <1>1 DEF IInv, Living, envVars
<1> QED
  BY <1>1, <1>2, <1>3 DEF IInv

LEMMA EndCombatWithStep ==
  ASSUME IInv, CombatAssumption, NEW u \in Unit, NEW S, NEW pvpToo \in BOOLEAN,
         EndCombatWith(u, S, pvpToo)
  PROVE  IInv'
<1> DEFINE E == {p \in PvERefs(u) : p[2] \in S}
                \cup {p \in PvPRefs(u) : pvpToo /\ p[2] \in S}
<1>1. E \in SUBSET Pairs /\ {} \in SUBSET Pairs
  BY RefSetsType DEF IInv
<1>2. EndCombat(E, {}) /\ UNCHANGED envVars
  BY DEF EndCombatWith
<1> HIDE DEF E
<1> QED
  BY <1>1, <1>2, EndAnyStep

LEMMA EndAllCombatStep ==
  ASSUME IInv, CombatAssumption, NEW u \in Unit, EndAllCombat(u)
  PROVE  IInv'
<1> DEFINE E == PvERefs(u) \cup PvPRefs(u)
<1>1. E \in SUBSET Pairs /\ ThreatAround(u) \in SUBSET Pairs
  BY RefSetsType DEF IInv
<1>2. EndCombat(E, ThreatAround(u)) /\ UNCHANGED envVars
  BY DEF EndAllCombat, CombatStop
<1> HIDE DEF E
<1> QED
  BY <1>1, <1>2, EndAnyStep

(* Nothing of u is left when it is gone, because combat is mutual.          *)
LEMMA LeaveStep ==
  ASSUME IInv, CombatAssumption, NEW u \in Unit, Leave(u)
  PROVE  IInv'
<1> DEFINE E == PvERefs(u) \cup PvPRefs(u)
<1>1. E \in SUBSET Pairs /\ ThreatAround(u) \in SUBSET Pairs
  BY RefSetsType DEF IInv
<1>2. /\ EndCombat(E, ThreatAround(u)) /\ present' = present \ {u}
      /\ UNCHANGED <<controlled, foes>>
  BY DEF Leave, CombatStop
<1>3. \A a, b \in Unit : <<a, b>> \in E <=> IsInCombatWith(a, b) /\ a = u
  BY RefSetsType DEF IInv, IsInCombatWith
<1> HIDE DEF E
<1>4. /\ Matched' /\ FlagIffActiveRef' /\ Threatened'
      /\ \A a, b \in Unit : IsInCombatWith(a, b)' =>
           IsInCombatWith(a, b) /\ <<a, b>> \notin E /\ <<b, a>> \notin E
      /\ pve' \subseteq Pairs /\ pvp' \subseteq Pairs
      /\ first' \subseteq Pairs /\ suppressed' \subseteq Pairs
      /\ timer' \in [Pairs -> 0 .. PvPTimeout]
      /\ flag' \subseteq Unit /\ list' \subseteq Pairs /\ byMe' \subseteq Pairs
  BY <1>1, <1>2, EndCombatStep
<1>5. TypeOK'
  BY <1>2, <1>4 DEF IInv, TypeOK
<1>6. Living'
  <2>1. \A a, b \in Unit : IsInCombatWith(a, b) => IsInCombatWith(b, a)
    BY DEF IInv, Matched, IsInCombatWith
  <2>2. \A a, b \in Unit : IsInCombatWith(a, b)' => a # u /\ b # u
    BY <1>3, <1>4, <2>1
  <2> QED
    BY <1>2, <1>4, <2>2 DEF IInv, Living
<1> QED
  BY <1>4, <1>5, <1>6 DEF IInv

LEMMA ReturnStep ==
  ASSUME IInv, NEW u \in Unit, Return(u)
  PROVE  IInv'
<1>1. /\ present' = present \cup {u}
      /\ UNCHANGED <<pve, pvp, first, suppressed, timer, flag>>
      /\ UNCHANGED <<list, byMe>> /\ UNCHANGED <<controlled, foes>>
  BY DEF Return, refVars, threatVars
<1>2. \A a, b \in Unit : IsInCombatWith(a, b)' <=> IsInCombatWith(a, b)
  BY <1>1 DEF IsInCombatWith
<1>3. TypeOK'
  BY <1>1 DEF IInv, TypeOK
<1>4. Matched' /\ FlagIffActiveRef' /\ Threatened' /\ Living'
  BY <1>1, <1>2 DEF IInv, Matched, FlagIffActiveRef, HasCombat, Threatened, Living
<1> QED
  BY <1>3, <1>4 DEF IInv

LEMMA FoesWithType ==
  ASSUME CombatAssumption, NEW F \in SUBSET Fickle
  PROVE  FoesWith(F) \subseteq UnitPairs
BY DEF CombatAssumption, FoesWith

LEMMA ChangeFoesStep ==
  ASSUME IInv, CombatAssumption, NEW F \in SUBSET Fickle, ChangeFoes(F)
  PROVE  IInv'
<1>1. /\ foes' \subseteq UnitPairs
      /\ UNCHANGED <<pve, pvp, first, suppressed, timer, flag>>
      /\ UNCHANGED <<list, byMe>> /\ UNCHANGED <<present, controlled>>
  BY FoesWithType DEF ChangeFoes, refVars, threatVars
<1>2. \A a, b \in Unit : IsInCombatWith(a, b)' <=> IsInCombatWith(a, b)
  BY <1>1 DEF IsInCombatWith
<1>3. TypeOK'
  BY <1>1 DEF IInv, TypeOK
<1>4. Matched' /\ FlagIffActiveRef' /\ Threatened' /\ Living'
  BY <1>1, <1>2 DEF IInv, Matched, FlagIffActiveRef, HasCombat, Threatened, Living
<1> QED
  BY <1>3, <1>4 DEF IInv

LEMMA CharmStep ==
  ASSUME IInv, CombatAssumption, NEW u \in Unit, NEW byPlayer \in BOOLEAN,
         NEW F \in SUBSET Fickle, Charm(u, byPlayer, F)
  PROVE  IInv'
<1> DEFINE E == {p \in PvERefs(u) \cup PvPRefs(u) : ~ CanBeginCombat(p[1], p[2])'}
           G == {q \in Fickle : IF u \in q THEN q \in F ELSE q \in foes}
<1>1. E \in SUBSET Pairs /\ {} \in SUBSET Pairs /\ G \in SUBSET Fickle
  BY RefSetsType DEF IInv
<1>2. /\ EndCombat(E, {}) /\ UNCHANGED present /\ foes' = FoesWith(G)
      /\ controlled' = IF byPlayer THEN controlled \cup {u} ELSE controlled \ {u}
  BY DEF Charm
<1> HIDE DEF E, G
<1>3. /\ Matched' /\ FlagIffActiveRef' /\ Threatened'
      /\ \A a, b \in Unit : IsInCombatWith(a, b)' =>
           IsInCombatWith(a, b) /\ <<a, b>> \notin E /\ <<b, a>> \notin E
      /\ pve' \subseteq Pairs /\ pvp' \subseteq Pairs
      /\ first' \subseteq Pairs /\ suppressed' \subseteq Pairs
      /\ timer' \in [Pairs -> 0 .. PvPTimeout]
      /\ flag' \subseteq Unit /\ list' \subseteq Pairs /\ byMe' \subseteq Pairs
  BY <1>1, <1>2, EndCombatStep
<1>4. TypeOK'
  BY <1>1, <1>2, <1>3, FoesWithType DEF IInv, TypeOK
<1>5. Living'
  BY <1>2, <1>3 DEF IInv, Living
<1> QED
  BY <1>3, <1>4, <1>5 DEF IInv

LEMMA EndsType ==
  ASSUME NEW E \in SUBSET Pairs
  PROVE  Ends(E) \in SUBSET Unit
BY PairIsTuple DEF Ends

(* A timer that is counted down was above one: it does not go below zero.   *)
LEMMA UpdateStep ==
  ASSUME IInv, CombatAssumption, NEW u \in Unit, Update(u)
  PROVE  IInv'
<1> DEFINE E == Expired(u)
<1>1. E \in SUBSET Pairs /\ {} \in SUBSET Pairs /\ Ends(E) \in SUBSET Unit
  BY RefSetsType, EndsType DEF IInv
<1>2. /\ PurgeReference(E) /\ UpdateOwnerCombatState(Ends(E))
      /\ suppressed' = (suppressed \ Both(E)) \cup {}
      /\ FreeThreat({} \cup Both(E)) /\ UNCHANGED envVars
  <2>1. {} \cup Both(E) = Both(E)
    OBVIOUS
  <2> QED
    BY <2>1 DEF Update
<1>3. timer' \in [Pairs -> 0 .. PvPTimeout]
  <2>1. timer' = [p \in Pairs |-> IF p \in Counted(u) \ E THEN timer[p] - 1
                                  ELSE StoppedTimers(E)[p]]
    BY DEF Update
  <2>2. StoppedTimers(E) \in [Pairs -> 0 .. PvPTimeout]
    BY StoppedTimersType DEF IInv
  <2>3. \A p \in Counted(u) \ E : ~ (timer[p] <= 1)
    BY DEF Expired
  <2>4. PvPTimeout \in Nat /\ timer \in [Pairs -> 0 .. PvPTimeout]
    BY DEF CombatAssumption, IInv, TypeOK
  <2>5. \A p \in Pairs : p \in Counted(u) \ E => timer[p] - 1 \in 0 .. PvPTimeout
    BY <2>3, <2>4
  <2> HIDE DEF E
  <2> QED
    BY <2>1, <2>2, <2>5
<1>4. /\ Ends(E) \subseteq Ends(E)
      /\ \A a, b \in Unit : <<a, b>> \in {} => /\ IsInCombatWith(a, b)
                                               /\ <<a, b>> \notin Both(E)
                                               /\ a \in Ends(E)
  OBVIOUS
<1> HIDE DEF E
<1>5. /\ Matched' /\ FlagIffActiveRef' /\ Threatened'
      /\ \A a, b \in Unit : IsInCombatWith(a, b)' =>
           IsInCombatWith(a, b) /\ <<a, b>> \notin E /\ <<b, a>> \notin E
      /\ pve' \subseteq Pairs /\ pvp' \subseteq Pairs
      /\ first' \subseteq Pairs /\ suppressed' \subseteq Pairs
      /\ flag' \subseteq Unit /\ list' \subseteq Pairs /\ byMe' \subseteq Pairs
  BY <1>1, <1>2, <1>4, EndCombatKeeps
<1>6. TypeOK'
  BY <1>2, <1>3, <1>5 DEF IInv, TypeOK, envVars
<1>7. Living'
  BY <1>2, <1>5 DEF IInv, Living, envVars
<1> QED
  BY <1>5, <1>6, <1>7 DEF IInv

(* The PvP references that are suppressed are none of the PvE ones that end.*)
LEMMA VanishStep ==
  ASSUME IInv, CombatAssumption, NEW u \in Unit, Vanish(u)
  PROVE  IInv'
<1> DEFINE E == PvERefs(u)
           X == PvPRefs(u)
           T == ThreatAround(u)
           W == Ends(E) \cup {u}
<1>1. /\ E \in SUBSET Pairs /\ X \in SUBSET Pairs /\ T \in SUBSET Pairs
      /\ W \in SUBSET Unit
  BY RefSetsType, EndsType DEF IInv
<1>2. /\ PurgeReference(E) /\ UpdateOwnerCombatState(W)
      /\ suppressed' = (suppressed \ Both(E)) \cup X
      /\ FreeThreat(T \cup Both(E)) /\ timer' = StoppedTimers(E) /\ UNCHANGED envVars
  BY DEF Vanish
<1>3. timer' \in [Pairs -> 0 .. PvPTimeout]
  BY <1>2, StoppedTimersType DEF IInv
<1>4. Ends(E) \subseteq W /\ u \in W
  OBVIOUS
<1>5. \A a, b \in Unit : /\ <<a, b>> \in E <=> <<a, b>> \in pve /\ a = u
                         /\ <<a, b>> \in X <=> <<a, b>> \in pvp /\ a = u
  BY RefSetsType DEF IInv
<1> HIDE DEF E, X, T, W
<1>6. \A a, b \in Unit : <<a, b>> \in X => /\ IsInCombatWith(a, b)
                                           /\ <<a, b>> \notin Both(E)
                                           /\ a \in W
  BY <1>1, <1>4, <1>5, BothMember DEF IInv, Matched, IsInCombatWith
<1>7. /\ Matched' /\ FlagIffActiveRef' /\ Threatened'
      /\ \A a, b \in Unit : IsInCombatWith(a, b)' =>
           IsInCombatWith(a, b) /\ <<a, b>> \notin E /\ <<b, a>> \notin E
      /\ pve' \subseteq Pairs /\ pvp' \subseteq Pairs
      /\ first' \subseteq Pairs /\ suppressed' \subseteq Pairs
      /\ flag' \subseteq Unit /\ list' \subseteq Pairs /\ byMe' \subseteq Pairs
  BY <1>1, <1>2, <1>4, <1>6, EndCombatKeeps
<1>8. TypeOK'
  BY <1>2, <1>3, <1>7 DEF IInv, TypeOK, envVars
<1>9. Living'
  BY <1>2, <1>7 DEF IInv, Living, envVars
<1> QED
  BY <1>7, <1>8, <1>9 DEF IInv

LEMMA SuppressForStep ==
  ASSUME IInv, NEW u \in Unit, NEW v \in Unit, SuppressFor(u, v)
  PROVE  IInv'
<1>1. /\ IsInCombatWith(u, v) /\ suppressed' = suppressed \cup {<<u, v>>}
      /\ UNCHANGED <<pve, pvp, first, timer>> /\ UNCHANGED <<list, byMe>>
      /\ UNCHANGED <<present, controlled, foes>> /\ UpdateOwnerCombatState({u})
  BY DEF SuppressFor, threatVars, envVars
<1>2. \A a, b \in Unit : IsInCombatWith(a, b)' <=> IsInCombatWith(a, b)
  BY <1>1 DEF IsInCombatWith
<1>3. TypeOK'
  BY <1>1 DEF IInv, TypeOK, Pairs, UpdateOwnerCombatState
<1>4. \A a, b \in Unit : <<a, b>> \in suppressed' <=>
        <<a, b>> \in suppressed \/ (a = u /\ b = v)
  BY <1>1
<1>5. Matched' /\ Threatened' /\ Living'
  BY <1>1, <1>2, <1>4 DEF IInv, Matched, Threatened, Living
<1>6. FlagIffActiveRef'
  <2>1. SUFFICES ASSUME NEW w \in Unit PROVE (w \in flag <=> HasCombat(w))'
    BY DEF FlagIffActiveRef
  <2>2. CASE w = u
    BY <1>1, <2>2 DEF UpdateOwnerCombatState
  <2>3. CASE w # u
    <3>1. HasCombat(w)' <=> HasCombat(w)
      BY <1>2, <1>4, <2>3 DEF HasCombat
    <3> QED
      BY <1>1, <2>3, <3>1 DEF UpdateOwnerCombatState, IInv, FlagIffActiveRef
  <2> QED
    BY <2>2, <2>3
<1> QED
  BY <1>3, <1>5, <1>6 DEF IInv

LEMMA ClearThreatStep ==
  ASSUME IInv, NEW c \in Unit, NEW T, ClearThreat(c, T)
  PROVE  IInv'
<1> DEFINE L == list \cap ({c} \X T)
<1>1. L \in SUBSET Pairs
  BY DEF IInv, TypeOK
<1>2. /\ FreeThreat(L) /\ UNCHANGED <<pve, pvp, first, suppressed, timer, flag>>
      /\ UNCHANGED <<present, controlled, foes>>
  BY DEF ClearThreat, refVars, envVars
<1> HIDE DEF L
<1>3. \A a, b \in Unit : IsInCombatWith(a, b)' <=> IsInCombatWith(a, b)
  BY <1>2 DEF IsInCombatWith
<1>4. \A a, b \in Unit :
        /\ <<a, b>> \in list' <=> <<a, b>> \in list /\ <<a, b>> \notin L
        /\ <<b, a>> \in byMe' <=> <<b, a>> \in byMe /\ <<a, b>> \notin L
  BY <1>1, <1>2, FlipMember DEF FreeThreat
<1>5. TypeOK'
  BY <1>2 DEF IInv, TypeOK, FreeThreat
<1>6. Threatened'
  BY <1>3, <1>4 DEF IInv, Threatened
<1>7. Matched' /\ FlagIffActiveRef' /\ Living'
  BY <1>2, <1>3 DEF IInv, Matched, FlagIffActiveRef, HasCombat, Living
<1> QED
  BY <1>5, <1>6, <1>7 DEF IInv

-----------------------------------------------------------------------------
(* The invariant holds initially, is kept by every step, and always holds.  *)

LEMMA InitInvariant ==
  ASSUME CombatAssumption, Init
  PROVE  IInv
<1>1. TypeOK
  BY DEF Init, TypeOK, CombatAssumption
<1>2. \A u, v \in Unit : ~ IsInCombatWith(u, v)
  BY DEF Init, IsInCombatWith
<1>3. Matched
  BY <1>2 DEF Init, Matched, IsInCombatWith
<1>4. FlagIffActiveRef /\ Threatened /\ Living
  BY <1>2 DEF Init, FlagIffActiveRef, HasCombat, Threatened, Living
<1> QED
  BY <1>1, <1>3, <1>4 DEF IInv

LEMMA NextInvariant ==
  ASSUME CombatAssumption, IInv, [Next]_vars
  PROVE  IInv'
<1>1. CASE Attack
  <2>1. PICK u \in Unit :
          \/ \E v \in Unit \ {u}, quiet \in BOOLEAN : SetInCombatWith(u, v, quiet)
          \/ \E T \in SUBSET (Unit \ {u}) : AddThreat(u, T)
          \/ \E v \in Unit \ {u} : \E R \in SUBSET (Unit \ {u, v}) : AddThreatNoList(u, v, R)
          \/ \E w \in Unit \ {u} : \E skip \in SUBSET Opponents(w) :
               InheritCombatStatesFrom(u, w, skip)
    BY <1>1 DEF Attack
  <2>2. CASE \E v \in Unit \ {u}, quiet \in BOOLEAN : SetInCombatWith(u, v, quiet)
    BY <2>2, SetInCombatWithStep
  <2>3. CASE \E T \in SUBSET (Unit \ {u}) : AddThreat(u, T)
    BY <2>3, AddThreatStep
  <2>4. CASE \E v \in Unit \ {u} : \E R \in SUBSET (Unit \ {u, v}) : AddThreatNoList(u, v, R)
    BY <2>4, AddThreatNoListStep
  <2>5. CASE \E w \in Unit \ {u} : \E skip \in SUBSET Opponents(w) :
               InheritCombatStatesFrom(u, w, skip)
    BY <2>5, InheritStep
  <2> QED
    BY <2>1, <2>2, <2>3, <2>4, <2>5
<1>2. ASSUME NEW u \in Unit,
             \/ Update(u) \/ EndAllCombat(u) \/ Vanish(u) \/ Leave(u) \/ Return(u)
             \/ \E S \in (SUBSET Opponents(u)) \ {{}}, pvpToo \in BOOLEAN :
                  EndCombatWith(u, S, pvpToo)
             \/ \E v \in Unit : SuppressFor(u, v)
             \/ \E T \in SUBSET {p[2] : p \in ThreatOf(u)} : ClearThreat(u, T)
             \/ \E byPlayer \in BOOLEAN, F \in SUBSET Fickle : Charm(u, byPlayer, F)
      PROVE  IInv'
  <2>1. CASE Update(u)
    BY <2>1, UpdateStep
  <2>2. CASE EndAllCombat(u)
    BY <2>2, EndAllCombatStep
  <2>3. CASE Vanish(u)
    BY <2>3, VanishStep
  <2>4. CASE Leave(u)
    BY <2>4, LeaveStep
  <2>5. CASE Return(u)
    BY <2>5, ReturnStep
  <2>6. CASE \E S \in (SUBSET Opponents(u)) \ {{}}, pvpToo \in BOOLEAN :
               EndCombatWith(u, S, pvpToo)
    BY <2>6, EndCombatWithStep
  <2>7. CASE \E v \in Unit : SuppressFor(u, v)
    BY <2>7, SuppressForStep
  <2>8. CASE \E T \in SUBSET {p[2] : p \in ThreatOf(u)} : ClearThreat(u, T)
    BY <2>8, ClearThreatStep
  <2>9. CASE \E byPlayer \in BOOLEAN, F \in SUBSET Fickle : Charm(u, byPlayer, F)
    BY <2>9, CharmStep
  <2> QED
    BY <1>2, <2>1, <2>2, <2>3, <2>4, <2>5, <2>6, <2>7, <2>8, <2>9
<1>3. CASE \E F \in SUBSET Fickle : ChangeFoes(F)
  BY <1>3, ChangeFoesStep
<1>4. CASE UNCHANGED vars
  <2>1. UNCHANGED <<pve, pvp, first, suppressed, timer, flag,
                    list, byMe, present, controlled, foes>>
    BY <1>4 DEF vars
  <2>2. \A a, b \in Unit : IsInCombatWith(a, b)' <=> IsInCombatWith(a, b)
    BY <2>1 DEF IsInCombatWith
  <2> QED
    BY <2>1, <2>2 DEF IInv, TypeOK, Matched, FlagIffActiveRef, HasCombat, Threatened, Living
<1> QED
  BY <1>1, <1>2, <1>3, <1>4 DEF Next

(* The invariant behind all the others holds in every reachable state.      *)
THEOREM InvariantHolds == Spec => []IInv
<1>1. Init => IInv
  BY CombatAssumption, InitInvariant
<1>2. IInv /\ [Next]_vars => IInv'
  BY CombatAssumption, NextInvariant
<1> QED
  BY <1>1, <1>2, PTL DEF Spec

(* The variables keep their types; PvP timers stay between 0 and the        *)
(* timeout.                                                                 *)
THEOREM TypeCorrect == Spec => []TypeOK
<1>1. IInv => TypeOK
  BY DEF IInv
<1> QED
  BY <1>1, InvariantHolds, PTL

(* The two managers of every pair of units always agree on the references   *)
(* between them and on the threat of one for the other.                     *)
THEOREM MapsAgree == Spec => []RefsMatched
BY InvariantHolds, InvariantMeans, PTL

(* UNIT_FLAG_IN_COMBAT is never stale: UpdateOwnerCombatState is called for *)
(* every unit whose references changed.                                     *)
THEOREM FlagIsRight == Spec => []FlagIffActiveRef
<1>1. IInv => FlagIffActiveRef
  BY DEF IInv
<1> QED
  BY <1>1, InvariantHolds, PTL

(* The strong guarantee of CombatManager.h: no threat without combat.       *)
THEOREM ThreatNeedsCombat == Spec => []ThreatImpliesCombat
BY InvariantHolds, InvariantMeans, PTL

(* No combat reference to a unit that is dead or out of the world.          *)
THEOREM NoDanglingReference == Spec => []RefsOnlyPresent
BY InvariantHolds, InvariantMeans, PTL

-----------------------------------------------------------------------------
(* What wakes a suppressed side.                                           *)

(* What ReactivationIsMutual says of one step.                              *)
Mutual ==
  \A p \in Pairs :
    (p \in suppressed /\ p \in Refs /\ p \in Refs' /\ p \notin suppressed')
    => /\ <<p[2], p[1]>> \notin suppressed'
       /\ \A q \in Both({p}) \cap first' : timer'[q] = PvPTimeout

(* Nobody wakes up in a step that only takes the marks of references that   *)
(* end.                                                                     *)
LEMMA NobodyWakes ==
  ASSUME NEW E \in SUBSET Pairs, PurgeReference(E),
         suppressed \ Both(E) \subseteq suppressed'
  PROVE  Mutual
BY DEF Mutual, PurgeReference, Refs

LEMMA MarksStay ==
  ASSUME suppressed \subseteq suppressed'
  PROVE  Mutual
BY DEF Mutual

(* SetInCombat wakes both sides of the references that it refreshes, and    *)
(* starts their timers over; it suppresses the second side of new ones only.*)
LEMMA RefreshIsMutual ==
  ASSUME IInv, NEW P \in SUBSET Pairs, NEW quiet \in SUBSET Pairs, SetInCombat(P, quiet)
  PROVE  Mutual
<1> USE DEF IInv
<1>1. SUFFICES ASSUME NEW a \in Unit, NEW b \in Unit,
                      <<a, b>> \in suppressed, <<a, b>> \in Refs, <<a, b>> \notin suppressed'
               PROVE  /\ <<b, a>> \notin suppressed'
                      /\ \A q \in Both({<<a, b>>}) \cap first' : timer'[q] = PvPTimeout
  <2>1. SUFFICES ASSUME NEW p \in Pairs, p \in suppressed, p \in Refs, p \notin suppressed'
                 PROVE  /\ <<p[2], p[1]>> \notin suppressed'
                        /\ \A q \in Both({p}) \cap first' : timer'[q] = PvPTimeout
    BY DEF Mutual
  <2>2. p = <<p[1], p[2]>> /\ p[1] \in Unit /\ p[2] \in Unit
    BY PairIsTuple
  <2> QED
    BY <1>1, <2>1, <2>2
<1>2. IsInCombatWith(a, b) /\ IsInCombatWith(b, a)
  BY <1>1 DEF Refs, IsInCombatWith, Matched
<1>3. <<a, b>> \in Refreshed(P)
  BY <1>1, SetInCombatEffect
<1>4. <<b, a>> \in Refreshed(P)
  BY <1>3, NewMember
<1>5. <<b, a>> \notin suppressed'
  BY <1>2, <1>4, SetInCombatEffect, NewMember
<1>6. ASSUME NEW c \in Unit, NEW d \in Unit, <<c, d>> \in first', <<c, d>> \in Refreshed(P)
      PROVE  timer'[<<c, d>>] = PvPTimeout
  <2>1. <<c, d>> \in NewPvP(P) \cup (Refreshed(P) \cap first)
    BY <1>6, SetInCombatEffect
  <2>2. <<c, d>> \in Pairs
    BY DEF Pairs
  <2> QED
    BY <2>1, <2>2 DEF SetInCombat
<1>7. ASSUME NEW q \in Both({<<a, b>>}) \cap first' PROVE timer'[q] = PvPTimeout
  <2>1. q = <<a, b>> \/ q = <<b, a>>
    BY DEF Both, Flip
  <2> QED
    BY <1>3, <1>4, <1>6, <1>7, <2>1
<1> QED
  BY <1>5, <1>7

LEMMA AttackIsMutual ==
  ASSUME IInv, Attack
  PROVE  Mutual
<1>1. PICK u \in Unit :
        \/ \E v \in Unit \ {u}, quiet \in BOOLEAN : SetInCombatWith(u, v, quiet)
        \/ \E T \in SUBSET (Unit \ {u}) : AddThreat(u, T)
        \/ \E v \in Unit \ {u} : \E R \in SUBSET (Unit \ {u, v}) : AddThreatNoList(u, v, R)
        \/ \E w \in Unit \ {u} : \E skip \in SUBSET Opponents(w) :
             InheritCombatStatesFrom(u, w, skip)
  BY DEF Attack
<1>2. {u} \X Unit \in SUBSET Pairs /\ {} \in SUBSET Pairs
  BY DEF Pairs
<1>3. ASSUME NEW v \in Unit, NEW quiet \in BOOLEAN, SetInCombatWith(u, v, quiet)
      PROVE  Mutual
  <2>1. {<<u, v>>} \in SUBSET Pairs
        /\ (IF quiet THEN {<<u, v>>} ELSE {}) \in SUBSET Pairs
    BY DEF Pairs
  <2> QED
    BY <1>3, <2>1, RefreshIsMutual DEF SetInCombatWith
<1>4. ASSUME NEW T \in SUBSET Unit, AddThreat(u, T) PROVE Mutual
  <2>1. {u} \X T \in SUBSET Pairs
    BY DEF Pairs
  <2> QED
    BY <1>2, <1>4, <2>1, RefreshIsMutual DEF AddThreat
<1>5. ASSUME NEW v \in Unit, NEW R \in SUBSET Unit, AddThreatNoList(u, v, R) PROVE Mutual
  <2> DEFINE P == {<<u, v>>} \cup {p \in {u} \X R : p \notin Refs}
  <2>1. P \in SUBSET Pairs
    BY DEF Pairs
  <2> QED
    BY <1>2, <1>5, <2>1, RefreshIsMutual DEF AddThreatNoList
<1>6. ASSUME NEW w \in Unit, NEW skip, InheritCombatStatesFrom(u, w, skip) PROVE Mutual
  <2> DEFINE T == {v \in Unit \ skip :
                     \/ <<w, v>> \in pve /\ <<u, v>> \notin Refs
                     \/ <<w, v>> \in pvp}
  <2>1. {u} \X T \in SUBSET Pairs
    BY DEF Pairs
  <2> QED
    BY <1>2, <1>6, <2>1, RefreshIsMutual DEF InheritCombatStatesFrom
<1> QED
  BY <1>1, <1>3, <1>4, <1>5, <1>6

LEMMA EndIsMutual ==
  ASSUME NEW E \in SUBSET Pairs, NEW T, EndCombat(E, T)
  PROVE  Mutual
<1>1. PurgeReference(E) /\ suppressed \ Both(E) \subseteq suppressed'
  BY DEF EndCombat
<1> QED
  BY <1>1, NobodyWakes

LEMMA NextIsMutual ==
  ASSUME IInv, [Next]_vars
  PROVE  Mutual
<1> USE DEF IInv
<1>1. CASE Attack
  BY <1>1, AttackIsMutual
<1>2. ASSUME NEW u \in Unit, Update(u) \/ EndAllCombat(u) \/ Vanish(u) \/ Leave(u)
      PROVE  Mutual
  <2>1. /\ Expired(u) \in SUBSET Pairs /\ PvERefs(u) \in SUBSET Pairs
        /\ PvERefs(u) \cup PvPRefs(u) \in SUBSET Pairs
    BY RefSetsType
  <2>2. CASE Update(u)
    BY <2>1, <2>2, NobodyWakes DEF Update
  <2>3. CASE EndAllCombat(u) \/ Leave(u)
    BY <2>1, <2>3, EndIsMutual DEF EndAllCombat, Leave, CombatStop
  <2>4. CASE Vanish(u)
    BY <2>1, <2>4, NobodyWakes DEF Vanish
  <2> QED
    BY <1>2, <2>2, <2>3, <2>4
<1>3. ASSUME NEW u \in Unit, NEW S, NEW pvpToo \in BOOLEAN, EndCombatWith(u, S, pvpToo)
      PROVE  Mutual
  <2> DEFINE E == {p \in PvERefs(u) : p[2] \in S}
                  \cup {p \in PvPRefs(u) : pvpToo /\ p[2] \in S}
  <2>1. E \in SUBSET Pairs
    BY RefSetsType
  <2> QED
    BY <1>3, <2>1, EndIsMutual DEF EndCombatWith
<1>4. ASSUME NEW u \in Unit, NEW byPlayer \in BOOLEAN, NEW F \in SUBSET Fickle,
             Charm(u, byPlayer, F)
      PROVE  Mutual
  <2> DEFINE E == {p \in PvERefs(u) \cup PvPRefs(u) : ~ CanBeginCombat(p[1], p[2])'}
  <2>1. E \in SUBSET Pairs
    BY RefSetsType
  <2>2. EndCombat(E, {})
    BY <1>4 DEF Charm
  <2> QED
    BY <2>1, <2>2, EndIsMutual
<1>5. ASSUME NEW u \in Unit, NEW v, SuppressFor(u, v) PROVE Mutual
  BY <1>5, MarksStay DEF SuppressFor
<1>6. ASSUME NEW u \in Unit, NEW T, Return(u) \/ ClearThreat(u, T) PROVE Mutual
  BY <1>6, MarksStay DEF Return, ClearThreat, refVars
<1>7. ASSUME NEW F, ChangeFoes(F) PROVE Mutual
  BY <1>7, MarksStay DEF ChangeFoes, refVars
<1>8. CASE UNCHANGED vars
  BY <1>8, MarksStay DEF vars
<1> QED
  BY <1>1, <1>2, <1>3, <1>4, <1>5, <1>6, <1>7, <1>8 DEF Next

(* A suppressed side of a combat reference only becomes active again when   *)
(* the two units interact: Refresh wakes both sides and starts the PvP timer*)
(* over; no call wakes one side alone.                                      *)
THEOREM WakingIsMutual == Spec => ReactivationIsMutual
<1>1. IInv /\ [Next]_vars => [Mutual]_vars
  BY NextIsMutual
<1>2. IInv /\ [Next]_vars =>
        [\A p \in Pairs :
           (p \in suppressed /\ p \in Refs /\ p \in Refs' /\ p \notin suppressed')
           => /\ <<p[2], p[1]>> \notin suppressed'
              /\ \A q \in Both({p}) \cap first' : timer'[q] = PvPTimeout]_vars
  BY <1>1 DEF Mutual
<1> QED
  BY <1>2, InvariantHolds, PTL DEF Spec, ReactivationIsMutual

-----------------------------------------------------------------------------
(* Combat implements CombatSpec: each call of the two managers is a step of *)
(* the promise under the mapping of Combat.  The inductive invariant gives  *)
(* the consistency of every state, so what is left is that no call both     *)
(* starts and ends something.                                              *)

Active == Refs \ suppressed

Grows   == Refs \subseteq Refs' /\ Active \subseteq Active' /\ list \subseteq list'
Shrinks == Refs' \subseteq Refs /\ Active' \subseteq Active /\ list' \subseteq list

-----------------------------------------------------------------------------
(* The mapping.                                                            *)

LEMMA InitMaps ==
  ASSUME Init
  PROVE  Promise!Init
BY DEF Init, Promise!Init, Refs

(* The invariant says of references what Consistent says of fights.         *)
LEMMA InvariantIsConsistent == IInv => Promise!Consistent
<1> SUFFICES ASSUME IInv PROVE Promise!Consistent
  OBVIOUS
<1> DEFINE F == {{p[1], p[2]} : p \in Refs}
<1>1. RefsMatched /\ ThreatImpliesCombat
  BY InvariantMeans
<1>2. Refs \in SUBSET Pairs /\ flag \subseteq Unit
  BY DEF IInv, TypeOK, Refs
<1>3. \A f \in F : \E u, v \in Unit : u # v /\ f = {u, v}
  <2>1. SUFFICES ASSUME NEW p \in Refs
                 PROVE  \E u, v \in Unit : u # v /\ {p[1], p[2]} = {u, v}
    OBVIOUS
  <2>2. p = <<p[1], p[2]>> /\ p[1] \in Unit /\ p[2] \in Unit
    BY <1>2, PairIsTuple
  <2>3. p[1] # p[2]
    BY <1>1, <2>1, <2>2 DEF RefsMatched
  <2> QED
    BY <2>2, <2>3
<1>4. \A p \in Active \cup list : {p[1], p[2]} \in F
  BY <1>1 DEF Active, ThreatImpliesCombat
<1>5. flag = {u \in Unit : \E v \in Unit : <<u, v>> \in Active}
  BY <1>2 DEF IInv, FlagIffActiveRef, HasCombat, IsInCombatWith, Active, Refs
<1> QED
  BY <1>3, <1>4, <1>5 DEF Promise!Consistent, Active

LEMMA GrowsIsStart ==
  ASSUME Grows
  PROVE  Promise!Start
BY DEF Grows, Active, Promise!Start

LEMMA ShrinksIsStop ==
  ASSUME Shrinks
  PROVE  Promise!Stop
BY DEF Shrinks, Active, Promise!Stop

-----------------------------------------------------------------------------
(* Calls that attack only add.                                             *)

(* A refreshed reference loses its marks, and the one that is new and       *)
(* marked did not exist, in neither direction.                              *)
LEMMA SetInCombatGrows ==
  ASSUME IInv, NEW P \in SUBSET Pairs, NEW quiet \in SUBSET Pairs,
         SetInCombat(P, quiet)
  PROVE  Refs \subseteq Refs' /\ Active \subseteq Active'
<1>1. Refs \subseteq Refs'
  BY DEF SetInCombat, Refs
<1>2. \A a, b \in Unit : <<a, b>> \in Active => <<a, b>> \notin suppressed'
  <2>1. SUFFICES ASSUME NEW a \in Unit, NEW b \in Unit,
                        <<a, b>> \in Active, <<a, b>> \in suppressed'
                 PROVE  FALSE
    OBVIOUS
  <2>2. <<b, a>> \in New(P)
    BY <2>1, SetInCombatEffect DEF Active, IInv
  <2>3. ~ IsInCombatWith(b, a)
    BY <2>2, NewMember
  <2> QED
    BY <2>1, <2>3 DEF Active, Refs, IInv, Matched, IsInCombatWith
<1>3. Active \in SUBSET Pairs
  BY DEF IInv, TypeOK, Active, Refs
<1>4. \A a, b \in Unit : <<a, b>> \in Active => <<a, b>> \in Active'
  BY <1>1, <1>2 DEF Active
<1> QED
  BY <1>1, <1>3, <1>4, SubsetByPairs

(* Every attack is a SetInCombat for some pairs, and frees no threat.       *)
LEMMA AttackGrows ==
  ASSUME IInv, Attack
  PROVE  Grows
<1> DEFINE Starts(P, quiet) == SetInCombat(P, quiet) /\ list \subseteq list'
<1>1. PICK u \in Unit :
        \/ \E v \in Unit \ {u}, quiet \in BOOLEAN : SetInCombatWith(u, v, quiet)
        \/ \E T \in SUBSET (Unit \ {u}) : AddThreat(u, T)
        \/ \E v \in Unit \ {u} : \E R \in SUBSET (Unit \ {u, v}) : AddThreatNoList(u, v, R)
        \/ \E w \in Unit \ {u} : \E skip \in SUBSET Opponents(w) :
             InheritCombatStatesFrom(u, w, skip)
  BY DEF Attack
<1>2. ASSUME NEW v \in Unit, NEW quiet \in BOOLEAN, SetInCombatWith(u, v, quiet)
      PROVE  \E P \in SUBSET Pairs, q \in SUBSET Pairs : Starts(P, q)
  <2>1. Starts({<<u, v>>}, IF quiet THEN {<<u, v>>} ELSE {})
    BY <1>2 DEF SetInCombatWith, threatVars
  <2>2. {<<u, v>>} \in SUBSET Pairs /\ (IF quiet THEN {<<u, v>>} ELSE {}) \in SUBSET Pairs
    BY DEF Pairs
  <2> HIDE DEF Starts
  <2> QED
    BY <2>1, <2>2
<1>3. ASSUME NEW T \in SUBSET Unit, AddThreat(u, T)
      PROVE  \E P \in SUBSET Pairs, q \in SUBSET Pairs : Starts(P, q)
  <2>1. Starts({u} \X T, {})
    BY <1>3 DEF AddThreat
  <2>2. {u} \X T \in SUBSET Pairs /\ {} \in SUBSET Pairs
    BY DEF Pairs
  <2> HIDE DEF Starts
  <2> QED
    BY <2>1, <2>2
<1>4. ASSUME NEW v \in Unit, NEW R \in SUBSET Unit, AddThreatNoList(u, v, R)
      PROVE  \E P \in SUBSET Pairs, q \in SUBSET Pairs : Starts(P, q)
  <2> DEFINE A == {<<u, v>>} \cup {p \in {u} \X R : p \notin Refs}
  <2>1. Starts(A, {})
    BY <1>4 DEF AddThreatNoList, threatVars
  <2>2. A \in SUBSET Pairs /\ {} \in SUBSET Pairs
    BY DEF Pairs
  <2> HIDE DEF Starts, A
  <2> QED
    BY <2>1, <2>2
<1>5. ASSUME NEW w \in Unit, NEW skip, InheritCombatStatesFrom(u, w, skip)
      PROVE  \E P \in SUBSET Pairs, q \in SUBSET Pairs : Starts(P, q)
  <2> DEFINE T == {v \in Unit \ skip :
                     \/ <<w, v>> \in pve /\ <<u, v>> \notin Refs
                     \/ <<w, v>> \in pvp}
  <2>1. Starts({u} \X T, {})
    BY <1>5 DEF InheritCombatStatesFrom, threatVars
  <2>2. {u} \X T \in SUBSET Pairs /\ {} \in SUBSET Pairs
    BY DEF Pairs
  <2> HIDE DEF Starts, T
  <2> QED
    BY <2>1, <2>2
<1>6. \E P \in SUBSET Pairs, q \in SUBSET Pairs : Starts(P, q)
  <2> HIDE DEF Starts
  <2> QED
    BY <1>1, <1>2, <1>3, <1>4, <1>5
<1> QED
  BY <1>6, SetInCombatGrows DEF Grows

-----------------------------------------------------------------------------
(* All other calls only take away.                                         *)

LEMMA PurgeShrinks ==
  ASSUME NEW E, NEW T, PurgeReference(E), FreeThreat(T),
         suppressed \ Both(E) \subseteq suppressed'
  PROVE  Shrinks
BY DEF PurgeReference, FreeThreat, Shrinks, Active, Refs

LEMMA EndCombatShrinks ==
  ASSUME NEW E, NEW T, EndCombat(E, T)
  PROVE  Shrinks
BY PurgeShrinks DEF EndCombat

LEMMA CallShrinks ==
  ASSUME NEW u \in Unit,
         \/ Update(u) \/ EndAllCombat(u) \/ Vanish(u) \/ Leave(u) \/ Return(u)
         \/ \E S \in (SUBSET Opponents(u)) \ {{}}, pvpToo \in BOOLEAN :
              EndCombatWith(u, S, pvpToo)
         \/ \E v \in Unit : SuppressFor(u, v)
         \/ \E T \in SUBSET {p[2] : p \in ThreatOf(u)} : ClearThreat(u, T)
         \/ \E byPlayer \in BOOLEAN, F \in SUBSET Fickle : Charm(u, byPlayer, F)
  PROVE  Shrinks
<1>1. CASE Update(u)
  BY <1>1, PurgeShrinks DEF Update
<1>2. CASE EndAllCombat(u)
  BY <1>2, EndCombatShrinks DEF EndAllCombat, CombatStop
<1>3. CASE Vanish(u)
  BY <1>3, PurgeShrinks DEF Vanish
<1>4. CASE Leave(u)
  BY <1>4, EndCombatShrinks DEF Leave, CombatStop
<1>5. CASE Return(u)
  BY <1>5 DEF Return, refVars, threatVars, Shrinks, Active, Refs
<1>6. CASE \E S \in (SUBSET Opponents(u)) \ {{}}, pvpToo \in BOOLEAN :
             EndCombatWith(u, S, pvpToo)
  BY <1>6, EndCombatShrinks DEF EndCombatWith
<1>7. CASE \E v \in Unit : SuppressFor(u, v)
  BY <1>7 DEF SuppressFor, threatVars, Shrinks, Active, Refs
<1>8. CASE \E T \in SUBSET {p[2] : p \in ThreatOf(u)} : ClearThreat(u, T)
  BY <1>8 DEF ClearThreat, FreeThreat, refVars, Shrinks, Active, Refs
<1>9. CASE \E byPlayer \in BOOLEAN, F \in SUBSET Fickle : Charm(u, byPlayer, F)
  BY <1>9, EndCombatShrinks DEF Charm
<1> QED
  BY <1>1, <1>2, <1>3, <1>4, <1>5, <1>6, <1>7, <1>8, <1>9

LEMMA StepMaps ==
  ASSUME IInv, Promise!Consistent', [Next]_vars
  PROVE  [Promise!Next]_Promise!vars
<1>1. CASE Attack
  BY <1>1, AttackGrows, GrowsIsStart DEF Promise!Next
<1>2. ASSUME NEW u \in Unit,
             \/ Update(u) \/ EndAllCombat(u) \/ Vanish(u) \/ Leave(u) \/ Return(u)
             \/ \E S \in (SUBSET Opponents(u)) \ {{}}, pvpToo \in BOOLEAN :
                  EndCombatWith(u, S, pvpToo)
             \/ \E v \in Unit : SuppressFor(u, v)
             \/ \E T \in SUBSET {p[2] : p \in ThreatOf(u)} : ClearThreat(u, T)
             \/ \E byPlayer \in BOOLEAN, F \in SUBSET Fickle : Charm(u, byPlayer, F)
      PROVE  [Promise!Next]_Promise!vars
  <2>1. Shrinks
    BY <1>2, CallShrinks
  <2> QED
    BY <2>1, ShrinksIsStop DEF Promise!Next
<1>3. CASE \E F \in SUBSET Fickle : ChangeFoes(F)
  <2>1. Shrinks
    BY <1>3 DEF ChangeFoes, refVars, threatVars, Shrinks, Active, Refs
  <2> QED
    BY <2>1, ShrinksIsStop DEF Promise!Next
<1>4. CASE UNCHANGED vars
  BY <1>4 DEF vars, Promise!vars, Refs
<1> QED
  BY <1>1, <1>2, <1>3, <1>4 DEF Next

(* Whatever the calls of the two managers do to maps, marks, flags and      *)
(* lists, the rest of the game sees fights that only start or only end, and *)
(* flags and threat that agree with them.                                   *)
THEOREM CombatImplementsSpec == Spec => ImplementsCombatSpec
<1>1. Init => Promise!Init
  BY InitMaps
<1>2. IInv /\ Promise!Consistent' /\ [Next]_vars => [Promise!Next]_Promise!vars
  BY StepMaps
<1> QED
  BY <1>1, <1>2, InvariantIsConsistent, InvariantHolds, PTL
     DEF Spec, ImplementsCombatSpec, Promise!Spec

=============================================================================
