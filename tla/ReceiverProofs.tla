--------------------------- MODULE ReceiverProofs ---------------------------
(***************************************************************************)
(* Theorems about TopicTypes and Receiver, for all patterns, topics and    *)
(* options.                                                                *)
(***************************************************************************)
EXTENDS Receiver, SumsProofs, FiniteSetTheorems, TLAPS

-----------------------------------------------------------------------------
(* Looking a topic up.                                                     *)

\* The patterns that match and before none of which another one is that matches.
BestPatterns(mp, topic) ==
    {p \in Matching(mp, topic) : \A q \in Matching(mp, topic) : ~Before(q, p)}

\* The type of the best pattern; a tie if there are several.
BestType(mp, topic) ==
    LET best == BestPatterns(mp, topic) IN
    IF best = {} THEN NoType
    ELSE IF Cardinality(best) > 1 THEN Tie
    ELSE mp[CHOOSE p \in best : TRUE]

IsPattern(p) == Len(p) \in Nat /\ DOMAIN p = 1..Len(p)
IsMapping(mp) == IsFiniteSet(DOMAIN mp) /\ \A p \in DOMAIN mp : IsPattern(p)

LEMMA PatternRank ==
    ASSUME NEW p, IsPattern(p)
    PROVE  Specificity(p) \in Nat /\ Len(p) \in Nat
<1>1. IsFiniteSet(DOMAIN p)
  BY FS_Interval DEF IsPattern
<1>2. IsFiniteSet(Weighing(p, 1)) /\ IsFiniteSet(Weighing(p, 2))
  BY <1>1, FS_Subset DEF Weighing
<1>3. Cardinality(Weighing(p, 1)) \in Nat /\ Cardinality(Weighing(p, 2)) \in Nat
  BY <1>2, FS_CardinalityType
<1>4. QED
  BY <1>3 DEF Specificity, IsPattern

\* An index has every pattern once, none before a more specific one.
LEMMA IndexFacts ==
    ASSUME NEW mp, IsMapping(mp), NEW idx \in Indexes(mp)
    PROVE  /\ DOMAIN idx \subseteq Nat
           /\ \A n \in DOMAIN idx : idx[n] \in DOMAIN mp /\ Specificity(idx[n]) \in Nat
                                                         /\ Len(idx[n]) \in Nat
           /\ \A n, j \in DOMAIN idx : n # j => idx[n] # idx[j]
           /\ \A n, j \in DOMAIN idx : n < j => ~Before(idx[j], idx[n])
           /\ \A p \in DOMAIN mp : \E n \in DOMAIN idx : idx[n] = p
<1> DEFINE S == DOMAIN mp
           D == 1..Cardinality(S)
<1>1. Cardinality(S) \in Nat
  BY FS_CardinalityType DEF IsMapping
<1>2. IsFiniteSet(D) /\ Cardinality(D) = Cardinality(S)
  BY <1>1, FS_Interval
<1>3. idx \in [D -> S] /\ \A n, j \in D : n # j => idx[n] # idx[j]
  BY DEF Indexes, SetToSeqs
<1>4. \A n, j \in DOMAIN idx : n < j => ~Before(idx[j], idx[n])
  BY DEF Indexes
<1> HIDE DEF D
<1>5. idx \in Injection(D, S)
  BY <1>3 DEF Injection, IsInjective
<1>6. idx \in Surjection(D, S)
  BY <1>2, <1>5, FS_Injection DEF IsMapping
<1>7. \A p \in S : \E n \in D : idx[n] = p
  BY <1>6 DEF Surjection
<1>8. \A n \in D : idx[n] \in S /\ IsPattern(idx[n])
  BY <1>3 DEF IsMapping
<1>9. D \subseteq Nat
  BY <1>1 DEF D
<1>10. QED
  BY <1>3, <1>4, <1>7, <1>8, <1>9, PatternRank

\* Ranks are ordered: of two patterns one is before the other, or they are of a rank.
LEMMA RanksCompare ==
    ASSUME NEW p, NEW q, Specificity(p) \in Nat, Specificity(q) \in Nat,
           Len(p) \in Nat, Len(q) \in Nat
    PROVE  /\ Before(p, q) \/ Before(q, p) \/ SameRank(p, q)
           /\ SameRank(p, q) => ~Before(p, q) /\ ~Before(q, p)
BY DEF Before, SameRank

\* What is between two patterns of a rank is of their rank.
LEMMA RankBetween ==
    ASSUME NEW p, NEW q, NEW r,
           Specificity(p) \in Nat, Specificity(q) \in Nat, Specificity(r) \in Nat,
           Len(p) \in Nat, Len(q) \in Nat, Len(r) \in Nat,
           SameRank(p, r), ~Before(q, p), ~Before(r, q)
    PROVE  SameRank(p, q)
BY DEF Before, SameRank

\* The scan finds what the ranks of the patterns, without any order, say
\* (topic_match.go:98-111): the first that matches is one of the best.
LEMMA LookupFindsBest ==
    ASSUME NEW mp, IsMapping(mp), NEW idx \in Indexes(mp), NEW topic
    PROVE  /\ Lookup(idx, mp, topic) = BestType(mp, topic)
           /\ Matching(mp, topic) # {} => BestPatterns(mp, topic) # {}
<1> DEFINE matching == {n \in DOMAIN idx : Matches(topic, idx[n])}
           first    == CHOOSE n \in matching : \A j \in matching : n =< j
           seen     == {j \in matching : \A k \in first..j : SameRank(idx[first], idx[k])}
           best     == BestPatterns(mp, topic)
<1>0. Lookup(idx, mp, topic) = IF matching = {} THEN NoType
                               ELSE IF seen # {first} THEN Tie ELSE mp[idx[first]]
  BY DEF Lookup
<1>1. BestType(mp, topic) = IF best = {} THEN NoType
                            ELSE IF Cardinality(best) > 1 THEN Tie
                            ELSE mp[CHOOSE p \in best : TRUE]
  BY DEF BestType
<1>2. \A n \in matching : /\ n \in Nat /\ n \in DOMAIN idx /\ idx[n] \in DOMAIN mp
                          /\ Specificity(idx[n]) \in Nat /\ Len(idx[n]) \in Nat
                          /\ Matches(topic, idx[n])
  BY IndexFacts
<1>3. CASE matching = {}
  <2>1. best = {}
    BY <1>3, IndexFacts DEF BestPatterns, Matching
  <2>2. Matching(mp, topic) = {}
    BY <1>3, IndexFacts DEF Matching
  <2> HIDE DEF best, matching
  <2>3. QED
    BY <1>0, <1>1, <1>3, <2>1, <2>2
<1>4. CASE matching # {}
  <2>1. matching \in SUBSET Nat
    BY <1>2
  <2>2. \E n \in matching : \A j \in matching : n =< j
    BY <1>4, <2>1, LeastNumber
  <2>3. first \in matching /\ \A j \in matching : first =< j
    BY <2>2
  <2> HIDE DEF first
  <2>4. ASSUME NEW j \in matching PROVE ~Before(idx[j], idx[first])
    <3>1. CASE j = first
      BY <1>2, <3>1 DEF Before
    <3>2. CASE j # first
      <4>1. first < j
        BY <1>2, <2>3, <3>2
      <4>2. QED
        BY <1>2, <2>3, <4>1, IndexFacts
    <3>3. QED
      BY <3>1, <3>2
  <2>5. idx[first] \in best
    <3>1. ASSUME NEW q \in DOMAIN mp, Matches(topic, q) PROVE ~Before(q, idx[first])
      <4>1. PICK j \in DOMAIN idx : idx[j] = q
        BY IndexFacts
      <4>2. j \in matching
        BY <3>1, <4>1
      <4>3. QED
        BY <1>2, <2>3, <2>4, <4>1, <4>2, RanksCompare
    <3>2. QED
      BY <1>2, <2>3, <3>1 DEF BestPatterns, Matching
  <2>6. ASSUME NEW p \in best PROVE \E j \in seen : idx[j] = p
    <3>1. p \in DOMAIN mp /\ Matches(topic, p) /\ ~Before(idx[first], p)
      BY <1>2, <2>3 DEF BestPatterns, Matching
    <3>2. PICK j \in DOMAIN idx : idx[j] = p
      BY <3>1, IndexFacts
    <3>3. j \in matching
      BY <3>1, <3>2
    <3>4. SameRank(idx[first], p)
      BY <1>2, <2>3, <2>4, <3>1, <3>2, <3>3, RanksCompare
    <3>5. ASSUME NEW k \in first..j PROVE SameRank(idx[first], idx[k])
      <4>1. first \in Nat /\ j \in Nat /\ k \in Nat /\ k \in DOMAIN idx
        <5>1. DOMAIN idx = 1..Cardinality(DOMAIN mp)
          BY DEF Indexes, SetToSeqs
        <5>2. Cardinality(DOMAIN mp) \in Nat
          BY FS_CardinalityType DEF IsMapping
        <5>3. first \in 1..Cardinality(DOMAIN mp) /\ j \in 1..Cardinality(DOMAIN mp)
          BY <2>3, <3>3, <5>1
        <5>4. QED
          BY <5>1, <5>2, <5>3
      <4>2. CASE k = first
        BY <4>2 DEF SameRank
      <4>3. CASE k = j
        BY <3>2, <3>4, <4>3
      <4>4. CASE first < k /\ k < j
        <5>1. /\ ~Before(idx[k], idx[first]) /\ ~Before(idx[j], idx[k])
              /\ Specificity(idx[k]) \in Nat /\ Len(idx[k]) \in Nat
          BY <1>2, <2>3, <3>3, <4>1, <4>4, IndexFacts
        <5>2. QED
          BY <1>2, <2>3, <3>2, <3>3, <3>4, <5>1, RankBetween
      <4>5. QED
        BY <4>1, <4>2, <4>3, <4>4
    <3>6. QED
      BY <3>2, <3>3, <3>5
  <2>7. ASSUME NEW j \in seen PROVE idx[j] \in best
    <3>1. j \in matching /\ first =< j /\ first \in Nat /\ j \in Nat
      BY <1>2, <2>3
    <3>2. SameRank(idx[first], idx[j])
      BY <3>1
    <3>3. ASSUME NEW q \in DOMAIN mp, Matches(topic, q) PROVE ~Before(q, idx[j])
      <4>1. PICK k \in DOMAIN idx : idx[k] = q
        BY IndexFacts
      <4>2. k \in matching
        BY <3>3, <4>1
      <4>3. ~Before(q, idx[first]) /\ Specificity(q) \in Nat /\ Len(q) \in Nat
        BY <1>2, <2>4, <4>1, <4>2
      <4>4. ~Before(q, idx[j])
        BY <1>2, <3>1, <3>2, <4>3 DEF Before, SameRank
      <4>5. QED
        BY <1>2, <3>1, <4>3, <4>4, RanksCompare
    <3>4. QED
      BY <1>2, <3>1, <3>3 DEF BestPatterns, Matching
  <2>8. first \in seen
    <3>1. first \in Nat
      BY <1>2, <2>3
    <3>2. \A k \in first..first : k = first
      BY <3>1
    <3>3. QED
      BY <2>3, <3>2 DEF SameRank
  <2>9. IsFiniteSet(best)
    BY FS_Subset DEF IsMapping, BestPatterns, Matching
  <2>10. seen \subseteq matching /\ BestPatterns(mp, topic) # {}
    BY <2>5
  <2> HIDE DEF matching, seen, best
  <2>11. ASSUME seen = {first}
         PROVE  Lookup(idx, mp, topic) = BestType(mp, topic)
    <3>1. best = {idx[first]}
      BY <2>5, <2>6, <2>11
    <3>2. Cardinality(best) = 1
      BY <3>1, FS_Singleton
    <3>3. (CHOOSE p \in best : TRUE) = idx[first]
      BY <3>1
    <3>4. QED
      BY <1>0, <1>1, <1>4, <2>11, <3>1, <3>2, <3>3
  <2>12. ASSUME seen # {first}
         PROVE  Lookup(idx, mp, topic) = BestType(mp, topic)
    <3>1. PICK j \in seen : j # first
      BY <2>8, <2>12
    <3>2. idx[j] # idx[first] /\ idx[j] \in best
      BY <1>2, <2>3, <2>7, <2>10, <3>1, IndexFacts
    <3>3. ~(best = {}) /\ Cardinality(best) \in Nat /\ Cardinality(best) # 0
      BY <2>5, <2>9, FS_EmptySet, FS_CardinalityType
    <3>4. Cardinality(best) # 1
      BY <2>5, <2>9, <3>2, FS_Singleton
    <3>5. Cardinality(best) > 1
      BY <3>3, <3>4
    <3>6. QED
      BY <1>0, <1>1, <1>4, <2>12, <3>3, <3>5
  <2>13. QED
    BY <2>10, <2>11, <2>12
<1>5. QED
  BY <1>3, <1>4

\* What is within a literal is a literal, what is within a prefix a prefix or a literal.
LEMMA WithinWeighs ==
    ASSUME NEW s, NEW r, Within(s, r)
    PROVE  /\ Weight(r) = 2 => Weight(s) = 2
           /\ Weight(r) = 1 => Weight(s) \in {1, 2}
BY DEF Within, Weight

\* A case of a pattern has as many literals, as high a score and as many segments, or
\* more.
LEMMA RefinedRank ==
    ASSUME NEW p, NEW q, IsPattern(p), IsPattern(q), Refines(p, q)
    PROVE  /\ Literals(p) \in Nat /\ Literals(q) \in Nat /\ Literals(p) >= Literals(q)
           /\ Specificity(p) >= Specificity(q) /\ Len(p) >= Len(q)
           /\ Specificity(p) = Specificity(q) => Literals(p) = Literals(q)
<1> DEFINE One(t) == Weighing(t, 1)
           Two(t) == Weighing(t, 2)
<1>1. /\ Len(p) \in Nat /\ Len(q) \in Nat /\ DOMAIN p = 1..Len(p) /\ DOMAIN q = 1..Len(q)
      /\ Len(p) >= Len(q)
  <2>1. Len(p) \in Nat /\ Len(q) \in Nat
    BY DEF IsPattern
  <2>2. Len(p) >= Len(q) \/ Len(p) = Len(q)
    BY DEF Refines
  <2>3. Len(p) >= Len(q)
    BY ONLY <2>1, <2>2
  <2>4. QED
    BY <2>1, <2>3 DEF IsPattern
<1>2. ASSUME NEW k \in DOMAIN q, Weight(q[k]) # 0 PROVE k \in DOMAIN p /\ Within(p[k], q[k])
  <2>1. CASE Last(q) = Rest
    <3>1. q[k] # Rest
      BY <1>2 DEF Weight
    <3>2. k \in 1..(Len(q) - 1)
      BY <1>1, <2>1, <3>1 DEF Last
    <3>3. QED
      BY <1>1, <2>1, <3>2 DEF Refines
  <2>2. CASE Last(q) # Rest
    BY <1>1, <2>2 DEF Refines
  <2>3. QED
    BY <2>1, <2>2
<1>3. Two(q) \subseteq Two(p)
  BY <1>2, WithinWeighs DEF Weighing
<1>4. One(q) \cup Two(q) \subseteq One(p) \cup Two(p)
  BY <1>2, <1>3, WithinWeighs DEF Weighing
<1>5. ASSUME NEW t, IsPattern(t)
      PROVE  /\ IsFiniteSet(One(t) \cup Two(t)) /\ IsFiniteSet(Two(t))
             /\ Cardinality(Two(t)) \in Nat /\ Cardinality(One(t) \cup Two(t)) \in Nat
             /\ Specificity(t) = Cardinality(One(t) \cup Two(t)) + Cardinality(Two(t))
  <2>1. IsFiniteSet(DOMAIN t)
    BY <1>5, FS_Interval DEF IsPattern
  <2>2. IsFiniteSet(One(t)) /\ IsFiniteSet(Two(t))
    BY <2>1, FS_Subset DEF Weighing
  <2>3. One(t) \cap Two(t) = {}
    BY DEF Weighing
  <2>4. Cardinality(One(t)) \in Nat /\ Cardinality(Two(t)) \in Nat /\ Cardinality({}) = 0
    BY <2>2, FS_CardinalityType, FS_EmptySet
  <2> HIDE DEF One, Two
  <2>5. /\ IsFiniteSet(One(t) \cup Two(t))
        /\ Cardinality(One(t) \cup Two(t)) = Cardinality(One(t)) + Cardinality(Two(t))
    <3>1. IsFiniteSet(One(t)) /\ IsFiniteSet(Two(t)) /\ Cardinality(One(t) \cap Two(t)) = 0
      BY <2>2, <2>3, <2>4
    <3>2. /\ IsFiniteSet(One(t) \cup Two(t))
          /\ Cardinality(One(t) \cup Two(t)) =
                 Cardinality(One(t)) + Cardinality(Two(t)) - Cardinality(One(t) \cap Two(t))
      BY <3>1, FS_Union
    <3>3. QED
      BY <2>4, <3>1, <3>2
  <2>6. Specificity(t) = Cardinality(One(t)) + 2 * Cardinality(Two(t))
    BY DEF Specificity, One, Two
  <2>7. QED
    BY <2>2, <2>4, <2>5, <2>6
<1> HIDE DEF One, Two
<1>6. /\ Cardinality(Two(q)) <= Cardinality(Two(p))
      /\ Cardinality(One(q) \cup Two(q)) <= Cardinality(One(p) \cup Two(p))
  BY <1>3, <1>4, <1>5, FS_Subset
<1>7. Literals(p) = Cardinality(Two(p)) /\ Literals(q) = Cardinality(Two(q))
  BY DEF Literals, Two
<1>8. QED
  BY <1>1, <1>5, <1>6, <1>7

\* The best pattern, if it is the only one, has no other match that is a case of it; the
\* best of several make a tie.
LEMMA LookupAnswers ==
    ASSUME NEW mp, IsMapping(mp), NEW idx \in Indexes(mp), NEW topic
    PROVE  \/ Lookup(idx, mp, topic) \in Found(mp, topic)
           \/ Lookup(idx, mp, topic) = Tie /\ MayTie(mp, topic)
<1> DEFINE matching == Matching(mp, topic)
           best     == BestPatterns(mp, topic)
<1>1. Lookup(idx, mp, topic) = BestType(mp, topic) /\ (matching # {} => best # {})
  BY LookupFindsBest
<1>2. best \subseteq matching /\ \A p \in best, q \in matching : ~Before(q, p)
  BY DEF BestPatterns
<1>3. \A p \in matching : IsPattern(p) /\ Specificity(p) \in Nat /\ Len(p) \in Nat
  BY PatternRank DEF Matching, IsMapping
<1>4. IsFiniteSet(best)
  BY FS_Subset DEF IsMapping, BestPatterns, Matching
<1>5. CASE matching = {}
  BY <1>1, <1>2, <1>5 DEF Found, BestType
<1>6. CASE matching # {} /\ Cardinality(best) = 1
  <2>1. PICK p \in best : best = {p}
    BY <1>4, <1>6, FS_Singleton
  <2>2. Lookup(idx, mp, topic) = mp[p]
    <3>1. (CHOOSE r \in best : TRUE) = p
      BY <2>1
    <3>2. QED
      BY <1>1, <1>6, <2>1, <3>1 DEF BestType
  <2>3. ASSUME NEW q \in matching \ {p}, Refines(q, p) PROVE FALSE
    <3>1. Specificity(q) >= Specificity(p) /\ Len(q) >= Len(p)
      BY <1>2, <1>3, <2>1, <2>3, RefinedRank
    <3>2. SameRank(q, p)
      BY <1>2, <1>3, <2>1, <3>1 DEF Before, SameRank
    <3>3. q \in best
      <4>1. ASSUME NEW r \in matching PROVE ~Before(r, q)
        BY <1>2, <1>3, <2>1, <3>2, <4>1 DEF Before, SameRank
      <4>2. QED
        BY <4>1 DEF BestPatterns
    <3>4. QED
      BY <2>1, <3>3
  <2>4. QED
    BY <1>2, <1>6, <2>1, <2>2, <2>3 DEF Found
<1>7. CASE matching # {} /\ Cardinality(best) # 1
  <2>1. best # {} /\ Cardinality(best) \in Nat /\ Cardinality(best) # 0
    BY <1>1, <1>4, <1>7, FS_EmptySet, FS_CardinalityType
  <2>2. Lookup(idx, mp, topic) = Tie
    BY <1>1, <1>7, <2>1 DEF BestType
  <2>3. PICK p \in best, q \in best : p # q
    <3>1. PICK p \in best : TRUE
      BY <2>1
    <3>2. best # {p}
      BY <1>7, FS_Singleton
    <3>3. QED
      BY <3>1, <3>2
  <2>4. Len(p) = Len(q)
    BY <1>2, <1>3, <2>3 DEF Before
  <2>5. ASSUME NEW b \in best, NEW r \in matching, Refines(r, b)
        PROVE  Literals(r) <= Literals(b)
    <3>1. /\ Literals(r) \in Nat /\ Literals(b) \in Nat
          /\ Specificity(r) >= Specificity(b)
          /\ Specificity(r) = Specificity(b) => Literals(r) = Literals(b)
      BY <1>2, <1>3, <2>5, RefinedRank
    <3>2. ~(Specificity(r) > Specificity(b))
      BY <1>2 DEF Before
    <3>3. QED
      BY <1>2, <1>3, <3>1, <3>2
  <2>6. QED
    BY <1>2, <2>2, <2>3, <2>4, <2>5 DEF MayTie
<1>8. QED
  BY <1>5, <1>6, <1>7

-----------------------------------------------------------------------------
(* The score and the README.                                               *)

\* "the most specific match wins (more literal segments first, then more segments
\* overall)" (README.md:136-137 of solaz).
LiteralsFirst(idx, mp, topic) ==
    \A p \in Matching(mp, topic) :
        (\A q \in Matching(mp, topic) \ {p} :
            \/ Literals(q) < Literals(p)
            \/ Literals(q) = Literals(p) /\ Len(q) < Len(p))
        => Lookup(idx, mp, topic) = mp[p]

\* Of two patterns that match, the scan takes the one before the other, and none if
\* there is no such one.
LEMMA LookupOfTwo ==
    ASSUME NEW p, NEW q, IsPattern(p), IsPattern(q), p # q,
           NEW mp, DOMAIN mp = {p, q}, NEW idx \in Indexes(mp),
           NEW topic, Matches(topic, p), Matches(topic, q)
    PROVE  /\ Matching(mp, topic) = {p, q}
           /\ Before(p, q) => Lookup(idx, mp, topic) = mp[p]
           /\ SameRank(p, q) => Lookup(idx, mp, topic) = Tie
<1> DEFINE best == BestPatterns(mp, topic)
<1>1. IsMapping(mp)
  <2>1. IsFiniteSet({p, q})
    <3>1. IsFiniteSet({p}) /\ {p, q} = {p} \cup {q}
      BY FS_Singleton
    <3>2. QED
      BY <3>1, FS_AddElement
  <2>2. QED
    BY <2>1 DEF IsMapping
<1>2. Lookup(idx, mp, topic) = BestType(mp, topic)
  BY <1>1, LookupFindsBest
<1>3. Matching(mp, topic) = {p, q}
  BY DEF Matching
<1>4. /\ Specificity(p) \in Nat /\ Specificity(q) \in Nat /\ Len(p) \in Nat /\ Len(q) \in Nat
  BY PatternRank
<1>5. ~Before(p, p) /\ ~Before(q, q)
  BY <1>4 DEF Before
<1>6. ASSUME Before(p, q) PROVE Lookup(idx, mp, topic) = mp[p]
  <2>1. ~Before(q, p)
    BY <1>4, <1>6 DEF Before
  <2>2. best = {p}
    BY <1>3, <1>5, <1>6, <2>1 DEF BestPatterns
  <2>3. Cardinality(best) = 1
    BY <2>2, FS_Singleton
  <2>4. (CHOOSE r \in best : TRUE) = p
    BY <2>2
  <2>5. QED
    BY <1>2, <2>2, <2>3, <2>4 DEF BestType
<1>7. ASSUME SameRank(p, q) PROVE Lookup(idx, mp, topic) = Tie
  <2>1. ~Before(q, p) /\ ~Before(p, q)
    BY <1>4, <1>7 DEF Before, SameRank
  <2>2. best = {p, q}
    BY <1>3, <1>5, <2>1 DEF BestPatterns
  <2>3. IsFiniteSet(best) /\ Cardinality(best) \in Nat
    BY <1>1, <2>2, FS_CardinalityType DEF IsMapping
  <2>4. Cardinality(best) # 0 /\ Cardinality(best) # 1
    BY <2>2, <2>3, FS_EmptySet, FS_Singleton
  <2>5. QED
    BY <1>2, <2>2, <2>3, <2>4 DEF BestType
<1>8. QED
  BY <1>3, <1>6, <1>7

LEMMA SmallSets ==
    /\ Cardinality({}) = 0 /\ \A x : Cardinality({x}) = 1
    /\ Cardinality(1..2) = 2 /\ Cardinality(1..3) = 3
<1>1. Cardinality({}) = 0 /\ \A x : Cardinality({x}) = 1
  BY FS_EmptySet, FS_Singleton
<1>2. ASSUME NEW n \in Nat PROVE Cardinality(1..n) = n
  BY ONLY <1>2, FS_Interval
<1>3. QED
  BY <1>1, <1>2

LEMMA Triple ==
    ASSUME NEW x, NEW y, NEW z, NEW t, t = <<x, y, z>>
    PROVE  Len(t) = 3 /\ DOMAIN t = 1..3 /\ t[1] = x /\ t[2] = y /\ t[3] = z
OBVIOUS

LEMMA Pair ==
    ASSUME NEW x, NEW y, NEW t, t = <<x, y>>
    PROVE  Len(t) = 2 /\ DOMAIN t = 1..2 /\ t[1] = x /\ t[2] = y
OBVIOUS

\* The score of a pattern counts its prefixes too (topic_match.go:60-69): on a topic of
\* three levels the pattern of three prefixes is preferred to the one that begins with a
\* literal, which has more literal segments.
THEOREM PrefixesOutweighLiteral ==
    ASSUME NEW a, NEW b, NEW c, a # "", b # "", c # "",
           NEW l, NEW m, NEW n, HasPrefix(l, a), HasPrefix(m, b), HasPrefix(n, c),
           HasPrefix(m, ""), HasPrefix(n, ""),
           NEW topic, topic = <<l, m, n>>,
           NEW p, p = <<Prefix(a), Prefix(b), Prefix(c)>>,
           NEW q, q = <<Lit(l), AnyLevel, AnyLevel>>,
           NEW mp, DOMAIN mp = {p, q}, mp[p] # mp[q],
           NEW idx \in Indexes(mp)
    PROVE  Lookup(idx, mp, topic) = mp[p] /\ ~LiteralsFirst(idx, mp, topic)
<1>1. /\ DOMAIN p = 1..3 /\ Len(p) = 3 /\ DOMAIN q = 1..3 /\ Len(q) = 3 /\ Len(topic) = 3
      /\ p[1] = Prefix(a) /\ p[2] = Prefix(b) /\ p[3] = Prefix(c)
      /\ q[1] = Lit(l) /\ q[2] = AnyLevel /\ q[3] = AnyLevel
      /\ topic[1] = l /\ topic[2] = m /\ topic[3] = n
  BY ONLY Triple, topic = <<l, m, n>>, p = <<Prefix(a), Prefix(b), Prefix(c)>>,
          q = <<Lit(l), AnyLevel, AnyLevel>>
<1>2. /\ \A t : Prefix(t).kind = "prefix" /\ Prefix(t).text = t /\ Prefix(t) # Rest
      /\ Lit(l).kind = "literal" /\ Lit(l).text = l /\ Lit(l) # AnyLevel /\ Lit(l) # Rest
      /\ AnyLevel.kind = "prefix" /\ AnyLevel.text = "" /\ AnyLevel # Rest
  BY DEF Prefix, Lit, AnyLevel, Rest
<1>3. Prefix(a) # AnyLevel /\ Prefix(b) # AnyLevel /\ Prefix(c) # AnyLevel
  BY <1>2
<1>4. /\ Weight(Prefix(a)) = 1 /\ Weight(Prefix(b)) = 1 /\ Weight(Prefix(c)) = 1
      /\ Weight(Lit(l)) = 2 /\ Weight(AnyLevel) = 0
  BY <1>2, <1>3 DEF Weight
<1>5. p # q
  BY ONLY <1>1, <1>4
<1>6. IsPattern(p) /\ IsPattern(q)
  BY <1>1 DEF IsPattern
<1>7. Matches(topic, p) /\ Matches(topic, q)
  <2>1. Last(p) # Rest /\ Last(q) # Rest
    BY <1>1, <1>2 DEF Last
  <2>2. /\ Fits(Prefix(a), l) /\ Fits(Prefix(b), m) /\ Fits(Prefix(c), n)
        /\ Fits(Lit(l), l) /\ Fits(AnyLevel, m) /\ Fits(AnyLevel, n)
    BY <1>2 DEF Fits
  <2>3. \A k \in 1..3 : Fits(p[k], topic[k]) /\ Fits(q[k], topic[k])
    BY ONLY <1>1, <2>2
  <2>4. QED
    BY <1>1, <2>1, <2>3 DEF Matches
<1>8. Weighing(p, 1) = 1..3 /\ Weighing(p, 2) = {} /\ Weighing(q, 1) = {} /\ Weighing(q, 2) = {1}
  BY ONLY <1>1, <1>4 DEF Weighing
<1>9. /\ Cardinality(Weighing(p, 1)) = 3 /\ Cardinality(Weighing(p, 2)) = 0
      /\ Cardinality(Weighing(q, 1)) = 0 /\ Cardinality(Weighing(q, 2)) = 1
  BY ONLY <1>8, SmallSets
<1>10. Specificity(p) = 3 /\ Specificity(q) = 2 /\ Literals(p) = 0 /\ Literals(q) = 1
  BY ONLY <1>9 DEF Specificity, Literals
<1>11. Before(p, q)
  BY ONLY <1>10 DEF Before
<1>12. Matching(mp, topic) = {p, q} /\ (Before(p, q) => Lookup(idx, mp, topic) = mp[p])
  BY ONLY <1>5, <1>6, <1>7, LookupOfTwo, DOMAIN mp = {p, q}, idx \in Indexes(mp)
<1>13. ~LiteralsFirst(idx, mp, topic)
  BY ONLY <1>10, <1>11, <1>12, mp[p] # mp[q] DEF LiteralsFirst
<1>14. QED
  BY <1>11, <1>12, <1>13

\* By the same score two prefixes tie with a literal after a *, and the tie ends the run
\* (solace.go:202-205), although one of the two has more literal segments.
THEOREM PrefixesTieWithLiteral ==
    ASSUME NEW a, NEW b, a # "", b # "",
           NEW l, NEW m, HasPrefix(l, a), HasPrefix(m, b), HasPrefix(l, ""),
           NEW topic, topic = <<l, m>>,
           NEW p, p = <<Prefix(a), Prefix(b)>>,
           NEW q, q = <<AnyLevel, Lit(m)>>,
           NEW mp, DOMAIN mp = {p, q}, mp[q] # Tie,
           NEW idx \in Indexes(mp)
    PROVE  Lookup(idx, mp, topic) = Tie /\ ~LiteralsFirst(idx, mp, topic)
<1>1. /\ DOMAIN p = 1..2 /\ Len(p) = 2 /\ DOMAIN q = 1..2 /\ Len(q) = 2 /\ Len(topic) = 2
      /\ p[1] = Prefix(a) /\ p[2] = Prefix(b) /\ q[1] = AnyLevel /\ q[2] = Lit(m)
      /\ topic[1] = l /\ topic[2] = m
  BY ONLY Pair, topic = <<l, m>>, p = <<Prefix(a), Prefix(b)>>, q = <<AnyLevel, Lit(m)>>
<1>2. /\ \A t : Prefix(t).kind = "prefix" /\ Prefix(t).text = t /\ Prefix(t) # Rest
      /\ Lit(m).kind = "literal" /\ Lit(m).text = m /\ Lit(m) # AnyLevel /\ Lit(m) # Rest
      /\ AnyLevel.kind = "prefix" /\ AnyLevel.text = "" /\ AnyLevel # Rest
  BY DEF Prefix, Lit, AnyLevel, Rest
<1>3. Prefix(a) # AnyLevel /\ Prefix(b) # AnyLevel
  BY <1>2
<1>4. /\ Weight(Prefix(a)) = 1 /\ Weight(Prefix(b)) = 1
      /\ Weight(Lit(m)) = 2 /\ Weight(AnyLevel) = 0
  BY <1>2, <1>3 DEF Weight
<1>5. p # q
  BY ONLY <1>1, <1>4
<1>6. IsPattern(p) /\ IsPattern(q)
  BY <1>1 DEF IsPattern
<1>7. Matches(topic, p) /\ Matches(topic, q)
  <2>1. Last(p) # Rest /\ Last(q) # Rest
    BY <1>1, <1>2 DEF Last
  <2>2. /\ Fits(Prefix(a), l) /\ Fits(Prefix(b), m) /\ Fits(AnyLevel, l) /\ Fits(Lit(m), m)
    BY <1>2 DEF Fits
  <2>3. \A k \in 1..2 : Fits(p[k], topic[k]) /\ Fits(q[k], topic[k])
    BY ONLY <1>1, <2>2
  <2>4. QED
    BY <1>1, <2>1, <2>3 DEF Matches
<1>8. Weighing(p, 1) = 1..2 /\ Weighing(p, 2) = {} /\ Weighing(q, 1) = {} /\ Weighing(q, 2) = {2}
  BY ONLY <1>1, <1>4 DEF Weighing
<1>9. /\ Cardinality(Weighing(p, 1)) = 2 /\ Cardinality(Weighing(p, 2)) = 0
      /\ Cardinality(Weighing(q, 1)) = 0 /\ Cardinality(Weighing(q, 2)) = 1
  BY ONLY <1>8, SmallSets
<1>10. Specificity(p) = 2 /\ Specificity(q) = 2 /\ Literals(p) = 0 /\ Literals(q) = 1
  BY ONLY <1>9 DEF Specificity, Literals
<1>11. SameRank(p, q)
  BY ONLY <1>1, <1>10 DEF SameRank
<1>12. Lookup(idx, mp, topic) = Tie /\ Matching(mp, topic) = {p, q}
  BY ONLY <1>5, <1>6, <1>7, <1>11, LookupOfTwo, DOMAIN mp = {p, q}, idx \in Indexes(mp)
<1>13. ~LiteralsFirst(idx, mp, topic)
  BY ONLY <1>10, <1>12, mp[q] # Tie DEF LiteralsFirst
<1>14. QED
  BY <1>12, <1>13

-----------------------------------------------------------------------------
(* The profile and its index.                                              *)

\* A template expands to a pattern of as many segments.
LEMMA ExpandedPattern ==
    ASSUME NEW t, IsPattern(t)
    PROVE  IsPattern(Expand(t))
<1> DEFINE R == {Filled(t[k]) : k \in DOMAIN t}
<1>1. Expand(t) \in [1..Len(t) -> R] /\ Len(t) \in Nat
  BY DEF Expand, IsPattern
<1>2. Expand(t) \in Seq(R)
  BY <1>1
<1>3. QED
  BY <1>2 DEF IsPattern

LEMMA ExpansionsAreMappings ==
    ASSUME NEW types, IsMapping(types), NEW mp \in Expansions(types)
    PROVE  IsMapping(mp)
<1> DEFINE patterns == {Expand(t) : t \in DOMAIN types}
           f == [t \in DOMAIN types |-> Expand(t)]
<1>1. DOMAIN mp = patterns
  BY DEF Expansions
<1>2. f \in Surjection(DOMAIN types, patterns)
  <2>1. f \in [DOMAIN types -> patterns] /\ \A p \in patterns : \E t \in DOMAIN types : f[t] = p
    OBVIOUS
  <2> HIDE DEF f, patterns
  <2>2. QED
    BY <2>1 DEF Surjection
<1>3. \A p \in patterns : IsPattern(p)
  BY ExpandedPattern DEF IsMapping
<1> HIDE DEF f, patterns
<1>4. IsFiniteSet(patterns)
  BY <1>2, FS_Surjection DEF IsMapping
<1>5. QED
  BY <1>1, <1>3, <1>4 DEF IsMapping

\* The mapping of a profile and, while messages are received, its index.
IndexInv ==
    /\ opts \in Options
    /\ IsMapping(mapping)
    /\ pc \in {"loop", "receiving"} /\ opts.mode = "payload" => index \in Indexes(mapping)

LEMMA IndexStep == IndexInv /\ [Next]_vars => IndexInv'
<1> SUFFICES ASSUME IndexInv, [Next]_vars PROVE IndexInv'
  OBVIOUS
<1>1. CASE LoadProfile
  <2>1. opts' = opts /\ pc' \in {"ready", "failed"}
    BY <1>1 DEF LoadProfile, Fail, LoadRegistry
  <2>2. CASE mapping' = mapping
    BY <2>1, <2>2 DEF IndexInv
  <2>3. CASE mapping' # mapping
    <3>1. PICK k \in Selected : mapping' \in Expansions(opts.config[k].types)
      BY <1>1, <2>3 DEF LoadProfile
    <3>2. IsMapping(opts.config[k].types)
      BY <3>1, OptionsAssumption DEF Selected, IndexInv, IsMapping, IsPattern
    <3>3. IsMapping(mapping')
      BY <3>1, <3>2, ExpansionsAreMappings
    <3>4. QED
      BY <2>1, <3>3 DEF IndexInv
  <2>4. QED
    BY <2>2, <2>3
<1>2. CASE Start
  <2>1. opts' = opts /\ mapping' = mapping
        /\ (opts.mode = "payload" => index' \in Indexes(mapping))
    BY <1>2 DEF Start
  <2>2. QED
    BY <2>1 DEF IndexInv
<1>3. CASE UNCHANGED setup /\ (pc' \in {"loop", "receiving"} => pc \in {"loop", "receiving"})
  BY <1>3 DEF IndexInv, setup
<1>4. CASE BeginReceive \/ Receive \/ LeaveLoop \/ TimeoutAtDeadline \/ TimeoutFails
           \/ ReceiveFails \/ Tick \/ UNCHANGED vars
  BY <1>3, <1>4 DEF BeginReceive, Receive, LeaveLoop, TimeoutAtDeadline, TimeoutFails,
                    ReceiveFails, Tick, Finish, Fail, vars
<1>5. QED
  BY <1>1, <1>2, <1>4 DEF Next

LEMMA IndexInvariant == Spec => []IndexInv
<1>1. Init => IndexInv
  <2> SUFFICES ASSUME Init PROVE IndexInv
    OBVIOUS
  <2>1. mapping = <<>> /\ DOMAIN mapping = {} /\ pc = "start" /\ opts \in Options
    BY DEF Init
  <2>2. IsMapping(mapping)
    BY <2>1, FS_EmptySet DEF IsMapping
  <2>3. QED
    BY <2>1, <2>2 DEF IndexInv
<1>2. QED
  BY <1>1, IndexStep, PTL DEF Spec

\* In whatever order the map and sort.Slice leave the patterns (topic_match.go:57-85), the
\* scan that stops at the first change of rank finds the same for a topic: the type of a
\* pattern of which no other match is a case, or a tie of patterns of as many segments.
THEOREM LookupSpecific == Spec => []LookupIsMostSpecific
<1>1. IndexInv => LookupIsMostSpecific
  <2> SUFFICES ASSUME IndexInv, pc = "loop", opts.mode = "payload", NEW t \in Topics
               PROVE  /\ \/ Lookup(index, mapping, t) \in Found(mapping, t)
                         \/ Lookup(index, mapping, t) = Tie /\ MayTie(mapping, t)
                      /\ \A other \in Indexes(mapping) :
                             Lookup(other, mapping, t) = Lookup(index, mapping, t)
    BY DEF LookupIsMostSpecific
  <2>1. IsMapping(mapping) /\ index \in Indexes(mapping)
    BY DEF IndexInv
  <2>2. QED
    BY <2>1, LookupFindsBest, LookupAnswers
<1>2. QED
  BY <1>1, IndexInvariant, PTL

-----------------------------------------------------------------------------
(* The deadline.                                                           *)

Limit == IF opts.count > 0 THEN opts.count ELSE 0

\* A receive that begins waits its whole timeout or until the deadline, which time has
\* not passed: it returns before.  A negative timeout waits for ever.
TimeInv ==
    /\ opts \in Options /\ clock \in Nat \ {0} /\ deadline \in Nat
    /\ waitFrom \in Int /\ waitTill \in Int
    /\ i \in Nat /\ i <= Limit
    /\ pc = "receiving" =>
           /\ i < opts.count
           /\ \/ opts.timeout < 0 /\ waitTill = 0
              \/ /\ opts.timeout >= 0 /\ waitTill > 0
                 /\ deadline > 0 => clock <= deadline /\ waitTill <= deadline
                 /\ waitTill = waitFrom + opts.timeout \/ (deadline > 0 /\ waitTill = deadline)
    /\ pc # "failed" => failure = None
    /\ failure = "timeout" =>
           opts.timeout >= 0 /\ clock - waitFrom >= opts.timeout /\ ~TimeIsOver
    /\ pc = "done" => i = Limit \/ TimeIsOver

LEMMA OptionsType ==
    ASSUME opts \in Options
    PROVE  opts.count \in Int /\ opts.timeout \in Int /\ opts.maxRuntime \in Int
BY OptionsAssumption

\* Handling a message fails of other things than of a timeout, and tells how it ends.
LEMMA HandlingEnds ==
    ASSUME NEW msg \in Messages, WritePayload(msg) \/ WriteHeaders(msg) \/ CountMessage(msg)
    PROVE  (pc' = "loop" /\ failure' = failure) \/ (pc' = "failed" /\ failure' # "timeout")
<1>1. CASE WritePayload(msg)
  BY <1>1 DEF WritePayload, Refusals, Fail, None, Tie
<1>2. CASE WriteHeaders(msg) \/ CountMessage(msg)
  BY <1>2 DEF WriteHeaders, CountMessage
<1>3. QED
  BY <1>1, <1>2

LEMMA TimeStep == TimeInv /\ [Next]_vars => TimeInv'
<1> SUFFICES ASSUME TimeInv, [Next]_vars PROVE TimeInv'
  OBVIOUS
<1>0. /\ opts \in Options /\ opts.count \in Int /\ opts.timeout \in Int /\ opts.maxRuntime \in Int
      /\ clock \in Nat \ {0} /\ deadline \in Nat /\ waitFrom \in Int /\ waitTill \in Int /\ i \in Nat
      /\ opts' = opts
  <2>1. opts' = opts
    <3>1. CASE LoadProfile
      BY <3>1 DEF LoadProfile
    <3>2. CASE UNCHANGED setup
      BY <3>2 DEF setup
    <3>3. CASE Start
      BY <3>3 DEF Start
    <3>4. QED
      BY <3>1, <3>2, <3>3 DEF Next, BeginReceive, Receive, LeaveLoop, TimeoutAtDeadline,
         TimeoutFails, ReceiveFails, Tick, Finish, vars
  <2>2. i \in Nat
    BY OptionsType DEF TimeInv
  <2>3. QED
    BY <2>1, <2>2, OptionsType DEF TimeInv
<1>1. CASE LoadProfile
  BY <1>0, <1>1 DEF LoadProfile, LoadRegistry, Fail, TimeInv, Limit, TimeIsOver, None
<1>2. CASE Start
  BY <1>0, <1>2 DEF Start, Fail, TimeInv, Limit, TimeIsOver, None
<1>3. CASE BeginReceive
  <2>1. /\ pc = "loop" /\ pc' = "receiving" /\ i < opts.count /\ ~TimeIsOver
        /\ waitFrom' = clock /\ waitTill' = (IF Wait < 0 THEN 0 ELSE clock + Wait)
        /\ clock' = clock /\ deadline' = deadline /\ i' = i /\ failure' = failure
    BY <1>3 DEF BeginReceive, setup
  <2>2. /\ Wait \in Int
        /\ opts.timeout < 0 => Wait < 0
        /\ opts.timeout >= 0 =>
               /\ Wait >= 0
               /\ deadline > 0 => clock < deadline /\ clock + Wait <= deadline
               /\ Wait = opts.timeout \/ (deadline > 0 /\ clock + Wait = deadline)
    BY <1>0, <2>1 DEF TimeIsOver, Wait
  <2>3. QED
    BY <1>0, <2>1, <2>2 DEF TimeInv, Limit, None
<1>4. CASE Receive
  <2>1. /\ pc = "receiving" /\ i' = (IF pc' = "loop" THEN i + 1 ELSE i)
        /\ deadline' = deadline /\ clock' = clock /\ waitFrom' = waitFrom /\ waitTill' = waitTill
    BY <1>4 DEF Receive, setup
  <2>2. (pc' = "loop" /\ failure' = failure) \/ (pc' = "failed" /\ failure' # "timeout")
    BY <1>4, HandlingEnds DEF Receive
  <2>3. QED
    BY <1>0, <2>1, <2>2 DEF TimeInv, Limit, None
<1>5. CASE LeaveLoop
  BY <1>0, <1>5 DEF LeaveLoop, Finish, TimeInv, Limit, TimeIsOver, setup, None
<1>6. CASE TimeoutAtDeadline
  BY <1>0, <1>6 DEF TimeoutAtDeadline, Finish, TimedOut, TimeInv, Limit, TimeIsOver, setup, None
<1>7. CASE TimeoutFails
  BY <1>0, <1>7 DEF TimeoutFails, Fail, TimedOut, TimeInv, Limit, TimeIsOver, setup
<1>8. CASE ReceiveFails
  BY <1>0, <1>8 DEF ReceiveFails, Fail, TimeInv, Limit, TimeIsOver, setup
<1>9. CASE Tick
  BY <1>0, <1>9 DEF Tick, TimedOut, TimeInv, Limit, TimeIsOver, setup, None
<1>10. CASE UNCHANGED vars
  BY <1>0, <1>10 DEF TimeInv, Limit, TimeIsOver, vars, setup
<1>11. QED
  BY <1>1, <1>2, <1>3, <1>4, <1>5, <1>6, <1>7, <1>8, <1>9, <1>10 DEF Next

LEMMA TimeInvariant == Spec => []TimeInv
<1>1. Init => TimeInv
  BY OptionsType DEF Init, TimeInv, Limit, None
<1>2. QED
  BY <1>1, TimeStep, PTL DEF Spec

\* Unless --timeout is negative, no receive waits beyond the deadline; a loop that ends
\* early ends there, and a run that fails of a timeout had waited a whole --timeout before
\* it (solace.go:77-99).
THEOREM DeadlineKept == Spec => []DeadlineIsKept
<1>1. TimeInv => DeadlineIsKept
  BY OptionsType DEF TimeInv, Limit, DeadlineIsKept
<1>2. QED
  BY <1>1, TimeInvariant, PTL

-----------------------------------------------------------------------------
(* The result.                                                             *)

\* Of a sequence of messages: those of a topic, and the bytes of some of them.
Of(rs, t) == {k \in DOMAIN rs : rs[k].topic = t}
SizeOf(rs, keys) == SumOf([k \in keys |-> rs[k].size])

\* One more message.
Longer(ns, rs, msg) == rs \in Seq(Messages) /\ msg \in Messages /\ ns = Append(rs, msg)

LEMMA Appended ==
    ASSUME NEW rs, NEW msg, NEW ns, Longer(ns, rs, msg)
    PROVE  /\ ns \in Seq(Messages) /\ Len(rs) \in Nat /\ Len(ns) = Len(rs) + 1
           /\ IsFiniteSet(DOMAIN rs)
           /\ DOMAIN ns = DOMAIN rs \cup {Len(ns)} /\ Len(ns) \notin DOMAIN rs
           /\ ns[Len(ns)] = msg /\ msg.size \in Nat
           /\ \A k \in DOMAIN rs : ns[k] = rs[k] /\ rs[k].size \in Nat
<1>1. /\ ns \in Seq(Messages) /\ Len(rs) \in Nat /\ Len(ns) = Len(rs) + 1
      /\ DOMAIN rs = 1..Len(rs) /\ DOMAIN ns = 1..(Len(rs) + 1)
  BY DEF Longer
<1>2. DOMAIN ns = DOMAIN rs \cup {Len(ns)} /\ Len(ns) \notin DOMAIN rs
  BY <1>1
<1>3. IsFiniteSet(DOMAIN rs)
  BY <1>1, FS_Interval
<1>4. ns[Len(ns)] = msg /\ \A k \in DOMAIN rs : ns[k] = rs[k] /\ rs[k] \in Messages
  BY <1>1 DEF Longer
<1>5. msg.size \in Nat /\ \A k \in DOMAIN rs : rs[k].size \in Nat
  BY <1>4, ReceiverAssumption DEF Messages, Longer
<1>6. QED
  BY <1>1, <1>2, <1>3, <1>4, <1>5

Agree(ns, rs, keys) ==
    IsFiniteSet(keys) /\ \A k \in keys : ns[k] = rs[k] /\ rs[k].size \in Nat

LEMMA BytesAppended ==
    ASSUME NEW rs, NEW ns, NEW keys, Agree(ns, rs, keys), NEW n, n \notin keys, ns[n].size \in Nat
    PROVE  /\ SizeOf(ns, keys) = SizeOf(rs, keys) /\ SizeOf(rs, keys) \in Nat
           /\ SizeOf(ns, keys \cup {n}) = SizeOf(rs, keys) + ns[n].size
<1> DEFINE f == [k \in keys |-> rs[k].size]
           g == [k \in keys \cup {n} |-> ns[k].size]
<1>1. f = [k \in keys |-> ns[k].size]
  BY DEF Agree
<1>2. f \in [keys -> Nat]
  BY DEF Agree
<1>3. g \in [keys \cup {n} -> Nat] /\ \A k \in keys : g[k] = f[k]
  BY DEF Agree
<1>4. g[n] = ns[n].size
  OBVIOUS
<1>5. SumOf(f) = SizeOf(rs, keys) /\ SumOf(f) = SizeOf(ns, keys) /\ SumOf(g) = SizeOf(ns, keys \cup {n})
  BY <1>1 DEF SizeOf
<1> HIDE DEF f, g
<1>6. SumOf(f) \in Nat
  BY <1>2, SumIsNat DEF Agree
<1>7. ASSUME NEW G \in [keys \cup {n} -> Nat], NEW F \in [keys -> Nat], \A k \in keys : G[k] = F[k]
      PROVE  SumOf(G) = SumOf(F) + G[n]
  BY ONLY <1>7, Agree(ns, rs, keys), n \notin keys, SumAdd DEF Agree
<1>8. SumOf(g) = SumOf(f) + g[n]
  BY <1>2, <1>3, <1>7
<1>9. QED
  BY <1>4, <1>5, <1>6, <1>8

\* The statistics tp of messages rs.
RowOf(rs, t) == [count |-> Cardinality(Of(rs, t)), size |-> SizeOf(rs, Of(rs, t))]
RowsOf(tp, rs) ==
    /\ IsFiniteSet(DOMAIN tp) /\ DOMAIN tp = {rs[k].topic : k \in DOMAIN rs}
    /\ \A t \in DOMAIN tp : tp[t] = RowOf(rs, t)
    /\ SumOf([t \in DOMAIN tp |-> tp[t].count]) = Len(rs)
    /\ SumOf([t \in DOMAIN tp |-> tp[t].size]) = SizeOf(rs, DOMAIN rs)

\* A total grows by what is added to the row of a topic, a new one or not.
LEMMA TotalGrows ==
    ASSUME NEW T, IsFiniteSet(T), NEW f \in [T -> Nat], NEW x, NEW n \in Nat,
           NEW g \in [T \cup {x} -> Nat],
           \A t \in T : t # x => g[t] = f[t],
           x \in T => g[x] = f[x] + n,
           x \notin T => g[x] = n
    PROVE  SumOf(g) = SumOf(f) + n
<1>1. SumOf(f) \in Nat
  BY SumIsNat
<1>2. CASE x \notin T
  <2>1. (\A t \in T : g[t] = f[t]) /\ g[x] = n
    BY <1>2
  <2>2. SumOf(g) = SumOf(f) + g[x]
    BY <1>2, <2>1, SumAdd
  <2>3. QED
    BY <2>1, <2>2
<1>3. CASE x \in T
  <2>1. g \in [T -> Nat]
    <3>1. T \cup {x} = T
      BY <1>3
    <3>2. QED
      BY <3>1
  <2>2. g[x] = f[x] + n /\ f[x] \in Nat
    BY <1>3
  <2>3. SumOf(g) = SumOf(f) - f[x] + g[x]
    BY <1>3, <2>1, SumChange
  <2>4. QED
    BY <1>1, <2>2, <2>3
<1>4. QED
  BY <1>2, <1>3

\* The statistics np after one more message.
Counted(np, tp, msg) ==
    LET old == IF msg.topic \in DOMAIN tp THEN tp[msg.topic] ELSE [count |-> 0, size |-> 0] IN
    np = [t \in DOMAIN tp \cup {msg.topic} |->
             IF t = msg.topic
             THEN [count |-> old.count + 1, size |-> old.size + msg.size]
             ELSE tp[t]]

LEMMA RowGrows ==
    ASSUME NEW rs, NEW msg, NEW ns, Longer(ns, rs, msg), NEW t
    PROVE  /\ RowOf(rs, t).count \in Nat /\ RowOf(rs, t).size \in Nat
           /\ t # msg.topic => RowOf(ns, t) = RowOf(rs, t)
           /\ t = msg.topic => RowOf(ns, t) = [count |-> RowOf(rs, t).count + 1,
                                               size |-> RowOf(rs, t).size + msg.size]
<1>0. /\ ns \in Seq(Messages) /\ Len(rs) \in Nat /\ Len(ns) = Len(rs) + 1
      /\ IsFiniteSet(DOMAIN rs)
      /\ DOMAIN ns = DOMAIN rs \cup {Len(ns)} /\ Len(ns) \notin DOMAIN rs
      /\ ns[Len(ns)] = msg /\ msg.size \in Nat
      /\ \A k \in DOMAIN rs : ns[k] = rs[k] /\ rs[k].size \in Nat
  BY ONLY Longer(ns, rs, msg), Appended, Zenon
<1> DEFINE n == Len(ns)
           keys == Of(rs, t)
<1>1. /\ DOMAIN ns = DOMAIN rs \cup {n} /\ n \notin DOMAIN rs /\ IsFiniteSet(DOMAIN rs)
      /\ ns[n] = msg /\ msg.size \in Nat
      /\ \A k \in DOMAIN rs : ns[k] = rs[k] /\ rs[k].size \in Nat
  BY <1>0
<1> HIDE DEF n
<1>2. keys \subseteq DOMAIN rs
  BY DEF Of
<1>3. /\ t # msg.topic => Of(ns, t) = keys
      /\ t = msg.topic => Of(ns, t) = keys \cup {n}
  BY <1>1 DEF Of
<1> HIDE DEF keys
<1>4. IsFiniteSet(keys) /\ n \notin keys
  BY <1>1, <1>2, FS_Subset
<1>5. Agree(ns, rs, keys) /\ ns[n].size \in Nat
  BY <1>1, <1>2, <1>4 DEF Agree
<1>6. /\ SizeOf(ns, keys) = SizeOf(rs, keys) /\ SizeOf(rs, keys) \in Nat
      /\ SizeOf(ns, keys \cup {n}) = SizeOf(rs, keys) + ns[n].size
  BY <1>4, <1>5, BytesAppended
<1>7. Cardinality(keys) \in Nat /\ Cardinality(keys \cup {n}) = Cardinality(keys) + 1
  BY <1>4, FS_CardinalityType, FS_AddElement
<1>8. RowOf(rs, t) = [count |-> Cardinality(keys), size |-> SizeOf(rs, keys)]
  BY DEF RowOf, keys
<1>9. RowOf(ns, t) = [count |-> Cardinality(Of(ns, t)), size |-> SizeOf(ns, Of(ns, t))]
  BY DEF RowOf
<1>10. RowOf(rs, t).count = Cardinality(keys) /\ RowOf(rs, t).size = SizeOf(rs, keys)
  BY <1>8
<1>11. CASE t # msg.topic
  BY <1>3, <1>6, <1>7, <1>8, <1>9, <1>10, <1>11
<1>12. CASE t = msg.topic
  BY <1>1, <1>3, <1>6, <1>7, <1>8, <1>9, <1>10, <1>12
<1>13. QED
  BY <1>11, <1>12

LEMMA RowsStep ==
    ASSUME NEW rs, NEW msg, NEW ns, Longer(ns, rs, msg),
           NEW tp, RowsOf(tp, rs), NEW np, Counted(np, tp, msg)
    PROVE  RowsOf(np, ns)
<1> DEFINE T == DOMAIN tp
           x == msg.topic
<1>1. /\ ns \in Seq(Messages) /\ Len(rs) \in Nat /\ Len(ns) = Len(rs) + 1
      /\ IsFiniteSet(DOMAIN rs)
      /\ DOMAIN ns = DOMAIN rs \cup {Len(ns)} /\ Len(ns) \notin DOMAIN rs
      /\ ns[Len(ns)] = msg /\ msg.size \in Nat
      /\ \A k \in DOMAIN rs : ns[k] = rs[k] /\ rs[k].size \in Nat
  BY ONLY Longer(ns, rs, msg), Appended
<1>2. IsFiniteSet(T) /\ T = {rs[k].topic : k \in DOMAIN rs}
      /\ \A t \in T : tp[t] = RowOf(rs, t)
  BY DEF RowsOf
<1>3. DOMAIN np = T \cup {x}
  BY DEF Counted
<1>4. IsFiniteSet(DOMAIN np)
  BY <1>2, <1>3, FS_AddElement
<1>5. DOMAIN np = {ns[k].topic : k \in DOMAIN ns}
  BY <1>1, <1>2, <1>3
<1>6. x \notin T => RowOf(rs, x) = [count |-> 0, size |-> 0]
  <2> SUFFICES ASSUME x \notin T PROVE RowOf(rs, x) = [count |-> 0, size |-> 0]
    OBVIOUS
  <2>1. Of(rs, x) = {}
    BY <1>2 DEF Of
  <2>2. Cardinality(Of(rs, x)) = 0
    BY <2>1, FS_EmptySet
  <2>3. SizeOf(rs, Of(rs, x)) = 0
    BY <2>1, SumOfNothing DEF SizeOf
  <2>4. QED
    BY <2>2, <2>3 DEF RowOf
<1>7. np[x] = [count |-> RowOf(rs, x).count + 1, size |-> RowOf(rs, x).size + msg.size]
  BY <1>2, <1>6 DEF Counted
<1>8. \A t \in T : t # x => np[t] = tp[t]
  BY DEF Counted
<1>9. \A t \in DOMAIN np : np[t] = RowOf(ns, t)
  <2> TAKE t \in DOMAIN np
  <2>1. CASE t = x
    BY <1>7, <2>1, RowGrows
  <2>2. CASE t # x
    BY <1>2, <1>3, <1>8, <2>2, RowGrows
  <2>3. QED
    BY <2>1, <2>2
<1>10. \A t : RowOf(rs, t).count \in Nat /\ RowOf(rs, t).size \in Nat
  BY RowGrows
<1>11. SumOf([t \in DOMAIN np |-> np[t].count]) = Len(ns)
  <2> DEFINE f == [t \in T |-> tp[t].count]
             g == [t \in DOMAIN np |-> np[t].count]
  <2>1. f \in [T -> Nat]
    BY <1>2, <1>10
  <2>2. np[x].count = RowOf(rs, x).count + 1
    BY <1>7
  <2>3. g \in [T \cup {x} -> Nat]
    BY <1>2, <1>3, <1>8, <1>10, <2>2
  <2>4. /\ \A t \in T : t # x => g[t] = f[t]
        /\ x \in T => g[x] = f[x] + 1
        /\ x \notin T => g[x] = 1
    BY <1>2, <1>3, <1>6, <1>8, <2>2
  <2>5. SumOf(f) = Len(rs)
    BY DEF RowsOf
  <2> HIDE DEF f, g, T, x
  <2>6. SumOf(g) = SumOf(f) + 1
    BY <1>2, <2>1, <2>3, <2>4, TotalGrows
  <2>7. QED
    BY <1>1, <2>5, <2>6 DEF g
<1>12. SumOf([t \in DOMAIN np |-> np[t].size]) = SizeOf(ns, DOMAIN ns)
  <2> DEFINE f == [t \in T |-> tp[t].size]
             g == [t \in DOMAIN np |-> np[t].size]
  <2>1. f \in [T -> Nat]
    BY <1>2, <1>10
  <2>2. np[x].size = RowOf(rs, x).size + msg.size
    BY <1>7
  <2>3. g \in [T \cup {x} -> Nat]
    BY <1>1, <1>2, <1>3, <1>8, <1>10, <2>2
  <2>4. /\ \A t \in T : t # x => g[t] = f[t]
        /\ x \in T => g[x] = f[x] + msg.size
        /\ x \notin T => g[x] = msg.size
    BY <1>1, <1>2, <1>3, <1>6, <1>8, <2>2
  <2>5. SumOf(f) = SizeOf(rs, DOMAIN rs)
    BY DEF RowsOf
  <2>6. SizeOf(ns, DOMAIN ns) = SizeOf(rs, DOMAIN rs) + msg.size
    <3> DEFINE n == Len(ns)
    <3>1. /\ n \notin DOMAIN rs /\ ns[n].size \in Nat /\ ns[n] = msg
          /\ DOMAIN ns = DOMAIN rs \cup {n} /\ Agree(ns, rs, DOMAIN rs)
      BY <1>1 DEF Agree
    <3> HIDE DEF n
    <3>2. SizeOf(ns, DOMAIN rs \cup {n}) = SizeOf(rs, DOMAIN rs) + ns[n].size
      BY <3>1, BytesAppended
    <3>3. QED
      BY <3>1, <3>2
  <2> HIDE DEF f, g, T, x
  <2>7. SumOf(g) = SumOf(f) + msg.size
    <3>1. msg.size \in Nat /\ IsFiniteSet(T)
      BY <1>1, <1>2
    <3>2. QED
      BY <3>1, <2>1, <2>3, <2>4, TotalGrows
  <2>8. QED
    BY <2>5, <2>6, <2>7 DEF g
<1>13. QED
  BY <1>4, <1>5, <1>9, <1>11, <1>12 DEF RowsOf

\* The loop has handled all messages received, but perhaps the one it failed on.
ResultInv ==
    /\ received \in Seq(Messages) /\ i \in Nat
    /\ pc # "failed" => i = Len(received)
    /\ pc = "start" => received = <<>>
    /\ printed \in Seq(Types \cup {"headers"})
    /\ opts.mode # "stats" => Len(printed) = i
    /\ opts.mode = "payload" =>
           \A k \in DOMAIN printed : k \in DOMAIN received /\ Shown(printed[k], received[k])
    /\ opts.mode = "stats" =>
           /\ RowsOf(topics, received)
           /\ pc = "done" /\ i > 0 =>
                  report = <<[rows |-> topics, count |-> i, size |-> SizeOf(received, DOMAIN received)]>>

LEMMA ResultInit == Init => ResultInv
<1> SUFFICES ASSUME Init PROVE ResultInv
  OBVIOUS
<1>1. /\ received = <<>> /\ i = 0 /\ pc = "start" /\ printed = <<>> /\ topics = <<>>
  BY DEF Init
<1>2. DOMAIN topics = {} /\ DOMAIN received = {} /\ Len(received) = 0 /\ Len(printed) = 0
  BY <1>1
<1>3. RowsOf(topics, received)
  <2>1. SumOf([t \in DOMAIN topics |-> topics[t].count]) = 0
    BY <1>2, SumOfNothing
  <2>2. SumOf([t \in DOMAIN topics |-> topics[t].size]) = 0
    BY <1>2, SumOfNothing
  <2>3. SizeOf(received, DOMAIN received) = 0
    BY <1>2, SumOfNothing DEF SizeOf
  <2>4. QED
    BY <1>2, <2>1, <2>2, <2>3, FS_EmptySet DEF RowsOf
<1>4. QED
  BY <1>1, <1>2, <1>3 DEF ResultInv

LEMMA PayloadStep ==
    ASSUME ResultInv, IndexInv, NEW msg \in Messages, pc = "receiving", WritePayload(msg),
           received' = Append(received, msg), i' = (IF pc' = "loop" THEN i + 1 ELSE i),
           UNCHANGED <<setup, report>>
    PROVE  ResultInv'
<1>1. /\ received' \in Seq(Messages) /\ Len(received') = Len(received) + 1
      /\ DOMAIN received' = DOMAIN received \cup {Len(received')}
      /\ received'[Len(received')] = msg
      /\ \A k \in DOMAIN received : received'[k] = received[k]
  BY Appended DEF ResultInv, Longer
<1>2. opts' = opts /\ mapping' = mapping /\ opts.mode = "payload"
  BY DEF setup, WritePayload
<1>3. /\ received \in Seq(Messages) /\ i \in Nat /\ i = Len(received) /\ Len(printed) = i
      /\ printed \in Seq(Types \cup {"headers"})
      /\ \A k \in DOMAIN printed : k \in DOMAIN received /\ Shown(printed[k], received[k])
  BY <1>2 DEF ResultInv
<1>4. PICK why \in Refusals(msg) :
          IF why = None
          THEN /\ printed' = Append(printed, NameOf(TypeOf(msg)))
               /\ pc' = "loop" /\ UNCHANGED failure
          ELSE Fail(why) /\ UNCHANGED printed
  BY DEF WritePayload
<1>5. CASE why # None
  <2>1. pc' = "failed" /\ printed' = printed /\ i' = i
    BY <1>4, <1>5 DEF Fail
  <2>2. \A k \in DOMAIN printed' : k \in DOMAIN received' /\ Shown(printed[k], received[k])'
    BY <1>1, <1>2, <1>3, <2>1 DEF Shown
  <2>3. QED
    BY <1>1, <1>2, <1>3, <2>1, <2>2 DEF ResultInv
<1>6. CASE why = None
  <2>1. pc' = "loop" /\ printed' = Append(printed, NameOf(TypeOf(msg))) /\ i' = i + 1
    BY <1>4, <1>6
  <2>2. TypeByTopic(msg) # Tie /\ TypeOf(msg) # NoType /\ NameOf(TypeOf(msg)) \in Types
    BY <1>4, <1>6 DEF Refusals, None, Tie
  <2>3. \/ Lookup(index, mapping, msg.topic) \in Found(mapping, msg.topic)
        \/ Lookup(index, mapping, msg.topic) = Tie
    <3>1. IsMapping(mapping) /\ index \in Indexes(mapping)
      BY <1>2 DEF IndexInv
    <3>2. QED
      BY <3>1, LookupAnswers
  <2>4. Shown(NameOf(TypeOf(msg)), msg)
    BY <2>2, <2>3 DEF TypeOf, TypeByTopic, Shown
  <2>5. /\ printed' \in Seq(Types \cup {"headers"}) /\ Len(printed') = Len(printed) + 1
        /\ DOMAIN printed' = DOMAIN printed \cup {Len(printed')}
        /\ printed'[Len(printed')] = NameOf(TypeOf(msg))
        /\ \A k \in DOMAIN printed : printed'[k] = printed[k]
    BY <1>3, <2>1, <2>2
  <2>6. Len(printed') = Len(received')
    BY <1>1, <1>3, <2>5
  <2>7. \A k \in DOMAIN printed' : k \in DOMAIN received' /\ Shown(printed[k], received[k])'
    <3> TAKE k \in DOMAIN printed'
    <3>1. CASE k = Len(printed')
      BY <1>1, <1>2, <2>4, <2>5, <2>6, <3>1 DEF Shown
    <3>2. CASE k # Len(printed')
      BY <1>1, <1>2, <1>3, <2>5, <3>2 DEF Shown
    <3>3. QED
      BY <3>1, <3>2
  <2>8. QED
    BY <1>1, <1>2, <1>3, <2>1, <2>5, <2>7 DEF ResultInv
<1>7. QED
  BY <1>5, <1>6

LEMMA HeadersStep ==
    ASSUME ResultInv, NEW msg \in Messages, pc = "receiving", WriteHeaders(msg),
           received' = Append(received, msg), i' = (IF pc' = "loop" THEN i + 1 ELSE i),
           UNCHANGED <<setup, report>>
    PROVE  ResultInv'
<1>1. received' \in Seq(Messages) /\ Len(received') = Len(received) + 1
  BY Appended DEF ResultInv, Longer
<1>2. /\ opts' = opts /\ opts.mode = "headers" /\ pc' = "loop" /\ i' = i + 1
      /\ printed' = Append(printed, "headers")
  BY DEF setup, WriteHeaders
<1>3. /\ i \in Nat /\ i = Len(received) /\ Len(printed) = i
      /\ printed \in Seq(Types \cup {"headers"})
  BY <1>2 DEF ResultInv
<1>4. printed' \in Seq(Types \cup {"headers"}) /\ Len(printed') = Len(printed) + 1
  BY <1>2, <1>3
<1>5. QED
  BY <1>1, <1>2, <1>3, <1>4 DEF ResultInv

LEMMA CountStep ==
    ASSUME ResultInv, NEW msg \in Messages, pc = "receiving", CountMessage(msg),
           received' = Append(received, msg), i' = (IF pc' = "loop" THEN i + 1 ELSE i),
           UNCHANGED <<setup, report>>
    PROVE  ResultInv'
<1>1. received' \in Seq(Messages) /\ Len(received') = Len(received) + 1
  BY Appended DEF ResultInv, Longer
<1>2. /\ opts' = opts /\ opts.mode = "stats" /\ pc' = "loop" /\ i' = i + 1 /\ printed' = printed
  BY DEF setup, CountMessage
<1>3. /\ i \in Nat /\ i = Len(received) /\ received \in Seq(Messages)
      /\ printed \in Seq(Types \cup {"headers"}) /\ RowsOf(topics, received)
  BY <1>2 DEF ResultInv
<1>4. Counted(topics', topics, msg)
  BY DEF CountMessage, Counted
<1>5. RowsOf(topics', received')
  <2>1. Longer(received', received, msg)
    BY <1>3 DEF Longer
  <2>2. QED
    BY <1>3, <1>4, <2>1, RowsStep
<1>6. QED
  BY <1>1, <1>2, <1>3, <1>5 DEF ResultInv

\* At the end the totals are those of all messages.
LEMMA FinishStep ==
    ASSUME ResultInv, pc \in {"loop", "receiving"}, Finish
    PROVE  ResultInv'
<1>1. /\ pc' = "done" /\ opts' = opts /\ mapping' = mapping /\ i' = i /\ topics' = topics
      /\ printed' = printed /\ received' = received
      /\ report' = IF topics = <<>> THEN <<>>
                   ELSE <<[rows |-> topics, count |-> Total("count"), size |-> Total("size")]>>
  BY DEF Finish, setup
<1>2. ASSUME opts.mode = "stats", i > 0
      PROVE  report' = <<[rows |-> topics, count |-> i, size |-> SizeOf(received, DOMAIN received)]>>
  <2>1. RowsOf(topics, received) /\ i = Len(received) /\ received \in Seq(Messages)
    BY <1>2 DEF ResultInv
  <2>2. 1 \in DOMAIN received
    BY <1>2, <2>1
  <2>3. DOMAIN topics # {}
    BY <2>1, <2>2 DEF RowsOf
  <2>4. topics # <<>>
    BY <2>3
  <2>5. Total("count") = i /\ Total("size") = SizeOf(received, DOMAIN received)
    BY <2>1 DEF RowsOf, Total
  <2>6. QED
    BY <1>1, <2>4, <2>5
<1>3. \A k : Shown(printed[k], received[k])' = Shown(printed[k], received[k])
  BY <1>1 DEF Shown
<1>4. QED
  BY <1>1, <1>2, <1>3 DEF ResultInv

LEMMA ResultStep == ResultInv /\ IndexInv /\ [Next]_vars => ResultInv'
<1> SUFFICES ASSUME ResultInv, IndexInv, [Next]_vars PROVE ResultInv'
  OBVIOUS
<1>1. CASE LoadProfile
  <2>1. /\ pc = "start" /\ opts' = opts /\ i' = i /\ topics' = topics /\ printed' = printed
        /\ received' = received
    BY <1>1 DEF LoadProfile, results
  <2>2. pc' \in {"ready", "failed"}
    BY <1>1 DEF LoadProfile, Fail, LoadRegistry
  <2>3. received = <<>> /\ i = 0
    BY <2>1 DEF ResultInv
  <2>4. opts.mode = "payload" => DOMAIN printed = {}
    BY <2>3 DEF ResultInv
  <2>5. QED
    BY <2>1, <2>2, <2>3, <2>4 DEF ResultInv
<1>2. ASSUME opts' = opts, mapping' = mapping, i' = i, topics' = topics, printed' = printed,
             received' = received, report' = report,
             pc = "failed" => pc' = "failed", pc' # "start" \/ pc = "start",
             pc' # "done" \/ pc = "done"
      PROVE  ResultInv'
  <2>1. \A k : Shown(printed[k], received[k])' = Shown(printed[k], received[k])
    BY <1>2 DEF Shown
  <2>2. QED
    BY <1>2, <2>1 DEF ResultInv
<1>3. CASE Start \/ BeginReceive \/ TimeoutFails \/ ReceiveFails \/ Tick \/ UNCHANGED vars
  BY <1>2, <1>3 DEF Start, BeginReceive, TimeoutFails, ReceiveFails, Tick, Fail, vars, setup, results
<1>4. CASE Receive
  <2>1. PICK msg \in Messages : /\ WritePayload(msg) \/ WriteHeaders(msg) \/ CountMessage(msg)
                                /\ received' = Append(received, msg)
    BY <1>4 DEF Receive
  <2>2. /\ pc = "receiving" /\ i' = (IF pc' = "loop" THEN i + 1 ELSE i)
        /\ UNCHANGED <<setup, report>>
    BY <1>4 DEF Receive
  <2>3. QED
    BY <2>1, <2>2, PayloadStep, HeadersStep, CountStep
<1>5. CASE LeaveLoop \/ TimeoutAtDeadline
  BY <1>5, FinishStep DEF LeaveLoop, TimeoutAtDeadline
<1>6. QED
  BY <1>1, <1>3, <1>4, <1>5 DEF Next

\* Every message received is in the result, unless it is the one that ended the run
\* (solace.go:96-101), with its type, or counted with its size in its row and the totals.
THEOREM NothingLost == Spec => []NothingIsLost
<1>1. Spec => []ResultInv
  BY ResultInit, ResultStep, IndexInvariant, PTL DEF Spec
<1>2. ResultInv => NothingIsLost
  <2> SUFFICES ASSUME ResultInv PROVE NothingIsLost
    OBVIOUS
  <2>1. /\ \A t : MessagesOf(t) = Of(received, t)
        /\ \A keys : Bytes(keys) = SizeOf(received, keys)
    BY DEF MessagesOf, Of, Bytes, SizeOf
  <2>2. ASSUME opts.mode = "stats"
        PROVE  /\ DOMAIN topics = {received[k].topic : k \in DOMAIN received}
               /\ \A t \in DOMAIN topics :
                      topics[t] = [count |-> Cardinality(MessagesOf(t)), size |-> Bytes(MessagesOf(t))]
               /\ pc = "done" /\ i > 0 =>
                      report = <<[rows |-> topics, count |-> i, size |-> Bytes(DOMAIN received)]>>
    <3>1. RowsOf(topics, received)
      BY <2>2 DEF ResultInv
    <3>2. \A t \in DOMAIN topics :
              topics[t] = [count |-> Cardinality(MessagesOf(t)), size |-> Bytes(MessagesOf(t))]
      BY <2>1, <3>1 DEF RowsOf, RowOf
    <3>3. DOMAIN topics = {received[k].topic : k \in DOMAIN received}
      BY <3>1 DEF RowsOf
    <3>4. pc = "done" /\ i > 0 =>
              report = <<[rows |-> topics, count |-> i, size |-> Bytes(DOMAIN received)]>>
      BY <2>1, <2>2 DEF ResultInv
    <3>5. QED
      BY <3>2, <3>3, <3>4
  <2>3. opts.mode # "stats" => Len(printed) = i
    BY DEF ResultInv
  <2>4. ASSUME opts.mode = "payload", NEW k \in DOMAIN printed
        PROVE  Shown(printed[k], received[k])
    BY <2>4 DEF ResultInv
  <2>5. QED
    BY <2>2, <2>3, <2>4 DEF NothingIsLost
<1>3. QED
  BY <1>1, <1>2, PTL

=============================================================================
