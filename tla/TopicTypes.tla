----------------------------- MODULE TopicTypes -----------------------------
(***************************************************************************)
(* Which message type belongs to a topic (solaz): patterns, how specific   *)
(* they are, the sorted index of a profile's patterns, and the scan that   *)
(* looks a topic up in it.                                                 *)
(*                                                                         *)
(* A topic is a sequence of levels.  A segment of a pattern is a literal   *)
(* level, a prefix followed by *, or >; a * alone is the empty prefix.  A  *)
(* mapping is a function from patterns to types.                           *)
(***************************************************************************)
EXTENDS Integers, Sequences, FiniteSets, SequencesExt

CONSTANT HasPrefix(_, _)  \* HasPrefix(level, prefix)

NoType == ""
Tie    == "tie"

Lit(level)     == [kind |-> "literal", text |-> level]
Prefix(prefix) == [kind |-> "prefix", text |-> prefix]
AnyLevel == Prefix("")
Rest     == [kind |-> "rest", text |-> ""]

\* Segment s fits one level of a topic; > fits only where it is handled below.
Fits(s, level) ==
    \/ s.kind = "literal" /\ s.text = level
    \/ s.kind = "prefix" /\ HasPrefix(level, s.text)

\* A > stands for one or more levels, and only at the end of the pattern.
Matches(topic, pattern) ==
    LET n == Len(pattern) IN
    IF Last(pattern) = Rest
    THEN Len(topic) >= n /\ \A i \in 1..(n - 1) : Fits(pattern[i], topic[i])
    ELSE Len(topic) = n /\ \A i \in 1..n : Fits(pattern[i], topic[i])

\* The score of a segment and of a pattern.
Weight(s) == IF s = AnyLevel \/ s = Rest THEN 0 ELSE IF s.kind = "prefix" THEN 1 ELSE 2
Weighing(pattern, w) == {i \in DOMAIN pattern : Weight(pattern[i]) = w}
Specificity(pattern) ==
    Cardinality(Weighing(pattern, 1)) + 2 * Cardinality(Weighing(pattern, 2))

\* mutant: the number of segments is no tiebreaker
BeforeByScore(p, q) == Specificity(p) > Specificity(q)
\* The order of the index: by score, then by the number of segments.
Before(p, q) ==
    \/ Specificity(p) > Specificity(q)
    \/ Specificity(p) = Specificity(q) /\ Len(p) > Len(q)

\* What newTopicTypeIndex may build: sort.Slice is not stable, and it is given the
\* patterns in the order of a map.
Indexes(mapping) ==
    {index \in SetToSeqs(DOMAIN mapping) :
        \A i, j \in DOMAIN index : i < j => ~Before(index[j], index[i])}

SameRank(p, q) == Specificity(p) = Specificity(q) /\ Len(p) = Len(q)

\* The scan: the first pattern that matches, unless another one does before the
\* rank changes.
Lookup(index, mapping, topic) ==
    LET matching == {i \in DOMAIN index : Matches(topic, index[i])}
        first    == CHOOSE i \in matching : \A j \in matching : i =< j
        seen     == {j \in matching : \A k \in first..j : SameRank(index[first], index[k])}
    IN  IF matching = {} THEN NoType
        ELSE IF seen # {first} THEN Tie ELSE mapping[index[first]]

-----------------------------------------------------------------------------
(* What a lookup may find, by what the patterns match: without their scores *)
(* and without the order of the index.                                     *)

Matching(mapping, topic) == {p \in DOMAIN mapping : Matches(topic, p)}

\* Where segment s fits, r does.
Within(s, r) ==
    \/ s = r
    \/ s # Rest /\ r = AnyLevel
    \/ s \notin {AnyLevel, Rest} /\ r.kind = "prefix" /\ HasPrefix(s.text, r.text)

\* Pattern p is a case of q: level by level, up to a > that ends q.
Refines(p, q) ==
    LET n == Len(q) IN
    IF Last(q) = Rest
    THEN Len(p) >= n /\ \A k \in 1..(n - 1) : Within(p[k], q[k])
    ELSE Len(p) = n /\ \A k \in 1..n : Within(p[k], q[k])

\* How many segments have no wildcard.
Literals(pattern) == Cardinality(Weighing(pattern, 2))

\* The types of the patterns that match and of which no other one that matches is a
\* case.
Found(mapping, topic) ==
    LET matching == Matching(mapping, topic) IN
    IF matching = {} THEN {NoType}
    ELSE {mapping[p] : p \in {r \in matching : \A q \in matching \ {r} : ~Refines(q, r)}}

\* A tie is one of two patterns of as many segments; what matches and is a case of
\* either has no more literals.
MayTie(mapping, topic) ==
    LET matching == Matching(mapping, topic) IN
    \E p, q \in matching :
        /\ p # q /\ Len(p) = Len(q)
        /\ \A r \in matching :
               (Refines(r, p) => Literals(r) =< Literals(p)) /\ (Refines(r, q) => Literals(r) =< Literals(q))

=============================================================================
