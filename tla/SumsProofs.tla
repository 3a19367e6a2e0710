----------------------------- MODULE SumsProofs -----------------------------
(***************************************************************************)
(* Facts about natural numbers: the least of a set of them, and what a sum *)
(* does when its function is changed at one argument, gets one more or     *)
(* grows everywhere.                                                       *)
(***************************************************************************)
EXTENDS Sums, FiniteSetTheorems, WellFoundedInduction, TLAPS

\* Sets of numbers have a least element.
LEMMA LeastNumber ==
    ASSUME NEW T \in SUBSET Nat, T # {}
    PROVE  \E n \in T : \A k \in T : n <= k
<1>1. PICK n \in T : \A k \in T : ~(<<k, n>> \in OpToRel(<, Nat))
  BY NatLessThanWellFounded, WFMin
<1>2. \A k \in Nat : k < n => <<k, n>> \in OpToRel(<, Nat)
  BY DEF OpToRel
<1>3. \A k \in T : k \in Nat /\ ~(k < n)
  BY <1>1, <1>2, Zenon
<1>4. QED
  BY <1>3

LEMMA PairsOfOne ==
    ASSUME NEW x, NEW n \in Nat
    PROVE  IsFiniteSet({x} \X (1..n)) /\ Cardinality({x} \X (1..n)) = n
<1>1. IsFiniteSet({x}) /\ Cardinality({x}) = 1
  BY FS_Singleton
<1>2. IsFiniteSet(1..n) /\ Cardinality(1..n) = n
  BY FS_Interval
<1>3. IsFiniteSet({x} \X (1..n)) /\ Cardinality({x} \X (1..n)) = Cardinality({x}) * Cardinality(1..n)
  BY <1>1, <1>2, FS_Product
<1>4. QED
  BY <1>1, <1>2, <1>3

\* A sum of finitely many numbers is a number.
LEMMA SumIsNat ==
    ASSUME NEW S, IsFiniteSet(S), NEW f \in [S -> Nat]
    PROVE  IsFiniteSet(Pairs(f)) /\ SumOf(f) \in Nat
<1> DEFINE part == [x \in S |-> {x} \X (1..f[x])]
           parts == {{x} \X (1..f[x]) : x \in S}
<1>1. part \in Surjection(S, parts)
  <2>1. part \in [S -> parts]
    OBVIOUS
  <2>2. \A t \in parts : \E x \in S : part[x] = t
    OBVIOUS
  <2> HIDE DEF part, parts
  <2>3. QED
    BY <2>1, <2>2 DEF Surjection
<1>2. IsFiniteSet(parts)
  BY <1>1, FS_Surjection
<1>3. \A x \in S : IsFiniteSet({x} \X (1..f[x]))
  <2> TAKE x \in S
  <2>1. f[x] \in Nat
    OBVIOUS
  <2>2. QED
    BY <2>1, PairsOfOne
<1>4. IsFiniteSet(UNION parts)
  <2>1. \A t \in parts : IsFiniteSet(t)
    BY <1>3
  <2> HIDE DEF parts
  <2>2. QED
    BY <1>2, <2>1, FS_UNION
<1>5. Pairs(f) = UNION parts
  BY DEF Pairs
<1>6. QED
  BY <1>4, <1>5, FS_CardinalityType DEF SumOf

\* Nothing adds up to 0.
LEMMA SumOfNothing ==
    ASSUME NEW f, DOMAIN f = {}
    PROVE  SumOf(f) = 0
<1>1. Pairs(f) = {}
  BY DEF Pairs
<1>2. QED
  BY <1>1, FS_EmptySet DEF SumOf

LEMMA SumOfZeros ==
    ASSUME NEW S, NEW f \in [S -> {0}]
    PROVE  SumOf(f) = 0
<1>1. \A x \in S : {x} \X (1..f[x]) = {}
  <2> TAKE x \in S
  <2>1. f[x] = 0 /\ 1..0 = {}
    OBVIOUS
  <2>2. QED
    BY <2>1
<1>2. Pairs(f) = {}
  BY <1>1 DEF Pairs
<1>3. QED
  BY <1>2, FS_EmptySet DEF SumOf

\* One more argument adds its value.
LEMMA SumAdd ==
    ASSUME NEW S, IsFiniteSet(S), NEW f \in [S -> Nat], NEW x, x \notin S,
           NEW g \in [S \cup {x} -> Nat], \A y \in S : g[y] = f[y]
    PROVE  SumOf(g) = SumOf(f) + g[x]
<1> DEFINE one == {x} \X (1..g[x])
<1>1. Pairs(g) = Pairs(f) \cup one
  <2>1. \A y \in S : {y} \X (1..g[y]) = {y} \X (1..f[y])
    OBVIOUS
  <2>2. QED
    BY <2>1 DEF Pairs
<1>2. Pairs(f) \cap one = {}
  BY DEF Pairs
<1>3. g[x] \in Nat
  OBVIOUS
<1>4. IsFiniteSet(one) /\ Cardinality(one) = g[x]
  BY <1>3, PairsOfOne
<1>5. IsFiniteSet(Pairs(f)) /\ SumOf(f) \in Nat
  BY SumIsNat
<1> HIDE DEF one
<1>6. Cardinality(Pairs(f) \cup one)
        = Cardinality(Pairs(f)) + Cardinality(one) - Cardinality(Pairs(f) \cap one)
  BY <1>4, <1>5, FS_Union
<1>7. Cardinality(Pairs(f) \cap one) = 0
  BY <1>2, FS_EmptySet
<1>8. QED
  BY <1>1, <1>3, <1>4, <1>5, <1>6, <1>7 DEF SumOf

\* A sum without one of its arguments.
LEMMA SumSplit ==
    ASSUME NEW S, IsFiniteSet(S), NEW f \in [S -> Nat], NEW x \in S
    PROVE  /\ SumOf([y \in S \ {x} |-> f[y]]) \in Nat
           /\ SumOf(f) = SumOf([y \in S \ {x} |-> f[y]]) + f[x]
<1> DEFINE rest == [y \in S \ {x} |-> f[y]]
<1>1. IsFiniteSet(S \ {x}) /\ rest \in [S \ {x} -> Nat] /\ x \notin S \ {x}
  BY FS_RemoveElement
<1>2. f \in [(S \ {x}) \cup {x} -> Nat] /\ \A y \in S \ {x} : f[y] = rest[y]
  <2>1. (S \ {x}) \cup {x} = S
    OBVIOUS
  <2>2. QED
    BY <2>1
<1> HIDE DEF rest
<1>3. SumOf(f) = SumOf(rest) + f[x]
  BY <1>1, <1>2, SumAdd
<1>4. SumOf(rest) \in Nat
  BY <1>1, SumIsNat
<1>5. QED
  BY <1>3, <1>4 DEF rest

\* Changing one value changes the sum by as much.
LEMMA SumChange ==
    ASSUME NEW S, IsFiniteSet(S), NEW f \in [S -> Nat], NEW g \in [S -> Nat], NEW x \in S,
           \A y \in S \ {x} : g[y] = f[y]
    PROVE  SumOf(g) = SumOf(f) - f[x] + g[x]
<1> DEFINE restF == [y \in S \ {x} |-> f[y]]
           restG == [y \in S \ {x} |-> g[y]]
<1>1. restF = restG
  OBVIOUS
<1>2. SumOf(restF) \in Nat /\ SumOf(f) = SumOf(restF) + f[x]
  BY SumSplit
<1>3. SumOf(g) = SumOf(restG) + g[x]
  BY SumSplit
<1>4. f[x] \in Nat /\ g[x] \in Nat
  OBVIOUS
<1> HIDE DEF restF, restG
<1>5. QED
  BY <1>1, <1>2, <1>3, <1>4

\* What grows everywhere has no smaller sum.
LEMMA SumGrows ==
    ASSUME NEW S, IsFiniteSet(S), NEW f \in [S -> Nat], NEW g \in [S -> Nat],
           \A x \in S : f[x] <= g[x]
    PROVE  SumOf(f) <= SumOf(g)
<1>1. \A x \in S : {x} \X (1..f[x]) \subseteq {x} \X (1..g[x])
  <2> TAKE x \in S
  <2>1. f[x] \in Nat /\ g[x] \in Nat /\ f[x] <= g[x]
    OBVIOUS
  <2>2. 1..f[x] \subseteq 1..g[x]
    BY <2>1
  <2>3. QED
    BY <2>2
<1>2. Pairs(f) \subseteq Pairs(g)
  BY <1>1 DEF Pairs
<1>3. IsFiniteSet(Pairs(g))
  BY SumIsNat
<1>4. QED
  BY <1>2, <1>3, FS_Subset DEF SumOf

=============================================================================
