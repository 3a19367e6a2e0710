--------------------------- MODULE CpuPlayerProofs --------------------------
(***************************************************************************)
(* Theorems about Statistics and Mcts, as CpuPlayer composes them, for all *)
(* computer players, all buckets and every engine whose moves are finitely *)
(* many.                                                                   *)
(***************************************************************************)
EXTENDS CpuPlayer, SumsProofs, FiniteSetTheorems, SequenceTheorems, TLAPS

-----------------------------------------------------------------------------
(* What a computer player has yet to record.                               *)

Find(c) == [do |-> "find", name |-> c]
Inc(c)  == [do |-> "increment", name |-> c]
Add(d)  == [do |-> "add", name |-> d]

Suffix1 == <<Add("iterations_per_sec")>>
Suffix2 == <<Add("tree_size"), Add("iterations_per_sec")>>
Suffix3 == <<Add("iterations"), Add("tree_size"), Add("iterations_per_sec")>>
Suffix4 == <<Add("elapsed"), Add("iterations"), Add("tree_size"), Add("iterations_per_sec")>>
Plain5  == <<Inc("suggested_moves"),
             Add("elapsed"), Add("iterations"), Add("tree_size"), Add("iterations_per_sec")>>
Plain6  == <<Find("suggested_moves"), Inc("suggested_moves"),
             Add("elapsed"), Add("iterations"), Add("tree_size"), Add("iterations_per_sec")>>
Full5   == <<Inc("fully_explored"),
             Add("elapsed"), Add("iterations"), Add("tree_size"), Add("iterations_per_sec")>>
Full6   == <<Find("fully_explored"), Inc("fully_explored"),
             Add("elapsed"), Add("iterations"), Add("tree_size"), Add("iterations_per_sec")>>
Full7   == <<Inc("suggested_moves"), Find("fully_explored"), Inc("fully_explored"),
             Add("elapsed"), Add("iterations"), Add("tree_size"), Add("iterations_per_sec")>>
Full8   == <<Find("suggested_moves"), Inc("suggested_moves"),
             Find("fully_explored"), Inc("fully_explored"),
             Add("elapsed"), Add("iterations"), Add("tree_size"), Add("iterations_per_sec")>>

LEMMA StepsForShape == StepsFor(TRUE) = Full8 /\ StepsFor(FALSE) = Plain6
<1> DEFINE S == {Find("suggested_moves"), Inc("suggested_moves"), Find("fully_explored"),
                 Inc("fully_explored"), Add("elapsed"), Add("iterations"), Add("tree_size"),
                 Add("iterations_per_sec")}
<1>1. /\ \A c : CountStep(c) = <<Find(c), Inc(c)>>
      /\ \A d : AddStep(d) = <<Add(d)>>
  BY DEF CountStep, AddStep, Find, Inc, Add
<1>2. /\ Find("suggested_moves") \in S /\ Inc("suggested_moves") \in S
      /\ Find("fully_explored") \in S /\ Inc("fully_explored") \in S
      /\ Add("elapsed") \in S /\ Add("iterations") \in S /\ Add("tree_size") \in S
      /\ Add("iterations_per_sec") \in S
  OBVIOUS
<1> HIDE DEF S
<1>3. StepsFor(FALSE) = Plain6
  <2> DEFINE F1 == Find("suggested_moves")
             I1 == Inc("suggested_moves")
             F2 == Find("fully_explored")
             I2 == Inc("fully_explored")
             A1 == Add("elapsed")
             A2 == Add("iterations")
             A3 == Add("tree_size")
             A4 == Add("iterations_per_sec")
  <2> DEFINE s == <<F1, I1>> \o <<>> \o <<A1>> \o <<A2>> \o <<A3>> \o <<A4>>
             t == <<F1, I1, A1, A2, A3, A4>>
  <2>1. StepsFor(FALSE) = s /\ Plain6 = t
    BY <1>1 DEF StepsFor, Plain6
  <2>2. F1 \in S /\ I1 \in S /\ F2 \in S /\ I2 \in S /\ A1 \in S /\ A2 \in S /\ A3 \in S /\ A4 \in S
    BY <1>2
  <2> HIDE DEF F1, I1, F2, I2, A1, A2, A3, A4
  <2>3. s \in Seq(S) /\ Len(s) = 6 /\ t \in Seq(S) /\ Len(t) = 6
    BY <2>2
  <2>4. s[1] = F1 /\ s[2] = I1 /\ s[3] = A1 /\ s[4] = A2 /\ s[5] = A3 /\ s[6] = A4
    OBVIOUS
  <2>5. t[1] = F1 /\ t[2] = I1 /\ t[3] = A1 /\ t[4] = A2 /\ t[5] = A3 /\ t[6] = A4
    OBVIOUS
  <2> HIDE DEF s, t
  <2>6. \A k \in 1..Len(s) : s[k] = t[k]
    BY <2>3, <2>4, <2>5
  <2>7. s = t
    BY <2>3, <2>6, SeqEqual
  <2>8. QED
    BY <2>1, <2>7
<1>4. StepsFor(TRUE) = Full8
  <2> DEFINE F1 == Find("suggested_moves")
             I1 == Inc("suggested_moves")
             F2 == Find("fully_explored")
             I2 == Inc("fully_explored")
             A1 == Add("elapsed")
             A2 == Add("iterations")
             A3 == Add("tree_size")
             A4 == Add("iterations_per_sec")
  <2> DEFINE s == <<F1, I1>> \o <<F2, I2>> \o <<A1>> \o <<A2>> \o <<A3>> \o <<A4>>
             t == <<F1, I1, F2, I2, A1, A2, A3, A4>>
  <2>1. StepsFor(TRUE) = s /\ Full8 = t
    BY <1>1 DEF StepsFor, Full8
  <2>2. F1 \in S /\ I1 \in S /\ F2 \in S /\ I2 \in S /\ A1 \in S /\ A2 \in S /\ A3 \in S /\ A4 \in S
    BY <1>2
  <2> HIDE DEF F1, I1, F2, I2, A1, A2, A3, A4
  <2>3. s \in Seq(S) /\ Len(s) = 8 /\ t \in Seq(S) /\ Len(t) = 8
    BY <2>2
  <2>4. s[1] = F1 /\ s[2] = I1 /\ s[3] = F2 /\ s[4] = I2 /\ s[5] = A1 /\ s[6] = A2 /\ s[7] = A3 /\ s[8] = A4
    OBVIOUS
  <2>5. t[1] = F1 /\ t[2] = I1 /\ t[3] = F2 /\ t[4] = I2 /\ t[5] = A1 /\ t[6] = A2 /\ t[7] = A3 /\ t[8] = A4
    OBVIOUS
  <2> HIDE DEF s, t
  <2>6. \A k \in 1..Len(s) : s[k] = t[k]
    BY <2>3, <2>4, <2>5
  <2>7. s = t
    BY <2>3, <2>6, SeqEqual
  <2>8. QED
    BY <2>1, <2>7
<1>5. QED
  BY <1>3, <1>4

LEMMA Tails ==
    /\ Tail(Suffix1) = <<>> /\ Tail(Suffix2) = Suffix1 /\ Tail(Suffix3) = Suffix2
    /\ Tail(Suffix4) = Suffix3 /\ Tail(Plain5) = Suffix4 /\ Tail(Plain6) = Plain5
    /\ Tail(Full5) = Suffix4 /\ Tail(Full6) = Full5 /\ Tail(Full7) = Full6 /\ Tail(Full8) = Full7
  BY DEF Suffix1, Suffix2, Suffix3, Suffix4, Plain5, Plain6, Full5, Full6, Full7, Full8

LEMMA Heads ==
    /\ Head(Suffix1) = Add("iterations_per_sec") /\ Head(Suffix2) = Add("tree_size")
    /\ Head(Suffix3) = Add("iterations") /\ Head(Suffix4) = Add("elapsed")
    /\ Head(Plain5) = Inc("suggested_moves") /\ Head(Plain6) = Find("suggested_moves")
    /\ Head(Full5) = Inc("fully_explored") /\ Head(Full6) = Find("fully_explored")
    /\ Head(Full7) = Inc("suggested_moves") /\ Head(Full8) = Find("suggested_moves")
  BY DEF Suffix1, Suffix2, Suffix3, Suffix4, Plain5, Plain6, Full5, Full6, Full7, Full8

LEMMA Lengths ==
    /\ Len(<<>>) = 0
    /\ Len(Suffix1) = 1 /\ Len(Suffix2) = 2 /\ Len(Suffix3) = 3 /\ Len(Suffix4) = 4
    /\ Len(Plain5) = 5 /\ Len(Plain6) = 6
    /\ Len(Full5) = 5 /\ Len(Full6) = 6 /\ Len(Full7) = 7 /\ Len(Full8) = 8
  BY DEF Suffix1, Suffix2, Suffix3, Suffix4, Plain5, Plain6, Full5, Full6, Full7, Full8

Todos == {<<>>, Suffix1, Suffix2, Suffix3, Suffix4, Plain5, Plain6, Full5, Full6, Full7, Full8}

\* They all differ.
LEMMA TodosDiffer ==
    /\ Suffix1 # Suffix2 /\ Suffix1 # Suffix3 /\ Suffix1 # Suffix4 /\ Suffix1 # Plain5 /\ Suffix1 # Plain6
    /\ Suffix1 # Full5 /\ Suffix1 # Full6 /\ Suffix1 # Full7 /\ Suffix1 # Full8
    /\ Suffix2 # Suffix3 /\ Suffix2 # Suffix4 /\ Suffix2 # Plain5 /\ Suffix2 # Plain6 /\ Suffix2 # Full5
    /\ Suffix2 # Full6 /\ Suffix2 # Full7 /\ Suffix2 # Full8
    /\ Suffix3 # Suffix4 /\ Suffix3 # Plain5 /\ Suffix3 # Plain6 /\ Suffix3 # Full5 /\ Suffix3 # Full6
    /\ Suffix3 # Full7 /\ Suffix3 # Full8
    /\ Suffix4 # Plain5 /\ Suffix4 # Plain6 /\ Suffix4 # Full5 /\ Suffix4 # Full6 /\ Suffix4 # Full7
    /\ Suffix4 # Full8
    /\ Plain5 # Plain6 /\ Plain5 # Full5 /\ Plain5 # Full6 /\ Plain5 # Full7 /\ Plain5 # Full8
    /\ Plain6 # Full5 /\ Plain6 # Full6 /\ Plain6 # Full7 /\ Plain6 # Full8
    /\ Full5 # Full6 /\ Full5 # Full7 /\ Full5 # Full8
    /\ Full6 # Full7 /\ Full6 # Full8
    /\ Full7 # Full8
    /\ Suffix1 # <<>> /\ Suffix2 # <<>> /\ Suffix3 # <<>> /\ Suffix4 # <<>> /\ Plain5 # <<>>
    /\ Plain6 # <<>> /\ Full5 # <<>> /\ Full6 # <<>> /\ Full7 # <<>> /\ Full8 # <<>>
<1>1. Inc("suggested_moves") # Inc("fully_explored")
  BY DEF Inc
<1>2. Find("suggested_moves") # Find("fully_explored")
  BY DEF Find
<1>3. Plain5 # Full5 /\ Plain6 # Full6
  BY <1>1, <1>2, Heads
<1>4. /\ Suffix1 # Suffix2 /\ Suffix1 # Suffix3 /\ Suffix1 # Suffix4 /\ Suffix1 # Plain5 /\ Suffix1 # Plain6
      /\ Suffix1 # Full5 /\ Suffix1 # Full6 /\ Suffix1 # Full7 /\ Suffix1 # Full8
  BY Lengths, <1>3
<1>5. /\ Suffix2 # Suffix3 /\ Suffix2 # Suffix4 /\ Suffix2 # Plain5 /\ Suffix2 # Plain6 /\ Suffix2 # Full5
      /\ Suffix2 # Full6 /\ Suffix2 # Full7 /\ Suffix2 # Full8
  BY Lengths, <1>3
<1>6. /\ Suffix3 # Suffix4 /\ Suffix3 # Plain5 /\ Suffix3 # Plain6 /\ Suffix3 # Full5 /\ Suffix3 # Full6
      /\ Suffix3 # Full7 /\ Suffix3 # Full8
  BY Lengths, <1>3
<1>7. /\ Suffix4 # Plain5 /\ Suffix4 # Plain6 /\ Suffix4 # Full5 /\ Suffix4 # Full6 /\ Suffix4 # Full7
      /\ Suffix4 # Full8
  BY Lengths, <1>3
<1>8. /\ Plain5 # Plain6 /\ Plain5 # Full5 /\ Plain5 # Full6 /\ Plain5 # Full7 /\ Plain5 # Full8
  BY Lengths, <1>3
<1>9. /\ Plain6 # Full5 /\ Plain6 # Full6 /\ Plain6 # Full7 /\ Plain6 # Full8
  BY Lengths, <1>3
<1>10. /\ Full5 # Full6 /\ Full5 # Full7 /\ Full5 # Full8
  BY Lengths, <1>3
<1>11. /\ Full6 # Full7 /\ Full6 # Full8
  BY Lengths, <1>3
<1>12. /\ Full7 # Full8
  BY Lengths, <1>3
<1>13. /\ Suffix1 # <<>> /\ Suffix2 # <<>> /\ Suffix3 # <<>> /\ Suffix4 # <<>> /\ Plain5 # <<>>
      /\ Plain6 # <<>> /\ Full5 # <<>> /\ Full6 # <<>> /\ Full7 # <<>> /\ Full8 # <<>>
  <2>1. /\ Len(Suffix1) # 0 /\ Len(Suffix2) # 0 /\ Len(Suffix3) # 0 /\ Len(Suffix4) # 0 /\ Len(Plain5) # 0
      /\ Len(Plain6) # 0 /\ Len(Full5) # 0 /\ Len(Full6) # 0 /\ Len(Full7) # 0 /\ Len(Full8) # 0
    BY Lengths
  <2>2. \A x : Len(x) # 0 => x # <<>>
    BY Lengths, Zenon
  <2>3. QED
    BY <2>1, <2>2, Zenon
<1>14. QED
  BY <1>4, <1>5, <1>6, <1>7, <1>8, <1>9, <1>10, <1>11, <1>12, <1>13, Zenon

-----------------------------------------------------------------------------
(* Counters and distributions.                                             *)

\* The computer players whose todo list is one of B.
With(B) == {r \in Recorders : rec[r].todo \in B}

Counted   == {Suffix1, Suffix2, Suffix3, Suffix4, Full5, Full6}
Exploring == {Full5, Full6}

Value(c) == IF c \in DOMAIN counters THEN counters[c] ELSE 0
Sum(d) == SumOf(buckets[d])
Buckets(d) == 1..(Len(UpperBounds(d)) + 1)

RecType == rec = [r \in Recorders |-> rec[r]] /\ \A r \in Recorders : rec[r].todo \in Todos
BucketType ==
    /\ buckets = [d \in Distributions |-> buckets[d]]
    /\ \A d \in Distributions : buckets[d] \in [Buckets(d) -> Nat]
CounterType ==
    /\ counters \in [DOMAIN counters -> Nat]
    /\ \A r \in Recorders :
          /\ rec[r].todo \in {Plain5, Full7} => "suggested_moves" \in DOMAIN counters
          /\ rec[r].todo = Full5 => "fully_explored" \in DOMAIN counters

\* Every value is recorded by all computer players in the same order: a counter or a
\* distribution is ahead of a later one by those who are between the two.
Balanced ==
    /\ Value("fully_explored") + Cardinality(With(Exploring)) =< Value("suggested_moves")
    /\ Value("suggested_moves") = Sum("iterations_per_sec") + Cardinality(With(Counted))
    /\ Sum("elapsed") = Sum("iterations") + Cardinality(With({Suffix3}))
    /\ Sum("iterations") = Sum("tree_size") + Cardinality(With({Suffix2}))
    /\ Sum("tree_size") = Sum("iterations_per_sec") + Cardinality(With({Suffix1}))

\* While the counters are read none is created, so no exploration can be counted
\* whose move was not counted before.
ReportInv ==
    /\ report = [counters |-> report.counters, buckets |-> report.buckets]
    /\ report.counters \in [DOMAIN report.counters -> Nat]
    /\ statusz \in {"idle", "counters", "distributions", "encode", "answered", "panicked"}
    /\ statusz = "idle" => report = Unread
    /\ statusz = "counters" =>
          /\ DOMAIN report.counters \subseteq DOMAIN counters
          /\ \A c \in DOMAIN report.counters : report.counters[c] =< Value(c)
          /\ Value("fully_explored") + Cardinality(With({Full5})) =<
                 (IF "suggested_moves" \in DOMAIN report.counters
                  THEN report.counters["suggested_moves"] ELSE Value("suggested_moves"))
    /\ statusz = "distributions" =>
          /\ Reported("fully_explored") =< Reported("suggested_moves")
          /\ Reported("suggested_moves") =< Value("suggested_moves")
    /\ ReportIsConsistent

StatInv == RecType /\ BucketType /\ CounterType /\ Balanced /\ ReportInv

LEMMA StatTypes ==
    ASSUME BucketType, CounterType
    PROVE  /\ \A c : Value(c) \in Nat
           /\ \A d \in Distributions : Sum(d) \in Nat
           /\ \A B : IsFiniteSet(With(B)) /\ Cardinality(With(B)) \in Nat
<1>1. \A c : Value(c) \in Nat
  BY DEF CounterType, Value
<1>2. \A d \in Distributions : Sum(d) \in Nat
  <2> TAKE d \in Distributions
  <2>1. IsFiniteSet(Buckets(d))
    BY StatisticsAssumption, FS_Interval DEF Buckets
  <2>2. buckets[d] \in [Buckets(d) -> Nat]
    BY DEF BucketType
  <2>3. QED
    BY <2>1, <2>2, SumIsNat DEF Sum
<1>3. \A B : IsFiniteSet(With(B)) /\ Cardinality(With(B)) \in Nat
  <2> TAKE B
  <2>1. With(B) \subseteq Recorders
    BY DEF With
  <2>2. IsFiniteSet(With(B))
    BY <2>1, StatisticsAssumption, FS_Subset
  <2>3. QED
    BY <2>2, FS_CardinalityType
<1>4. QED
  BY <1>1, <1>2, <1>3

\* One computer player goes on from a todo list to another.
GoesOn(r, from, to) ==
    /\ r \in Recorders /\ from \in Todos /\ to \in Todos
    /\ rec[r].todo = from /\ rec'[r].todo = to
    /\ rec' = [q \in Recorders |-> rec'[q]]
    /\ \A q \in Recorders \ {r} : rec'[q] = rec[q]

LEMMA WithStep ==
    ASSUME BucketType, CounterType, NEW r, NEW from, NEW to, GoesOn(r, from, to), NEW B
    PROVE  Cardinality(With(B)') = Cardinality(With(B)) + (IF to \in B THEN 1 ELSE 0)
                                                        - (IF from \in B THEN 1 ELSE 0)
<1>1. IsFiniteSet(With(B)) /\ Cardinality(With(B)) \in Nat
  BY StatTypes
<1>2. CASE from \in B /\ to \in B
  <2>1. With(B)' = With(B)
    BY <1>2 DEF With, GoesOn
  <2>2. QED
    BY <1>1, <1>2, <2>1
<1>3. CASE from \notin B /\ to \notin B
  <2>1. With(B)' = With(B)
    BY <1>3 DEF With, GoesOn
  <2>2. QED
    BY <1>1, <1>3, <2>1
<1>4. CASE from \notin B /\ to \in B
  <2>1. With(B)' = With(B) \cup {r} /\ r \notin With(B)
    BY <1>4 DEF With, GoesOn
  <2>2. Cardinality(With(B) \cup {r}) = Cardinality(With(B)) + 1
    BY <1>1, <2>1, FS_AddElement
  <2>3. QED
    BY <1>1, <1>4, <2>1, <2>2
<1>5. CASE from \in B /\ to \notin B
  <2>1. With(B)' = With(B) \ {r} /\ r \in With(B)
    BY <1>5 DEF With, GoesOn
  <2>2. Cardinality(With(B) \ {r}) = Cardinality(With(B)) - 1
    BY <1>1, <2>1, FS_RemoveElement
  <2>3. QED
    BY <1>1, <1>5, <2>1, <2>2
<1>6. QED
  BY <1>2, <1>3, <1>4, <1>5

LEMMA StepDoneGoesOn ==
    ASSUME RecType, NEW r \in Recorders, Busy(r), StepDone(r)
    PROVE  \/ GoesOn(r, Suffix1, <<>>) \/ GoesOn(r, Suffix2, Suffix1)
           \/ GoesOn(r, Suffix3, Suffix2) \/ GoesOn(r, Suffix4, Suffix3)
           \/ GoesOn(r, Plain5, Suffix4) \/ GoesOn(r, Plain6, Plain5)
           \/ GoesOn(r, Full5, Suffix4) \/ GoesOn(r, Full6, Full5)
           \/ GoesOn(r, Full7, Full6) \/ GoesOn(r, Full8, Full7)
<1>1. rec'[r].todo = Tail(rec[r].todo)
  BY DEF StepDone, RecType
<1>2. /\ rec' = [q \in Recorders |-> rec'[q]]
      /\ \A q \in Recorders \ {r} : rec'[q] = rec[q]
  BY DEF StepDone, RecType
<1>3. rec[r].todo \in Todos /\ rec[r].todo # <<>>
  BY DEF RecType, Busy
<1>4. /\ <<>> \in Todos /\ Suffix1 \in Todos /\ Suffix2 \in Todos /\ Suffix3 \in Todos
      /\ Suffix4 \in Todos /\ Plain5 \in Todos /\ Plain6 \in Todos /\ Full5 \in Todos
      /\ Full6 \in Todos /\ Full7 \in Todos /\ Full8 \in Todos
  BY DEF Todos
<1>5. rec[r].todo \in {Suffix1, Suffix2, Suffix3, Suffix4, Plain5, Plain6, Full5, Full6, Full7, Full8}
  BY <1>3 DEF Todos
<1>6. QED
  BY <1>1, <1>2, <1>4, <1>5, Tails DEF GoesOn

\* What each step records.
LEMMA FindGoesOn ==
    ASSUME RecType, NEW r \in Recorders, FindCounter(r)
    PROVE  \/ GoesOn(r, Plain6, Plain5) /\ Current(r) = "suggested_moves"
           \/ GoesOn(r, Full8, Full7) /\ Current(r) = "suggested_moves"
           \/ GoesOn(r, Full6, Full5) /\ Current(r) = "fully_explored"
<1>1. Busy(r) /\ StepDone(r) /\ Head(rec[r].todo).do = "find"
  BY DEF FindCounter, Doing
<1>2. QED
  BY <1>1, StepDoneGoesOn, Heads DEF GoesOn, Current, Find, Inc, Add

LEMMA IncrementGoesOn ==
    ASSUME RecType, NEW r \in Recorders, Increment(r)
    PROVE  \/ GoesOn(r, Plain5, Suffix4) /\ Current(r) = "suggested_moves"
           \/ GoesOn(r, Full7, Full6) /\ Current(r) = "suggested_moves"
           \/ GoesOn(r, Full5, Suffix4) /\ Current(r) = "fully_explored"
<1>1. Busy(r) /\ StepDone(r) /\ Head(rec[r].todo).do = "increment"
  BY DEF Increment, Doing
<1>2. QED
  BY <1>1, StepDoneGoesOn, Heads DEF GoesOn, Current, Find, Inc, Add

LEMMA AddGoesOn ==
    ASSUME RecType, NEW r \in Recorders, AddValue(r)
    PROVE  \/ GoesOn(r, Suffix4, Suffix3) /\ Current(r) = "elapsed"
           \/ GoesOn(r, Suffix3, Suffix2) /\ Current(r) = "iterations"
           \/ GoesOn(r, Suffix2, Suffix1) /\ Current(r) = "tree_size"
           \/ GoesOn(r, Suffix1, <<>>) /\ Current(r) = "iterations_per_sec"
<1>1. Busy(r) /\ StepDone(r) /\ Head(rec[r].todo).do = "add"
  BY DEF AddValue, Doing
<1>2. QED
  BY <1>1, StepDoneGoesOn, Heads DEF GoesOn, Current, Find, Inc, Add

\* A value falls into one of the buckets.
LEMMA BucketExists ==
    ASSUME NEW d \in Distributions, NEW value
    PROVE  BucketOf(d, value) \in Buckets(d)
<1> DEFINE bounds == UpperBounds(d)
           above == {k \in DOMAIN bounds : bounds[k] > value}
           all == above \cup {Len(bounds) + 1}
<1>1. Len(bounds) \in Nat /\ DOMAIN bounds = 1..Len(bounds)
  BY StatisticsAssumption
<1>2. all \in SUBSET Nat /\ all # {} /\ all \subseteq Buckets(d) /\ above \subseteq all
  BY <1>1 DEF Buckets
<1>3. BucketOf(d, value) = CHOOSE k \in all : \A j \in above : k =< j
  BY DEF BucketOf
<1> HIDE DEF all, above
<1>4. \E k \in all : \A j \in all : k =< j
  BY <1>2, LeastNumber
<1>5. \E k \in all : \A j \in above : k =< j
  BY <1>2, <1>4
<1>6. BucketOf(d, value) \in all
  BY <1>3, <1>5
<1>7. QED
  BY <1>2, <1>6

\* Which lists are in which sets.
LEMMA Members ==
    /\ <<>> \notin Counted /\ Suffix1 \in Counted /\ Suffix2 \in Counted /\ Suffix3 \in Counted
    /\ Suffix4 \in Counted /\ Plain5 \notin Counted /\ Plain6 \notin Counted /\ Full5 \in Counted
    /\ Full6 \in Counted /\ Full7 \notin Counted /\ Full8 \notin Counted
    /\ <<>> \notin Exploring /\ Suffix1 \notin Exploring /\ Suffix2 \notin Exploring /\ Suffix3 \notin Exploring
    /\ Suffix4 \notin Exploring /\ Plain5 \notin Exploring /\ Plain6 \notin Exploring /\ Full5 \in Exploring
    /\ Full6 \in Exploring /\ Full7 \notin Exploring /\ Full8 \notin Exploring
    /\ <<>> \notin {Suffix1} /\ Suffix1 \in {Suffix1} /\ Suffix2 \notin {Suffix1} /\ Suffix3 \notin {Suffix1}
    /\ Suffix4 \notin {Suffix1} /\ Plain5 \notin {Suffix1} /\ Plain6 \notin {Suffix1} /\ Full5 \notin {Suffix1}
    /\ Full6 \notin {Suffix1} /\ Full7 \notin {Suffix1} /\ Full8 \notin {Suffix1}
    /\ <<>> \notin {Suffix2} /\ Suffix1 \notin {Suffix2} /\ Suffix2 \in {Suffix2} /\ Suffix3 \notin {Suffix2}
    /\ Suffix4 \notin {Suffix2} /\ Plain5 \notin {Suffix2} /\ Plain6 \notin {Suffix2} /\ Full5 \notin {Suffix2}
    /\ Full6 \notin {Suffix2} /\ Full7 \notin {Suffix2} /\ Full8 \notin {Suffix2}
    /\ <<>> \notin {Suffix3} /\ Suffix1 \notin {Suffix3} /\ Suffix2 \notin {Suffix3} /\ Suffix3 \in {Suffix3}
    /\ Suffix4 \notin {Suffix3} /\ Plain5 \notin {Suffix3} /\ Plain6 \notin {Suffix3} /\ Full5 \notin {Suffix3}
    /\ Full6 \notin {Suffix3} /\ Full7 \notin {Suffix3} /\ Full8 \notin {Suffix3}
    /\ <<>> \notin {Full5} /\ Suffix1 \notin {Full5} /\ Suffix2 \notin {Full5} /\ Suffix3 \notin {Full5}
    /\ Suffix4 \notin {Full5} /\ Plain5 \notin {Full5} /\ Plain6 \notin {Full5} /\ Full5 \in {Full5}
    /\ Full6 \notin {Full5} /\ Full7 \notin {Full5} /\ Full8 \notin {Full5}
<1>1. /\ <<>> \notin Counted /\ Suffix1 \in Counted /\ Suffix2 \in Counted /\ Suffix3 \in Counted
      /\ Suffix4 \in Counted /\ Plain5 \notin Counted /\ Plain6 \notin Counted /\ Full5 \in Counted
      /\ Full6 \in Counted /\ Full7 \notin Counted /\ Full8 \notin Counted
  BY Zenon, TodosDiffer DEF Counted
<1>2. /\ <<>> \notin Exploring /\ Suffix1 \notin Exploring /\ Suffix2 \notin Exploring /\ Suffix3 \notin Exploring
      /\ Suffix4 \notin Exploring /\ Plain5 \notin Exploring /\ Plain6 \notin Exploring /\ Full5 \in Exploring
      /\ Full6 \in Exploring /\ Full7 \notin Exploring /\ Full8 \notin Exploring
  BY Zenon, TodosDiffer DEF Exploring
<1>3. /\ <<>> \notin {Suffix1} /\ Suffix1 \in {Suffix1} /\ Suffix2 \notin {Suffix1} /\ Suffix3 \notin {Suffix1}
      /\ Suffix4 \notin {Suffix1} /\ Plain5 \notin {Suffix1} /\ Plain6 \notin {Suffix1} /\ Full5 \notin {Suffix1}
      /\ Full6 \notin {Suffix1} /\ Full7 \notin {Suffix1} /\ Full8 \notin {Suffix1}
  BY Zenon, TodosDiffer
<1>4. /\ <<>> \notin {Suffix2} /\ Suffix1 \notin {Suffix2} /\ Suffix2 \in {Suffix2} /\ Suffix3 \notin {Suffix2}
      /\ Suffix4 \notin {Suffix2} /\ Plain5 \notin {Suffix2} /\ Plain6 \notin {Suffix2} /\ Full5 \notin {Suffix2}
      /\ Full6 \notin {Suffix2} /\ Full7 \notin {Suffix2} /\ Full8 \notin {Suffix2}
  BY Zenon, TodosDiffer
<1>5. /\ <<>> \notin {Suffix3} /\ Suffix1 \notin {Suffix3} /\ Suffix2 \notin {Suffix3} /\ Suffix3 \in {Suffix3}
      /\ Suffix4 \notin {Suffix3} /\ Plain5 \notin {Suffix3} /\ Plain6 \notin {Suffix3} /\ Full5 \notin {Suffix3}
      /\ Full6 \notin {Suffix3} /\ Full7 \notin {Suffix3} /\ Full8 \notin {Suffix3}
  BY Zenon, TodosDiffer
<1>6. /\ <<>> \notin {Full5} /\ Suffix1 \notin {Full5} /\ Suffix2 \notin {Full5} /\ Suffix3 \notin {Full5}
      /\ Suffix4 \notin {Full5} /\ Plain5 \notin {Full5} /\ Plain6 \notin {Full5} /\ Full5 \in {Full5}
      /\ Full6 \notin {Full5} /\ Full7 \notin {Full5} /\ Full8 \notin {Full5}
  BY Zenon, TodosDiffer
<1>7. QED
  BY <1>1, <1>2, <1>3, <1>4, <1>5, <1>6

\* The report and what was read for it do not change.
LEMMA SameReport ==
    ASSUME ReportIsConsistent, statusz' = statusz, report' = report
    PROVE  ReportIsConsistent'
  BY DEF ReportIsConsistent, Reported, Total

LEMMA FindKeeps ==
    ASSUME StatInv, NEW r \in Recorders, FindCounter(r)
    PROVE  StatInv'
<1>1. /\ statusz # "counters" /\ buckets' = buckets /\ statusz' = statusz /\ report' = report
      /\ counters' = [c \in DOMAIN counters \cup {Current(r)} |->
                         IF c \in DOMAIN counters THEN counters[c] ELSE 0]
  BY DEF FindCounter, CountersUnlocked
<1>2. PICK from, to : /\ GoesOn(r, from, to)
                      /\ <<from, to, Current(r)>> \in {<<Plain6, Plain5, "suggested_moves">>,
                             <<Full8, Full7, "suggested_moves">>, <<Full6, Full5, "fully_explored">>}
  BY FindGoesOn DEF StatInv
<1>3. \/ from = Plain6 /\ to = Plain5 /\ Current(r) = "suggested_moves"
      \/ from = Full8 /\ to = Full7 /\ Current(r) = "suggested_moves"
      \/ from = Full6 /\ to = Full5 /\ Current(r) = "fully_explored"
  BY <1>2
<1>4. RecType'
  BY <1>2 DEF GoesOn, StatInv, RecType
<1>5. BucketType'
  BY <1>1 DEF StatInv, BucketType
<1>6. counters' \in [DOMAIN counters' -> Nat] /\ DOMAIN counters' = DOMAIN counters \cup {Current(r)}
  BY <1>1 DEF StatInv, CounterType
<1>7. CounterType'
  <2> SUFFICES ASSUME NEW q \in Recorders
               PROVE  /\ rec'[q].todo \in {Plain5, Full7} => "suggested_moves" \in DOMAIN counters'
                      /\ rec'[q].todo = Full5 => "fully_explored" \in DOMAIN counters'
    BY <1>6 DEF CounterType
  <2>1. CASE q = r
    <3>1. Plain5 # Full5 /\ Full7 # Full5
      BY TodosDiffer, Lengths
    <3>2. QED
      BY <1>2, <1>3, <1>6, <2>1, <3>1 DEF GoesOn
  <2>2. CASE q # r
    BY <1>2, <1>6, <2>2 DEF GoesOn, StatInv, CounterType
  <2>3. QED
    BY <2>1, <2>2
<1>8. \A c : Value(c)' = Value(c)
  BY <1>1 DEF Value
<1>9. \A d : Sum(d)' = Sum(d)
  BY <1>1 DEF Sum
<1>10. \A B : Cardinality(With(B)) \in Nat
  BY StatTypes DEF StatInv
<1>11. /\ Cardinality(With(Exploring)') = Cardinality(With(Exploring))
       /\ Cardinality(With(Counted)') = Cardinality(With(Counted))
       /\ Cardinality(With({Suffix1})') = Cardinality(With({Suffix1}))
       /\ Cardinality(With({Suffix2})') = Cardinality(With({Suffix2}))
       /\ Cardinality(With({Suffix3})') = Cardinality(With({Suffix3}))
  BY <1>2, <1>3, <1>10, WithStep, Members DEF StatInv
<1>12. Balanced'
  BY <1>8, <1>9, <1>11 DEF StatInv, Balanced
<1>13. ReportInv'
  BY <1>1, <1>8, SameReport DEF StatInv, ReportInv, Reported
<1>14. QED
  BY <1>4, <1>5, <1>7, <1>12, <1>13 DEF StatInv

LEMMA IncrementKeeps ==
    ASSUME StatInv, NEW r \in Recorders, Increment(r)
    PROVE  StatInv'
<1>1. /\ buckets' = buckets /\ statusz' = statusz /\ report' = report
      /\ counters' = [counters EXCEPT ![Current(r)] = @ + 1]
  BY DEF Increment
<1>2. PICK from, to, x : /\ GoesOn(r, from, to) /\ x = Current(r)
                         /\ <<from, to, x>> \in {<<Plain5, Suffix4, "suggested_moves">>,
                             <<Full7, Full6, "suggested_moves">>, <<Full5, Suffix4, "fully_explored">>}
  BY IncrementGoesOn DEF StatInv
<1>3. \/ from = Plain5 /\ to = Suffix4 /\ x = "suggested_moves"
      \/ from = Full7 /\ to = Full6 /\ x = "suggested_moves"
      \/ from = Full5 /\ to = Suffix4 /\ x = "fully_explored"
  BY <1>2
<1>4. RecType'
  BY <1>2 DEF GoesOn, StatInv, RecType
<1>5. BucketType'
  BY <1>1 DEF StatInv, BucketType
<1>6. x \in DOMAIN counters
  BY <1>2, <1>3 DEF GoesOn, StatInv, CounterType
<1>7. /\ counters' \in [DOMAIN counters' -> Nat] /\ DOMAIN counters' = DOMAIN counters
      /\ counters'[x] = counters[x] + 1 /\ counters[x] \in Nat
      /\ \A c \in DOMAIN counters : c # x => counters'[c] = counters[c]
  BY <1>1, <1>2, <1>6 DEF StatInv, CounterType
<1>8. CounterType'
  <2> SUFFICES ASSUME NEW q \in Recorders
               PROVE  /\ rec'[q].todo \in {Plain5, Full7} => "suggested_moves" \in DOMAIN counters'
                      /\ rec'[q].todo = Full5 => "fully_explored" \in DOMAIN counters'
    BY <1>7 DEF CounterType
  <2>1. CASE q = r
    <3>1. to \notin {Plain5, Full7, Full5}
      BY <1>3, TodosDiffer
    <3>2. QED
      BY <1>2, <2>1, <3>1 DEF GoesOn
  <2>2. CASE q # r
    BY <1>2, <1>7, <2>2 DEF GoesOn, StatInv, CounterType
  <2>3. QED
    BY <2>1, <2>2
<1>9. /\ Value(x)' = Value(x) + 1
      /\ \A c : c # x => Value(c)' = Value(c)
  BY <1>6, <1>7 DEF Value
<1>10. \A d : Sum(d)' = Sum(d)
  BY <1>1 DEF Sum
<1>11. /\ \A B : Cardinality(With(B)) \in Nat
       /\ \A c : Value(c) \in Nat
       /\ \A d \in Distributions : Sum(d) \in Nat
  BY StatTypes DEF StatInv
<1>12. /\ Cardinality(With({Suffix1})') = Cardinality(With({Suffix1}))
       /\ Cardinality(With({Suffix2})') = Cardinality(With({Suffix2}))
       /\ Cardinality(With({Suffix3})') = Cardinality(With({Suffix3}))
  BY <1>2, <1>3, <1>11, WithStep, Members DEF StatInv
<1>13. ASSUME x = "suggested_moves"
       PROVE  /\ Cardinality(With(Exploring)') =< Cardinality(With(Exploring)) + 1
              /\ Cardinality(With(Counted)') = Cardinality(With(Counted)) + 1
              /\ Cardinality(With({Full5})') = Cardinality(With({Full5}))
              /\ Value("suggested_moves")' = Value("suggested_moves") + 1
              /\ Value("fully_explored")' = Value("fully_explored")
              /\ Cardinality(With(Exploring)') \in Int
  <2>1. from \in {Plain5, Full7} /\ to \in {Suffix4, Full6}
    BY <1>3, <1>13
  <2>2. from \notin Exploring /\ from \notin Counted /\ to \in Counted
        /\ from \notin {Full5} /\ to \notin {Full5}
    BY <2>1, Members
  <2>3. /\ Cardinality(With(Exploring)') = Cardinality(With(Exploring)) + (IF to \in Exploring THEN 1 ELSE 0)
        /\ Cardinality(With(Counted)') = Cardinality(With(Counted)) + 1
        /\ Cardinality(With({Full5})') = Cardinality(With({Full5}))
    BY <1>2, <1>11, <2>2, WithStep DEF StatInv
  <2>4. QED
    BY <1>9, <1>11, <1>13, <2>3
<1>14. ASSUME x # "suggested_moves"
       PROVE  /\ x = "fully_explored"
              /\ Cardinality(With(Exploring)') = Cardinality(With(Exploring)) - 1
              /\ Cardinality(With(Counted)') = Cardinality(With(Counted))
              /\ Cardinality(With({Full5})') = Cardinality(With({Full5})) - 1
              /\ Value("suggested_moves")' = Value("suggested_moves")
              /\ Value("fully_explored")' = Value("fully_explored") + 1
  <2>1. from = Full5 /\ to = Suffix4 /\ x = "fully_explored"
    BY <1>3, <1>14
  <2>2. from \in Exploring /\ to \notin Exploring /\ from \in Counted /\ to \in Counted
        /\ from \in {Full5} /\ to \notin {Full5}
    BY <2>1, Members
  <2>3. /\ Cardinality(With(Exploring)') = Cardinality(With(Exploring)) - 1
        /\ Cardinality(With(Counted)') = Cardinality(With(Counted))
        /\ Cardinality(With({Full5})') = Cardinality(With({Full5})) - 1
    BY <1>2, <1>11, <2>2, WithStep DEF StatInv
  <2>4. QED
    BY <1>9, <2>1, <2>3
<1>15. Balanced'
  <2>1. CASE x = "suggested_moves"
    BY <1>10, <1>11, <1>12, <1>13, <2>1 DEF StatInv, Balanced, Distributions
  <2>2. CASE x # "suggested_moves"
    BY <1>10, <1>11, <1>12, <1>14, <2>2 DEF StatInv, Balanced, Distributions
  <2>3. QED
    BY <2>1, <2>2
<1>16. ReportInv'
  <2>1. ReportIsConsistent'
    BY <1>1, SameReport DEF StatInv, ReportInv
  <2>2. ASSUME statusz = "counters"
        PROVE  /\ DOMAIN report.counters \subseteq DOMAIN counters'
               /\ \A c \in DOMAIN report.counters : report.counters[c] =< Value(c)'
               /\ Value("fully_explored")' + Cardinality(With({Full5})') =<
                      (IF "suggested_moves" \in DOMAIN report.counters
                       THEN report.counters["suggested_moves"] ELSE Value("suggested_moves")')
    <3>1. /\ DOMAIN report.counters \subseteq DOMAIN counters
          /\ \A c \in DOMAIN report.counters : report.counters[c] =< Value(c) /\ report.counters[c] \in Nat
          /\ Value("fully_explored") + Cardinality(With({Full5})) =<
                 (IF "suggested_moves" \in DOMAIN report.counters
                  THEN report.counters["suggested_moves"] ELSE Value("suggested_moves"))
      BY <2>2 DEF StatInv, ReportInv
    <3>2. \A c : Value(c) =< Value(c)'
      BY <1>9, <1>11
    <3>3. \A c \in DOMAIN report.counters : report.counters[c] =< Value(c)'
      <4> TAKE c \in DOMAIN report.counters
      <4>1. report.counters[c] =< Value(c) /\ Value(c) =< Value(c)' /\ report.counters[c] \in Nat
            /\ Value(c) \in Nat /\ Value(c)' \in Nat
        BY <1>9, <1>11, <3>1, <3>2
      <4>2. QED
        BY <4>1
    <3>4. Value("fully_explored")' + Cardinality(With({Full5})')
            = Value("fully_explored") + Cardinality(With({Full5}))
      BY <1>11, <1>13, <1>14
    <3>5. Value("suggested_moves") =< Value("suggested_moves")'
          /\ Value("suggested_moves")' \in Nat
      BY <1>9, <1>11
    <3>6. QED
      BY <1>7, <1>11, <3>1, <3>3, <3>4, <3>5
  <2>3. ASSUME statusz = "distributions"
        PROVE  /\ Reported("fully_explored") =< Reported("suggested_moves")
               /\ Reported("suggested_moves") =< Value("suggested_moves")'
    <3>1. /\ Reported("fully_explored") =< Reported("suggested_moves")
          /\ Reported("suggested_moves") =< Value("suggested_moves")
          /\ Reported("suggested_moves") \in Nat
      BY <2>3 DEF StatInv, ReportInv, Reported
    <3>2. Value("suggested_moves") =< Value("suggested_moves")' /\ Value("suggested_moves")' \in Nat
      BY <1>9, <1>11
    <3>3. QED
      BY <1>11, <3>1, <3>2
  <2>4. /\ \A c : Reported(c)' = Reported(c)
    BY <1>1 DEF Reported
  <2>5. QED
    BY <1>1, <2>1, <2>2, <2>3, <2>4 DEF StatInv, ReportInv
<1>17. QED
  BY <1>4, <1>5, <1>8, <1>15, <1>16 DEF StatInv

LEMMA AddKeeps ==
    ASSUME StatInv, NEW r \in Recorders, AddValue(r)
    PROVE  StatInv'
<1>1. PICK d, k : /\ d = Current(r) /\ k = BucketOf(d, rec[r].values[d])
                  /\ buckets' = [buckets EXCEPT ![d][k] = @ + 1]
                  /\ counters' = counters /\ statusz' = statusz /\ report' = report
  BY DEF AddValue
<1>2. PICK from, to : /\ GoesOn(r, from, to)
                      /\ <<from, to, d>> \in {<<Suffix4, Suffix3, "elapsed">>,
                             <<Suffix3, Suffix2, "iterations">>, <<Suffix2, Suffix1, "tree_size">>,
                             <<Suffix1, <<>>, "iterations_per_sec">>}
  BY <1>1, AddGoesOn DEF StatInv
<1>3. \/ from = Suffix4 /\ to = Suffix3 /\ d = "elapsed"
      \/ from = Suffix3 /\ to = Suffix2 /\ d = "iterations"
      \/ from = Suffix2 /\ to = Suffix1 /\ d = "tree_size"
      \/ from = Suffix1 /\ to = <<>> /\ d = "iterations_per_sec"
  BY <1>2
<1>4. d \in Distributions /\ k \in Buckets(d)
  BY <1>1, <1>3, BucketExists DEF Distributions
<1>5. /\ buckets = [x \in Distributions |-> buckets[x]]
      /\ \A x \in Distributions : buckets[x] \in [Buckets(x) -> Nat]
  BY DEF StatInv, BucketType
<1>6. /\ buckets' = [x \in Distributions |-> buckets'[x]]
      /\ buckets'[d] = [buckets[d] EXCEPT ![k] = @ + 1]
      /\ \A x \in Distributions \ {d} : buckets'[x] = buckets[x]
  BY <1>1, <1>4, <1>5
<1>7. /\ buckets'[d] \in [Buckets(d) -> Nat] /\ buckets'[d][k] = buckets[d][k] + 1
      /\ \A j \in Buckets(d) \ {k} : buckets'[d][j] = buckets[d][j]
      /\ buckets[d][k] \in Nat
  BY <1>4, <1>5, <1>6
<1>8. RecType'
  BY <1>2 DEF GoesOn, StatInv, RecType
<1>9. BucketType'
  BY <1>5, <1>6, <1>7 DEF BucketType
<1>10. CounterType'
  <2> SUFFICES ASSUME NEW q \in Recorders
               PROVE  /\ rec'[q].todo \in {Plain5, Full7} => "suggested_moves" \in DOMAIN counters
                      /\ rec'[q].todo = Full5 => "fully_explored" \in DOMAIN counters
    BY <1>1 DEF CounterType, StatInv
  <2>1. CASE q = r
    <3>1. to \notin {Plain5, Full7, Full5}
      BY <1>3, TodosDiffer
    <3>2. QED
      BY <1>2, <2>1, <3>1 DEF GoesOn
  <2>2. CASE q # r
    BY <1>2, <2>2 DEF GoesOn, StatInv, CounterType
  <2>3. QED
    BY <2>1, <2>2
<1>11. /\ \A B : Cardinality(With(B)) \in Nat
       /\ \A c : Value(c) \in Nat
       /\ \A x \in Distributions : Sum(x) \in Nat
  BY StatTypes DEF StatInv
<1>12. Sum(d)' = Sum(d) + 1
  <2>1. buckets[d] \in [Buckets(d) -> Nat] /\ Len(UpperBounds(d)) + 1 \in Int
    BY <1>4, <1>5, StatisticsAssumption
  <2>3. IsFiniteSet(Buckets(d))
    BY <2>1, FS_Interval DEF Buckets
  <2>2. SumOf(buckets'[d]) = SumOf(buckets[d]) - buckets[d][k] + buckets'[d][k]
    BY <1>4, <1>7, <2>1, <2>3, SumChange
  <2>4. QED
    BY <1>4, <1>7, <1>11, <2>2 DEF Sum
<1>13. \A x \in Distributions \ {d} : Sum(x)' = Sum(x)
  BY <1>6 DEF Sum
<1>14. \A c : Value(c)' = Value(c)
  BY <1>1 DEF Value
<1>15. Balanced'
  <2>1. /\ Cardinality(With(Exploring)') = Cardinality(With(Exploring))
        /\ Cardinality(With(Counted)') =
               IF d = "iterations_per_sec" THEN Cardinality(With(Counted)) - 1 ELSE Cardinality(With(Counted))
        /\ Cardinality(With({Suffix3})') = Cardinality(With({Suffix3}))
               + (IF to = Suffix3 THEN 1 ELSE 0) - (IF from = Suffix3 THEN 1 ELSE 0)
        /\ Cardinality(With({Suffix2})') = Cardinality(With({Suffix2}))
               + (IF to = Suffix2 THEN 1 ELSE 0) - (IF from = Suffix2 THEN 1 ELSE 0)
        /\ Cardinality(With({Suffix1})') = Cardinality(With({Suffix1}))
               + (IF to = Suffix1 THEN 1 ELSE 0) - (IF from = Suffix1 THEN 1 ELSE 0)
    <3>1. /\ from \notin Exploring /\ to \notin Exploring /\ from \in Counted
          /\ to \in Counted <=> d # "iterations_per_sec"
      BY <1>3, Members
    <3>2. /\ Cardinality(With(Exploring)') = Cardinality(With(Exploring))
          /\ Cardinality(With(Counted)') =
               IF d = "iterations_per_sec" THEN Cardinality(With(Counted)) - 1 ELSE Cardinality(With(Counted))
      BY <1>2, <1>11, <3>1, WithStep DEF StatInv
    <3>3. QED
      BY <1>2, <3>2, WithStep DEF StatInv
  <2>2. /\ Value("fully_explored")' = Value("fully_explored")
        /\ Value("suggested_moves")' = Value("suggested_moves")
    BY <1>14
  <2>3. /\ Sum("elapsed") \in Nat /\ Sum("iterations") \in Nat
        /\ Sum("tree_size") \in Nat /\ Sum("iterations_per_sec") \in Nat
    BY <1>11 DEF Distributions
  <2>4. CASE d = "elapsed"
    <3>1. from = Suffix4 /\ to = Suffix3
      BY <1>3, <2>4
    <3>2. Cardinality(With({Suffix3})') = Cardinality(With({Suffix3})) + 1
          /\ Cardinality(With({Suffix2})') = Cardinality(With({Suffix2}))
          /\ Cardinality(With({Suffix1})') = Cardinality(With({Suffix1}))
      BY <1>11, <2>1, <3>1, TodosDiffer
    <3>3. /\ Sum("elapsed")' = Sum("elapsed") + 1 /\ Sum("iterations")' = Sum("iterations")
          /\ Sum("tree_size")' = Sum("tree_size")
          /\ Sum("iterations_per_sec")' = Sum("iterations_per_sec")
      BY <1>12, <1>13, <2>4 DEF Distributions
    <3>4. QED
      BY <1>11, <2>1, <2>2, <2>3, <2>4, <3>2, <3>3 DEF StatInv, Balanced
  <2>5. CASE d = "iterations"
    <3>1. from = Suffix3 /\ to = Suffix2
      BY <1>3, <2>5
    <3>2. Cardinality(With({Suffix3})') = Cardinality(With({Suffix3})) - 1
          /\ Cardinality(With({Suffix2})') = Cardinality(With({Suffix2})) + 1
          /\ Cardinality(With({Suffix1})') = Cardinality(With({Suffix1}))
      BY <1>11, <2>1, <3>1, TodosDiffer
    <3>3. /\ Sum("elapsed")' = Sum("elapsed") /\ Sum("iterations")' = Sum("iterations") + 1
          /\ Sum("tree_size")' = Sum("tree_size")
          /\ Sum("iterations_per_sec")' = Sum("iterations_per_sec")
      BY <1>12, <1>13, <2>5 DEF Distributions
    <3>4. QED
      BY <1>11, <2>1, <2>2, <2>3, <2>5, <3>2, <3>3 DEF StatInv, Balanced
  <2>6. CASE d = "tree_size"
    <3>1. from = Suffix2 /\ to = Suffix1
      BY <1>3, <2>6
    <3>2. Cardinality(With({Suffix3})') = Cardinality(With({Suffix3}))
          /\ Cardinality(With({Suffix2})') = Cardinality(With({Suffix2})) - 1
          /\ Cardinality(With({Suffix1})') = Cardinality(With({Suffix1})) + 1
      BY <1>11, <2>1, <3>1, TodosDiffer
    <3>3. /\ Sum("elapsed")' = Sum("elapsed") /\ Sum("iterations")' = Sum("iterations")
          /\ Sum("tree_size")' = Sum("tree_size") + 1
          /\ Sum("iterations_per_sec")' = Sum("iterations_per_sec")
      BY <1>12, <1>13, <2>6 DEF Distributions
    <3>4. QED
      BY <1>11, <2>1, <2>2, <2>3, <2>6, <3>2, <3>3 DEF StatInv, Balanced
  <2>7. CASE d = "iterations_per_sec"
    <3>1. from = Suffix1 /\ to = <<>>
      BY <1>3, <2>7
    <3>2. to # Suffix1 /\ to # Suffix2 /\ to # Suffix3
      BY <3>1, TodosDiffer, Zenon
    <3>3. Cardinality(With({Suffix3})') = Cardinality(With({Suffix3}))
          /\ Cardinality(With({Suffix2})') = Cardinality(With({Suffix2}))
          /\ Cardinality(With({Suffix1})') = Cardinality(With({Suffix1})) - 1
      BY <1>11, <2>1, <3>1, <3>2, TodosDiffer
    <3>4. /\ Sum("elapsed")' = Sum("elapsed") /\ Sum("iterations")' = Sum("iterations")
          /\ Sum("tree_size")' = Sum("tree_size")
          /\ Sum("iterations_per_sec")' = Sum("iterations_per_sec") + 1
      BY <1>12, <1>13, <2>7 DEF Distributions
    <3>5. QED
      BY <1>11, <2>1, <2>2, <2>3, <2>7, <3>3, <3>4 DEF StatInv, Balanced
  <2>8. QED
    BY <1>3, <2>4, <2>5, <2>6, <2>7
<1>16. ReportInv'
  <2>1. ReportIsConsistent'
    BY <1>1, SameReport DEF StatInv, ReportInv
  <2>2. Cardinality(With({Full5})') = Cardinality(With({Full5}))
    <3>1. from \notin {Full5} /\ to \notin {Full5}
      BY <1>3, Members
    <3>2. QED
      BY <1>2, <1>11, <3>1, WithStep DEF StatInv
  <2>3. \A c : Reported(c)' = Reported(c)
    BY <1>1 DEF Reported
  <2>4. QED
    BY <1>1, <1>14, <2>1, <2>2, <2>3 DEF StatInv, ReportInv
<1>17. QED
  BY <1>8, <1>9, <1>10, <1>15, <1>16 DEF StatInv

LEMMA SuggestedKeeps ==
    ASSUME StatInv, NEW r \in Recorders, NEW explored \in BOOLEAN, NEW values,
           Suggested(r, explored, values)
    PROVE  StatInv'
<1>1. /\ counters' = counters /\ buckets' = buckets /\ statusz' = statusz /\ report' = report
      /\ rec' = [rec EXCEPT ![r] = [todo |-> StepsFor(explored), values |-> values]]
      /\ rec[r].todo = <<>>
  BY DEF Suggested, Busy
<1>2. PICK to : to = StepsFor(explored) /\ to \in {Plain6, Full8}
  BY StepsForShape
<1>3. GoesOn(r, <<>>, to)
  <2>1. rec' = [q \in Recorders |-> rec'[q]] /\ rec'[r].todo = to
        /\ \A q \in Recorders \ {r} : rec'[q] = rec[q]
    BY <1>1, <1>2 DEF StatInv, RecType
  <2>2. <<>> \in Todos /\ to \in Todos
    BY <1>2 DEF Todos
  <2>3. QED
    BY <1>1, <2>1, <2>2 DEF GoesOn
<1>4. RecType'
  BY <1>3 DEF GoesOn, StatInv, RecType
<1>5. BucketType'
  BY <1>1 DEF StatInv, BucketType
<1>6. CounterType'
  <2> SUFFICES ASSUME NEW q \in Recorders
               PROVE  /\ rec'[q].todo \in {Plain5, Full7} => "suggested_moves" \in DOMAIN counters
                      /\ rec'[q].todo = Full5 => "fully_explored" \in DOMAIN counters
    BY <1>1 DEF CounterType, StatInv
  <2>1. CASE q = r
    <3>1. to \notin {Plain5, Full7, Full5}
      BY <1>2, TodosDiffer
    <3>2. QED
      BY <1>3, <2>1, <3>1 DEF GoesOn
  <2>2. CASE q # r
    BY <1>3, <2>2 DEF GoesOn, StatInv, CounterType
  <2>3. QED
    BY <2>1, <2>2
<1>7. /\ \A c : Value(c)' = Value(c) /\ Reported(c)' = Reported(c)
      /\ \A d : Sum(d)' = Sum(d)
  BY <1>1 DEF Value, Sum, Reported
<1>8. \A B \in {Counted, Exploring, {Suffix1}, {Suffix2}, {Suffix3}, {Full5}} :
          Cardinality(With(B)') = Cardinality(With(B))
  <2> SUFFICES ASSUME NEW B \in {Counted, Exploring, {Suffix1}, {Suffix2}, {Suffix3}, {Full5}}
               PROVE  Cardinality(With(B)') = Cardinality(With(B))
    OBVIOUS
  <2>1. <<>> \notin B
    BY Members, Zenon
  <2>2. Plain6 \notin B /\ Full8 \notin B
    BY Members, Zenon
  <2>3. to \notin B
    BY <1>2, <2>2
  <2>4. Cardinality(With(B)) \in Nat
    BY StatTypes DEF StatInv
  <2>5. QED
    BY <1>3, <2>1, <2>3, <2>4, WithStep DEF StatInv
<1>9. Balanced'
  BY <1>7, <1>8 DEF StatInv, Balanced
<1>10. ReportInv'
  <2>1. ReportIsConsistent'
    BY <1>1, SameReport DEF StatInv, ReportInv
  <2>2. Cardinality(With({Full5})') = Cardinality(With({Full5}))
    BY <1>8
  <2>3. QED
    BY <1>1, <1>7, <2>1, <2>2 DEF StatInv, ReportInv
<1>11. QED
  BY <1>4, <1>5, <1>6, <1>9, <1>10 DEF StatInv

\* The report changes nothing that is recorded.
LEMMA StatuszKeeps ==
    ASSUME StatInv, Statusz
    PROVE  StatInv'
<1>1. counters' = counters /\ buckets' = buckets /\ rec' = rec
  BY DEF Statusz, LockCounters, ReadCounter, UnlockCounters, CopyDistributions, Answer, NextReport
<1>2. RecType' /\ BucketType' /\ CounterType'
  BY <1>1 DEF StatInv, RecType, BucketType, CounterType
<1>3. /\ \A c : Value(c)' = Value(c)
      /\ \A d : Sum(d)' = Sum(d)
      /\ \A B : With(B)' = With(B)
  BY <1>1 DEF Value, Sum, With
<1>4. Balanced'
  BY <1>3 DEF StatInv, Balanced
<1>5. /\ \A c : Value(c) \in Nat
      /\ \A d \in Distributions : Sum(d) \in Nat
      /\ \A B : IsFiniteSet(With(B)) /\ Cardinality(With(B)) \in Nat
  BY StatTypes DEF StatInv
<1>6. /\ report = [counters |-> report.counters, buckets |-> report.buckets]
      /\ report.counters \in [DOMAIN report.counters -> Nat]
  BY DEF StatInv, ReportInv
<1>7. ReportInv'
  <2>1. CASE LockCounters
    <3>1. statusz' = "counters" /\ report' = report /\ report = Unread
      BY <2>1 DEF LockCounters, StatInv, ReportInv
    <3>2. DOMAIN report.counters = {}
      BY <3>1 DEF Unread
    <3>3. Value("fully_explored") + Cardinality(With({Full5})) =< Value("suggested_moves")
      <4>1. With({Full5}) \subseteq With(Exploring)
        BY DEF With, Exploring
      <4>2. Cardinality(With({Full5})) =< Cardinality(With(Exploring))
        BY <1>5, <4>1, FS_Subset
      <4>3. QED
        BY <1>5, <4>2 DEF StatInv, Balanced
    <3>4. ReportIsConsistent'
      BY <3>1 DEF ReportIsConsistent
    <3>5. QED
      BY <1>1, <1>3, <1>6, <3>1, <3>2, <3>3, <3>4 DEF ReportInv
  <2>2. CASE ReadCounter
    <3>1. PICK x \in DOMAIN counters \ DOMAIN report.counters :
              report' = [report EXCEPT !.counters =
                  [y \in DOMAIN @ \cup {x} |-> IF y = x THEN counters[x] ELSE @[y]]]
      BY <2>2 DEF ReadCounter
    <3>2. statusz = "counters" /\ statusz' = "counters"
      BY <2>2 DEF ReadCounter
    <3>3. /\ report'.counters = [y \in DOMAIN report.counters \cup {x} |->
                                    IF y = x THEN counters[x] ELSE report.counters[y]]
          /\ report' = [counters |-> report'.counters, buckets |-> report'.buckets]
      BY <1>6, <3>1
    <3>4. counters[x] = Value(x) /\ counters[x] \in Nat
      BY DEF Value, StatInv, CounterType
    <3>5. /\ DOMAIN report'.counters = DOMAIN report.counters \cup {x}
          /\ report'.counters[x] = Value(x)
          /\ \A y \in DOMAIN report.counters : report'.counters[y] = report.counters[y]
          /\ report'.counters \in [DOMAIN report'.counters -> Nat]
      BY <1>6, <3>3, <3>4
    <3>6. /\ DOMAIN report.counters \subseteq DOMAIN counters
          /\ \A c \in DOMAIN report.counters : report.counters[c] =< Value(c)
          /\ Value("fully_explored") + Cardinality(With({Full5})) =<
                 (IF "suggested_moves" \in DOMAIN report.counters
                  THEN report.counters["suggested_moves"] ELSE Value("suggested_moves"))
      BY <3>2 DEF StatInv, ReportInv
    <3>7. \A c \in DOMAIN report'.counters : report'.counters[c] =< Value(c)
      BY <1>5, <3>5, <3>6
    <3>8. Value("fully_explored") + Cardinality(With({Full5})) =<
              (IF "suggested_moves" \in DOMAIN report'.counters
               THEN report'.counters["suggested_moves"] ELSE Value("suggested_moves"))
      BY <3>5, <3>6
    <3>9. ReportIsConsistent'
      BY <3>2 DEF ReportIsConsistent
    <3>10. QED
      BY <1>1, <1>3, <3>2, <3>3, <3>5, <3>6, <3>7, <3>8, <3>9 DEF ReportInv
  <2>3. CASE UnlockCounters
    <3>1. /\ statusz = "counters" /\ statusz' = "distributions" /\ report' = report
          /\ DOMAIN report.counters = DOMAIN counters
      BY <2>3 DEF UnlockCounters
    <3>2. /\ \A c \in DOMAIN report.counters : report.counters[c] =< Value(c)
          /\ Value("fully_explored") + Cardinality(With({Full5})) =<
                 (IF "suggested_moves" \in DOMAIN report.counters
                  THEN report.counters["suggested_moves"] ELSE Value("suggested_moves"))
      BY <3>1 DEF StatInv, ReportInv
    <3>3. \A c : Reported(c) \in Nat /\ Reported(c) =< Value(c)
      BY <1>5, <1>6, <3>1, <3>2 DEF Reported
    <3>4. Value("fully_explored") + Cardinality(With({Full5})) =< Reported("suggested_moves")
      BY <3>1, <3>2 DEF Reported, Value
    <3>5. Reported("fully_explored") =< Reported("suggested_moves")
      <4>1. /\ Reported("fully_explored") =< Value("fully_explored")
            /\ Reported("fully_explored") \in Nat /\ Reported("suggested_moves") \in Nat
            /\ Value("fully_explored") \in Nat /\ Cardinality(With({Full5})) \in Nat
        BY <1>5, <3>3
      <4>2. QED
        BY <3>4, <4>1
    <3>6. ReportIsConsistent'
      BY <3>1 DEF ReportIsConsistent
    <3>7. \A c : Reported(c)' = Reported(c)
      BY <3>1 DEF Reported
    <3>8. QED
      BY <1>3, <1>6, <3>1, <3>3, <3>5, <3>6, <3>7 DEF ReportInv
  <2>4. CASE CopyDistributions
    <3>1. /\ statusz = "distributions" /\ statusz' = "encode"
          /\ report' = [report EXCEPT !.buckets = buckets]
      BY <2>4 DEF CopyDistributions
    <3>2. report'.counters = report.counters /\ report'.buckets = buckets
          /\ report' = [counters |-> report'.counters, buckets |-> report'.buckets]
      BY <1>6, <3>1
    <3>3. /\ \A c : Reported(c)' = Reported(c)
          /\ \A d : Total(d)' = Sum(d)
      BY <3>2 DEF Reported, Total, Sum
    <3>4. /\ Reported("fully_explored") =< Reported("suggested_moves")
          /\ Reported("suggested_moves") =< Value("suggested_moves")
          /\ Reported("suggested_moves") \in Nat
      BY <1>6, <3>1 DEF StatInv, ReportInv, Reported
    <3>5. /\ Sum("elapsed") \in Nat /\ Sum("iterations") \in Nat
          /\ Sum("tree_size") \in Nat /\ Sum("iterations_per_sec") \in Nat
      BY <1>5 DEF Distributions
    <3>6. /\ Sum("elapsed") >= Sum("iterations") /\ Sum("iterations") >= Sum("tree_size")
          /\ Sum("tree_size") >= Sum("iterations_per_sec")
      BY <1>5, <3>5 DEF StatInv, Balanced
    <3>7. Reported("suggested_moves") =< Sum("iterations_per_sec") + Cardinality(Recorders)
      <4>1. With(Counted) \subseteq Recorders
        BY DEF With
      <4>2. Cardinality(With(Counted)) =< Cardinality(Recorders) /\ Cardinality(Recorders) \in Nat
        BY <4>1, StatisticsAssumption, FS_Subset, FS_CardinalityType
      <4>3. Value("suggested_moves") = Sum("iterations_per_sec") + Cardinality(With(Counted))
        BY DEF StatInv, Balanced
      <4>4. QED
        BY <1>5, <3>4, <3>5, <4>2, <4>3
    <3>8. ReportIsConsistent'
      BY <3>3, <3>4, <3>6, <3>7 DEF ReportIsConsistent
    <3>9. QED
      BY <1>6, <3>1, <3>2, <3>8 DEF ReportInv
  <2>5. CASE Answer
    <3>1. statusz = "encode" /\ statusz' \in {"answered", "panicked"} /\ report' = report
      BY <2>5 DEF Answer
    <3>2. ReportIsConsistent'
      BY <3>1 DEF StatInv, ReportInv, ReportIsConsistent, Reported, Total
    <3>3. QED
      BY <1>6, <3>1, <3>2 DEF ReportInv
  <2>6. CASE NextReport
    <3>1. statusz' = "idle" /\ report' = Unread
      BY <2>6 DEF NextReport
    <3>2. /\ report' = [counters |-> report'.counters, buckets |-> report'.buckets]
          /\ report'.counters \in [DOMAIN report'.counters -> Nat]
      BY <3>1 DEF Unread
    <3>3. ReportIsConsistent'
      BY <3>1 DEF ReportIsConsistent
    <3>4. QED
      BY <3>1, <3>2, <3>3 DEF ReportInv
  <2>7. QED
    BY <2>1, <2>2, <2>3, <2>4, <2>5, <2>6 DEF Statusz
<1>8. QED
  BY <1>2, <1>4, <1>7 DEF StatInv

LEMMA StatInitial == StatInit => StatInv
<1> SUFFICES ASSUME StatInit PROVE StatInv
  OBVIOUS
<1>1. /\ counters = <<>> /\ buckets = [d \in Distributions |-> Started(d)]
      /\ rec = [r \in Recorders |-> [todo |-> <<>>, values |-> <<>>]]
      /\ statusz = "idle" /\ report = Unread
  BY DEF StatInit
<1>2. DOMAIN counters = {} /\ counters \in [DOMAIN counters -> Nat]
  BY <1>1
<1>3. RecType
  BY <1>1 DEF RecType, Todos
<1>4. BucketType
  BY <1>1 DEF BucketType, Started, Buckets
<1>5. CounterType
  <2>1. <<>> \notin {Plain5, Full7, Full5}
    BY TodosDiffer, Zenon
  <2>2. \A r \in Recorders : rec[r].todo = <<>>
    BY <1>1
  <2>3. QED
    BY <1>2, <2>1, <2>2 DEF CounterType
<1>6. \A d \in Distributions : Sum(d) = 0
  <2> TAKE d \in Distributions
  <2>1. buckets[d] \in [Buckets(d) -> {0}]
    BY <1>1 DEF Started, Buckets
  <2>2. QED
    BY <2>1, SumOfZeros DEF Sum
<1>7. \A c : Value(c) = 0
  BY <1>2 DEF Value
<1>8. \A B : <<>> \notin B => Cardinality(With(B)) = 0
  <2> SUFFICES ASSUME NEW B, <<>> \notin B PROVE Cardinality(With(B)) = 0
    OBVIOUS
  <2>1. With(B) = {}
    BY <1>1 DEF With
  <2>2. QED
    BY <2>1, FS_EmptySet
<1>9. /\ Cardinality(With(Counted)) = 0 /\ Cardinality(With(Exploring)) = 0
      /\ Cardinality(With({Suffix1})) = 0 /\ Cardinality(With({Suffix2})) = 0
      /\ Cardinality(With({Suffix3})) = 0
  <2>1. /\ <<>> \notin Counted /\ <<>> \notin Exploring /\ <<>> \notin {Suffix1}
        /\ <<>> \notin {Suffix2} /\ <<>> \notin {Suffix3}
    BY Members, Zenon
  <2>2. QED
    BY <1>8, <2>1, Zenon
<1>10. Balanced
  BY <1>6, <1>7, <1>9 DEF Balanced, Distributions
<1>11. ReportInv
  BY <1>1 DEF ReportInv, Unread, ReportIsConsistent
<1>12. QED
  BY <1>3, <1>4, <1>5, <1>10, <1>11 DEF StatInv

\* All that the computer player does with the statistics.
LEMMA StatStep ==
    ASSUME StatInv, [Next]_vars
    PROVE  StatInv'
<1>1. CASE UNCHANGED statVars
  <2>1. /\ counters' = counters /\ buckets' = buckets /\ rec' = rec
        /\ statusz' = statusz /\ report' = report
    BY <1>1 DEF statVars
  <2>2. RecType' /\ BucketType' /\ CounterType'
    BY <2>1 DEF StatInv, RecType, BucketType, CounterType
  <2>3. Balanced'
    BY <2>1 DEF StatInv, Balanced, Value, Sum, With
  <2>4. ReportIsConsistent'
    BY <2>1, SameReport DEF StatInv, ReportInv
  <2>5. ReportInv'
    BY <2>1, <2>4 DEF StatInv, ReportInv, Value, Sum, With, Reported
  <2>6. QED
    BY <2>2, <2>3, <2>5 DEF StatInv
<1>2. CASE HumanMove \/ TakeRequest \/ SearchStepOnly \/ Return \/ UNCHANGED vars
  <2>1. UNCHANGED statVars
    BY <1>2 DEF HumanMove, TakeRequest, SearchStepOnly, Return, vars
  <2>2. QED
    BY <1>1, <2>1
<1>3. CASE SendMove
  <2>1. PICK values : Suggested(Cpu, root \in done, values)
    BY <1>3 DEF SendMove
  <2>2. (root \in done) \in BOOLEAN
    OBVIOUS
  <2>3. QED
    BY <2>1, <2>2, SuggestedKeeps, CpuAssumption
<1>4. CASE OtherSuggested
  BY <1>4, SuggestedKeeps, CpuAssumption DEF OtherSuggested
<1>5. CASE RecordStep
  BY <1>5, FindKeeps, IncrementKeeps, AddKeeps DEF RecordStep, Record
<1>6. CASE StatuszStep
  BY <1>6, StatuszKeeps DEF StatuszStep
<1>7. QED
  BY <1>2, <1>3, <1>4, <1>5, <1>6 DEF Next

\* /statusz (server.go:898-958) reports counters and distributions read at different
\* times, while computer players record: more moves than explorations, and the later
\* distributions lack at most one value for each computer player.
THEOREM ReportConsistent == Spec => []ReportIsConsistent
<1>1. Init => StatInv
  BY StatInitial DEF Init
<1>2. StatInv /\ [Next]_vars => StatInv'
  BY StatStep
<1>3. StatInv => ReportIsConsistent
  BY DEF StatInv, ReportInv
<1>4. QED
  BY <1>1, <1>2, <1>3, PTL DEF Spec

-----------------------------------------------------------------------------
(* Nodes, which are sequences of moves.                                    *)

\* Moves are members of a finite set.
FiniteMoves(M) ==
    /\ IsFiniteSet(M)
    /\ \A n \in Seq(M) : NormalMoves(n) \subseteq M /\ FlagMoves(n) \subseteq M

LEMMA Prefix ==
    ASSUME NEW M, NEW n \in Seq(M), NEW k \in 0..Len(n)
    PROVE  /\ SubSeq(n, 1, k) \in Seq(M) /\ Len(SubSeq(n, 1, k)) = k
           /\ \A j \in 1..k : SubSeq(n, 1, k)[j] = n[j]
  BY SubSeqProperties

LEMMA PrefixOfPrefix ==
    ASSUME NEW M, NEW n \in Seq(M), NEW k \in 0..Len(n), NEW j \in 0..k
    PROVE  SubSeq(SubSeq(n, 1, k), 1, j) = SubSeq(n, 1, j)
<1> DEFINE p == SubSeq(n, 1, k)
<1>1. p \in Seq(M) /\ Len(p) = k /\ \A i1 \in 1..k : p[i1] = n[i1]
  BY Prefix
<1> HIDE DEF p
<1>2. j \in 0..Len(p) /\ j \in 0..Len(n)
  BY <1>1
<1> DEFINE q == SubSeq(p, 1, j)
           r == SubSeq(n, 1, j)
<1>3. q \in Seq(M) /\ Len(q) = j /\ \A i1 \in 1..j : q[i1] = p[i1]
  BY <1>1, <1>2, Prefix
<1>4. r \in Seq(M) /\ Len(r) = j /\ \A i1 \in 1..j : r[i1] = n[i1]
  BY <1>2, Prefix
<1> HIDE DEF q, r
<1>5. \A i1 \in 1..Len(q) : q[i1] = r[i1]
  BY <1>1, <1>3, <1>4
<1>6. q = r
  BY <1>3, <1>4, <1>5, SeqEqual
<1>7. QED
  BY <1>6 DEF p, q, r

LEMMA WholePrefix ==
    ASSUME NEW M, NEW n \in Seq(M)
    PROVE  SubSeq(n, 1, Len(n)) = n /\ Len(n) \in Nat
<1>1. Len(n) \in Nat /\ Len(n) \in 0..Len(n)
  OBVIOUS
<1>2. QED
  BY <1>1, Prefix, SeqEqual

\* A node and one of its children.
IsNext(n, m, c) == c = Append(n, m)

LEMMA ChildOf ==
    ASSUME NEW M, NEW n \in Seq(M), NEW m \in M, NEW c, IsNext(n, m, c)
    PROVE  /\ c \in Seq(M) /\ Len(c) = Len(n) + 1 /\ Parent(c) = n /\ Len(n) \in Nat
           /\ \A k \in 0..Len(n) : SubSeq(c, 1, k) = SubSeq(n, 1, k)
<1>1. /\ c \in Seq(M) /\ Len(c) = Len(n) + 1 /\ Len(n) \in Nat
      /\ \A k \in 1..Len(n) : c[k] = n[k]
  BY AppendProperties DEF IsNext
<1>2. ASSUME NEW k \in 0..Len(n) PROVE SubSeq(c, 1, k) = SubSeq(n, 1, k)
  <2>1. k \in 0..Len(c)
    BY <1>1
  <2> DEFINE q == SubSeq(c, 1, k)
             r == SubSeq(n, 1, k)
  <2>2. q \in Seq(M) /\ Len(q) = k /\ \A j \in 1..k : q[j] = c[j]
    BY <1>1, <2>1, Prefix
  <2>3. r \in Seq(M) /\ Len(r) = k /\ \A j \in 1..k : r[j] = n[j]
    BY Prefix
  <2> HIDE DEF q, r
  <2>4. \A j \in 1..Len(q) : q[j] = r[j]
    BY <1>1, <2>2, <2>3
  <2>5. q = r
    BY <2>2, <2>3, <2>4, SeqEqual
  <2>6. QED
    BY <2>5 DEF q, r
<1>3. Parent(c) = n
  <2>1. Parent(c) = SubSeq(c, 1, Len(n))
    BY <1>1 DEF Parent
  <2>2. QED
    BY <1>1, <1>2, <2>1, WholePrefix
<1>4. QED
  BY <1>1, <1>2, <1>3

\* Trees that grow from rt, with all nodes on the way.
IsTree(T, rt, M) ==
    /\ T \subseteq Seq(M) /\ IsFiniteSet(T) /\ rt \in T
    /\ \A n \in T :
          /\ Len(n) >= Len(rt) /\ SubSeq(n, 1, Len(rt)) = rt
          /\ \A k \in Len(rt)..Len(n) : SubSeq(n, 1, k) \in T

ChildrenIn(T, n) == {c \in T : Len(c) = Len(n) + 1 /\ Parent(c) = n}
PathFrom(rt, n) == {SubSeq(n, 1, k) : k \in Len(rt)..Len(n)}

LEMMA TreeParent ==
    ASSUME NEW M, NEW T, NEW rt, IsTree(T, rt, M), NEW n \in T, n # rt
    PROVE  Parent(n) \in T /\ n \in ChildrenIn(T, Parent(n)) /\ Len(n) > Len(rt)
<1>1. n \in Seq(M) /\ rt \in Seq(M) /\ Len(n) \in Nat /\ Len(rt) \in Nat /\ Len(n) >= Len(rt)
      /\ SubSeq(n, 1, Len(rt)) = rt
  BY DEF IsTree
<1>2. Len(n) # Len(rt)
  BY <1>1, WholePrefix
<1>3. Len(n) > Len(rt) /\ Len(n) - 1 \in Len(rt)..Len(n) /\ Len(n) - 1 \in 0..Len(n)
  BY <1>1, <1>2
<1>4. Parent(n) \in T
  BY <1>3 DEF IsTree, Parent
<1>5. Len(Parent(n)) = Len(n) - 1
  BY <1>1, <1>3, Prefix DEF Parent
<1>6. Len(n) = Len(Parent(n)) + 1
  BY <1>1, <1>5
<1>7. QED
  BY <1>3, <1>4, <1>6 DEF ChildrenIn

\* The path to c passes through exactly one child of a node before c, through none of
\* the others, and only through nodes of the tree.
LEMMA PathThroughChildren ==
    ASSUME NEW M, NEW T, NEW rt, IsTree(T, rt, M), NEW c \in T, NEW n \in T
    PROVE  /\ PathFrom(rt, c) \subseteq T /\ rt \in PathFrom(rt, c) /\ c \in PathFrom(rt, c)
           /\ n \in PathFrom(rt, c) /\ n # c =>
                  \E x \in ChildrenIn(T, n) : ChildrenIn(T, n) \cap PathFrom(rt, c) = {x}
           /\ n \notin PathFrom(rt, c) => ChildrenIn(T, n) \cap PathFrom(rt, c) = {}
<1>1. /\ c \in Seq(M) /\ n \in Seq(M) /\ rt \in Seq(M)
      /\ Len(c) \in Nat /\ Len(n) \in Nat /\ Len(rt) \in Nat
      /\ Len(c) >= Len(rt) /\ Len(n) >= Len(rt) /\ SubSeq(c, 1, Len(rt)) = rt
      /\ \A k \in Len(rt)..Len(c) : SubSeq(c, 1, k) \in T
  BY DEF IsTree
<1>2. \A k \in Len(rt)..Len(c) : k \in 0..Len(c) /\ k \in Nat /\ Len(SubSeq(c, 1, k)) = k
  BY <1>1, Prefix
<1>3. PathFrom(rt, c) \subseteq T /\ rt \in PathFrom(rt, c)
  <2>1. Len(rt) \in Len(rt)..Len(c)
    BY <1>1
  <2>2. SubSeq(c, 1, Len(rt)) \in PathFrom(rt, c)
    BY <2>1 DEF PathFrom
  <2>3. PathFrom(rt, c) \subseteq T
    BY <1>1 DEF PathFrom
  <2>4. QED
    BY <1>1, <2>2, <2>3
<1>4. c \in PathFrom(rt, c)
  BY <1>1, WholePrefix DEF PathFrom
<1>5. ASSUME n \in PathFrom(rt, c), n # c
      PROVE  \E x \in ChildrenIn(T, n) : ChildrenIn(T, n) \cap PathFrom(rt, c) = {x}
  <2>1. PICK k \in Len(rt)..Len(c) : n = SubSeq(c, 1, k)
    BY <1>5 DEF PathFrom
  <2>2. k # Len(c)
    BY <1>1, <1>5, <2>1, WholePrefix
  <2>3. k + 1 \in Len(rt)..Len(c) /\ k + 1 \in 0..Len(c) /\ k \in 0..(k + 1) /\ Len(n) = k
    BY <1>1, <1>2, <2>1, <2>2
  <2> DEFINE x == SubSeq(c, 1, k + 1)
  <2>4. x \in T /\ x \in PathFrom(rt, c) /\ Len(x) = k + 1
    BY <1>1, <1>2, <2>3 DEF PathFrom
  <2>5. Parent(x) = n
    <3>1. Parent(x) = SubSeq(x, 1, k)
      BY <2>3, <2>4 DEF Parent
    <3>2. QED
      BY <1>1, <2>1, <2>3, <3>1, PrefixOfPrefix
  <2>6. ASSUME NEW y \in ChildrenIn(T, n) \cap PathFrom(rt, c) PROVE y = x
    <3>1. PICK j \in Len(rt)..Len(c) : y = SubSeq(c, 1, j)
      BY <2>6 DEF PathFrom
    <3>2. j = Len(y) /\ Len(y) = k + 1
      BY <1>2, <2>3, <2>6, <3>1 DEF ChildrenIn
    <3>3. QED
      BY <3>1, <3>2
  <2>7. x \in ChildrenIn(T, n)
    BY <2>3, <2>4, <2>5 DEF ChildrenIn
  <2> HIDE DEF x
  <2>8. QED
    BY <2>4, <2>6, <2>7
<1>6. ASSUME n \notin PathFrom(rt, c), NEW y \in ChildrenIn(T, n) \cap PathFrom(rt, c)
      PROVE  FALSE
  <2>1. PICK j \in Len(rt)..Len(c) : y = SubSeq(c, 1, j)
    BY <1>6 DEF PathFrom
  <2>2. j = Len(y) /\ Len(y) = Len(n) + 1 /\ Parent(y) = n
    BY <1>2, <1>6, <2>1 DEF ChildrenIn
  <2>3. j \in 0..Len(c) /\ j - 1 \in 0..j /\ j - 1 \in Len(rt)..Len(c)
    BY <1>1, <2>2
  <2>4. n = SubSeq(y, 1, j - 1)
    BY <2>2 DEF Parent
  <2>5. n = SubSeq(c, 1, j - 1)
    BY <1>1, <2>1, <2>3, <2>4, PrefixOfPrefix
  <2>6. QED
    BY <1>6, <2>3, <2>5 DEF PathFrom
<1>7. QED
  BY <1>3, <1>4, <1>5, <1>6

\* The games of the children of n, when one more is played on the path to c.
SumIn(T, f, n) == SumOf([x \in ChildrenIn(T, n) |-> f[x]])
OneMore(T, f, g, P) ==
    f \in [T -> Nat] /\ g = [n \in T |-> f[n] + (IF n \in P THEN 1 ELSE 0)]

LEMMA ChildrenPlayed ==
    ASSUME NEW M, NEW T, NEW rt, IsTree(T, rt, M), NEW c \in T, NEW n \in T,
           NEW f, NEW g, OneMore(T, f, g, PathFrom(rt, c))
    PROVE  /\ SumIn(T, f, n) \in Nat
           /\ n \in PathFrom(rt, c) /\ n # c => SumIn(T, g, n) = SumIn(T, f, n) + 1
           /\ n \notin PathFrom(rt, c) => SumIn(T, g, n) = SumIn(T, f, n)
<1> DEFINE C == ChildrenIn(T, n)
           P == PathFrom(rt, c)
           F == [x \in C |-> f[x]]
           G == [x \in C |-> g[x]]
<1>1. C \subseteq T /\ IsFiniteSet(C)
  BY FS_Subset DEF IsTree, ChildrenIn
<1>2. F \in [C -> Nat] /\ G \in [C -> Nat]
  BY <1>1 DEF OneMore
<1>3. \A x \in C : F[x] = f[x] /\ G[x] = F[x] + (IF x \in P THEN 1 ELSE 0) /\ F[x] \in Nat
  BY <1>1 DEF OneMore
<1>4. SumIn(T, f, n) = SumOf(F) /\ SumIn(T, g, n) = SumOf(G)
  BY DEF SumIn
<1> HIDE DEF C, P, F, G
<1>5. SumOf(F) \in Nat
  BY <1>1, <1>2, SumIsNat
<1>6. ASSUME n \in P, n # c PROVE SumOf(G) = SumOf(F) + 1
  <2>1. PICK x \in C : C \cap P = {x}
    BY <1>6, PathThroughChildren DEF C, P
  <2>2. x \in P /\ \A y \in C \ {x} : y \notin P
    BY <2>1
  <2>3. G[x] = F[x] + 1 /\ F[x] \in Nat /\ \A y \in C \ {x} : G[y] = F[y]
    BY <1>3, <2>2
  <2>4. SumOf(G) = SumOf(F) - F[x] + G[x]
    BY <1>1, <1>2, <2>3, SumChange
  <2>5. QED
    BY <1>5, <2>3, <2>4
<1>7. ASSUME n \notin P PROVE SumOf(G) = SumOf(F)
  <2>1. \A x \in C : x \notin P
    BY <1>7, PathThroughChildren DEF C, P
  <2>2. F = G
    BY <1>2, <1>3, <2>1
  <2>3. QED
    BY <2>2
<1>8. QED
  BY <1>4, <1>5, <1>6, <1>7 DEF P

-----------------------------------------------------------------------------
(* The search.                                                             *)

TreeInv(M) ==
    /\ search \in {"idle", "loop", "descend", "unwind", "returned"}
    /\ position \in Seq(M) /\ best \in Seq(M)
    /\ IsTree(tree, root, M) /\ at \in tree /\ done \subseteq tree
    /\ count \in [tree -> Nat] /\ wins \in [tree -> Nat] /\ liveChildren \in [tree -> Nat]
    /\ search \in {"idle", "loop", "returned"} => at = root
    /\ search # "idle" => ~Over(root)
    /\ search = "descend" => at \notin done /\ ~Over(at)
    /\ \A n \in tree : Children(n) # {} => ~Over(n)

\* Children that are not done, or whose call of run has yet to return.
Live(n) == {c \in Children(n) : c \notin done \/ Returning(c)}
LiveInv ==
    \A n \in tree :
        /\ Children(n) # {} => liveChildren[n] = Cardinality(Live(n))
        /\ Children(n) # {} => (n \in done <=> liveChildren[n] = 0)
        /\ Children(n) = {} /\ n \in done => Over(n)

\* A node without children was played at most once, when it was added.
GamesInv ==
    \A n \in tree :
        /\ wins[n] =< 2 * count[n]
        /\ Children(n) = {} /\ ~Over(n) => count[n] =< 1 /\ (n = root => count[n] = 0)
        /\ Children(n) # {} =>
              /\ count[n] > 0
              /\ count[n] - SumIn(tree, count, n) \in (IF n = root THEN {0} ELSE {0, 1})

SearchInv(M) == TreeInv(M) /\ LiveInv /\ GamesInv

LEMMA TreeFacts ==
    ASSUME NEW M, TreeInv(M)
    PROVE  /\ tree \subseteq Seq(M) /\ root \in tree /\ IsFiniteSet(tree)
           /\ \A n \in tree : /\ Len(n) \in Nat /\ Len(root) \in Nat /\ Len(n) >= Len(root)
                              /\ Children(n) = ChildrenIn(tree, n) /\ Path(n) = PathFrom(root, n)
                              /\ Children(n) \subseteq tree /\ n \notin Children(n)
                              /\ IsFiniteSet(Children(n)) /\ Cardinality(Children(n)) \in Nat
                              /\ root \notin Children(n)
                              /\ n # root => Parent(n) \in tree /\ n \in Children(Parent(n))
<1>1. IsTree(tree, root, M)
  BY DEF TreeInv
<1>2. tree \subseteq Seq(M) /\ root \in tree /\ IsFiniteSet(tree)
  BY <1>1 DEF IsTree
<1>3. ASSUME NEW n \in tree
      PROVE  /\ Len(n) \in Nat /\ Len(root) \in Nat /\ Len(n) >= Len(root)
             /\ Children(n) = ChildrenIn(tree, n) /\ Path(n) = PathFrom(root, n)
             /\ Children(n) \subseteq tree /\ n \notin Children(n)
             /\ IsFiniteSet(Children(n)) /\ Cardinality(Children(n)) \in Nat
             /\ root \notin Children(n)
             /\ n # root => Parent(n) \in tree /\ n \in Children(Parent(n))
  <2>1. Len(n) \in Nat /\ Len(root) \in Nat /\ Len(n) >= Len(root)
    BY <1>1, <1>2 DEF IsTree
  <2>2. \A x : Children(x) = ChildrenIn(tree, x) /\ Path(x) = PathFrom(root, x)
    BY DEF Children, ChildrenIn, Path, PathFrom
  <2>3. Children(n) \subseteq tree /\ \A c \in Children(n) : Len(c) = Len(n) + 1
    BY DEF Children
  <2>4. IsFiniteSet(Children(n)) /\ Cardinality(Children(n)) \in Nat
    BY <1>2, <2>3, FS_Subset, FS_CardinalityType
  <2>5. n \notin Children(n) /\ root \notin Children(n)
    BY <2>1, <2>3
  <2>6. n # root => Parent(n) \in tree /\ n \in Children(Parent(n))
    BY <1>1, <2>2, TreeParent
  <2>7. QED
    BY <2>1, <2>2, <2>3, <2>4, <2>5, <2>6
<1>4. QED
  BY <1>2, <1>3

\* A new tree.
LEMMA NewTreeKeeps ==
    ASSUME NEW M, NEW p \in Seq(M), root' = p, tree' = {p}, count' = [n \in {p} |-> 0],
           wins' = [n \in {p} |-> 0], done' = {}, liveChildren' = [n \in {p} |-> 0], at' = p,
           best' = p, position' \in Seq(M),
           search' \in {"idle", "loop"}, search' = "loop" => ~Over(p)
    PROVE  SearchInv(M)'
<1>1. Len(p) \in Nat /\ SubSeq(p, 1, Len(p)) = p
  BY WholePrefix
<1>2. IsTree({p}, p, M)
  <2>1. IsFiniteSet({p})
    BY FS_Singleton
  <2>2. \A l \in Nat : l..l = {l}
    OBVIOUS
  <2>3. QED
    BY <1>1, <2>1, <2>2 DEF IsTree
<1>3. \A n \in {p} : Children(n)' = {}
  BY <1>1 DEF Children
<1>4. TreeInv(M)'
  BY <1>2, <1>3 DEF TreeInv
<1>5. LiveInv'
  BY <1>3 DEF LiveInv
<1>6. GamesInv'
  BY <1>3 DEF GamesInv
<1>7. QED
  BY <1>4, <1>5, <1>6 DEF SearchInv

\* A step that only goes to another node, or begins or ends an iteration.
LEMMA OtherNodeKeeps ==
    ASSUME NEW M, SearchInv(M), UNCHANGED treeVars,
           search' \in {"loop", "descend", "unwind", "returned"}, at' \in tree,
           position' \in Seq(M), best' \in Seq(M), ~Over(root),
           search' \in {"loop", "returned"} => at' = root,
           search' = "descend" => at' \notin done /\ ~Over(at'),
           \A n \in tree : \A c \in Children(n) : ~Returning(c) /\ ~Returning(c)'
    PROVE  SearchInv(M)'
<1>1. /\ root' = root /\ tree' = tree /\ count' = count /\ wins' = wins /\ done' = done
      /\ liveChildren' = liveChildren
  BY DEF treeVars
<1>2. \A n : Children(n)' = Children(n)
  BY <1>1 DEF Children
<1>3. TreeInv(M)'
  BY <1>1, <1>2 DEF SearchInv, TreeInv
<1>4. \A n \in tree : Live(n)' = Live(n)
  BY <1>1, <1>2 DEF Live
<1>5. LiveInv'
  BY <1>1, <1>2, <1>4 DEF SearchInv, LiveInv
<1>6. GamesInv'
  BY <1>1, <1>2 DEF SearchInv, GamesInv
<1>7. QED
  BY <1>3, <1>5, <1>6 DEF SearchInv

LEMMA QuietSteps ==
    ASSUME NEW M, SearchInv(M), position' = position,
           StartIteration \/ Descend \/ EndIteration \/ ReturnBest
    PROVE  SearchInv(M)'
<1>1. /\ tree \subseteq Seq(M) /\ root \in tree /\ at \in tree
      /\ position \in Seq(M) /\ best \in Seq(M)
      /\ search \in {"idle", "loop", "returned"} => at = root
      /\ search # "idle" => ~Over(root)
      /\ search = "descend" => at \notin done
  BY TreeFacts DEF SearchInv, TreeInv
<1>2. \A n \in tree : Children(n) \subseteq tree /\ root \notin Children(n)
  BY TreeFacts DEF SearchInv
<1>3. CASE StartIteration
  <2>1. /\ search = "loop" /\ root \notin done /\ search' = "descend"
        /\ UNCHANGED treeVars /\ at' = at /\ best' = best
    BY <1>3 DEF StartIteration
  <2>2. \A c : ~Returning(c) /\ ~Returning(c)'
    BY <2>1 DEF Returning
  <2>3. QED
    BY <1>1, <2>1, <2>2, OtherNodeKeeps
<1>4. CASE Descend
  <2>1. PICK c \in Candidates(at) : ~Over(c) /\ at' = c
    BY <1>4 DEF Descend
  <2>2. search = "descend" /\ search' = search /\ UNCHANGED treeVars /\ best' = best
    BY <1>4 DEF Descend
  <2>3. c \in Children(at) /\ c \notin done
    BY <2>1 DEF Candidates
  <2>4. \A x : ~Returning(x) /\ ~Returning(x)'
    BY <2>2 DEF Returning
  <2>5. QED
    BY <1>1, <1>2, <2>1, <2>2, <2>3, <2>4, OtherNodeKeeps
<1>5. CASE EndIteration
  <2>1. /\ search = "unwind" /\ at = root /\ search' = "loop"
        /\ UNCHANGED treeVars /\ at' = at /\ best' = best
    BY <1>5 DEF EndIteration
  <2>2. \A n \in tree : \A c \in Children(n) : ~Returning(c) /\ ~Returning(c)'
    BY <1>2, <2>1 DEF Returning
  <2>3. QED
    BY <1>1, <2>1, <2>2, OtherNodeKeeps
<1>6. CASE ReturnBest
  <2>1. PICK c \in Children(root) : best' = c
    BY <1>6 DEF ReturnBest
  <2>2. search = "loop" /\ search' = "returned" /\ UNCHANGED treeVars /\ at' = at
    BY <1>6 DEF ReturnBest
  <2>3. \A x : ~Returning(x) /\ ~Returning(x)'
    BY <2>2 DEF Returning
  <2>4. best' \in Seq(M)
    BY <1>1, <1>2, <2>1
  <2>5. QED
    BY <1>1, <2>2, <2>3, <2>4, OtherNodeKeeps
<1>7. QED
  BY <1>3, <1>4, <1>5, <1>6

\* On the way back from at to p, at is taken off the live children of p.
LEMMA UnwindKeeps ==
    ASSUME NEW M, SearchInv(M), position' = position, Unwind
    PROVE  SearchInv(M)'
<1>0. PICK p : p = Parent(at)
  OBVIOUS
<1>1. /\ search = "unwind" /\ search' = "unwind" /\ at # root /\ at' = p
      /\ root' = root /\ tree' = tree /\ count' = count /\ wins' = wins /\ best' = best
  BY <1>0 DEF Unwind
<1>2. /\ at \in tree /\ done \subseteq tree /\ liveChildren \in [tree -> Nat]
      /\ root \in tree /\ ~Over(root) /\ position \in Seq(M) /\ best \in Seq(M)
  BY <1>1, TreeFacts DEF SearchInv, TreeInv
<1>3. p \in tree /\ at \in Children(p)
  BY <1>0, <1>1, <1>2, TreeFacts DEF SearchInv
<1>4. \A n : Children(n)' = Children(n)
  BY <1>1 DEF Children
<1>5. \A n \in tree : IsFiniteSet(Live(n)) /\ n \notin Children(n) /\ Children(n) \subseteq tree
  <2> TAKE n \in tree
  <2>1. IsFiniteSet(Children(n)) /\ n \notin Children(n) /\ Children(n) \subseteq tree
    BY TreeFacts DEF SearchInv
  <2>2. Live(n) \subseteq Children(n)
    BY DEF Live
  <2>3. QED
    BY <2>1, <2>2, FS_Subset
<1>6. at \in Live(p)
  BY <1>1, <1>3 DEF Live, Returning
<1>7. liveChildren[p] = Cardinality(Live(p)) /\ (p \in done <=> liveChildren[p] = 0)
  BY <1>3 DEF SearchInv, LiveInv
<1>8. /\ Cardinality(Live(p) \ {at}) = Cardinality(Live(p)) - 1
      /\ Cardinality(Live(p)) \in Nat /\ Cardinality(Live(p) \ {at}) \in Nat
  BY <1>3, <1>5, <1>6, FS_RemoveElement, FS_CardinalityType
<1>9. p \notin done /\ liveChildren[p] >= 1
  BY <1>7, <1>8
<1>10. /\ \A n \in tree \ {p} : at \notin Children(n)
       /\ p \notin Children(p)
  BY <1>3, <1>5 DEF Children
<1>11. CASE at \notin done
  <2>1. liveChildren' = liveChildren /\ done' = done
    BY <1>11 DEF Unwind
  <2>2. \A c : ~Returning(c) /\ ~Returning(c)'
    BY <1>1, <1>9, <1>11, <2>1 DEF Returning
  <2>3. UNCHANGED treeVars
    BY <1>1, <2>1 DEF treeVars
  <2>4. QED
    BY <1>1, <1>2, <1>3, <2>2, <2>3, OtherNodeKeeps
<1>12. CASE at \in done
  <2>1. /\ liveChildren' = [liveChildren EXCEPT ![p] = @ - 1]
        /\ done' = done \cup {n \in {p} : LastLiveChild(n)}
    BY <1>0, <1>12 DEF Unwind
  <2>2. /\ liveChildren'[p] = liveChildren[p] - 1
        /\ \A n \in tree \ {p} : liveChildren'[n] = liveChildren[n]
        /\ liveChildren' \in [tree -> Nat]
    BY <1>2, <1>3, <1>9, <2>1
  <2>3. /\ p \in done' <=> liveChildren'[p] = 0
        /\ \A n \in tree \ {p} : n \in done' <=> n \in done
        /\ done' \subseteq tree
    BY <1>2, <1>3, <1>9, <2>1, <2>2 DEF LastLiveChild
  <2>4. \A c : /\ Returning(c) <=> c = at
               /\ Returning(c)' <=> c = p /\ p \in done'
    BY <1>1, <1>12 DEF Returning
  <2>5. Live(p)' = Live(p) \ {at}
    <3>1. \A c \in Children(p) : c \in tree /\ c # p
      BY <1>3, <1>5
    <3>2. \A c \in Children(p) : (c \notin done' \/ Returning(c)') <=> c \notin done
      BY <2>3, <2>4, <3>1
    <3>3. Live(p)' = {c \in Children(p) : c \notin done}
      BY <1>4, <3>2 DEF Live
    <3>4. Live(p) = {c \in Children(p) : c \notin done \/ c = at}
      BY <2>4 DEF Live
    <3>5. QED
      BY <1>12, <3>3, <3>4
  <2>6. ASSUME NEW n \in tree \ {p} PROVE Live(n)' = Live(n)
    <3>1. \A c \in Children(n) : c \in tree /\ c # at
      BY <1>5, <1>10
    <3>2. \A c \in Children(n) : (c \notin done' \/ Returning(c)') <=> (c \notin done \/ Returning(c))
      BY <1>9, <2>3, <2>4, <3>1
    <3>3. QED
      BY <1>4, <3>2 DEF Live
  <2>7. TreeInv(M)'
    BY <1>1, <1>2, <1>3, <1>4, <2>2, <2>3 DEF SearchInv, TreeInv
  <2>8. LiveInv'
    <3>1. ASSUME NEW n \in tree
          PROVE  /\ Children(n) # {} => liveChildren'[n] = Cardinality(Live(n)')
                 /\ Children(n) # {} => (n \in done' <=> liveChildren'[n] = 0)
                 /\ Children(n) = {} /\ n \in done' => Over(n)
      <4>1. CASE n = p
        BY <1>3, <1>7, <1>8, <1>9, <2>2, <2>3, <2>5, <4>1
      <4>2. CASE n # p
        BY <2>2, <2>3, <2>6, <4>2 DEF SearchInv, LiveInv
      <4>3. QED
        BY <4>1, <4>2
    <3>2. QED
      BY <1>1, <1>4, <3>1 DEF LiveInv
  <2>9. GamesInv'
    BY <1>1, <1>4 DEF SearchInv, GamesInv
  <2>10. QED
    BY <2>7, <2>8, <2>9 DEF SearchInv
<1>13. QED
  BY <1>11, <1>12

\* The counts of a tree that may have grown to T.
Extended(T) == [n \in T |-> IF n \in tree THEN count[n] ELSE 0]

LEMMA PlayedOnce ==
    ASSUME NEW M, SearchInv(M), NEW T, tree \subseteq T, NEW P, NEW w, Backpropagate(T, P, w)
    PROVE  /\ OneMore(T, Extended(T), count', P)
           /\ count' \in [T -> Nat] /\ wins' \in [T -> Nat]
           /\ \A n \in T : wins'[n] =< 2 * count'[n]
<1>1. count \in [tree -> Nat] /\ wins \in [tree -> Nat] /\ \A n \in tree : wins[n] =< 2 * count[n]
  BY DEF SearchInv, TreeInv, GamesInv
<1> DEFINE oldCount(n) == IF n \in tree THEN count[n] ELSE 0
           oldWins(n) == IF n \in tree THEN wins[n] ELSE 0
           more(n) == IF n \in P THEN 1 ELSE 0
           half(n) == IF n \in P THEN HalfPoints(n, w) ELSE 0
<1>2. /\ count' = [n \in T |-> oldCount(n) + more(n)]
      /\ wins' = [n \in T |-> oldWins(n) + half(n)]
  BY DEF Backpropagate
<1>3. \A n \in T : /\ oldCount(n) \in Nat /\ oldWins(n) \in Nat /\ oldWins(n) =< 2 * oldCount(n)
                   /\ more(n) \in Nat /\ half(n) \in Nat /\ half(n) =< 2 * more(n)
  BY <1>1 DEF HalfPoints
<1>4. Extended(T) = [n \in T |-> oldCount(n)]
  BY DEF Extended
<1> HIDE DEF oldCount, oldWins, half
<1>5. Extended(T) \in [T -> Nat] /\ count' = [n \in T |-> Extended(T)[n] + more(n)]
  BY <1>2, <1>3, <1>4
<1>6. count' \in [T -> Nat] /\ wins' \in [T -> Nat]
  BY <1>2, <1>3
<1>7. ASSUME NEW n \in T PROVE wins'[n] =< 2 * count'[n]
  <2>1. count'[n] = oldCount(n) + more(n) /\ wins'[n] = oldWins(n) + half(n)
    BY <1>2
  <2> HIDE DEF more
  <2>2. QED
    BY <1>3, <2>1
<1>8. QED
  BY <1>5, <1>6, <1>7 DEF OneMore

\* A game from a node without children: the sums of all nodes on the way grow with
\* their counts, and no other childless node was played.
LEMMA GamePlayed ==
    ASSUME NEW M, NEW T, NEW rt, IsTree(T, rt, M), NEW c \in T, ChildrenIn(T, c) = {},
           NEW f, NEW g, OneMore(T, f, g, PathFrom(rt, c)), NEW n \in T
    PROVE  /\ SumIn(T, f, n) \in Nat /\ SumIn(T, g, n) \in Nat
           /\ f[n] \in Nat /\ g[n] \in Nat /\ g[n] >= f[n] /\ g[n] =< f[n] + 1
           /\ n \in PathFrom(rt, c) => g[n] = f[n] + 1
           /\ ChildrenIn(T, n) # {} => g[n] - SumIn(T, g, n) = f[n] - SumIn(T, f, n)
           /\ ChildrenIn(T, n) = {} /\ n # c => g[n] = f[n]
<1>1. /\ f[n] \in Nat /\ g[n] = f[n] + (IF n \in PathFrom(rt, c) THEN 1 ELSE 0)
  BY DEF OneMore
<1>2. /\ SumIn(T, f, n) \in Nat
      /\ n \in PathFrom(rt, c) /\ n # c => SumIn(T, g, n) = SumIn(T, f, n) + 1
      /\ n \notin PathFrom(rt, c) => SumIn(T, g, n) = SumIn(T, f, n)
  BY ChildrenPlayed
<1>3. n \in PathFrom(rt, c) /\ n # c => ChildrenIn(T, n) # {}
  BY PathThroughChildren
<1>4. CASE n = c
  <2>1. c \in PathFrom(rt, c)
    BY PathThroughChildren
  <2>2. SumIn(T, g, c) = SumIn(T, f, c)
    BY DEF SumIn
  <2>3. QED
    BY <1>1, <1>2, <1>4, <2>1, <2>2
<1>5. CASE n # c
  BY <1>1, <1>2, <1>3, <1>5
<1>6. QED
  BY <1>4, <1>5

\* Descending to a child that ends the game.
LEMMA LastMoveKeeps ==
    ASSUME NEW M, SearchInv(M), position' = position, LastMove
    PROVE  SearchInv(M)'
<1>1. PICK c \in Candidates(at) : /\ Over(c) /\ at' = c /\ done' = done \cup {c}
                                  /\ Backpropagate(tree, Path(c), Winner(c))
  BY DEF LastMove
<1>2. /\ search = "descend" /\ search' = "unwind"
      /\ root' = root /\ tree' = tree /\ liveChildren' = liveChildren /\ best' = best
  BY DEF LastMove
<1>3. c \in Children(at) /\ c \notin done
  BY <1>1 DEF Candidates
<1>4. /\ IsTree(tree, root, M) /\ at \in tree /\ done \subseteq tree
      /\ liveChildren \in [tree -> Nat] /\ count \in [tree -> Nat]
      /\ root \in tree /\ ~Over(root) /\ position \in Seq(M) /\ best \in Seq(M)
      /\ \A n \in tree : Children(n) # {} => ~Over(n)
  BY <1>2, TreeFacts DEF SearchInv, TreeInv
<1>5. c \in tree /\ Children(c) = {} /\ ChildrenIn(tree, c) = {} /\ Path(c) = PathFrom(root, c)
  <2>1. c \in tree
    BY <1>3, <1>4, TreeFacts DEF SearchInv
  <2>2. QED
    BY <1>1, <1>4, <2>1, TreeFacts DEF SearchInv
<1>6. \A n : Children(n)' = Children(n)
  BY <1>2 DEF Children
<1>7. /\ OneMore(tree, Extended(tree), count', PathFrom(root, c))
      /\ count' \in [tree -> Nat] /\ wins' \in [tree -> Nat]
      /\ \A n \in tree : wins'[n] =< 2 * count'[n]
  BY <1>1, <1>5, PlayedOnce
<1>8. Extended(tree) = count
  BY <1>4 DEF Extended
<1>9. done' \subseteq tree /\ \A n \in tree : n # c => (n \in done' <=> n \in done)
  BY <1>1, <1>4, <1>5
<1>10. TreeInv(M)'
  BY <1>1, <1>2, <1>4, <1>5, <1>6, <1>7, <1>9 DEF TreeInv
<1>11. \A n \in tree : Live(n)' = Live(n)
  <2>1. \A x : (x \notin done' \/ Returning(x)') <=> (x \notin done \/ Returning(x))
    BY <1>1, <1>2, <1>3 DEF Returning
  <2>2. QED
    BY <1>6, <2>1 DEF Live
<1>12. LiveInv'
  <2>1. ASSUME NEW n \in tree
        PROVE  /\ Children(n) # {} => liveChildren[n] = Cardinality(Live(n)')
               /\ Children(n) # {} => (n \in done' <=> liveChildren[n] = 0)
               /\ Children(n) = {} /\ n \in done' => Over(n)
    BY <1>1, <1>5, <1>9, <1>11 DEF SearchInv, LiveInv
  <2>2. QED
    BY <1>2, <1>6, <2>1 DEF LiveInv
<1>13. OneMore(tree, count, count', PathFrom(root, c))
  BY <1>7, <1>8
<1>14. GamesInv'
  <2>1. ASSUME NEW n \in tree
        PROVE  /\ Children(n) = {} /\ ~Over(n) => count'[n] =< 1 /\ (n = root => count'[n] = 0)
               /\ Children(n) # {} =>
                     /\ count'[n] > 0
                     /\ count'[n] - SumIn(tree, count', n) \in (IF n = root THEN {0} ELSE {0, 1})
    <3>1. /\ count[n] \in Nat /\ count'[n] \in Nat /\ count'[n] >= count[n]
          /\ ChildrenIn(tree, n) # {} =>
                count'[n] - SumIn(tree, count', n) = count[n] - SumIn(tree, count, n)
          /\ ChildrenIn(tree, n) = {} /\ n # c => count'[n] = count[n]
      <4>1. IsTree(tree, root, M) /\ c \in tree /\ n \in tree /\ ChildrenIn(tree, c) = {}
        BY <1>4, <1>5, <2>1
      <4>2. QED
        BY ONLY <4>1, <1>13, GamePlayed
    <3>2. Children(n) = ChildrenIn(tree, n)
      BY <2>1, TreeFacts DEF SearchInv
    <3>3. /\ Children(n) = {} /\ ~Over(n) => count[n] =< 1 /\ (n = root => count[n] = 0)
          /\ Children(n) # {} =>
                /\ count[n] > 0
                /\ count[n] - SumIn(tree, count, n) \in (IF n = root THEN {0} ELSE {0, 1})
      BY <2>1 DEF SearchInv, GamesInv
    <3>4. CASE Children(n) = {} /\ n # c
      BY <3>1, <3>2, <3>3, <3>4
    <3>5. CASE n = c
      BY <1>1, <1>5, <3>5
    <3>6. CASE Children(n) # {}
      BY <3>1, <3>2, <3>3, <3>6
    <3>7. QED
      BY <3>4, <3>5, <3>6
  <2>2. \A n : SumIn(tree, count, n)' = SumIn(tree, count', n)
    BY <1>2 DEF SumIn, ChildrenIn, Parent
  <2>3. QED
    BY <1>2, <1>6, <1>7, <2>1, <2>2 DEF GamesInv
<1>15. QED
  BY <1>10, <1>12, <1>14 DEF SearchInv

\* The image of a finite set of moves.
LEMMA FiniteImage ==
    ASSUME NEW S, IsFiniteSet(S), NEW a, NEW T, T = {Append(a, m) : m \in S}
    PROVE  IsFiniteSet(T)
<1> DEFINE f == [m \in S |-> Append(a, m)]
<1>1. f \in Surjection(S, T)
  <2>1. f \in [S -> T]
    OBVIOUS
  <2>2. \A t \in T : \E m \in S : f[m] = t
    OBVIOUS
  <2>3. QED
    BY <2>1, <2>2 DEF Surjection
<1>2. QED
  BY <1>1, FS_Surjection

LEMMA MovesOf ==
    ASSUME NEW M, FiniteMoves(M), NEW n \in Seq(M), NEW moves \in NextMoves(n)
    PROVE  moves \subseteq M /\ IsFiniteSet(moves)
<1>1. IsFiniteSet(M) /\ NormalMoves(n) \subseteq M /\ FlagMoves(n) \subseteq M
  BY DEF FiniteMoves
<1>2. \A flags \in FlagSamples(n) : flags \subseteq FlagMoves(n)
  BY DEF FlagSamples, kSubset
<1>3. moves \subseteq M
  BY <1>1, <1>2 DEF NextMoves
<1>4. QED
  BY <1>1, <1>3, FS_Subset

\* A childless node a gets children.
AreNext(a, moves, cs) == cs = {Append(a, m) : m \in moves}

LEMMA GrownTree ==
    ASSUME NEW M, NEW T, NEW rt, IsTree(T, rt, M), NEW a \in T, ChildrenIn(T, a) = {},
           NEW moves, moves \subseteq M, IsFiniteSet(moves),
           NEW cs, AreNext(a, moves, cs)
    PROVE  /\ IsTree(T \cup cs, rt, M) /\ IsFiniteSet(cs) /\ cs \cap T = {}
           /\ ChildrenIn(T \cup cs, a) = cs
           /\ \A n \in T \ {a} : ChildrenIn(T \cup cs, n) = ChildrenIn(T, n)
           /\ \A c \in cs : ChildrenIn(T \cup cs, c) = {} /\ a \in PathFrom(rt, c)
<1>1. /\ a \in Seq(M) /\ rt \in Seq(M) /\ rt \in T /\ T \subseteq Seq(M) /\ IsFiniteSet(T)
      /\ Len(a) \in Nat /\ Len(rt) \in Nat /\ Len(a) >= Len(rt)
      /\ \A n \in T : Len(n) \in Nat /\ Len(n) >= Len(rt)
  BY DEF IsTree
<1>2. ASSUME NEW c \in cs
      PROVE  /\ c \in Seq(M) /\ Len(c) = Len(a) + 1 /\ Parent(c) = a
             /\ \A k \in 0..Len(a) : SubSeq(c, 1, k) = SubSeq(a, 1, k)
  <2>1. PICK m \in M : c = Append(a, m)
    BY DEF AreNext
  <2>2. a \in Seq(M) /\ IsNext(a, m, c)
    BY <1>1, <2>1 DEF IsNext
  <2>3. QED
    BY ONLY <2>2, ChildOf
<1>3. IsFiniteSet(cs)
  BY FiniteImage DEF AreNext
<1>4. cs \cap T = {}
  BY <1>2 DEF ChildrenIn
<1>5. \A c \in cs : a \in PathFrom(rt, c)
  <2> TAKE c \in cs
  <2>1. Len(a) \in Len(rt)..Len(c) /\ Len(a) \in 0..Len(a)
    BY <1>1, <1>2
  <2>2. SubSeq(c, 1, Len(a)) = a
    BY <1>1, <1>2, <2>1, WholePrefix
  <2>3. QED
    BY <2>1, <2>2 DEF PathFrom
<1>6. IsTree(T \cup cs, rt, M)
  <2>1. T \cup cs \subseteq Seq(M) /\ IsFiniteSet(T \cup cs) /\ rt \in T \cup cs
    BY <1>1, <1>2, <1>3, FS_Union
  <2>2. ASSUME NEW n \in T
        PROVE  /\ Len(n) >= Len(rt) /\ SubSeq(n, 1, Len(rt)) = rt
               /\ \A k \in Len(rt)..Len(n) : SubSeq(n, 1, k) \in T
    BY DEF IsTree
  <2>3. ASSUME NEW c \in cs
        PROVE  /\ Len(c) >= Len(rt) /\ SubSeq(c, 1, Len(rt)) = rt
               /\ \A k \in Len(rt)..Len(c) : SubSeq(c, 1, k) \in T \cup cs
    <3>1. Len(c) = Len(a) + 1 /\ Len(rt) \in 0..Len(a)
      BY <1>1, <1>2
    <3>2. SubSeq(c, 1, Len(rt)) = rt
      BY <1>2, <2>2, <3>1
    <3>3. ASSUME NEW k \in Len(rt)..Len(c) PROVE SubSeq(c, 1, k) \in T \cup cs
      <4>1. CASE k = Len(c)
        <5>1. SubSeq(c, 1, k) = c
          BY <1>2, <4>1, WholePrefix
        <5>2. QED
          BY <5>1
      <4>2. CASE k # Len(c)
        <5>1. k \in Len(rt)..Len(a) /\ k \in 0..Len(a)
          BY <1>1, <3>1, <4>2
        <5>2. QED
          BY <1>2, <2>2, <5>1
      <4>3. QED
        BY <4>1, <4>2
    <3>4. QED
      BY <1>1, <3>1, <3>2, <3>3
  <2>4. QED
    BY <2>1, <2>2, <2>3 DEF IsTree
<1>7. ChildrenIn(T \cup cs, a) = cs
  BY <1>2 DEF ChildrenIn
<1>8. \A n \in T \ {a} : ChildrenIn(T \cup cs, n) = ChildrenIn(T, n)
  BY <1>2 DEF ChildrenIn
<1>9. ASSUME NEW c \in cs, NEW x \in ChildrenIn(T \cup cs, c) PROVE FALSE
  <2>1. x \in T \cup cs /\ Len(x) = Len(c) + 1 /\ Parent(x) = c /\ Len(c) = Len(a) + 1
    BY <1>2, <1>9 DEF ChildrenIn
  <2>2. x \notin cs
    BY <1>1, <1>2, <2>1
  <2>3. x # rt
    BY <1>1, <2>1
  <2>4. Parent(x) \in T
    BY <2>1, <2>2, <2>3, TreeParent
  <2>5. QED
    BY <1>4, <2>1, <2>4
<1>10. QED
  BY <1>3, <1>4, <1>5, <1>6, <1>7, <1>8, <1>9

\* The new children of at, and a game from one of them.
LEMMA ExpandKeeps ==
    ASSUME NEW M, FiniteMoves(M), SearchInv(M), position' = position, Expand
    PROVE  SearchInv(M)'
<1>1. /\ search = "descend" /\ search' = "unwind" /\ Children(at) = {}
      /\ root' = root /\ done' = done /\ at' = at /\ best' = best
  BY DEF Expand
<1>2. PICK moves, cs, T, c, w :
          /\ moves \in NextMoves(at) /\ cs = {Append(at, m) : m \in moves}
          /\ c \in cs /\ T = tree \cup cs /\ tree' = T
          /\ liveChildren' = [n \in T |-> IF n = at THEN Cardinality(cs)
                                          ELSE IF n \in tree THEN liveChildren[n] ELSE 0]
          /\ Backpropagate(T, Path(c), w)
  BY DEF Expand
<1>3. /\ IsTree(tree, root, M) /\ at \in tree /\ done \subseteq tree
      /\ liveChildren \in [tree -> Nat] /\ count \in [tree -> Nat]
      /\ root \in tree /\ ~Over(root) /\ position \in Seq(M) /\ best \in Seq(M)
      /\ at \in Seq(M) /\ at \notin done /\ ~Over(at)
  BY <1>1, TreeFacts DEF SearchInv, TreeInv
<1>4. \A n : /\ Children(n) = ChildrenIn(tree, n) /\ Children(n)' = ChildrenIn(T, n)
             /\ Path(n) = PathFrom(root, n)
  BY <1>2 DEF Children, ChildrenIn, Path, PathFrom, Parent
<1>5. moves \subseteq M /\ IsFiniteSet(moves)
  BY <1>2, <1>3, MovesOf
<1>6. /\ IsTree(T, root, M) /\ IsFiniteSet(cs) /\ cs \cap tree = {}
      /\ ChildrenIn(T, at) = cs
      /\ \A n \in tree \ {at} : ChildrenIn(T, n) = ChildrenIn(tree, n)
      /\ \A x \in cs : ChildrenIn(T, x) = {} /\ at \in PathFrom(root, x)
  <2>1. ChildrenIn(tree, at) = {} /\ AreNext(at, moves, cs) /\ T = tree \cup cs
    BY <1>1, <1>2, <1>4 DEF AreNext
  <2>2. IsTree(tree, root, M) /\ at \in tree
    BY <1>3
  <2>3. /\ IsTree(tree \cup cs, root, M) /\ IsFiniteSet(cs) /\ cs \cap tree = {}
        /\ ChildrenIn(tree \cup cs, at) = cs
        /\ \A n \in tree \ {at} : ChildrenIn(tree \cup cs, n) = ChildrenIn(tree, n)
        /\ \A x \in cs : ChildrenIn(tree \cup cs, x) = {} /\ at \in PathFrom(root, x)
    <3>1. ChildrenIn(tree, at) = {} /\ AreNext(at, moves, cs)
      BY <2>1
    <3>2. QED
      BY ONLY <1>5, <2>2, <3>1, GrownTree
  <2>4. QED
    BY <2>1, <2>3
<1>7. T = tree \cup cs /\ c \in cs /\ c \in T /\ cs # {} /\ Cardinality(cs) \in Nat \ {0}
  <2>1. c \in cs /\ T = tree \cup cs
    BY <1>2
  <2>2. Cardinality(cs) \in Nat /\ Cardinality(cs) # 0
    BY <1>6, <2>1, FS_CardinalityType, FS_EmptySet
  <2>3. QED
    BY <2>1, <2>2
<1>8. /\ liveChildren'[at] = Cardinality(cs)
      /\ \A n \in tree \ {at} : liveChildren'[n] = liveChildren[n]
      /\ liveChildren' \in [T -> Nat]
  BY <1>2, <1>3, <1>7
<1>9. /\ OneMore(T, Extended(T), count', PathFrom(root, c))
      /\ count' \in [T -> Nat] /\ wins' \in [T -> Nat]
      /\ \A n \in T : wins'[n] =< 2 * count'[n]
  <2>1. Backpropagate(T, PathFrom(root, c), w) /\ tree \subseteq T
    BY <1>2, <1>4, <1>7
  <2>2. QED
    BY <2>1, PlayedOnce
<1>10. TreeInv(M)'
  <2>1. \A n \in T : ChildrenIn(T, n) # {} => ~Over(n)
    BY <1>3, <1>4, <1>6, <1>7 DEF SearchInv, TreeInv
  <2>2. at \in T /\ done \subseteq T
    BY <1>3, <1>7
  <2>3. QED
    BY <1>1, <1>2, <1>3, <1>4, <1>6, <1>8, <1>9, <2>1, <2>2 DEF TreeInv
<1>11. \A n \in T : Live(n)' = IF n = at THEN cs ELSE IF n \in tree THEN Live(n) ELSE {}
  <2>1. \A x : ~Returning(x) /\ ~Returning(x)'
    BY <1>1, <1>3 DEF Returning
  <2>2. \A n : Live(n)' = {x \in ChildrenIn(T, n) : x \notin done}
    BY <1>1, <1>4, <2>1 DEF Live
  <2>3. \A n : Live(n) = {x \in ChildrenIn(tree, n) : x \notin done}
    BY <1>4, <2>1 DEF Live
  <2>4. QED
    BY <1>3, <1>6, <1>7, <2>2, <2>3
<1>12. LiveInv'
  <2>1. ASSUME NEW n \in T
        PROVE  /\ ChildrenIn(T, n) # {} => liveChildren'[n] = Cardinality(Live(n)')
               /\ ChildrenIn(T, n) # {} => (n \in done <=> liveChildren'[n] = 0)
               /\ ChildrenIn(T, n) = {} /\ n \in done => Over(n)
    <3>1. CASE n = at
      BY <1>3, <1>6, <1>7, <1>8, <1>11, <3>1
    <3>2. CASE n \in tree /\ n # at
      <4>1. /\ Children(n) # {} => liveChildren[n] = Cardinality(Live(n))
            /\ Children(n) # {} => (n \in done <=> liveChildren[n] = 0)
            /\ Children(n) = {} /\ n \in done => Over(n)
        BY <3>2 DEF SearchInv, LiveInv
      <4>2. ChildrenIn(T, n) = Children(n) /\ liveChildren'[n] = liveChildren[n] /\ Live(n)' = Live(n)
        BY <1>4, <1>6, <1>8, <1>11, <3>2
      <4>3. QED
        BY <4>1, <4>2
    <3>3. CASE n \in cs
      BY <1>3, <1>6, <3>3
    <3>4. QED
      BY <1>7, <3>1, <3>2, <3>3
  <2>2. QED
    BY <1>1, <1>2, <1>4, <2>1 DEF LiveInv
<1>13. \A n \in T : Extended(T)[n] = IF n \in tree THEN count[n] ELSE 0
  BY DEF Extended
<1>14. GamesInv'
  <2>1. ASSUME NEW n \in T
        PROVE  /\ ChildrenIn(T, n) = {} /\ ~Over(n) => count'[n] =< 1 /\ (n = root => count'[n] = 0)
               /\ ChildrenIn(T, n) # {} =>
                     /\ count'[n] > 0
                     /\ count'[n] - SumIn(T, count', n) \in (IF n = root THEN {0} ELSE {0, 1})
    <3> DEFINE f == Extended(T)
    <3> HIDE DEF f
    <3>1. OneMore(T, f, count', PathFrom(root, c)) /\ ChildrenIn(T, c) = {} /\ c \in T
      BY <1>6, <1>7, <1>9 DEF f
    <3>2. /\ SumIn(T, f, n) \in Nat /\ SumIn(T, count', n) \in Nat
          /\ f[n] \in Nat /\ count'[n] \in Nat /\ count'[n] >= f[n] /\ count'[n] =< f[n] + 1
          /\ n \in PathFrom(root, c) => count'[n] = f[n] + 1
          /\ ChildrenIn(T, n) # {} =>
                count'[n] - SumIn(T, count', n) = f[n] - SumIn(T, f, n)
          /\ ChildrenIn(T, n) = {} /\ n # c => count'[n] = f[n]
      <4>1. IsTree(T, root, M) /\ n \in T
        BY <1>6, <2>1
      <4>2. QED
        BY ONLY <3>1, <4>1, GamePlayed
    <3>3. \A x \in T : f[x] = IF x \in tree THEN count[x] ELSE 0
      BY <1>13 DEF f
    <3>4. n \in tree =>
             /\ Children(n) = {} /\ ~Over(n) => count[n] =< 1 /\ (n = root => count[n] = 0)
             /\ Children(n) # {} =>
                   /\ count[n] > 0
                   /\ count[n] - SumIn(tree, count, n) \in (IF n = root THEN {0} ELSE {0, 1})
      BY DEF SearchInv, GamesInv
    <3>5. CASE n = at
      <4>1. SumIn(T, f, n) = 0
        <5>1. \A x \in cs : f[x] = 0
          BY <1>6, <1>7, <3>3
        <5>2. [x \in cs |-> f[x]] \in [cs -> {0}]
          BY <5>1
        <5>3. QED
          BY <1>6, <3>5, <5>2, SumOfZeros DEF SumIn
      <4>2. f[n] = count[n] /\ count[n] =< 1 /\ (n = root => count[n] = 0) /\ n \in PathFrom(root, c)
        BY <1>1, <1>2, <1>3, <1>6, <3>3, <3>4, <3>5
      <4>3. ChildrenIn(T, n) # {}
        BY <1>6, <1>7, <3>5
      <4>4. QED
        BY <3>2, <4>1, <4>2, <4>3
    <3>6. CASE n \in tree /\ n # at
      <4>1. ChildrenIn(T, n) = Children(n) /\ ChildrenIn(T, n) = ChildrenIn(tree, n)
        BY <1>4, <1>6, <3>6
      <4>2. f[n] = count[n] /\ n # c
        BY <1>2, <1>6, <3>3, <3>6
      <4>3. \A x \in ChildrenIn(T, n) : f[x] = count[x]
        BY <1>7, <3>3, <4>1 DEF ChildrenIn
      <4>4. SumIn(T, f, n) = SumIn(tree, count, n)
        BY <4>1, <4>3 DEF SumIn
      <4>5. CASE ChildrenIn(T, n) = {}
        BY <3>2, <3>4, <3>6, <4>1, <4>2, <4>5
      <4>6. CASE ChildrenIn(T, n) # {}
        BY <3>2, <3>4, <3>6, <4>1, <4>2, <4>4, <4>6
      <4>7. QED
        BY <4>5, <4>6
    <3>7. CASE n \in cs
      <4>1. f[n] = 0 /\ ChildrenIn(T, n) = {} /\ n # root
        BY <1>3, <1>6, <1>7, <3>3, <3>7
      <4>2. QED
        BY <3>2, <4>1
    <3>8. QED
      BY <1>7, <3>5, <3>6, <3>7
  <2>2. \A n : SumIn(tree, count, n)' = SumIn(T, count', n)
    BY <1>2 DEF SumIn, ChildrenIn, Parent
  <2>3. QED
    BY <1>1, <1>2, <1>4, <1>9, <2>1, <2>2 DEF GamesInv
<1>15. QED
  BY <1>10, <1>12, <1>14 DEF SearchInv

-----------------------------------------------------------------------------
LEMMA SearchInitial ==
    ASSUME NEW M, Init
    PROVE  SearchInv(M)
<1>1. /\ search = "idle" /\ root = <<>> /\ tree = {<<>>} /\ done = {} /\ at = <<>> /\ best = <<>>
      /\ count = [n \in {<<>>} |-> 0] /\ wins = [n \in {<<>>} |-> 0]
      /\ liveChildren = [n \in {<<>>} |-> 0] /\ position = <<>>
  BY DEF Init, IdleTree
<1>2. <<>> \in Seq(M) /\ Len(<<>>) = 0
  OBVIOUS
<1>3. SubSeq(<<>>, 1, 0) = <<>>
  BY <1>2, WholePrefix
<1>4. IsTree({<<>>}, <<>>, M)
  <2>1. IsFiniteSet({<<>>})
    BY FS_Singleton
  <2>2. 0..0 = {0}
    OBVIOUS
  <2>3. QED
    BY <1>2, <1>3, <2>1, <2>2 DEF IsTree
<1>5. \A n \in tree : Children(n) = {}
  BY <1>1, <1>2 DEF Children
<1>6. TreeInv(M)
  BY <1>1, <1>2, <1>4, <1>5 DEF TreeInv
<1>7. LiveInv
  BY <1>1, <1>5 DEF LiveInv
<1>8. GamesInv
  BY <1>1, <1>5 DEF GamesInv
<1>9. QED
  BY <1>6, <1>7, <1>8 DEF SearchInv

\* Only the moves made in the game change.
LEMMA SearchRests ==
    ASSUME NEW M, SearchInv(M), UNCHANGED mctsVars, position' \in Seq(M)
    PROVE  SearchInv(M)'
<1>1. /\ search' = search /\ root' = root /\ tree' = tree /\ count' = count /\ wins' = wins
      /\ done' = done /\ liveChildren' = liveChildren /\ at' = at /\ best' = best
  BY DEF mctsVars, treeVars
<1>2. \A n : Children(n)' = Children(n)
  BY <1>1 DEF Children
<1>3. \A n : Live(n)' = Live(n)
  BY <1>1, <1>2 DEF Live, Returning
<1>4. TreeInv(M)'
  BY <1>1, <1>2 DEF SearchInv, TreeInv
<1>5. LiveInv'
  BY <1>1, <1>2, <1>3 DEF SearchInv, LiveInv
<1>6. GamesInv'
  BY <1>1, <1>2 DEF SearchInv, GamesInv
<1>7. QED
  BY <1>4, <1>5, <1>6 DEF SearchInv

LEMMA SearchKept ==
    ASSUME NEW M, FiniteMoves(M), SearchInv(M), [Next]_vars
    PROVE  SearchInv(M)'
<1>1. /\ position \in Seq(M) /\ best \in Seq(M)
  BY DEF SearchInv, TreeInv
<1>2. CASE HumanMove
  <2>1. PICK m \in NormalMoves(position) : position' = Append(position, m)
    BY <1>2 DEF HumanMove
  <2>2. m \in M
    BY <1>1 DEF FiniteMoves
  <2>3. position' \in Seq(M)
    BY <1>1, <2>1, <2>2, AppendProperties
  <2>4. QED
    BY <1>2, <2>3, SearchRests DEF HumanMove
<1>3. CASE TakeRequest
  <2>1. NewTree(position) /\ ~Over(position) /\ search' = "loop" /\ position' = position
    BY <1>3 DEF TakeRequest, StartSearch
  <2>2. QED
    BY <1>1, <2>1, NewTreeKeeps DEF NewTree
<1>4. CASE SearchStepOnly
  <2>1. SearchStep /\ position' = position
    BY <1>4 DEF SearchStepOnly
  <2>2. QED
    BY <2>1, QuietSteps, ExpandKeeps, LastMoveKeeps, UnwindKeeps DEF SearchStep
<1>5. CASE Return
  BY <1>5, QuietSteps DEF Return
<1>6. CASE SendMove
  <2>1. NewTree(<<>>) /\ search' = "idle" /\ position' = best /\ <<>> \in Seq(M)
    BY <1>6 DEF SendMove, DropTree
  <2>2. QED
    BY <1>1, <2>1, NewTreeKeeps DEF NewTree
<1>7. CASE OtherSuggested
  BY <1>1, <1>7, SearchRests DEF OtherSuggested
<1>8. CASE RecordStep
  BY <1>1, <1>8, SearchRests DEF RecordStep
<1>9. CASE StatuszStep
  BY <1>1, <1>9, SearchRests DEF StatuszStep
<1>10. CASE UNCHANGED vars
  BY <1>1, <1>10, SearchRests DEF vars
<1>11. QED
  BY <1>2, <1>3, <1>4, <1>5, <1>6, <1>7, <1>8, <1>9, <1>10 DEF Next

\* liveChildren is the number of children that are not done, for games of any length
\* over any finite set of moves (mcts.go: run).
THEOREM LiveChildrenRight ==
    ASSUME NEW M, FiniteMoves(M)
    PROVE  Spec => []LiveChildrenCounted
<1>1. Init => SearchInv(M)
  BY SearchInitial
<1>2. SearchInv(M) /\ [Next]_vars => SearchInv(M)'
  BY SearchKept
<1>3. SearchInv(M) => LiveChildrenCounted
  BY DEF SearchInv, LiveInv, LiveChildrenCounted, Live
<1>4. QED
  BY <1>1, <1>2, <1>3, PTL DEF Spec

\* The random games of a node are those of its children and at most one more, and every
\* one is worth at most two half points (mcts.go: run, back propagation).
THEOREM GamesAddUp ==
    ASSUME NEW M, FiniteMoves(M)
    PROVE  Spec => []CountsAddUp
<1>1. Init => SearchInv(M)
  BY SearchInitial
<1>2. SearchInv(M) /\ [Next]_vars => SearchInv(M)'
  BY SearchKept
<1>3. SearchInv(M) => CountsAddUp
  <2>1. ASSUME SearchInv(M), NEW n \in tree, Children(n) # {}
        PROVE  /\ count[n] - Counts(n) \in IF n = root THEN {0} ELSE {0, 1}
               /\ count[n] > 0
               /\ \A c \in Children(n) : wins[c] =< 2 * count[c]
    <3>1. Children(n) = ChildrenIn(tree, n) /\ Children(n) \subseteq tree
      BY <2>1, TreeFacts DEF SearchInv
    <3>2. Counts(n) = SumIn(tree, count, n)
      BY <3>1 DEF Counts, SumIn
    <3>3. QED
      BY <2>1, <3>1, <3>2 DEF SearchInv, GamesInv
  <2>2. QED
    BY <2>1 DEF CountsAddUp
<1>4. QED
  BY <1>1, <1>2, <1>3, PTL DEF Spec

-----------------------------------------------------------------------------
(* What a sure win means for the points of the nodes below it.             *)

\* After a move no game is won by a player who could not win it before, and the
\* winner of a game that is over is the only one left.
OutcomesFit(M) ==
    \A n \in Seq(M) :
        /\ Over(n) => Winner(n) \in Outcomes(n)
        /\ ~Over(n) => \A m \in NormalMoves(n) \cup FlagMoves(n) :
                           Outcomes(Append(n, m)) \subseteq Outcomes(n)

\* A node that is a sure win won all its games, one on the path to a lost end of the
\* game that was played did not, and the best child is as good as the others.
OutcomesInv == \A n \in tree : \A p \in Path(n) : Outcomes(n) \subseteq Outcomes(p)
SureInv == \A n \in tree : Outcomes(n) = {MoverOf(n)} => wins[n] = 2 * count[n]
LostInv ==
    \A n \in tree \cap done : Over(n) =>
        /\ count[n] > 0
        /\ \A p \in Path(n) : Winner(n) # MoverOf(p) => wins[p] < 2 * count[p]
BestInv ==
    search = "returned" =>
        best \in Children(root) /\ \A b \in Children(root) : AtLeastAsGood(best, b)

WinInv == OutcomesInv /\ SureInv /\ LostInv /\ BestInv

LEMMA NewTreeWins ==
    ASSUME NEW M, NEW p \in Seq(M), root' = p, tree' = {p}, count' = [n \in {p} |-> 0],
           wins' = [n \in {p} |-> 0], done' = {}, search' # "returned"
    PROVE  WinInv'
<1>1. Path(p)' = {p}
  <2>1. Len(p) \in Nat /\ SubSeq(p, 1, Len(p)) = p
    BY WholePrefix
  <2>2. Len(p)..Len(p) = {Len(p)}
    BY <2>1
  <2>3. QED
    BY <2>1, <2>2 DEF Path
<1>2. OutcomesInv'
  BY <1>1 DEF OutcomesInv
<1>3. SureInv'
  BY DEF SureInv
<1>4. LostInv' /\ BestInv'
  BY DEF LostInv, BestInv
<1>5. QED
  BY <1>2, <1>3, <1>4 DEF WinInv

\* A step that changes no count; a node that it adds to done has children.
LEMMA UnplayedWins ==
    ASSUME WinInv, UNCHANGED <<root, tree, count, wins>>,
           \A n \in done' : n \in done \/ ~Over(n), BestInv'
    PROVE  WinInv'
<1>1. \A n : Path(n)' = Path(n) /\ MoverOf(n)' = MoverOf(n)
  BY DEF Path, MoverOf
<1>2. OutcomesInv'
  BY <1>1 DEF WinInv, OutcomesInv
<1>3. SureInv'
  BY <1>1 DEF WinInv, SureInv
<1>4. LostInv'
  BY <1>1 DEF WinInv, LostInv
<1>5. QED
  BY <1>2, <1>3, <1>4 DEF WinInv

\* What one more game, won by w, does to the points of the nodes.
LEMMA PointsPlayed ==
    ASSUME NEW M, SearchInv(M), NEW T, tree \subseteq T, NEW P, NEW w, Backpropagate(T, P, w),
           NEW n \in T
    PROVE  /\ n \in tree /\ wins[n] = 2 * count[n] /\ (n \in P => MoverOf(n) = w)
                  => wins'[n] = 2 * count'[n]
           /\ n \notin tree /\ (n \in P => MoverOf(n) = w) => wins'[n] = 2 * count'[n]
           /\ n \in tree /\ wins[n] < 2 * count[n] => wins'[n] < 2 * count'[n]
           /\ n \in P /\ MoverOf(n) # w => wins'[n] < 2 * count'[n]
           /\ n \in P => count'[n] > 0
           /\ n \in tree => count'[n] >= count[n]
<1> DEFINE oldCount == IF n \in tree THEN count[n] ELSE 0
           oldWins == IF n \in tree THEN wins[n] ELSE 0
           more == IF n \in P THEN 1 ELSE 0
           half == IF n \in P THEN HalfPoints(n, w) ELSE 0
<1>1. count'[n] = oldCount + more /\ wins'[n] = oldWins + half
  BY DEF Backpropagate
<1>2. oldCount \in Nat /\ oldWins \in Nat /\ oldWins =< 2 * oldCount
  BY DEF SearchInv, TreeInv, GamesInv
<1>3. /\ n \in tree => oldCount = count[n] /\ oldWins = wins[n]
      /\ n \notin tree => oldCount = 0 /\ oldWins = 0
  OBVIOUS
<1>4. /\ n \in P => more = 1 /\ (MoverOf(n) = w => half = 2) /\ (MoverOf(n) # w => half \in {0, 1})
      /\ n \notin P => more = 0 /\ half = 0
  BY DEF HalfPoints
<1> HIDE DEF oldCount, oldWins, more, half
<1>5. CASE n \notin P
  BY <1>1, <1>2, <1>3, <1>4, <1>5
<1>6. CASE n \in P /\ MoverOf(n) = w
  BY <1>1, <1>2, <1>3, <1>4, <1>6
<1>7. CASE n \in P /\ MoverOf(n) # w
  BY <1>1, <1>2, <1>3, <1>4, <1>7
<1>8. QED
  BY <1>5, <1>6, <1>7

LEMMA ReturnWins ==
    ASSUME NEW M, SearchInv(M), WinInv, ReturnBest
    PROVE  WinInv'
<1>1. PICK c \in Children(root) : (\A b \in Children(root) : AtLeastAsGood(c, b)) /\ best' = c
  BY DEF ReturnBest
<1>2. root' = root /\ tree' = tree /\ count' = count /\ wins' = wins /\ done' = done
  BY DEF ReturnBest, treeVars
<1>3. /\ Children(root)' = Children(root)
      /\ \A a, b : AtLeastAsGood(a, b)' = AtLeastAsGood(a, b)
  BY <1>2 DEF Children, AtLeastAsGood
<1>4. BestInv'
  BY <1>1, <1>2, <1>3 DEF BestInv, AtLeastAsGood
<1>5. QED
  BY <1>2, <1>4, UnplayedWins

LEMMA UnwindWins ==
    ASSUME NEW M, SearchInv(M), WinInv, Unwind
    PROVE  WinInv'
<1>1. /\ search' = "unwind" /\ at # root
      /\ root' = root /\ tree' = tree /\ count' = count /\ wins' = wins
      /\ done' \subseteq done \cup {Parent(at)}
  BY DEF Unwind
<1>2. ~Over(Parent(at))
  <2>1. at \in tree /\ \A n \in tree : Children(n) # {} => ~Over(n)
    BY DEF SearchInv, TreeInv
  <2>2. Parent(at) \in tree /\ at \in Children(Parent(at))
    BY <1>1, <2>1, TreeFacts DEF SearchInv
  <2>3. QED
    BY <2>1, <2>2
<1>3. BestInv'
  BY <1>1 DEF BestInv
<1>4. QED
  BY <1>1, <1>2, <1>3, UnplayedWins

LEMMA LastMoveWins ==
    ASSUME NEW M, OutcomesFit(M), SearchInv(M), WinInv, LastMove
    PROVE  WinInv'
<1>1. PICK c \in Candidates(at) : /\ Over(c) /\ done' = done \cup {c}
                                  /\ Backpropagate(tree, Path(c), Winner(c))
  BY DEF LastMove
<1>2. search' = "unwind" /\ root' = root /\ tree' = tree
  BY DEF LastMove
<1>3. c \in tree /\ c \in Seq(M) /\ Winner(c) \in Outcomes(c) /\ done \subseteq tree
  <2>1. c \in Children(at) /\ at \in tree
    BY <1>1 DEF Candidates, SearchInv, TreeInv
  <2>2. c \in tree /\ c \in Seq(M)
    BY <2>1, TreeFacts DEF SearchInv
  <2>3. QED
    BY <1>1, <2>2 DEF OutcomesFit, SearchInv, TreeInv
<1>4. \A n : Path(n)' = Path(n) /\ MoverOf(n)' = MoverOf(n)
  BY <1>2 DEF Path, MoverOf
<1>5. Path(c) \subseteq tree /\ c \in Path(c)
  <2>1. IsTree(tree, root, M) /\ Path(c) = PathFrom(root, c)
    BY <1>3, TreeFacts DEF SearchInv, TreeInv
  <2>2. QED
    BY <1>3, <2>1, PathThroughChildren
<1>6. ASSUME NEW n \in tree
      PROVE  /\ wins[n] = 2 * count[n] /\ (n \in Path(c) => MoverOf(n) = Winner(c))
                    => wins'[n] = 2 * count'[n]
             /\ wins[n] < 2 * count[n] => wins'[n] < 2 * count'[n]
             /\ n \in Path(c) /\ MoverOf(n) # Winner(c) => wins'[n] < 2 * count'[n]
             /\ n \in Path(c) => count'[n] > 0
             /\ count'[n] >= count[n]
  BY <1>1, PointsPlayed
<1>7. OutcomesInv'
  BY <1>2, <1>4 DEF WinInv, OutcomesInv
<1>8. SureInv'
  <2>1. ASSUME NEW n \in tree, Outcomes(n) = {MoverOf(n)} PROVE wins'[n] = 2 * count'[n]
    <3>1. n \in Path(c) => MoverOf(n) = Winner(c)
      BY <1>3, <2>1 DEF WinInv, OutcomesInv
    <3>2. wins[n] = 2 * count[n]
      BY <2>1 DEF WinInv, SureInv
    <3>3. QED
      BY <1>6, <3>1, <3>2
  <2>2. QED
    BY <1>2, <1>4, <2>1 DEF SureInv
<1>9. LostInv'
  <2>1. ASSUME NEW n \in tree \cap done', Over(n)
        PROVE  /\ count'[n] > 0
               /\ \A p \in Path(n) : Winner(n) # MoverOf(p) => wins'[p] < 2 * count'[p]
    <3>1. CASE n = c
      BY <1>5, <1>6, <3>1
    <3>2. CASE n # c
      <4>1. /\ n \in done /\ count[n] > 0
            /\ \A p \in Path(n) : Winner(n) # MoverOf(p) => wins[p] < 2 * count[p]
        BY <1>1, <2>1, <3>2 DEF WinInv, LostInv
      <4>2. Path(n) \subseteq tree
        <5>1. IsTree(tree, root, M) /\ Path(n) = PathFrom(root, n)
          BY <2>1, TreeFacts DEF SearchInv, TreeInv
        <5>2. QED
          BY <2>1, <5>1, PathThroughChildren
      <4>3. count[n] \in Nat /\ count'[n] \in Nat /\ count'[n] >= count[n]
        BY <1>1, <1>6, PlayedOnce DEF SearchInv, TreeInv
      <4>4. QED
        BY <1>6, <4>1, <4>2, <4>3
    <3>3. QED
      BY <3>1, <3>2
  <2>2. QED
    BY <1>2, <1>4, <2>1 DEF LostInv
<1>10. BestInv'
  BY <1>2 DEF BestInv
<1>11. QED
  BY <1>7, <1>8, <1>9, <1>10 DEF WinInv

LEMMA MovesFit ==
    ASSUME NEW n, NEW moves \in NextMoves(n)
    PROVE  moves \subseteq NormalMoves(n) \cup FlagMoves(n)
<1>1. \A flags \in FlagSamples(n) : flags \subseteq FlagMoves(n)
  BY DEF FlagSamples, kSubset
<1>2. QED
  BY <1>1 DEF NextMoves

\* The path to a child is the one to its parent, and the child.
LEMMA PathOfChild ==
    ASSUME NEW M, NEW a \in Seq(M), NEW m \in M, NEW c, IsNext(a, m, c),
           Len(root) \in Nat, Len(root) <= Len(a)
    PROVE  Path(c) = Path(a) \cup {c}
<1>1. /\ c \in Seq(M) /\ Len(c) = Len(a) + 1 /\ Len(a) \in Nat
      /\ \A k \in 0..Len(a) : SubSeq(c, 1, k) = SubSeq(a, 1, k)
  BY ChildOf
<1>2. SubSeq(c, 1, Len(c)) = c
  BY <1>1, WholePrefix
<1>3. Len(root)..Len(c) = (Len(root)..Len(a)) \cup {Len(c)}
  BY <1>1
<1>4. \A k \in Len(root)..Len(a) : k \in 0..Len(a)
  BY <1>1
<1>5. QED
  BY <1>1, <1>2, <1>3, <1>4 DEF Path

LEMMA ExpandWins ==
    ASSUME NEW M, FiniteMoves(M), OutcomesFit(M), SearchInv(M), WinInv, Expand
    PROVE  WinInv'
<1>1. search' = "unwind" /\ root' = root /\ done' = done /\ search = "descend" /\ Children(at) = {}
  BY DEF Expand
<1>2. PICK moves, cs, T, c, w :
          /\ moves \in NextMoves(at) /\ cs = {Append(at, m) : m \in moves}
          /\ c \in cs /\ T = tree \cup cs /\ tree' = T /\ w \in Outcomes(c)
          /\ Backpropagate(T, Path(c), w)
  BY DEF Expand
<1>3. /\ at \in tree /\ at \in Seq(M) /\ ~Over(at) /\ done \subseteq tree
      /\ IsTree(tree, root, M) /\ Len(root) \in Nat /\ Len(root) <= Len(at) /\ Len(at) \in Nat
      /\ tree \subseteq Seq(M) /\ \A n \in tree : Path(n) = PathFrom(root, n)
  BY <1>1, TreeFacts DEF SearchInv, TreeInv
<1>4. \A n : Path(n)' = Path(n) /\ MoverOf(n)' = MoverOf(n)
  BY <1>1 DEF Path, MoverOf
<1>5. \A n \in tree : Path(n) \subseteq tree
  <2> TAKE n \in tree
  <2>1. QED
    BY <1>3, PathThroughChildren
<1>6. ASSUME NEW x \in cs
      PROVE  /\ x \in Seq(M) /\ x \notin tree /\ Path(x) = Path(at) \cup {x}
             /\ Outcomes(x) \subseteq Outcomes(at)
  <2>1. PICK m \in moves : x = Append(at, m)
    BY <1>2
  <2>2. m \in M /\ m \in NormalMoves(at) \cup FlagMoves(at)
    BY <1>2, <1>3, MovesOf, MovesFit
  <2>3. IsNext(at, m, x)
    BY <2>1 DEF IsNext
  <2>4. x \in Seq(M) /\ Len(x) = Len(at) + 1 /\ Parent(x) = at
    BY <1>3, <2>2, <2>3, ChildOf
  <2>5. x \notin tree
    BY <1>1, <2>4 DEF Children
  <2>6. Path(x) = Path(at) \cup {x}
    BY <1>3, <2>2, <2>3, PathOfChild
  <2>7. QED
    BY <1>3, <2>1, <2>2, <2>4, <2>5, <2>6 DEF OutcomesFit
<1>7. Path(c) \subseteq T /\ \A p \in Path(c) : Outcomes(c) \subseteq Outcomes(p)
  BY <1>2, <1>3, <1>5, <1>6 DEF WinInv, OutcomesInv
<1>8. ASSUME NEW n \in T
      PROVE  /\ n \in tree /\ wins[n] = 2 * count[n] /\ (n \in Path(c) => MoverOf(n) = w)
                    => wins'[n] = 2 * count'[n]
             /\ n \notin tree /\ (n \in Path(c) => MoverOf(n) = w) => wins'[n] = 2 * count'[n]
             /\ n \in tree /\ wins[n] < 2 * count[n] => wins'[n] < 2 * count'[n]
             /\ n \in tree => count'[n] >= count[n]
  <2>1. tree \subseteq T /\ Backpropagate(T, Path(c), w) /\ n \in T
    BY <1>2
  <2>2. QED
    BY <2>1, PointsPlayed
<1>9. OutcomesInv'
  <2>1. ASSUME NEW n \in T, NEW p \in Path(n) PROVE Outcomes(n) \subseteq Outcomes(p)
    <3>1. CASE n \in tree
      BY <2>1, <3>1 DEF WinInv, OutcomesInv
    <3>2. CASE n \in cs
      BY <1>3, <1>6, <2>1, <3>2 DEF WinInv, OutcomesInv
    <3>3. QED
      BY <1>2, <3>1, <3>2
  <2>2. QED
    BY <1>2, <1>4, <2>1 DEF OutcomesInv
<1>10. SureInv'
  <2>1. ASSUME NEW n \in T, Outcomes(n) = {MoverOf(n)} PROVE wins'[n] = 2 * count'[n]
    <3>1. n \in Path(c) => MoverOf(n) = w
      BY <1>2, <1>7, <2>1
    <3>2. n \in tree => wins[n] = 2 * count[n]
      BY <2>1 DEF WinInv, SureInv
    <3>3. QED
      BY <1>8, <3>1, <3>2
  <2>2. QED
    BY <1>2, <1>4, <2>1 DEF SureInv
<1>11. LostInv'
  <2>1. ASSUME NEW n \in tree \cap done, Over(n)
        PROVE  /\ count'[n] > 0
               /\ \A p \in Path(n) : Winner(n) # MoverOf(p) => wins'[p] < 2 * count'[p]
    <3>1. /\ count[n] > 0
          /\ \A p \in Path(n) : Winner(n) # MoverOf(p) => wins[p] < 2 * count[p]
      BY <2>1 DEF WinInv, LostInv
    <3>2. n \in T /\ Path(n) \subseteq tree /\ tree \subseteq T
      BY <1>2, <1>5
    <3>3. count[n] \in Nat /\ count'[n] \in Nat /\ count'[n] >= count[n]
      BY <1>2, <1>8, <3>2, PlayedOnce DEF SearchInv, TreeInv
    <3>4. QED
      BY <1>8, <3>1, <3>2, <3>3
  <2>2. QED
    BY <1>1, <1>3, <1>4, <2>1 DEF LostInv
<1>12. BestInv'
  BY <1>1 DEF BestInv
<1>13. QED
  BY <1>9, <1>10, <1>11, <1>12 DEF WinInv

LEMMA WinKept ==
    ASSUME NEW M, FiniteMoves(M), OutcomesFit(M), SearchInv(M), WinInv, [Next]_vars
    PROVE  WinInv'
<1>1. position \in Seq(M) /\ <<>> \in Seq(M)
  BY DEF SearchInv, TreeInv
<1>2. ASSUME UNCHANGED mctsVars PROVE WinInv'
  <2>1. /\ search' = search /\ root' = root /\ tree' = tree /\ count' = count /\ wins' = wins
        /\ done' = done /\ best' = best
    BY <1>2 DEF mctsVars, treeVars
  <2>2. BestInv'
    BY <2>1 DEF WinInv, BestInv, Children, AtLeastAsGood
  <2>3. QED
    BY <2>1, <2>2, UnplayedWins
<1>3. CASE TakeRequest
  <2>1. NewTree(position) /\ search' = "loop"
    BY <1>3 DEF TakeRequest, StartSearch
  <2>2. QED
    BY <1>1, <2>1, NewTreeWins DEF NewTree
<1>4. CASE SearchStepOnly
  <2>1. CASE StartIteration \/ Descend \/ EndIteration
    <3>1. /\ root' = root /\ tree' = tree /\ count' = count /\ wins' = wins /\ done' = done
          /\ search' # "returned"
      BY <2>1 DEF StartIteration, Descend, EndIteration, treeVars
    <3>2. BestInv'
      BY <3>1 DEF BestInv
    <3>3. QED
      BY <3>1, <3>2, UnplayedWins
  <2>2. QED
    BY <1>4, <2>1, ExpandWins, LastMoveWins, UnwindWins DEF SearchStepOnly, SearchStep
<1>5. CASE Return
  BY <1>5, ReturnWins DEF Return
<1>6. CASE SendMove
  <2>1. NewTree(<<>>) /\ search' = "idle"
    BY <1>6 DEF SendMove, DropTree
  <2>2. QED
    BY <1>1, <2>1, NewTreeWins DEF NewTree
<1>7. CASE HumanMove \/ OtherSuggested \/ RecordStep \/ StatuszStep \/ UNCHANGED vars
  BY <1>2, <1>7 DEF HumanMove, OtherSuggested, RecordStep, StatuszStep, vars
<1>8. QED
  BY <1>3, <1>4, <1>5, <1>6, <1>7 DEF Next

LEMMA WinInitial == ASSUME Init PROVE WinInv
<1>1. /\ search = "idle" /\ root = <<>> /\ tree = {<<>>} /\ done = {}
      /\ count = [n \in {<<>>} |-> 0] /\ wins = [n \in {<<>>} |-> 0]
  BY DEF Init, IdleTree
<1>2. Path(<<>>) = {<<>>}
  <2>1. <<>> \in Seq({}) /\ Len(<<>>) = 0
    OBVIOUS
  <2>2. SubSeq(<<>>, 1, 0) = <<>>
    BY <2>1, WholePrefix
  <2>3. 0..0 = {0}
    OBVIOUS
  <2>4. QED
    BY <1>1, <2>1, <2>2, <2>3 DEF Path
<1>3. OutcomesInv
  BY <1>1, <1>2 DEF OutcomesInv
<1>4. SureInv /\ LostInv /\ BestInv
  BY <1>1 DEF SureInv, LostInv, BestInv
<1>5. QED
  BY <1>3, <1>4 DEF WinInv

\* When the root is done, everything in the tree is.
LEMMA AllDone ==
    ASSUME NEW M, SearchInv(M), search = "returned", root \in done
    PROVE  tree \subseteq done
<1> DEFINE Left == {n \in tree : n \notin done}
           Depths == {Len(n) : n \in Left}
<1>1. SUFFICES ASSUME Left # {} PROVE FALSE
  OBVIOUS
<1>2. \A n \in tree : Len(n) \in Nat
  BY TreeFacts DEF SearchInv
<1>3. Depths \in SUBSET Nat /\ Depths # {}
  BY <1>1, <1>2
<1> HIDE DEF Depths
<1>4. PICK l \in Depths : \A k \in Depths : l <= k
  BY <1>3, LeastNumber
<1>5. PICK n \in Left : Len(n) = l
  BY <1>4 DEF Depths
<1>6. /\ Parent(n) \in tree /\ n \in Children(Parent(n)) /\ Len(n) = Len(Parent(n)) + 1
  <2>1. n \in tree /\ n # root
    BY <1>5
  <2>2. Parent(n) \in tree /\ n \in Children(Parent(n))
    BY <2>1, TreeFacts DEF SearchInv
  <2>3. QED
    BY <2>2 DEF Children
<1>7. Parent(n) \in done
  <2>1. Len(Parent(n)) \in Nat /\ Len(Parent(n)) < l /\ l \in Nat
    BY <1>2, <1>5, <1>6
  <2>2. Len(Parent(n)) \notin Depths
    BY <1>3, <1>4, <2>1
  <2>3. QED
    BY <1>6, <2>2 DEF Depths
<1>8. Live(Parent(n)) = {}
  <2>1. Cardinality(Live(Parent(n))) = 0
    BY <1>6, <1>7 DEF SearchInv, LiveInv
  <2>2. IsFiniteSet(Live(Parent(n)))
    <3>1. IsFiniteSet(Children(Parent(n))) /\ Live(Parent(n)) \subseteq Children(Parent(n))
      BY <1>6, TreeFacts DEF SearchInv, Live
    <3>2. QED
      BY <3>1, FS_Subset
  <2>3. QED
    BY <2>1, <2>2, FS_EmptySet
<1>9. QED
  BY <1>5, <1>6, <1>8 DEF Live

\* A share of won games that is at least 1.
LEMMA AllWon ==
    ASSUME NEW w \in Nat, NEW u \in Nat, NEW v \in Nat, v > 0,
           w <= 2 * u, w * v >= (2 * v) * u
    PROVE  w = 2 * u
<1>1. (2 * v) * u = (2 * u) * v
  OBVIOUS
<1>2. 2 * u > w => (2 * u) * v > w * v
  <2>1. ASSUME 2 * u > w PROVE (2 * u) * v > w * v
    <3>1. PICK x \in Nat : 2 * u = w + x /\ x > 0
      <4>1. 2 * u - w \in Nat /\ 2 * u = w + (2 * u - w) /\ 2 * u - w > 0
        BY <2>1
      <4>2. QED
        BY <4>1
    <3>2. (w + x) * v = w * v + x * v
      OBVIOUS
    <3>3. x * v > 0
      BY <3>1
    <3>4. QED
      BY <3>1, <3>2, <3>3
  <2>2. QED
    BY <2>1
<1>3. QED
  BY <1>1, <1>2

\* When everything was explored and a move is a sure win, the suggested move won all its
\* games and wins at every end of the tree below it (mcts.go: SuggestMove).
THEOREM SureWinTaken ==
    ASSUME NEW M, FiniteMoves(M), OutcomesFit(M)
    PROVE  Spec => []SureWinIsSuggested
<1>1. Init => SearchInv(M) /\ WinInv
  BY SearchInitial, WinInitial
<1>2. (SearchInv(M) /\ WinInv) /\ [Next]_vars => (SearchInv(M) /\ WinInv)'
  BY SearchKept, WinKept
<1>3. SearchInv(M) /\ WinInv => SureWinIsSuggested
  <2>1. SUFFICES ASSUME SearchInv(M), WinInv, search = "returned", root \in done,
                        NEW c \in Children(root), Outcomes(c) = {Turn(root)}
                 PROVE  /\ wins[best] = 2 * count[best]
                        /\ \A n \in tree : Over(n) /\ SubSeq(n, 1, Len(best)) = best =>
                                               Winner(n) = Turn(root)
    BY DEF SureWinIsSuggested
  <2>2. /\ best \in Children(root) /\ AtLeastAsGood(best, c)
    BY <2>1 DEF WinInv, BestInv
  <2>3. /\ root \in tree /\ ~Over(root) /\ IsTree(tree, root, M)
        /\ count \in [tree -> Nat] /\ wins \in [tree -> Nat]
        /\ \A n \in tree : wins[n] =< 2 * count[n] /\ (Children(n) # {} => ~Over(n))
    BY <2>1, TreeFacts DEF SearchInv, TreeInv, GamesInv
  <2>4. \A x \in Children(root) :
            x \in tree /\ MoverOf(x) = Turn(root) /\ Len(x) = Len(root) + 1
    <3>1. \A x \in Children(root) : x \in tree /\ x # root
      BY <2>1, <2>3, TreeFacts DEF SearchInv
    <3>2. QED
      BY <3>1 DEF Children, MoverOf
  <2>5. tree \subseteq done
    BY <2>1, AllDone
  <2>6. wins[c] = 2 * count[c]
    BY <2>1, <2>4 DEF WinInv, SureInv
  <2>7. count[c] > 0
    <3>1. CASE Children(c) # {}
      BY <2>1, <2>4, <3>1 DEF SearchInv, GamesInv
    <3>2. CASE Children(c) = {}
      <4>1. Over(c) /\ c \in tree \cap done
        BY <2>1, <2>4, <2>5, <3>2 DEF SearchInv, LiveInv
      <4>2. QED
        BY <2>1, <4>1 DEF WinInv, LostInv
    <3>3. QED
      BY <3>1, <3>2
  <2>8. wins[best] = 2 * count[best]
    <3>1. PICK w \in Nat, u \in Nat, v \in Nat, d \in Nat :
              w = wins[best] /\ u = count[best] /\ v = count[c] /\ d = wins[c]
      BY <2>2, <2>3, <2>4
    <3>2. v > 0 /\ d = 2 * v /\ w =< 2 * u
      BY <2>2, <2>3, <2>4, <2>6, <2>7, <3>1
    <3>3. v = 0 \/ (u > 0 /\ w * v >= d * u) \/ d = 0
      BY <2>2, <3>1 DEF AtLeastAsGood
    <3>4. w * v >= (2 * v) * u
      BY ONLY <3>1, <3>2, <3>3
    <3>5. w = 2 * u
      BY ONLY <3>1, <3>2, <3>4, AllWon
    <3>6. QED
      BY <3>1, <3>5
  <2>9. ASSUME NEW n \in tree, Over(n), SubSeq(n, 1, Len(best)) = best
        PROVE  Winner(n) = Turn(root)
    <3>1. n # root /\ n \in done
      BY <2>3, <2>5, <2>9
    <3>2. Len(n) \in Nat /\ Len(root) \in Nat /\ Len(n) > Len(root)
      BY <2>3, <3>1, TreeFacts, TreeParent DEF SearchInv
    <3>3. Len(best) \in Len(root)..Len(n)
      BY <2>2, <2>4, <3>2
    <3>4. best \in Path(n)
      BY <2>9, <3>3 DEF Path
    <3>5. Winner(n) # MoverOf(best) => wins[best] < 2 * count[best]
      BY <2>1, <2>9, <3>1, <3>4 DEF WinInv, LostInv
    <3>6. wins[best] \in Nat /\ count[best] \in Nat
      BY <2>2, <2>3, <2>4
    <3>7. QED
      BY <2>2, <2>4, <2>8, <3>5, <3>6
  <2>10. QED
    BY <2>8, <2>9
<1>4. QED
  BY <1>1, <1>2, <1>3, PTL DEF Spec

=============================================================================
