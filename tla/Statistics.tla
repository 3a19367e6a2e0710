----------------------------- MODULE Statistics -----------------------------
(***************************************************************************)
(* Counters and distributions of the hexz server: what the goroutine of a  *)
(* computer player records after each suggested move, and the report       *)
(* /statusz makes of it meanwhile.  Two locks are involved: countersMut    *)
(* protects the map of counters, each counter has a lock of its own, so a  *)
(* counter that was looked up may be incremented while the map is locked.  *)
(* A distribution is added to and copied under distribMut in one step.     *)
(***************************************************************************)
EXTENDS Integers, Sequences, FiniteSets, Sums

CONSTANTS
    Recorders,     \* computer players
    UpperBounds(_) \* upper bounds of the buckets of each distribution

Counters == {"suggested_moves", "fully_explored"}
Distributions == {"elapsed", "iterations", "tree_size", "iterations_per_sec"}

ASSUME StatisticsAssumption ==
    /\ IsFiniteSet(Recorders)
    /\ \A d \in Distributions : UpperBounds(d) \in Seq(Int)

VARIABLES
    counters, \* value of each counter that was created
    buckets,  \* counts of each distribution
    rec,      \* what each computer player has yet to record
    statusz,  \* where handleStatusz is
    report    \* what it has read

statVars == <<counters, buckets, rec, statusz, report>>

Started(d) == [k \in 1..(Len(UpperBounds(d)) + 1) |-> 0]
Unread == [counters |-> <<>>, buckets |-> <<>>]

StatInit ==
    /\ counters = <<>>
    /\ buckets = [d \in Distributions |-> Started(d)]
    /\ rec = [r \in Recorders |-> [todo |-> <<>>, values |-> <<>>]]
    /\ statusz = "idle"
    /\ report = Unread

-----------------------------------------------------------------------------
(* Recording.                                                              *)

\* A counter is looked up, then incremented.
CountStep(c) == <<[do |-> "find", name |-> c], [do |-> "increment", name |-> c]>>
AddStep(d) == <<[do |-> "add", name |-> d]>>

\* The steps after a suggestion, in their order.
StepsFor(explored) ==
    CountStep("suggested_moves")
    \o (IF explored THEN CountStep("fully_explored") ELSE <<>>)
    \o AddStep("elapsed") \o AddStep("iterations")
    \o AddStep("tree_size") \o AddStep("iterations_per_sec")

Busy(r) == rec[r].todo # <<>>

\* Computer player r has sent a move and goes on to record how it was found.
Suggested(r, explored, values) ==
    /\ ~Busy(r)
    /\ rec' = [rec EXCEPT ![r] = [todo |-> StepsFor(explored), values |-> values]]
    /\ UNCHANGED <<counters, buckets, statusz, report>>

\* The step of r is done; the values are gone after the last one.
StepDone(r) ==
    LET todo == Tail(rec[r].todo) IN
    rec' = [rec EXCEPT ![r] =
               [todo |-> todo, values |-> IF todo = <<>> THEN <<>> ELSE @.values]]

Doing(r, what) == Busy(r) /\ Head(rec[r].todo).do = what
Current(r) == Head(rec[r].todo).name

\* mutant: the counters are looked up without the mutex
CountersUnguarded == TRUE
\* handleStatusz does not hold countersMut.
CountersUnlocked == statusz # "counters"

\* Look a counter up in the map, or create it.
FindCounter(r) ==
    /\ Doing(r, "find") /\ CountersUnlocked
    /\ counters' = [c \in DOMAIN counters \cup {Current(r)} |->
                       IF c \in DOMAIN counters THEN counters[c] ELSE 0]
    /\ StepDone(r)
    /\ UNCHANGED <<buckets, statusz, report>>

Increment(r) ==
    /\ Doing(r, "increment")
    /\ counters' = [counters EXCEPT ![Current(r)] = @ + 1]
    /\ StepDone(r)
    /\ UNCHANGED <<buckets, statusz, report>>

\* The first bucket whose upper bound lies above the value, or the last bucket.
BucketOf(d, value) ==
    LET bounds == UpperBounds(d)
        above  == {k \in DOMAIN bounds : bounds[k] > value}
    IN  CHOOSE k \in above \cup {Len(bounds) + 1} : \A j \in above : k =< j

AddValue(r) ==
    /\ Doing(r, "add")
    /\ LET d == Current(r) IN
       buckets' = [buckets EXCEPT ![d][BucketOf(d, rec[r].values[d])] = @ + 1]
    /\ StepDone(r)
    /\ UNCHANGED <<counters, statusz, report>>

Record(r) == FindCounter(r) \/ Increment(r) \/ AddValue(r)

-----------------------------------------------------------------------------
(* The report.                                                             *)

LockCounters ==
    /\ statusz = "idle"
    /\ statusz' = "counters"
    /\ UNCHANGED <<counters, buckets, rec, report>>

\* Counters are read one by one, in any order.
ReadCounter ==
    /\ statusz = "counters"
    /\ \E c \in DOMAIN counters \ DOMAIN report.counters :
           report' = [report EXCEPT !.counters =
               [x \in DOMAIN @ \cup {c} |-> IF x = c THEN counters[c] ELSE @[x]]]
    /\ UNCHANGED <<counters, buckets, rec, statusz>>

UnlockCounters ==
    /\ statusz = "counters"
    /\ DOMAIN report.counters = DOMAIN counters
    /\ statusz' = "distributions"
    /\ UNCHANGED <<counters, buckets, rec, report>>

CopyDistributions ==
    /\ statusz = "distributions"
    /\ report' = [report EXCEPT !.buckets = buckets]
    /\ statusz' = "encode"
    /\ UNCHANGED <<counters, buckets, rec>>

\* A bucket without a lower or an upper bound is reported with an infinite one.
Infinite(b) == \E d \in DOMAIN b : b[d][1] > 0 \/ b[d][Len(b[d])] > 0

\* The answer is sent, or encoding an infinite number fails: the handler panics,
\* which ends this request.
Answer ==
    /\ statusz = "encode"
    /\ statusz' = IF Infinite(report.buckets) THEN "panicked" ELSE "answered"
    /\ UNCHANGED <<counters, buckets, rec, report>>

NextReport ==
    /\ statusz \in {"answered", "panicked"}
    /\ statusz' = "idle"
    /\ report' = Unread
    /\ UNCHANGED <<counters, buckets, rec>>

Statusz ==
    LockCounters \/ ReadCounter \/ UnlockCounters \/ CopyDistributions \/ Answer \/ NextReport

-----------------------------------------------------------------------------
(* Properties.                                                             *)

Reported(c) == IF c \in DOMAIN report.counters THEN report.counters[c] ELSE 0
Total(d) == SumOf(report.buckets[d])

\* A report is made of values read at different times, while moves are being
\* recorded.  It never has more full explorations than suggested moves; each
\* distribution has no more values than the one recorded before it, and it lacks
\* at most one value per computer player of the moves that are counted.
ReportIsConsistent ==
    statusz \in {"encode", "answered", "panicked"} =>
        /\ Reported("fully_explored") =< Reported("suggested_moves")
        /\ Total("elapsed") >= Total("iterations")
        /\ Total("iterations") >= Total("tree_size")
        /\ Total("tree_size") >= Total("iterations_per_sec")
        /\ Reported("suggested_moves") =< Total("iterations_per_sec") + Cardinality(Recorders)

=============================================================================
