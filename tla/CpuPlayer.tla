----------------------------- MODULE CpuPlayer ------------------------------
(***************************************************************************)
(* The goroutine cpuPlayer of a single-player game: it is asked for a move *)
(* whenever it is its turn, searches one (Mcts), sends it and records how  *)
(* it was found (Statistics), while the other player moves, the computer   *)
(* players of other games record their own moves, and /statusz reports.    *)
(* Moves refused, resets and the end of the game are the subject of        *)
(* GameMaster.                                                             *)
(*                                                                         *)
(* A search shares nothing with the others before its move is sent, so its *)
(* steps commute with theirs: it is left to run while they are quiet.      *)
(***************************************************************************)
EXTENDS Mcts, Statistics

CONSTANTS
    Cpu,              \* this computer player, one of the Recorders
    CpuNum,           \* its number in the game
    OtherSuggestions, \* suggestions of the other ones: [explored, values]
    Times,            \* values of elapsed and iterations_per_sec
    MaxSuggestions    \* bound of the suggestions of the others

ASSUME CpuAssumption ==
    Cpu \in Recorders /\ \A s \in OtherSuggestions : s.explored \in BOOLEAN

VARIABLES
    position, \* the moves made in the game
    others    \* number of suggestions of the other computer players

vars == <<mctsVars, statVars, position, others>>

Init ==
    /\ IdleTree
    /\ StatInit
    /\ position = <<>>
    /\ others = 0

\* The other player makes a move without a flag.
HumanMove ==
    /\ search = "idle" /\ ~Over(position) /\ Turn(position) # CpuNum
    /\ \E m \in NormalMoves(position) : position' = Append(position, m)
    /\ UNCHANGED <<mctsVars, statVars, others>>

\* No computer player is recording and no report is being made.
Quiet == statusz = "idle" /\ \A r \in Recorders : ~Busy(r)

\* A token arrives on req; the goroutine takes it when it has recorded its last move.
TakeRequest ==
    /\ ~Over(position) /\ Turn(position) = CpuNum
    /\ Quiet
    /\ StartSearch(position)
    /\ UNCHANGED <<statVars, position, others>>

SearchStepOnly ==
    SearchStep /\ UNCHANGED <<statVars, position, others>>

Return == ReturnBest /\ UNCHANGED <<statVars, position, others>>

\* The move is sent and made, the tree is dropped.
SendMove ==
    /\ search = "returned"
    /\ position' = best
    /\ \E t, perSec \in Times :
           Suggested(Cpu, root \in done,
               [elapsed |-> t, iterations |-> count[root],
                tree_size |-> Cardinality(tree), iterations_per_sec |-> perSec])
    /\ DropTree
    /\ UNCHANGED others

OtherSuggested ==
    /\ search = "idle"
    /\ others < MaxSuggestions
    /\ others' = others + 1
    /\ \E r \in Recorders \ {Cpu}, s \in OtherSuggestions :
           Suggested(r, s.explored, s.values)
    /\ UNCHANGED <<mctsVars, position>>

RecordStep ==
    /\ \E r \in Recorders : Record(r)
    /\ UNCHANGED <<mctsVars, position, others>>

StatuszStep ==
    /\ search = "idle"
    /\ Statusz
    /\ UNCHANGED <<mctsVars, position, others>>

Next ==
    \/ HumanMove \/ TakeRequest \/ SearchStepOnly \/ Return \/ SendMove
    \/ OtherSuggested \/ RecordStep \/ StatuszStep

Spec == Init /\ [][Next]_vars

\* The search goes on while the scheduler runs its goroutine, and ends by itself
\* when everything is explored; that the time is over is not assumed.
FairSpec ==
    /\ Spec
    /\ WF_vars(SearchStepOnly)
    /\ WF_vars(root \in done /\ Return)

\* SuggestMove returns even if its time were unlimited: every iteration adds to
\* the tree or completes a part of it, until the root is done.
SearchEnds == (search = "loop") ~> (search = "returned")

=============================================================================
