-------------------------------- MODULE Mcts --------------------------------
(***************************************************************************)
(* The tree search of the computer player (SuggestMove): a tree of moves   *)
(* grown by random games.  Every iteration replays moves from the root on  *)
(* a clone of the engine, expands one node or reaches the end of the game, *)
(* and returns along the same path.                                        *)
(*                                                                         *)
(* A node is the sequence of the moves that lead to it from the start of   *)
(* the game.  The engine is given by constant operators on nodes: whose    *)
(* turn it is, the moves there are, and who wins.  Which of the live       *)
(* children has the highest UCT value is left open; children that were     *)
(* never played come first.                                                *)
(***************************************************************************)
EXTENDS Integers, Sequences, FiniteSets, FiniteSetsExt, Sums

CONSTANTS
    Over(_),          \* IsDone() after these moves
    Turn(_),          \* Board().Turn after these moves
    Winner(_),        \* Winner() after these moves, 0: nobody
    NormalMoves(_),   \* moves without a flag
    FlagMoves(_),     \* cells on which the player on turn may put a flag
    Outcomes(_),      \* winners of the games that start with these moves
    MaxFlagPositions, \* MCTS.MaxFlagPositions
    FlagsFirst,       \* MCTS.FlagsFirst
    Batch             \* iterations between two looks at the clock

ASSUME MctsAssumption ==
    MaxFlagPositions \in Nat \ {0} /\ FlagsFirst \in BOOLEAN /\ Batch \in Nat \ {0}

VARIABLES
    search,       \* "idle", or where SuggestMove is: "loop", "descend", "unwind", "returned"
    root,         \* the position the search starts from
    tree,         \* its nodes
    count,        \* random games played through each node
    wins,         \* half points won in them by the player who moved to the node
    done,         \* nodes below which everything was played
    liveChildren, \* number of children that are not done, 0 before the expansion
    at,           \* the node whose call of run is active
    best          \* the child SuggestMove returns

treeVars == <<root, tree, count, wins, done, liveChildren>>
mctsVars == <<search, treeVars, at, best>>

Parent(n) == SubSeq(n, 1, Len(n) - 1)
Children(n) == {c \in tree : Len(c) = Len(n) + 1 /\ Parent(c) = n}

\* mutant: the player who is to move next
MoverOfNext(n) == Turn(n)
\* The player who wins a random game for node n: the one who moved to it.
MoverOf(n) == IF n = root THEN Turn(n) ELSE Turn(Parent(n))

\* mutant: the root is left out
PathBelow(n) == {SubSeq(n, 1, k) : k \in (Len(root) + 1)..Len(n)}
\* Nodes on the path from the root to n.
Path(n) == {SubSeq(n, 1, k) : k \in Len(root)..Len(n)}

IdleTree ==
    /\ search = "idle"
    /\ root = <<>>
    /\ tree = {<<>>}
    /\ count = [n \in tree |-> 0]
    /\ wins = [n \in tree |-> 0]
    /\ done = {}
    /\ liveChildren = [n \in tree |-> 0]
    /\ at = root
    /\ best = root

\* A tree that is only its root p.
NewTree(p) ==
    /\ root' = p
    /\ tree' = {p}
    /\ count' = [n \in {p} |-> 0]
    /\ wins' = [n \in {p} |-> 0]
    /\ done' = {}
    /\ liveChildren' = [n \in {p} |-> 0]
    /\ at' = p
    /\ best' = p

\* SuggestMove is called in position p.
StartSearch(p) ==
    /\ search = "idle"
    /\ ~Over(p)
    /\ search' = "loop"
    /\ NewTree(p)

\* SuggestMove has returned.
DropTree ==
    /\ search = "returned"
    /\ search' = "idle"
    /\ NewTree(<<>>)

\* The clock is read before every Batch-th iteration; the time is not over
\* before the first one.
MayStop == count[root] > 0 /\ count[root] % Batch = 0

StartIteration ==
    /\ search = "loop"
    /\ root \notin done
    /\ search' = "descend"
    /\ UNCHANGED <<treeVars, at, best>>

\* The flag positions that reservoir sampling may pick.
FlagSamples(n) ==
    LET free == FlagMoves(n) IN
    kSubset(IF Cardinality(free) < MaxFlagPositions THEN Cardinality(free)
            ELSE MaxFlagPositions, free)

\* The lists of moves that nextMoves may return.
NextMoves(n) ==
    {IF flags # {} /\ FlagsFirst THEN flags ELSE NormalMoves(n) \cup flags :
        flags \in FlagSamples(n)}

\* Play a game that nodes `path` are part of and that `winner` wins.
HalfPoints(n, winner) ==
    IF MoverOf(n) = winner THEN 2 ELSE IF winner = 0 THEN 1 ELSE 0

Backpropagate(nodes, path, winner) ==
    LET old(f, n) == IF n \in tree THEN f[n] ELSE 0 IN
    /\ count' = [n \in nodes |-> old(count, n) + (IF n \in path THEN 1 ELSE 0)]
    /\ wins' = [n \in nodes |->
                   old(wins, n) + (IF n \in path THEN HalfPoints(n, winner) ELSE 0)]

\* A node without children gets them, and a random game is played from one of them.
Expand ==
    /\ search = "descend" /\ Children(at) = {}
    /\ \E moves \in NextMoves(at) :
           LET cs == {Append(at, m) : m \in moves} IN
           /\ tree' = tree \cup cs
           /\ liveChildren' = [n \in tree \cup cs |->
                  IF n = at THEN Cardinality(cs) ELSE IF n \in tree THEN liveChildren[n] ELSE 0]
           /\ \E c \in cs : \E winner \in Outcomes(c) :
                  Backpropagate(tree \cup cs, Path(c), winner)
    /\ search' = "unwind"
    /\ UNCHANGED <<root, done, at, best>>

\* The children that may have the highest UCT value.
Candidates(n) ==
    LET live == {c \in Children(n) : c \notin done}
        new  == {c \in live : count[c] = 0}
    IN  IF new # {} THEN new ELSE live

\* Descend to a child after which the game goes on.
Descend ==
    /\ search = "descend"
    /\ \E c \in Candidates(at) : ~Over(c) /\ at' = c
    /\ UNCHANGED <<search, treeVars, best>>

\* Descend to a child that ends the game.
LastMove ==
    /\ search = "descend"
    /\ \E c \in Candidates(at) :
           /\ Over(c)
           /\ at' = c
           /\ done' = done \cup {c}
           /\ Backpropagate(tree, Path(c), Winner(c))
    /\ search' = "unwind"
    /\ UNCHANGED <<root, tree, liveChildren, best>>

\* mutant: one too early
LastLiveChildEarly(n) == liveChildren[n] =< 2
\* mutant: tested before the child is taken off
LastLiveChildLate(n) == liveChildren[n] = 0
\* Every child of n is done once child c of n is.
LastLiveChild(n) == liveChildren[n] = 1

\* run returns to the node before.
Unwind ==
    /\ search = "unwind" /\ at # root
    /\ at' = Parent(at)
    /\ IF at \in done
       THEN /\ liveChildren' = [liveChildren EXCEPT ![Parent(at)] = @ - 1]
            /\ done' = done \cup {n \in {Parent(at)} : LastLiveChild(n)}
       ELSE UNCHANGED <<liveChildren, done>>
    /\ UNCHANGED <<search, root, tree, count, wins, best>>

EndIteration ==
    /\ search = "unwind" /\ at = root
    /\ search' = "loop"
    /\ UNCHANGED <<treeVars, at, best>>

\* Q(): the share of won games, 0 for a node that was not played.
AtLeastAsGood(a, b) ==
    \/ count[b] = 0
    \/ count[a] > 0 /\ wins[a] * count[b] >= wins[b] * count[a]
    \/ wins[b] = 0

\* The time is over, or the tree completely explored.
ReturnBest ==
    /\ search = "loop"
    /\ root \in done \/ MayStop
    /\ \E c \in Children(root) :
           /\ \A b \in Children(root) : AtLeastAsGood(c, b)
           /\ best' = c
    /\ search' = "returned"
    /\ UNCHANGED <<treeVars, at>>

\* A step of the search.
SearchStep ==
    StartIteration \/ Expand \/ Descend \/ LastMove \/ Unwind \/ EndIteration

-----------------------------------------------------------------------------
(* Properties.                                                             *)

Counts(n) == SumOf([c \in Children(n) |-> count[c]])

\* The child that `at` was just returning to has not been counted yet.
Returning(c) == search = "unwind" /\ c = at /\ c \in done

\* liveChildren is the number of children that are not done, and a node is done
\* only if it ends the game or has no live child: the search, which descends only
\* to nodes that are not done, always finds a child (mcts.go:165-168).
LiveChildrenCounted ==
    \A n \in tree : LET cs == Children(n) IN
        /\ cs # {} => liveChildren[n] = Cardinality({c \in cs : c \notin done \/ Returning(c)})
        /\ IF cs = {} THEN n \in done => Over(n) ELSE n \in done <=> liveChildren[n] = 0

\* The games of a node are those of its children, and one more if the first one
\* was a random game from the node itself; none is lost or counted twice on the
\* way back, and no node has a UCT value of log 0.
CountsAddUp ==
    \A n \in tree : Children(n) # {} =>
        /\ count[n] - Counts(n) \in IF n = root THEN {0} ELSE {0, 1}
        /\ count[n] > 0
        /\ \A c \in Children(n) : wins[c] =< 2 * count[c]

\* When everything was explored and some move wins whatever follows, a move is
\* suggested that won every game, and wins at every end of the tree below it.
SureWinIsSuggested ==
    search = "returned" /\ root \in done
    /\ (\E c \in Children(root) : Outcomes(c) = {Turn(root)}) =>
        /\ wins[best] = 2 * count[best]
        /\ \A n \in tree :
               Over(n) /\ SubSeq(n, 1, Len(best)) = best => Winner(n) = Turn(root)

=============================================================================
