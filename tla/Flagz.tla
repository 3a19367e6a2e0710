------------------------------- MODULE Flagz -------------------------------
(***************************************************************************)
(* The engine of the Flagz game (flagz.go).  Players put flags, worth 0,   *)
(* and normal cells, worth one more than the lowest own neighbour, on free *)
(* cells; next to an own cell of MaxValue no more normal cells can be put. *)
(* A new cell collects the grass around it that is worth no more than it,  *)
(* and collected grass collects in turn.                                   *)
(*                                                                         *)
(* The engine never recounts the board: every move adjusts the values the  *)
(* free cells would have, the number of free cells and the number of moves *)
(* each player has.  A move is taken apart at the cells that               *)
(* updateNeighborCells visits: it is under way until todo is empty, and    *)
(* nothing else happens before FinishMove.  The code visits the neighbours *)
(* depth first; here they are visited in any order.                        *)
(*                                                                         *)
(* MakeMove does not ask whether the game is over (its callers do), so     *)
(* moves after the end show whether the end came too early.                *)
(***************************************************************************)
EXTENDS HexBoard, FiniteSets, Sums

CONSTANTS
    MaxValue,       \* flagzMaxValue
    NumFlags,       \* flags of each player (InitializeResources)
    NumRockCells,   \* flagzNumRockCells
    NumGrassCells,  \* flagzNumGrassCells
    Layouts         \* boards that PopulateInitialCells produces

ASSUME FlagzAssumption ==
    /\ MaxValue \in Nat \ {0} /\ NumFlags \in Nat \ {0}
    /\ NumRockCells \in Nat /\ NumGrassCells \in 0..MaxValue
    /\ NumRockCells + NumGrassCells < Cardinality(Cells)

\* What PopulateInitialCells may leave: rocks, and grass worth 1, 2, ...; both
\* loops give up after as many tries as there are cells.
IsLayout(l) ==
    /\ l.rocks \subseteq Cells /\ Cardinality(l.rocks) <= NumRockCells
    /\ DOMAIN l.grass \subseteq Cells \ l.rocks
    /\ Cardinality(DOMAIN l.grass) <= NumGrassCells
    /\ {l.grass[c] : c \in DOMAIN l.grass} = 1..Cardinality(DOMAIN l.grass)

ASSUME LayoutsAssumption == \A l \in Layouts : IsLayout(l)

VARIABLES
    field,          \* type, owner and value of each cell
    nextVal,        \* NextVal of each cell for each player; -1: blocked
    turn, move, score, state,
    flags,          \* Resources[p].NumPieces[cellFlag]
    freeCells,      \* FreeCells
    normalMoves,    \* NormalMoves
    moving,         \* a move is under way
    todo            \* cells updateNeighborCells has to visit, and from where

counters == <<freeCells, normalMoves>>
vars == <<field, nextVal, turn, move, score, state, flags, counters, moving, todo>>

Player == {1, 2}
Other(p) == 3 - p
Free(c) == field[c].type = "normal" /\ field[c].owner = 0     \* !occupied()
FreeSet == {c \in Cells : Free(c)}

-----------------------------------------------------------------------------
\* PopulateInitialCells, InitializeResources, Reset.
Populate(l) ==
    [c \in Cells |->
        IF c \in l.rocks THEN [type |-> "rock", owner |-> 0, value |-> 0]
        ELSE IF c \in DOMAIN l.grass THEN [type |-> "grass", owner |-> 0, value |-> l.grass[c]]
        ELSE [type |-> "normal", owner |-> 0, value |-> 0]]

CountFree(l) == Cardinality(Cells \ (l.rocks \cup DOMAIN l.grass))

NewGame(l) ==
    [field |-> Populate(l), nextVal |-> [p \in Player |-> [c \in Cells |-> 0]],
     turn |-> 1, move |-> 0, score |-> [p \in Player |-> 0], state |-> "Running",
     flags |-> [p \in Player |-> NumFlags],
     freeCells |-> CountFree(l), normalMoves |-> [p \in Player |-> 0]]

Init ==
    \E l \in Layouts : LET g == NewGame(l) IN
    /\ field = g.field /\ nextVal = g.nextVal /\ turn = g.turn /\ move = g.move
    /\ score = g.score /\ state = g.state /\ flags = g.flags
    /\ freeCells = g.freeCells /\ normalMoves = g.normalMoves
    /\ moving = FALSE /\ todo = {}

Reset ==
    ~moving /\ \E l \in Layouts : LET g == NewGame(l) IN
    /\ field' = g.field /\ nextVal' = g.nextVal /\ turn' = g.turn /\ move' = g.move
    /\ score' = g.score /\ state' = g.state /\ flags' = g.flags
    /\ freeCells' = g.freeCells /\ normalMoves' = g.normalMoves
    /\ UNCHANGED <<moving, todo>>

-----------------------------------------------------------------------------
(* MakeMove.                                                                 *)

\* The moves MakeMove does not refuse.
Accepts(m) ==
    /\ m.playerNum = turn /\ m.move = move /\ m.cell \in Cells /\ Free(m.cell)
    /\ \/ m.cellType = "normal" /\ nextVal[turn][m.cell] > 0
       \/ m.cellType = "flag" /\ flags[turn] # 0

\* The number of normal moves after cell c is taken.
OwnMovesAfter(c) ==     \* mutant: forgets that the other player loses a move
    [normalMoves EXCEPT ![turn] = IF nextVal[turn][c] > 0 THEN @ - 1 ELSE @]
MovesAfter(c) ==
    [p \in Player |-> IF nextVal[p][c] > 0 THEN normalMoves[p] - 1 ELSE normalMoves[p]]

MakeMove(m) ==
    /\ ~moving /\ Accepts(m)
    /\ LET val == IF m.cellType = "flag" THEN 0 ELSE nextVal[turn][m.cell] IN
       /\ field' = [field EXCEPT ![m.cell] =
                        [type |-> m.cellType, owner |-> turn, value |-> val]]
       /\ score' = [score EXCEPT ![turn] = @ + val]
    /\ flags' = IF m.cellType = "flag" THEN [flags EXCEPT ![turn] = @ - 1] ELSE flags
    /\ freeCells' = freeCells - 1
    /\ normalMoves' = MovesAfter(m.cell)
    /\ moving' = TRUE /\ todo' = {m.cell} \X Neighbors(m.cell)
    /\ UNCHANGED <<nextVal, turn, move, state>>

\* What a free cell is worth to a player who got a neighbour worth v, if it
\* was worth old before.
NewValLast(old, v) ==       \* mutant: the last neighbour decides
    IF v = MaxValue THEN -1 ELSE IF old = -1 THEN -1 ELSE v + 1
NewValUnblocked(old, v) ==  \* mutant: a cell of MaxValue does not block
    IF old = 0 \/ old > v + 1 THEN v + 1 ELSE old
NewVal(old, v) ==
    IF v = MaxValue THEN -1
    ELSE IF old = 0 \/ old > v + 1 THEN v + 1
    ELSE old

VisitFree(f, nb) ==
    LET p == field[f].owner
        old == nextVal[p][nb]
        new == NewVal(old, field[f].value)
    IN
    /\ Free(nb)
    /\ nextVal' = [nextVal EXCEPT ![p][nb] = new]
    /\ normalMoves' = [normalMoves EXCEPT ![p] =
            IF old > 0 /\ new = -1 THEN @ - 1 ELSE IF old = 0 /\ new > 0 THEN @ + 1 ELSE @]
    /\ todo' = todo \ {<<f, nb>>}
    /\ UNCHANGED <<field, score>>

Collectable(f, nb) == field[nb].type = "grass" /\ field[nb].value <= field[f].value

\* The cells to visit because of new cell g: in turn, its neighbours.
VisitNothing(g) == {}       \* mutant: collected grass does not collect
VisitFrom(g) == {g} \X Neighbors(g)

\* What the grass of cell nb adds to the score.
GrassValueOfCollector(f, nb) == field[f].value  \* mutant: takes the new cell's value
GrassValue(f, nb) == field[nb].value

VisitGrass(f, nb) ==
    LET p == field[f].owner IN
    /\ Collectable(f, nb)
    /\ field' = [field EXCEPT ![nb].type = "normal", ![nb].owner = p]
    /\ score' = [score EXCEPT ![p] = @ + GrassValue(f, nb)]
    /\ todo' = (todo \ {<<f, nb>>}) \cup VisitFrom(nb)
    /\ UNCHANGED <<nextVal, normalMoves>>

VisitOther(f, nb) ==
    /\ ~Free(nb) /\ ~Collectable(f, nb)
    /\ todo' = todo \ {<<f, nb>>}
    /\ UNCHANGED <<field, nextVal, score, normalMoves>>

\* One round of the loop of updateNeighborCells.
UpdateNeighborCell(f, nb) ==
    /\ <<f, nb>> \in todo
    /\ VisitFree(f, nb) \/ VisitGrass(f, nb) \/ VisitOther(f, nb)
    /\ UNCHANGED <<turn, move, state, flags, freeCells, moving>>

CanMove(p) == normalMoves[p] > 0 \/ (freeCells > 0 /\ flags[p] > 0)

\* recomputeState: whose turn it is, and whether the game is over.
NextTurnStrict == Other(turn)   \* mutant: a player who cannot move is not skipped
NextTurn ==
    IF ~CanMove(1) /\ CanMove(2) THEN 2
    ELSE IF CanMove(1) /\ ~CanMove(2) THEN 1
    ELSE Other(turn)

IsOverOnTie ==                  \* mutant: ends on a tie although one can still move
    \/ freeCells = 0 \/ ~(CanMove(1) \/ CanMove(2))
    \/ \E p \in Player : score[p] >= score[Other(p)] /\ ~CanMove(Other(p))
IsOver ==
    \/ freeCells = 0 \/ ~(CanMove(1) \/ CanMove(2))
    \/ \E p \in Player : score[p] > score[Other(p)] /\ ~CanMove(Other(p))

FinishMove ==
    /\ moving /\ todo = {}
    /\ turn' = NextTurn /\ move' = move + 1
    /\ state' = IF IsOver THEN "Finished" ELSE state
    /\ moving' = FALSE
    /\ UNCHANGED <<field, nextVal, score, flags, counters, todo>>

\* Moves a client, the tree search or a random game may ask for.
Moves == [playerNum : {turn}, move : {move}, cell : Cells, cellType : {"normal", "flag"}]

Next ==
    \/ \E m \in Moves : MakeMove(m)
    \/ \E f, nb \in Cells : UpdateNeighborCell(f, nb)
    \/ FinishMove
    \/ Reset

Spec == Init /\ [][Next]_vars

-----------------------------------------------------------------------------
\* Winner, scoreBasedSingleWinner: 0 if there is none.
Winner ==
    IF state # "Finished" \/ score[1] = score[2] THEN 0
    ELSE IF score[1] > score[2] THEN 1 ELSE 2

(* RandomMove: counts through the board to the n-th free cell, or to the    *)
(* n-th cell that is available to the player, n below the engine's counters. *)
Available == {c \in FreeSet : nextVal[turn][c] > 0}
Rank(c, S) == Cardinality({d \in S : Before(d, c)})

MayPickFlag   == freeCells > 0 /\ flags[turn] > 0
MayPickNormal == ~(MayPickFlag /\ normalMoves[turn] = 0)

RandomMoves ==
    LET Move(c, t) == [playerNum |-> turn, move |-> move, cell |-> c, cellType |-> t] IN
    {Move(c, "flag") : c \in {d \in FreeSet : MayPickFlag /\ Rank(d, FreeSet) < freeCells}}
    \cup
    {Move(c, "normal") : c \in {d \in Available :
                                MayPickNormal /\ Rank(d, Available) < normalMoves[turn]}}

\* rnd.Intn(0), or "no legal move found".
RandomMovePanics ==
    \/ MayPickFlag /\ freeCells > Cardinality(FreeSet)
    \/ MayPickNormal /\ (normalMoves[turn] <= 0 \/ normalMoves[turn] > Cardinality(Available))

-----------------------------------------------------------------------------
Types == {"normal", "grass", "rock", "flag"}

TypeOK ==
    /\ field \in [Cells -> [type : Types, owner : 0..2, value : 0..MaxValue]]
    /\ nextVal \in [Player -> [Cells -> -1..MaxValue]]
    /\ turn \in Player /\ move \in Nat /\ score \in [Player -> Nat]
    /\ state \in {"Running", "Finished"}
    /\ flags \in [Player -> 0..NumFlags]
    /\ freeCells \in Nat /\ normalMoves \in [Player -> Nat]
    /\ moving \in BOOLEAN /\ todo \subseteq Cells \X Cells

\* The counters are those a recount of the board would give, whatever flags,
\* blocked cells and collected grass there are (flagz.go:122-201): the end of
\* the game, RandomMove and its rnd.Intn rely on them.
CountersMatchBoard ==
    /\ freeCells = Cardinality(FreeSet)
    /\ \A p \in Player :
          /\ normalMoves[p] = Cardinality({c \in FreeSet : nextVal[p][c] > 0})
          /\ flags[p] = NumFlags -
                Cardinality({c \in Cells : field[c].type = "flag" /\ field[c].owner = p})

\* The cells of player p around cell c that have been seen from c.
Around(p, c) ==
    {f \in Cells : field[f].owner = p /\ c \in Neighbors(f) /\ <<f, c>> \notin todo}

ValuesAround(p, c) == {field[f].value : f \in Around(p, c)}

\* The value n of a free cell fits the values vs of the player's cells around
\* it: blocked by a cell of MaxValue, else one more than the lowest of them.
Fits(n, vs) ==
    \/ vs = {} /\ n = 0
    \/ MaxValue \in vs /\ n = -1
    \/ MaxValue \notin vs /\ n - 1 \in vs /\ \A v \in vs : n - 1 <= v

\* The value a free cell would have follows from its neighbours, in whatever
\* order they were taken and updateNeighborCells visits (flagz.go:132-145).
NextValMatchesBoard ==
    \A p \in Player, c \in FreeSet : Fits(nextVal[p][c], ValuesAround(p, c))

\* What the cells of board b are worth to player p.
Worth(b, p) == [c \in Cells |-> IF b[c].owner = p THEN b[c].value ELSE 0]

\* The score is the sum of the values of a player's cells, with the grass
\* collected on the way (flagz.go:146-150, 183-187).
ScoreMatchesBoard == \A p \in Player : score[p] = SumOf(Worth(field, p))

\* No grass is left next to a cell that could have collected it, however long
\* the chain of cells that collect each other (flagz.go:146-152).
GrassIsCollected ==
    \A f, g \in Cells :
        (field[f].owner > 0 /\ g \in Neighbors(f) /\ field[g].type = "grass")
            => <<f, g>> \in todo \/ field[g].value > field[f].value

\* While the game is running the player on turn has a move, RandomMove finds it
\* without a panic and MakeMove accepts it (flagz.go:90-109, 244-298): a random
\* game or a tree search never stops half-way (mcts.go:63-85, 167).
RandomMoveIsLegal ==
    (state = "Running" /\ ~moving) =>
        /\ ~RandomMovePanics
        /\ RandomMoves # {}
        /\ \A m \in RandomMoves : Accepts(m)

\* A game that ended before the board was full was decided: whatever moves the
\* players could still make, the winner, or the draw, stays (flagz.go:100-108).
WinnerIsFinal ==
    [][state = "Finished" /\ state' = "Finished" => Winner' = Winner]_vars
=============================================================================
