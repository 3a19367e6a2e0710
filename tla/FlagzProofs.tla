---------------------------- MODULE FlagzProofs ----------------------------
(***************************************************************************)
(* Theorems about HexBoard and Flagz, for boards of any size, any layouts  *)
(* and any limits on values, flags, rocks and grass.                       *)
(***************************************************************************)
EXTENDS Flagz, SumsProofs, FiniteSetTheorems, TLAPS

USE DEF Player, Other

-----------------------------------------------------------------------------
(* The board.                                                               *)

LEMMA CellsFinite ==
    ASSUME NEW S \in SUBSET Cells
    PROVE  IsFiniteSet(S) /\ Cardinality(S) \in Nat
<1>1. IsFiniteSet(0..NumBoardRows-1) /\ IsFiniteSet(0..NumFieldsFirstRow-1)
  BY FS_Interval, BoardAssumption
<1>2. IsFiniteSet((0..NumBoardRows-1) \X (0..NumFieldsFirstRow-1))
  BY <1>1, FS_Product
<1>3. IsFiniteSet(Cells)
  BY <1>2, FS_Subset DEF Cells
<1>4. QED
  BY <1>3, FS_Subset, FS_CardinalityType

\* Neighbours are mutual: shifting every other row the way neighbors does
\* (engine.go:211-236) is the same seen from either side.
THEOREM NeighborsAreMutual ==
    ASSUME NEW x \in Cells, NEW y \in Neighbors(x)
    PROVE  x \in Neighbors(y) /\ x # y
<1> DEFINE i == x[1]
           j == x[2]
           k == y[1]
           l == y[2]
<1>1. i \in Nat /\ j \in Nat /\ k \in Nat /\ l \in Nat /\ x = <<i, j>> /\ y = <<k, l>>
      /\ y \in Cells
  BY BoardAssumption DEF Cells, Neighbors
<1>2. y \in {<<i, j+1>>, <<i-1, j+(i%2)>>, <<i-1, j-1+(i%2)>>,
             <<i, j-1>>, <<i+1, j-1+(i%2)>>, <<i+1, j+(i%2)>>}
  BY DEF Neighbors
<1>3. (i % 2 = 0 /\ (i+1) % 2 = 1 /\ (i-1) % 2 = 1) \/ (i % 2 = 1 /\ (i+1) % 2 = 0 /\ (i-1) % 2 = 0)
  BY <1>1
<1>4. x \in {<<k, l+1>>, <<k-1, l+(k%2)>>, <<k-1, l-1+(k%2)>>,
             <<k, l-1>>, <<k+1, l-1+(k%2)>>, <<k+1, l+(k%2)>>} /\ x # y
  <2> HIDE DEF i, j, k, l
  <2> QED BY <1>1, <1>2, <1>3
<1>5. QED
  BY <1>4 DEF Neighbors

-----------------------------------------------------------------------------
(* The inductive invariant.                                                 *)

\* Values of the variables without the counters, whose range follows from what
\* they count.
BoardTypeOK ==
    /\ field \in [Cells -> [type : Types, owner : 0..2, value : 0..MaxValue]]
    /\ nextVal \in [Player -> [Cells -> -1..MaxValue]]
    /\ turn \in Player /\ move \in Nat /\ score \in [Player -> Nat]
    /\ state \in {"Running", "Finished"}
    /\ flags \in [Player -> 0..NumFlags]
    /\ moving \in BOOLEAN

\* Rocks and grass have no owner, flags do.
CellsOK ==
    \A c \in Cells :
        /\ field[c].type \in {"rock", "grass"} => field[c].owner = 0
        /\ field[c].type = "flag" => field[c].owner > 0

\* A move visits the neighbours of new cells of the player on turn.
TodoOK ==
    /\ todo \subseteq {e \in Cells \X Cells :
                        e[2] \in Neighbors(e[1]) /\ field[e[1]].owner = turn}
    /\ ~moving => todo = {}

MovesOf(p) == {c \in FreeSet : nextVal[p][c] > 0}
FlagsOf(p) == {c \in Cells : field[c].type = "flag" /\ field[c].owner = p}

CountersOK ==
    /\ normalMoves = [p \in Player |-> Cardinality(MovesOf(p))]
    /\ freeCells = Cardinality(FreeSet)
    /\ \A p \in Player : flags[p] = NumFlags - Cardinality(FlagsOf(p))

BoardInv == BoardTypeOK /\ CellsOK /\ TodoOK /\ CountersOK

LEMMA CountersType ==
    ASSUME BoardInv
    PROVE  /\ freeCells \in Nat /\ normalMoves \in [Player -> Nat]
           /\ IsFiniteSet(FreeSet)
           /\ \A p \in Player : IsFiniteSet(MovesOf(p)) /\ IsFiniteSet(FlagsOf(p))
<1>1. FreeSet \in SUBSET Cells /\ \A p \in Player : MovesOf(p) \in SUBSET Cells /\ FlagsOf(p) \in SUBSET Cells
  BY DEF FreeSet, MovesOf, FlagsOf
<1>2. QED
  BY <1>1, CellsFinite DEF BoardInv, CountersOK

\* The board of a new game: nobody owns a cell, and some cell is free.
LEMMA PopulateFacts ==
    ASSUME NEW l \in Layouts
    PROVE  /\ Populate(l) \in [Cells -> [type : Types, owner : {0}, value : 0..MaxValue]]
           /\ \A c \in Cells : Populate(l)[c].type # "flag"
           /\ {c \in Cells : Populate(l)[c].type = "normal"} =
                    Cells \ (l.rocks \cup DOMAIN l.grass)
           /\ CountFree(l) > 0
<1>1. IsLayout(l)
  BY LayoutsAssumption
<1>2. Cardinality(DOMAIN l.grass) \in Nat /\ IsFiniteSet(DOMAIN l.grass)
      /\ IsFiniteSet(l.rocks) /\ Cardinality(l.rocks) \in Nat
  BY <1>1, CellsFinite DEF IsLayout
<1>3. \A c \in DOMAIN l.grass : l.grass[c] \in 0..MaxValue
  BY <1>1, <1>2, FlagzAssumption DEF IsLayout
<1>4. Populate(l) \in [Cells -> [type : Types, owner : {0}, value : 0..MaxValue]]
  BY <1>3, FlagzAssumption DEF Populate, Types
<1>5. Cardinality(Cells \ (l.rocks \cup DOMAIN l.grass)) > 0
  <2> DEFINE T == l.rocks \cup DOMAIN l.grass
  <2>1. IsFiniteSet(T) /\ Cardinality(T) <= Cardinality(l.rocks) + Cardinality(DOMAIN l.grass)
    <3>1. Cardinality(l.rocks \cap DOMAIN l.grass) \in Nat
      BY <1>2, FS_Intersection, FS_CardinalityType
    <3>2. QED
      BY <1>2, <3>1, FS_Union
  <2>2. Cardinality(T) < Cardinality(Cells) /\ Cardinality(T) \in Nat /\ Cardinality(Cells) \in Nat
    BY <1>1, <1>2, <2>1, CellsFinite, FS_CardinalityType, FlagzAssumption DEF IsLayout
  <2>3. Cardinality(Cells \ T) = Cardinality(Cells) - Cardinality(Cells \cap T)
    BY CellsFinite, FS_Difference
  <2>4. Cells \cap T = T
    BY <1>1 DEF IsLayout
  <2>5. QED
    BY <2>2, <2>3, <2>4
<1>6. QED
  BY <1>1, <1>4, <1>5 DEF CountFree, Populate

\* The state of the engine when a game starts, at first or after Reset.
IsNewGame ==
    \E l \in Layouts :
        /\ field = Populate(l) /\ nextVal = [p \in Player |-> [c \in Cells |-> 0]]
        /\ turn = 1 /\ move = 0 /\ score = [p \in Player |-> 0] /\ state = "Running"
        /\ flags = [p \in Player |-> NumFlags] /\ freeCells = CountFree(l)
        /\ normalMoves = [p \in Player |-> 0] /\ moving = FALSE /\ todo = {}

LEMMA InitIsNewGame == Init => IsNewGame
BY DEF Init, IsNewGame, NewGame

LEMMA ResetIsNewGame == Reset /\ TodoOK => IsNewGame'
BY DEF Reset, IsNewGame, NewGame, TodoOK

LEMMA NewGameBoardInv == IsNewGame => BoardInv /\ NextValMatchesBoard /\ GrassIsCollected
<1> SUFFICES ASSUME IsNewGame PROVE BoardInv /\ NextValMatchesBoard /\ GrassIsCollected
  OBVIOUS
<1>1. PICK l \in Layouts :
        /\ field = Populate(l) /\ nextVal = [p \in Player |-> [c \in Cells |-> 0]]
        /\ turn = 1 /\ move = 0 /\ score = [p \in Player |-> 0] /\ state = "Running"
        /\ flags = [p \in Player |-> NumFlags] /\ freeCells = CountFree(l)
        /\ normalMoves = [p \in Player |-> 0] /\ moving = FALSE /\ todo = {}
  BY DEF IsNewGame
<1>2. \A c \in Cells : field[c].owner = 0 /\ field[c].type # "flag"
  BY <1>1, PopulateFacts
<1>3. FreeSet = Cells \ (l.rocks \cup DOMAIN l.grass)
  BY <1>1, <1>2, PopulateFacts DEF FreeSet, Free
<1>4. \A p \in Player : MovesOf(p) = {} /\ FlagsOf(p) = {}
  BY <1>1, <1>2 DEF MovesOf, FlagsOf, FreeSet
<1>5. CountersOK
  <2>1. \A p \in Player : Cardinality(MovesOf(p)) = 0 /\ Cardinality(FlagsOf(p)) = 0
    BY <1>4, FS_EmptySet
  <2>2. freeCells = Cardinality(FreeSet)
    BY <1>1, <1>3 DEF CountFree
  <2>3. \A p \in Player : flags[p] = NumFlags - Cardinality(FlagsOf(p))
    BY <1>1, <2>1, FlagzAssumption
  <2>4. normalMoves = [p \in Player |-> Cardinality(MovesOf(p))]
    BY <1>1, <2>1
  <2>5. QED
    BY <2>2, <2>3, <2>4 DEF CountersOK
<1>6. BoardTypeOK /\ CellsOK /\ TodoOK
  <2>1. field \in [Cells -> [type : Types, owner : 0..2, value : 0..MaxValue]]
    <3>1. \A c \in Cells : field[c] \in [type : Types, owner : {0}, value : 0..MaxValue]
      BY <1>1, PopulateFacts
    <3>2. DOMAIN field = Cells /\ field = [c \in Cells |-> field[c]]
      BY <1>1, PopulateFacts
    <3>3. \A c \in Cells : field[c] \in [type : Types, owner : 0..2, value : 0..MaxValue]
      BY <3>1
    <3>4. QED
      BY <3>2, <3>3
  <2>2. nextVal \in [Player -> [Cells -> -1..MaxValue]] /\ flags \in [Player -> 0..NumFlags]
    BY <1>1, FlagzAssumption
  <2>3. QED
    BY <1>1, <1>2, <2>1, <2>2 DEF BoardTypeOK, CellsOK, TodoOK
<1>7. \A p \in Player, c \in FreeSet : Around(p, c) = {} /\ nextVal[p][c] = 0
  BY <1>1, <1>2 DEF Around, FreeSet
<1>8. NextValMatchesBoard
  BY <1>7 DEF NextValMatchesBoard, Fits, ValuesAround
<1>9. GrassIsCollected
  BY <1>2 DEF GrassIsCollected
<1>10. QED
  BY <1>5, <1>6, <1>8, <1>9 DEF BoardInv

-----------------------------------------------------------------------------
(* MakeMove up to its first neighbour.                                      *)

LEMMA MakeMoveFacts ==
    ASSUME BoardInv, NEW m \in Moves, MakeMove(m)
    PROVE  /\ m.cell \in FreeSet /\ m.cell \in Cells /\ ~moving /\ todo = {} /\ CanMove(turn)
           /\ m.cellType \in {"normal", "flag"}
           /\ field' \in [Cells -> [type : Types, owner : 0..2, value : 0..MaxValue]]
           /\ field'[m.cell].type = m.cellType /\ field'[m.cell].owner = turn
           /\ \A c \in Cells \ {m.cell} : field'[c] = field[c]
           /\ FreeSet' = FreeSet \ {m.cell}
<1>1. /\ m.cell \in Cells /\ Free(m.cell) /\ ~moving /\ todo = {}
      /\ m.cellType \in {"normal", "flag"} /\ turn \in 1..2
  BY DEF MakeMove, Accepts, Moves, BoardInv, TodoOK, BoardTypeOK
<1>2. m.cell \in FreeSet
  BY <1>1 DEF FreeSet
<1> DEFINE val == IF m.cellType = "flag" THEN 0 ELSE nextVal[turn][m.cell]
<1>3. val \in 0..MaxValue
  BY <1>1, FlagzAssumption DEF MakeMove, Accepts, BoardInv, BoardTypeOK
<1>4. field' = [field EXCEPT ![m.cell] =
                    [type |-> m.cellType, owner |-> turn, value |-> val]]
  BY DEF MakeMove
<1>5. [type |-> m.cellType, owner |-> turn, value |-> val]
            \in [type : Types, owner : 0..2, value : 0..MaxValue]
  BY <1>1, <1>3 DEF Types
<1>6. /\ field' \in [Cells -> [type : Types, owner : 0..2, value : 0..MaxValue]]
      /\ field'[m.cell].type = m.cellType /\ field'[m.cell].owner = turn
      /\ \A c \in Cells \ {m.cell} : field'[c] = field[c]
  BY <1>1, <1>4, <1>5 DEF BoardInv, BoardTypeOK
<1>7. FreeSet' = FreeSet \ {m.cell}
  BY <1>1, <1>6 DEF FreeSet, Free
<1>8. CanMove(turn)
  <2>1. freeCells > 0
    BY <1>2, CountersType, FS_EmptySet DEF BoardInv, CountersOK
  <2>2. CASE m.cellType = "flag"
    BY <2>1, <2>2 DEF MakeMove, Accepts, CanMove, BoardInv, BoardTypeOK
  <2>3. CASE m.cellType = "normal"
    <3>1. m.cell \in MovesOf(turn)
      BY <1>2, <2>3 DEF MakeMove, Accepts, MovesOf
    <3>2. normalMoves[turn] > 0
      BY <1>1, <3>1, CountersType, FS_EmptySet DEF BoardInv, CountersOK
    <3>3. QED
      BY <3>2 DEF CanMove
  <2>4. QED
    BY <1>1, <2>2, <2>3
<1>9. QED
  BY <1>1, <1>2, <1>6, <1>7, <1>8

LEMMA MakeMoveBoardInv ==
    ASSUME BoardInv, NEW m \in Moves, MakeMove(m)
    PROVE  BoardInv'
<1> USE MakeMoveFacts
<1>1. BoardTypeOK'
  <2>1. score' \in [Player -> Nat]
    BY FlagzAssumption DEF MakeMove, Accepts, BoardInv, BoardTypeOK
  <2>2. flags' \in [Player -> 0..NumFlags]
    BY FlagzAssumption DEF MakeMove, Accepts, BoardInv, BoardTypeOK
  <2>3. QED
    BY <2>1, <2>2 DEF MakeMove, BoardInv, BoardTypeOK
<1>2. CellsOK'
  <2>1. turn > 0
    BY DEF BoardInv, BoardTypeOK
  <2>2. ASSUME NEW c \in Cells
        PROVE  /\ field'[c].type \in {"rock", "grass"} => field'[c].owner = 0
               /\ field'[c].type = "flag" => field'[c].owner > 0
    BY <2>1 DEF CellsOK, BoardInv
  <2>3. QED
    BY <2>2 DEF CellsOK
<1>3. TodoOK'
  BY DEF MakeMove, TodoOK, BoardInv, BoardTypeOK, Neighbors
<1>4. CountersOK'
  <2>1. freeCells' = Cardinality(FreeSet')
    <3>1. Cardinality(FreeSet \ {m.cell}) = Cardinality(FreeSet) - 1
      BY CountersType, FS_RemoveElement
    <3>2. freeCells' = freeCells - 1 /\ freeCells = Cardinality(FreeSet)
      BY DEF MakeMove, BoardInv, CountersOK
    <3>3. QED
      BY <3>1, <3>2
  <2>2. ASSUME NEW p \in Player
        PROVE  normalMoves'[p] = Cardinality(MovesOf(p)')
    <3>1. MovesOf(p)' = MovesOf(p) \ {m.cell}
      BY DEF MovesOf, MakeMove
    <3>2. m.cell \in MovesOf(p) <=> nextVal[p][m.cell] > 0
      BY DEF MovesOf
    <3>3. normalMoves'[p] = IF nextVal[p][m.cell] > 0 THEN normalMoves[p] - 1 ELSE normalMoves[p]
      BY DEF MakeMove, MovesAfter
    <3>4. normalMoves[p] = Cardinality(MovesOf(p))
      BY DEF BoardInv, CountersOK
    <3>5. Cardinality(MovesOf(p) \ {m.cell}) =
            IF m.cell \in MovesOf(p) THEN Cardinality(MovesOf(p)) - 1 ELSE Cardinality(MovesOf(p))
      BY CountersType, FS_RemoveElement
    <3>6. QED
      BY <3>1, <3>2, <3>3, <3>4, <3>5
  <2>3. normalMoves' = [p \in Player |-> Cardinality(MovesOf(p)')]
    <3>1. DOMAIN normalMoves' = Player /\ normalMoves' = [p \in Player |-> normalMoves'[p]]
      BY DEF MakeMove, MovesAfter
    <3>2. QED
      BY <2>2, <3>1
  <2>4. ASSUME NEW p \in Player
        PROVE  flags'[p] = NumFlags - Cardinality(FlagsOf(p)')
    <3>1. CASE m.cellType = "flag" /\ p = turn
      <4>1. FlagsOf(p)' = FlagsOf(p) \cup {m.cell} /\ m.cell \notin FlagsOf(p)
        BY <3>1 DEF FlagsOf, FreeSet, Free
      <4>2. flags'[p] = flags[p] - 1
        BY <3>1 DEF MakeMove, BoardInv, BoardTypeOK
      <4>3. Cardinality(FlagsOf(p)') = Cardinality(FlagsOf(p)) + 1 /\ Cardinality(FlagsOf(p)) \in Nat
        BY <4>1, CountersType, FS_AddElement, FS_CardinalityType
      <4>4. QED
        BY <4>2, <4>3, FlagzAssumption DEF BoardInv, CountersOK
    <3>2. CASE ~(m.cellType = "flag" /\ p = turn)
      <4>1. FlagsOf(p)' = FlagsOf(p)
        BY <3>2 DEF FlagsOf, FreeSet, Free
      <4>2. flags'[p] = flags[p]
        BY <3>2 DEF MakeMove, BoardInv, BoardTypeOK
      <4>3. QED
        BY <4>1, <4>2 DEF BoardInv, CountersOK
    <3>3. QED
      BY <3>1, <3>2
  <2>5. QED
    BY <2>1, <2>3, <2>4 DEF CountersOK
<1>5. QED
  BY <1>1, <1>2, <1>3, <1>4 DEF BoardInv

-----------------------------------------------------------------------------
(* updateNeighborCells.                                                     *)

\* A visit comes from a cell of the player on turn.
LEMMA VisitFacts ==
    ASSUME BoardInv, NEW f \in Cells, NEW nb \in Cells, UpdateNeighborCell(f, nb)
    PROVE  /\ moving /\ <<f, nb>> \in todo /\ nb \in Neighbors(f)
           /\ field[f].owner = turn /\ turn \in {1, 2} /\ f \notin FreeSet
           /\ field[f].value \in 0..MaxValue /\ field[nb].value \in 0..MaxValue
           /\ nextVal[turn][nb] \in -1..MaxValue
           /\ NewVal(nextVal[turn][nb], field[f].value) \in -1..MaxValue
<1>1. /\ moving /\ <<f, nb>> \in todo /\ nb \in Neighbors(f) /\ field[f].owner = turn
  BY DEF BoardInv, TodoOK, UpdateNeighborCell
<1>2. /\ turn \in {1, 2} /\ field[f].value \in 0..MaxValue /\ field[nb].value \in 0..MaxValue
      /\ nextVal[turn][nb] \in -1..MaxValue
  BY DEF BoardInv, BoardTypeOK
<1>3. NewVal(nextVal[turn][nb], field[f].value) \in -1..MaxValue
  BY <1>2, FlagzAssumption DEF NewVal
<1>4. QED
  BY <1>1, <1>2, <1>3 DEF FreeSet, Free

LEMMA VisitFreeBoardInv ==
    ASSUME BoardInv, NEW f \in Cells, NEW nb \in Cells,
           UpdateNeighborCell(f, nb), VisitFree(f, nb)
    PROVE  BoardInv'
<1> DEFINE old == nextVal[turn][nb]
           new == NewVal(old, field[f].value)
<1>0. /\ field[f].owner = turn /\ turn \in Player /\ nb \in FreeSet
      /\ old \in -1..MaxValue /\ new \in -1..MaxValue /\ field[f].value \in 0..MaxValue
  BY VisitFacts DEF VisitFree, FreeSet
<1>1. UNCHANGED <<field, score, turn, move, state, flags, freeCells, moving, FreeSet>>
  BY DEF VisitFree, UpdateNeighborCell, FreeSet, Free
<1>2. /\ nextVal' \in [Player -> [Cells -> -1..MaxValue]]
      /\ nextVal'[turn][nb] = new
      /\ \A p \in Player, c \in Cells : p # turn \/ c # nb => nextVal'[p][c] = nextVal[p][c]
  <2>1. nextVal' = [nextVal EXCEPT ![turn][nb] = new]
    BY <1>0 DEF VisitFree
  <2> HIDE DEF new, old
  <2>2. QED
    BY <1>0, <2>1 DEF BoardInv, BoardTypeOK
<1>3. BoardTypeOK'
  BY <1>1, <1>2 DEF BoardInv, BoardTypeOK
<1>4. CellsOK'
  BY <1>1 DEF BoardInv, CellsOK
<1>5. TodoOK'
  BY <1>1 DEF BoardInv, TodoOK, VisitFree
<1>6. CountersOK'
  <2>1. normalMoves' = [normalMoves EXCEPT ![turn] =
            IF old > 0 /\ new = -1 THEN @ - 1 ELSE IF old = 0 /\ new > 0 THEN @ + 1 ELSE @]
    BY <1>0 DEF VisitFree
  <2>2. (old = 0 /\ new > 0) \/ (old > 0 /\ new = -1) \/ (old > 0 /\ new > 0) \/ (old <= 0 /\ new = -1)
    BY <1>0, FlagzAssumption DEF NewVal
  <2>3. MovesOf(turn)' = IF new > 0 THEN MovesOf(turn) \cup {nb} ELSE MovesOf(turn) \ {nb}
    <3> HIDE DEF new, old
    <3> QED BY <1>0, <1>1, <1>2 DEF MovesOf, FreeSet
  <2>4. nb \in MovesOf(turn) <=> old > 0
    BY <1>0 DEF MovesOf
  <2>5. /\ Cardinality(MovesOf(turn) \cup {nb}) =
            IF nb \in MovesOf(turn) THEN Cardinality(MovesOf(turn)) ELSE Cardinality(MovesOf(turn)) + 1
        /\ Cardinality(MovesOf(turn) \ {nb}) =
            IF nb \in MovesOf(turn) THEN Cardinality(MovesOf(turn)) - 1 ELSE Cardinality(MovesOf(turn))
    BY <1>0, CountersType, FS_AddElement, FS_RemoveElement
  <2>6. normalMoves = [p \in Player |-> Cardinality(MovesOf(p))]
    BY DEF BoardInv, CountersOK
  <2>7. normalMoves'[turn] = Cardinality(MovesOf(turn)')
    <3> HIDE DEF new, old
    <3> QED BY <1>0, <2>1, <2>2, <2>3, <2>4, <2>5, <2>6
  <2>8. \A p \in Player : p # turn => MovesOf(p)' = MovesOf(p) /\ normalMoves'[p] = normalMoves[p]
    BY <1>0, <1>1, <1>2, <2>1, <2>6 DEF MovesOf, FreeSet
  <2>9. normalMoves' = [p \in Player |-> Cardinality(MovesOf(p)')]
    <3>1. normalMoves' = [p \in Player |-> normalMoves'[p]]
      BY <2>1, <2>6
    <3>2. ASSUME NEW p \in Player
          PROVE  normalMoves'[p] = Cardinality(MovesOf(p)')
      <4>1. CASE p = turn
        <5>1. MovesOf(p)' = MovesOf(turn)'
          BY <1>1, <4>1 DEF MovesOf
        <5>2. QED
          BY <2>7, <4>1, <5>1
      <4>2. CASE p # turn
        <5>1. MovesOf(p)' = MovesOf(p) /\ normalMoves'[p] = normalMoves[p]
          BY <2>8, <4>2
        <5>2. QED
          BY <2>6, <5>1
      <4>3. QED
        BY <4>1, <4>2
    <3>3. QED
      BY <3>1, <3>2
  <2>10. UNCHANGED <<FlagsOf(1), FlagsOf(2)>>
    BY <1>1 DEF FlagsOf
  <2>11. QED
    BY <1>1, <2>9, <2>10 DEF CountersOK, BoardInv
<1>7. QED
  BY <1>3, <1>4, <1>5, <1>6 DEF BoardInv

\* Collecting grass changes neither the free cells nor the flags.
LEMMA VisitGrassFacts ==
    ASSUME BoardInv, NEW f \in Cells, NEW nb \in Cells,
           UpdateNeighborCell(f, nb), VisitGrass(f, nb)
    PROVE  /\ field' \in [Cells -> [type : Types, owner : 0..2, value : 0..MaxValue]]
           /\ field[nb].type = "grass" /\ field[nb].owner = 0
           /\ field'[nb].type = "normal" /\ field'[nb].owner = turn
           /\ field'[nb].value = field[nb].value
           /\ \A c \in Cells \ {nb} : field'[c] = field[c]
           /\ FreeSet' = FreeSet /\ \A p \in Player : FlagsOf(p)' = FlagsOf(p)
<1>1. field[nb].type = "grass" /\ field[nb].owner = 0 /\ field[f].owner = turn /\ turn \in {1, 2}
  <2>1. field[nb].type = "grass"
    BY DEF VisitGrass, Collectable
  <2>2. field[nb].owner = 0
    BY <2>1 DEF BoardInv, CellsOK
  <2>3. QED
    BY <2>1, <2>2, VisitFacts
<1>2. field' = [field EXCEPT ![nb].type = "normal", ![nb].owner = turn]
  BY <1>1 DEF VisitGrass
<1>3. field[nb] \in [type : Types, owner : 0..2, value : 0..MaxValue]
  BY DEF BoardInv, BoardTypeOK
<1>4. /\ DOMAIN field' = Cells
      /\ field'[nb] = [type |-> "normal", owner |-> turn, value |-> field[nb].value]
      /\ \A c \in Cells \ {nb} : field'[c] = field[c]
  BY <1>1, <1>2, <1>3 DEF BoardInv, BoardTypeOK
<1>5. field' \in [Cells -> [type : Types, owner : 0..2, value : 0..MaxValue]]
  <2>1. field'[nb] \in [type : Types, owner : 0..2, value : 0..MaxValue]
    BY <1>1, <1>3, <1>4 DEF Types
  <2>2. field' = [c \in Cells |-> field'[c]]
    BY <1>2 DEF BoardInv, BoardTypeOK
  <2>3. QED
    BY <1>4, <2>1, <2>2 DEF BoardInv, BoardTypeOK
<1>6. FreeSet' = FreeSet
  BY <1>1, <1>4 DEF FreeSet, Free
<1>7. \A p \in Player : FlagsOf(p)' = FlagsOf(p)
  BY <1>1, <1>4 DEF FlagsOf
<1>8. QED
  BY <1>1, <1>4, <1>5, <1>6, <1>7

LEMMA VisitGrassBoardInv ==
    ASSUME BoardInv, NEW f \in Cells, NEW nb \in Cells,
           UpdateNeighborCell(f, nb), VisitGrass(f, nb)
    PROVE  BoardInv'
<1>1. /\ UNCHANGED <<nextVal, normalMoves, turn, move, state, flags, freeCells, moving>>
      /\ field[f].owner = turn /\ turn \in Player
      /\ todo' \subseteq todo \cup ({nb} \X Neighbors(nb))
      /\ score' = [score EXCEPT ![turn] = @ + field[nb].value] /\ field[nb].value \in Nat
  <2>0. field[f].owner = turn /\ turn \in {1, 2} /\ field[nb].value \in 0..MaxValue
    BY VisitFacts
  <2>1. field[f].owner = turn /\ turn \in Player /\ field[nb].value \in Nat
    BY <2>0, FlagzAssumption
  <2>2. UNCHANGED <<nextVal, normalMoves, turn, move, state, flags, freeCells, moving>>
    BY DEF VisitGrass, UpdateNeighborCell
  <2>3. todo' \subseteq todo \cup ({nb} \X Neighbors(nb))
    BY DEF VisitGrass, VisitFrom
  <2>4. score' = [score EXCEPT ![turn] = @ + field[nb].value]
    BY <2>1 DEF VisitGrass, GrassValue
  <2>5. QED
    BY <2>1, <2>2, <2>3, <2>4
<1>2. BoardTypeOK'
  BY <1>1, VisitGrassFacts DEF BoardInv, BoardTypeOK
<1>3. CellsOK'
  <2>1. ASSUME NEW c \in Cells
        PROVE  /\ field'[c].type \in {"rock", "grass"} => field'[c].owner = 0
               /\ field'[c].type = "flag" => field'[c].owner > 0
    BY <1>1, VisitGrassFacts DEF BoardInv, CellsOK
  <2>2. QED
    BY <2>1 DEF CellsOK
<1>4. TodoOK'
  <2>1. moving' = TRUE
    BY VisitFacts DEF UpdateNeighborCell, BoardInv, BoardTypeOK
  <2>2. ASSUME NEW e \in todo'
        PROVE  e \in Cells \X Cells /\ e[2] \in Neighbors(e[1]) /\ field'[e[1]].owner = turn'
    <3>1. CASE e \in todo
      BY <1>1, <3>1, VisitGrassFacts DEF BoardInv, TodoOK
    <3>2. CASE e \in {nb} \X Neighbors(nb)
      BY <1>1, <3>2, VisitGrassFacts DEF Neighbors
    <3>3. QED
      BY <1>1, <2>2, <3>1, <3>2
  <2>3. QED
    BY <2>1, <2>2 DEF TodoOK
<1>5. \A p \in Player : MovesOf(p)' = MovesOf(p)
  BY <1>1, VisitGrassFacts DEF MovesOf
<1>6. CountersOK'
  BY <1>1, <1>5, VisitGrassFacts DEF BoardInv, CountersOK
<1>7. QED
  BY <1>2, <1>3, <1>4, <1>6 DEF BoardInv

LEMMA StepBoardInv == BoardInv /\ [Next]_vars => BoardInv'
<1> SUFFICES ASSUME BoardInv, [Next]_vars PROVE BoardInv'
  OBVIOUS
<1>1. ASSUME NEW m \in Moves, MakeMove(m) PROVE BoardInv'
  BY <1>1, MakeMoveBoardInv
<1>2. ASSUME NEW f \in Cells, NEW nb \in Cells, UpdateNeighborCell(f, nb) PROVE BoardInv'
  <2>1. CASE VisitFree(f, nb)
    BY <1>2, <2>1, VisitFreeBoardInv
  <2>2. CASE VisitGrass(f, nb)
    BY <1>2, <2>2, VisitGrassBoardInv
  <2>3. CASE VisitOther(f, nb)
    BY <1>2, <2>3 DEF UpdateNeighborCell, VisitOther, BoardInv, BoardTypeOK, CellsOK, TodoOK,
        CountersOK, MovesOf, FlagsOf, FreeSet, Free
  <2>4. QED
    BY <1>2, <2>1, <2>2, <2>3 DEF UpdateNeighborCell
<1>3. ASSUME FinishMove PROVE BoardInv'
  <2>1. turn' \in Player /\ state' \in {"Running", "Finished"} /\ move' \in Nat
    BY <1>3 DEF FinishMove, NextTurn, BoardInv, BoardTypeOK
  <2>2. QED
    BY <1>3, <2>1 DEF FinishMove, counters, BoardInv, BoardTypeOK, CellsOK, TodoOK, CountersOK, MovesOf,
        FlagsOf, FreeSet, Free
<1>4. ASSUME Reset PROVE BoardInv'
  <2>1. IsNewGame'
    BY <1>4, ResetIsNewGame DEF BoardInv
  <2>2. (IsNewGame => BoardInv)'
    BY NewGameBoardInv, PTL
  <2>3. QED
    BY <2>1, <2>2
<1>5. ASSUME UNCHANGED vars PROVE BoardInv'
  BY <1>5 DEF vars, counters, BoardInv, BoardTypeOK, CellsOK, TodoOK, CountersOK, MovesOf, FlagsOf, FreeSet, Free
<1>6. QED
  BY <1>1, <1>2, <1>3, <1>4, <1>5 DEF Next

LEMMA SpecBoardInv == Spec => []BoardInv
<1>1. Init => BoardInv
  BY InitIsNewGame, NewGameBoardInv
<1>2. QED
  BY <1>1, StepBoardInv, PTL DEF Spec

\* Every variable keeps its type; no counter becomes negative and no cell is
\* worth more than MaxValue.
THEOREM FlagzTypeCorrect == Spec => []TypeOK
<1>1. BoardInv => TypeOK
  BY CountersType DEF TypeOK, BoardInv, BoardTypeOK, TodoOK
<1>2. QED
  BY <1>1, SpecBoardInv, PTL

\* The counters are those a recount of the board would give (flagz.go:122-201).
THEOREM CountersMatch == Spec => []CountersMatchBoard
<1>1. BoardInv => CountersMatchBoard
  BY DEF BoardInv, CountersOK, CountersMatchBoard, MovesOf, FlagsOf
<1>2. QED
  BY <1>1, SpecBoardInv, PTL

-----------------------------------------------------------------------------
(* Values of free cells.                                                    *)

\* A visit adds the cell it comes from to those that have been seen.
LEMMA AroundAfterVisit ==
    ASSUME BoardInv, NEW f \in Cells, NEW nb \in Cells, UpdateNeighborCell(f, nb),
           NEW p \in Player, NEW c \in FreeSet'
    PROVE  /\ c \in FreeSet
           /\ \A g \in Around(p, c)' : field'[g].value = field[g].value
           /\ Around(p, c)' = IF c = nb /\ p = turn THEN Around(p, c) \cup {f} ELSE Around(p, c)
<1>1. /\ field[f].owner = turn /\ nb \in Neighbors(f) /\ c \in Cells
      /\ <<f, nb>> \in todo
  BY VisitFacts DEF FreeSet
<1>2. CASE VisitGrass(f, nb)
  <2>1. c \in FreeSet /\ c # nb
    BY <1>2, VisitGrassFacts DEF FreeSet, Free
  <2>2. todo' = (todo \ {<<f, nb>>}) \cup ({nb} \X Neighbors(nb))
    BY <1>2 DEF VisitGrass, VisitFrom
  <2>3. ASSUME NEW g \in Cells
        PROVE  g \in Around(p, c)' <=> g \in Around(p, c)
    <3>1. CASE g = nb
      BY <1>2, <2>1, <2>2, <3>1, VisitGrassFacts DEF Around
    <3>2. CASE g # nb
      BY <1>2, <2>1, <2>2, <3>2, VisitGrassFacts DEF Around
    <3>3. QED
      BY <3>1, <3>2
  <2>4. \A g \in Cells : field'[g].value = field[g].value
    BY <1>2, VisitGrassFacts
  <2>5. QED
    BY <2>1, <2>3, <2>4 DEF Around
<1>3. CASE VisitFree(f, nb) \/ VisitOther(f, nb)
  <2>1. field' = field /\ todo' = todo \ {<<f, nb>>} /\ c \in FreeSet
    BY <1>3 DEF VisitFree, VisitOther, FreeSet, Free
  <2>2. c = nb => VisitFree(f, nb)
    BY <1>3, <2>1 DEF VisitOther, FreeSet
  <2>3. QED
    BY <1>1, <2>1, <2>2 DEF Around
<1>4. QED
  BY <1>2, <1>3 DEF UpdateNeighborCell

\* One more neighbour, worth v, is what updateNeighborCells folds in.
LEMMA FitsNewVal ==
    ASSUME NEW vs \in SUBSET (0..MaxValue), NEW v \in 0..MaxValue, NEW n \in -1..MaxValue,
           Fits(n, vs)
    PROVE  Fits(NewVal(n, v), vs \cup {v})
<1> MaxValue \in Nat \ {0}
  BY FlagzAssumption
<1>1. CASE v = MaxValue
  BY <1>1 DEF Fits, NewVal
<1>2. CASE v # MaxValue /\ vs = {}
  <2>1. n = 0
    BY <1>2 DEF Fits
  <2>2. NewVal(n, v) = v + 1
    BY <1>2, <2>1 DEF NewVal
  <2>3. vs \cup {v} = {v}
    BY <1>2
  <2>4. QED
    BY <1>2, <2>2, <2>3 DEF Fits
<1>3. CASE v # MaxValue /\ MaxValue \in vs
  <2>1. n = -1
    BY <1>3 DEF Fits
  <2>2. NewVal(n, v) = -1
    BY <1>3, <2>1 DEF NewVal
  <2>3. QED
    BY <1>3, <2>2 DEF Fits
<1>4. CASE v # MaxValue /\ MaxValue \notin vs /\ vs # {}
  <2>1. n - 1 \in vs /\ \A w \in vs : n - 1 <= w
    BY <1>4 DEF Fits
  <2>2. n > 0
    BY <2>1
  <2>3. NewVal(n, v) = IF n > v + 1 THEN v + 1 ELSE n
    BY <1>4, <2>2 DEF NewVal
  <2>4. QED
    BY <1>4, <2>1, <2>3 DEF Fits
<1>5. QED
  BY <1>1, <1>2, <1>3, <1>4

LEMMA MakeMoveNextVal ==
    ASSUME BoardInv, NextValMatchesBoard, NEW m \in Moves, MakeMove(m)
    PROVE  NextValMatchesBoard'
<1> SUFFICES ASSUME NEW p \in Player, NEW c \in FreeSet'
             PROVE  Fits(nextVal[p][c], ValuesAround(p, c))'
  BY DEF NextValMatchesBoard
<1>1. c \in FreeSet /\ nextVal' = nextVal /\ m.cell \in FreeSet
  BY MakeMoveFacts DEF MakeMove
<1>2. todo = {} /\ todo' = {m.cell} \X Neighbors(m.cell)
  BY MakeMoveFacts DEF MakeMove
<1>3. m.cell \notin Around(p, c) /\ m.cell \notin Around(p, c)'
  BY <1>1, <1>2 DEF Around, FreeSet, Free
<1>4. Around(p, c)' = Around(p, c)
  BY <1>2, <1>3, MakeMoveFacts DEF Around
<1>5. \A f \in Around(p, c) : field'[f].value = field[f].value
  BY <1>3, MakeMoveFacts DEF Around
<1>6. ValuesAround(p, c)' = ValuesAround(p, c)
  BY <1>4, <1>5 DEF ValuesAround
<1>7. Fits(nextVal[p][c], ValuesAround(p, c))
  BY <1>1 DEF NextValMatchesBoard
<1>8. QED
  BY <1>1, <1>6, <1>7 DEF Fits

LEMMA VisitNextVal ==
    ASSUME BoardInv, NextValMatchesBoard,
           NEW f \in Cells, NEW nb \in Cells, UpdateNeighborCell(f, nb)
    PROVE  NextValMatchesBoard'
<1> SUFFICES ASSUME NEW p \in Player, NEW c \in FreeSet'
             PROVE  Fits(nextVal[p][c], ValuesAround(p, c))'
  BY DEF NextValMatchesBoard
<1>1. c \in FreeSet /\ c \in Cells
  BY AroundAfterVisit DEF FreeSet
<1>2. Fits(nextVal[p][c], ValuesAround(p, c))
  BY <1>1 DEF NextValMatchesBoard
<1>3. nextVal[p][c] \in -1..MaxValue /\ ValuesAround(p, c) \in SUBSET (0..MaxValue)
      /\ field[f].value \in 0..MaxValue
  <2>1. nextVal[p] \in [Cells -> -1..MaxValue]
    BY DEF BoardInv, BoardTypeOK
  <2>2. \A g \in Cells : field[g].value \in 0..MaxValue
    <3>1. field \in [Cells -> [type : Types, owner : 0..2, value : 0..MaxValue]]
      BY DEF BoardInv, BoardTypeOK
    <3>2. ASSUME NEW g \in Cells
          PROVE  field[g] \in [type : Types, owner : 0..2, value : 0..MaxValue]
      BY <3>1
    <3>3. QED
      BY <3>2
  <2>3. ValuesAround(p, c) \in SUBSET (0..MaxValue)
    BY <2>2 DEF ValuesAround, Around
  <2>4. QED
    BY <1>1, <2>1, <2>2, <2>3
<1>4. field[f].owner = turn
  BY VisitFacts
<1>5. CASE c = nb /\ p = turn
  <2>1. VisitFree(f, nb)
    BY <1>1, <1>5 DEF UpdateNeighborCell, VisitOther, VisitGrass, Collectable, FreeSet, Free
  <2>2. nextVal'[p][c] = NewVal(nextVal[p][c], field[f].value)
    BY <1>1, <1>4, <1>5, <2>1 DEF VisitFree, BoardInv, BoardTypeOK
  <2>3. Around(p, c)' = Around(p, c) \cup {f} /\ field' = field
    BY <1>5, <2>1, AroundAfterVisit DEF VisitFree
  <2>4. ValuesAround(p, c)' = ValuesAround(p, c) \cup {field[f].value}
    BY <2>3 DEF ValuesAround
  <2>5. Fits(NewVal(nextVal[p][c], field[f].value), ValuesAround(p, c) \cup {field[f].value})
    BY <1>2, <1>3, FitsNewVal
  <2>6. QED
    BY <2>2, <2>4, <2>5 DEF Fits
<1>6. CASE ~(c = nb /\ p = turn)
  <2>1. Around(p, c)' = Around(p, c) /\ \A g \in Around(p, c)' : field'[g].value = field[g].value
    BY <1>6, AroundAfterVisit
  <2>2. ValuesAround(p, c)' = ValuesAround(p, c)
    BY <2>1 DEF ValuesAround
  <2>3. nextVal'[p][c] = nextVal[p][c]
    BY <1>1, <1>4, <1>6 DEF UpdateNeighborCell, VisitFree, VisitGrass, VisitOther,
        BoardInv, BoardTypeOK
  <2>4. QED
    BY <1>2, <2>2, <2>3 DEF Fits
<1>7. QED
  BY <1>5, <1>6

LEMMA StepNextVal ==
    BoardInv /\ NextValMatchesBoard /\ [Next]_vars => NextValMatchesBoard'
<1> SUFFICES ASSUME BoardInv, NextValMatchesBoard, [Next]_vars
             PROVE  NextValMatchesBoard'
  OBVIOUS
<1>1. ASSUME NEW m \in Moves, MakeMove(m) PROVE NextValMatchesBoard'
  BY <1>1, MakeMoveNextVal
<1>2. ASSUME NEW f \in Cells, NEW nb \in Cells, UpdateNeighborCell(f, nb)
      PROVE  NextValMatchesBoard'
  BY <1>2, VisitNextVal
<1>3. ASSUME FinishMove \/ UNCHANGED vars PROVE NextValMatchesBoard'
  <2>1. field' = field /\ nextVal' = nextVal /\ todo' = todo
    BY <1>3 DEF FinishMove, vars
  <2>2. \A p \in Player, c \in Cells : ValuesAround(p, c)' = ValuesAround(p, c)
    BY <2>1 DEF ValuesAround, Around
  <2>3. FreeSet' = FreeSet /\ FreeSet \subseteq Cells
    BY <2>1 DEF FreeSet, Free
  <2>4. ASSUME NEW p \in Player, NEW c \in FreeSet'
        PROVE  Fits(nextVal[p][c], ValuesAround(p, c))'
    <3>1. Fits(nextVal[p][c], ValuesAround(p, c)) /\ ValuesAround(p, c)' = ValuesAround(p, c)
      BY <2>2, <2>3 DEF NextValMatchesBoard
    <3>2. QED
      BY <2>1, <3>1 DEF Fits
  <2>5. QED
    BY <2>4 DEF NextValMatchesBoard
<1>4. ASSUME Reset PROVE NextValMatchesBoard'
  <2>1. IsNewGame'
    BY <1>4, ResetIsNewGame DEF BoardInv
  <2>2. (IsNewGame => NextValMatchesBoard)'
    BY NewGameBoardInv, PTL
  <2>3. QED
    BY <2>1, <2>2
<1>5. QED
  BY <1>1, <1>2, <1>3, <1>4 DEF Next

\* The value a free cell would have follows from its neighbours, in whatever
\* order they were taken and visited (flagz.go:132-145).
THEOREM NextValuesMatch == Spec => []NextValMatchesBoard
<1>1. Init => NextValMatchesBoard
  BY InitIsNewGame, NewGameBoardInv
<1>2. QED
  BY <1>1, SpecBoardInv, StepNextVal, PTL DEF Spec

-----------------------------------------------------------------------------
(* Grass.                                                                   *)

\* Cell f, if owned, has nothing left to collect at its neighbour g.
Settled(f, g) ==
    (field[f].owner > 0 /\ g \in Neighbors(f) /\ field[g].type = "grass")
        => <<f, g>> \in todo \/ field[g].value > field[f].value

LEMMA MakeMoveGrass ==
    ASSUME BoardInv, GrassIsCollected, NEW m \in Moves, MakeMove(m)
    PROVE  GrassIsCollected'
<1>1. ASSUME NEW f \in Cells, NEW g \in Cells
      PROVE  Settled(f, g)'
  <2>1. Settled(f, g) /\ todo = {} /\ todo' = {m.cell} \X Neighbors(m.cell)
    BY MakeMoveFacts DEF MakeMove, GrassIsCollected, Settled
  <2>2. field'[g].type = "grass" => field'[g] = field[g]
    BY MakeMoveFacts
  <2>3. CASE f = m.cell
    BY <2>1, <2>3 DEF Settled
  <2>4. CASE f # m.cell
    <3>1. field'[f] = field[f]
      BY <2>4, MakeMoveFacts
    <3>2. QED
      BY <2>1, <2>2, <3>1 DEF Settled
  <2>5. QED
    BY <2>3, <2>4
<1>2. QED
  BY <1>1 DEF GrassIsCollected, Settled

LEMMA VisitGrassIsCollected ==
    ASSUME BoardInv, GrassIsCollected,
           NEW x \in Cells, NEW nb \in Cells, UpdateNeighborCell(x, nb)
    PROVE  GrassIsCollected'
<1>1. ASSUME NEW f \in Cells, NEW g \in Cells
      PROVE  Settled(f, g)'
  <2>1. Settled(f, g)
    BY DEF GrassIsCollected, Settled
  <2>2. CASE VisitGrass(x, nb)
    <3>1. todo' = (todo \ {<<x, nb>>}) \cup ({nb} \X Neighbors(nb))
      BY <2>2 DEF VisitGrass, VisitFrom
    <3>2. field'[nb].type = "normal" /\ \A c \in Cells \ {nb} : field'[c] = field[c]
      BY <2>2, VisitGrassFacts
    <3>3. CASE g = nb
      BY <3>2, <3>3 DEF Settled
    <3>4. CASE g # nb /\ f = nb
      BY <3>1, <3>4 DEF Settled
    <3>5. CASE g # nb /\ f # nb
      BY <2>1, <3>1, <3>2, <3>5 DEF Settled
    <3>6. QED
      BY <3>3, <3>4, <3>5
  <2>3. CASE VisitFree(x, nb) \/ VisitOther(x, nb)
    <3>1. field' = field /\ todo' = todo \ {<<x, nb>>}
      BY <2>3 DEF VisitFree, VisitOther
    <3>2. ~Collectable(x, nb)
      BY <2>3 DEF VisitFree, VisitOther, Free, Collectable
    <3>3. field[x].value \in Int /\ field[nb].value \in Int
      <4>1. field[x] \in [type : Types, owner : 0..2, value : 0..MaxValue]
            /\ field[nb] \in [type : Types, owner : 0..2, value : 0..MaxValue]
        BY DEF BoardInv, BoardTypeOK
      <4>2. QED
        BY <4>1, FlagzAssumption
    <3>4. field[nb].type = "grass" => field[nb].value > field[x].value
      BY <3>2, <3>3 DEF Collectable
    <3>5. CASE f = x /\ g = nb
      BY <3>1, <3>4, <3>5 DEF Settled
    <3>6. CASE ~(f = x /\ g = nb)
      BY <2>1, <3>1, <3>6 DEF Settled
    <3>7. QED
      BY <3>5, <3>6
  <2>4. QED
    BY <2>2, <2>3 DEF UpdateNeighborCell
<1>2. QED
  BY <1>1 DEF GrassIsCollected, Settled

LEMMA StepGrass ==
    BoardInv /\ GrassIsCollected /\ [Next]_vars => GrassIsCollected'
<1> SUFFICES ASSUME BoardInv, GrassIsCollected, [Next]_vars
             PROVE  GrassIsCollected'
  OBVIOUS
<1>1. ASSUME NEW m \in Moves, MakeMove(m) PROVE GrassIsCollected'
  BY <1>1, MakeMoveGrass
<1>2. ASSUME NEW f \in Cells, NEW nb \in Cells, UpdateNeighborCell(f, nb)
      PROVE  GrassIsCollected'
  BY <1>2, VisitGrassIsCollected
<1>3. ASSUME FinishMove \/ UNCHANGED vars PROVE GrassIsCollected'
  BY <1>3 DEF FinishMove, vars, GrassIsCollected
<1>4. ASSUME Reset PROVE GrassIsCollected'
  <2>1. IsNewGame'
    BY <1>4, ResetIsNewGame DEF BoardInv
  <2>2. (IsNewGame => GrassIsCollected)'
    BY NewGameBoardInv, PTL
  <2>3. QED
    BY <2>1, <2>2
<1>5. QED
  BY <1>1, <1>2, <1>3, <1>4 DEF Next

\* No grass is left next to a cell that could have collected it, however long
\* the chain of cells that collect each other (flagz.go:146-152).
THEOREM GrassCollected == Spec => []GrassIsCollected
<1>1. Init => GrassIsCollected
  BY InitIsNewGame, NewGameBoardInv
<1>2. QED
  BY <1>1, SpecBoardInv, StepGrass, PTL DEF Spec

-----------------------------------------------------------------------------
(* The score.                                                               *)

LEMMA WorthOfOwn ==
    ASSUME NEW b \in [Cells -> [type : Types, owner : 0..2, value : 0..MaxValue]], NEW p \in Player
    PROVE  Worth(b, p) \in [Cells -> Nat]
<1>1. \A c \in Cells : b[c].value \in Nat
  BY FlagzAssumption
<1>2. QED
  BY <1>1 DEF Worth

\* A cell that a player gets adds its value to what this player has.
LEMMA WorthGained ==
    ASSUME NEW b \in [Cells -> [type : Types, owner : 0..2, value : 0..MaxValue]],
           NEW d \in [Cells -> [type : Types, owner : 0..2, value : 0..MaxValue]],
           NEW x \in Cells, b[x].owner = 0, \A c \in Cells \ {x} : d[c] = b[c],
           NEW p \in Player
    PROVE  /\ SumOf(Worth(b, p)) \in Nat
           /\ SumOf(Worth(d, p)) =
                SumOf(Worth(b, p)) + (IF d[x].owner = p THEN d[x].value ELSE 0)
<1>1. Worth(b, p) \in [Cells -> Nat] /\ Worth(d, p) \in [Cells -> Nat] /\ IsFiniteSet(Cells)
  BY WorthOfOwn, CellsFinite
<1>2. /\ Worth(b, p)[x] = 0 /\ Worth(d, p)[x] = IF d[x].owner = p THEN d[x].value ELSE 0
      /\ \A c \in Cells \ {x} : Worth(d, p)[c] = Worth(b, p)[c]
  BY DEF Worth
<1>3. SumOf(Worth(b, p)) \in Nat
  BY <1>1, SumIsNat
<1>4. SumOf(Worth(d, p)) = SumOf(Worth(b, p)) - Worth(b, p)[x] + Worth(d, p)[x]
  BY <1>1, <1>2, SumChange
<1>5. Worth(d, p)[x] \in Nat
  BY <1>1
<1>6. QED
  BY <1>2, <1>3, <1>4, <1>5

LEMMA NewGameScore == IsNewGame => ScoreMatchesBoard
<1> SUFFICES ASSUME IsNewGame, NEW p \in Player PROVE score[p] = SumOf(Worth(field, p))
  BY DEF ScoreMatchesBoard
<1>1. score[p] = 0 /\ \A c \in Cells : field[c].owner = 0
  BY PopulateFacts DEF IsNewGame
<1>2. Worth(field, p) \in [Cells -> {0}]
  BY <1>1 DEF Worth
<1>3. QED
  BY <1>1, <1>2, SumOfZeros

LEMMA MakeMoveScore ==
    ASSUME BoardInv, ScoreMatchesBoard, NEW m \in Moves, MakeMove(m)
    PROVE  ScoreMatchesBoard'
<1> DEFINE val == IF m.cellType = "flag" THEN 0 ELSE nextVal[turn][m.cell]
<1>1. /\ m.cell \in Cells /\ field[m.cell].owner = 0 /\ turn \in {1, 2}
      /\ field \in [Cells -> [type : Types, owner : 0..2, value : 0..MaxValue]]
      /\ field' \in [Cells -> [type : Types, owner : 0..2, value : 0..MaxValue]]
      /\ field'[m.cell].owner = turn
      /\ \A c \in Cells \ {m.cell} : field'[c] = field[c]
  BY MakeMoveFacts DEF FreeSet, Free, BoardInv, BoardTypeOK
<1>2. score \in [Player -> Nat]
  BY DEF BoardInv, BoardTypeOK
<1>3. field'[m.cell].value = val /\ score' = [score EXCEPT ![turn] = @ + val]
  BY <1>1 DEF MakeMove
<1>4. ASSUME NEW p \in Player PROVE score'[p] = SumOf(Worth(field', p))
  <2>1. /\ SumOf(Worth(field, p)) \in Nat
        /\ SumOf(Worth(field', p)) =
             SumOf(Worth(field, p)) + (IF field'[m.cell].owner = p THEN field'[m.cell].value ELSE 0)
    BY <1>1, WorthGained
  <2>2. score[p] = SumOf(Worth(field, p))
    BY DEF ScoreMatchesBoard
  <2>3. QED
    BY <1>1, <1>2, <1>3, <2>1, <2>2
<1>5. QED
  BY <1>4 DEF ScoreMatchesBoard

LEMMA VisitGrassScore ==
    ASSUME BoardInv, ScoreMatchesBoard, NEW f \in Cells, NEW nb \in Cells,
           UpdateNeighborCell(f, nb), VisitGrass(f, nb)
    PROVE  ScoreMatchesBoard'
<1>1. /\ field[nb].owner = 0 /\ turn \in {1, 2} /\ field[f].owner = turn
      /\ field \in [Cells -> [type : Types, owner : 0..2, value : 0..MaxValue]]
      /\ field' \in [Cells -> [type : Types, owner : 0..2, value : 0..MaxValue]]
      /\ field'[nb].owner = turn /\ field'[nb].value = field[nb].value
      /\ \A c \in Cells \ {nb} : field'[c] = field[c]
  BY VisitGrassFacts, VisitFacts DEF BoardInv, BoardTypeOK
<1>2. score \in [Player -> Nat]
  BY DEF BoardInv, BoardTypeOK
<1>3. score' = [score EXCEPT ![turn] = @ + field[nb].value]
  BY <1>1 DEF VisitGrass, GrassValue
<1>4. ASSUME NEW p \in Player PROVE score'[p] = SumOf(Worth(field', p))
  <2>1. /\ SumOf(Worth(field, p)) \in Nat
        /\ SumOf(Worth(field', p)) =
             SumOf(Worth(field, p)) + (IF field'[nb].owner = p THEN field'[nb].value ELSE 0)
    BY <1>1, WorthGained
  <2>2. score[p] = SumOf(Worth(field, p))
    BY DEF ScoreMatchesBoard
  <2>3. QED
    BY <1>1, <1>2, <1>3, <2>1, <2>2
<1>5. QED
  BY <1>4 DEF ScoreMatchesBoard

LEMMA StepScore == BoardInv /\ ScoreMatchesBoard /\ [Next]_vars => ScoreMatchesBoard'
<1> SUFFICES ASSUME BoardInv, ScoreMatchesBoard, [Next]_vars PROVE ScoreMatchesBoard'
  OBVIOUS
<1>1. ASSUME field' = field, score' = score PROVE ScoreMatchesBoard'
  BY <1>1 DEF ScoreMatchesBoard
<1>2. ASSUME NEW m \in Moves, MakeMove(m) PROVE ScoreMatchesBoard'
  BY <1>2, MakeMoveScore
<1>3. ASSUME NEW f \in Cells, NEW nb \in Cells, UpdateNeighborCell(f, nb)
      PROVE  ScoreMatchesBoard'
  <2>1. CASE VisitGrass(f, nb)
    BY <1>3, <2>1, VisitGrassScore
  <2>2. CASE VisitFree(f, nb) \/ VisitOther(f, nb)
    BY <1>1, <2>2 DEF VisitFree, VisitOther
  <2>3. QED
    BY <1>3, <2>1, <2>2 DEF UpdateNeighborCell
<1>4. ASSUME FinishMove \/ UNCHANGED vars PROVE ScoreMatchesBoard'
  BY <1>1, <1>4 DEF FinishMove, vars
<1>5. ASSUME Reset PROVE ScoreMatchesBoard'
  <2>1. IsNewGame'
    BY <1>5, ResetIsNewGame DEF BoardInv
  <2>2. (IsNewGame => ScoreMatchesBoard)'
    BY NewGameScore, PTL
  <2>3. QED
    BY <2>1, <2>2
<1>6. QED
  BY <1>2, <1>3, <1>4, <1>5 DEF Next

\* The score is the sum of the values of a player's cells, with the grass
\* collected on the way (flagz.go:146-150, 183-187).
THEOREM ScoresMatch == Spec => []ScoreMatchesBoard
<1>1. Init => ScoreMatchesBoard
  BY InitIsNewGame, NewGameScore
<1>2. QED
  BY <1>1, SpecBoardInv, StepScore, PTL DEF Spec

-----------------------------------------------------------------------------
(* RandomMove.                                                              *)

\* A running game waits for a player who can move.
TurnCanMove == (state = "Running" /\ ~moving) => CanMove(turn)

LEMMA NewGameTurnCanMove == IsNewGame => TurnCanMove
BY PopulateFacts, FlagzAssumption DEF IsNewGame, TurnCanMove, CanMove

LEMMA StepTurnCanMove ==
    BoardInv /\ TurnCanMove /\ [Next]_vars => TurnCanMove'
<1> SUFFICES ASSUME BoardInv, TurnCanMove, [Next]_vars
             PROVE  TurnCanMove'
  OBVIOUS
<1>1. ASSUME NEW m \in Moves, MakeMove(m) PROVE TurnCanMove'
  BY <1>1 DEF MakeMove, TurnCanMove
<1>2. ASSUME NEW f \in Cells, NEW nb \in Cells, UpdateNeighborCell(f, nb)
      PROVE  TurnCanMove'
  <2>1. moving /\ moving' = moving
    BY <1>2, VisitFacts DEF UpdateNeighborCell
  <2>2. QED
    BY <2>1 DEF TurnCanMove
<1>3. ASSUME FinishMove PROVE TurnCanMove'
  <2>1. SUFFICES ASSUME state' = "Running" PROVE CanMove(turn)'
    BY DEF TurnCanMove
  <2>2. CanMove(1) \/ CanMove(2)
    BY <1>3, <2>1 DEF FinishMove, IsOver
  <2>3. turn \in {1, 2} /\ turn' = NextTurn
    BY <1>3 DEF FinishMove, BoardInv, BoardTypeOK
  <2>4. turn' \in {1, 2} /\ (turn' = 1 => CanMove(1)) /\ (turn' = 2 => CanMove(2))
    BY <2>2, <2>3 DEF NextTurn
  <2>5. UNCHANGED <<normalMoves, freeCells, flags>>
    BY <1>3 DEF FinishMove, counters
  <2>6. QED
    BY <2>4, <2>5 DEF CanMove
<1>4. ASSUME Reset PROVE TurnCanMove'
  <2>1. IsNewGame'
    BY <1>4, ResetIsNewGame DEF BoardInv
  <2>2. (IsNewGame => TurnCanMove)'
    BY NewGameTurnCanMove, PTL
  <2>3. QED
    BY <2>1, <2>2
<1>5. ASSUME UNCHANGED vars PROVE TurnCanMove'
  BY <1>5 DEF vars, counters, TurnCanMove, CanMove
<1>6. QED
  BY <1>1, <1>2, <1>3, <1>4, <1>5 DEF Next

\* Counting through the board reaches every cell of a set before its size.
LEMMA RankBelow ==
    ASSUME NEW S \in SUBSET Cells, NEW c \in S
    PROVE  Rank(c, S) < Cardinality(S)
<1> DEFINE T == {d \in S : Before(d, c)}
<1>1. IsFiniteSet(S) /\ Cardinality(S) \in Nat
  BY CellsFinite
<1>2. ~Before(c, c)
  <2>1. c[1] \in Int /\ c[2] \in Int
    BY BoardAssumption DEF Cells
  <2>2. QED
    BY <2>1 DEF Before
<1>3. T \subseteq S \ {c}
  BY <1>2
<1>4. IsFiniteSet(S \ {c}) /\ Cardinality(S \ {c}) = Cardinality(S) - 1
  BY <1>1, FS_RemoveElement
<1>5. Cardinality(T) <= Cardinality(S \ {c}) /\ Cardinality(T) \in Nat
  BY <1>3, <1>4, FS_Subset, FS_CardinalityType
<1>6. QED
  BY <1>1, <1>4, <1>5 DEF Rank

LEMMA RandomMoveFacts ==
    ASSUME BoardInv, CanMove(turn)
    PROVE  ~RandomMovePanics /\ RandomMoves # {} /\ \A m \in RandomMoves : Accepts(m)
<1>1. /\ turn \in Player /\ normalMoves[turn] \in Nat /\ freeCells \in Nat
      /\ flags[turn] \in Nat
      /\ Available = MovesOf(turn) /\ Available \in SUBSET Cells /\ FreeSet \in SUBSET Cells
      /\ normalMoves[turn] = Cardinality(Available) /\ freeCells = Cardinality(FreeSet)
  <2>1. turn \in Player /\ flags \in [Player -> 0..NumFlags]
    BY DEF BoardInv, BoardTypeOK
  <2>2. Available = MovesOf(turn) /\ Available \in SUBSET Cells /\ FreeSet \in SUBSET Cells
    BY DEF Available, MovesOf, FreeSet
  <2>3. normalMoves[turn] = Cardinality(MovesOf(turn)) /\ freeCells = Cardinality(FreeSet)
    BY <2>1 DEF BoardInv, CountersOK
  <2>4. normalMoves[turn] \in Nat /\ freeCells \in Nat
    BY <2>1, CountersType
  <2>5. flags[turn] \in Nat
    BY <2>1, FlagzAssumption
  <2>6. QED
    BY <2>1, <2>2, <2>3, <2>4, <2>5
<1>2. MayPickNormal => normalMoves[turn] > 0
  BY <1>1 DEF MayPickNormal, MayPickFlag, CanMove
<1>3. ~RandomMovePanics
  BY <1>1, <1>2 DEF RandomMovePanics
<1>4. RandomMoves # {}
  <2>1. CASE MayPickFlag
    <3>1. FreeSet # {}
      BY <1>1, <2>1, FS_EmptySet DEF MayPickFlag
    <3>2. PICK d \in FreeSet : TRUE
      BY <3>1
    <3>3. Rank(d, FreeSet) < freeCells
      BY <1>1, RankBelow
    <3>4. QED
      BY <2>1, <3>3 DEF RandomMoves
  <2>2. CASE ~MayPickFlag
    <3>1. MayPickNormal
      BY <2>2 DEF MayPickNormal
    <3>2. Available # {}
      BY <1>1, <1>2, <3>1, FS_EmptySet
    <3>3. PICK d \in Available : TRUE
      BY <3>2
    <3>4. Rank(d, Available) < normalMoves[turn]
      BY <1>1, RankBelow
    <3>5. QED
      BY <3>1, <3>4 DEF RandomMoves
  <2>3. QED
    BY <2>1, <2>2
<1>5. ASSUME NEW m \in RandomMoves PROVE Accepts(m)
  BY <1>1 DEF RandomMoves, Accepts, MayPickFlag, Available, FreeSet
<1>6. QED
  BY <1>3, <1>4, <1>5

\* While the game is running RandomMove finds a move, without a panic, and
\* MakeMove accepts it (flagz.go:244-298).
THEOREM RandomMovesLegal == Spec => []RandomMoveIsLegal
<1>1. Init => TurnCanMove
  BY InitIsNewGame, NewGameTurnCanMove
<1>2. Spec => []TurnCanMove
  BY <1>1, SpecBoardInv, StepTurnCanMove, PTL DEF Spec
<1>3. BoardInv /\ TurnCanMove => RandomMoveIsLegal
  BY RandomMoveFacts DEF TurnCanMove, RandomMoveIsLegal
<1>4. QED
  BY <1>2, <1>3, SpecBoardInv, PTL

-----------------------------------------------------------------------------
(* The end of the game.                                                     *)

\* Nobody can move any more, or player p leads and is the only one who can.
NobodyMoves == ~moving /\ \A p \in Player : ~CanMove(p)
Won(p) == score[p] > score[Other(p)] /\ ~CanMove(Other(p)) /\ (moving => turn = p)

Decided == state = "Finished" => NobodyMoves \/ \E p \in Player : Won(p)

LEMMA FullBoard ==
    ASSUME BoardInv, freeCells = 0, NEW p \in Player
    PROVE  ~CanMove(p)
<1>1. FreeSet = {}
  BY CountersType, FS_EmptySet DEF BoardInv, CountersOK
<1>2. MovesOf(p) = {} /\ normalMoves[p] = Cardinality(MovesOf(p))
  BY <1>1 DEF MovesOf, BoardInv, CountersOK
<1>3. normalMoves[p] = 0
  BY <1>2, FS_EmptySet
<1>4. QED
  BY <1>3 DEF CanMove

\* The leader's moves only add to the lead and take moves from the other.
LEMMA WonStays ==
    ASSUME BoardInv, NEW p \in Player, Won(p), [Next]_vars,
           state = "Finished", state' = "Finished"
    PROVE  Won(p)'
<1> DEFINE q == Other(p)
<1>1. /\ q \in Player /\ q # p /\ score \in [Player -> Nat] /\ score[p] > score[q]
      /\ normalMoves[q] \in Nat /\ freeCells \in Nat /\ flags[q] \in Nat
  <2>1. score \in [Player -> Nat] /\ flags \in [Player -> 0..NumFlags] /\ q \in Player /\ q # p
    BY DEF BoardInv, BoardTypeOK
  <2>2. flags[q] \in Nat
    BY <2>1, FlagzAssumption
  <2>3. normalMoves[q] \in Nat /\ freeCells \in Nat
    BY <2>1, CountersType
  <2>4. QED
    BY <2>1, <2>2, <2>3 DEF Won
<1>2. normalMoves[q] = 0 /\ (freeCells = 0 \/ flags[q] = 0)
  BY <1>1 DEF Won, CanMove
<1>3. ASSUME NEW m \in Moves, MakeMove(m) PROVE Won(p)'
  <2>1. turn = p
    <3>1. CanMove(turn) /\ turn \in Player
      BY <1>3, MakeMoveFacts DEF BoardInv, BoardTypeOK
    <3>2. QED
      BY <3>1 DEF Won
  <2>2. freeCells > 0 /\ flags[q] = 0
    <3>1. freeCells # 0
      BY <1>3, <2>1, FullBoard, MakeMoveFacts
    <3>2. QED
      BY <1>1, <1>2, <3>1
  <2>3. normalMoves'[q] = 0 /\ flags'[q] = 0 /\ turn' = p
    <3>1. flags'[q] = 0 /\ turn' = p
      BY <1>1, <1>3, <2>1, <2>2 DEF MakeMove, BoardInv, BoardTypeOK
    <3>2. MovesOf(q)' = MovesOf(q) \ {m.cell}
      BY <1>3, MakeMoveFacts DEF MovesOf, MakeMove
    <3>3. BoardInv'
      BY <1>3, MakeMoveBoardInv
    <3>4. MovesOf(q) = {}
      BY <1>1, <1>2, CountersType, FS_EmptySet DEF BoardInv, CountersOK
    <3>5. normalMoves'[q] = Cardinality(MovesOf(q)')
      BY <1>1, <3>3 DEF BoardInv, CountersOK
    <3>6. QED
      BY <3>1, <3>2, <3>4, <3>5, FS_EmptySet
  <2>4. score'[p] >= score[p] /\ score'[q] = score[q]
    <3> DEFINE val == IF m.cellType = "flag" THEN 0 ELSE nextVal[turn][m.cell]
    <3>1. score' = [score EXCEPT ![turn] = @ + val]
      BY <1>3 DEF MakeMove
    <3>2. val \in Nat
      BY <1>3, <2>1, MakeMoveFacts, FlagzAssumption DEF MakeMove, Accepts, BoardInv, BoardTypeOK
    <3> HIDE DEF val
    <3>3. score'[p] = score[p] + val /\ score'[q] = score[q]
      BY <1>1, <2>1, <3>1
    <3>4. QED
      BY <1>1, <3>2, <3>3
  <2>5. score'[p] > score'[q]
    <3>1. score'[p] \in Nat
      BY <1>3, MakeMoveBoardInv DEF BoardInv, BoardTypeOK
    <3>2. QED
      BY <1>1, <2>4, <3>1
  <2>6. QED
    BY <2>3, <2>5 DEF Won, CanMove
<1>4. ASSUME NEW f \in Cells, NEW nb \in Cells, UpdateNeighborCell(f, nb) PROVE Won(p)'
  <2>1. turn = p /\ field[f].owner = p /\ moving
    BY <1>4, VisitFacts DEF Won
  <2>2. UNCHANGED <<turn, flags, freeCells, moving>>
    BY <1>4 DEF UpdateNeighborCell
  <2>3. normalMoves'[q] = normalMoves[q]
    BY <1>1, <1>4, <2>1, CountersType DEF UpdateNeighborCell, VisitFree, VisitGrass, VisitOther
  <2>4. score'[q] = score[q] /\ score'[p] >= score[p] /\ score'[p] \in Nat
    <3>0. field[nb].value \in 0..MaxValue
      BY <1>4, VisitFacts
    <3>1. field[nb].value \in Nat
      BY <3>0, FlagzAssumption
    <3>2. CASE VisitGrass(f, nb)
      <4>1. score' = [score EXCEPT ![p] = @ + field[nb].value]
        BY <2>1, <3>2 DEF VisitGrass, GrassValue
      <4>2. score'[p] = score[p] + field[nb].value /\ score'[q] = score[q]
        BY <1>1, <4>1
      <4>3. QED
        BY <1>1, <3>1, <4>2
    <3>3. CASE VisitFree(f, nb) \/ VisitOther(f, nb)
      BY <1>1, <3>3 DEF VisitFree, VisitOther
    <3>4. QED
      BY <1>4, <3>2, <3>3 DEF UpdateNeighborCell
  <2>5. score'[p] > score'[q]
    BY <1>1, <2>4
  <2>6. QED
    BY <1>2, <2>1, <2>2, <2>3, <2>5 DEF Won, CanMove
<1>5. ASSUME FinishMove PROVE Won(p)'
  BY <1>5 DEF FinishMove, counters, Won, CanMove
<1>6. ASSUME Reset PROVE Won(p)'
  BY <1>6 DEF Reset, NewGame
<1>7. ASSUME UNCHANGED vars PROVE Won(p)'
  BY <1>7 DEF vars, counters, Won, CanMove
<1>8. QED
  BY <1>3, <1>4, <1>5, <1>6, <1>7 DEF Next

\* A finished game that nobody can move in stays as it is until it is reset.
LEMMA NobodyMovesStays ==
    ASSUME BoardInv, NobodyMoves, [Next]_vars, state' = "Finished"
    PROVE  UNCHANGED vars
<1>1. ASSUME NEW m \in Moves, MakeMove(m) PROVE FALSE
  <2>1. CanMove(turn) /\ turn \in Player
    BY <1>1, MakeMoveFacts DEF BoardInv, BoardTypeOK
  <2>2. QED
    BY <2>1 DEF NobodyMoves
<1>2. ASSUME NEW f \in Cells, NEW nb \in Cells, UpdateNeighborCell(f, nb) PROVE FALSE
  BY <1>2, VisitFacts DEF NobodyMoves
<1>3. ~FinishMove /\ ~Reset
  BY DEF FinishMove, NobodyMoves, Reset, NewGame
<1>4. QED
  BY <1>1, <1>2, <1>3 DEF Next

LEMMA StepDecided == BoardInv /\ Decided /\ [Next]_vars => Decided'
<1> SUFFICES ASSUME BoardInv, Decided, [Next]_vars, state' = "Finished"
             PROVE  (NobodyMoves \/ \E p \in Player : Won(p))'
  BY DEF Decided
<1>1. CASE state = "Finished"
  <2>1. CASE NobodyMoves
    <3>1. UNCHANGED vars
      BY <2>1, NobodyMovesStays
    <3>2. QED
      BY <2>1, <3>1 DEF vars, counters, NobodyMoves, CanMove
  <2>2. ASSUME NEW p \in Player, Won(p) PROVE Won(p)'
    BY <1>1, <2>2, WonStays
  <2>3. QED
    BY <1>1, <2>1, <2>2 DEF Decided
<1>2. CASE state # "Finished"
  <2>1. FinishMove /\ IsOver
    BY <1>2 DEF Next, MakeMove, UpdateNeighborCell, FinishMove, Reset, NewGame, vars
  <2>2. UNCHANGED <<score, freeCells, normalMoves, flags>> /\ ~moving'
    BY <2>1 DEF FinishMove, counters
  <2>3. CASE \A p \in Player : ~CanMove(p)
    BY <2>2, <2>3 DEF NobodyMoves, CanMove
  <2>4. CASE \E p \in Player : score[p] > score[Other(p)] /\ ~CanMove(Other(p))
    BY <2>2, <2>4 DEF Won, CanMove
  <2>5. QED
    BY <2>1, <2>3, <2>4, FullBoard DEF IsOver
<1>3. QED
  BY <1>1, <1>2

LEMMA StepWinner ==
    ASSUME BoardInv, BoardInv', Decided, [Next]_vars
    PROVE  [state = "Finished" /\ state' = "Finished" => Winner' = Winner]_vars
<1> SUFFICES ASSUME state = "Finished", state' = "Finished"
             PROVE  Winner' = Winner
  OBVIOUS
<1>1. CASE NobodyMoves
  <2>1. UNCHANGED vars
    BY <1>1, NobodyMovesStays
  <2>2. QED
    BY <2>1 DEF vars, Winner
<1>2. ASSUME NEW p \in Player, Won(p) PROVE Winner' = Winner
  <2>1. score \in [Player -> Nat] /\ score' \in [Player -> Nat]
    BY DEF BoardInv, BoardTypeOK
  <2>2. score[p] > score[Other(p)] /\ score'[p] > score'[Other(p)]
    BY <1>2, WonStays DEF Won
  <2>3. Winner = p
    BY <2>1, <2>2 DEF Winner
  <2>4. Winner' = p
    BY <2>1, <2>2 DEF Winner
  <2>5. QED
    BY <2>3, <2>4
<1>3. QED
  BY <1>1, <1>2 DEF Decided

\* A game that ended before the board was full was decided: whatever moves the
\* players could still make, the winner, or the draw, stays (flagz.go:100-108).
THEOREM WinnerFinal == Spec => WinnerIsFinal
<1>1. Init => Decided
  BY InitIsNewGame DEF IsNewGame, Decided
<1>2. Spec => []Decided
  BY <1>1, SpecBoardInv, StepDecided, PTL DEF Spec
<1>3. BoardInv /\ BoardInv' /\ Decided /\ [Next]_vars
        => [state = "Finished" /\ state' = "Finished" => Winner' = Winner]_vars
  BY StepWinner
<1>4. QED
  BY <1>2, <1>3, SpecBoardInv, PTL DEF Spec, WinnerIsFinal
=============================================================================
