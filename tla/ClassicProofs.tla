---------------------------- MODULE ClassicProofs ----------------------------
(***************************************************************************)
(* Theorems about Classic, for any board and any number of pieces.         *)
(***************************************************************************)
EXTENDS Classic, SumsProofs, FiniteSetTheorems, TLAPS

\* Boards whose pieces live for n moves at most.
Boards(n) == [Cells -> [type : Types, owner : 0..2, hidden : BOOLEAN, lifetime : -1..n]]

LEMMA CellsFinite == IsFiniteSet(Cells)
<1>1. IsFiniteSet((0..NumBoardRows-1) \X (0..NumFieldsFirstRow-1))
  <2>1. IsFiniteSet(0..NumBoardRows-1) /\ IsFiniteSet(0..NumFieldsFirstRow-1)
    BY BoardAssumption, FS_Interval
  <2>2. QED
    BY <2>1, FS_Product
<1>2. QED
  BY <1>1, FS_Subset DEF Cells

LEMMA SomeCell == <<0, 0>> \in Cells
<1>1. 0 % 2 = 0
  OBVIOUS
<1>2. QED
  BY <1>1, BoardAssumption DEF Cells, RowLen

\* A player of the game, and who is not that player.
LEMMA OtherPlayer ==
    ASSUME NEW p \in Player
    PROVE  Other(p) \in Player /\ Other(p) # p /\ \A q \in Player : q # p => q = Other(p)
BY DEF Player, Other

LEMMA PieceType ==
    ASSUME NEW t \in Types, NEW p \in 0..2, NEW hid \in BOOLEAN
    PROVE  /\ Piece(t, p, hid) \in [type : Types, owner : 0..2, hidden : BOOLEAN, lifetime : -1..3]
           /\ t # "pest" =>
              Piece(t, p, hid) \in [type : Types, owner : 0..2, hidden : BOOLEAN, lifetime : -1..2]
BY DEF Piece, Lifetime, Types, SpecialTypes

-----------------------------------------------------------------------------
(* What a reveal does to a board.                                          *)

LEMMA RevealedBoard ==
    ASSUME NEW n \in Nat, NEW b \in Boards(n)
    PROVE  /\ Revealed(b) \in Boards(n)
           /\ \A c \in Cells : /\ Revealed(b)[c].hidden = FALSE
                               /\ Revealed(b)[c].type = b[c].type
                               /\ Revealed(b)[c].owner = b[c].owner
                               /\ Revealed(b)[c].lifetime = b[c].lifetime
BY DEF Boards, Revealed

LEMMA PestBoard ==
    ASSUME NEW b \in Boards(3)
    PROVE  /\ WithPest(b) \in Boards(3)
           /\ \A c \in Cells : WithPest(b)[c].hidden = b[c].hidden
<1>1. ASSUME NEW c \in Cells, Infectable(b[c])
      PROVE  Piece("pest", Other(b[c].owner), b[c].hidden)
                \in [type : Types, owner : 0..2, hidden : BOOLEAN, lifetime : -1..3]
  <2>1. Other(b[c].owner) \in 0..2 /\ b[c].hidden \in BOOLEAN
    BY <1>1 DEF Boards, Infectable, Other
  <2>2. "pest" \in Types
    BY DEF Types, SpecialTypes
  <2>3. QED
    BY <2>1, <2>2, PieceType
<1>2. WithPest(b) \in Boards(3)
  BY <1>1 DEF WithPest, Boards
<1>3. \A c \in Cells : WithPest(b)[c].hidden = b[c].hidden
  BY DEF WithPest, Piece
<1>4. QED
  BY <1>2, <1>3

LEMMA AgedBoard ==
    ASSUME NEW b \in Boards(3)
    PROVE  /\ Aged(b) \in Boards(2)
           /\ \A c \in Cells : b[c].hidden = FALSE => Aged(b)[c].hidden = FALSE
<1>1. Cleared \in [type : Types, owner : 0..2, hidden : BOOLEAN, lifetime : -1..2]
      /\ Cleared.hidden = FALSE
  BY DEF Cleared, Piece, Lifetime, Types
<1>2. \A c \in Cells : b[c] \in [type : Types, owner : 0..2, hidden : BOOLEAN, lifetime : -1..3]
  BY DEF Boards
<1>3. ASSUME NEW c \in Cells
      PROVE  /\ Aged(b)[c] \in [type : Types, owner : 0..2, hidden : BOOLEAN, lifetime : -1..2]
             /\ b[c].hidden = FALSE => Aged(b)[c].hidden = FALSE
  <2>1. Aged(b)[c] = IF Occupied(b[c]) /\ b[c].lifetime = 0 THEN Cleared
                     ELSE IF b[c].lifetime > 0 THEN [b[c] EXCEPT !.lifetime = b[c].lifetime - 1]
                     ELSE b[c]
    BY DEF Aged
  <2>2. QED
    BY <1>1, <1>2, <2>1
<1>4. Aged(b) = [c \in Cells |-> Aged(b)[c]]
  BY DEF Aged
<1>5. QED
  BY <1>3, <1>4 DEF Boards

-----------------------------------------------------------------------------
(* Types.                                                                  *)

\* A capture gives fields another owner, whatever their number.
LEMMA CaptureType ==
    ASSUME NEW n \in Nat, NEW b \in Boards(n), NEW a, NEW p \in Player
    PROVE  Capture(b, a, p) \in Boards(n)
<1>1. ASSUME NEW c \in Cells
      PROVE  Capture(b, a, p)[c]
                \in [type : Types, owner : 0..2, hidden : BOOLEAN, lifetime : -1..n]
  <2>1. b[c] \in [type : Types, owner : 0..2, hidden : BOOLEAN, lifetime : -1..n]
    BY DEF Boards
  <2>2. Lifetime("normal") = -1 /\ -1 \in -1..n /\ p \in 0..2
    BY DEF Lifetime, Player
  <2>3. CASE c \in a
    BY <2>1, <2>2, <2>3 DEF Capture
  <2>4. CASE c \notin a
    BY <2>1, <2>4 DEF Capture
  <2>5. QED
    BY <2>3, <2>4
<1>2. QED
  BY <1>1 DEF Capture, Boards

LEMMA OccupatorType ==
    ASSUME turn \in Player, NEW b, NEW a, NEW t
    PROVE  Occupator(b, a, turn, t) \in Player
BY OtherPlayer DEF Occupator

LEMMA ScoreType ==
    ASSUME NEW b
    PROVE  ScoreOf(b) \in [Player -> Nat]
<1>1. \A p \in Player : IsFiniteSet({c \in Cells : b[c].owner = p /\ ~b[c].hidden})
  BY CellsFinite, FS_Subset
<1>2. QED
  BY <1>1, FS_CardinalityType DEF ScoreOf

\* The move a player makes has a piece.
LEMMA PiecesLeft ==
    ASSUME TypeOK, NEW m \in Moves, Accepts(m), m.cellType # "normal"
    PROVE  /\ m.cellType \in SpecialTypes /\ turn \in Player
           /\ pieces[turn][m.cellType] \in Nat \ {0}
BY DEF TypeOK, Moves, Accepts, Player

LEMMA MoveType ==
    ASSUME TypeOK, NEW m \in Moves
    PROVE  /\ m.cell \in Cells /\ m.cellType \in Types /\ turn \in Player
           /\ field \in Boards(2) /\ field \in Boards(3)
           /\ field[m.cell].hidden \in BOOLEAN
BY DEF TypeOK, Moves, Types, Boards

\* The boards between the steps of Conclude.
LEMMA ConcludeBoards ==
    ASSUME NEW m, NEW b \in Boards(3), NEW mv, NEW reveal \in BOOLEAN,
           Conclude(m, b, mv, reveal),
           reveal \/ b \in Boards(2)
    PROVE  \E after \in Boards(2) :
              /\ reveal \/ RevealIsDue(mv) => after = Aged(WithPest(Revealed(b)))
              /\ ~(reveal \/ RevealIsDue(mv)) => after = b
              /\ reveal \/ RevealIsDue(mv) => \A c \in Cells : after[c].hidden = FALSE
              /\ score' = ScoreOf(after)
              /\ field' = IF Full(after) THEN Revealed(after) ELSE after
              /\ state' = IF Full(after) THEN "Finished" ELSE state
<1> DEFINE now   == reveal \/ RevealIsDue(mv)
           after == IF now THEN Aged(WithPest(Revealed(b))) ELSE b
<1>1. Revealed(b) \in Boards(3) /\ \A c \in Cells : Revealed(b)[c].hidden = FALSE
  BY RevealedBoard
<1>2. WithPest(Revealed(b)) \in Boards(3)
      /\ \A c \in Cells : WithPest(Revealed(b))[c].hidden = FALSE
  BY <1>1, PestBoard
<1>3. Aged(WithPest(Revealed(b))) \in Boards(2)
      /\ \A c \in Cells : Aged(WithPest(Revealed(b)))[c].hidden = FALSE
  BY <1>2, AgedBoard
<1>4. /\ score' = ScoreOf(after)
      /\ field' = IF Full(after) THEN Revealed(after) ELSE after
      /\ state' = IF Full(after) THEN "Finished" ELSE state
  BY DEF Conclude
<1>5. after \in Boards(2)
  BY <1>3
<1>6. QED
  BY <1>3, <1>4, <1>5

LEMMA ConcludeType ==
    ASSUME TypeOK, NEW m \in Moves, Accepts(m), NEW b \in Boards(3),
           NEW mv \in {move, move + 1}, NEW reveal \in BOOLEAN, reveal \/ b \in Boards(2),
           Conclude(m, b, mv, reveal)
    PROVE  TypeOK'
<1>1. PICK after \in Boards(2) :
          /\ score' = ScoreOf(after)
          /\ field' = IF Full(after) THEN Revealed(after) ELSE after
          /\ state' = IF Full(after) THEN "Finished" ELSE state
  BY ConcludeBoards
<1>2. field' \in Boards(2)
  BY <1>1, RevealedBoard
<1>3. score' \in [Player -> Nat]
  BY <1>1, ScoreType
<1>4. state' \in {"Running", "Finished"}
  BY <1>1 DEF TypeOK
<1>5. turn' \in Player /\ move' \in Nat /\ lastRevealed' \in 0..move'
  BY OtherPlayer DEF Conclude, TypeOK
<1>6. pieces' \in [Player -> [SpecialTypes -> Nat]]
  <2>1. CASE m.cellType = "normal"
    BY <2>1 DEF Conclude, TypeOK
  <2>2. CASE m.cellType # "normal"
    <3>1. pieces' = [pieces EXCEPT ![turn][m.cellType] = @ - 1]
      BY <2>2 DEF Conclude
    <3>2. QED
      BY <2>2, <3>1, PiecesLeft DEF TypeOK
  <2>3. QED
    BY <2>1, <2>2
<1>7. QED
  BY <1>2, <1>3, <1>4, <1>5, <1>6 DEF TypeOK, Boards

\* The board that a move on a free cell without fire leaves.
Occupied1(m) == [field EXCEPT ![m.cell] = Piece(m.cellType, turn, TRUE)]
Area1(m)     == CapturedArea(Occupied1(m), m.cell)
Captured1(m) == Capture(Occupied1(m), Area1(m),
                        Occupator(Occupied1(m), Area1(m), turn, m.cellType))
Burnt(m) == [c \in Cells |-> IF c = m.cell THEN Piece("fire", turn, field[c].hidden)
                             ELSE IF c \in Neighbors(m.cell) THEN Dead
                             ELSE field[c]]

\* How a move ends, with the board it leaves.
LEMMA MoveEnds ==
    ASSUME TypeOK, NEW m \in Moves, MakeMove(m)
    PROVE  /\ Accepts(m)
           /\ \/ /\ Collide(m)
                 /\ Conclude(m, [field EXCEPT ![m.cell] = [Dead EXCEPT !.hidden = TRUE]], move + 1, TRUE)
              \/ /\ Kill(m)
                 /\ Conclude(m, [field EXCEPT ![m.cell] = Piece("death", turn, FALSE)], move, TRUE)
              \/ Fire(m) /\ Conclude(m, Burnt(m), move + 1, TRUE)
              \/ /\ Occupy(m)
                 /\ Conclude(m, Captured1(m), move + 1,
                             Area1(m) # {} \/ m.cellType \in {"pest", "death"})
BY DEF MakeMove, Collide, Kill, Fire, Occupy, Burnt, Occupied1, Area1, Captured1

\* The boards that moves leave: a pest piece is the only one that lives for 3 moves.
LEMMA MoveBoards ==
    ASSUME TypeOK, NEW m \in Moves
    PROVE  /\ [field EXCEPT ![m.cell] = [Dead EXCEPT !.hidden = TRUE]] \in Boards(3)
           /\ [field EXCEPT ![m.cell] = Piece("death", turn, FALSE)] \in Boards(3)
           /\ Burnt(m) \in Boards(3)
           /\ Captured1(m) \in Boards(3)
           /\ m.cellType # "pest" => Captured1(m) \in Boards(2)
<1>0. turn \in 0..2 /\ {"dead", "death", "fire"} \subseteq Types
  BY DEF TypeOK, Player, Types, SpecialTypes
<1>1. /\ [Dead EXCEPT !.hidden = TRUE]
            \in [type : Types, owner : 0..2, hidden : BOOLEAN, lifetime : -1..3]
      /\ Dead \in [type : Types, owner : 0..2, hidden : BOOLEAN, lifetime : -1..3]
  <2>1. Dead = [type |-> "dead", owner |-> 0, hidden |-> FALSE, lifetime |-> 1]
    BY DEF Dead, Piece, Lifetime
  <2>2. Dead \in [type : Types, owner : 0..2, hidden : BOOLEAN, lifetime : -1..3]
    BY <1>0, <2>1
  <2>3. QED
    BY <2>2
<1>2. [field EXCEPT ![m.cell] = [Dead EXCEPT !.hidden = TRUE]] \in Boards(3)
  BY <1>1, MoveType DEF Boards
<1>3. [field EXCEPT ![m.cell] = Piece("death", turn, FALSE)] \in Boards(3)
  BY <1>0, PieceType, MoveType DEF Boards
<1>4. Burnt(m) \in Boards(3)
  <2>1. Piece("fire", turn, field[m.cell].hidden)
           \in [type : Types, owner : 0..2, hidden : BOOLEAN, lifetime : -1..3]
    BY <1>0, PieceType, MoveType
  <2>2. QED
    BY <1>1, <2>1, MoveType DEF Boards, Burnt
<1>5. Occupied1(m) \in Boards(3) /\ (m.cellType # "pest" => Occupied1(m) \in Boards(2))
  BY <1>0, PieceType, MoveType DEF Boards, Occupied1
<1>6. Captured1(m) \in Boards(3) /\ (m.cellType # "pest" => Captured1(m) \in Boards(2))
  BY <1>5, CaptureType, OccupatorType, MoveType DEF Captured1
<1>7. QED
  BY <1>2, <1>3, <1>4, <1>6

LEMMA NewGameBoard == NewGame.field \in Boards(2)
BY DEF NewGame, Boards, Types

LEMMA InitialType ==
    ASSUME NEW f, f = NewGame.field, NEW r, r = NewGame.pieces
    PROVE  f \in Boards(2) /\ r \in [Player -> [SpecialTypes -> Nat]]
BY NewGameBoard, ClassicAssumption DEF NewGame

LEMMA TypeStep == TypeOK /\ [Next]_vars => TypeOK'
<1> SUFFICES ASSUME TypeOK, [Next]_vars PROVE TypeOK'
  OBVIOUS
<1>1. ASSUME NEW m \in Moves, MakeMove(m) PROVE TypeOK'
  <2>1. move + 1 \in {move, move + 1} /\ move \in {move, move + 1}
    OBVIOUS
  <2>2. (Area1(m) # {} \/ m.cellType \in {"pest", "death"}) \in BOOLEAN
    OBVIOUS
  <2>3. QED
    BY <1>1, <2>1, <2>2, MoveEnds, MoveBoards, ConcludeType
<1>2. CASE Reset
  BY <1>2, InitialType DEF Reset, TypeOK, Player, Boards
<1>3. CASE UNCHANGED vars
  BY <1>3 DEF vars, TypeOK
<1>4. QED
  BY <1>1, <1>2, <1>3 DEF Next

\* Every variable keeps its type; nothing that lives for three moves is left on the
\* board after the move that put it there.
THEOREM ClassicTypeCorrect == Spec => []TypeOK
<1>1. Init => TypeOK
  BY InitialType DEF Init, TypeOK, Player, Boards
<1>2. QED
  BY <1>1, TypeStep, PTL DEF Spec

-----------------------------------------------------------------------------
(* Hidden moves.                                                           *)

HiddenIn(b)    == {c \in Cells : b[c].hidden}
HiddenBy(b, p) == {c \in HiddenIn(b) : b[c].owner = p}

\* While the game runs there is one hidden cell for each move since the last reveal,
\* and the players took turns at them, the player not on turn having moved last.
HidInv ==
    state = "Running" =>
        /\ move - lastRevealed <= 3
        /\ Cardinality(HiddenIn(field)) = move - lastRevealed
        /\ Cardinality(HiddenBy(field, turn)) + Cardinality(HiddenBy(field, Other(turn)))
             = move - lastRevealed
        /\ Cardinality(HiddenBy(field, Other(turn))) - Cardinality(HiddenBy(field, turn)) \in {0, 1}
        /\ \A c \in HiddenIn(field) : field[c].owner > 0 /\ field[c].type \in {"normal", "flag"}

FreeInv == state = "Running" => FreeIn(field) # {}

LEMMA HiddenFinite ==
    ASSUME NEW b, NEW p
    PROVE  /\ IsFiniteSet(HiddenIn(b)) /\ Cardinality(HiddenIn(b)) \in Nat
           /\ IsFiniteSet(HiddenBy(b, p)) /\ Cardinality(HiddenBy(b, p)) \in Nat
<1>1. IsFiniteSet(HiddenIn(b))
  BY CellsFinite, FS_Subset DEF HiddenIn
<1>2. IsFiniteSet(HiddenBy(b, p))
  BY <1>1, FS_Subset DEF HiddenBy
<1>3. QED
  BY <1>1, <1>2, FS_CardinalityType

LEMMA NothingHidden ==
    ASSUME NEW b, \A c \in Cells : b[c].hidden = FALSE
    PROVE  /\ HiddenIn(b) = {} /\ Cardinality(HiddenIn(b)) = 0
           /\ \A p : Cardinality(HiddenBy(b, p)) = 0
<1>1. HiddenIn(b) = {} /\ \A p : HiddenBy(b, p) = {}
  BY DEF HiddenIn, HiddenBy
<1>2. QED
  BY <1>1, FS_EmptySet

\* A move that does not reveal the board hides one more cell, of the player on turn.
LEMMA OneMoreHidden ==
    ASSUME TypeOK, HidInv, state = "Running", NEW m \in Moves, ~Occupied(field[m.cell])
    PROVE  /\ Cardinality(HiddenIn(Occupied1(m))) = Cardinality(HiddenIn(field)) + 1
           /\ Cardinality(HiddenBy(Occupied1(m), turn)) = Cardinality(HiddenBy(field, turn)) + 1
           /\ Cardinality(HiddenBy(Occupied1(m), Other(turn)))
                = Cardinality(HiddenBy(field, Other(turn)))
<1>1. /\ m.cell \in Cells /\ field \in Boards(2) /\ turn \in Player /\ Other(turn) # turn
  BY MoveType, OtherPlayer DEF TypeOK
<1>2. m.cell \notin HiddenIn(field)
  BY DEF HidInv, Occupied
<1>3. \A c \in Cells : Occupied1(m)[c] = IF c = m.cell THEN Piece(m.cellType, turn, TRUE) ELSE field[c]
  BY <1>1 DEF Occupied1, Boards
<1>4. Occupied1(m)[m.cell].hidden = TRUE /\ Occupied1(m)[m.cell].owner = turn
  BY <1>1, <1>3 DEF Piece
<1>5. HiddenIn(Occupied1(m)) = HiddenIn(field) \cup {m.cell}
  BY <1>1, <1>3, <1>4 DEF HiddenIn
<1>6. HiddenBy(Occupied1(m), turn) = HiddenBy(field, turn) \cup {m.cell}
  BY <1>1, <1>3, <1>4, <1>5 DEF HiddenBy, HiddenIn
<1>7. HiddenBy(Occupied1(m), Other(turn)) = HiddenBy(field, Other(turn))
  <2>1. \A c \in HiddenIn(field) : c # m.cell /\ Occupied1(m)[c].owner = field[c].owner
    BY <1>2, <1>3 DEF HiddenIn
  <2>2. QED
    BY <1>1, <1>4, <1>5, <2>1 DEF HiddenBy
<1>8. m.cell \notin HiddenBy(field, turn)
  BY <1>2 DEF HiddenBy
<1>9. QED
  BY <1>2, <1>5, <1>6, <1>7, <1>8, HiddenFinite, FS_AddElement

\* An area is captured from the free cells, and nothing else is changed.
LEMMA AreaIsFree ==
    ASSUME NEW b, NEW x
    PROVE  CapturedArea(b, x) \subseteq FreeIn(b)
<1> DEFINE areas == AreasAt(b, x)
           key(a) == 7 * Cardinality(a.cells) + a.dir
<1>1. \A a \in areas : a.cells \subseteq FreeIn(b) /\ a.dir \in 1..6
  BY DEF AreasAt, Area
<1>2. \A a \in areas : Cardinality(a.cells) \in Nat
  <2>1. \A a \in areas : a.cells \subseteq Cells
    BY <1>1 DEF FreeIn
  <2>2. QED
    BY <2>1, CellsFinite, FS_Subset, FS_CardinalityType
<1>3. CASE \A a, o \in areas : a.cells = o.cells
  BY <1>3 DEF CapturedArea
<1>4. CASE ~ \A a, o \in areas : a.cells = o.cells
  <2> DEFINE keys == {key(a) : a \in areas}
  <2>1. keys \in SUBSET Nat /\ keys # {}
    BY <1>1, <1>2, <1>4
  <2>2. PICK n \in keys : \A k \in keys : n <= k
    BY <2>1, LeastNumber
  <2>3. PICK a \in areas : n = key(a)
    BY <2>2
  <2>4. ASSUME NEW o \in areas PROVE Smaller(a, o)
    <3>1. key(a) <= key(o)
      BY <2>2, <2>3
    <3>2. QED
      BY <3>1, <1>1, <1>2 DEF Smaller
  <2>5. \E e \in areas : \A o \in areas : Smaller(e, o)
    BY <2>4
  <2>6. (CHOOSE e \in areas : \A o \in areas : Smaller(e, o)) \in areas
    BY <2>5
  <2>7. CapturedArea(b, x) = (CHOOSE e \in areas : \A o \in areas : Smaller(e, o)).cells
    BY <1>4 DEF CapturedArea
  <2>8. QED
    BY <1>1, <2>6, <2>7
<1>5. QED
  BY <1>3, <1>4

\* The board of a running game after a move, and when it is a revealed one.
LEMMA RunningBoard ==
    ASSUME NEW m, NEW b \in Boards(3), NEW mv, NEW reveal \in BOOLEAN,
           Conclude(m, b, mv, reveal),
           reveal \/ b \in Boards(2), state' = "Running"
    PROVE  /\ state = "Running" /\ FreeIn(field') # {}
           /\ turn' = Other(turn) /\ move' = mv
           /\ reveal \/ RevealIsDue(mv) =>
              lastRevealed' = mv /\ \A c \in Cells : field'[c].hidden = FALSE
           /\ ~(reveal \/ RevealIsDue(mv)) => lastRevealed' = lastRevealed /\ field' = b
<1>1. PICK after \in Boards(2) :
          /\ ~(reveal \/ RevealIsDue(mv)) => after = b
          /\ reveal \/ RevealIsDue(mv) => \A c \in Cells : after[c].hidden = FALSE
          /\ field' = IF Full(after) THEN Revealed(after) ELSE after
          /\ state' = IF Full(after) THEN "Finished" ELSE state
  BY ConcludeBoards
<1>2. ~Full(after) /\ field' = after /\ state = "Running"
  BY <1>1
<1>3. FreeIn(field') # {}
  BY <1>2 DEF Full
<1>4. QED
  BY <1>1, <1>2, <1>3 DEF Conclude

LEMMA RevealedHid ==
    ASSUME TypeOK', move' = lastRevealed', \A c \in Cells : field'[c].hidden = FALSE
    PROVE  HidInv'
<1>1. /\ HiddenIn(field') = {} /\ Cardinality(HiddenIn(field')) = 0
      /\ Cardinality(HiddenBy(field', turn')) = 0
      /\ Cardinality(HiddenBy(field', Other(turn'))) = 0
  BY NothingHidden
<1>2. move' \in Nat
  BY DEF TypeOK
<1>3. QED
  BY <1>1, <1>2 DEF HidInv

LEMMA MoveHid ==
    ASSUME TypeOK, TypeOK', HidInv, NEW m \in Moves, MakeMove(m), state' = "Running"
    PROVE  HidInv' /\ FreeInv'
<1>1. ASSUME NEW b \in Boards(3), NEW mv, NEW reveal \in BOOLEAN, reveal, Conclude(m, b, mv, reveal)
      PROVE  HidInv' /\ FreeInv'
  <2>1. /\ FreeIn(field') # {} /\ move' = mv /\ lastRevealed' = mv
        /\ \A c \in Cells : field'[c].hidden = FALSE
    <3>1. /\ FreeIn(field') # {} /\ move' = mv
          /\ reveal \/ RevealIsDue(mv) =>
             lastRevealed' = mv /\ \A c \in Cells : field'[c].hidden = FALSE
      BY <1>1, RunningBoard
    <3>2. QED
      BY <1>1, <3>1
  <2>2. QED
    BY <2>1, RevealedHid DEF FreeInv
<1>2. CASE Occupy(m)
  <2> DEFINE reveal == Area1(m) # {} \/ m.cellType \in {"pest", "death"}
  <2>1. /\ Conclude(m, Captured1(m), move + 1, reveal)
        /\ Accepts(m) /\ ~Occupied(field[m.cell]) /\ m.cellType # "fire"
    BY <1>2 DEF Occupy, Occupied1, Area1, Captured1
  <2>2. Captured1(m) \in Boards(3) /\ (reveal \/ Captured1(m) \in Boards(2))
    BY MoveBoards
  <2>3. /\ state = "Running" /\ FreeIn(field') # {}
        /\ turn' = Other(turn) /\ move' = move + 1
        /\ reveal \/ RevealIsDue(move + 1) =>
           lastRevealed' = move + 1 /\ \A c \in Cells : field'[c].hidden = FALSE
        /\ ~(reveal \/ RevealIsDue(move + 1)) =>
           lastRevealed' = lastRevealed /\ field' = Captured1(m)
    BY <2>1, <2>2, RunningBoard
  <2>4. CASE reveal \/ RevealIsDue(move + 1)
    BY <2>3, <2>4, RevealedHid DEF FreeInv
  <2>5. CASE ~(reveal \/ RevealIsDue(move + 1))
    <3>1. Area1(m) = {} /\ m.cellType \in {"normal", "flag"}
      BY <2>1, <2>5 DEF Moves, SpecialTypes
    <3>2. Captured1(m) = Occupied1(m)
      BY <3>1, MoveType DEF Occupied1, Captured1, Capture, Boards
    <3>3. /\ field' = Occupied1(m) /\ turn' = Other(turn) /\ Other(turn') = turn
          /\ turn \in Player /\ lastRevealed' = lastRevealed
      BY <2>3, <2>5, <3>2 DEF TypeOK, Player, Other
    <3>4. /\ move' = move + 1 /\ move \in Nat /\ lastRevealed \in Nat
          /\ move' - lastRevealed' # 4
      BY <2>3, <2>5, <3>3 DEF TypeOK, RevealIsDue
    <3>5. /\ Cardinality(HiddenIn(field)) \in Nat
          /\ Cardinality(HiddenBy(field, turn)) \in Nat
          /\ Cardinality(HiddenBy(field, Other(turn))) \in Nat
      BY HiddenFinite
    <3>6. /\ Cardinality(HiddenIn(field')) = Cardinality(HiddenIn(field)) + 1
          /\ Cardinality(HiddenBy(field', Other(turn'))) = Cardinality(HiddenBy(field, turn)) + 1
          /\ Cardinality(HiddenBy(field', turn')) = Cardinality(HiddenBy(field, Other(turn)))
      BY <2>1, <2>3, <3>3, OneMoreHidden
    <3>7. \A c \in HiddenIn(field') : field'[c].owner > 0 /\ field'[c].type \in {"normal", "flag"}
      <4>1. \A c \in Cells :
               Occupied1(m)[c] = IF c = m.cell THEN Piece(m.cellType, turn, TRUE) ELSE field[c]
        BY MoveType DEF Occupied1, Boards
      <4>2. turn > 0
        BY <3>3 DEF Player
      <4>3. \A c \in HiddenIn(field) : field[c].owner > 0 /\ field[c].type \in {"normal", "flag"}
        BY <2>3 DEF HidInv
      <4>4. QED
        BY <3>1, <3>3, <4>1, <4>2, <4>3 DEF HiddenIn, Piece
    <3>8. QED
      BY <2>3, <3>3, <3>4, <3>5, <3>6, <3>7 DEF HidInv, FreeInv
  <2>6. QED
    BY <2>4, <2>5
<1>3. QED
  BY <1>1, <1>2, MoveEnds, MoveBoards

\* A new game: nothing is hidden, every cell is free.
LEMMA NewGameHid ==
    ASSUME NEW f, f = NewGame.field
    PROVE  /\ \A c \in Cells : f[c].hidden = FALSE /\ ~Occupied(f[c])
           /\ FreeIn(f) # {}
<1>1. \A c \in Cells : f[c].hidden = FALSE /\ ~Occupied(f[c])
  BY DEF NewGame, Occupied
<1>2. QED
  BY <1>1, SomeCell DEF FreeIn

PlayInv == TypeOK /\ HidInv /\ FreeInv

LEMMA PlayInvariant == Spec => []PlayInv
<1>1. Init => PlayInv
  <2> SUFFICES ASSUME Init PROVE PlayInv
    OBVIOUS
  <2>1. TypeOK
    BY InitialType DEF Init, TypeOK, Player, Boards
  <2>2. /\ HiddenIn(field) = {} /\ Cardinality(HiddenIn(field)) = 0
        /\ Cardinality(HiddenBy(field, turn)) = 0
        /\ Cardinality(HiddenBy(field, Other(turn))) = 0
        /\ FreeIn(field) # {}
    BY NewGameHid, NothingHidden DEF Init
  <2>3. move = 0 /\ lastRevealed = 0
    BY DEF Init
  <2>4. QED
    BY <2>1, <2>2, <2>3 DEF PlayInv, HidInv, FreeInv
<1>2. PlayInv /\ [Next]_vars => PlayInv'
  <2> SUFFICES ASSUME PlayInv, [Next]_vars PROVE PlayInv'
    OBVIOUS
  <2>1. TypeOK /\ TypeOK' /\ HidInv /\ FreeInv
    BY TypeStep DEF PlayInv
  <2>2. ASSUME NEW m \in Moves, MakeMove(m) PROVE HidInv' /\ FreeInv'
    <3>1. CASE state' = "Running"
      BY <2>1, <2>2, <3>1, MoveHid
    <3>2. CASE state' # "Running"
      BY <3>2 DEF HidInv, FreeInv
    <3>3. QED
      BY <3>1, <3>2
  <2>3. CASE Reset
    <3>1. field' = NewGame.field /\ move' = 0 /\ lastRevealed' = 0
      BY <2>3 DEF Reset
    <3>2. (\A c \in Cells : field'[c].hidden = FALSE) /\ FreeIn(field') # {}
      BY <3>1, NewGameHid
    <3>3. QED
      BY <2>1, <3>1, <3>2, RevealedHid DEF FreeInv, PlayInv
  <2>4. CASE UNCHANGED vars
    <3>1. /\ field' = field /\ move' = move /\ lastRevealed' = lastRevealed
          /\ turn' = turn /\ state' = state
      BY <2>4 DEF vars
    <3>2. QED
      BY <2>1, <3>1 DEF HidInv, FreeInv, PlayInv
  <2>5. QED
    BY <2>1, <2>2, <2>3, <2>4 DEF Next, PlayInv
<1>3. QED
  BY <1>1, <1>2, PTL DEF Spec

\* While the game runs the hidden cells are the moves since the last reveal, three at
\* most, two at most of a player, and only normal pieces and flags (classic.go:271).
THEOREM HiddenCounted == Spec => []HiddenSinceReveal
<1>1. PlayInv => HiddenSinceReveal
  <2> SUFFICES ASSUME PlayInv, state = "Running"
               PROVE  /\ Cardinality(Hidden) = move - lastRevealed /\ move - lastRevealed <= 3
                      /\ \A p \in Player : Cardinality({c \in Hidden : field[c].owner = p}) <= 2
                      /\ \A c \in Hidden : field[c].owner > 0 /\ field[c].type \in {"normal", "flag"}
    BY DEF HiddenSinceReveal
  <2>1. Hidden = HiddenIn(field) /\ \A p : {c \in Hidden : field[c].owner = p} = HiddenBy(field, p)
    BY DEF Hidden, HiddenIn, HiddenBy
  <2>2. /\ move \in Nat /\ lastRevealed \in Nat
        /\ turn \in Player
    BY DEF PlayInv, TypeOK
  <2>3. /\ Cardinality(HiddenBy(field, turn)) \in Nat
        /\ Cardinality(HiddenBy(field, Other(turn))) \in Nat
    BY HiddenFinite
  <2>4. Cardinality(HiddenBy(field, turn)) <= 2 /\ Cardinality(HiddenBy(field, Other(turn))) <= 2
    BY <2>2, <2>3 DEF PlayInv, HidInv
  <2>5. \A p \in Player : p = turn \/ p = Other(turn)
    BY <2>2, OtherPlayer
  <2>6. QED
    BY <2>1, <2>4, <2>5 DEF PlayInv, HidInv
<1>2. QED
  BY <1>1, PlayInvariant, PTL

\* The player on turn of a running game has a cell to move on, and no cell that looks
\* free to that player is refused (classic.go:258-299, engine.go:64-98).
THEOREM FreeCellsPlayable == Spec => []LooksFreeIsPlayable
<1>1. PlayInv => LooksFreeIsPlayable
  <2> SUFFICES ASSUME PlayInv, state = "Running", NEW c \in FreeIn(View(turn))
               PROVE  Accepts([playerNum |-> turn, move |-> move, cell |-> c, cellType |-> "normal"])
    BY DEF LooksFreeIsPlayable, PlayInv, FreeInv
  <2>1. c \in Cells /\ turn \in Player /\ field[c].owner \in 0..2
    BY DEF FreeIn, PlayInv, TypeOK
  <2>2. ~Occupied(View(turn)[c])
    BY DEF FreeIn
  <2>3. CASE field[c].owner # turn /\ field[c].hidden
    <3>1. field[c].owner > 0
      BY <2>1, <2>3 DEF PlayInv, HidInv, HiddenIn
    <3>2. field[c].owner = Other(turn)
      BY <2>1, <2>3, <3>1 DEF Player, Other
    <3>3. QED
      BY <2>1, <2>3, <3>2 DEF Accepts, MeetsHidden
  <2>4. CASE ~(field[c].owner # turn /\ field[c].hidden)
    <3>1. ~Occupied(field[c])
      BY <2>1, <2>2, <2>4 DEF View
    <3>2. QED
      BY <2>1, <3>1 DEF Accepts
  <2>5. QED
    BY <2>3, <2>4
<1>2. QED
  BY <1>1, PlayInvariant, PTL

-----------------------------------------------------------------------------
(* Pieces that stay.                                                       *)

\* Owned normal cells and flags live forever, and pest is always somebody's.
Settled(b) ==
    \A c \in Cells :
        /\ b[c].type \in {"normal", "flag"} /\ b[c].owner > 0 => b[c].lifetime = -1
        /\ b[c].type = "pest" => b[c].owner > 0

LifeInv ==
    /\ Settled(field)
    /\ move = 0 => \A c \in Cells : ~Occupied(field[c])

\* What a reveal makes of a settled cell.
LEMMA RevealSettled ==
    ASSUME NEW b \in Boards(3), Settled(b), NEW after, after = Aged(WithPest(Revealed(b)))
    PROVE  /\ Settled(after)
           /\ \A c \in Cells :
                b[c].type \in {"normal", "flag"} /\ b[c].owner > 0 =>
                    \/ after[c].owner = b[c].owner
                    \/ /\ b[c].type = "normal" /\ after[c].type = "pest"
                       /\ \E x \in Neighbors(c) : /\ x \in Cells /\ b[x].type = "pest"
                                                  /\ b[x].lifetime < 3
                                                  /\ b[x].owner = after[c].owner
<1> DEFINE shown == Revealed(b)
           sick == WithPest(shown)
<1>1. /\ shown \in Boards(3)
      /\ \A c \in Cells : /\ shown[c].type = b[c].type
                          /\ shown[c].owner = b[c].owner
                          /\ shown[c].lifetime = b[c].lifetime
  BY RevealedBoard
<1>2. sick \in Boards(3)
  BY <1>1, PestBoard
<1>3. ASSUME NEW c \in Cells
      PROVE  \/ sick[c] = shown[c]
             \/ /\ shown[c].type = "normal" /\ shown[c].owner > 0
                /\ sick[c] = Piece("pest", Other(shown[c].owner), shown[c].hidden)
                /\ \E x \in Neighbors(c) : /\ x \in Cells /\ shown[x].type = "pest"
                                           /\ shown[x].lifetime < 3
                                           /\ shown[x].owner # shown[c].owner
  BY DEF WithPest, Infectable, Lifetime
<1>4. \A c \in Cells : after[c] = IF Occupied(sick[c]) /\ sick[c].lifetime = 0 THEN Cleared
                                  ELSE IF sick[c].lifetime > 0
                                  THEN [sick[c] EXCEPT !.lifetime = sick[c].lifetime - 1]
                                  ELSE sick[c]
  BY DEF Aged
<1>5. Cleared.type = "normal" /\ Cleared.owner = 0
  BY DEF Cleared, Piece
<1>6. ASSUME NEW c \in Cells
      PROVE  /\ after[c].type \in {"normal", "flag"} /\ after[c].owner > 0 => after[c].lifetime = -1
             /\ after[c].type = "pest" => after[c].owner > 0
             /\ b[c].type \in {"normal", "flag"} /\ b[c].owner > 0 =>
                    \/ after[c].owner = b[c].owner
                    \/ /\ b[c].type = "normal" /\ after[c].type = "pest"
                       /\ \E x \in Neighbors(c) : /\ x \in Cells /\ b[x].type = "pest"
                                                  /\ b[x].lifetime < 3
                                                  /\ b[x].owner = after[c].owner
  <2>1. b[c] \in [type : Types, owner : 0..2, hidden : BOOLEAN, lifetime : -1..3]
        /\ sick[c] \in [type : Types, owner : 0..2, hidden : BOOLEAN, lifetime : -1..3]
    BY <1>2 DEF Boards
  <2>2. /\ b[c].type \in {"normal", "flag"} /\ b[c].owner > 0 => b[c].lifetime = -1
        /\ b[c].type = "pest" => b[c].owner > 0
    BY DEF Settled
  <2>3. CASE sick[c] = shown[c]
    <3>1. sick[c].type = b[c].type /\ sick[c].owner = b[c].owner /\ sick[c].lifetime = b[c].lifetime
      BY <1>1, <2>3
    <3>2. CASE Occupied(sick[c]) /\ sick[c].lifetime = 0
      <4>1. after[c] = Cleared
        BY <1>4, <3>2
      <4>2. QED
        BY <1>5, <2>2, <3>1, <3>2, <4>1
    <3>3. CASE ~(Occupied(sick[c]) /\ sick[c].lifetime = 0) /\ sick[c].lifetime > 0
      <4>1. after[c] = [sick[c] EXCEPT !.lifetime = sick[c].lifetime - 1]
        BY <1>4, <3>3
      <4>2. after[c].type = b[c].type /\ after[c].owner = b[c].owner
        BY <2>1, <3>1, <4>1
      <4>3. QED
        BY <2>2, <3>1, <3>3, <4>2
    <3>4. CASE ~(Occupied(sick[c]) /\ sick[c].lifetime = 0) /\ ~(sick[c].lifetime > 0)
      BY <1>4, <2>2, <3>1, <3>4
    <3>5. QED
      BY <3>2, <3>3, <3>4
  <2>4. CASE /\ shown[c].type = "normal" /\ shown[c].owner > 0
             /\ sick[c] = Piece("pest", Other(shown[c].owner), shown[c].hidden)
             /\ \E x \in Neighbors(c) : /\ x \in Cells /\ shown[x].type = "pest"
                                        /\ shown[x].lifetime < 3
                                        /\ shown[x].owner # shown[c].owner
    <3>1. PICK x \in Neighbors(c) : /\ x \in Cells /\ shown[x].type = "pest"
                                    /\ shown[x].lifetime < 3
                                    /\ shown[x].owner # shown[c].owner
      BY <2>4
    <3>2. b[x].type = "pest" /\ b[x].lifetime < 3 /\ b[x].owner # b[c].owner
          /\ b[x].owner > 0 /\ b[c].owner > 0 /\ b[c].type = "normal"
      BY <1>1, <2>4, <3>1 DEF Settled
    <3>3. b[x].owner \in {1, 2} /\ b[c].owner \in {1, 2}
      BY <2>1, <3>1, <3>2 DEF Boards
    <3>4. b[x].owner = Other(b[c].owner)
      BY <3>2, <3>3 DEF Other
    <3>5. sick[c].type = "pest" /\ sick[c].owner = b[x].owner /\ sick[c].lifetime = 3
      BY <1>1, <2>4, <3>4 DEF Piece, Lifetime
    <3>6. after[c].type = "pest" /\ after[c].owner = b[x].owner
      <4>1. after[c] = [sick[c] EXCEPT !.lifetime = sick[c].lifetime - 1]
        BY <1>4, <3>5
      <4>2. QED
        BY <2>1, <3>5, <4>1
    <3>7. QED
      BY <3>1, <3>2, <3>6
  <2>5. QED
    BY <1>3, <2>3, <2>4
<1>7. QED
  BY <1>6 DEF Settled

LEMMA NewGameSettled ==
    ASSUME NEW f, f = NewGame.field
    PROVE  Settled(f)
BY DEF NewGame, Settled

\* How the board before a move and the board it leaves, not yet revealed, agree on a
\* cell that shows a normal piece or a flag, and where the pest comes from.
Kept(b, c) ==
    /\ b[c] = field[c]
    /\ \A x \in Cells : b[x].type = "pest" /\ b[x].lifetime < 3 =>
                            field[x].type = "pest" /\ field[x].owner = b[x].owner

Shows(c) == field[c].type \in {"normal", "flag"} /\ field[c].owner > 0 /\ ~field[c].hidden

LEMMA CollideBoard ==
    ASSUME TypeOK, Settled(field), NEW m \in Moves, MeetsHidden(m.cell),
           NEW b, b = [field EXCEPT ![m.cell] = [Dead EXCEPT !.hidden = TRUE]]
    PROVE  Settled(b) /\ \A c \in Cells : Shows(c) => Kept(b, c)
<1>1. \A c \in Cells : b[c] = IF c = m.cell THEN [Dead EXCEPT !.hidden = TRUE] ELSE field[c]
  BY MoveType DEF Boards
<1>2. [Dead EXCEPT !.hidden = TRUE].type = "dead"
  BY DEF Dead, Piece
<1>3. Settled(b)
  BY <1>1, <1>2 DEF Settled
<1>4. QED
  BY <1>1, <1>2, <1>3 DEF Kept, Shows, MeetsHidden

LEMMA KillBoard ==
    ASSUME TypeOK, Settled(field), NEW m \in Moves,
           NEW b, b = [field EXCEPT ![m.cell] = Piece("death", turn, FALSE)]
    PROVE  Settled(b)
<1>1. \A c \in Cells : b[c] = IF c = m.cell THEN Piece("death", turn, FALSE) ELSE field[c]
  BY MoveType DEF Boards
<1>2. Piece("death", turn, FALSE).type = "death"
  BY DEF Piece
<1>3. QED
  BY <1>1, <1>2 DEF Settled

LEMMA FireBoard ==
    ASSUME TypeOK, Settled(field), NEW m \in Moves
    PROVE  Settled(Burnt(m))
<1>1. \A c \in Cells : Burnt(m)[c] = IF c = m.cell THEN Piece("fire", turn, field[c].hidden)
                                     ELSE IF c \in Neighbors(m.cell) THEN Dead ELSE field[c]
  BY DEF Burnt
<1>2. Dead.type = "dead" /\ \A h : Piece("fire", turn, h).type = "fire"
  BY DEF Dead, Piece
<1>3. QED
  BY <1>1, <1>2 DEF Settled

\* A move on a free cell changes free cells only.
LEMMA OccupyBoard ==
    ASSUME TypeOK, Settled(field), NEW m \in Moves, ~Occupied(field[m.cell]),
           m.cellType # "fire"
    PROVE  Settled(Captured1(m)) /\ \A c \in Cells : Shows(c) => Kept(Captured1(m), c)
<1> DEFINE o == Occupator(Occupied1(m), Area1(m), turn, m.cellType)
<1>1. /\ m.cell \in Cells /\ turn \in Player /\ turn > 0 /\ o \in Player /\ o > 0
      /\ m.cellType \in {"normal"} \cup SpecialTypes /\ field \in Boards(2)
  BY MoveType, OccupatorType DEF Player, Moves
<1>2. \A c \in Cells : Occupied1(m)[c] = IF c = m.cell THEN Piece(m.cellType, turn, TRUE) ELSE field[c]
  BY <1>1 DEF Occupied1, Boards
<1>3. /\ Occupied1(m)[m.cell].type = m.cellType /\ Occupied1(m)[m.cell].owner = turn
      /\ m.cellType = "pest" => Occupied1(m)[m.cell].lifetime = 3
      /\ m.cellType \in {"normal", "flag"} => Occupied1(m)[m.cell].lifetime = -1
  BY <1>1, <1>2 DEF Piece, Lifetime
<1>4. Area1(m) \subseteq FreeIn(Occupied1(m))
  BY AreaIsFree DEF Area1
<1>5. \A c \in Area1(m) : c # m.cell /\ c \in Cells /\ ~Occupied(field[c])
  BY <1>1, <1>2, <1>3, <1>4 DEF FreeIn, Occupied
<1>6. \A c \in Cells :
         Captured1(m)[c] = IF c \in Area1(m) THEN [field[c] EXCEPT !.owner = o, !.lifetime = -1]
                           ELSE Occupied1(m)[c]
  BY <1>2, <1>5 DEF Captured1, Capture, Lifetime
<1>7. \A c \in Area1(m) : /\ Captured1(m)[c].type = "normal" /\ Captured1(m)[c].owner = o
                          /\ Captured1(m)[c].lifetime = -1
  <2> TAKE c \in Area1(m)
  <2>1. field[c] \in [type : Types, owner : 0..2, hidden : BOOLEAN, lifetime : -1..2]
    BY <1>1, <1>5 DEF Boards
  <2>2. field[c].type = "normal" /\ Captured1(m)[c] = [field[c] EXCEPT !.owner = o, !.lifetime = -1]
    BY <1>5, <1>6 DEF Occupied
  <2>3. QED
    BY <2>1, <2>2
<1>8. ASSUME NEW c \in Cells
      PROVE  /\ Captured1(m)[c].type \in {"normal", "flag"} /\ Captured1(m)[c].owner > 0 =>
                    Captured1(m)[c].lifetime = -1
             /\ Captured1(m)[c].type = "pest" => Captured1(m)[c].owner > 0
             /\ Captured1(m)[c].type = "pest" /\ Captured1(m)[c].lifetime < 3 =>
                    field[c].type = "pest" /\ field[c].owner = Captured1(m)[c].owner
             /\ Shows(c) => Captured1(m)[c] = field[c]
  <2>1. CASE c \in Area1(m)
    BY <1>5, <1>7, <2>1 DEF Shows, Occupied
  <2>2. CASE c = m.cell
    <3>1. Captured1(m)[c] = Occupied1(m)[m.cell] /\ ~Shows(c)
      BY <1>5, <1>6, <2>2 DEF Shows, Occupied
    <3>2. QED
      BY <1>1, <1>3, <2>2, <3>1
  <2>3. CASE c \notin Area1(m) /\ c # m.cell
    <3>1. Captured1(m)[c] = field[c]
      BY <1>2, <1>6, <2>3
    <3>2. QED
      BY <3>1 DEF Settled
  <2>4. QED
    BY <2>1, <2>2, <2>3
<1>9. QED
  BY <1>8 DEF Settled, Kept

\* The settled board of a move stays settled; what the board that the move leaves
\* still shows is lost to pest only.
LEMMA ConcludeSettled ==
    ASSUME NEW m, NEW b \in Boards(3), Settled(b), NEW mv, NEW reveal \in BOOLEAN,
           Conclude(m, b, mv, reveal), reveal \/ b \in Boards(2)
    PROVE  /\ Settled(field')
           /\ \A c \in Cells : Shows(c) /\ Kept(b, c) =>
                \/ field'[c].owner = field[c].owner
                \/ /\ field[c].type = "normal" /\ field'[c].type = "pest"
                   /\ \E x \in Neighbors(c) : field[x].type = "pest" /\ field[x].owner = field'[c].owner
<1>1. PICK after \in Boards(2) :
          /\ reveal \/ RevealIsDue(mv) => after = Aged(WithPest(Revealed(b)))
          /\ ~(reveal \/ RevealIsDue(mv)) => after = b
          /\ field' = IF Full(after) THEN Revealed(after) ELSE after
  BY ConcludeBoards
<1>2. \A c \in Cells : /\ field'[c].type = after[c].type
                       /\ field'[c].owner = after[c].owner
                       /\ field'[c].lifetime = after[c].lifetime
  <2>1. \A c \in Cells : /\ Revealed(after)[c].type = after[c].type
                         /\ Revealed(after)[c].owner = after[c].owner
                         /\ Revealed(after)[c].lifetime = after[c].lifetime
    BY RevealedBoard
  <2>2. QED
    BY <1>1, <2>1
<1>3. CASE after = b
  <2>1. Settled(field')
    BY <1>2, <1>3 DEF Settled
  <2>2. QED
    BY <1>2, <1>3, <2>1 DEF Kept
<1>4. CASE after = Aged(WithPest(Revealed(b)))
  <2>1. /\ Settled(after)
        /\ \A c \in Cells :
             b[c].type \in {"normal", "flag"} /\ b[c].owner > 0 =>
                 \/ after[c].owner = b[c].owner
                 \/ /\ b[c].type = "normal" /\ after[c].type = "pest"
                    /\ \E x \in Neighbors(c) : /\ x \in Cells /\ b[x].type = "pest"
                                               /\ b[x].lifetime < 3
                                               /\ b[x].owner = after[c].owner
    BY <1>4, RevealSettled
  <2>2. Settled(field')
    BY <1>2, <2>1 DEF Settled
  <2>3. ASSUME NEW c \in Cells, Shows(c), Kept(b, c), field'[c].owner # field[c].owner
        PROVE  /\ field[c].type = "normal" /\ field'[c].type = "pest"
               /\ \E x \in Neighbors(c) : field[x].type = "pest" /\ field[x].owner = field'[c].owner
    <3>1. b[c] = field[c]
      BY <2>3 DEF Kept
    <3>2. /\ b[c].type = "normal" /\ after[c].type = "pest"
          /\ \E x \in Neighbors(c) : /\ x \in Cells /\ b[x].type = "pest"
                                     /\ b[x].lifetime < 3 /\ b[x].owner = after[c].owner
      BY <1>2, <2>1, <2>3, <3>1 DEF Shows
    <3>3. PICK x \in Neighbors(c) : /\ x \in Cells /\ b[x].type = "pest"
                                    /\ b[x].lifetime < 3 /\ b[x].owner = after[c].owner
      BY <3>2
    <3>4. field[x].type = "pest" /\ field[x].owner = field'[c].owner
      BY <1>2, <2>3, <3>3 DEF Kept
    <3>5. QED
      BY <1>2, <3>1, <3>2, <3>4
  <2>4. QED
    BY <2>2, <2>3
<1>5. QED
  BY <1>1, <1>3, <1>4

LEMMA MoveSettled ==
    ASSUME TypeOK, LifeInv, NEW m \in Moves, MakeMove(m)
    PROVE  /\ LifeInv'
           /\ \/ \E t \in {"fire", "death"} : pieces'[turn][t] < pieces[turn][t]
              \/ \A c \in Cells : Shows(c) =>
                    \/ field'[c].owner = field[c].owner
                    \/ /\ field[c].type = "normal" /\ field'[c].type = "pest"
                       /\ \E x \in Neighbors(c) : /\ field[x].type = "pest"
                                                  /\ field[x].owner = field'[c].owner
<1>0. Settled(field) /\ m.cell \in Cells /\ move \in Nat /\ Accepts(m)
  BY MoveType, MoveEnds DEF LifeInv, TypeOK
<1>1. ASSUME m.cellType \in {"fire", "death"}, NEW b, NEW mv, NEW reveal, Conclude(m, b, mv, reveal)
      PROVE  \E t \in {"fire", "death"} : pieces'[turn][t] < pieces[turn][t]
  <2>1. pieces' = [pieces EXCEPT ![turn][m.cellType] = @ - 1]
    BY <1>1 DEF Conclude
  <2>2. /\ m.cellType \in SpecialTypes /\ turn \in Player
        /\ pieces[turn][m.cellType] \in Nat \ {0}
    BY <1>0, <1>1, PiecesLeft
  <2>3. pieces \in [Player -> [SpecialTypes -> Nat]]
    BY DEF TypeOK
  <2>4. pieces'[turn][m.cellType] = pieces[turn][m.cellType] - 1
    BY <2>1, <2>2, <2>3
  <2>5. pieces'[turn][m.cellType] < pieces[turn][m.cellType]
    BY <2>2, <2>4
  <2>6. QED
    BY <1>1, <2>5
<1>2. CASE Collide(m)
  <2> DEFINE b == [field EXCEPT ![m.cell] = [Dead EXCEPT !.hidden = TRUE]]
  <2>1. Conclude(m, b, move + 1, TRUE) /\ MeetsHidden(m.cell)
    BY <1>2 DEF Collide
  <2>2. b \in Boards(3)
    BY MoveBoards
  <2>3. Settled(b) /\ \A c \in Cells : Shows(c) => Kept(b, c)
    BY <1>0, <2>1, CollideBoard
  <2>4. move' # 0
    BY <1>0, <2>1 DEF Conclude
  <2> HIDE DEF b
  <2>5. QED
    BY <2>1, <2>2, <2>3, <2>4, ConcludeSettled DEF LifeInv
<1>3. CASE Kill(m)
  <2> DEFINE b == [field EXCEPT ![m.cell] = Piece("death", turn, FALSE)]
  <2>1. Conclude(m, b, move, TRUE) /\ Occupied(field[m.cell]) /\ m.cellType = "death"
    BY <1>3 DEF Kill, Accepts
  <2>2. b \in Boards(3)
    BY MoveBoards
  <2>3. Settled(b)
    BY <1>0, KillBoard
  <2>4. move' # 0
    BY <1>0, <2>1 DEF Conclude, LifeInv
  <2> HIDE DEF b
  <2>5. Settled(field')
    BY <2>1, <2>2, <2>3, ConcludeSettled
  <2>6. QED
    BY <1>1, <2>1, <2>4, <2>5 DEF LifeInv
<1>4. CASE Fire(m)
  <2>1. Conclude(m, Burnt(m), move + 1, TRUE) /\ m.cellType = "fire"
    BY <1>4 DEF Fire, Burnt
  <2>2. Burnt(m) \in Boards(3) /\ Settled(Burnt(m))
    BY <1>0, MoveBoards, FireBoard
  <2>3. move' # 0
    BY <1>0, <2>1 DEF Conclude
  <2>4. Settled(field')
    BY <2>1, <2>2, ConcludeSettled
  <2>5. QED
    BY <1>1, <2>1, <2>3, <2>4 DEF LifeInv
<1>5. CASE Occupy(m)
  <2> DEFINE reveal == Area1(m) # {} \/ m.cellType \in {"pest", "death"}
  <2>1. /\ Conclude(m, Captured1(m), move + 1, reveal)
        /\ ~Occupied(field[m.cell]) /\ m.cellType # "fire"
    BY <1>5 DEF Occupy, Occupied1, Area1, Captured1
  <2>2. Captured1(m) \in Boards(3) /\ (reveal \/ Captured1(m) \in Boards(2)) /\ reveal \in BOOLEAN
    BY MoveBoards
  <2>3. Settled(Captured1(m)) /\ \A c \in Cells : Shows(c) => Kept(Captured1(m), c)
    BY <1>0, <2>1, OccupyBoard
  <2>4. move' # 0
    BY <1>0, <2>1 DEF Conclude
  <2> HIDE DEF reveal
  <2>5. QED
    BY <2>1, <2>2, <2>3, <2>4, ConcludeSettled DEF LifeInv
<1>6. QED
  BY <1>2, <1>3, <1>4, <1>5 DEF MakeMove

LEMMA LifeInvariant == Spec => [](TypeOK /\ LifeInv)
<1>1. Init => TypeOK /\ LifeInv
  <2>1. Init => TypeOK
    BY InitialType DEF Init, TypeOK, Player, Boards
  <2>2. Init => LifeInv
    BY NewGameHid, NewGameSettled DEF Init, LifeInv
  <2>3. QED
    BY <2>1, <2>2
<1>2. TypeOK /\ LifeInv /\ [Next]_vars => (TypeOK /\ LifeInv)'
  <2> SUFFICES ASSUME TypeOK, LifeInv, [Next]_vars PROVE LifeInv'
    BY TypeStep
  <2>1. ASSUME NEW m \in Moves, MakeMove(m) PROVE LifeInv'
    BY <2>1, MoveSettled
  <2>2. CASE Reset
    <3>1. field' = NewGame.field
      BY <2>2 DEF Reset
    <3>2. Settled(field') /\ \A c \in Cells : ~Occupied(field'[c])
      BY <3>1, NewGameSettled, NewGameHid
    <3>3. QED
      BY <3>2 DEF LifeInv
  <2>3. CASE UNCHANGED vars
    BY <2>3 DEF vars, LifeInv
  <2>4. QED
    BY <2>1, <2>2, <2>3 DEF Next
<1>3. QED
  BY <1>1, <1>2, PTL DEF Spec

\* A visible normal cell or flag is only lost to fire, death or pest, and a flag not to
\* pest (classic.go:308-321); starting a new game takes nothing from an untouched board.
THEOREM PiecesOnlyFall == Spec => PiecesStay
<1>1. TypeOK /\ LifeInv /\ [Next]_vars =>
        [move' >= move =>
          \A c \in Cells :
            (/\ field[c].type \in {"normal", "flag"} /\ field[c].owner > 0 /\ ~field[c].hidden
             /\ field'[c].owner # field[c].owner)
            => \/ \E t \in {"fire", "death"} : pieces'[turn][t] < pieces[turn][t]
               \/ /\ field[c].type = "normal" /\ field'[c].type = "pest"
                  /\ \E x \in Neighbors(c) : field[x].type = "pest" /\ field[x].owner = field'[c].owner
        ]_vars
  <2> SUFFICES ASSUME TypeOK, LifeInv, [Next]_vars, move' >= move,
                      NEW c \in Cells, Shows(c), field'[c].owner # field[c].owner
               PROVE  \/ \E t \in {"fire", "death"} : pieces'[turn][t] < pieces[turn][t]
                      \/ /\ field[c].type = "normal" /\ field'[c].type = "pest"
                         /\ \E x \in Neighbors(c) : /\ field[x].type = "pest"
                                                    /\ field[x].owner = field'[c].owner
    BY DEF Shows
  <2>1. ASSUME NEW m \in Moves, MakeMove(m)
        PROVE  \/ \E t \in {"fire", "death"} : pieces'[turn][t] < pieces[turn][t]
               \/ /\ field[c].type = "normal" /\ field'[c].type = "pest"
                  /\ \E x \in Neighbors(c) : field[x].type = "pest" /\ field[x].owner = field'[c].owner
    BY <2>1, MoveSettled
  <2>2. CASE Reset
    <3>1. move = 0
      BY <2>2 DEF Reset, TypeOK
    <3>2. ~Occupied(field[c])
      BY <3>1 DEF LifeInv
    <3>3. QED
      BY <3>2 DEF Shows, Occupied
  <2>3. CASE UNCHANGED vars
    BY <2>3 DEF vars
  <2>4. QED
    BY <2>1, <2>2, <2>3 DEF Next
<1>2. QED
  BY <1>1, LifeInvariant, PTL DEF Spec, PiecesStay

=============================================================================
