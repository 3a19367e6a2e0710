------------------------------ MODULE Classic ------------------------------
(***************************************************************************)
(* The engine of the Classic game (classic.go).  Moves are hidden from the *)
(* opponent until the board is revealed: after four moves, or at once when *)
(* an area is captured, two hidden moves meet, or a fire, pest or death    *)
(* piece is played.  Revealing also lets pest spread and old special cells *)
(* disappear.                                                              *)
(*                                                                         *)
(* MakeMove does not ask whether the game is over; the game master does,   *)
(* before it calls it (server.go:479).                                     *)
(***************************************************************************)
EXTENDS HexBoard, FiniteSets

CONSTANTS
    InitialPieces,  \* number of pieces of each special type (InitialResources)
    MaxMove         \* bound on the move number, for TLC

SpecialTypes == {"fire", "flag", "pest", "death"}

ASSUME ClassicAssumption ==
    InitialPieces \in [SpecialTypes -> Nat] /\ MaxMove \in Nat

VARIABLES
    field,          \* type, owner, hidden, lifetime of each cell
    turn, move, lastRevealed, score, state,
    pieces          \* Resources[p].NumPieces of the special types

vars == <<field, turn, move, lastRevealed, score, state, pieces>>

Player == {1, 2}
Other(p) == 3 - p

\* Moves after which a piece disappears with the next reveal; -1: never.
Lifetime(t) ==
    IF t \in {"fire", "dead", "death"} THEN 1 ELSE IF t = "pest" THEN 3 ELSE -1

Piece(t, p, hid) == [type |-> t, owner |-> p, hidden |-> hid, lifetime |-> Lifetime(t)]
Dead == Piece("dead", 0, FALSE)
Cleared == Piece("normal", 0, FALSE)

\* A board is a function from cells to fields.
Occupied(f) == f.type # "normal" \/ f.owner > 0
FreeIn(b) == {c \in Cells : ~Occupied(b[c])}

NewGame ==
    [field |-> [c \in Cells |-> [type |-> "normal", owner |-> 0, hidden |-> FALSE, lifetime |-> 0]],
     pieces |-> [p \in Player |-> InitialPieces]]

Init ==
    /\ field = NewGame.field /\ pieces = NewGame.pieces
    /\ turn = 1 /\ move = 0 /\ lastRevealed = 0
    /\ score = [p \in Player |-> 0] /\ state = "Running"

Reset ==
    /\ field' = NewGame.field /\ pieces' = NewGame.pieces
    /\ turn' = 1 /\ move' = 0 /\ lastRevealed' = 0
    /\ score' = [p \in Player |-> 0] /\ state' = "Running"

-----------------------------------------------------------------------------
(* Capturing areas: occupyFields and floodFill.                              *)

\* The free cells connected to free cell x.
AreaOfNeighbors(free, x) == {x} \cup (Neighbors(x) \cap free)   \* mutant: does not spread
Area(free, x) ==
    LET Grown[n \in Nat] ==
            IF n = 0 THEN {x}
            ELSE LET s == Grown[n-1] IN s \cup {c \in free : Neighbors(c) \cap s # {}}
    IN  free \cap Grown[Cardinality(free)]

Boundary(b, a) == {c \in Cells : Occupied(b[c]) /\ Neighbors(c) \cap a # {}}

\* The areas next to cell x, by the direction in which they are found first,
\* without those that border on a dead cell.
Direction(x) ==
    LET shift == x[1] % 2 IN
    <<<<x[1], x[2]+1>>, <<x[1]-1, x[2]+shift>>, <<x[1]-1, x[2]-1+shift>>,
      <<x[1], x[2]-1>>, <<x[1]+1, x[2]-1+shift>>, <<x[1]+1, x[2]+shift>>>>

AreasAt(b, x) ==
    LET free == FreeIn(b)
        areas == {[dir |-> k, cells |-> Area(free, Direction(x)[k])] :
                    k \in {j \in 1..6 : Direction(x)[j] \in free}}
    IN  {a \in areas : \A c \in Boundary(b, a.cells) : b[c].type # "dead"}

Smaller(a, o) ==
    LET size(e) == Cardinality(e.cells) IN
    size(a) < size(o) \/ (size(a) = size(o) /\ a.dir <= o.dir)

\* The smallest of the areas that a move on cell x separates.
LargestArea(b, x) ==            \* mutant: takes the largest
    LET areas == AreasAt(b, x) IN
    IF \A a, o \in areas : a.cells = o.cells THEN {}
    ELSE (CHOOSE a \in areas : \A o \in areas : Cardinality(a.cells) >= Cardinality(o.cells)).cells
CapturedArea(b, x) ==
    LET areas == AreasAt(b, x) IN
    IF \A a, o \in areas : a.cells = o.cells THEN {}
    ELSE (CHOOSE a \in areas : \A o \in areas : Smaller(a, o)).cells

\* Who gets area a when player p moves: the player with more flags around it. A
\* flag just set is counted in all directions, next to being on the boundary.
FlagsAround(b, a, p) == Cardinality({c \in Boundary(b, a) : b[c].type = "flag" /\ b[c].owner = p})
Occupator(b, a, p, t) ==
    IF FlagsAround(b, a, Other(p)) > FlagsAround(b, a, p) + (IF t = "flag" THEN 1 ELSE 0)
    THEN Other(p) ELSE p

Capture(b, a, p) ==
    [c \in Cells |-> IF c \in a THEN [b[c] EXCEPT !.owner = p, !.lifetime = Lifetime("normal")]
                     ELSE b[c]]

-----------------------------------------------------------------------------
(* What revealing the board does.                                            *)

Revealed(b) == [c \in Cells |-> [b[c] EXCEPT !.hidden = FALSE]]

\* Pest infects the opponent's normal cells next to it, not in its first round.
Susceptible(f) == f.owner > 0           \* mutant: flags are infected, too
Infectable(f) == f.type = "normal" /\ f.owner > 0

WithPest(b) ==
    LET sick == {x \in Cells : b[x].type = "pest" /\ b[x].lifetime < Lifetime("pest")} IN
    [c \in Cells |->
        IF Infectable(b[c]) /\ \E x \in sick \cap Neighbors(c) : b[x].owner # b[c].owner
        THEN Piece("pest", Other(b[c].owner), b[c].hidden) ELSE b[c]]

\* Old special cells are cleared.
Aged(b) ==
    [c \in Cells |-> IF Occupied(b[c]) /\ b[c].lifetime = 0 THEN Cleared
                     ELSE IF b[c].lifetime > 0 THEN [b[c] EXCEPT !.lifetime = @ - 1]
                     ELSE b[c]]

-----------------------------------------------------------------------------
(* MakeMove.                                                                 *)

\* The opponent has a hidden move there.
MeetsHidden(c) == field[c].hidden /\ field[c].owner = Other(turn)

AcceptsUncounted(m) ==          \* mutant: does not count the pieces left
    /\ m.playerNum = turn /\ m.move = move /\ m.cell \in Cells
    /\ ~Occupied(field[m.cell]) \/ MeetsHidden(m.cell) \/ m.cellType = "death"
AcceptsOnFree(m) ==             \* mutant: refuses a move that meets a hidden one
    /\ m.playerNum = turn /\ m.move = move /\ m.cell \in Cells
    /\ m.cellType # "normal" => pieces[turn][m.cellType] # 0
    /\ ~Occupied(field[m.cell]) \/ m.cellType = "death"
\* The moves MakeMove does not refuse.
Accepts(m) ==
    /\ m.playerNum = turn /\ m.move = move /\ m.cell \in Cells
    /\ m.cellType # "normal" => pieces[turn][m.cellType] # 0
    /\ ~Occupied(field[m.cell]) \/ MeetsHidden(m.cell) \/ m.cellType = "death"

RevealIsDueLate(mv) == mv - lastRevealed > 4    \* mutant: one move late
RevealIsDue(mv) == mv - lastRevealed = 4

ScoreOf(b) == [p \in Player |-> Cardinality({c \in Cells : b[c].owner = p /\ ~b[c].hidden})]

FullWhenSeen(b) == \A c \in Cells : Occupied(b[c]) /\ ~b[c].hidden   \* mutant: and nothing hidden
Full(b) == FreeIn(b) = {}

\* What is left to do once the move has left board b and move number mv:
\* the score is that of the board before the end of the game reveals it.
Conclude(m, b, mv, reveal) ==
    LET now == reveal \/ RevealIsDue(mv) IN
    \E shown \in {Revealed(b)} : \E sick \in {WithPest(shown)} :
    \E after \in {IF now THEN Aged(sick) ELSE b} :
    /\ pieces' = IF m.cellType = "normal" THEN pieces
                 ELSE [pieces EXCEPT ![turn][m.cellType] = @ - 1]
    /\ turn' = Other(turn) /\ move' = mv
    /\ lastRevealed' = IF now THEN mv ELSE lastRevealed
    /\ score' = ScoreOf(after)
    /\ field' = IF Full(after) THEN Revealed(after) ELSE after
    /\ state' = IF Full(after) THEN "Finished" ELSE state

\* Conflicting hidden moves lead to a dead cell.
Collide(m) ==
    /\ Accepts(m) /\ MeetsHidden(m.cell)
    /\ Conclude(m, [field EXCEPT ![m.cell] = [Dead EXCEPT !.hidden = TRUE]], move + 1, TRUE)

\* Death kills whatever was there; the move number stays.
Kill(m) ==
    /\ Accepts(m) /\ Occupied(field[m.cell]) /\ ~MeetsHidden(m.cell)
    /\ Conclude(m, [field EXCEPT ![m.cell] = Piece("death", turn, FALSE)], move, TRUE)

Fire(m) ==
    /\ Accepts(m) /\ ~Occupied(field[m.cell]) /\ m.cellType = "fire"
    /\ \E b \in {[c \in Cells |-> IF c = m.cell THEN Piece("fire", turn, field[c].hidden)
                                  ELSE IF c \in Neighbors(m.cell) THEN Dead
                                  ELSE field[c]]} :
       Conclude(m, b, move + 1, TRUE)

Occupy(m) ==
    /\ Accepts(m) /\ ~Occupied(field[m.cell]) /\ m.cellType # "fire"
    /\ \E b \in {[field EXCEPT ![m.cell] = Piece(m.cellType, turn, TRUE)]} :
       \E area \in {CapturedArea(b, m.cell)} :
       \E after \in {Capture(b, area, Occupator(b, area, turn, m.cellType))} :
       Conclude(m, after, move + 1, area # {} \/ m.cellType \in {"pest", "death"})

MakeMove(m) == Collide(m) \/ Kill(m) \/ Fire(m) \/ Occupy(m)

Moves == [playerNum : {turn}, move : {move}, cell : Cells, cellType : {"normal"} \cup SpecialTypes]

Next ==
    \/ move < MaxMove /\ \E m \in Moves : MakeMove(m)
    \/ Reset

Spec == Init /\ [][Next]_vars

-----------------------------------------------------------------------------
\* Winner, scoreBasedSingleWinner: 0 if there is none.
Winner ==
    IF state # "Finished" \/ score[1] = score[2] THEN 0
    ELSE IF score[1] > score[2] THEN 1 ELSE 2

\* ViewFor: the board as player p sees it.
View(p) ==
    [c \in Cells |-> IF field[c].owner # p /\ field[c].hidden THEN NewGame.field[c] ELSE field[c]]

-----------------------------------------------------------------------------
Types == {"normal", "dead"} \cup SpecialTypes
Hidden == {c \in Cells : field[c].hidden}

TypeOK ==
    /\ field \in [Cells -> [type : Types, owner : 0..2, hidden : BOOLEAN, lifetime : -1..2]]
    /\ turn \in Player /\ move \in Nat /\ lastRevealed \in 0..move
    /\ score \in [Player -> Nat] /\ state \in {"Running", "Finished"}
    /\ pieces \in [Player -> [SpecialTypes -> Nat]]

\* The moves since the last reveal are the hidden ones: at most three, at most
\* two of a player, and no special piece but a flag among them, in spite of the
\* moves that do not count (classic.go:271) and the reveals of every other kind.
HiddenSinceReveal ==
    state = "Running" =>
        /\ Cardinality(Hidden) = move - lastRevealed /\ move - lastRevealed <= 3
        /\ \A p \in Player : Cardinality({c \in Hidden : field[c].owner = p}) <= 2
        /\ \A c \in Hidden : field[c].owner > 0 /\ field[c].type \in {"normal", "flag"}

\* While the game is running the player on turn can move, and a cell that looks
\* free to that player is never refused (classic.go:258-299, engine.go:64-98).
LooksFreeIsPlayable ==
    state = "Running" =>
        /\ FreeIn(field) # {}
        /\ \A c \in FreeIn(View(turn)) :
              Accepts([playerNum |-> turn, move |-> move, cell |-> c, cellType |-> "normal"])

\* A visible normal cell or flag is only lost to fire, death or pest, and a flag
\* not to pest; however long the game, nothing else expires (classic.go:308-321).
PiecesStay ==
    [][move' >= move =>
        \A c \in Cells :
            (/\ field[c].type \in {"normal", "flag"} /\ field[c].owner > 0 /\ ~field[c].hidden
             /\ field'[c].owner # field[c].owner)
            => \/ \E t \in {"fire", "death"} : pieces'[turn][t] < pieces[turn][t]
               \/ /\ field[c].type = "normal" /\ field'[c].type = "pest"
                  /\ \E x \in Neighbors(c) : field[x].type = "pest" /\ field[x].owner = field'[c].owner
      ]_vars

\* An area is captured as a whole, and never more than what stays free of the
\* area that was split (classic.go:105-196).
AreasAreCapturedWhole ==
    [][LET new == {c \in FreeIn(field) : Occupied(field'[c]) /\ field'[c].type \in {"normal", "pest"}}
           left == FreeIn(field) \cap FreeIn(field')
       IN  Cardinality(new) > 1 =>
              /\ Cardinality(new) - 1 <= Cardinality(left)
              /\ \E c \in new : \A x \in new \ {c}, y \in left : y \notin Neighbors(x)
      ]_vars

\* The score the game ends with counts every cell a player owns; the game is not
\* finished "until all cells are owned and not hidden, or dead" (classic.go:70).
FinalScoreCountsBoard ==
    state = "Finished" =>
        \A p \in Player : score[p] = Cardinality({c \in Cells : field[c].owner = p})
=============================================================================
