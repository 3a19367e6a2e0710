------------------------------ MODULE HexBoard ------------------------------
(***************************************************************************)
(* The hexagonal board all hexz engines play on: rows of cells in which    *)
(* every other row is shifted by half a cell and one cell shorter.         *)
(***************************************************************************)
EXTENDS Integers

CONSTANTS
    NumBoardRows,       \* numBoardRows
    NumFieldsFirstRow   \* numFieldsFirstRow

ASSUME BoardAssumption ==
    NumBoardRows \in Nat \ {0} /\ NumFieldsFirstRow \in Nat \ {0, 1}

RowLen(r) == NumFieldsFirstRow - (r % 2)

\* The cells of makeFields: those that valid accepts.
Cells == {x \in (0..NumBoardRows-1) \X (0..NumFieldsFirstRow-1) : x[2] < RowLen(x[1])}

\* The cells around x; the rows above and below are shifted.
Neighbors(x) ==
    LET shift == x[1] % 2 IN
    {<<x[1], x[2]+1>>, <<x[1]-1, x[2]+shift>>, <<x[1]-1, x[2]-1+shift>>,
     <<x[1], x[2]-1>>, <<x[1]+1, x[2]-1+shift>>, <<x[1]+1, x[2]+shift>>} \cap Cells

\* Cells in the order the engines visit them.
Before(x, y) == x[1] < y[1] \/ (x[1] = y[1] /\ x[2] < y[2])
=============================================================================
