------------------------------ MODULE MCFlagz ------------------------------
(* A small board for Flagz: rows of 5 and 4 cells.                          *)
EXTENDS Flagz, TLC

\* Grass that is only collected by collected grass.
Tail == [rocks |-> {<<1, 3>>}, grass |-> <<0, 3>> :> 2 @@ <<0, 4>> :> 1]
\* Grass worth less than the cell that reaches it.
Low == [rocks |-> {<<0, 4>>, <<1, 3>>}, grass |-> <<0, 3>> :> 1]
\* Two free areas, one of which is a single cell.
Split == [rocks |-> {<<0, 1>>, <<1, 0>>}, grass |-> <<1, 1>> :> 1 @@ <<1, 3>> :> 2]

TheLayouts == {Tail, Low, Split}
=============================================================================
