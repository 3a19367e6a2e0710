----------------------------- MODULE MCClassic -----------------------------
(* A small board for Classic.                                               *)
EXTENDS Classic, TLC

OneEach == [t \in SpecialTypes |-> 1]
=============================================================================
