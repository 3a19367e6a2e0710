---------------------------- MODULE GameSession -----------------------------
(***************************************************************************)
(* What a game of the hexz server promises the players, without channels,  *)
(* connections or timers: a player who takes one of the seats keeps it,    *)
(* seats are given in the order of arrival, and the game only ends after a *)
(* seated player has been away for too long.                               *)
(***************************************************************************)
EXTENDS Integers

CONSTANTS Players, Capacity

VARIABLES
    seat,       \* the number of each seated player, 0 for everybody else
    absent,     \* seated players who have once stayed away for too long
    over        \* the game has ended

vars == <<seat, absent, over>>

Seated == {p \in Players : seat[p] > 0}

Init == seat = [p \in Players |-> 0] /\ absent = {} /\ over = FALSE

\* The numbers 1..n-1 are taken: a new player gets n.
Join(p) ==
    /\ ~over /\ seat[p] = 0
    /\ \E n \in 1..Capacity :
          /\ {seat[q] : q \in Seated} = 1..(n - 1)
          /\ seat' = [seat EXCEPT ![p] = n]
    /\ UNCHANGED <<absent, over>>

StayAway(p) ==
    /\ seat[p] > 0
    /\ absent' = absent \cup {p}
    /\ UNCHANGED <<seat, over>>

End ==
    /\ ~over /\ absent # {}
    /\ over' = TRUE
    /\ UNCHANGED <<seat, absent>>

Next == End \/ \E p \in Players : Join(p) \/ StayAway(p)

Spec == Init /\ [][Next]_vars
=============================================================================
