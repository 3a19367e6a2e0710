---------------------------- MODULE MCCpuPlayer -----------------------------
(* A small game for CpuPlayer: three cells, the computer is player 2 and has  *)
(* a flag, which doubles the value of a cell.  A human who takes cell 1 has   *)
(* no other move.                                                             *)
EXTENDS CpuPlayer, TLC

Cells == 1..3
Moves == [cell : Cells, flag : BOOLEAN]

Taken(n) == {n[k].cell : k \in DOMAIN n}
MCOver(n) == Taken(n) = Cells
MCTurn(n) == IF n = <<>> \/ (Len(n) = 2 /\ n[1].cell # 1) THEN 1 ELSE 2
MCNormal(n) == {[cell |-> c, flag |-> FALSE] : c \in Cells \ Taken(n)}
MCFlags(n) ==
    IF MCTurn(n) = 2 /\ \A k \in DOMAIN n : ~n[k].flag
    THEN {[cell |-> c, flag |-> TRUE] : c \in Cells \ Taken(n)}
    ELSE {}
Points(n, p) ==
    MapThenSumSet(LAMBDA k : IF n[k].flag THEN 2 * n[k].cell ELSE n[k].cell,
                  {k \in DOMAIN n : MCTurn(SubSeq(n, 1, k - 1)) = p})
MCWinner(n) ==
    IF Points(n, 1) > Points(n, 2) THEN 1
    ELSE IF Points(n, 1) < Points(n, 2) THEN 2 ELSE 0

\* Every game that starts with the moves of n.
Continued(n) == {Append(n, m) : m \in MCNormal(n) \cup MCFlags(n)}
EndsAfter3(n) == IF MCOver(n) THEN {n} ELSE Continued(n)
EndsAfter2(n) == IF MCOver(n) THEN {n} ELSE UNION {EndsAfter3(c) : c \in Continued(n)}
EndsAfter1(n) == IF MCOver(n) THEN {n} ELSE UNION {EndsAfter2(c) : c \in Continued(n)}
MCOutcomes(n) == {MCWinner(g) : g \in EndsAfter1(n)}

\* What the proofs take from a game holds of this one: no move adds an outcome, and
\* the winner of a game that is over is one.
ASSUME GameFits ==
    \A l \in 0..3 : \A n \in [1..l -> Moves] :
        IF MCOver(n) THEN MCWinner(n) \in MCOutcomes(n)
        ELSE \A c \in Continued(n) : MCOutcomes(c) \subseteq MCOutcomes(n)

MCBounds(d) == <<1, 6>>
OneSuggestion ==
    {[explored |-> e, values |-> [d \in Distributions |-> 2]] : e \in BOOLEAN}

=============================================================================
