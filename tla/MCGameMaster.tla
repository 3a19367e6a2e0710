---------------------------- MODULE MCGameMaster ----------------------------
(* Small instances of GameMaster for TLC.                                    *)
EXTENDS GameMaster, TLC

CONSTANTS ann, bob, eve, a1, a2, b1, e1

\* A player with two connections (two tabs, or a reload), an opponent and a guest.
TabsAndGuest == a1 :> ann @@ a2 :> ann @@ b1 :> bob @@ e1 :> eve
\* One connection of the only player.
AnnAlone == a1 :> ann
\* A player with two connections, and an opponent.
TwoTabs == a1 :> ann @@ a2 :> ann @@ b1 :> bob
\* One connection each for two players.
JustTwo == a1 :> ann @@ b1 :> bob

=============================================================================
