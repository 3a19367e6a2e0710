------------------------------ MODULE MCLogins ------------------------------
(* A small instance of Logins for TLC.                                       *)
EXTENDS Logins, TLC

\* Ids and browsers are interchangeable.
Symmetry == Permutations(Ids) \cup Permutations(Browsers)

=============================================================================
