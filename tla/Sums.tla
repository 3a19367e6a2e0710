-------------------------------- MODULE Sums --------------------------------
(***************************************************************************)
(* The sum of natural numbers, without recursion: a sum counts the pairs   *)
(* of an argument of a function and a number up to its value there.        *)
(***************************************************************************)
EXTENDS Integers, FiniteSets

Pairs(f) == UNION {{x} \X (1..f[x]) : x \in DOMAIN f}
SumOf(f) == Cardinality(Pairs(f))

=============================================================================
