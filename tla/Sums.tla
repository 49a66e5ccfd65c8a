-------------------------------- MODULE Sums --------------------------------
(***************************************************************************)
(* The sum of a sequence of numbers, as a function over its prefixes.      *)
(***************************************************************************)
EXTENDS Integers, Sequences

Sum(s) ==
  LET upto[i \in 0..Len(s)] == IF i = 0 THEN 0 ELSE upto[i - 1] + s[i]
  IN upto[Len(s)]
=============================================================================
