-------------------------------- MODULE Sums --------------------------------
(* The sum of a list of numbers, for the properties that count money.        *)
EXTENDS Integers, Sequences

Total(list) ==
  LET sum[i \in 0..Len(list)] == IF i = 0 THEN 0 ELSE sum[i - 1] + list[i]
  IN  sum[Len(list)]
=============================================================================
