-------------------------------- MODULE Sums --------------------------------
(***************************************************************************)
(* The sums of sequences of numbers, to state totals, lengths and offsets  *)
(* with.                                                                   *)
(***************************************************************************)
EXTENDS Integers, Sequences

\* The sums of the first 0, 1, ..., Len(s) elements of s.
Running(s) ==
  LET sum[k \in 0..Len(s)] == IF k = 0 THEN 0 ELSE sum[k - 1] + s[k]
  IN  sum

Total(s) == Running(s)[Len(s)]
=============================================================================
