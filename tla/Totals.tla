-------------------------------- MODULE Totals --------------------------------
(***************************************************************************)
(* What a loop that adds up numbers has added after each of them: the      *)
(* sizes of operands and instructions in the code generators, the degrees  *)
(* of the vertices and the ranks of their neighbors in pagerank.           *)
(***************************************************************************)
EXTENDS Integers, Sequences

Accumulated(s) ==
  LET sum[n \in 0 .. Len(s)] == IF n = 0 THEN 0 ELSE sum[n - 1] + s[n] IN sum

Total(s) == Accumulated(s)[Len(s)]
=============================================================================
