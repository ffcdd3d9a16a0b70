-------------------------------- MODULE Sums ---------------------------------
(***************************************************************************)
(* The loop of every cost function over the outcomes of an action.         *)
(***************************************************************************)
EXTENDS Integers, Sequences

\* It adds their terms up.
SumOf(t) ==
  LET sum[i \in 0 .. Len(t)] == IF i = 0 THEN 0 ELSE sum[i - 1] + t[i]
  IN  sum[Len(t)]
=============================================================================
