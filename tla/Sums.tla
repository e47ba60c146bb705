-------------------------------- MODULE Sums --------------------------------
(***************************************************************************)
(* The sums that loops are said to compute, for the references that the    *)
(* modules compare their loops with.                                       *)
(***************************************************************************)
EXTENDS Integers

(* g[0] + ... + g[n - 1]                                                   *)
SumBelow(g, n) ==
    LET sum[k \in Nat] == IF k = 0 THEN 0 ELSE sum[k - 1] + g[k - 1]
    IN  sum[n]
==============================================================================
