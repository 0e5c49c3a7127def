-------------------------------- MODULE Sums --------------------------------
(***************************************************************************)
(* The running sum the ledger's boot recomputation takes over the request  *)
(* rows (ledger.py recompute_totals: one accumulator per scope and basis,  *)
(* every row added to it in turn).                                         *)
(***************************************************************************)
EXTENDS Integers

(* f[1] + ... + f[n].  A recursive function, not a RECURSIVE operator: the  *)
(* proofs reach it.                                                        *)
SumTo(f, n) ==
  LET acc[i \in 0..n] == IF i = 0 THEN 0 ELSE acc[i - 1] + f[i]
  IN  acc[n]
=============================================================================
