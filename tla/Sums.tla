-------------------------------- MODULE Sums --------------------------------
(***************************************************************************)
(* Totals of a table column.  The rows of a table are numbered 1..n and a  *)
(* column is a function on 1..n.  The sum is a recursive function rather   *)
(* than a community fold so that the proofs in BudgetProofs unfold it.     *)
(***************************************************************************)
EXTENDS Integers

(* The partial sums of column f over the rows 1..n. *)
Partial(f, n) ==
  LET sum[i \in 0..n] == IF i = 0 THEN 0 ELSE sum[i-1] + f[i]
  IN  sum

(* SUM(f) over the rows 1..n. *)
SumTo(f, n) == Partial(f, n)[n]
=============================================================================
