------------------------------- MODULE Totals -------------------------------
(***************************************************************************)
(* The sum of the values of a function over a finite set: what sum() is    *)
(* over rows in the statements of the ledger and of planning.              *)
(***************************************************************************)
EXTENDS Integers, FiniteSets, FiniteSetsExt

Total(f) == MapThenSumSet(LAMBDA x : f[x], DOMAIN f)
=============================================================================
