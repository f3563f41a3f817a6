----------------------------- MODULE PlanningMC -----------------------------
(***************************************************************************)
(* Small instances of Planning.                                            *)
(***************************************************************************)
EXTENDS Planning, TLC

Symmetry == Permutations(Transactions)

Used == {p \in Payments : payment[p].status # "none"}
Extras ==
  (IF late # {} THEN 1 ELSE 0)
    + (IF \E o \in Obligations : obligation[o] # "active" THEN 1 ELSE 0)
    + (IF \E m \in DOMAIN match : match[m] # "none" THEN 1 ELSE 0)

\* The more payments there are, the less happens besides: the clock, the
\* status of the obligation and matches together with one payment, one of
\* them with two, none with three.
Focus == Extras <= 3 - Cardinality(Used) \/ Cardinality(Used) <= 1
=============================================================================
