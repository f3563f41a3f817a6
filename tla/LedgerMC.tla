------------------------------ MODULE LedgerMC ------------------------------
(***************************************************************************)
(* Small instances of Ledger.  The names of transactions and of accounts   *)
(* are interchangeable.                                                    *)
(***************************************************************************)
EXTENDS Ledger, TLC

SomeOpenings == {-1, 0}

Symmetry == Permutations(Ids) \union Permutations(Accounts)

Used == {id \in Ids : ~Free(id)}
Originals == {id \in Used : tx[id].reverses = NoId}
Underway == {c \in Clients : request[c] # Idle}

\* The part of the state space that is explored: a third transaction only
\* for the refunds and reversals of one original, two originals only until one of
\* them has been changed twice, a second request under way only while there
\* is a single transaction for both to be about.
Focus ==
  /\ Cardinality(Used) > 2 => Cardinality(Originals) = 1
  /\ Cardinality(Originals) > 1 => \A id \in Originals : tx[id].version <= 2
  /\ Cardinality(Underway) > 1 => Cardinality(Used) = 1
=============================================================================
