----------------------------- MODULE TrackingMC -----------------------------
(***************************************************************************)
(* Instances of Tracking for TLC.                                          *)
(***************************************************************************)
EXTENDS Tracking, FiniteSetsExt, TLC

AllSimilar == Items \X Manual

Symmetry ==
  Permutations(Sessions) \union Permutations(Items) \union Permutations(Sources) \union Permutations(Clients)

\* What makes a behaviour long: attempts of workers, requests of the owner,
\* similar transactions, and what is cancelled, deleted or switched off.
Burden ==
  MapThenSumSet(LAMBDA s : session[s].attempts, Sessions)
    + Cardinality({c \in Clients : client[c].at # "new"})
    + Cardinality({k \in Manual : tx[k].status # "none"})
    + Cardinality({k \in Keys : tx[k].status = "deleted"})
    + Cardinality({s \in Sessions : session[s].status = "cancelled"})
    + (IF enabled THEN 0 ELSE 1)

\* Items that have neither session nor source in common do not meet, nor do
\* requests about different items.
Focus ==
  /\ \A i, j \in Items : SessionOf(i) = SessionOf(j) \/ SourceOf(i) = SourceOf(j)
  /\ \A c, d \in Clients :
       client[c].at # "new" /\ client[d].at # "new" => client[c].item = client[d].item
  /\ Burden <= 4
=============================================================================
