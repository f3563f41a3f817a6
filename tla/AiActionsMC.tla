---------------------------- MODULE AiActionsMC ----------------------------
(* A small instance of AiActions for TLC. *)
EXTENDS AiActions, TLC

CONSTANTS p1, p2, c1, c2, k1, k2

\* Bound: rows meet only through the consent and the workers that are busy with
\* another one, so at most one is taken up in a behaviour; and the sessions are
\* looked at before a proposal is decided or after, with the workers at rest.
\* Repetitions name one of three versions: the confirmed one and two others.
Begun == {w \in Work : work[w].status # "none"}
Focus ==
  /\ Cardinality(Begun) <= 1
  /\ \A c \in Calls : call[c].version <= 3
  /\ \/ \A w \in Work : proposal[w].status \in {"none", "validated"}
     \/ Cardinality({p \in Workers : run[p].pc # "idle"}) <= 1

Symmetry == Permutations(Workers) \union Permutations(Calls) \union Permutations(Keys)
=============================================================================
