---------------------------- MODULE SyncQueueMC ----------------------------
(***************************************************************************)
(* Small instances of SyncQueue: the operation `second` depends on         *)
(* `first`; `other` depends on nothing.                                    *)
(***************************************************************************)
EXTENDS SyncQueue, TLC

CONSTANTS first, second, other

Chain == [o \in Ops |-> IF o = second THEN {first} ELSE {}]

\* first is a revision of a transaction, second creates one, other archives
\* an account.
Mixed == [o \in Ops |-> IF o = first THEN "revision" ELSE
                        IF o = second THEN "create" ELSE "switch"]

\* The commands that have an idempotency key.
KeyedMix == [o \in Ops |-> IF o = first THEN "revision" ELSE
                           IF o = second THEN "planning" ELSE "create"]

Symmetry == Permutations(Workers)
=============================================================================
