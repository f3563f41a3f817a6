--------------------------- MODULE EventDelivery ---------------------------
(***************************************************************************)
(* What the transactional outbox promises to the rest of the platform      *)
(* (apps/api/specs/001-backend-foundation/spec.md, "Job outbox.dispatch"): *)
(* an event becomes visible only with the domain write that produced it,   *)
(* it is handed to the queue at least once, and it is retired from the     *)
(* outbox only after the queue has accepted it.                            *)
(***************************************************************************)
CONSTANTS
  Events,       \* the identities of outbox rows
  Deliverable   \* the events whose envelope the publisher can build

VARIABLES
  stored,       \* events whose producing transaction has committed
  delivered,    \* events the queue has accepted, at least once
  retired       \* events marked as published

vars == <<stored, delivered, retired>>

Init == stored = {} /\ delivered = {} /\ retired = {}

Store(e) ==
  /\ stored' = stored \union {e}
  /\ UNCHANGED <<delivered, retired>>

Deliver(e) ==
  /\ e \in stored
  /\ delivered' = delivered \union {e}
  /\ UNCHANGED <<stored, retired>>

Retire(e) ==
  /\ e \in delivered
  /\ retired' = retired \union {e}
  /\ UNCHANGED <<stored, delivered>>

Next == \E e \in Events : Store(e) \/ Deliver(e) \/ Retire(e)

Safety == Init /\ [][Next]_vars

Spec == /\ Safety
        /\ \A e \in Deliverable : WF_vars(Deliver(e)) /\ WF_vars(Retire(e))
=============================================================================
