------------------------------ MODULE OutboxMC ------------------------------
(* Small instances of Outbox for TLC. *)
EXTENDS Outbox

CONSTANTS e1, e2, w1, w2

SomeEvents == {e1, e2}
SomeWorkers == {w1, w2}
=============================================================================
