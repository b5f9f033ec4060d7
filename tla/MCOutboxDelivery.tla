-------------------------- MODULE MCOutboxDelivery --------------------------
(* Instances of OutboxDelivery. *)
EXTENDS OutboxDelivery

CONSTANTS t1, d1, d2, a1, a2

=============================================================================
