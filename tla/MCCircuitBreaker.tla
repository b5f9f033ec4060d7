-------------------------- MODULE MCCircuitBreaker --------------------------
(* Instances of CircuitBreaker. *)
EXTENDS CircuitBreaker

CONSTANTS c1, c2, c3, c4
=============================================================================
