-------------------------- MODULE MCCircuitBreaker --------------------------
(* Instances of CircuitBreaker for TLC: the cfg files give the values.     *)
EXTENDS CircuitBreaker

=============================================================================
