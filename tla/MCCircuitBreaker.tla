-------------------------- MODULE MCCircuitBreaker --------------------------
(* Instances of CircuitBreaker for TLC.                                    *)
EXTENDS CircuitBreaker, TLC

Symmetry == Permutations(Callers)
=============================================================================
