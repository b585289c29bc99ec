-------------------------- MODULE MCCircuitBreaker --------------------------
(***************************************************************************)
(* CircuitBreaker on two concurrent requests, each of which may be made    *)
(* again and again: one admitted while the circuit was closed can outlive  *)
(* the failures that open it and meet the probe that follows.              *)
(***************************************************************************)
EXTENDS CircuitBreaker

CONSTANTS r1, r2
TwoRequests == {r1, r2}
=============================================================================
