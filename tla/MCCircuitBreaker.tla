-------------------------- MODULE MCCircuitBreaker --------------------------
(* The threads that evaluate: a request thread of the API, or that and the  *)
(* autonomous loop, which has an instance of its own.                       *)
EXTENDS CircuitBreaker

CONSTANTS loop, request, own, api

OfRequest == [t \in {request} |-> api]
OfBoth == [t \in {loop, request} |-> IF t = loop THEN own ELSE api]
=============================================================================
