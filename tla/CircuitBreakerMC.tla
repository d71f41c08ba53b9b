--------------------------- MODULE CircuitBreakerMC ---------------------------
(* Instances of CircuitBreaker for TLC. *)
EXTENDS CircuitBreaker, TLC

Symmetry == Permutations(Threads) \cup Permutations(Requests)
===============================================================================
