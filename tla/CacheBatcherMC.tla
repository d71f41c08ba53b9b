---------------------------- MODULE CacheBatcherMC ----------------------------
(* Instances of CacheBatcher for TLC. *)
EXTENDS CacheBatcher, TLC

Symmetry == Permutations(Keys) \cup Permutations(Callbacks)
===============================================================================
