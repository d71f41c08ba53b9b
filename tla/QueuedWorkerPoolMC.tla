------------------------- MODULE QueuedWorkerPoolMC -------------------------
(* Instances of QueuedWorkerPool for TLC. *)
EXTENDS QueuedWorkerPool, TLC

\* Threads, functions, sequences and workers are interchangeable.
Symmetry == Permutations(Clients) \cup Permutations(Functions)
            \cup Permutations(Sequences) \cup Permutations(Workers)
=============================================================================
