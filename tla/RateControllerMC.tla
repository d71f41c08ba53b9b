--------------------------- MODULE RateControllerMC ---------------------------
(* Instances of RateController for TLC. *)
EXTENDS RateController, TLC

CONSTANTS h1, k1, f1, f2, f3, f4, f5

\* All fetches go to one host.
OneHost == [f \in Fetches |-> h1]
\* Four fetches go to one host, and the URL of the fifth is not valid.
OneInvalid == f1 :> h1 @@ f2 :> h1 @@ f3 :> h1 @@ f4 :> h1 @@ f5 :> InvalidUrl

OneController == [h \in Hosts |-> k1]

\* Background fetches of one host are interchangeable, and so are threads.
Symmetry == Permutations(Background) \cup Permutations(Threads)
===============================================================================
