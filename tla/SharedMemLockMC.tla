--------------------------- MODULE SharedMemLockMC ---------------------------
(* Instances of SharedMemLock for TLC. *)
EXTENDS SharedMemLock, TLC

CONSTANTS o1, o2, o3

\* Two objects for one name, of hash 0, which is that of slots never used, and
\* one for another that is looked for at the same place.
TwoNames == o1 :> 0 @@ o2 :> 0 @@ o3 :> 2
===============================================================================
