-------------------------- MODULE CacheBatcherProofs --------------------------
(***************************************************************************)
(* CacheBatcher: the counters of the batcher are exact and each callback   *)
(* hears its own verdict once, for every set of keys and callbacks and     *)
(* every bound; and the CHECK of ExtractInFlightKeys holds when one group  *)
(* of lookups is in flight at a time, or the bound on pending Gets is      *)
(* never reached.                                                          *)
(*                                                                         *)
(* The argument has two halves.  The lookups: a group and a key name one   *)
(* lookup, the last of a group completes it, and a group costs at least    *)
(* one callback, so that a new one can always be told from those alive.    *)
(* The callbacks: each is in one place, in flight, queued or saved by one  *)
(* lookup, and a key is never both in flight and queued.                   *)
(***************************************************************************)
EXTENDS CacheBatcher, FiniteSetTheorems, TLAPS

LookupType ==
  [group : Groups, key : Keys, absent : BOOLEAN,
   pc : {"sent", "decremented", "complete"},
   saved : SUBSET Callbacks, available : SUBSET Callbacks]

(* The lookups of a set that are in flight, those of a group that are not   *)
(* complete, and the groups.                                                *)
Sent(L) == {l \in L : l.pc = "sent"}
Open(L, g) == {l \in L : l.group = g /\ l.pc # "complete"}
GroupsOf(L) == {l.group : l \in L}

(* A group and a key name one lookup; one that has completed its group is   *)
(* the only one of it.                                                      *)
Tidy(L) ==
  /\ L \subseteq LookupType /\ IsFiniteSet(L)
  /\ \A l, m \in L : l.group = m.group /\ l.key = m.key => l = m
  /\ \A l, m \in L : l.pc = "complete" /\ l.group = m.group => l = m

Used == {c \in Callbacks : status[c] # "unused"}

Types ==
  /\ in_flight \in [Keys -> SUBSET Callbacks]
  /\ queued \in [Keys -> SUBSET Callbacks]
  /\ shutdown \in BOOLEAN /\ crashed \in BOOLEAN
  /\ outstanding \in [Groups -> Nat]
  /\ status \in [Callbacks -> {"unused", "pending", "dropped", "done"}]
  /\ told \in [Callbacks -> BOOLEAN] /\ accepted \subseteq Callbacks

(* The half about the lookups.  A group costs a callback, and so does a     *)
(* queue, which becomes one.                                                *)
LookupsInv ==
  /\ Tidy(lookups)
  /\ \A g \in Groups : outstanding[g] = Cardinality(Open(lookups, g))
  /\ num_in_flight_groups = Cardinality(GroupsOf(lookups))
  /\ num_in_flight_keys = Cardinality(Sent(lookups))

GroupsPaid ==
  num_in_flight_groups + (IF QueuedKeys = {} THEN 0 ELSE 1) <= Cardinality(Used)

(* A queue waits for a group to complete. *)
QueueWaits ==
  /\ QueuedKeys # {} => ~shutdown /\ num_in_flight_groups >= MaxParallel
  /\ \A k \in Keys : in_flight[k] = {} \/ queued[k] = {}

(* The half about the callbacks: each is in one place, *)
Apart ==
  /\ \A j, k \in Keys : j # k => /\ in_flight[j] \cap in_flight[k] = {}
                                 /\ queued[j] \cap queued[k] = {}
  /\ \A j, k \in Keys : in_flight[j] \cap queued[k] = {}
  /\ \A l \in lookups, k \in Keys : l.saved \cap (in_flight[k] \cup queued[k]) = {}
  /\ \A l, m \in lookups : l # m => l.saved \cap m.saved = {}

(* it waits as long as it is there, *)
Waits ==
  /\ \A k \in Keys : \A c \in in_flight[k] \cup queued[k] : status[c] = "pending"
  /\ \A l \in lookups : \A c \in l.saved :
       status[c] = (IF l.pc = "complete" THEN "done" ELSE "pending")

(* and a lookup remembers who accepted its candidate. *)
Verdicts ==
  /\ \A l \in lookups : l.available = l.saved \cap accepted
  /\ \A c \in accepted : status[c] \in {"pending", "done"}
  /\ \A k \in Keys : (in_flight[k] \cup queued[k]) \cap accepted = {}
  /\ \A c \in Callbacks : status[c] = "done" => (told[c] <=> c \in accepted)

CallbacksInv ==
  /\ Apart /\ Waits /\ Verdicts
  /\ num_pending_gets = Cardinality(Waiting)

BatcherInv ==
  Types /\ LookupsInv /\ GroupsPaid /\ QueueWaits /\ CallbacksInv

(* One group at a time, as the server configures it, or room for every Get. *)
OneLookupPerKey == MaxParallel = 1 \/ Cardinality(Callbacks) <= MaxPending

Unsaved(l) == l.pc = "sent" /\ l.saved = {}

(* The keys in flight are those of the lookups that have not been validated. *)
KeysInv ==
  /\ ~crashed
  /\ \A l \in lookups : Unsaved(l) => in_flight[l.key] # {}
  /\ \A l, m \in lookups : Unsaved(l) /\ Unsaved(m) /\ l.key = m.key => l = m
  /\ \A k \in Keys : in_flight[k] # {} => \E l \in lookups : Unsaved(l) /\ l.key = k

---------------------------------------------------------------------------
(* Sets of lookups.                                                         *)

LEMMA Constants ==
  /\ Cardinality(Callbacks) \in Nat
  /\ IsFiniteSet(Groups) /\ Cardinality(Groups) = Cardinality(Callbacks)
  /\ MaxParallel \in Nat \ {0} /\ MaxPending \in Nat \ {0}
PROOF
<1>1. Cardinality(Callbacks) \in Nat
  BY BatcherAssumption, FS_CardinalityType
<1>2. IsFiniteSet(Groups) /\ Cardinality(Groups) = Cardinality(Callbacks)
  BY <1>1, FS_Interval DEF Groups
<1> QED BY <1>1, <1>2, BatcherAssumption

(* A new lookup, and one that a step has changed. *)
LEMMA NewLookup ==
  ASSUME NEW g \in Groups, NEW k \in Keys, NEW a \in BOOLEAN
  PROVE  /\ MultiCallback(g, k, a) \in LookupType
         /\ MultiCallback(g, k, a).group = g /\ MultiCallback(g, k, a).key = k
         /\ MultiCallback(g, k, a).pc = "sent"
         /\ MultiCallback(g, k, a).saved = {} /\ MultiCallback(g, k, a).available = {}
BY DEF MultiCallback, LookupType

LEMMA MovedLookup ==
  ASSUME NEW l \in LookupType, NEW p \in {"sent", "decremented", "complete"}
  PROVE  LET m == [l EXCEPT !.pc = p]
         IN  /\ m \in LookupType /\ m.group = l.group /\ m.key = l.key /\ m.pc = p
             /\ m.saved = l.saved /\ m.available = l.available
BY DEF LookupType

LEMMA TidyFinite ==
  ASSUME NEW L, Tidy(L)
  PROVE  /\ IsFiniteSet(Sent(L)) /\ Cardinality(Sent(L)) \in Nat
         /\ \A g : IsFiniteSet(Open(L, g)) /\ Cardinality(Open(L, g)) \in Nat
         /\ GroupsOf(L) \subseteq Groups
         /\ IsFiniteSet(GroupsOf(L)) /\ Cardinality(GroupsOf(L)) \in Nat
PROOF
<1>1. IsFiniteSet(L) /\ L \subseteq LookupType
  BY DEF Tidy
<1>2. IsFiniteSet(Sent(L)) /\ Cardinality(Sent(L)) \in Nat
  <2>1. Sent(L) \in SUBSET L
    BY DEF Sent
  <2> QED BY <1>1, <2>1, FS_Subset, FS_CardinalityType
<1>3. ASSUME NEW g
      PROVE  IsFiniteSet(Open(L, g)) /\ Cardinality(Open(L, g)) \in Nat
  <2>1. Open(L, g) \in SUBSET L
    BY DEF Open
  <2> QED BY <1>1, <2>1, FS_Subset, FS_CardinalityType
<1>4. GroupsOf(L) \subseteq Groups
  BY <1>1 DEF GroupsOf, LookupType
<1>5. IsFiniteSet(GroupsOf(L)) /\ Cardinality(GroupsOf(L)) \in Nat
  BY <1>4, Constants, FS_Subset, FS_CardinalityType
<1> QED BY <1>2, <1>3, <1>4, <1>5

(* A group is found for a new lookup as long as not every callback has one. *)
LEMMA NewGroupIsNew ==
  ASSUME Tidy(lookups), Cardinality(GroupsOf(lookups)) < Cardinality(Callbacks)
  PROVE  NewGroup \in Groups /\ NewGroup \notin GroupsOf(lookups)
PROOF
<1>1. GroupsOf(lookups) = LiveGroups
  BY DEF GroupsOf, LiveGroups
<1>2. GroupsOf(lookups) # Groups
  <2>1. Cardinality(GroupsOf(lookups)) \in Nat
    BY TidyFinite
  <2> QED BY <2>1, Constants
<1>3. \E g \in Groups : g \notin LiveGroups
  BY <1>1, <1>2, TidyFinite
<1> QED BY <1>1, <1>3 DEF NewGroup

(* A step of one lookup that does not complete its group. *)
LEMMA ReplaceTidy ==
  ASSUME NEW L, Tidy(L), NEW l \in L, NEW m \in LookupType,
         m.group = l.group, m.key = l.key, l.pc # "complete",
         m.pc = "complete" => Open(L, l.group) = {l},
         NEW M, M = (L \ {l}) \cup {m}
  PROVE  /\ Tidy(M) /\ GroupsOf(M) = GroupsOf(L)
         /\ \A g \in Groups : g # l.group => Open(M, g) = Open(L, g)
         /\ m.pc # "complete" =>
              Cardinality(Open(M, l.group)) = Cardinality(Open(L, l.group))
         /\ m.pc = "complete" => Open(M, l.group) = {}
         /\ l.pc = "sent" /\ m.pc = "sent" =>
              Cardinality(Sent(M)) = Cardinality(Sent(L))
         /\ l.pc = "sent" /\ m.pc # "sent" => Sent(M) = Sent(L) \ {l}
         /\ l.pc # "sent" /\ m.pc # "sent" => Sent(M) = Sent(L)
PROOF
<1>1. /\ L \subseteq LookupType /\ IsFiniteSet(L)
      /\ \A x, y \in L : x.group = y.group /\ x.key = y.key => x = y
      /\ \A x, y \in L : x.pc = "complete" /\ x.group = y.group => x = y
  BY DEF Tidy
<1>2. \A x \in M : (x \in L /\ x # l) \/ x = m
  OBVIOUS
<1>3. \A x \in M : x.group = l.group /\ x.key = l.key => x = m
  BY <1>1, <1>2
<1>4. Tidy(M)
  <2>1. M \subseteq LookupType /\ IsFiniteSet(M)
    BY <1>1, FS_RemoveElement, FS_AddElement
  <2>2. ASSUME NEW x \in M, NEW y \in M, x.group = y.group, x.key = y.key
        PROVE  x = y
    BY <1>1, <1>2, <1>3, <2>2
  <2>3. ASSUME NEW x \in M, NEW y \in M, x.pc = "complete", x.group = y.group
        PROVE  x = y
    <3>1. CASE x # m /\ y # m
      BY <1>1, <1>2, <2>3, <3>1
    <3>2. CASE x # m /\ y = m
      <4>1. x \in L /\ x.group = l.group /\ x # l
        BY <1>2, <2>3, <3>2
      <4> QED BY <1>1, <2>3, <4>1
    <3>3. CASE x = m /\ y # m
      <4>1. y \in L /\ y.group = l.group /\ y # l
        BY <1>2, <2>3, <3>3
      <4>2. CASE y.pc = "complete"
        BY <1>1, <4>1, <4>2
      <4>3. CASE y.pc # "complete"
        <5>1. y \in Open(L, l.group)
          BY <4>1, <4>3 DEF Open
        <5>2. Open(L, l.group) = {l}
          BY <2>3, <3>3
        <5> QED BY <4>1, <5>1, <5>2
      <4> QED BY <4>2, <4>3
    <3> QED BY <3>1, <3>2, <3>3
  <2> QED BY <2>1, <2>2, <2>3 DEF Tidy
<1>5. GroupsOf(M) = GroupsOf(L)
  BY DEF GroupsOf
<1>6. \A g \in Groups : g # l.group => Open(M, g) = Open(L, g)
  BY DEF Open
<1>7. m \in L => m = l
  BY <1>1
<1>8. ASSUME m.pc # "complete"
      PROVE  Cardinality(Open(M, l.group)) = Cardinality(Open(L, l.group))
  <2> DEFINE R == Open(L, l.group) \ {l}
  <2>1. Open(M, l.group) = R \cup {m}
    BY <1>8 DEF Open
  <2>2. m \notin R /\ l \in Open(L, l.group)
    BY <1>7 DEF Open
  <2>3. IsFiniteSet(Open(L, l.group)) /\ Cardinality(Open(L, l.group)) \in Nat
    BY TidyFinite
  <2>4. IsFiniteSet(R) /\ Cardinality(R) = Cardinality(Open(L, l.group)) - 1
    BY <2>2, <2>3, FS_RemoveElement
  <2> HIDE DEF R
  <2>5. Cardinality(R \cup {m}) = Cardinality(R) + 1
    BY <2>2, <2>4, FS_AddElement
  <2>6. Cardinality(Open(M, l.group)) = Cardinality(R \cup {m})
    BY <2>1, Zenon
  <2> QED BY <2>3, <2>4, <2>5, <2>6
<1>9. m.pc = "complete" => Open(M, l.group) = {}
  <2>1. SUFFICES ASSUME m.pc = "complete", NEW x \in Open(M, l.group)
                 PROVE  FALSE
    OBVIOUS
  <2>2. x \in L /\ x # l /\ x \in Open(L, l.group)
    BY <2>1, <1>2 DEF Open
  <2> QED BY <2>1, <2>2
<1>10. ASSUME l.pc = "sent", m.pc = "sent"
       PROVE  Cardinality(Sent(M)) = Cardinality(Sent(L))
  <2> DEFINE R == Sent(L) \ {l}
  <2>1. Sent(M) = R \cup {m}
    BY <1>10 DEF Sent
  <2>2. m \notin R /\ l \in Sent(L)
    BY <1>7, <1>10 DEF Sent
  <2>3. IsFiniteSet(Sent(L)) /\ Cardinality(Sent(L)) \in Nat
    BY TidyFinite
  <2>4. IsFiniteSet(R) /\ Cardinality(R) = Cardinality(Sent(L)) - 1
    BY <2>2, <2>3, FS_RemoveElement
  <2> HIDE DEF R
  <2>5. Cardinality(R \cup {m}) = Cardinality(R) + 1
    BY <2>2, <2>4, FS_AddElement
  <2>6. Cardinality(Sent(M)) = Cardinality(R \cup {m})
    BY <2>1, Zenon
  <2> QED BY <2>3, <2>4, <2>5, <2>6
<1>11. l.pc = "sent" /\ m.pc # "sent" => Sent(M) = Sent(L) \ {l}
  BY DEF Sent
<1>12. l.pc # "sent" /\ m.pc # "sent" => Sent(M) = Sent(L)
  BY DEF Sent
<1> QED BY <1>4, <1>5, <1>6, <1>8, <1>9, <1>10, <1>11, <1>12

(* A lookup goes. *)
LEMMA RemoveTidy ==
  ASSUME NEW L, Tidy(L), NEW l \in L, l.pc # "sent", NEW M, M = L \ {l}
  PROVE  /\ Tidy(M) /\ Sent(M) = Sent(L)
         /\ \A g \in Groups : g # l.group => Open(M, g) = Open(L, g)
         /\ Open(M, l.group) = Open(L, l.group) \ {l}
         /\ Open(M, l.group) # {} => GroupsOf(M) = GroupsOf(L)
         /\ l.pc = "complete" =>
              /\ GroupsOf(M) = GroupsOf(L) \ {l.group}
              /\ Open(M, l.group) = {} /\ Open(L, l.group) = {}
PROOF
<1>1. /\ L \subseteq LookupType /\ IsFiniteSet(L)
      /\ \A x, y \in L : x.group = y.group /\ x.key = y.key => x = y
      /\ \A x, y \in L : x.pc = "complete" /\ x.group = y.group => x = y
  BY DEF Tidy
<1>2. Tidy(M)
  <2>1. M \subseteq LookupType /\ IsFiniteSet(M)
    BY <1>1, FS_RemoveElement
  <2> QED BY <1>1, <2>1 DEF Tidy
<1>3. Sent(M) = Sent(L)
  BY DEF Sent
<1>4. /\ \A g \in Groups : g # l.group => Open(M, g) = Open(L, g)
      /\ Open(M, l.group) = Open(L, l.group) \ {l}
  BY DEF Open
<1>5. Open(M, l.group) # {} => GroupsOf(M) = GroupsOf(L)
  BY DEF Open, GroupsOf
<1>6. ASSUME l.pc = "complete"
      PROVE  /\ GroupsOf(M) = GroupsOf(L) \ {l.group}
             /\ Open(M, l.group) = {} /\ Open(L, l.group) = {}
  <2>1. \A x \in M : x.group # l.group
    BY <1>1, <1>6
  <2>2. GroupsOf(M) = GroupsOf(L) \ {l.group}
    BY <2>1 DEF GroupsOf
  <2>3. Open(M, l.group) = {}
    BY <2>1 DEF Open
  <2>4. l \notin Open(L, l.group)
    BY <1>6 DEF Open
  <2> QED BY <1>4, <2>2, <2>3, <2>4
<1> QED BY <1>2, <1>3, <1>4, <1>5, <1>6

(* A group of lookups is added. *)
Batch(g, K, a) == {MultiCallback(g, k, a) : k \in K}

Added(L, g, K, M) ==
  /\ Tidy(M)
  /\ GroupsOf(M) = GroupsOf(L) \cup {g}
  /\ \A h \in Groups : h # g => Open(M, h) = Open(L, h)
  /\ Cardinality(Open(M, g)) = Cardinality(K)
  /\ Cardinality(Sent(M)) = Cardinality(Sent(L)) + Cardinality(K)
  /\ IsFiniteSet(K) /\ Cardinality(K) \in Nat

LEMMA AddBatch ==
  ASSUME NEW L, Tidy(L), NEW g \in Groups, g \notin GroupsOf(L),
         NEW K \in SUBSET Keys, K # {}, NEW a \in BOOLEAN,
         NEW M, M = L \cup Batch(g, K, a)
  PROVE  Added(L, g, K, M)
PROOF
<1> DEFINE B == Batch(g, K, a)
<1>0. M = L \cup B
  OBVIOUS
<1>1. /\ L \subseteq LookupType /\ IsFiniteSet(L)
      /\ \A x, y \in L : x.group = y.group /\ x.key = y.key => x = y
      /\ \A x, y \in L : x.pc = "complete" /\ x.group = y.group => x = y
  BY DEF Tidy
<1>2. IsFiniteSet(K) /\ Cardinality(K) \in Nat
  BY BatcherAssumption, FS_Subset, FS_CardinalityType
<1>3. /\ \A x \in B : x \in LookupType /\ x.group = g /\ x.pc = "sent" /\ x.key \in K
      /\ \A x, y \in B : x.key = y.key => x = y
  BY NewLookup DEF Batch
<1>4. IsFiniteSet(B) /\ Cardinality(B) = Cardinality(K)
  <2> DEFINE f == [k \in K |-> MultiCallback(g, k, a)]
  <2>1. f \in [K -> B]
    BY DEF Batch
  <2>2. \A x, y \in K : f[x] = f[y] => x = y
    BY NewLookup
  <2>3. \A y \in B : \E x \in K : f[x] = y
    BY DEF Batch
  <2> HIDE DEF f, B
  <2>4. f \in Bijection(K, B)
    BY <2>1, <2>2, <2>3 DEF Bijection, Injection, Surjection, IsInjective
  <2>5. ExistsBijection(K, B)
    BY <2>4 DEF ExistsBijection
  <2> QED BY <1>2, <2>5, FS_Bijection
<1> HIDE DEF B
<1>5. \A x \in L : x.group # g
  BY DEF GroupsOf
<1>6. Tidy(M)
  <2>1. M \subseteq LookupType /\ IsFiniteSet(M)
    <3>1. IsFiniteSet(L \cup B)
      BY <1>1, <1>4, FS_Union
    <3> QED BY <1>0, <1>1, <1>3, <3>1
  <2>2. ASSUME NEW x \in M, NEW y \in M, x.group = y.group, x.key = y.key
        PROVE  x = y
    BY <1>0, <1>1, <1>3, <1>5, <2>2
  <2>3. ASSUME NEW x \in M, NEW y \in M, x.pc = "complete", x.group = y.group
        PROVE  x = y
    BY <1>0, <1>1, <1>3, <1>5, <2>3
  <2> QED BY <1>0, <2>1, <2>2, <2>3 DEF Tidy
<1>7. GroupsOf(M) = GroupsOf(L) \cup {g}
  <2>1. B # {}
    BY DEF B, Batch
  <2> QED BY <1>0, <1>3, <2>1 DEF GroupsOf
<1>8. \A h \in Groups : h # g => Open(M, h) = Open(L, h)
  BY <1>0, <1>3 DEF Open
<1>9. Open(M, g) = B
  BY <1>0, <1>3, <1>5 DEF Open
<1>10. Cardinality(Sent(M)) = Cardinality(Sent(L)) + Cardinality(K)
  <2>1. Sent(M) = Sent(L) \cup B
    BY <1>0, <1>3 DEF Sent
  <2>2. Sent(L) \cap B = {}
    BY <1>0, <1>3, <1>5 DEF Sent
  <2>3. IsFiniteSet(Sent(L)) /\ Cardinality(Sent(L)) \in Nat
    BY TidyFinite
  <2>4. Cardinality(Sent(L) \cup B) = Cardinality(Sent(L)) + Cardinality(B) - Cardinality({})
    BY <1>0, <1>4, <2>2, <2>3, FS_Union
  <2>5. Cardinality(Sent(M)) = Cardinality(Sent(L) \cup B)
    BY <1>0, <2>1, Zenon
  <2> QED BY <1>0, <1>2, <1>4, <2>3, <2>4, <2>5, FS_EmptySet
<1> QED BY <1>2, <1>4, <1>6, <1>7, <1>8, <1>9, <1>10 DEF Added

---------------------------------------------------------------------------
(* Sets of callbacks.                                                       *)

WaitingIn(F, Q, L) ==
  (UNION {F[k] \cup Q[k] : k \in Keys}) \cup (UNION {l.saved : l \in Sent(L)})

LEMMA WaitingIsIn ==
  /\ Waiting = WaitingIn(in_flight, queued, lookups)
  /\ Waiting' = WaitingIn(in_flight', queued', lookups')
BY DEF Waiting, WaitingIn, Sent

LEMMA IsWaiting ==
  ASSUME NEW F, NEW Q, NEW L, NEW c
  PROVE  c \in WaitingIn(F, Q, L) <=>
           \/ \E k \in Keys : c \in F[k] \/ c \in Q[k]
           \/ \E l \in L : l.pc = "sent" /\ c \in l.saved
PROOF
<1>1. c \in UNION {F[k] \cup Q[k] : k \in Keys} <=> \E k \in Keys : c \in F[k] \/ c \in Q[k]
  OBVIOUS
<1>2. c \in UNION {l.saved : l \in Sent(L)} <=> \E l \in Sent(L) : c \in l.saved
  OBVIOUS
<1>3. (\E l \in Sent(L) : c \in l.saved) <=> \E l \in L : l.pc = "sent" /\ c \in l.saved
  BY DEF Sent
<1> QED BY <1>1, <1>2, <1>3 DEF WaitingIn

LEMMA WaitingTypes ==
  ASSUME Types, Tidy(lookups), Waits
  PROVE  /\ Waiting \subseteq Callbacks
         /\ \A c \in Waiting : status[c] = "pending"
         /\ IsFiniteSet(Waiting) /\ Cardinality(Waiting) \in Nat
PROOF
<1>1. Waiting \subseteq Callbacks
  BY WaitingIsIn, IsWaiting DEF Types, Tidy, LookupType
<1>2. \A c \in Waiting : status[c] = "pending"
  BY WaitingIsIn, IsWaiting DEF Waits
<1>3. IsFiniteSet(Waiting) /\ Cardinality(Waiting) \in Nat
  BY <1>1, BatcherAssumption, FS_Subset, FS_CardinalityType
<1> QED BY <1>1, <1>2, <1>3

LEMMA UsedCount ==
  /\ IsFiniteSet(Used) /\ Cardinality(Used) \in Nat
  /\ Cardinality(Used) <= Cardinality(Callbacks)
  /\ \A c \in Callbacks : status[c] = "unused" => Cardinality(Used) < Cardinality(Callbacks)
PROOF
<1>1. Used \in SUBSET Callbacks
  BY DEF Used
<1>2. /\ IsFiniteSet(Used) /\ Cardinality(Used) \in Nat
      /\ Cardinality(Used) <= Cardinality(Callbacks)
      /\ Cardinality(Callbacks) = Cardinality(Used) => Callbacks = Used
  BY <1>1, BatcherAssumption, FS_Subset, FS_CardinalityType
<1>3. \A c \in Callbacks : status[c] = "unused" => Used # Callbacks
  BY DEF Used
<1> QED BY <1>2, <1>3, Constants

(* A Get uses its callback. *)
LEMMA GetUses ==
  ASSUME Types, NEW c \in Callbacks, status[c] = "unused",
         NEW v \in {"pending", "dropped"}, status' = [status EXCEPT ![c] = v]
  PROVE  Cardinality(Used') = Cardinality(Used) + 1
PROOF
<1>1. Used' = Used \cup {c} /\ c \notin Used
  BY DEF Used, Types
<1> QED BY <1>1, UsedCount, FS_AddElement

LEMMA NobodyUsed ==
  ASSUME \A c \in Callbacks : status'[c] = "unused" <=> status[c] = "unused"
  PROVE  Used' = Used
BY DEF Used

LEMMA InvInit == Init => BatcherInv
PROOF
<1> SUFFICES ASSUME Init PROVE BatcherInv
  OBVIOUS
<1>1. Types
  BY DEF Init, Types
<1>2. Tidy(lookups) /\ Sent(lookups) = {} /\ GroupsOf(lookups) = {}
  BY FS_EmptySet DEF Init, Tidy, Sent, GroupsOf
<1>3. \A g : Open(lookups, g) = {}
  BY DEF Init, Open
<1>4. LookupsInv
  BY <1>2, <1>3, FS_EmptySet DEF Init, LookupsInv
<1>5. QueuedKeys = {} /\ QueueWaits
  BY DEF Init, QueuedKeys, QueueWaits
<1>6. GroupsPaid
  BY <1>5, UsedCount DEF Init, GroupsPaid
<1>7. Apart /\ Waits /\ Verdicts
  BY DEF Init, Apart, Waits, Verdicts
<1>8. Waiting = {}
  <2>1. \A c : c \notin Waiting
    BY WaitingIsIn, IsWaiting DEF Init
  <2> QED BY <2>1
<1>9. num_pending_gets = Cardinality(Waiting)
  BY <1>8, FS_EmptySet DEF Init
<1> QED BY <1>1, <1>4, <1>5, <1>6, <1>7, <1>9 DEF BatcherInv, CallbacksInv

---------------------------------------------------------------------------
(* Get.                                                                     *)

(* A callback joins those in flight, or those queued, for a key. *)
LEMMA OneMoreWaits ==
  ASSUME BatcherInv, NEW c \in Callbacks, NEW k \in Keys, status[c] = "unused",
         Pending(c), num_pending_gets' = num_pending_gets + 1,
         told' = told, accepted' = accepted,
         \/ in_flight' = [in_flight EXCEPT ![k] = @ \cup {c}] /\ queued' = queued
         \/ in_flight' = in_flight /\ queued' = [queued EXCEPT ![k] = @ \cup {c}],
         lookups \subseteq lookups',
         \A l \in lookups' : l \in lookups \/ (l.saved = {} /\ l.available = {})
  PROVE  CallbacksInv'
PROOF
<1>1. Types /\ Apart /\ Waits /\ Verdicts /\ Tidy(lookups)
      /\ num_pending_gets = Cardinality(Waiting)
  BY DEF BatcherInv, CallbacksInv, LookupsInv
<1>2. c \notin Waiting /\ c \notin accepted /\ status'[c] = "pending"
      /\ \A d \in Callbacks : d # c => status'[d] = status[d]
  BY <1>1, WaitingTypes DEF Verdicts, Pending, Types
<1>3. /\ \A j \in Keys : in_flight[j] \subseteq in_flight'[j]
                         /\ in_flight'[j] \subseteq in_flight[j] \cup {c}
      /\ \A j \in Keys : queued[j] \subseteq queued'[j]
                         /\ queued'[j] \subseteq queued[j] \cup {c}
      /\ \A j \in Keys : c \in in_flight'[j] \/ c \in queued'[j] => j = k
      /\ c \in in_flight'[k] \/ c \in queued'[k]
      /\ \A i, j \in Keys : ~(c \in in_flight'[i] /\ c \in queued'[j])
  <2>1. \A j \in Keys : c \notin in_flight[j] /\ c \notin queued[j]
    BY <1>1 DEF Waits
  <2> QED BY <1>1, <2>1 DEF Types
<1>4. \A l \in lookups : c \notin l.saved
  BY <1>1 DEF Waits
<1>5. \A j \in Keys : in_flight[j] \subseteq Callbacks /\ queued[j] \subseteq Callbacks
  BY <1>1 DEF Types
<1>6. \A l \in lookups : l.saved \subseteq Callbacks
  BY <1>1 DEF Tidy, LookupType
<1>7. Apart'
  <2>1. ASSUME NEW i \in Keys, NEW j \in Keys, i # j
        PROVE  in_flight'[i] \cap in_flight'[j] = {} /\ queued'[i] \cap queued'[j] = {}
    BY <1>1, <1>3, <2>1 DEF Apart
  <2>2. ASSUME NEW i \in Keys, NEW j \in Keys
        PROVE  in_flight'[i] \cap queued'[j] = {}
    BY <1>1, <1>3 DEF Apart
  <2>3. ASSUME NEW l \in lookups', NEW j \in Keys
        PROVE  l.saved \cap (in_flight'[j] \cup queued'[j]) = {}
    BY <1>1, <1>3, <1>4 DEF Apart
  <2>4. ASSUME NEW l \in lookups', NEW m \in lookups', l # m
        PROVE  l.saved \cap m.saved = {}
    BY <1>1, <2>4 DEF Apart
  <2> QED BY <2>1, <2>2, <2>3, <2>4 DEF Apart
<1>8. Waits'
  <2>1. ASSUME NEW j \in Keys, NEW d \in in_flight'[j] \cup queued'[j]
        PROVE  status'[d] = "pending"
    BY <1>1, <1>2, <1>3, <1>5 DEF Waits
  <2>2. ASSUME NEW l \in lookups', NEW d \in l.saved
        PROVE  status'[d] = (IF l.pc = "complete" THEN "done" ELSE "pending")
    BY <1>1, <1>2, <1>4, <1>6 DEF Waits
  <2> QED BY <2>1, <2>2 DEF Waits
<1>9. Verdicts'
  <2>1. \A l \in lookups' : l.available = l.saved \cap accepted
    BY <1>1 DEF Verdicts
  <2>2. \A d \in accepted : d \in Callbacks /\ status'[d] \in {"pending", "done"}
    BY <1>1, <1>2 DEF Verdicts, Types
  <2>3. \A j \in Keys : (in_flight'[j] \cup queued'[j]) \cap accepted = {}
    BY <1>1, <1>2, <1>3 DEF Verdicts
  <2>4. \A d \in Callbacks : status'[d] = "done" => (told[d] <=> d \in accepted)
    BY <1>1, <1>2 DEF Verdicts
  <2> QED BY <2>1, <2>2, <2>3, <2>4 DEF Verdicts
<1>10. Waiting' = Waiting \cup {c}
  <2>1. ASSUME NEW d
        PROVE  d \in Waiting' <=> d \in Waiting \/ d = c
    <3>1. (\E l \in lookups' : l.pc = "sent" /\ d \in l.saved)
            <=> (\E l \in lookups : l.pc = "sent" /\ d \in l.saved)
      OBVIOUS
    <3>2. (\E j \in Keys : d \in in_flight'[j] \/ d \in queued'[j])
            <=> (d = c \/ \E j \in Keys : d \in in_flight[j] \/ d \in queued[j])
      BY <1>3
    <3> QED BY <3>1, <3>2, WaitingIsIn, IsWaiting
  <2> QED BY <2>1
<1>11. Cardinality(Waiting') = Cardinality(Waiting) + 1
  BY <1>1, <1>2, <1>10, WaitingTypes, FS_AddElement
<1> QED BY <1>1, <1>7, <1>8, <1>9, <1>11 DEF CallbacksInv

(* A Get starts or joins a lookup, or is queued: its types. *)
LEMMA GetTypes ==
  ASSUME Types, NEW c \in Callbacks, NEW k \in Keys, Pending(c),
         told' = told, accepted' = accepted, shutdown' = shutdown, crashed' = crashed,
         \/ in_flight' = [in_flight EXCEPT ![k] = @ \cup {c}] /\ queued' = queued
         \/ in_flight' = in_flight /\ queued' = [queued EXCEPT ![k] = @ \cup {c}],
         outstanding' \in [Groups -> Nat]
  PROVE  Types'
BY DEF Types, Pending

LEMMA LookupsStay ==
  ASSUME LookupsInv, lookups' = lookups, outstanding' = outstanding,
         num_in_flight_groups' = num_in_flight_groups,
         num_in_flight_keys' = num_in_flight_keys
  PROVE  LookupsInv'
BY DEF LookupsInv

LEMMA CoalesceStep ==
  ASSUME BatcherInv, NEW c \in Callbacks, NEW k \in Keys, Coalesce(c, k), crashed' = crashed
  PROVE  BatcherInv'
PROOF
<1>1. Types /\ LookupsInv /\ GroupsPaid /\ QueueWaits
  BY DEF BatcherInv
<1>2. Types'
  BY <1>1, GetTypes DEF Coalesce, Types
<1>3. LookupsInv'
  BY <1>1, LookupsStay DEF Coalesce
<1>4. QueuedKeys' = QueuedKeys
  BY DEF Coalesce, QueuedKeys
<1>5. num_in_flight_groups \in Nat
  BY <1>1, TidyFinite DEF LookupsInv
<1>6. GroupsPaid'
  <2>1. Cardinality(Used') = Cardinality(Used) + 1
    BY <1>1, GetUses DEF Coalesce, Pending
  <2> QED BY <1>1, <1>4, <1>5, <2>1, UsedCount DEF GroupsPaid, Coalesce
<1>7. QueueWaits'
  BY <1>1, <1>4 DEF QueueWaits, Coalesce, Joins, Types
<1>8. CallbacksInv'
  BY OneMoreWaits DEF Coalesce
<1> QED BY <1>2, <1>3, <1>6, <1>7, <1>8 DEF BatcherInv

LEMMA QueueStep ==
  ASSUME BatcherInv, NEW c \in Callbacks, NEW k \in Keys, Queue(c, k), crashed' = crashed
  PROVE  BatcherInv'
PROOF
<1>1. Types /\ LookupsInv /\ GroupsPaid /\ QueueWaits
  BY DEF BatcherInv
<1>2. Types'
  BY <1>1, GetTypes DEF Queue, Types
<1>3. LookupsInv'
  BY <1>1, LookupsStay DEF Queue
<1>4. num_in_flight_groups \in Nat
  BY <1>1, TidyFinite DEF LookupsInv
<1>5. GroupsPaid'
  <2>1. Cardinality(Used') = Cardinality(Used) + 1
    BY <1>1, GetUses DEF Queue, Pending
  <2>2. num_in_flight_groups' = num_in_flight_groups
    BY DEF Queue
  <2>3. num_in_flight_groups <= Cardinality(Used)
    BY <1>1, <1>4, UsedCount DEF GroupsPaid
  <2> QED BY <1>4, <2>1, <2>2, <2>3, UsedCount DEF GroupsPaid
<1>6. QueueWaits'
  <2>1. ~shutdown /\ num_in_flight_groups >= MaxParallel /\ in_flight[k] = {}
    BY <1>4, Constants DEF Queue, Joins, CanIssueGet, CanQueueCallback
  <2> QED BY <1>1, <2>1 DEF QueueWaits, Queue, Types
<1>7. CallbacksInv'
  BY OneMoreWaits DEF Queue, QueueCounted
<1> QED BY <1>2, <1>3, <1>5, <1>6, <1>7 DEF BatcherInv

LEMMA IssueStep ==
  ASSUME BatcherInv, NEW c \in Callbacks, NEW k \in Keys, Issue(c, k), crashed' = crashed
  PROVE  BatcherInv'
PROOF
<1>1. Types /\ LookupsInv /\ GroupsPaid /\ QueueWaits /\ Tidy(lookups)
  BY DEF BatcherInv, LookupsInv
<1>2. num_in_flight_groups \in Nat /\ num_in_flight_groups = Cardinality(GroupsOf(lookups))
  BY <1>1, TidyFinite DEF LookupsInv
<1>3. QueuedKeys = {} /\ QueuedKeys' = {}
  BY <1>1, <1>2, Constants DEF QueueWaits, Issue, CanIssueGet, QueuedKeys
<1>4. num_in_flight_groups <= Cardinality(Used) /\ Cardinality(Used) < Cardinality(Callbacks)
  BY <1>1, <1>2, <1>3, UsedCount DEF GroupsPaid, Issue
<1>5. NewGroup \in Groups /\ NewGroup \notin GroupsOf(lookups)
  BY <1>1, <1>2, <1>4, UsedCount, Constants, NewGroupIsNew
<1> DEFINE g == NewGroup
           M == lookups \cup Batch(g, {k}, FALSE)
<1>6. lookups' = M
  BY DEF Issue, Batch
<1>7. outstanding' = [outstanding EXCEPT ![g] = 1]
      /\ num_in_flight_groups' = num_in_flight_groups + 1
      /\ num_in_flight_keys' = num_in_flight_keys + 1
  BY DEF Issue
<1> HIDE DEF g
<1>8. Cardinality({k}) = 1
  BY FS_Singleton
<1>9. /\ Tidy(M) /\ GroupsOf(M) = GroupsOf(lookups) \cup {g}
      /\ \A h \in Groups : h # g => Open(M, h) = Open(lookups, h)
      /\ Cardinality(Open(M, g)) = 1
      /\ Cardinality(Sent(M)) = Cardinality(Sent(lookups)) + 1
  <2>1. {k} \in SUBSET Keys /\ {k} # {} /\ FALSE \in BOOLEAN
    OBVIOUS
  <2>2. g \in Groups /\ g \notin GroupsOf(lookups)
    BY <1>5 DEF g
  <2> DEFINE K == {k}
             absent == FALSE
  <2>3. /\ K \in SUBSET Keys /\ K # {} /\ Cardinality(K) = 1
        /\ absent \in BOOLEAN /\ M = lookups \cup Batch(g, K, absent)
    BY <1>8, <2>1
  <2> HIDE DEF K, M, absent
  <2>4. Added(lookups, g, K, M)
    BY <1>1, <2>2, <2>3, AddBatch
  <2> QED BY <2>3, <2>4 DEF Added
<1>10. \A l \in M : l \in lookups \/ (l.saved = {} /\ l.available = {})
  <2>1. g \in Groups
    BY <1>5 DEF g
  <2>2. MultiCallback(g, k, FALSE).saved = {} /\ MultiCallback(g, k, FALSE).available = {}
    BY <2>1, NewLookup
  <2> QED BY <2>2 DEF Batch
<1> HIDE DEF M
<1>11. outstanding' \in [Groups -> Nat]
  BY <1>1, <1>7 DEF Types
<1>12. Types'
  BY <1>1, <1>11, GetTypes DEF Issue
<1>13. LookupsInv'
  <2>1. Cardinality(GroupsOf(M)) = Cardinality(GroupsOf(lookups)) + 1
    BY <1>1, <1>5, <1>9, TidyFinite, FS_AddElement DEF g
  <2>2. \A h \in Groups : outstanding'[h] = Cardinality(Open(M, h))
    BY <1>1, <1>5, <1>7, <1>9 DEF g, LookupsInv, Types
  <2>3. num_in_flight_groups' = Cardinality(GroupsOf(M))
        /\ num_in_flight_keys' = Cardinality(Sent(M))
    BY <1>1, <1>7, <1>9, <2>1 DEF LookupsInv
  <2> QED BY <1>6, <1>9, <2>2, <2>3 DEF LookupsInv
<1>14. GroupsPaid'
  <2>1. Cardinality(Used') = Cardinality(Used) + 1
    BY <1>1, GetUses DEF Issue, Pending
  <2> QED BY <1>2, <1>3, <1>4, <1>7, <2>1, UsedCount DEF GroupsPaid
<1>15. QueueWaits'
  BY <1>3 DEF QueueWaits, QueuedKeys
<1>16. CallbacksInv'
  <2>1. lookups \subseteq lookups'
    BY DEF Issue
  <2> QED BY <1>6, <1>10, <2>1, OneMoreWaits DEF Issue
<1> QED BY <1>12, <1>13, <1>14, <1>15, <1>16 DEF BatcherInv

(* Nobody is waiting that was not, and the lookups stay. *)
LEMMA CallbacksStay ==
  ASSUME BatcherInv, in_flight' = in_flight, queued' = queued, lookups' = lookups,
         num_pending_gets' = num_pending_gets, accepted' = accepted,
         NEW c \in Callbacks, status[c] \notin {"pending", "done"},
         status' = [status EXCEPT ![c] = status'[c]],
         \A d \in Callbacks : d # c => told'[d] = told[d],
         status'[c] = "done" => ~told'[c]
  PROVE  CallbacksInv'
PROOF
<1>1. Types /\ Apart /\ Waits /\ Verdicts /\ Tidy(lookups)
      /\ num_pending_gets = Cardinality(Waiting)
  BY DEF BatcherInv, CallbacksInv, LookupsInv
<1>2. \A d \in Callbacks : d # c => status'[d] = status[d]
  BY <1>1 DEF Types
<1>3. /\ \A j \in Keys : c \notin in_flight[j] /\ c \notin queued[j]
      /\ \A l \in lookups : c \notin l.saved
      /\ c \notin accepted
  BY <1>1 DEF Waits, Verdicts
<1>4. /\ \A j \in Keys : in_flight[j] \subseteq Callbacks /\ queued[j] \subseteq Callbacks
      /\ \A l \in lookups : l.saved \subseteq Callbacks
      /\ accepted \subseteq Callbacks
  BY <1>1 DEF Types, Tidy, LookupType
<1>5. Apart'
  BY <1>1 DEF Apart
<1>6. Waits'
  BY <1>1, <1>2, <1>3, <1>4 DEF Waits
<1>7. Verdicts'
  BY <1>1, <1>2, <1>3, <1>4 DEF Verdicts
<1>8. Waiting' = Waiting
  BY WaitingIsIn
<1> QED BY <1>1, <1>5, <1>6, <1>7, <1>8 DEF CallbacksInv

LEMMA DropStep ==
  ASSUME BatcherInv, NEW c \in Callbacks, NEW k \in Keys, Drop(c, k), crashed' = crashed
  PROVE  BatcherInv'
PROOF
<1>1. Types /\ LookupsInv /\ GroupsPaid /\ QueueWaits
  BY DEF BatcherInv
<1>2. status'[c] = "dropped" /\ status' = [status EXCEPT ![c] = status'[c]]
  BY <1>1 DEF Drop, Types
<1>3. Types'
  BY <1>1 DEF Types, Drop
<1>4. LookupsInv'
  BY <1>1, LookupsStay DEF Drop, counts
<1>5. QueuedKeys' = QueuedKeys
  BY DEF Drop, QueuedKeys
<1>6. num_in_flight_groups \in Nat
  BY <1>1, TidyFinite DEF LookupsInv
<1>7. GroupsPaid'
  <2>1. Cardinality(Used') = Cardinality(Used) + 1
    BY <1>1, GetUses DEF Drop
  <2> QED BY <1>1, <1>5, <1>6, <2>1, UsedCount DEF GroupsPaid, Drop, counts
<1>8. QueueWaits'
  BY <1>1, <1>5 DEF QueueWaits, Drop, counts
<1>9. CallbacksInv'
  BY <1>2, CallbacksStay DEF Drop, counts
<1> QED BY <1>3, <1>4, <1>7, <1>8, <1>9 DEF BatcherInv

(* What the callbacks of a set are told. *)
Told(t, cs, available) ==
  [c \in Callbacks |-> IF c \in cs THEN c \in available ELSE t[c]]

LEMMA WhatIsTold ==
  ASSUME NEW t \in [Callbacks -> BOOLEAN], NEW cs, NEW available
  PROVE  /\ Told(t, cs, available) \in [Callbacks -> BOOLEAN]
         /\ \A c \in Callbacks : c \in cs => (Told(t, cs, available)[c] <=> c \in available)
         /\ \A c \in Callbacks : c \notin cs => Told(t, cs, available)[c] = t[c]
PROOF
<1>1. ASSUME NEW c \in Callbacks
      PROVE  (IF c \in cs THEN c \in available ELSE t[c]) \in BOOLEAN
  <2>1. t[c] \in BOOLEAN /\ (c \in available) \in BOOLEAN
    BY SMT
  <2> QED BY <2>1, Zenon
<1>2. Told(t, cs, available) \in [Callbacks -> BOOLEAN]
  BY <1>1, Zenon DEF Told
<1>3. \A c \in Callbacks : c \in cs => (Told(t, cs, available)[c] <=> c \in available)
  BY Zenon DEF Told
<1>4. \A c \in Callbacks : c \notin cs => Told(t, cs, available)[c] = t[c]
  BY Zenon DEF Told
<1> QED BY <1>2, <1>3, <1>4

LEMMA ReportDroppedStep ==
  ASSUME BatcherInv, NEW c \in Callbacks, ReportDropped(c), crashed' = crashed
  PROVE  BatcherInv'
PROOF
<1>1. Types /\ LookupsInv /\ GroupsPaid /\ QueueWaits
  BY DEF BatcherInv
<1>2. /\ status' = [d \in Callbacks |-> IF d \notin {c} THEN status[d]
                                       ELSE IF status[d] = "done" THEN "twice" ELSE "done"]
      /\ told' = [d \in Callbacks |-> IF d \in {c} THEN d \in {} ELSE told[d]]
  BY DEF ReportDropped, DoneWith
<1>3. /\ status'[c] = "done" /\ ~told'[c]
      /\ \A d \in Callbacks : d # c => status'[d] = status[d] /\ told'[d] = told[d]
      /\ told' \in [Callbacks -> BOOLEAN]
      /\ status' \in [Callbacks -> {"unused", "pending", "dropped", "done"}]
  <2>1. status[c] = "dropped"
    BY DEF ReportDropped
  <2>2. /\ status'[c] = "done" /\ \A d \in Callbacks : d # c => status'[d] = status[d]
        /\ status' \in [Callbacks -> {"unused", "pending", "dropped", "done"}]
    BY <1>1, <1>2, <2>1 DEF Types
  <2>3. /\ told'[c] <=> c \in {}
        /\ \A d \in Callbacks : d # c => told'[d] = told[d]
        /\ told' \in [Callbacks -> BOOLEAN]
    <3>1. told \in [Callbacks -> BOOLEAN]
      BY <1>1 DEF Types
    <3>2. told' = Told(told, {c}, {})
      BY <1>2, Zenon DEF Told
    <3> QED BY <3>1, <3>2, WhatIsTold
  <2> QED BY <2>2, <2>3
<1>4. status' = [status EXCEPT ![c] = status'[c]]
  BY <1>1, <1>3 DEF Types
<1>5. Types'
  BY <1>1, <1>3 DEF Types, ReportDropped
<1>6. LookupsInv'
  BY <1>1, LookupsStay DEF ReportDropped, counts
<1>7. QueuedKeys' = QueuedKeys
  BY DEF ReportDropped, QueuedKeys
<1>8. Used' = Used
  BY <1>3, NobodyUsed DEF ReportDropped
<1>9. GroupsPaid' /\ QueueWaits'
  BY <1>1, <1>7, <1>8 DEF GroupsPaid, QueueWaits, ReportDropped, counts
<1>10. CallbacksInv'
  BY <1>3, <1>4, CallbacksStay DEF ReportDropped, counts
<1> QED BY <1>5, <1>6, <1>9, <1>10 DEF BatcherInv

---------------------------------------------------------------------------
(* The steps of a lookup.                                                   *)

LEMMA ValidateCandidateStep ==
  ASSUME BatcherInv, NEW l \in lookups, NEW found \in BOOLEAN, NEW acc \in SUBSET Callbacks,
         ValidateCandidate(l, found, acc)
  PROVE  BatcherInv'
PROOF
<1>1. /\ Types /\ LookupsInv /\ GroupsPaid /\ QueueWaits /\ Tidy(lookups)
      /\ Apart /\ Waits /\ Verdicts /\ num_pending_gets = Cardinality(Waiting)
  BY DEF BatcherInv, LookupsInv, CallbacksInv
<1>2. l \in LookupType /\ l.key \in Keys /\ l.pc = "sent" /\ l.saved \subseteq Callbacks
  BY <1>1 DEF Tidy, LookupType, ValidateCandidate
<1> DEFINE saved == IF l.saved = {} THEN in_flight[l.key] ELSE l.saved
           m == [l EXCEPT !.saved = saved, !.available = @ \cup acc]
<1>3. /\ acc \subseteq saved \ l.available
      /\ lookups' = (lookups \ {l}) \cup {m}
      /\ in_flight' = IF l.saved = {} THEN [in_flight EXCEPT ![l.key] = {}] ELSE in_flight
      /\ accepted' = accepted \cup acc /\ crashed' = CheckFails(l)
      /\ queued' = queued /\ counts' = counts /\ shutdown' = shutdown
      /\ outstanding' = outstanding /\ status' = status /\ told' = told
  BY DEF ValidateCandidate, Replace
<1>4. saved \subseteq Callbacks
  BY <1>1, <1>2 DEF Types
<1>5. /\ m \in LookupType /\ m.group = l.group /\ m.key = l.key /\ m.pc = "sent"
      /\ m.saved = saved /\ m.available = l.available \cup acc
  <2> HIDE DEF saved
  <2>1. m = [l EXCEPT !.saved = saved, !.available = @ \cup acc]
    OBVIOUS
  <2> HIDE DEF m
  <2>2. /\ m \in LookupType /\ m.group = l.group /\ m.key = l.key /\ m.pc = l.pc
        /\ m.saved = saved /\ m.available = l.available \cup acc
    BY <1>2, <1>4, <2>1 DEF LookupType
  <2> QED BY <1>2, <2>2
<1>6. /\ \A j \in Keys : in_flight'[j] \subseteq in_flight[j]
      /\ \A j \in Keys : in_flight'[j] \cap saved = {} /\ queued[j] \cap saved = {}
      /\ \A x \in lookups : x # l => x.saved \cap saved = {}
      /\ \A c \in saved : status[c] = "pending"
      /\ saved \cap accepted = l.available
      /\ \A c : (c \in saved \/ \E j \in Keys : c \in in_flight'[j])
                  <=> (c \in l.saved \/ \E j \in Keys : c \in in_flight[j])
  <2>1. CASE l.saved = {}
    <3>1. /\ saved = in_flight[l.key] /\ in_flight'[l.key] = {}
          /\ \A j \in Keys : j # l.key => in_flight'[j] = in_flight[j]
      BY <1>1, <1>2, <1>3, <2>1 DEF Types
    <3>2. l.available = {}
      BY <1>1, <2>1 DEF Verdicts
    <3>3. saved \cap accepted = {}
      BY <1>1, <1>2, <3>1 DEF Verdicts
    <3> HIDE DEF saved
    <3>4. \A j \in Keys : in_flight'[j] \cap saved = {} /\ queued[j] \cap saved = {}
      BY <1>1, <1>2, <3>1 DEF Apart
    <3>5. \A x \in lookups : x # l => x.saved \cap saved = {}
      BY <1>1, <1>2, <3>1 DEF Apart
    <3>6. \A c \in saved : status[c] = "pending"
      BY <1>1, <1>2, <3>1 DEF Waits
    <3>7. \A c : (c \in saved \/ \E j \in Keys : c \in in_flight'[j])
                  <=> (c \in l.saved \/ \E j \in Keys : c \in in_flight[j])
      BY <1>2, <2>1, <3>1
    <3>8. \A j \in Keys : in_flight'[j] \subseteq in_flight[j]
      BY <3>1
    <3> QED BY <3>2, <3>3, <3>4, <3>5, <3>6, <3>7, <3>8
  <2>2. CASE l.saved # {}
    <3>1. saved = l.saved /\ in_flight' = in_flight
      BY <1>3, <2>2
    <3> HIDE DEF saved
    <3>2. \A j \in Keys : in_flight'[j] \cap saved = {} /\ queued[j] \cap saved = {}
      BY <1>1, <3>1 DEF Apart
    <3>3. \A x \in lookups : x # l => x.saved \cap saved = {}
      BY <1>1, <3>1 DEF Apart
    <3>4. \A c \in saved : status[c] = "pending"
      BY <1>1, <1>2, <3>1 DEF Waits
    <3>5. saved \cap accepted = l.available
      BY <1>1, <3>1 DEF Verdicts
    <3> QED BY <3>1, <3>2, <3>3, <3>4, <3>5
  <2> QED BY <2>1, <2>2
<1>7. \A x \in lookups' : (x \in lookups /\ x # l) \/ x = m
  BY <1>3
<1> HIDE DEF saved, m
<1>8. Types'
  <2>1. in_flight' \in [Keys -> SUBSET Callbacks]
    BY <1>1, <1>3 DEF Types
  <2>2. crashed' \in BOOLEAN
    BY <1>3 DEF CheckFails
  <2> QED BY <1>1, <1>3, <2>1, <2>2 DEF Types
<1>9. LookupsInv' /\ num_in_flight_groups' = num_in_flight_groups
  <2>1. /\ Tidy(lookups') /\ GroupsOf(lookups') = GroupsOf(lookups)
        /\ \A g \in Groups : g # l.group => Open(lookups', g) = Open(lookups, g)
        /\ Cardinality(Open(lookups', l.group)) = Cardinality(Open(lookups, l.group))
        /\ Cardinality(Sent(lookups')) = Cardinality(Sent(lookups))
    BY <1>1, <1>2, <1>3, <1>5, ReplaceTidy
  <2>2. \A g \in Groups : Cardinality(Open(lookups', g)) = Cardinality(Open(lookups, g))
    BY <2>1
  <2> QED BY <1>1, <1>3, <2>1, <2>2 DEF LookupsInv, counts
<1>10. GroupsPaid' /\ QueueWaits'
  <2>1. QueuedKeys' = QueuedKeys /\ Used' = Used
    BY <1>3 DEF QueuedKeys, Used
  <2>2. \A k \in Keys : in_flight'[k] = {} \/ queued'[k] = {}
    BY <1>1, <1>3, <1>6 DEF QueueWaits
  <2> QED BY <1>1, <1>3, <1>9, <2>1, <2>2 DEF GroupsPaid, QueueWaits
<1>11. Apart'
  <2>1. ASSUME NEW i \in Keys, NEW j \in Keys
        PROVE  /\ i # j => in_flight'[i] \cap in_flight'[j] = {} /\ queued'[i] \cap queued'[j] = {}
               /\ in_flight'[i] \cap queued'[j] = {}
    BY <1>1, <1>3, <1>6 DEF Apart
  <2>2. ASSUME NEW x \in lookups', NEW j \in Keys
        PROVE  x.saved \cap (in_flight'[j] \cup queued'[j]) = {}
    BY <1>1, <1>3, <1>5, <1>6, <1>7 DEF Apart
  <2>3. ASSUME NEW x \in lookups', NEW y \in lookups', x # y
        PROVE  x.saved \cap y.saved = {}
    BY <1>1, <1>5, <1>6, <1>7, <2>3 DEF Apart
  <2> QED BY <2>1, <2>2, <2>3 DEF Apart
<1>12. Waits'
  <2>1. ASSUME NEW j \in Keys, NEW d \in in_flight'[j] \cup queued'[j]
        PROVE  status'[d] = "pending"
    BY <1>1, <1>3, <1>6 DEF Waits
  <2>2. ASSUME NEW x \in lookups', NEW d \in x.saved
        PROVE  status'[d] = (IF x.pc = "complete" THEN "done" ELSE "pending")
    BY <1>1, <1>3, <1>5, <1>6, <1>7 DEF Waits
  <2> QED BY <2>1, <2>2 DEF Waits
<1>13. Verdicts'
  <2>1. ASSUME NEW x \in lookups'
        PROVE  x.available = x.saved \cap accepted'
    <3>1. CASE x = m
      BY <1>3, <1>5, <1>6, <3>1
    <3>2. CASE x \in lookups /\ x # l
      BY <1>1, <1>3, <1>6, <3>2 DEF Verdicts
    <3> QED BY <1>7, <3>1, <3>2
  <2>2. \A d \in accepted' : status'[d] \in {"pending", "done"}
    BY <1>1, <1>3, <1>6 DEF Verdicts
  <2>3. \A j \in Keys : (in_flight'[j] \cup queued'[j]) \cap accepted' = {}
    BY <1>1, <1>3, <1>6 DEF Verdicts
  <2>4. \A d \in Callbacks : status'[d] = "done" => (told'[d] <=> d \in accepted')
    <3>1. \A d \in Callbacks : status[d] = "done" => d \notin acc
      BY <1>3, <1>6
    <3> QED BY <1>1, <1>3, <3>1 DEF Verdicts
  <2> QED BY <2>1, <2>2, <2>3, <2>4 DEF Verdicts
<1>14. Waiting' = Waiting
  <2>1. ASSUME NEW d
        PROVE  d \in Waiting' <=> d \in Waiting
    <3>1. (\E x \in lookups' : x.pc = "sent" /\ d \in x.saved)
            <=> (d \in saved \/ \E x \in lookups : x # l /\ x.pc = "sent" /\ d \in x.saved)
      BY <1>3, <1>5, <1>7
    <3>2. (\E x \in lookups : x.pc = "sent" /\ d \in x.saved)
            <=> (d \in l.saved \/ \E x \in lookups : x # l /\ x.pc = "sent" /\ d \in x.saved)
      BY <1>2
    <3>3. d \in Waiting' <=> \/ \E j \in Keys : d \in in_flight'[j]
                             \/ \E j \in Keys : d \in queued[j]
                             \/ \E x \in lookups' : x.pc = "sent" /\ d \in x.saved
      <4>1. queued' = queued
        BY <1>3
      <4> QED BY <4>1, WaitingIsIn, IsWaiting
    <3>4. d \in Waiting <=> \/ \E j \in Keys : d \in in_flight[j]
                            \/ \E j \in Keys : d \in queued[j]
                            \/ \E x \in lookups : x.pc = "sent" /\ d \in x.saved
      BY WaitingIsIn, IsWaiting
    <3>5. (d \in saved \/ \E j \in Keys : d \in in_flight'[j])
            <=> (d \in l.saved \/ \E j \in Keys : d \in in_flight[j])
      BY <1>6
    <3> QED BY <3>1, <3>2, <3>3, <3>4, <3>5
  <2> QED BY <2>1
<1> QED BY <1>1, <1>3, <1>8, <1>9, <1>10, <1>11, <1>12, <1>13, <1>14
     DEF BatcherInv, CallbacksInv, counts

LEMMA DecrementInFlightGetsStep ==
  ASSUME BatcherInv, NEW l \in lookups, DecrementInFlightGets(l), crashed' = crashed
  PROVE  BatcherInv'
PROOF
<1>1. /\ Types /\ LookupsInv /\ GroupsPaid /\ QueueWaits /\ Tidy(lookups)
      /\ Apart /\ Waits /\ Verdicts /\ num_pending_gets = Cardinality(Waiting)
  BY DEF BatcherInv, LookupsInv, CallbacksInv
<1>2. l \in LookupType /\ l.pc = "sent" /\ l.saved \subseteq Callbacks
  BY <1>1 DEF Tidy, LookupType, DecrementInFlightGets
<1> DEFINE m == [l EXCEPT !.pc = "decremented"]
<1>3. /\ lookups' = (lookups \ {l}) \cup {m}
      /\ num_pending_gets' = num_pending_gets - Cardinality(l.saved)
      /\ num_in_flight_keys' = num_in_flight_keys - 1
      /\ in_flight' = in_flight /\ queued' = queued /\ shutdown' = shutdown
      /\ num_in_flight_groups' = num_in_flight_groups
      /\ outstanding' = outstanding /\ status' = status /\ told' = told /\ accepted' = accepted
  BY DEF DecrementInFlightGets, Replace, clients
<1>4. /\ m \in LookupType /\ m.group = l.group /\ m.key = l.key /\ m.pc = "decremented"
      /\ m.saved = l.saved /\ m.available = l.available
  BY <1>2, MovedLookup
<1>5. \A x \in lookups' : (x \in lookups /\ x # l) \/ x = m
  BY <1>3
<1> HIDE DEF m
<1>6. Types'
  BY <1>1, <1>3 DEF Types
<1>7. LookupsInv'
  <2>1. /\ Tidy(lookups') /\ GroupsOf(lookups') = GroupsOf(lookups)
        /\ \A g \in Groups : g # l.group => Open(lookups', g) = Open(lookups, g)
        /\ Cardinality(Open(lookups', l.group)) = Cardinality(Open(lookups, l.group))
        /\ Sent(lookups') = Sent(lookups) \ {l}
    BY <1>1, <1>2, <1>3, <1>4, ReplaceTidy
  <2>2. \A g \in Groups : Cardinality(Open(lookups', g)) = Cardinality(Open(lookups, g))
    BY <2>1
  <2>3. l \in Sent(lookups)
    BY <1>2 DEF Sent
  <2>4. Cardinality(Sent(lookups) \ {l}) = Cardinality(Sent(lookups)) - 1
    BY <1>1, <2>3, TidyFinite, FS_RemoveElement
  <2> QED BY <1>1, <1>3, <2>1, <2>2, <2>4 DEF LookupsInv
<1>8. GroupsPaid' /\ QueueWaits'
  <2>1. QueuedKeys' = QueuedKeys /\ Used' = Used
    BY <1>3 DEF QueuedKeys, Used
  <2> QED BY <1>1, <1>3, <2>1 DEF GroupsPaid, QueueWaits
<1>9. Apart'
  <2>1. ASSUME NEW x \in lookups', NEW y \in lookups', x # y
        PROVE  x.saved \cap y.saved = {}
    BY <1>1, <1>4, <1>5, <2>1 DEF Apart
  <2>2. ASSUME NEW x \in lookups', NEW j \in Keys
        PROVE  x.saved \cap (in_flight'[j] \cup queued'[j]) = {}
    BY <1>1, <1>3, <1>4, <1>5 DEF Apart
  <2> QED BY <1>1, <1>3, <2>1, <2>2 DEF Apart
<1>10. Waits' /\ Verdicts'
  <2>1. \A x \in lookups' : \A d \in x.saved :
          status'[d] = (IF x.pc = "complete" THEN "done" ELSE "pending")
    BY <1>1, <1>2, <1>3, <1>4, <1>5 DEF Waits
  <2>2. \A x \in lookups' : x.available = x.saved \cap accepted'
    BY <1>1, <1>3, <1>4, <1>5 DEF Verdicts
  <2> QED BY <1>1, <1>3, <2>1, <2>2 DEF Waits, Verdicts
<1>11. Waiting = Waiting' \cup l.saved /\ Waiting' \cap l.saved = {}
  <2>1. ASSUME NEW d
        PROVE  /\ d \in Waiting <=> d \in Waiting' \/ d \in l.saved
               /\ ~(d \in Waiting' /\ d \in l.saved)
    <3>1. (\E x \in lookups' : x.pc = "sent" /\ d \in x.saved)
            <=> (\E x \in lookups : x # l /\ x.pc = "sent" /\ d \in x.saved)
      BY <1>3, <1>4, <1>5
    <3>2. (\E x \in lookups : x.pc = "sent" /\ d \in x.saved)
            <=> (d \in l.saved \/ \E x \in lookups : x # l /\ x.pc = "sent" /\ d \in x.saved)
      BY <1>2
    <3>3. d \in l.saved => ~(\E x \in lookups : x # l /\ x.pc = "sent" /\ d \in x.saved)
      BY <1>1 DEF Apart
    <3>4. d \in l.saved => ~(\E j \in Keys : d \in in_flight[j] \/ d \in queued[j])
      BY <1>1 DEF Apart
    <3>5. d \in Waiting' <=> \/ \E j \in Keys : d \in in_flight[j] \/ d \in queued[j]
                             \/ \E x \in lookups' : x.pc = "sent" /\ d \in x.saved
      BY <1>3, WaitingIsIn, IsWaiting
    <3>6. d \in Waiting <=> \/ \E j \in Keys : d \in in_flight[j] \/ d \in queued[j]
                            \/ \E x \in lookups : x.pc = "sent" /\ d \in x.saved
      BY WaitingIsIn, IsWaiting
    <3> QED BY <3>1, <3>2, <3>3, <3>4, <3>5, <3>6
  <2> QED BY <2>1
<1>12. Cardinality(Waiting') = Cardinality(Waiting) - Cardinality(l.saved)
  <2>1. IsFiniteSet(Waiting') /\ IsFiniteSet(l.saved)
    BY <1>1, <1>2, <1>11, WaitingTypes, BatcherAssumption, FS_Subset
  <2>2. Cardinality(Waiting' \cup l.saved)
          = Cardinality(Waiting') + Cardinality(l.saved) - Cardinality(Waiting' \cap l.saved)
    BY <2>1, FS_Union
  <2>3. Cardinality(Waiting' \cap l.saved) = 0
    BY <1>11, FS_EmptySet
  <2>4. Cardinality(Waiting') \in Nat /\ Cardinality(l.saved) \in Nat
    BY <2>1, FS_CardinalityType
  <2> QED BY <1>11, <2>2, <2>3, <2>4
<1> QED BY <1>1, <1>3, <1>6, <1>7, <1>8, <1>9, <1>10, <1>12 DEF BatcherInv, CallbacksInv

LEMMA ReportStep ==
  ASSUME BatcherInv, NEW l \in lookups, Report(l), crashed' = crashed
  PROVE  BatcherInv'
PROOF
<1>1. /\ Types /\ LookupsInv /\ GroupsPaid /\ QueueWaits /\ Tidy(lookups)
      /\ Apart /\ Waits /\ Verdicts /\ num_pending_gets = Cardinality(Waiting)
  BY DEF BatcherInv, LookupsInv, CallbacksInv
<1>2. /\ l \in LookupType /\ l.pc = "decremented" /\ l.saved \subseteq Callbacks
      /\ l.group \in Groups
  BY <1>1 DEF Tidy, LookupType, Report
<1> DEFINE m == [l EXCEPT !.pc = "complete"]
<1>3. /\ outstanding' = [outstanding EXCEPT ![l.group] = @ - 1]
      /\ lookups' = IF outstanding'[l.group] = 0
                    THEN (lookups \ {l}) \cup {m} ELSE lookups \ {l}
      /\ in_flight' = in_flight /\ queued' = queued /\ shutdown' = shutdown
      /\ num_in_flight_groups' = num_in_flight_groups
      /\ num_in_flight_keys' = num_in_flight_keys
      /\ num_pending_gets' = num_pending_gets /\ accepted' = accepted
  BY DEF Report, Replace, counts
<1>4. /\ m \in LookupType /\ m.group = l.group /\ m.key = l.key /\ m.pc = "complete"
      /\ m.saved = l.saved /\ m.available = l.available
  BY <1>2, MovedLookup
<1>5. \A x \in lookups' : (x \in lookups /\ x # l) \/ x = m
  BY <1>3
<1>6. /\ \A x \in lookups : x # l => x \in lookups'
      /\ outstanding'[l.group] = 0 => lookups' = (lookups \ {l}) \cup {m}
      /\ outstanding'[l.group] # 0 => lookups' = lookups \ {l}
  BY <1>3
<1> HIDE DEF m
<1>7. \A c \in l.saved : status[c] = "pending"
  BY <1>1, <1>2 DEF Waits
<1>8. /\ status' \in [Callbacks -> {"unused", "pending", "dropped", "done"}]
      /\ \A c \in Callbacks : status'[c] = (IF c \in l.saved THEN "done" ELSE status[c])
  <2>1. status' = [c \in Callbacks |-> IF c \notin l.saved THEN status[c]
                                      ELSE IF status[c] = "done" THEN "twice" ELSE "done"]
    BY DEF Report, DoneWith
  <2> QED BY <1>1, <1>7, <2>1 DEF Types
<1>9. /\ told' \in [Callbacks -> BOOLEAN]
      /\ \A c \in Callbacks : c \in l.saved => (told'[c] <=> c \in l.available)
      /\ \A c \in Callbacks : c \notin l.saved => told'[c] = told[c]
  <2>1. told' = Told(told, l.saved, l.available)
    BY DEF Report, DoneWith, OwnVerdict, Told
  <2>2. told \in [Callbacks -> BOOLEAN]
    BY <1>1 DEF Types
  <2> QED BY <2>1, <2>2, WhatIsTold
<1>10. /\ outstanding[l.group] = Cardinality(Open(lookups, l.group))
       /\ l \in Open(lookups, l.group) /\ IsFiniteSet(Open(lookups, l.group))
       /\ Cardinality(Open(lookups, l.group)) \in Nat
       /\ Cardinality(Open(lookups, l.group) \ {l}) = Cardinality(Open(lookups, l.group)) - 1
       /\ Cardinality(Open(lookups, l.group) \ {l}) \in Nat
  <2>1. l \in Open(lookups, l.group)
    BY <1>2 DEF Open
  <2>2. IsFiniteSet(Open(lookups, l.group)) /\ Cardinality(Open(lookups, l.group)) \in Nat
    BY <1>1, TidyFinite
  <2>3. /\ Cardinality(Open(lookups, l.group) \ {l}) = Cardinality(Open(lookups, l.group)) - 1
        /\ Cardinality(Open(lookups, l.group) \ {l}) \in Nat
    BY <2>1, <2>2, FS_RemoveElement, FS_CardinalityType
  <2> QED BY <1>1, <1>2, <2>1, <2>2, <2>3 DEF LookupsInv
<1>11. /\ outstanding'[l.group] = Cardinality(Open(lookups, l.group) \ {l})
       /\ \A g \in Groups : g # l.group => outstanding'[g] = outstanding[g]
       /\ outstanding' \in [Groups -> Nat]
  <2>1. /\ outstanding'[l.group] = outstanding[l.group] - 1
        /\ \A g \in Groups : g # l.group => outstanding'[g] = outstanding[g]
    BY <1>1, <1>2, <1>3 DEF Types
  <2>2. outstanding[l.group] - 1 \in Nat
    BY <1>10
  <2>3. outstanding' \in [Groups -> Nat]
    BY <1>1, <1>3, <2>2 DEF Types
  <2> QED BY <1>10, <2>1, <2>3
<1>12. Types'
  BY <1>1, <1>3, <1>8, <1>9, <1>11 DEF Types
<1>13. LookupsInv'
  <2>1. CASE outstanding'[l.group] = 0
    <3>1. Open(lookups, l.group) = {l}
      <4>1. IsFiniteSet(Open(lookups, l.group) \ {l})
        BY <1>10, FS_RemoveElement
      <4>2. Open(lookups, l.group) \ {l} = {}
        BY <1>11, <2>1, <4>1, FS_EmptySet
      <4> QED BY <1>10, <4>2
    <3>2. /\ Tidy(lookups') /\ GroupsOf(lookups') = GroupsOf(lookups)
          /\ \A g \in Groups : g # l.group => Open(lookups', g) = Open(lookups, g)
          /\ Open(lookups', l.group) = {}
          /\ Sent(lookups') = Sent(lookups)
      BY <1>1, <1>2, <1>4, <1>6, <2>1, <3>1, ReplaceTidy
    <3>3. \A g \in Groups : outstanding'[g] = Cardinality(Open(lookups', g))
      BY <1>1, <1>11, <2>1, <3>2, FS_EmptySet DEF LookupsInv
    <3> QED BY <1>1, <1>3, <3>2, <3>3 DEF LookupsInv
  <2>2. CASE outstanding'[l.group] # 0
    <3>1. /\ Tidy(lookups') /\ Sent(lookups') = Sent(lookups)
          /\ \A g \in Groups : g # l.group => Open(lookups', g) = Open(lookups, g)
          /\ Open(lookups', l.group) = Open(lookups, l.group) \ {l}
          /\ Open(lookups', l.group) # {} => GroupsOf(lookups') = GroupsOf(lookups)
      BY <1>1, <1>2, <1>6, <2>2, RemoveTidy
    <3>2. Open(lookups', l.group) # {}
      BY <1>11, <2>2, <3>1, FS_EmptySet
    <3>3. \A g \in Groups : outstanding'[g] = Cardinality(Open(lookups', g))
      BY <1>1, <1>11, <3>1 DEF LookupsInv
    <3> QED BY <1>1, <1>3, <3>1, <3>2, <3>3 DEF LookupsInv
  <2> QED BY <2>1, <2>2
<1>14. GroupsPaid' /\ QueueWaits'
  <2>1. QueuedKeys' = QueuedKeys
    BY <1>3 DEF QueuedKeys
  <2>2. Used' = Used
    BY <1>7, <1>8, NobodyUsed
  <2> QED BY <1>1, <1>3, <2>1, <2>2 DEF GroupsPaid, QueueWaits
<1>15. Apart'
  <2>1. ASSUME NEW x \in lookups', NEW y \in lookups', x # y
        PROVE  x.saved \cap y.saved = {}
    BY <1>1, <1>4, <1>5, <2>1 DEF Apart
  <2>2. ASSUME NEW x \in lookups', NEW j \in Keys
        PROVE  x.saved \cap (in_flight'[j] \cup queued'[j]) = {}
    BY <1>1, <1>3, <1>4, <1>5 DEF Apart
  <2> QED BY <1>1, <1>3, <2>1, <2>2 DEF Apart
<1>16. Waits'
  <2>1. ASSUME NEW j \in Keys, NEW d \in in_flight'[j] \cup queued'[j]
        PROVE  status'[d] = "pending"
    <3>1. d \in Callbacks /\ d \notin l.saved /\ status[d] = "pending"
      BY <1>1, <1>3 DEF Apart, Waits, Types
    <3> QED BY <1>8, <3>1
  <2>2. ASSUME NEW x \in lookups', NEW d \in x.saved
        PROVE  status'[d] = (IF x.pc = "complete" THEN "done" ELSE "pending")
    <3>1. CASE x = m
      BY <1>2, <1>4, <1>8, <3>1
    <3>2. CASE x \in lookups /\ x # l
      <4>1. d \in Callbacks /\ d \notin l.saved
        BY <1>1, <3>2 DEF Apart, Tidy, LookupType
      <4> QED BY <1>1, <1>8, <3>2, <4>1 DEF Waits
    <3> QED BY <1>5, <3>1, <3>2
  <2> QED BY <2>1, <2>2 DEF Waits
<1>17. Verdicts'
  <2>1. \A x \in lookups' : x.available = x.saved \cap accepted
    BY <1>1, <1>4, <1>5 DEF Verdicts
  <2>2. \A d \in accepted : d \in Callbacks /\ status'[d] \in {"pending", "done"}
    BY <1>1, <1>8 DEF Verdicts, Types
  <2>3. \A d \in Callbacks : status'[d] = "done" => (told'[d] <=> d \in accepted)
    <3>1. l.available = l.saved \cap accepted
      BY <1>1 DEF Verdicts
    <3>2. ASSUME NEW d \in Callbacks, status'[d] = "done"
          PROVE  told'[d] <=> d \in accepted
      <4>1. CASE d \in l.saved
        BY <1>9, <3>1, <4>1
      <4>2. CASE d \notin l.saved
        <5>1. status[d] = "done" /\ told'[d] = told[d]
          BY <1>8, <1>9, <3>2, <4>2
        <5> QED BY <1>1, <5>1 DEF Verdicts
      <4> QED BY <4>1, <4>2
    <3> QED BY <3>2
  <2> QED BY <1>1, <1>3, <2>1, <2>2, <2>3 DEF Verdicts
<1>18. Waiting' = Waiting
  <2>1. ASSUME NEW d
        PROVE  d \in Waiting' <=> d \in Waiting
    <3>1. (\E x \in lookups' : x.pc = "sent" /\ d \in x.saved)
            <=> (\E x \in lookups : x.pc = "sent" /\ d \in x.saved)
      BY <1>2, <1>4, <1>5, <1>6
    <3> QED BY <1>3, <3>1, WaitingIsIn, IsWaiting
  <2> QED BY <2>1
<1> QED BY <1>1, <1>3, <1>12, <1>13, <1>14, <1>15, <1>16, <1>17, <1>18
     DEF BatcherInv, CallbacksInv

---------------------------------------------------------------------------
(* GroupComplete and ShutDown.                                              *)

(* The callbacks stay, or move from the queue to those in flight. *)
LEMMA CallbacksMove ==
  ASSUME BatcherInv, status' = status, told' = told, accepted' = accepted,
         num_pending_gets' = num_pending_gets,
         \/ in_flight' = in_flight /\ queued' = queued
         \/ \A k \in Keys : in_flight'[k] = in_flight[k] \cup queued[k] /\ queued'[k] = {},
         \A l \in lookups' : l \in lookups \/ (l.saved = {} /\ l.available = {}),
         \A l \in lookups : l.pc = "sent" => l \in lookups'
  PROVE  CallbacksInv'
PROOF
<1>1. /\ Apart /\ Waits /\ Verdicts /\ num_pending_gets = Cardinality(Waiting)
  BY DEF BatcherInv, CallbacksInv
<1>2. /\ \A k \in Keys : in_flight'[k] \subseteq in_flight[k] \cup queued[k]
      /\ \A k \in Keys : queued'[k] \subseteq queued[k]
      /\ \A k \in Keys : in_flight'[k] \cup queued'[k] = in_flight[k] \cup queued[k]
      /\ \A k \in Keys : in_flight'[k] = in_flight[k] \/ queued' = [j \in Keys |-> {}] \/ queued'[k] = {}
  OBVIOUS
<1>3. Apart'
  <2>1. ASSUME NEW i \in Keys, NEW j \in Keys
        PROVE  /\ i # j => in_flight'[i] \cap in_flight'[j] = {} /\ queued'[i] \cap queued'[j] = {}
               /\ in_flight'[i] \cap queued'[j] = {}
    <3>1. CASE in_flight' = in_flight /\ queued' = queued
      BY <1>1, <3>1 DEF Apart
    <3>2. CASE \A k \in Keys : in_flight'[k] = in_flight[k] \cup queued[k] /\ queued'[k] = {}
      BY <1>1, <3>2 DEF Apart
    <3> QED BY <3>1, <3>2
  <2>2. ASSUME NEW x \in lookups', NEW j \in Keys
        PROVE  x.saved \cap (in_flight'[j] \cup queued'[j]) = {}
    BY <1>1, <1>2 DEF Apart
  <2>3. ASSUME NEW x \in lookups', NEW y \in lookups', x # y
        PROVE  x.saved \cap y.saved = {}
    BY <1>1, <2>3 DEF Apart
  <2> QED BY <2>1, <2>2, <2>3 DEF Apart
<1>4. Waits'
  <2>1. ASSUME NEW j \in Keys, NEW d \in in_flight'[j] \cup queued'[j]
        PROVE  status'[d] = "pending"
    BY <1>1, <1>2 DEF Waits
  <2>2. ASSUME NEW x \in lookups', NEW d \in x.saved
        PROVE  status'[d] = (IF x.pc = "complete" THEN "done" ELSE "pending")
    BY <1>1 DEF Waits
  <2> QED BY <2>1, <2>2 DEF Waits
<1>5. Verdicts'
  <2>1. \A x \in lookups' : x.available = x.saved \cap accepted
    BY <1>1 DEF Verdicts
  <2>2. \A j \in Keys : (in_flight'[j] \cup queued'[j]) \cap accepted = {}
    BY <1>1, <1>2 DEF Verdicts
  <2> QED BY <1>1, <2>1, <2>2 DEF Verdicts
<1>6. Waiting' = Waiting
  <2>1. ASSUME NEW d
        PROVE  d \in Waiting' <=> d \in Waiting
    <3>1. (\E x \in lookups' : x.pc = "sent" /\ d \in x.saved)
            <=> (\E x \in lookups : x.pc = "sent" /\ d \in x.saved)
      OBVIOUS
    <3>2. (\E j \in Keys : d \in in_flight'[j] \/ d \in queued'[j])
            <=> (\E j \in Keys : d \in in_flight[j] \/ d \in queued[j])
      BY <1>2
    <3> QED BY <3>1, <3>2, WaitingIsIn, IsWaiting
  <2> QED BY <2>1
<1> QED BY <1>1, <1>3, <1>4, <1>5, <1>6 DEF CallbacksInv

(* The queue becomes a group of lookups. *)
LEMMA CreateRequestMakes ==
  ASSUME Types, QueueWaits, NEW g \in Groups, NEW rest, NEW absent \in BOOLEAN,
         Tidy(rest), g \notin GroupsOf(rest), QueuedKeys # {},
         CreateRequest(g, rest, absent),
         \A h \in Groups : h # g => outstanding[h] = Cardinality(Open(rest, h)),
         num_in_flight_keys = Cardinality(Sent(rest))
  PROVE  /\ Tidy(lookups') /\ GroupsOf(lookups') = GroupsOf(rest) \cup {g}
         /\ \A h \in Groups : outstanding'[h] = Cardinality(Open(lookups', h))
         /\ num_in_flight_keys' = Cardinality(Sent(lookups'))
         /\ rest \subseteq lookups'
         /\ \A l \in lookups' : l \in rest \/ (l.saved = {} /\ l.available = {})
         /\ \A k \in Keys : in_flight'[k] = in_flight[k] \cup queued[k] /\ queued'[k] = {}
         /\ QueuedKeys' = {}
         /\ in_flight' \in [Keys -> SUBSET Callbacks]
         /\ queued' \in [Keys -> SUBSET Callbacks]
         /\ outstanding' \in [Groups -> Nat]
PROOF
<1> DEFINE K == QueuedKeys
<1>1. /\ in_flight' = [k \in Keys |-> IF in_flight[k] = {} THEN queued[k] ELSE in_flight[k]]
      /\ num_in_flight_keys' = num_in_flight_keys + Cardinality(K)
      /\ queued' = [k \in Keys |-> {}]
      /\ outstanding' = [outstanding EXCEPT ![g] = Cardinality(K)]
      /\ lookups' = rest \cup Batch(g, K, absent)
  BY DEF CreateRequest, ClearQueued, Batch
<1>2. K \in SUBSET Keys /\ K # {}
  BY DEF QueuedKeys
<1>3. QueuedKeys' = {}
  BY <1>1 DEF QueuedKeys
<1> HIDE DEF K
<1>4. /\ Tidy(lookups') /\ GroupsOf(lookups') = GroupsOf(rest) \cup {g}
      /\ \A h \in Groups : h # g => Open(lookups', h) = Open(rest, h)
      /\ Cardinality(Open(lookups', g)) = Cardinality(K)
      /\ Cardinality(Sent(lookups')) = Cardinality(Sent(rest)) + Cardinality(K)
      /\ Cardinality(K) \in Nat
  <2>1. lookups' = rest \cup Batch(g, K, absent)
    BY <1>1
  <2>2. Added(rest, g, K, lookups')
    BY <1>2, <2>1, AddBatch
  <2> QED BY <2>2 DEF Added
<1>5. \A h \in Groups : outstanding'[h] = Cardinality(Open(lookups', h))
  BY <1>1, <1>4 DEF Types
<1>6. \A l \in Batch(g, K, absent) : l.saved = {} /\ l.available = {}
  BY <1>2, NewLookup DEF Batch
<1>7. \A k \in Keys : in_flight'[k] = in_flight[k] \cup queued[k] /\ queued'[k] = {}
  BY <1>1 DEF QueueWaits
<1>8. /\ in_flight' \in [Keys -> SUBSET Callbacks] /\ queued' \in [Keys -> SUBSET Callbacks]
      /\ outstanding' \in [Groups -> Nat]
  BY <1>1, <1>4 DEF Types
<1> QED BY <1>1, <1>3, <1>4, <1>5, <1>6, <1>7, <1>8

LEMMA GroupCompleteStep ==
  ASSUME BatcherInv, NEW l \in lookups, GroupComplete(l), crashed' = crashed
  PROVE  BatcherInv'
PROOF
<1>1. Types /\ LookupsInv /\ GroupsPaid /\ QueueWaits /\ Tidy(lookups)
  BY DEF BatcherInv, LookupsInv
<1>2. l.pc = "complete" /\ l.group \in Groups
  BY <1>1 DEF GroupComplete, Tidy, LookupType
<1> DEFINE rest == lookups \ {l}
<1>3. /\ Tidy(rest) /\ Sent(rest) = Sent(lookups)
      /\ \A g \in Groups : g # l.group => Open(rest, g) = Open(lookups, g)
      /\ GroupsOf(rest) = GroupsOf(lookups) \ {l.group}
      /\ Open(rest, l.group) = {} /\ Open(lookups, l.group) = {}
  <2>1. rest = lookups \ {l} /\ l.pc # "sent"
    BY <1>2
  <2> HIDE DEF rest
  <2>2. \A g \in Groups : g # l.group => Open(rest, g) = Open(lookups, g)
    BY <1>1, <2>1, RemoveTidy
  <2>3. /\ Tidy(rest) /\ Sent(rest) = Sent(lookups)
        /\ l.pc = "complete" =>
             /\ GroupsOf(rest) = GroupsOf(lookups) \ {l.group}
             /\ Open(rest, l.group) = {} /\ Open(lookups, l.group) = {}
    BY <1>1, <2>1, RemoveTidy
  <2> QED BY <1>2, <2>2, <2>3
<1>4. /\ l.group \in GroupsOf(lookups) /\ IsFiniteSet(GroupsOf(lookups))
      /\ num_in_flight_groups = Cardinality(GroupsOf(lookups))
      /\ num_in_flight_groups \in Nat
  BY <1>1, TidyFinite DEF GroupsOf, LookupsInv
<1>5. /\ num_pending_gets' = num_pending_gets /\ shutdown' = shutdown
      /\ status' = status /\ told' = told /\ accepted' = accepted
  BY DEF GroupComplete, clients
<1>6. Used' = Used
  BY <1>5 DEF Used
<1>7. \A x \in lookups : x.pc = "sent" => x \in rest
  BY <1>2
<1>8. CASE QueuedKeys = {}
  <2>1. /\ num_in_flight_groups' = num_in_flight_groups - 1 /\ lookups' = rest
        /\ in_flight' = in_flight /\ queued' = queued
        /\ num_in_flight_keys' = num_in_flight_keys /\ outstanding' = outstanding
    BY <1>8 DEF GroupComplete, NothingQueued
  <2> HIDE DEF rest
  <2>2. Types'
    BY <1>1, <1>5, <2>1 DEF Types
  <2>3. LookupsInv'
    <3>1. Cardinality(GroupsOf(rest)) = Cardinality(GroupsOf(lookups)) - 1
      BY <1>3, <1>4, FS_RemoveElement
    <3>2. \A g \in Groups : Open(rest, g) = Open(lookups, g)
      BY <1>3
    <3> QED BY <1>1, <1>3, <1>4, <2>1, <3>1, <3>2 DEF LookupsInv
  <2>4. QueuedKeys' = {}
    BY <1>8, <2>1 DEF QueuedKeys
  <2>5. GroupsPaid' /\ QueueWaits'
    BY <1>1, <1>4, <1>6, <1>8, <2>1, <2>4, UsedCount DEF GroupsPaid, QueueWaits
  <2>6. CallbacksInv'
    <3>1. \A x \in lookups' : x \in lookups
      BY <2>1 DEF rest
    <3> QED BY <1>5, <1>7, <2>1, <3>1, CallbacksMove
  <2> QED BY <2>2, <2>3, <2>5, <2>6 DEF BatcherInv
<1>9. CASE QueuedKeys # {}
  <2>1. CreateRequest(l.group, rest, FALSE) /\ num_in_flight_groups' = num_in_flight_groups
    BY <1>9 DEF GroupComplete, NothingQueued
  <2>2. \A x \in rest : x \in lookups
    OBVIOUS
  <2> DEFINE absent == FALSE
  <2>3. absent \in BOOLEAN /\ CreateRequest(l.group, rest, absent)
    BY <2>1
  <2> HIDE DEF rest, absent
  <2>4. /\ l.group \notin GroupsOf(rest)
        /\ \A h \in Groups : h # l.group => outstanding[h] = Cardinality(Open(rest, h))
        /\ num_in_flight_keys = Cardinality(Sent(rest))
    BY <1>1, <1>3 DEF LookupsInv
  <2>5. /\ Tidy(lookups') /\ GroupsOf(lookups') = GroupsOf(rest) \cup {l.group}
        /\ \A h \in Groups : outstanding'[h] = Cardinality(Open(lookups', h))
        /\ num_in_flight_keys' = Cardinality(Sent(lookups'))
        /\ rest \subseteq lookups'
        /\ \A x \in lookups' : x \in rest \/ (x.saved = {} /\ x.available = {})
        /\ \A k \in Keys : in_flight'[k] = in_flight[k] \cup queued[k] /\ queued'[k] = {}
        /\ QueuedKeys' = {}
        /\ in_flight' \in [Keys -> SUBSET Callbacks]
        /\ queued' \in [Keys -> SUBSET Callbacks]
        /\ outstanding' \in [Groups -> Nat]
    BY <1>1, <1>2, <1>3, <1>9, <2>3, <2>4, CreateRequestMakes
  <2>6. Types'
    BY <1>1, <1>5, <2>5 DEF Types
  <2>7. LookupsInv'
    <3>1. GroupsOf(lookups') = GroupsOf(lookups)
      BY <1>3, <1>4, <2>5
    <3> QED BY <1>4, <2>1, <2>5, <3>1 DEF LookupsInv
  <2>8. GroupsPaid' /\ QueueWaits'
    BY <1>1, <1>4, <1>6, <1>9, <2>1, <2>5, UsedCount DEF GroupsPaid, QueueWaits
  <2>9. CallbacksInv'
    BY <1>5, <1>7, <2>2, <2>5, CallbacksMove
  <2> QED BY <2>6, <2>7, <2>8, <2>9 DEF BatcherInv
<1> QED BY <1>8, <1>9

LEMMA ShutDownStep ==
  ASSUME BatcherInv, ShutDown, crashed' = crashed
  PROVE  BatcherInv'
PROOF
<1>1. Types /\ LookupsInv /\ GroupsPaid /\ QueueWaits /\ Tidy(lookups)
  BY DEF BatcherInv, LookupsInv
<1>2. /\ num_in_flight_groups = Cardinality(GroupsOf(lookups))
      /\ num_in_flight_groups \in Nat /\ IsFiniteSet(GroupsOf(lookups))
  BY <1>1, TidyFinite DEF LookupsInv
<1>3. /\ num_pending_gets' = num_pending_gets /\ shutdown' = TRUE
      /\ status' = status /\ told' = told /\ accepted' = accepted
  BY DEF ShutDown, clients
<1>4. Used' = Used
  BY <1>3 DEF Used
<1>5. CASE QueuedKeys = {}
  <2>1. /\ num_in_flight_groups' = num_in_flight_groups /\ lookups' = lookups
        /\ in_flight' = in_flight /\ queued' = queued
        /\ num_in_flight_keys' = num_in_flight_keys /\ outstanding' = outstanding
    BY <1>5 DEF ShutDown
  <2>2. Types'
    BY <1>1, <1>3, <2>1 DEF Types
  <2>3. LookupsInv'
    BY <1>1, <2>1, LookupsStay
  <2>4. QueuedKeys' = {}
    BY <1>5, <2>1 DEF QueuedKeys
  <2>5. GroupsPaid' /\ QueueWaits'
    BY <1>1, <1>4, <1>5, <2>1, <2>4 DEF GroupsPaid, QueueWaits
  <2>6. CallbacksInv'
    BY <1>3, <2>1, CallbacksMove
  <2> QED BY <2>2, <2>3, <2>5, <2>6 DEF BatcherInv
<1>6. CASE QueuedKeys # {}
  <2>1. CreateRequest(NewGroup, lookups, TRUE)
        /\ num_in_flight_groups' = num_in_flight_groups + 1
    BY <1>6 DEF ShutDown, ShutDownGroup
  <2>2. num_in_flight_groups + 1 <= Cardinality(Used)
    BY <1>1, <1>6 DEF GroupsPaid
  <2> DEFINE g == NewGroup
             absent == TRUE
  <2>3. g \in Groups /\ g \notin GroupsOf(lookups)
    BY <1>1, <1>2, <2>2, UsedCount, Constants, NewGroupIsNew
  <2>4. absent \in BOOLEAN /\ CreateRequest(g, lookups, absent)
    BY <2>1
  <2> HIDE DEF g, absent
  <2>5. /\ \A h \in Groups : h # g => outstanding[h] = Cardinality(Open(lookups, h))
        /\ num_in_flight_keys = Cardinality(Sent(lookups))
    BY <1>1 DEF LookupsInv
  <2>6. /\ Tidy(lookups') /\ GroupsOf(lookups') = GroupsOf(lookups) \cup {g}
        /\ \A h \in Groups : outstanding'[h] = Cardinality(Open(lookups', h))
        /\ num_in_flight_keys' = Cardinality(Sent(lookups'))
        /\ lookups \subseteq lookups'
        /\ \A x \in lookups' : x \in lookups \/ (x.saved = {} /\ x.available = {})
        /\ \A k \in Keys : in_flight'[k] = in_flight[k] \cup queued[k] /\ queued'[k] = {}
        /\ QueuedKeys' = {}
        /\ in_flight' \in [Keys -> SUBSET Callbacks]
        /\ queued' \in [Keys -> SUBSET Callbacks]
        /\ outstanding' \in [Groups -> Nat]
    BY <1>1, <1>6, <2>3, <2>4, <2>5, CreateRequestMakes
  <2>7. Types'
    BY <1>1, <1>3, <2>6 DEF Types
  <2>8. LookupsInv'
    <3>1. Cardinality(GroupsOf(lookups) \cup {g}) = Cardinality(GroupsOf(lookups)) + 1
      BY <1>2, <2>3, FS_AddElement
    <3> QED BY <1>2, <2>1, <2>6, <3>1 DEF LookupsInv
  <2>9. GroupsPaid' /\ QueueWaits'
    BY <1>1, <1>2, <1>4, <2>1, <2>2, <2>6, UsedCount DEF GroupsPaid, QueueWaits
  <2>10. CallbacksInv'
    BY <1>3, <2>6, CallbacksMove
  <2> QED BY <2>7, <2>8, <2>9, <2>10 DEF BatcherInv
<1> QED BY <1>5, <1>6

LEMMA InvStep ==
  ASSUME BatcherInv, [Next]_vars
  PROVE  BatcherInv'
PROOF
<1>1. CASE UNCHANGED vars
  BY <1>1 DEF vars, counts, clients, BatcherInv, Types, LookupsInv, GroupsPaid, QueueWaits,
     CallbacksInv, Apart, Waits, Verdicts, QueuedKeys, Used, Waiting
<1>2. CASE Next
  BY <1>2, CoalesceStep, IssueStep, QueueStep, DropStep, ReportDroppedStep,
     ValidateCandidateStep, DecrementInFlightGetsStep, ReportStep, GroupCompleteStep, ShutDownStep
     DEF Next, Continue, Get
<1> QED BY <1>1, <1>2

---------------------------------------------------------------------------
(* The keys in flight.                                                      *)

(* Lookups that have been validated come and go. *)
LEMMA KeysStay ==
  ASSUME KeysInv, crashed' = crashed, in_flight' = in_flight,
         \A l \in lookups' : Unsaved(l) => l \in lookups,
         \A l \in lookups : Unsaved(l) => l \in lookups'
  PROVE  KeysInv'
BY DEF KeysInv, Unsaved

(* A Get that starts a lookup finds its key not in flight. *)
LEMMA IssueFindsNone ==
  ASSUME OneLookupPerKey, BatcherInv, KeysInv, NEW c \in Callbacks, NEW k \in Keys, Issue(c, k)
  PROVE  in_flight[k] = {}
PROOF
<1>1. /\ Types /\ LookupsInv /\ Tidy(lookups) /\ Waits
      /\ num_pending_gets = Cardinality(Waiting)
  BY DEF BatcherInv, LookupsInv, CallbacksInv
<1>2. CASE MaxParallel = 1
  <2>1. num_in_flight_groups = Cardinality(GroupsOf(lookups)) /\ num_in_flight_groups \in Nat
        /\ IsFiniteSet(GroupsOf(lookups))
    BY <1>1, TidyFinite DEF LookupsInv
  <2>2. num_in_flight_groups = 0
    BY <1>2, <2>1 DEF Issue, CanIssueGet
  <2>3. GroupsOf(lookups) = {}
    BY <2>1, <2>2, FS_EmptySet
  <2>4. lookups = {}
    BY <2>3 DEF GroupsOf
  <2> QED BY <2>4 DEF KeysInv
<1>3. CASE Cardinality(Callbacks) <= MaxPending
  <2>1. /\ Waiting \subseteq Callbacks /\ \A d \in Waiting : status[d] = "pending"
        /\ Cardinality(Waiting) \in Nat
    BY <1>1, WaitingTypes
  <2>2. Waiting # Callbacks
    BY <2>1 DEF Issue
  <2>3. Cardinality(Waiting) <= Cardinality(Callbacks)
        /\ Cardinality(Callbacks) # Cardinality(Waiting)
    BY <2>1, <2>2, BatcherAssumption, FS_Subset
  <2>4. num_pending_gets < MaxPending
    BY <1>1, <1>3, <2>1, <2>3, Constants
  <2> QED BY <2>4 DEF Issue, Joins, CanIssueGet, CanQueueCallback
<1> QED BY <1>2, <1>3 DEF OneLookupPerKey

LEMMA GetKeys ==
  ASSUME OneLookupPerKey, BatcherInv, KeysInv, NEW c \in Callbacks, NEW k \in Keys, Get(c, k),
         crashed' = crashed
  PROVE  KeysInv'
PROOF
<1>1. Types /\ LookupsInv /\ GroupsPaid /\ QueueWaits /\ Tidy(lookups)
  BY DEF BatcherInv, LookupsInv
<1>2. CASE Coalesce(c, k)
  <2>1. /\ lookups' = lookups /\ in_flight[k] # {} /\ in_flight'[k] # {}
        /\ \A j \in Keys : j # k => in_flight'[j] = in_flight[j]
    BY <1>1, <1>2 DEF Coalesce, Joins, Types
  <2>2. \A l \in lookups : l.key \in Keys
    BY <1>1 DEF Tidy, LookupType
  <2> QED BY <2>1, <2>2 DEF KeysInv
<1>3. CASE Issue(c, k)
  <2>1. in_flight[k] = {}
    BY <1>3, IssueFindsNone
  <2>2. NewGroup \in Groups
    <3>1. num_in_flight_groups \in Nat /\ num_in_flight_groups = Cardinality(GroupsOf(lookups))
      BY <1>1, TidyFinite DEF LookupsInv
    <3>2. QueuedKeys = {}
      BY <1>1, <1>3, <3>1, Constants DEF QueueWaits, Issue, CanIssueGet
    <3>3. num_in_flight_groups < Cardinality(Callbacks)
      BY <1>1, <1>3, <3>1, <3>2, UsedCount, Constants DEF GroupsPaid, Issue
    <3> QED BY <1>1, <3>1, <3>3, NewGroupIsNew
  <2> DEFINE absent == FALSE
             m == MultiCallback(NewGroup, k, absent)
  <2>3. lookups' = lookups \cup {m} /\ Unsaved(m) /\ m.key = k
    <3>1. lookups' = lookups \cup {m}
      BY <1>3 DEF Issue
    <3>2. absent \in BOOLEAN
      OBVIOUS
    <3> HIDE DEF absent
    <3>3. m.pc = "sent" /\ m.saved = {} /\ m.key = k
      BY <2>2, <3>2, NewLookup
    <3> QED BY <3>1, <3>3 DEF Unsaved
  <2>4. /\ in_flight'[k] # {} /\ \A j \in Keys : j # k => in_flight'[j] = in_flight[j]
    BY <1>1, <1>3 DEF Issue, Types
  <2>5. \A l \in lookups : Unsaved(l) => l.key # k
    BY <2>1 DEF KeysInv
  <2>6. \A l \in lookups : l.key \in Keys
    BY <1>1 DEF Tidy, LookupType
  <2> HIDE DEF m
  <2> QED BY <2>3, <2>4, <2>5, <2>6 DEF KeysInv
<1>4. CASE Queue(c, k) \/ Drop(c, k)
  BY <1>4, KeysStay DEF Queue, Drop
<1> QED BY <1>2, <1>3, <1>4 DEF Get

LEMMA ValidateCandidateKeys ==
  ASSUME BatcherInv, KeysInv, NEW l \in lookups, NEW found \in BOOLEAN,
         NEW acc \in SUBSET Callbacks, ValidateCandidate(l, found, acc)
  PROVE  KeysInv'
PROOF
<1>1. Types /\ Tidy(lookups)
  BY DEF BatcherInv, LookupsInv
<1>2. l \in LookupType /\ l.key \in Keys /\ l.pc = "sent" /\ \A x \in lookups : x.key \in Keys
  BY <1>1 DEF Tidy, LookupType, ValidateCandidate
<1> DEFINE saved == IF l.saved = {} THEN in_flight[l.key] ELSE l.saved
           m == [l EXCEPT !.saved = saved, !.available = @ \cup acc]
<1>3. /\ lookups' = (lookups \ {l}) \cup {m}
      /\ in_flight' = IF l.saved = {} THEN [in_flight EXCEPT ![l.key] = {}] ELSE in_flight
      /\ crashed' = CheckFails(l)
  BY DEF ValidateCandidate, Replace
<1>4. saved # {} /\ ~CheckFails(l)
  BY <1>2 DEF KeysInv, Unsaved, CheckFails
<1>5. m.saved = saved
  <2> HIDE DEF saved
  <2> QED BY <1>2 DEF LookupType
<1>6. ~Unsaved(m) /\ ~crashed'
  <2>1. ~Unsaved(m)
    BY <1>4, <1>5 DEF Unsaved
  <2> QED BY <1>3, <1>4, <2>1
<1>7. \A x \in lookups' : Unsaved(x) => x \in lookups /\ x # l
  BY <1>3, <1>6
<1>8. \A x \in lookups : x # l => x \in lookups'
  BY <1>3
<1> HIDE DEF m, saved
<1>9. CASE l.saved # {}
  BY <1>3, <1>4, <1>6, <1>7, <1>8, <1>9 DEF KeysInv, Unsaved
<1>10. CASE l.saved = {}
  <2>1. /\ in_flight'[l.key] = {}
        /\ \A j \in Keys : j # l.key => in_flight'[j] = in_flight[j]
    BY <1>1, <1>2, <1>3, <1>10 DEF Types
  <2>2. \A x \in lookups : Unsaved(x) /\ x.key = l.key => x = l
    BY <1>2, <1>10 DEF KeysInv, Unsaved
  <2> QED BY <1>2, <1>6, <1>7, <1>8, <2>1, <2>2 DEF KeysInv
<1> QED BY <1>9, <1>10

(* The queued keys get their lookups. *)
LEMMA CreateRequestKeys ==
  ASSUME BatcherInv, KeysInv, crashed' = crashed, QueuedKeys # {},
         NEW g \in Groups, NEW rest, NEW absent \in BOOLEAN, CreateRequest(g, rest, absent),
         rest \subseteq lookups, \A l \in lookups : Unsaved(l) => l \in rest
  PROVE  KeysInv'
PROOF
<1>1. QueueWaits /\ Types /\ Tidy(lookups)
  BY DEF BatcherInv, LookupsInv
<1>2. /\ in_flight' = [k \in Keys |-> IF in_flight[k] = {} THEN queued[k] ELSE in_flight[k]]
      /\ lookups' = rest \cup Batch(g, QueuedKeys, absent)
  BY DEF CreateRequest, Batch
<1>3. \A k \in Keys : in_flight'[k] = (IF k \in QueuedKeys THEN queued[k] ELSE in_flight[k])
  BY <1>1, <1>2 DEF QueueWaits, QueuedKeys
<1>4. /\ \A k \in QueuedKeys : k \in Keys /\ queued[k] # {} /\ in_flight[k] = {}
  BY <1>1 DEF QueueWaits, QueuedKeys
<1>5. /\ \A x \in Batch(g, QueuedKeys, absent) : Unsaved(x) /\ x.key \in QueuedKeys
      /\ \A x, y \in Batch(g, QueuedKeys, absent) : x.key = y.key => x = y
      /\ \A k \in QueuedKeys : \E x \in Batch(g, QueuedKeys, absent) : x.key = k
  <2>1. \A k \in QueuedKeys : Unsaved(MultiCallback(g, k, absent))
                              /\ MultiCallback(g, k, absent).key = k
    BY <1>4, NewLookup DEF Unsaved
  <2> QED BY <2>1 DEF Batch
<1>6. \A x \in lookups : x.key \in Keys
  BY <1>1 DEF Tidy, LookupType
<1>7. \A x \in rest : Unsaved(x) => x.key \notin QueuedKeys
  BY <1>4 DEF KeysInv
<1> DEFINE B == Batch(g, QueuedKeys, absent)
<1> HIDE DEF B
<1>8. \A x \in lookups' : Unsaved(x) => in_flight'[x.key] # {}
  BY <1>2, <1>3, <1>4, <1>5, <1>6, <1>7 DEF KeysInv
<1>9. \A x, y \in lookups' : Unsaved(x) /\ Unsaved(y) /\ x.key = y.key => x = y
  BY <1>2, <1>5, <1>7 DEF KeysInv
<1>10. ASSUME NEW k \in Keys, in_flight'[k] # {}
       PROVE  \E x \in lookups' : Unsaved(x) /\ x.key = k
  <2>1. CASE k \in QueuedKeys
    BY <1>2, <1>5, <2>1
  <2>2. CASE k \notin QueuedKeys
    BY <1>2, <1>3, <1>10, <2>2 DEF KeysInv
  <2> QED BY <2>1, <2>2
<1> QED BY <1>8, <1>9, <1>10 DEF KeysInv

LEMMA KeysStep ==
  ASSUME OneLookupPerKey, BatcherInv, KeysInv, [Next]_vars
  PROVE  KeysInv'
PROOF
<1>1. /\ Types /\ LookupsInv /\ GroupsPaid /\ Tidy(lookups)
      /\ \A l \in lookups : l \in LookupType /\ l.group \in Groups
  BY DEF BatcherInv, LookupsInv, Tidy, LookupType
<1>2. CASE UNCHANGED vars
  BY <1>2, KeysStay DEF vars
<1>3. ASSUME NEW c \in Callbacks, ReportDropped(c), crashed' = crashed
      PROVE  KeysInv'
  BY <1>3, KeysStay DEF ReportDropped
<1>4. ASSUME NEW l \in lookups, DecrementInFlightGets(l), crashed' = crashed
      PROVE  KeysInv'
  <2> DEFINE m == [l EXCEPT !.pc = "decremented"]
  <2>1. lookups' = (lookups \ {l}) \cup {m} /\ l.saved # {} /\ in_flight' = in_flight
    BY <1>4 DEF DecrementInFlightGets, Replace
  <2>2. ~Unsaved(m) /\ ~Unsaved(l)
    BY <1>1, <2>1, MovedLookup DEF Unsaved
  <2> HIDE DEF m
  <2> QED BY <1>4, <2>1, <2>2, KeysStay
<1>5. ASSUME NEW l \in lookups, Report(l), crashed' = crashed
      PROVE  KeysInv'
  <2> DEFINE m == [l EXCEPT !.pc = "complete"]
  <2>1. /\ \A x \in lookups' : x \in lookups \/ x = m
        /\ \A x \in lookups : x # l => x \in lookups'
        /\ in_flight' = in_flight /\ l.pc = "decremented"
    BY <1>5 DEF Report, Replace
  <2>2. ~Unsaved(m) /\ ~Unsaved(l)
    BY <1>1, <2>1, MovedLookup DEF Unsaved
  <2> HIDE DEF m
  <2> QED BY <1>5, <2>1, <2>2, KeysStay
<1>6. ASSUME NEW l \in lookups, GroupComplete(l), crashed' = crashed
      PROVE  KeysInv'
  <2>1. ~Unsaved(l)
    BY <1>6 DEF GroupComplete, Unsaved
  <2>2. CASE QueuedKeys = {}
    <3>1. lookups' = lookups \ {l} /\ in_flight' = in_flight
      BY <1>6, <2>2 DEF GroupComplete, NothingQueued
    <3> QED BY <1>6, <2>1, <3>1, KeysStay
  <2>3. CASE QueuedKeys # {}
    <3> DEFINE rest == lookups \ {l}
               absent == FALSE
    <3>1. CreateRequest(l.group, rest, absent) /\ absent \in BOOLEAN
      BY <1>6, <2>3 DEF GroupComplete, NothingQueued
    <3>2. rest \subseteq lookups /\ \A x \in lookups : Unsaved(x) => x \in rest
      BY <2>1
    <3> HIDE DEF rest, absent
    <3> QED BY <1>1, <1>6, <2>3, <3>1, <3>2, CreateRequestKeys
  <2> QED BY <2>2, <2>3
<1>7. ASSUME ShutDown, crashed' = crashed
      PROVE  KeysInv'
  <2>1. CASE QueuedKeys = {}
    BY <1>7, <2>1, KeysStay DEF ShutDown
  <2>2. CASE QueuedKeys # {}
    <3> DEFINE g == NewGroup
               absent == TRUE
    <3>1. CreateRequest(g, lookups, absent) /\ absent \in BOOLEAN
      BY <1>7, <2>2 DEF ShutDown
    <3>2. g \in Groups
      <4>1. num_in_flight_groups \in Nat /\ num_in_flight_groups = Cardinality(GroupsOf(lookups))
        BY <1>1, TidyFinite DEF LookupsInv
      <4>2. num_in_flight_groups < Cardinality(Callbacks)
        BY <1>1, <2>2, <4>1, UsedCount, Constants DEF GroupsPaid
      <4> QED BY <1>1, <4>1, <4>2, NewGroupIsNew
    <3> HIDE DEF g, absent
    <3> QED BY <1>7, <2>2, <3>1, <3>2, CreateRequestKeys
  <2> QED BY <2>1, <2>2
<1> QED BY <1>2, <1>3, <1>4, <1>5, <1>6, <1>7, GetKeys, ValidateCandidateKeys DEF Next, Continue

---------------------------------------------------------------------------
(* The theorems.                                                            *)

(* A group and a key name one lookup, each callback is in one place, and    *)
(* the counters count them.                                                 *)
THEOREM BatcherInvariant == Spec => []BatcherInv
BY InvInit, InvStep, PTL DEF Spec

(* Every counter, also Group::outstanding_lookups_, is a natural number, so *)
(* that none is decremented below zero, and NewGroup always finds a group.  *)
THEOREM TypeCorrect == Spec => []TypeOK
PROOF
<1>1. ASSUME BatcherInv
      PROVE  TypeOK
  <2>1. Types /\ LookupsInv /\ Tidy(lookups) /\ Waits /\ num_pending_gets = Cardinality(Waiting)
    BY <1>1 DEF BatcherInv, LookupsInv, CallbacksInv
  <2>2. num_in_flight_groups \in Nat /\ num_in_flight_keys \in Nat
    BY <2>1, TidyFinite DEF LookupsInv
  <2>3. num_pending_gets \in Nat
    BY <2>1, WaitingTypes
  <2>4. lookups \subseteq LookupType
    BY <2>1 DEF Tidy
  <2> QED BY <2>1, <2>2, <2>3, <2>4 DEF Types, TypeOK, LookupType
<1> QED BY <1>1, BatcherInvariant, PTL

(* The counters that admit, queue and drop Gets never drift from what they  *)
(* count.                                                                   *)
THEOREM CountersExact == Spec => []Accounted
PROOF
<1>1. ASSUME BatcherInv
      PROVE  Accounted
  <2>1. LookupsInv /\ num_pending_gets = Cardinality(Waiting)
    BY <1>1 DEF BatcherInv, CallbacksInv
  <2>2. GroupsOf(lookups) = LiveGroups /\ Sent(lookups) = {l \in lookups : l.pc = "sent"}
    BY DEF GroupsOf, LiveGroups, Sent
  <2> QED BY <2>1, <2>2 DEF Accounted, LookupsInv
<1> QED BY <1>1, BatcherInvariant, PTL

(* Each callback is called at most once and hears its own verdict, however  *)
(* the lookups of a key coincide.                                           *)
THEOREM EachToldItsOwn == Spec => []AnsweredTruly
PROOF
<1>1. BatcherInv => AnsweredTruly
  BY DEF BatcherInv, CallbacksInv, Verdicts, Types, AnsweredTruly
<1> QED BY <1>1, BatcherInvariant, PTL

(* ExtractInFlightKeys finds its key when one group is in flight at a time, *)
(* or the bound on pending Gets is out of reach.                            *)
THEOREM CheckHolds == ASSUME OneLookupPerKey PROVE Spec => []NoCheckFails
PROOF
<1>1. Init => KeysInv
  BY DEF Init, KeysInv
<1>2. BatcherInv /\ KeysInv /\ [Next]_vars => KeysInv'
  BY KeysStep
<1>3. KeysInv => NoCheckFails
  BY DEF KeysInv, NoCheckFails
<1> QED BY <1>1, <1>2, <1>3, BatcherInvariant, PTL DEF Spec
===============================================================================
