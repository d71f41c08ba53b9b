------------------------- MODULE SharedMemLockProofs -------------------------
(***************************************************************************)
(* SharedMemLock: at most one object is recorded as the holder of a name,  *)
(* and a holder stays recorded until it unlocks or is stolen from, for any *)
(* number of lock objects, names, slots and clients' timeouts.             *)
(***************************************************************************)
EXTENDS SharedMemLock, WellFoundedInduction, TLAPS

\* A slot that is taken is the one in which its name is found: the search for
\* the name ends there, so that no second slot is ever taken for it.
HeldIsFound ==
  \A s \in Slots : slot[s].acquired_at # kNotAcquired =>
    /\ Candidates(slot[s].hash) # {}
    /\ Candidate(slot[s].hash) = s

\* An object that believes to hold a lock is recorded, or was stolen from by
\* somebody with a later time; and nothing is stamped with a time to come.
StampsPast ==
  /\ \A s \in Slots : slot[s].acquired_at <= Stamp
  /\ \A o \in Locks : held_at[o] # kNotAcquired =>
       /\ held_at[o] <= Stamp
       /\ Recorded(o) \/ held_at[o] < Stamp

\* Objects of one name never believe in the same acquisition: their stamps differ.
StampsDiffer ==
  \A o, p \in Locks :
    o # p /\ Hash[o] = Hash[p] /\ held_at[o] # kNotAcquired => held_at[o] # held_at[p]

\* The inductive invariant.
LockInv == TypeOK /\ HeldIsFound /\ StampsPast /\ StampsDiffer

-------------------------------------------------------------------------------
(* Operators.                                                                *)

\* For any relation that relates smaller numbers to larger ones.
LEMMA MinimalIsLeast ==
  ASSUME NEW R, \A i, j \in Nat : j < i => <<j, i>> \in R,
         NEW S, S \subseteq Nat, \E i \in S : \A j \in S : ~(<<j, i>> \in R)
  PROVE  \E k \in S : \A j \in S : k <= j
PROOF
<1>1. PICK i \in S : \A j \in S : ~(<<j, i>> \in R)
  OBVIOUS
<1>2. \A j \in S : i <= j
  <2> TAKE j \in S
  <2>1. i \in Nat /\ j \in Nat
    OBVIOUS
  <2>2. ~(j < i)
    BY <1>1, <2>1
  <2> QED BY <2>1, <2>2
<1> QED BY <1>2

\* A nonempty set of numbers has a least element, and Least returns it.
LEMMA LeastExists ==
  ASSUME NEW S, S \subseteq Nat, S # {}
  PROVE  Least(S) \in S /\ \A j \in S : Least(S) <= j
PROOF
<1>1. \E i \in S : \A j \in S : ~(<<j, i>> \in OpToRel(<, Nat))
  BY NatLessThanWellFounded, WFMin
<1>2. \A i, j \in Nat : j < i => <<j, i>> \in OpToRel(<, Nat)
  BY DEF OpToRel
<1>3. \E k \in S : \A j \in S : k <= j
  BY <1>1, <1>2, MinimalIsLeast, Zenon
<1> QED BY <1>3 DEF Least

\* What is least stays least in a smaller set that has it.
LEMMA LeastOfPart ==
  ASSUME NEW S, S \subseteq Nat, NEW T, T \subseteq S, Least(S) \in T
  PROVE  Least(T) = Least(S)
PROOF
<1>1. /\ Least(S) \in S /\ \A j \in S : Least(S) <= j
      /\ Least(T) \in T /\ \A j \in T : Least(T) <= j
  BY LeastExists
<1>2. Least(S) \in Nat /\ Least(T) \in Nat
  BY <1>1
<1> QED BY <1>1, <1>2

LEMMA LeastOfTwo ==
  ASSUME NEW a \in Int, NEW b \in Int
  PROVE  Least({a, b}) \in Int /\ Least({a, b}) \in {a, b}
PROOF
<1>1. \E i \in {a, b} : \A j \in {a, b} : i <= j
  OBVIOUS
<1> QED BY <1>1 DEF Least

\* The search looks at slots of the bucket.
LEMMA ProbeInSlots ==
  ASSUME NEW h \in Nat, NEW i \in Slots
  PROVE  Probe(h, i) \in Slots
BY LockAssumption DEF Probe, Slots

\* The offsets at which slots with the hash h are.
Own(h) == {i \in Slots : slot[Probe(h, i)].hash = h}

LEMMA SlotsAreNumbers == Slots \subseteq Nat
BY LockAssumption DEF Slots

LEMMA CandidateOwn ==
  ASSUME NEW h \in Nat, Own(h) # {}
  PROVE  /\ Candidates(h) = Own(h) /\ Candidates(h) # {}
         /\ Candidate(h) = Probe(h, Least(Own(h)))
         /\ Candidate(h) \in Slots /\ slot[Candidate(h)].hash = h
PROOF
<1>1. Candidates(h) = Own(h)
  BY DEF Candidates, Own
<1>2. Least(Own(h)) \in Own(h)
  BY LeastExists, SlotsAreNumbers DEF Own
<1> QED BY <1>1, <1>2, ProbeInSlots DEF Candidate, Own

LEMMA CandidateFree ==
  ASSUME NEW h \in Nat, Own(h) = {}, Candidates(h) # {}
  PROVE  /\ Least(Candidates(h)) \in Slots
         /\ Candidate(h) \in Slots /\ slot[Candidate(h)].acquired_at = kNotAcquired
PROOF
<1>1. Candidates(h) = {i \in Slots : slot[Probe(h, i)].acquired_at = kNotAcquired}
  BY DEF Candidates, Own
<1>2. Least(Candidates(h)) \in Candidates(h)
  BY <1>1, LeastExists, SlotsAreNumbers
<1> QED BY <1>1, <1>2, ProbeInSlots DEF Candidate

-------------------------------------------------------------------------------
(* Types.                                                                    *)

LEMMA StampType ==
  ASSUME TypeOK
  PROVE  /\ Stamp \in 1..MaxTime + 1 /\ now <= Stamp
BY LockAssumption DEF TypeOK, Stamp, kNotAcquired

LEMMA CandidateType ==
  ASSUME NEW h \in Nat, Candidates(h) # {}
  PROVE  /\ Candidate(h) \in Slots
         /\ slot[Candidate(h)].hash = h \/ slot[Candidate(h)].acquired_at = kNotAcquired
BY CandidateOwn, CandidateFree

-------------------------------------------------------------------------------
(* The bucket.                                                               *)

\* A slot that is taken is recognised by its hash, and is the first of those.
LEMMA HeldOwn ==
  ASSUME TypeOK, HeldIsFound, NEW s \in Slots, slot[s].acquired_at # kNotAcquired,
         NEW h \in Nat, slot[s].hash = h
  PROVE  Own(h) # {} /\ Probe(h, Least(Own(h))) = s /\ Candidate(h) = s
PROOF
<1>1. Candidates(h) # {} /\ Candidate(h) = s
  BY DEF HeldIsFound
<1>2. Own(h) # {}
  BY <1>1, CandidateFree
<1> QED BY <1>1, <1>2, CandidateOwn

\* Whatever is written to the slot that the search for h ends at, under h, every
\* name that holds a slot is still found there.
LEMMA WriteKeepsFound ==
  ASSUME TypeOK, HeldIsFound, NEW h \in Nat, Candidates(h) # {},
         NEW r \in [hash : {h}, acquired_at : 0..MaxTime + 1],
         slot' = [slot EXCEPT ![Candidate(h)] = r]
  PROVE  HeldIsFound'
PROOF
<1> DEFINE c == Candidate(h)
<1>1. /\ c \in Slots /\ slot'[c] = r /\ r.hash = h
      /\ \A s \in Slots : s # c => slot'[s] = slot[s]
  BY CandidateType DEF TypeOK
<1>2. ASSUME NEW s \in Slots, slot'[s].acquired_at # kNotAcquired,
             NEW g \in Nat, slot'[s].hash = g
      PROVE  Own(g)' # {} /\ Probe(g, Least(Own(g)')) = s
  <2>1. CASE s = c
    <3>1. g = h
      BY <2>1, <1>2, <1>1
    <3>2. CASE Own(h) # {}
      <4>1. slot[c].hash = h
        BY <3>2, CandidateOwn
      <4>2. \A i \in Slots : slot'[Probe(h, i)].hash = h <=> slot[Probe(h, i)].hash = h
        BY <4>1, <1>1, ProbeInSlots
      <4>3. Own(h)' = Own(h)
        BY <4>2 DEF Own
      <4> QED BY <4>3, <3>1, <3>2, <2>1, CandidateOwn
    <3>3. CASE Own(h) = {}
      <4>1. \A i \in Slots : slot'[Probe(h, i)].hash = h <=> Probe(h, i) = c
        BY <3>3, <1>1, ProbeInSlots DEF Own
      <4>2. Least(Candidates(h)) \in Slots /\ c = Probe(h, Least(Candidates(h)))
        BY <3>3, CandidateFree DEF Candidate
      <4>3. Own(h)' = {i \in Slots : Probe(h, i) = c}
        BY <4>1 DEF Own
      <4>4. Own(h)' # {}
        BY <4>2, <4>3
      <4>5. Least(Own(h)') \in Own(h)'
        BY <4>3, <4>4, LeastExists, SlotsAreNumbers
      <4> QED BY <4>3, <4>4, <4>5, <3>1, <2>1
    <3> QED BY <3>2, <3>3
  <2>2. CASE s # c
    <3>1. slot[s].acquired_at # kNotAcquired /\ slot[s].hash = g
      BY <2>2, <1>2, <1>1
    <3>2. Own(g) # {} /\ Probe(g, Least(Own(g))) = s /\ Candidate(g) = s
      BY <3>1, HeldOwn
    <3>3. g # h
      BY <3>2, <2>2
    <3>4. \A i \in Slots : slot'[Probe(g, i)].hash = g <=>
                             Probe(g, i) # c /\ slot[Probe(g, i)].hash = g
      BY <3>3, <1>1, ProbeInSlots
    <3>5. Own(g)' = {i \in Own(g) : Probe(g, i) # c}
      BY <3>4 DEF Own
    <3>6. Own(g) \subseteq Nat /\ Least(Own(g)) \in Own(g)
      BY <3>2, LeastExists, SlotsAreNumbers DEF Own
    <3>7. Least(Own(g)) \in Own(g)'
      BY <3>5, <3>6, <3>2, <2>2
    <3>8. Least(Own(g)') = Least(Own(g))
      BY <3>5, <3>6, <3>7, LeastOfPart
    <3> QED BY <3>2, <3>7, <3>8
  <2> QED BY <2>1, <2>2
<1>3. ASSUME NEW s \in Slots
      PROVE  slot'[s].hash \in Nat
  BY <1>1 DEF TypeOK
<1>4. ASSUME NEW s \in Slots, slot'[s].acquired_at # kNotAcquired
      PROVE  Candidates(slot[s].hash)' # {} /\ Candidate(slot[s].hash)' = s
  <2> DEFINE g == slot'[s].hash
  <2>1. g \in Nat
    BY <1>3
  <2>2. Own(slot[s].hash)' # {} /\ Probe(g, Least(Own(slot[s].hash)')) = s
    BY <1>2, <1>4, <2>1 DEF Own
  <2>3. Candidates(slot[s].hash)' = Own(slot[s].hash)'
    BY <2>2 DEF Candidates, Own
  <2> QED BY <2>2, <2>3 DEF Candidate
<1> QED BY <1>4 DEF HeldIsFound

\* So is it when times are cleared, as Unlock does.
LEMMA ClearKeepsFound ==
  ASSUME TypeOK, TypeOK', HeldIsFound,
         \A s \in Slots : /\ slot'[s].hash = slot[s].hash
                          /\ slot'[s].acquired_at # kNotAcquired => slot'[s] = slot[s]
  PROVE  HeldIsFound'
PROOF
<1>1. ASSUME NEW s \in Slots, slot'[s].acquired_at # kNotAcquired
      PROVE  Candidates(slot[s].hash)' # {} /\ Candidate(slot[s].hash)' = s
  <2> DEFINE g == slot[s].hash
  <2>1. g \in Nat /\ slot'[s].hash = g /\ slot[s].acquired_at # kNotAcquired
    BY <1>1 DEF TypeOK
  <2>2. Own(g) # {} /\ Probe(g, Least(Own(g))) = s
    BY <2>1, HeldOwn
  <2>3. Own(slot[s].hash)' = Own(g)
    BY <2>1, ProbeInSlots DEF Own
  <2>4. Candidates(slot[s].hash)' = Own(g)
    BY <2>2, <2>3 DEF Candidates, Own
  <2> QED BY <2>1, <2>2, <2>4 DEF Candidate
<1> QED BY <1>1 DEF HeldIsFound

\* All of this is about the slots alone.
LEMMA SameSlotsFound ==
  ASSUME HeldIsFound, slot' = slot
  PROVE  HeldIsFound'
BY DEF HeldIsFound, Candidate, Candidates

\* Who is recorded as a holder is recorded where the search for its name ends.
LEMMA RecordedAtCandidate ==
  ASSUME TypeOK, HeldIsFound, NEW o \in Locks, Recorded(o)
  PROVE  /\ Candidate(Hash[o]) \in Slots
         /\ slot[Candidate(Hash[o])] = [hash |-> Hash[o], acquired_at |-> held_at[o]]
PROOF
<1>1. PICK s \in Slots : slot[s] = [hash |-> Hash[o], acquired_at |-> held_at[o]]
  BY DEF Recorded
<1>2. Hash[o] \in Nat /\ slot[s].hash = Hash[o] /\ slot[s].acquired_at # kNotAcquired
  BY <1>1, LockAssumption DEF Recorded
<1> QED BY <1>1, <1>2, HeldOwn

-------------------------------------------------------------------------------
(* A lock is taken, freed, or left by a process that dies.                   *)

\* A lock is taken only when its slot is free or stamped steal_ms ago or more.
LEMMA TakenIsOlder ==
  ASSUME TypeOK, NEW o \in Locks, NEW steal \in Steals \cup {Never},
         MayLock(o, steal)
  PROVE  LET a == slot[Candidate(Hash[o])].acquired_at
         IN  /\ a < Stamp
             /\ a # kNotAcquired => a + Least(Steals) <= Stamp
PROOF
<1> DEFINE c == Candidate(Hash[o])
           a == slot[c].acquired_at
<1>1. Hash[o] \in Nat /\ Candidates(Hash[o]) # {}
  BY LockAssumption DEF MayLock
<1>2. c \in Slots
  BY <1>1, CandidateType
<1>3. a \in Nat /\ Stamp \in Nat /\ Stamp > 0
  BY <1>2, StampType, LockAssumption DEF TypeOK
<1>4. CASE a = kNotAcquired
  BY <1>3, <1>4 DEF kNotAcquired
<1>5. CASE a # kNotAcquired
  <2>1. steal \in Steals /\ Stamp - a >= steal
    BY <1>5 DEF MayLock, OldEnough
  <2>2. Least(Steals) \in Steals /\ Least(Steals) <= steal
    BY <2>1, LeastExists, LockAssumption
  <2>3. \A x \in Steals : x \in Nat /\ x > 0
    BY LockAssumption
  <2> QED BY <2>1, <2>2, <2>3, <1>3
<1> QED BY <1>4, <1>5

\* Who held the lock that is taken loses it to a later time; all others keep theirs.
LEMMA TakenFrom ==
  ASSUME LockInv, NEW o \in Locks, NEW steal \in Steals \cup {Never},
         MayLock(o, steal), DoLockSlot(o),
         NEW p \in Locks, held_at[p] # kNotAcquired
  PROVE  LET c == Candidate(Hash[o])
         IN  /\ c \in Slots /\ slot'[c] = [hash |-> Hash[o], acquired_at |-> Stamp]
             /\ Hash[p] = Hash[o] =>
                  /\ held_at[p] < Stamp
                  /\ Recorded(p) => held_at[p] + Least(Steals) <= Stamp
             /\ Hash[p] # Hash[o] /\ Recorded(p) =>
                  \E s \in Slots : slot'[s] = [hash |-> Hash[p], acquired_at |-> held_at[p]]
PROOF
<1> DEFINE c == Candidate(Hash[o])
<1> USE DEF LockInv
<1>1. Hash[o] \in Nat /\ Candidates(Hash[o]) # {} /\ Hash[p] \in Nat
  BY LockAssumption DEF MayLock
<1>2. c \in Slots /\ (slot[c].hash = Hash[o] \/ slot[c].acquired_at = kNotAcquired)
  BY <1>1, CandidateType
<1>3. slot' = [slot EXCEPT ![c] = [hash |-> Hash[o], acquired_at |-> Stamp]]
  BY DEF DoLockSlot
<1>4. /\ slot'[c] = [hash |-> Hash[o], acquired_at |-> Stamp]
      /\ \A s \in Slots : s # c => slot'[s] = slot[s]
  BY <1>2, <1>3 DEF TypeOK
<1>5. ASSUME Hash[p] = Hash[o], Recorded(p)
      PROVE  held_at[p] < Stamp /\ held_at[p] + Least(Steals) <= Stamp
  <2>1. slot[Candidate(Hash[p])] = [hash |-> Hash[p], acquired_at |-> held_at[p]]
    BY <1>5, RecordedAtCandidate
  <2>2. slot[c].acquired_at = held_at[p]
    BY <1>5, <2>1
  <2> QED BY <2>2, TakenIsOlder
<1>6. ASSUME Hash[p] = Hash[o]
      PROVE  held_at[p] < Stamp
  BY <1>5, <1>6 DEF StampsPast
<1>7. ASSUME Hash[p] # Hash[o], Recorded(p)
      PROVE  \E s \in Slots : slot'[s] = [hash |-> Hash[p], acquired_at |-> held_at[p]]
  <2>1. PICK s \in Slots : slot[s] = [hash |-> Hash[p], acquired_at |-> held_at[p]]
    BY <1>7 DEF Recorded
  <2>2. slot[s].hash = Hash[p] /\ slot[s].acquired_at # kNotAcquired
    BY <2>1
  <2>3. s # c
    BY <2>2, <1>2, <1>7
  <2> QED BY <2>1, <2>3, <1>4
<1> QED BY <1>2, <1>4, <1>5, <1>6, <1>7

LEMMA TakeStep ==
  ASSUME LockInv, NEW o \in Locks, NEW steal \in Steals \cup {Never},
         MayLock(o, steal), DoLockSlot(o), now' = now
  PROVE  /\ slot' \in [Slots -> [hash : Nat, acquired_at : 0..MaxTime + 1]]
         /\ held_at' \in [Locks -> 0..MaxTime + 1]
         /\ HeldIsFound' /\ StampsPast' /\ StampsDiffer'
PROOF
<1> DEFINE c == Candidate(Hash[o])
           r == [hash |-> Hash[o], acquired_at |-> Stamp]
<1>1. TypeOK /\ HeldIsFound /\ StampsPast /\ StampsDiffer
  BY DEF LockInv
<1>2. Hash[o] \in Nat /\ Candidates(Hash[o]) # {}
  BY LockAssumption DEF MayLock
<1>3. c \in Slots
  BY <1>2, CandidateType
<1>4. Stamp \in 1..MaxTime + 1 /\ Stamp' = Stamp
  BY <1>1, StampType DEF Stamp
<1>5. Stamp \in Nat /\ Stamp \in 0..MaxTime + 1 /\ Stamp # kNotAcquired
  BY <1>4, LockAssumption DEF kNotAcquired
<1>6. r \in [hash : {Hash[o]}, acquired_at : 0..MaxTime + 1]
  BY <1>5
<1>7. slot' = [slot EXCEPT ![c] = r] /\ held_at' = [held_at EXCEPT ![o] = Stamp]
  BY DEF DoLockSlot
<1>8. /\ slot' \in [Slots -> [hash : Nat, acquired_at : 0..MaxTime + 1]]
      /\ held_at' \in [Locks -> 0..MaxTime + 1]
  BY <1>1, <1>2, <1>5, <1>7 DEF TypeOK
<1>9. HeldIsFound'
  BY <1>1, <1>2, <1>6, <1>7, WriteKeepsFound
<1>10. /\ held_at'[o] = Stamp /\ slot'[c] = r
       /\ \A p \in Locks : p # o => held_at'[p] = held_at[p]
       /\ \A s \in Slots : s # c => slot'[s] = slot[s]
  BY <1>1, <1>3, <1>7 DEF TypeOK
<1>11. StampsPast'
  <2>1. \A s \in Slots : slot'[s].acquired_at <= Stamp'
    BY <1>1, <1>4, <1>5, <1>10 DEF StampsPast
  <2>2. ASSUME NEW p \in Locks, held_at'[p] # kNotAcquired
        PROVE  held_at'[p] <= Stamp' /\ (Recorded(p)' \/ held_at'[p] < Stamp')
    <3>1. CASE p = o
      BY <3>1, <1>3, <1>4, <1>5, <1>10 DEF Recorded
    <3>2. CASE p # o
      <4>1. held_at'[p] = held_at[p] /\ held_at[p] <= Stamp
        BY <3>2, <2>2, <1>1, <1>10 DEF StampsPast
      <4>2. CASE Hash[p] = Hash[o]
        BY <4>1, <4>2, <2>2, <1>4, TakenFrom
      <4>3. CASE Hash[p] # Hash[o] /\ Recorded(p)
        BY <4>1, <4>3, <2>2, <1>4, TakenFrom DEF Recorded
      <4>4. CASE ~Recorded(p)
        BY <4>1, <4>4, <2>2, <1>1, <1>4 DEF StampsPast
      <4> QED BY <4>2, <4>3, <4>4
    <3> QED BY <3>1, <3>2
  <2> QED BY <2>1, <2>2 DEF StampsPast
<1>12. StampsDiffer'
  <2>1. ASSUME NEW p \in Locks, p # o, Hash[p] = Hash[o]
        PROVE  held_at'[p] # Stamp
    <3>1. CASE held_at[p] = kNotAcquired
      BY <3>1, <2>1, <1>5, <1>10
    <3>2. CASE held_at[p] # kNotAcquired
      <4>1. held_at[p] < Stamp
        BY <3>2, <2>1, TakenFrom
      <4>2. held_at[p] \in Nat
        BY <1>1, LockAssumption DEF TypeOK
      <4> QED BY <4>1, <4>2, <2>1, <1>5, <1>10
    <3> QED BY <3>1, <3>2
  <2> QED BY <2>1, <1>1, <1>10 DEF StampsDiffer
<1> QED BY <1>8, <1>9, <1>11, <1>12

\* Who does not unlock stays recorded when another does: the stamps differ.
LEMMA UnlockKeeps ==
  ASSUME LockInv, NEW o \in Locks, Unlock(o),
         NEW p \in Locks, p # o, Recorded(p)
  PROVE  \E s \in Slots : slot'[s] = [hash |-> Hash[p], acquired_at |-> held_at[p]]
PROOF
<1>1. PICK s \in Slots : slot[s] = [hash |-> Hash[p], acquired_at |-> held_at[p]]
  BY DEF Recorded
<1>2. ~Frees(o, s)
  BY <1>1 DEF Frees, LockInv, StampsDiffer, Recorded
<1> QED BY <1>1, <1>2 DEF Unlock

LEMMA UnlockStep ==
  ASSUME LockInv, NEW o \in Locks, Unlock(o)
  PROVE  TypeOK' /\ HeldIsFound' /\ StampsPast' /\ StampsDiffer'
PROOF
<1>1. TypeOK /\ HeldIsFound /\ StampsPast /\ StampsDiffer
  BY DEF LockInv
<1>2. TypeOK'
  BY <1>1, LockAssumption DEF TypeOK, Unlock, kNotAcquired
<1>3. \A s \in Slots : /\ slot'[s].hash = slot[s].hash
                       /\ \/ slot'[s] = slot[s]
                          \/ slot'[s].acquired_at = kNotAcquired
  BY <1>1 DEF TypeOK, Unlock
<1>4. HeldIsFound'
  BY <1>1, <1>2, <1>3, ClearKeepsFound
<1>5. /\ held_at'[o] = kNotAcquired /\ Stamp' = Stamp /\ Stamp \in Nat
      /\ \A p \in Locks : p # o => held_at'[p] = held_at[p]
  BY <1>1, StampType, LockAssumption DEF TypeOK, Unlock, Stamp
<1>6. StampsPast'
  <2>1. \A s \in Slots : slot'[s].acquired_at <= Stamp'
    BY <1>1, <1>3, <1>5 DEF StampsPast, kNotAcquired
  <2>2. ASSUME NEW p \in Locks, held_at'[p] # kNotAcquired
        PROVE  held_at'[p] <= Stamp' /\ (Recorded(p)' \/ held_at'[p] < Stamp')
    <3>1. p # o /\ held_at'[p] = held_at[p]
      BY <2>2, <1>5
    <3>2. Recorded(p) => Recorded(p)'
      BY <3>1, <2>2, UnlockKeeps DEF Recorded
    <3> QED BY <3>1, <3>2, <2>2, <1>1, <1>5 DEF StampsPast
  <2> QED BY <2>1, <2>2 DEF StampsPast
<1>7. StampsDiffer'
  BY <1>1, <1>5 DEF StampsDiffer
<1> QED BY <1>2, <1>4, <1>6, <1>7

\* A process that dies half way through a lock leaves all holders recorded.
LEMMA DieKeeps ==
  ASSUME LockInv, NEW o \in Locks, DieLocking(o), NEW p \in Locks, Recorded(p)
  PROVE  Recorded(p)'
PROOF
<1> DEFINE c == Candidate(Hash[o])
<1>1. PICK s \in Slots : slot[s] = [hash |-> Hash[p], acquired_at |-> held_at[p]]
  BY DEF Recorded
<1>2. s # c
  BY <1>1 DEF DieLocking, Recorded
<1>3. slot'[s] = slot[s] /\ held_at' = held_at
  BY <1>2 DEF DieLocking, LockInv, TypeOK
<1> QED BY <1>1, <1>3 DEF Recorded

LEMMA DieLockingStep ==
  ASSUME LockInv, NEW o \in Locks, DieLocking(o)
  PROVE  TypeOK' /\ HeldIsFound' /\ StampsPast' /\ StampsDiffer'
PROOF
<1> DEFINE c == Candidate(Hash[o])
           r == [hash |-> Hash[o], acquired_at |-> kNotAcquired]
<1>1. TypeOK /\ HeldIsFound /\ StampsPast /\ StampsDiffer
  BY DEF LockInv
<1>2. Hash[o] \in Nat /\ Candidates(Hash[o]) # {}
  BY LockAssumption DEF DieLocking
<1>3. c \in Slots /\ slot[c].acquired_at = kNotAcquired
  BY <1>2, CandidateType DEF DieLocking
<1>4. slot[c] \in [hash : Nat, acquired_at : 0..MaxTime + 1]
  BY <1>1, <1>3 DEF TypeOK
<1>5. [slot[c] EXCEPT !.hash = Hash[o]] = r
  BY <1>3, <1>4
<1>6. slot' = [slot EXCEPT ![c] = r]
  BY <1>5 DEF DieLocking
<1>7. r \in [hash : {Hash[o]}, acquired_at : 0..MaxTime + 1]
  BY LockAssumption DEF kNotAcquired
<1>8. TypeOK'
  <2>1. slot' \in [Slots -> [hash : Nat, acquired_at : 0..MaxTime + 1]]
    BY <1>1, <1>2, <1>6, <1>7 DEF TypeOK
  <2>2. call' \in [Locks ->
          [pc : {"none", "try", "once", "measure", "spin", "poll", "check",
                 "schedule", "cancel", "dead"},
           steal : Steals \cup {Never}, wait : Waits \cup {0},
           end : Nat, alarm : Int, interval : Int]]
    BY <1>1, LockAssumption DEF TypeOK, DieLocking, Request
  <2> QED BY <2>1, <2>2, <1>1 DEF TypeOK, DieLocking
<1>9. HeldIsFound'
  BY <1>1, <1>2, <1>6, <1>7, WriteKeepsFound
<1>10. Stamp' = Stamp /\ held_at' = held_at /\ Stamp \in Nat
  BY <1>1, StampType, LockAssumption DEF DieLocking, Stamp
<1>11. \A s \in Slots : slot'[s].acquired_at = slot[s].acquired_at
  BY <1>1, <1>3, <1>6 DEF TypeOK
<1>12. StampsPast'
  BY <1>1, <1>10, <1>11, DieKeeps DEF StampsPast
<1>13. StampsDiffer'
  BY <1>1, <1>10 DEF StampsDiffer
<1> QED BY <1>8, <1>9, <1>12, <1>13

-------------------------------------------------------------------------------
(* The steps of a client.                                                    *)

Pcs == {"none", "try", "once", "measure", "spin", "poll", "check",
        "schedule", "cancel", "dead"}
Calls == [pc : Pcs, steal : Steals \cup {Never}, wait : Waits \cup {0},
          end : Nat, alarm : Int, interval : Int]

LEMMA CallsOf ==
  ASSUME TypeOK
  PROVE  call \in [Locks -> Calls]
BY DEF TypeOK, Calls, Pcs

LEMMA RequestType ==
  ASSUME NEW pc \in Pcs, NEW steal \in Steals \cup {Never}, NEW wait \in Waits \cup {0}
  PROVE  Request(pc, steal, wait) \in Calls /\ NoRequest \in Calls
BY DEF Request, NoRequest, Calls, Pcs

\* What a step does to the table and the clock.
Takes(o) == \E steal \in Steals \cup {Never} : MayLock(o, steal) /\ DoLockSlot(o) /\ now' = now
Idle == slot' = slot /\ held_at' = held_at /\ now' \in 0..MaxTime /\ now <= now'

LEMMA TryCases ==
  ASSUME TypeOK, NEW o \in Locks, NEW steal \in Steals \cup {Never}, NEW pc \in Pcs,
         Try(o, steal, pc)
  PROVE  call' \in [Locks -> Calls] /\ (Takes(o) \/ Idle)
PROOF
<1>1. call \in [Locks -> Calls] /\ now \in 0..MaxTime /\ now <= now
  BY CallsOf DEF TypeOK
<1>2. CASE MayLock(o, steal)
  <2>1. DoLockSlot(o) /\ call' = [call EXCEPT ![o] = NoRequest] /\ now' = now
    BY <1>2 DEF Try
  <2>2. NoRequest \in Calls
    BY DEF Request, NoRequest, Calls, Pcs
  <2> QED BY <1>1, <1>2, <2>1, <2>2 DEF Takes
<1>3. CASE ~MayLock(o, steal)
  <2>1. call' = [call EXCEPT ![o].pc = pc] /\ slot' = slot /\ held_at' = held_at /\ now' = now
    BY <1>3 DEF Try, GoTo
  <2>2. call' \in [Locks -> Calls]
    BY <1>1, <2>1 DEF Calls
  <2> QED BY <1>1, <2>1, <2>2 DEF Idle
<1> QED BY <1>2, <1>3

LEMMA NextTryType ==
  ASSUME TypeOK, NEW o \in Locks
  PROVE  NextTry(o) \in Calls
PROOF
<1>1. call[o] \in Calls /\ now \in Int
  BY CallsOf DEF TypeOK
<1>2. /\ call[o].end \in Int /\ call[o].interval \in Int /\ call[o].alarm \in Int
      /\ call[o].steal \in Steals \cup {Never}
  BY <1>1 DEF Calls
<1>3. MaxInterval(o) \in Int
  <2>1. call[o].steal # Never => call[o].steal \in Nat
    BY <1>2, LockAssumption
  <2> QED BY <2>1, LockAssumption DEF MaxInterval
<1>4. 1 + call[o].interval + call[o].interval \div 2 \in Int
  BY <1>2
<1>5. Backoff(call[o].interval, MaxInterval(o)) \in Int
  BY <1>3, <1>4, LeastOfTwo DEF Backoff
<1>6. call[o].end - now \in Int
  BY <1>1, <1>2
<1>7. IntervalWithEnd(o) \in Int
  BY <1>5, <1>6, LeastOfTwo DEF IntervalWithEnd
<1>8. call[o].alarm + IntervalWithEnd(o) \in Int
  BY <1>2, <1>7
<1> HIDE DEF IntervalWithEnd
<1> QED BY <1>1, <1>7, <1>8 DEF NextTry, Calls, Pcs

\* Every step takes a lock, unlocks one, leaves one half taken, or only moves a
\* client or the clock on.
LEMMA NextCases ==
  ASSUME TypeOK, Next
  PROVE  /\ call' \in [Locks -> Calls]
         /\ Idle \/ \E o \in Locks : Takes(o) \/ Unlock(o) \/ DieLocking(o)
PROOF
<1>0. call \in [Locks -> Calls] /\ now \in 0..MaxTime /\ now <= now /\ now \in Nat /\ now \in Int
  BY CallsOf, LockAssumption DEF TypeOK
<1>1. ASSUME NEW o \in Locks, NEW steal \in Steals \cup {Never}, NEW wait \in Waits,
             Lock(o, steal, wait)
      PROVE  call' \in [Locks -> Calls] /\ Idle
  <2>1. Request("try", steal, wait) \in Calls
    BY RequestType DEF Pcs
  <2> QED BY <1>0, <1>1, <2>1 DEF Lock, Idle
<1>2. ASSUME NEW o \in Locks, Continue(o)
      PROVE  call' \in [Locks -> Calls] /\ (Takes(o) \/ Idle)
  <2>0. call[o] \in Calls /\ call[o].steal \in Steals \cup {Never}
    BY <1>0 DEF Calls
  <2>1. CASE TryLock(o)
    <3>1. PICK pc \in {"once", "measure"} : Try(o, Never, pc)
      BY <2>1 DEF TryLock
    <3> QED BY <3>1, TryCases DEF Pcs
  <2>2. CASE TryOnce(o)
    BY <2>0, <2>2, TryCases DEF TryOnce, Pcs
  <2>3. CASE Measure(o)
    <3>1. call[o].wait \in Nat
      <4>1. call[o].wait \in Waits \cup {0}
        BY <2>0 DEF Calls
      <4>2. Waits \cup {0} \subseteq Nat
        BY LockAssumption
      <4> QED BY <4>1, <4>2, Zenon
    <3>2. now + call[o].wait \in Nat
      BY <1>0, <3>1
    <3> QED BY <1>0, <2>0, <2>3, <3>2 DEF Measure, Idle, Calls, Pcs
  <2>4. CASE BusySpin(o)
    <3>1. PICK pc \in {"spin", "poll"} : Try(o, call[o].steal, pc)
      BY <2>4 DEF BusySpin, SpinThen
    <3> QED BY <2>0, <3>1, TryCases DEF Pcs
  <2>5. CASE Poll(o)
    BY <2>0, <2>5, TryCases DEF Poll, Pcs
  <2>6. CASE Check(o)
    <3>1. PICK pc \in {"cancel", "schedule"} :
            call' = [call EXCEPT ![o].pc = pc, ![o].alarm = now]
      BY <2>6 DEF Check
    <3>2. call' \in [Locks -> Calls]
      <4> DEFINE n == [call[o] EXCEPT !.pc = pc, !.alarm = now]
      <4>1. n \in Calls
        BY <1>0, <2>0 DEF Calls, Pcs
      <4>2. call' = [call EXCEPT ![o] = n]
        BY <1>0, <3>1
      <4> QED BY <1>0, <4>1, <4>2
    <3> QED BY <1>0, <2>6, <3>2 DEF Check, Idle
  <2>7. CASE Schedule(o)
    BY <1>0, <2>7, NextTryType DEF Schedule, Idle
  <2>8. CASE CallCancel(o)
    <3>1. NoRequest \in Calls
      BY DEF Request, NoRequest, Calls, Pcs
    <3> QED BY <1>0, <2>8, <3>1 DEF CallCancel, Idle
  <2> QED BY <1>2, <2>1, <2>2, <2>3, <2>4, <2>5, <2>6, <2>7, <2>8 DEF Continue
<1>3. ASSUME NEW o \in Locks, Unlock(o)
      PROVE  call' \in [Locks -> Calls]
  BY <1>0, <1>3 DEF Unlock
<1>4. ASSUME NEW o \in Locks, Die(o) \/ DieLocking(o)
      PROVE  call' \in [Locks -> Calls] /\ (Idle \/ DieLocking(o))
  <2>1. Request("dead", Never, 0) \in Calls
    BY RequestType DEF Pcs
  <2> QED BY <1>0, <1>4, <2>1 DEF Die, DieLocking, Idle
<1>5. CASE Tick
  BY <1>0, <1>5, LockAssumption DEF Tick, Idle
<1> QED BY <1>1, <1>2, <1>3, <1>4, <1>5 DEF Next

-------------------------------------------------------------------------------
(* The theorems.                                                             *)

LEMMA IdleStep ==
  ASSUME LockInv, Idle
  PROVE  HeldIsFound' /\ StampsPast' /\ StampsDiffer'
PROOF
<1>1. TypeOK /\ HeldIsFound /\ StampsPast /\ StampsDiffer
  BY DEF LockInv
<1>2. Stamp \in Nat /\ Stamp' \in Nat /\ Stamp <= Stamp'
  <2>1. now \in Nat /\ now' \in Nat /\ now <= now'
    BY <1>1, LockAssumption DEF TypeOK, Idle
  <2>2. /\ Stamp = IF now = 0 THEN now + 1 ELSE now
        /\ Stamp' = IF now' = 0 THEN now' + 1 ELSE now'
    BY DEF Stamp, kNotAcquired
  <2>3. \A a, b \in Nat :
          LET A == IF a = 0 THEN a + 1 ELSE a
              B == IF b = 0 THEN b + 1 ELSE b
          IN  A \in Nat /\ B \in Nat /\ (a <= b => A <= B)
    OBVIOUS
  <2> QED BY <2>1, <2>2, <2>3, Zenon
<1>3. HeldIsFound'
  BY <1>1, SameSlotsFound DEF Idle
<1>4. /\ \A s \in Slots : slot[s].acquired_at \in Nat
      /\ \A o \in Locks : held_at[o] \in Nat /\ (Recorded(o) => Recorded(o)')
  BY <1>1, LockAssumption DEF TypeOK, Idle, Recorded
<1>5. StampsPast'
  BY <1>1, <1>2, <1>4 DEF StampsPast, Idle
<1>6. StampsDiffer'
  BY <1>1 DEF StampsDiffer, Idle
<1> QED BY <1>3, <1>5, <1>6

LEMMA LockInvInit ==
  ASSUME Init
  PROVE  LockInv
PROOF
<1>1. TypeOK
  BY LockAssumption DEF Init, TypeOK, NoRequest, Request, kNotAcquired
<1>2. HeldIsFound /\ StampsDiffer
  BY DEF Init, HeldIsFound, StampsDiffer
<1>3. StampsPast
  BY DEF Init, StampsPast, Stamp, kNotAcquired
<1> QED BY <1>1, <1>2, <1>3 DEF LockInv

LEMMA LockInvStep ==
  ASSUME LockInv, [Next]_vars
  PROVE  LockInv'
PROOF
<1>1. TypeOK
  BY DEF LockInv
<1>2. CASE UNCHANGED vars
  <2>1. Idle /\ TypeOK'
    BY <1>1, <1>2, LockAssumption DEF vars, Idle, TypeOK
  <2> QED BY <2>1, IdleStep DEF LockInv
<1>3. CASE Next /\ Idle
  <2>1. TypeOK'
    BY <1>1, <1>3, NextCases DEF TypeOK, Idle, Calls, Pcs
  <2> QED BY <1>3, <2>1, IdleStep DEF LockInv
<1>4. ASSUME NEW o \in Locks, Next, Takes(o)
      PROVE  LockInv'
  <2>1. PICK steal \in Steals \cup {Never} : MayLock(o, steal) /\ DoLockSlot(o) /\ now' = now
    BY <1>4 DEF Takes
  <2>2. /\ slot' \in [Slots -> [hash : Nat, acquired_at : 0..MaxTime + 1]]
        /\ held_at' \in [Locks -> 0..MaxTime + 1]
        /\ HeldIsFound' /\ StampsPast' /\ StampsDiffer'
    BY <2>1, TakeStep
  <2>3. TypeOK'
    BY <1>1, <1>4, <2>1, <2>2, NextCases DEF TypeOK, Calls, Pcs
  <2> QED BY <2>2, <2>3 DEF LockInv
<1>5. ASSUME NEW o \in Locks, Unlock(o) \/ DieLocking(o)
      PROVE  LockInv'
  BY <1>5, UnlockStep, DieLockingStep DEF LockInv
<1> QED BY <1>1, <1>2, <1>3, <1>4, <1>5, NextCases

\* Every variable keeps its type: no slot is stamped beyond the clock, and a poll's
\* interval stays a number when the clock is read twice.
THEOREM TypeCorrect == Spec => []TypeOK
PROOF
<1>1. LockInv => TypeOK
  BY DEF LockInv
<1> QED BY <1>1, LockInvInit, LockInvStep, PTL DEF Spec

\* TryLockImpl, Unlock and the deaths of processes keep every taken slot where the
\* search for its name ends, and the stamps of one name's objects apart.
THEOREM LockInvariant == Spec => []LockInv
BY LockInvInit, LockInvStep, PTL DEF Spec

\* At most one object is recorded as the holder of a name.
THEOREM AtMostOneHolder == Spec => []OneHolder
PROOF
<1>1. ASSUME LockInv
      PROVE  OneHolder
  <2>1. TypeOK /\ HeldIsFound /\ StampsDiffer
    BY <1>1 DEF LockInv
  <2>2. ASSUME NEW o \in Locks, NEW p \in Locks, o # p, Hash[o] = Hash[p],
               Recorded(o), Recorded(p)
        PROVE  FALSE
    <3>1. /\ slot[Candidate(Hash[o])] = [hash |-> Hash[o], acquired_at |-> held_at[o]]
          /\ slot[Candidate(Hash[p])] = [hash |-> Hash[p], acquired_at |-> held_at[p]]
      BY <2>1, <2>2, RecordedAtCandidate
    <3>2. [hash |-> Hash[o], acquired_at |-> held_at[o]]
            = [hash |-> Hash[p], acquired_at |-> held_at[p]]
      BY <2>2, <3>1
    <3>3. held_at[o] = held_at[p]
      BY <3>2
    <3> QED BY <2>1, <2>2, <3>3 DEF StampsDiffer, Recorded
  <2> QED BY <2>2 DEF OneHolder
<1> QED BY <1>1, LockInvariant, PTL

\* A holder that does not unlock stays recorded until it is stolen from, the
\* shortest steal_ms later or more.
THEOREM HolderKept == Spec => KeptUntilStolen
PROOF
<1> DEFINE Kept(o) ==
      Recorded(o) /\ held_at'[o] = held_at[o] =>
        \/ Recorded(o)'
        \/ \E s \in Slots : /\ slot'[s].hash = Hash[o]
                            /\ slot'[s].acquired_at >= held_at[o] + Least(Steals)
<1>1. ASSUME LockInv, Next, NEW o \in Locks
      PROVE  Kept(o)
  <2>1. SUFFICES ASSUME Recorded(o), held_at'[o] = held_at[o]
                 PROVE  \/ Recorded(o)'
                        \/ \E s \in Slots :
                             /\ slot'[s].hash = Hash[o]
                             /\ slot'[s].acquired_at >= held_at[o] + Least(Steals)
    OBVIOUS
  <2>2. held_at[o] # kNotAcquired /\ TypeOK
    BY <1>1, <2>1 DEF Recorded, LockInv
  <2>3. CASE Idle
    BY <2>1, <2>3 DEF Idle, Recorded
  <2>4. ASSUME NEW p \in Locks, Takes(p)
        PROVE  \/ Recorded(o)'
               \/ \E s \in Slots : /\ slot'[s].hash = Hash[o]
                                   /\ slot'[s].acquired_at >= held_at[o] + Least(Steals)
    <3>1. PICK steal \in Steals \cup {Never} : MayLock(p, steal) /\ DoLockSlot(p)
      BY <2>4 DEF Takes
    <3> DEFINE c == Candidate(Hash[p])
    <3>2. /\ c \in Slots /\ slot'[c] = [hash |-> Hash[p], acquired_at |-> Stamp]
          /\ Hash[o] = Hash[p] => held_at[o] + Least(Steals) <= Stamp
          /\ Hash[o] # Hash[p] =>
               \E s \in Slots : slot'[s] = [hash |-> Hash[o], acquired_at |-> held_at[o]]
      BY <1>1, <2>1, <2>2, <3>1, TakenFrom
    <3>3. CASE Hash[o] # Hash[p]
      BY <2>1, <2>2, <3>2, <3>3 DEF Recorded
    <3>4. CASE Hash[o] = Hash[p]
      <4>1. held_at[o] \in Nat /\ Stamp \in Nat
        BY <2>2, StampType, LockAssumption DEF TypeOK
      <4>2. Steals \subseteq Nat /\ Steals # {}
        BY LockAssumption
      <4>3. Least(Steals) \in Nat
        BY <4>2, LeastExists
      <4> QED BY <3>2, <3>4, <4>1, <4>3
    <3> QED BY <3>3, <3>4
  <2>5. ASSUME NEW p \in Locks, Unlock(p)
        PROVE  Recorded(o)'
    <3>1. p # o
      BY <2>1, <2>2, <2>5 DEF Unlock, TypeOK
    <3>2. \E s \in Slots : slot'[s] = [hash |-> Hash[o], acquired_at |-> held_at[o]]
      BY <1>1, <2>1, <2>5, <3>1, UnlockKeeps
    <3> QED BY <2>1, <2>2, <3>2 DEF Recorded
  <2>6. ASSUME NEW p \in Locks, DieLocking(p)
        PROVE  Recorded(o)'
    BY <1>1, <2>1, <2>6, DieKeeps
  <2> QED BY <1>1, <2>2, <2>3, <2>4, <2>5, <2>6, NextCases
<1>2. LockInv /\ [Next]_vars => [\A o \in Locks : Kept(o)]_vars
  BY <1>1
<1> QED BY <1>2, LockInvariant, PTL DEF Spec, KeptUntilStolen

=============================================================================
