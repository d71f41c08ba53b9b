---------------------------- MODULE SharedMemLock ----------------------------
(***************************************************************************)
(* The named locks of the server's processes                               *)
(* (pagespeed/kernel/sharedmem/shared_mem_lock_manager.cc), and how a      *)
(* client waits for one                                                    *)
(* (pagespeed/kernel/thread/scheduler_based_abstract_lock.cc).             *)
(*                                                                         *)
(* One bucket of the table in shared memory is modelled: its slots, and    *)
(* the lock objects of any number of processes whose names fall into it.   *)
(* TryLock, TryLockStealOld and Unlock hold the bucket's mutex throughout, *)
(* so each is one step.  A process may die at any time, also between the   *)
(* two writes of DoLockSlot: the mutex is robust and the others go on.     *)
(***************************************************************************)
EXTENDS Integers, FiniteSets

CONSTANTS
  Locks,        \* lock objects
  Hash,         \* the hash of each object's name
  NumSlots,     \* kSlotsPerBucket
  Steals,       \* the steal_ms that clients pass
  Waits,        \* the wait_ms that clients pass
  Never,        \* in place of steal_ms: LockTimedWait, which does not steal
  MaxSpin,      \* kMaxSpinSleepMs
  MaxTime       \* bound on the clock

ASSUME LockAssumption ==
  /\ IsFiniteSet(Locks) /\ Hash \in [Locks -> Nat]
  /\ NumSlots \in Nat \ {0} /\ MaxTime \in Nat /\ MaxSpin \in Nat
  /\ Steals \subseteq Nat \ {0} /\ Steals # {} /\ Waits \subseteq Nat
  /\ Never \notin Nat

kNotAcquired == 0

Least(S) == CHOOSE i \in S : \A j \in S : i <= j

VARIABLES
  slot,     \* the bucket: hash and acquired_at_ms of each slot
  held_at,  \* acquisition_time_ of each lock object
  call,     \* the call each lock object is in
  now       \* timer()->NowMs()

vars == <<slot, held_at, call, now>>

Slots == 0..NumSlots - 1

\* steal, end, alarm and interval are the members of TimedWaitPollState.
Request(pc, steal, wait) ==
  [pc |-> pc, steal |-> steal, wait |-> wait, end |-> 0, alarm |-> 0,
   interval |-> 0]
NoRequest == Request("none", Never, 0)

Init ==
  /\ slot = [s \in Slots |-> [hash |-> 0, acquired_at |-> kNotAcquired]]
  /\ held_at = [o \in Locks |-> kNotAcquired]
  /\ call = [o \in Locks |-> NoRequest]
  /\ now = 0

At(o, pc) == call[o].pc = pc
GoTo(o, pc) == call' = [call EXCEPT ![o].pc = pc]

(***************************************************************************)
(* TryLockImpl and Unlock                                                  *)
(***************************************************************************)

\* The offset-th slot in the order in which h's slot is looked for.
Probe(h, offset) == (h + offset) % NumSlots

\* The time that is recorded, never kNotAcquired.
Stamp == IF now = kNotAcquired THEN now + 1 ELSE now

OldEnough(s, steal) == Stamp - slot[s].acquired_at >= steal

FirstFree(h) ==                                                      \* mutant
  {i \in Slots : LET s == Probe(h, i)
                 IN  slot[s].acquired_at = kNotAcquired \/ slot[s].hash = h}

\* The offsets at which the search may end: that of h's own slot, free or not,
\* and if there is none those of the free slots.
Candidates(h) ==
  LET own == {i \in Slots : slot[Probe(h, i)].hash = h}
  IN  IF own # {} THEN own
      ELSE {i \in Slots : slot[Probe(h, i)].acquired_at = kNotAcquired}

Candidate(h) == Probe(h, Least(Candidates(h)))

\* Does TryLockImpl succeed?  It fails on a lock that is held and not old enough,
\* and when the bucket overflows.
MayLock(o, steal) ==
  LET h == Hash[o] IN
  /\ Candidates(h) # {}
  /\ \/ slot[Candidate(h)].acquired_at = kNotAcquired
     \/ steal # Never /\ OldEnough(Candidate(h), steal)

DoLockSlot(o) ==
  /\ slot' = [slot EXCEPT ![Candidate(Hash[o])] =
                [hash |-> Hash[o], acquired_at |-> Stamp]]
  /\ held_at' = [held_at EXCEPT ![o] = Stamp]

\* A try of o: CallRun when it succeeds, and on to pc when it does not.
Try(o, steal, pc) ==
  /\ IF MayLock(o, steal)
     THEN DoLockSlot(o) /\ call' = [call EXCEPT ![o] = NoRequest]
     ELSE GoTo(o, pc) /\ UNCHANGED <<slot, held_at>>
  /\ UNCHANGED now

AnyHolder(o, s) == slot[s].hash = Hash[o]                             \* mutant
Frees(o, s) == slot[s].hash = Hash[o] /\ slot[s].acquired_at = held_at[o]

\* Unlock, also from the destructor: the lock may have been stolen meanwhile.
Unlock(o) ==
  /\ At(o, "none") /\ held_at[o] # kNotAcquired
  /\ slot' = [s \in Slots |-> IF Frees(o, s)
                              THEN [slot[s] EXCEPT !.acquired_at = kNotAcquired]
                              ELSE slot[s]]
  /\ held_at' = [held_at EXCEPT ![o] = kNotAcquired]
  /\ UNCHANGED <<call, now>>

(***************************************************************************)
(* LockTimedWait and LockTimedWaitStealOld                                 *)
(***************************************************************************)

\* The client asks.
Lock(o, steal, wait) ==
  /\ At(o, "none") /\ held_at[o] = kNotAcquired
  /\ call' = [call EXCEPT ![o] = Request("try", steal, wait)]
  /\ UNCHANGED <<slot, held_at, now>>

\* The fast path, and what follows when it fails.
TryLock(o) ==
  /\ At(o, "try")
  /\ Try(o, Never, IF call[o].wait = 0 /\ call[o].steal # Never THEN "once"
                                                               ELSE "measure")

\* A wait of zero: one try to steal, then the callback is canceled.
TryOnce(o) ==
  /\ At(o, "once")
  /\ Try(o, call[o].steal, "cancel")

\* PollAndCallback takes the time and spins.
Measure(o) ==
  /\ At(o, "measure")
  /\ call' = [call EXCEPT ![o].pc = "spin", ![o].end = now + call[o].wait]
  /\ UNCHANGED <<slot, held_at, now>>

\* One or more of kBusySpinIterations tries; pc says whether more follow.
SpinThen(o, pc) == At(o, "spin") /\ Try(o, call[o].steal, pc)
BusySpin(o) == SpinThen(o, "spin") \/ SpinThen(o, "poll")

\* TimedWaitPollState::Run, at once and then from an alarm.
Poll(o) ==
  /\ At(o, "poll") /\ call[o].alarm <= now
  /\ Try(o, call[o].steal, "check")

Backoff(interval, max) == Least({1 + interval + interval \div 2, max})
MaxInterval(o) ==
  IF call[o].steal = Never THEN MaxSpin ELSE (call[o].steal + 1) \div 2
IntervalWithEnd(o) ==
  Least({call[o].end - now, Backoff(call[o].interval, MaxInterval(o))})

ForgetAlarm(o) == [call[o] EXCEPT !.pc = "forgotten"]                 \* mutant
\* The next try's poller, and its alarm.
NextTry(o) == [call[o] EXCEPT !.pc = "poll", !.interval = IntervalWithEnd(o),
                              !.alarm = @ + IntervalWithEnd(o)]

\* The clock is read to see whether the wait is over, and read again for the
\* interval, which may then be negative.
Check(o) ==
  /\ At(o, "check")
  /\ call' = [call EXCEPT ![o].pc = IF now >= call[o].end THEN "cancel" ELSE "schedule",
                          ![o].alarm = now]
  /\ UNCHANGED <<slot, held_at, now>>

Schedule(o) ==
  /\ At(o, "schedule")
  /\ call' = [call EXCEPT ![o] = NextTry(o)]
  /\ UNCHANGED <<slot, held_at, now>>

CallCancel(o) ==
  /\ At(o, "cancel")
  /\ call' = [call EXCEPT ![o] = NoRequest]
  /\ UNCHANGED <<slot, held_at, now>>

(***************************************************************************)
(* The world                                                               *)
(***************************************************************************)

\* The process of o dies; the slot stays as it is.
Die(o) ==
  /\ ~At(o, "dead")
  /\ call' = [call EXCEPT ![o] = Request("dead", Never, 0)]
  /\ UNCHANGED <<slot, held_at, now>>

\* It dies after DoLockSlot has written the hash of a free slot and not the time.
DieLocking(o) ==
  /\ call[o].pc \in {"try", "once", "spin", "poll"}
  /\ Candidates(Hash[o]) # {} /\ slot[Candidate(Hash[o])].acquired_at = kNotAcquired
  /\ slot' = [slot EXCEPT ![Candidate(Hash[o])].hash = Hash[o]]
  /\ call' = [call EXCEPT ![o] = Request("dead", Never, 0)]
  /\ UNCHANGED <<held_at, now>>

Tick ==
  /\ now < MaxTime
  /\ now' = now + 1
  /\ UNCHANGED <<slot, held_at, call>>

Continue(o) ==
  \/ TryLock(o) \/ TryOnce(o) \/ Measure(o) \/ BusySpin(o)
  \/ Poll(o) \/ Check(o) \/ Schedule(o) \/ CallCancel(o)

Next ==
  \/ \E o \in Locks :
       \/ \E steal \in Steals \cup {Never}, wait \in Waits : Lock(o, steal, wait)
       \/ Continue(o) \/ Unlock(o) \/ Die(o) \/ DieLocking(o)
  \/ Tick

Spec == Init /\ [][Next]_vars

\* Threads run, alarms go off and time passes.  A spinning thread gets to the end
\* of its iterations.  Nobody need unlock, and nobody need ask.
FairSpec ==
  /\ Spec /\ WF_vars(Tick)
  /\ \A o \in Locks : WF_vars(Continue(o)) /\ WF_vars(SpinThen(o, "poll"))

(***************************************************************************)
(* Properties                                                              *)
(***************************************************************************)

TypeOK ==
  /\ slot \in [Slots -> [hash : Nat, acquired_at : 0..MaxTime + 1]]
  /\ held_at \in [Locks -> 0..MaxTime + 1]
  /\ now \in 0..MaxTime
  /\ call \in [Locks ->
       [pc : {"none", "try", "once", "measure", "spin", "poll", "check",
              "schedule", "cancel", "dead"},
        steal : Steals \cup {Never}, wait : Waits \cup {0},
        end : Nat, alarm : Int, interval : Int]]

\* The bucket records o as the holder of its lock.
Recorded(o) ==
  held_at[o] # kNotAcquired /\ \E s \in Slots : slot[s] = [hash |-> Hash[o], acquired_at |-> held_at[o]]

\* At most one object is recorded as the holder of a lock, also after thefts: the
\* time stamp tells the thief from the one it stole from.
OneHolder ==
  \A o, p \in Locks :
    o # p /\ Hash[o] = Hash[p] => ~(Recorded(o) /\ Recorded(p))

\* Who holds a lock and does not unlock it stays recorded, through the unlocking of
\* an object it stole from, the locking of other names and the death of others,
\* until it dies or somebody steals the lock, steal_ms later or more.
KeptUntilStolen ==
  [][\A o \in Locks :
       Recorded(o) /\ held_at'[o] = held_at[o] =>
         \/ Recorded(o)'
         \/ \E s \in Slots : /\ slot'[s].hash = Hash[o]
                             /\ slot'[s].acquired_at >= held_at[o] + Least(Steals)]_vars

\* Every request ends, with the lock or with a cancellation, if its wait ends
\* before the bounded clock does.
EveryRequestAnswered ==
  \A o \in Locks :
    ~At(o, "none") ~> At(o, "none") \/ At(o, "dead") \/ call[o].end > MaxTime

===============================================================================
