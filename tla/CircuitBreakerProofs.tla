------------------------- MODULE CircuitBreakerProofs -------------------------
(***************************************************************************)
(* CircuitBreaker: type correctness, the bound on the failure count, and   *)
(* what calls that do not overlap may rely on, for any number of threads   *)
(* and requests and any thresholds.                                        *)
(***************************************************************************)
EXTENDS CircuitBreaker, FiniteSetTheorems, TLAPS

\* The calls a thread may be in.
CallSet == [pc : PCs, request : Requests \cup {None}, time : 0..MaxTime]

\* A thread's call stays a call when its control or its time changes.
LEMMA CallType ==
  ASSUME NEW pc \in PCs, NEW r \in Requests \cup {None}, NEW tm \in 0..MaxTime
  PROVE  Call(pc, r, tm) \in CallSet
BY DEF Call, CallSet

\* A step of one thread changes that thread's membership of Opening alone.
LEMMA OpeningChange ==
  ASSUME thread \in [Threads -> CallSet], NEW t \in Threads,
         NEW c \in CallSet, thread' = [thread EXCEPT ![t] = c]
  PROVE  /\ IsFiniteSet(Opening)
         /\ Cardinality(Opening) \in Nat /\ Cardinality(Opening') \in Nat
         /\ At(t, c.pc) => Opening' = Opening
         /\ c.pc \in {"stamp", "stamp_store", "open", "open_failures"} /\ t \notin Opening
              => Cardinality(Opening') = Cardinality(Opening) + 1
         /\ c.pc \in {"stamp", "stamp_store", "open", "open_failures"}
              => Cardinality(Opening') >= Cardinality(Opening)
         /\ t \notin Opening => Cardinality(Opening') >= Cardinality(Opening)
PROOF
<1> DEFINE P == {"stamp", "stamp_store", "open", "open_failures"}
<1>1. Opening \in SUBSET Threads /\ Opening' \in SUBSET Threads
  BY DEF Opening
<1>2. IsFiniteSet(Opening) /\ IsFiniteSet(Opening')
  BY <1>1, FS_Subset, BreakerAssumption
<1>3. Cardinality(Opening) \in Nat /\ Cardinality(Opening') \in Nat
  BY <1>2, FS_CardinalityType
<1>4. \A u \in Threads : u # t => (u \in Opening' <=> u \in Opening)
  BY DEF Opening
<1>5. t \in Opening' <=> c.pc \in P
  BY DEF Opening
<1>6. t \in Opening <=> thread[t].pc \in P
  BY DEF Opening
<1>7. CASE c.pc \in P
  <2>1. Opening' = Opening \cup {t}
    BY <1>1, <1>4, <1>5, <1>7
  <2>2. Cardinality(Opening') = IF t \in Opening THEN Cardinality(Opening)
                                                ELSE Cardinality(Opening) + 1
    BY <2>1, <1>2, FS_AddElement
  <2>3. t \in Opening => Opening' = Opening
    BY <2>1
  <2> QED BY <1>2, <1>3, <1>6, <1>7, <2>2, <2>3 DEF At
<1>8. CASE c.pc \notin P
  <2>1. t \notin Opening => Opening' = Opening
    BY <1>1, <1>4, <1>5, <1>8
  <2> QED BY <1>2, <1>3, <1>6, <1>8, <2>1 DEF At
<1> QED BY <1>7, <1>8

\* A step of one thread that keeps the other typed variables in their types,
\* and adds to the failure count only what it adds to Opening, keeps the bound.
LEMMA StepKeepsBound ==
  ASSUME TypeOK, FailureCountBounded, NEW t \in Threads, NEW c \in CallSet,
         thread' = [thread EXCEPT ![t] = c],
         \/ failure_count' = 0
         \/ /\ failure_count' = failure_count
            /\ \/ t \notin Opening
               \/ c.pc \in {"stamp", "stamp_store", "open", "open_failures"}
         \/ /\ failure_count' = failure_count + 1 /\ t \notin Opening
            /\ \/ failure_count + 1 < FailureThreshold
               \/ c.pc \in {"stamp", "stamp_store", "open", "open_failures"}
  PROVE  FailureCountBounded'
PROOF
<1>1. thread \in [Threads -> CallSet]
  BY DEF TypeOK, CallSet
<1>2. /\ Cardinality(Opening) \in Nat /\ Cardinality(Opening') \in Nat
      /\ c.pc \in {"stamp", "stamp_store", "open", "open_failures"} /\ t \notin Opening
           => Cardinality(Opening') = Cardinality(Opening) + 1
      /\ c.pc \in {"stamp", "stamp_store", "open", "open_failures"}
           => Cardinality(Opening') >= Cardinality(Opening)
      /\ t \notin Opening => Cardinality(Opening') >= Cardinality(Opening)
  BY <1>1, OpeningChange
<1>3. failure_count \in Nat /\ FailureThreshold \in Nat \ {0}
  BY BreakerAssumption DEF TypeOK
<1> HIDE DEF Opening
<1> QED BY <1>2, <1>3 DEF FailureCountBounded

\* The invariant of the proof.
BreakerInv == TypeOK /\ FailureCountBounded

LEMMA InitBreakerInv == Init => BreakerInv
PROOF
<1> SUFFICES ASSUME Init PROVE BreakerInv
  OBVIOUS
<1>1. TypeOK
  BY BreakerAssumption DEF Init, TypeOK, States, PCs, Idle, Call
<1>2. Opening = {}
  BY DEF Init, Opening, Idle, Call
<1>3. FailureCountBounded
  BY <1>2, FS_EmptySet, BreakerAssumption DEF Init, FailureCountBounded
<1> QED BY <1>1, <1>3 DEF BreakerInv

\* Each access of a call keeps the types and the bound.
LEMMA ContinueBreakerInv ==
  ASSUME BreakerInv, NEW t \in Threads, Continue(t)
  PROVE  BreakerInv'
PROOF
<1> USE DEF BreakerInv
<1>0. /\ thread[t] \in CallSet /\ thread \in [Threads -> CallSet]
      /\ Idle \in CallSet /\ Idle.pc = "idle" /\ None \in Requests \cup {None}
  BY BreakerAssumption DEF TypeOK, CallSet, Idle, Call, PCs
<1>t. \A pc \in PCs : /\ Call(pc, thread[t].request, thread[t].time) \in CallSet
                       /\ Call(pc, thread[t].request, thread[t].time).pc = pc
  BY <1>0 DEF CallSet, Call
<1>n. \A pc \in PCs : /\ Call(pc, thread[t].request, now) \in CallSet
                       /\ Call(pc, thread[t].request, now).pc = pc
  BY <1>0 DEF CallSet, Call, TypeOK
<1>1. CASE LoadState(t)
  <2>1. PICK c \in CallSet : /\ thread' = [thread EXCEPT ![t] = c]
    BY <1>1, <1>0, <1>t DEF LoadState, PCs, TypeOK, States, Allow, Finish, GoTo
  <2>2. thread' \in [Threads -> CallSet]
    BY <1>0, <2>1
  <2>3. TypeOK'
    BY <1>1, <1>0, <2>2, BreakerAssumption DEF LoadState, TypeOK, CallSet, States, Allow,
         atomics, world, history
  <2>4. failure_count' = failure_count /\ t \notin Opening
    BY <1>1 DEF LoadState, At, Opening,
         atomics, world, history
  <2> QED BY <2>1, <2>3, <2>4, StepKeepsBound
<1>2. CASE LoadNow(t)
  <2>1. PICK c \in CallSet : /\ thread' = [thread EXCEPT ![t] = c]
    BY <1>2, <1>0, <1>n DEF LoadNow, PCs, TypeOK, States
  <2>2. thread' \in [Threads -> CallSet]
    BY <1>0, <2>1
  <2>3. TypeOK'
    BY <1>2, <1>0, <2>2, BreakerAssumption DEF LoadNow, TypeOK, CallSet, States,
         atomics, world, history
  <2>4. failure_count' = failure_count /\ t \notin Opening
    BY <1>2 DEF LoadNow, At, Opening,
         atomics, world, history
  <2> QED BY <2>1, <2>3, <2>4, StepKeepsBound
<1>3. CASE LoadOpenTime(t)
  <2>1. PICK c \in CallSet : /\ thread' = [thread EXCEPT ![t] = c]
    BY <1>3, <1>0, <1>t DEF LoadOpenTime, PCs, TypeOK, States, Block, Finish, GoTo
  <2>2. thread' \in [Threads -> CallSet]
    BY <1>0, <2>1
  <2>3. TypeOK'
    BY <1>3, <1>0, <2>2, BreakerAssumption DEF LoadOpenTime, TypeOK, CallSet, States, Block,
         atomics, world, history
  <2>4. failure_count' = failure_count /\ t \notin Opening
    BY <1>3 DEF LoadOpenTime, At, Opening,
         atomics, world, history
  <2> QED BY <2>1, <2>3, <2>4, StepKeepsBound
<1>4. CASE CompareExchange(t)
  <2>1. PICK c \in CallSet : /\ thread' = [thread EXCEPT ![t] = c]
    BY <1>4, <1>0, <1>t DEF CompareExchange, PCs, TypeOK, States, GoTo
  <2>2. thread' \in [Threads -> CallSet]
    BY <1>0, <2>1
  <2>3. TypeOK'
    BY <1>4, <1>0, <2>2, BreakerAssumption DEF CompareExchange, TypeOK, CallSet, States,
         atomics, world, history
  <2>4. failure_count' = failure_count /\ t \notin Opening
    BY <1>4 DEF CompareExchange, At, Opening,
         atomics, world, history
  <2> QED BY <2>1, <2>3, <2>4, StepKeepsBound
<1>5. CASE ResetSuccesses(t)
  <2>1. PICK c \in CallSet : /\ thread' = [thread EXCEPT ![t] = c]
    BY <1>5, <1>0, <1>t DEF ResetSuccesses, PCs, TypeOK, States, Allow, Finish
  <2>2. thread' \in [Threads -> CallSet]
    BY <1>0, <2>1
  <2>3. TypeOK'
    BY <1>5, <1>0, <2>2, BreakerAssumption DEF ResetSuccesses, TypeOK, CallSet, States, Allow,
         atomics, world, history
  <2>4. failure_count' = failure_count /\ t \notin Opening
    BY <1>5 DEF ResetSuccesses, At, Opening,
         atomics, world, history
  <2> QED BY <2>1, <2>3, <2>4, StepKeepsBound
<1>6. CASE ReloadState(t)
  <2>1. PICK c \in CallSet : /\ thread' = [thread EXCEPT ![t] = c]
    BY <1>6, <1>0, <1>t DEF ReloadState, PCs, TypeOK, States, Allow, Block, Finish
  <2>2. thread' \in [Threads -> CallSet]
    BY <1>0, <2>1
  <2>3. TypeOK'
    BY <1>6, <1>0, <2>2, BreakerAssumption DEF ReloadState, TypeOK, CallSet, States, Allow, Block,
         atomics, world, history
  <2>4. failure_count' = failure_count /\ t \notin Opening
    BY <1>6 DEF ReloadState, At, Opening,
         atomics, world, history
  <2> QED BY <2>1, <2>3, <2>4, StepKeepsBound
<1>7. CASE RecordSuccess(t)
  <2>1. PICK c \in CallSet : /\ thread' = [thread EXCEPT ![t] = c]
    BY <1>7, <1>0, <1>t DEF RecordSuccess, PCs, TypeOK, States, Dispatch, Finish, GoTo, SuccessStep
  <2>2. thread' \in [Threads -> CallSet]
    BY <1>0, <2>1
  <2>3. TypeOK'
    BY <1>7, <1>0, <2>2, BreakerAssumption DEF RecordSuccess, TypeOK, CallSet, States,
         atomics, world, history
  <2>4. failure_count' = failure_count /\ t \notin Opening
    BY <1>7 DEF RecordSuccess, At, Opening,
         atomics, world, history
  <2> QED BY <2>1, <2>3, <2>4, StepKeepsBound
<1>8. CASE ClearFailures(t)
  <2>1. PICK c \in CallSet : /\ thread' = [thread EXCEPT ![t] = c]
    BY <1>8, <1>0, <1>t DEF ClearFailures, PCs, TypeOK, States, Finish
  <2>2. thread' \in [Threads -> CallSet]
    BY <1>0, <2>1
  <2>3. TypeOK'
    BY <1>8, <1>0, <2>2, BreakerAssumption DEF ClearFailures, TypeOK, CallSet, States, NoFailures,
         atomics, world, history
  <2>4. failure_count' = 0
    BY <1>8 DEF ClearFailures, NoFailures
  <2> QED BY <2>1, <2>3, <2>4, StepKeepsBound
<1>9. CASE CountSuccess(t)
  <2>1. PICK c \in CallSet : /\ thread' = [thread EXCEPT ![t] = c]
    BY <1>9, <1>0, <1>t DEF CountSuccess, PCs, TypeOK, States, Finish, GoTo
  <2>2. thread' \in [Threads -> CallSet]
    BY <1>0, <2>1
  <2>3. TypeOK'
    BY <1>9, <1>0, <2>2, BreakerAssumption DEF CountSuccess, TypeOK, CallSet, States,
         atomics, world, history
  <2>4. failure_count' = failure_count /\ t \notin Opening
    BY <1>9 DEF CountSuccess, At, Opening,
         atomics, world, history
  <2> QED BY <2>1, <2>3, <2>4, StepKeepsBound
<1>10. CASE CloseFailures(t)
  <2>1. PICK c \in CallSet : /\ thread' = [thread EXCEPT ![t] = c]
    BY <1>10, <1>0, <1>t DEF CloseFailures, PCs, TypeOK, States, GoTo
  <2>2. thread' \in [Threads -> CallSet]
    BY <1>0, <2>1
  <2>3. TypeOK'
    BY <1>10, <1>0, <2>2, BreakerAssumption DEF CloseFailures, TypeOK, CallSet, States, NoFailures,
         atomics, world, history
  <2>4. failure_count' = 0
    BY <1>10 DEF CloseFailures, NoFailures
  <2> QED BY <2>1, <2>3, <2>4, StepKeepsBound
<1>11. CASE CloseSuccesses(t)
  <2>1. PICK c \in CallSet : /\ thread' = [thread EXCEPT ![t] = c]
    BY <1>11, <1>0, <1>t DEF CloseSuccesses, PCs, TypeOK, States, GoTo
  <2>2. thread' \in [Threads -> CallSet]
    BY <1>0, <2>1
  <2>3. TypeOK'
    BY <1>11, <1>0, <2>2, BreakerAssumption DEF CloseSuccesses, TypeOK, CallSet, States,
         atomics, world, history
  <2>4. failure_count' = failure_count /\ t \notin Opening
    BY <1>11 DEF CloseSuccesses, At, Opening,
         atomics, world, history
  <2> QED BY <2>1, <2>3, <2>4, StepKeepsBound
<1>12. CASE Close(t)
  <2>1. PICK c \in CallSet : /\ thread' = [thread EXCEPT ![t] = c]
    BY <1>12, <1>0, <1>t DEF Close, PCs, TypeOK, States, Finish
  <2>2. thread' \in [Threads -> CallSet]
    BY <1>0, <2>1
  <2>3. TypeOK'
    BY <1>12, <1>0, <2>2, BreakerAssumption DEF Close, TypeOK, CallSet, States,
         atomics, world, history
  <2>4. failure_count' = failure_count /\ t \notin Opening
    BY <1>12 DEF Close, At, Opening,
         atomics, world, history
  <2> QED BY <2>1, <2>3, <2>4, StepKeepsBound
<1>13. CASE RecordFailure(t)
  <2>1. PICK c \in CallSet : /\ thread' = [thread EXCEPT ![t] = c]
    BY <1>13, <1>0, <1>t DEF RecordFailure, PCs, TypeOK, States, Dispatch, Finish, GoTo, FailureStep
  <2>2. thread' \in [Threads -> CallSet]
    BY <1>0, <2>1
  <2>3. TypeOK'
    BY <1>13, <1>0, <2>2, BreakerAssumption DEF RecordFailure, TypeOK, CallSet, States,
         atomics, world, history
  <2>4. failure_count' = failure_count /\ t \notin Opening
    BY <1>13 DEF RecordFailure, At, Opening,
         atomics, world, history
  <2> QED BY <2>1, <2>3, <2>4, StepKeepsBound
<1>14. CASE CountFailure(t)
  <2>1. PICK c \in CallSet : /\ thread' = [thread EXCEPT ![t] = c]
                            /\ \/ failure_count + 1 < FailureThreshold
                               \/ c.pc \in {"stamp", "stamp_store", "open", "open_failures"}
    <3>1. CASE TooMany(failure_count')
      BY <1>14, <1>t, <3>1 DEF CountFailure, PCs, GoTo
    <3>2. CASE ~TooMany(failure_count')
      BY <1>14, <1>0, <3>2, BreakerAssumption DEF CountFailure, Finish, TooMany, TypeOK
    <3> QED BY <3>1, <3>2
  <2>2. thread' \in [Threads -> CallSet]
    BY <1>0, <2>1
  <2>3. TypeOK'
    BY <1>14, <1>0, <2>2, BreakerAssumption DEF CountFailure, TypeOK, CallSet, States,
         atomics, world, history
  <2>4. failure_count' = failure_count + 1 /\ t \notin Opening
    BY <1>14 DEF CountFailure, At, Opening,
         atomics, world, history
  <2> QED BY <2>1, <2>3, <2>4, StepKeepsBound
<1>15. CASE Stamp(t)
  <2>1. PICK c \in CallSet : /\ thread' = [thread EXCEPT ![t] = c]
                            /\ c.pc \in {"stamp", "stamp_store", "open", "open_failures"}
    BY <1>15, <1>0, <1>n DEF Stamp, PCs, TypeOK, States
  <2>2. thread' \in [Threads -> CallSet]
    BY <1>0, <2>1
  <2>3. TypeOK'
    BY <1>15, <1>0, <2>2, BreakerAssumption DEF Stamp, TypeOK, CallSet, States,
         atomics, world, history
  <2>4. failure_count' = failure_count
    BY <1>15 DEF Stamp,
         atomics, world, history
  <2> QED BY <2>1, <2>3, <2>4, StepKeepsBound
<1>16. CASE StoreStamp(t)
  <2>1. PICK c \in CallSet : /\ thread' = [thread EXCEPT ![t] = c]
                            /\ c.pc \in {"stamp", "stamp_store", "open", "open_failures"}
    BY <1>16, <1>0, <1>t DEF StoreStamp, PCs, TypeOK, States, GoTo
  <2>2. thread' \in [Threads -> CallSet]
    BY <1>0, <2>1
  <2>3. TypeOK'
    BY <1>16, <1>0, <2>2, BreakerAssumption DEF StoreStamp, TypeOK, CallSet, States, NewStamp,
         atomics, world, history
  <2>4. failure_count' = failure_count
    BY <1>16 DEF StoreStamp
  <2> QED BY <2>1, <2>3, <2>4, StepKeepsBound
<1>17. CASE Open(t)
  <2>1. PICK c \in CallSet : /\ thread' = [thread EXCEPT ![t] = c]
                            /\ c.pc \in {"stamp", "stamp_store", "open", "open_failures"}
    BY <1>17, <1>0, <1>t DEF Open, PCs, TypeOK, States, GoTo
  <2>2. thread' \in [Threads -> CallSet]
    BY <1>0, <2>1
  <2>3. TypeOK'
    BY <1>17, <1>0, <2>2, BreakerAssumption DEF Open, TypeOK, CallSet, States,
         atomics, world, history
  <2>4. failure_count' = failure_count
    BY <1>17 DEF Open
  <2> QED BY <2>1, <2>3, <2>4, StepKeepsBound
<1>18. CASE OpenFailures(t)
  <2>1. PICK c \in CallSet : /\ thread' = [thread EXCEPT ![t] = c]
    BY <1>18, <1>0, <1>t DEF OpenFailures, PCs, TypeOK, States, Finish
  <2>2. thread' \in [Threads -> CallSet]
    BY <1>0, <2>1
  <2>3. TypeOK'
    BY <1>18, <1>0, <2>2, BreakerAssumption DEF OpenFailures, TypeOK, CallSet, States, NoFailures,
         atomics, world, history
  <2>4. failure_count' = 0
    BY <1>18 DEF OpenFailures, NoFailures
  <2> QED BY <2>1, <2>3, <2>4, StepKeepsBound
<1> QED BY <1>1, <1>2, <1>3, <1>4, <1>5, <1>6, <1>7, <1>8, <1>9, <1>10, <1>11, <1>12, <1>13,
   <1>14, <1>15, <1>16, <1>17, <1>18 DEF Continue

\* Every other step of the system leaves the failure count alone.
LEMMA NextBreakerInv == BreakerInv /\ [Next]_vars => BreakerInv'
PROOF
<1> SUFFICES ASSUME BreakerInv, [Next]_vars PROVE BreakerInv'
  OBVIOUS
<1> USE DEF BreakerInv
<1>1. CASE \E t \in Threads : Continue(t)
  BY <1>1, ContinueBreakerInv
<1>2. CASE \E t \in Threads, r \in Requests : Fetch(t, r) \/ HandleDone(t, r)
  <2>1. PICK t \in Threads, r \in Requests : Fetch(t, r) \/ HandleDone(t, r)
    BY <1>2
  <2>2. /\ thread \in [Threads -> CallSet] /\ 0 \in 0..MaxTime
    BY BreakerAssumption DEF TypeOK, CallSet
  <2>3. \A pc \in PCs : Call(pc, r, 0) \in CallSet
    BY <2>2, CallType
  <2>4. CASE UNCHANGED thread
    <3>1. TypeOK' /\ failure_count' = failure_count
      BY <2>1, <2>4, <2>2 DEF Fetch, HandleDone, Overlaps, TypeOK, atomics, world, history
    <3>2. Opening' = Opening
      BY <2>4 DEF Opening
    <3> QED BY <3>1, <3>2 DEF FailureCountBounded
  <2>5. CASE \E c \in CallSet : thread' = [thread EXCEPT ![t] = c]
    <3>1. thread' \in [Threads -> CallSet]
      BY <2>2, <2>5
    <3>2. TypeOK' /\ failure_count' = failure_count
      BY <2>1, <3>1 DEF Fetch, HandleDone, Overlaps, TypeOK, CallSet, atomics, world, history
    <3>3. t \notin Opening
      BY <2>1 DEF Fetch, HandleDone, At, Opening
    <3> QED BY <2>5, <3>2, <3>3, StepKeepsBound
  <2>6. UNCHANGED thread \/ \E c \in CallSet : thread' = [thread EXCEPT ![t] = c]
    BY <2>1, <2>3 DEF Fetch, HandleDone, PCs
  <2> QED BY <2>4, <2>5, <2>6
<1>3. CASE Tick \/ OriginChanges \/ UNCHANGED vars
  <2>1. /\ state' = state /\ failure_count' = failure_count
        /\ success_count' = success_count /\ open_time_ms' = open_time_ms
        /\ rstate' = rstate /\ thread' = thread
        /\ opened_at' = opened_at /\ streak' = streak /\ overlap' = overlap
        /\ now' = now \/ (now < MaxTime /\ now' = now + 1)
    <3>1. CASE Tick
      BY <3>1 DEF Tick, atomics, history
    <3>2. CASE OriginChanges
      BY <3>2, Zenon DEF OriginChanges, atomics, history
    <3>3. CASE UNCHANGED vars
      BY <3>3 DEF vars, world, atomics, history
    <3> QED BY <1>3, <3>1, <3>2, <3>3
  <2>2. healthy' \in BOOLEAN
    <3>1. healthy' = healthy \/ healthy' = ~healthy
      BY <1>3, Zenon DEF Tick, OriginChanges, vars, world
    <3> QED BY <3>1, Zenon DEF TypeOK
  <2>3. now' \in 0..MaxTime
    BY <2>1, BreakerAssumption DEF TypeOK
  <2>4. TypeOK'
    BY <2>1, <2>2, <2>3 DEF TypeOK
  <2>5. Opening' = Opening
    BY <2>1 DEF Opening
  <2> QED BY <2>1, <2>4, <2>5 DEF FailureCountBounded
<1> QED BY <1>1, <1>2, <1>3 DEF Next

\* Every reachable state is well typed and keeps the bound.
THEOREM BreakerInvariant == Spec => []BreakerInv
BY InitBreakerInv, NextBreakerInv, PTL DEF Spec

\* RecordFailure's counting: for any number of threads, and any thresholds and
\* timeouts, failure_count_ stays below failure_threshold plus the number of
\* threads inside TransitionToOpen.
THEOREM FailureCountStaysBounded == Spec => []FailureCountBounded
PROOF
<1>1. BreakerInv => FailureCountBounded
  BY DEF BreakerInv
<1> QED BY <1>1, BreakerInvariant, PTL
-----------------------------------------------------------------------------
(* The contract of calls that do not overlap.  A thread that is in a call   *)
(* then still finds the state it has loaded (Consistent); in a closed       *)
(* circuit failure_count_ counts failures in a row, except where a success  *)
(* is about to clear it (Settled).                                          *)

Consistent(c) ==
  /\ c.pc # "reload"
  /\ c.pc \in {"now", "elapsed", "exchange"} => state = "OPEN"
  /\ c.pc \in {"elapsed", "exchange"} => c.time <= now
  /\ c.pc = "exchange" => c.time - open_time_ms >= Timeout
  /\ c.pc \in {"reset", "count_success", "close_failures", "close_successes", "close"}
       => state = "HALF_OPEN"
  /\ c.pc \in {"close_successes", "close"} => failure_count = 0
  /\ c.pc \in {"clear", "count_failure"} => state = "CLOSED"
  /\ c.pc = "count_failure" => failure_count < streak
  /\ c.pc \in {"stamp", "stamp_store", "open"} =>
       state = "HALF_OPEN" \/ (state = "CLOSED" /\ streak >= FailureThreshold)
  /\ c.pc = "open" => open_time_ms = c.time

Alone == \A t, u \in Threads : ~At(t, "idle") /\ ~At(u, "idle") => t = u

Settled == state = "CLOSED" => failure_count <= streak
Stamped == state = "OPEN" => open_time_ms = opened_at

SerialInv ==
  overlap = 0 =>
    /\ Alone
    /\ \A t \in Threads : Consistent(thread[t])
    /\ (\A t \in Threads : ~At(t, "clear")) => Settled
    /\ Stamped

\* What SerialContract says of a step.
SerialStep ==
  overlap' = 0 =>
    /\ DocumentedStep
    /\ state = "OPEN" /\ state' = "HALF_OPEN" => now - opened_at >= Timeout
    /\ state = "CLOSED" /\ state' = "OPEN" => streak >= FailureThreshold

\* The call a thread is in after its step, all other threads being idle.
LEMMA MovesAlone ==
  ASSUME TypeOK, NEW t \in Threads, NEW c \in CallSet, thread' = [thread EXCEPT ![t] = c],
         \A u \in Threads : u # t => At(u, "idle"),
         Consistent(c)', c.pc # "clear" => Settled', Stamped'
  PROVE  SerialInv'
<1>1. thread'[t] = c /\ \A u \in Threads : u # t => thread'[u] = thread[u]
  BY DEF TypeOK
<1>2. \A u \in Threads : u # t => thread'[u].pc = "idle"
  BY <1>1 DEF At
<1>3. Alone'
  BY <1>2 DEF Alone, At
<1>4. ASSUME NEW u \in Threads PROVE Consistent(thread[u])'
  <2>1. CASE u = t
    BY <1>1, <2>1 DEF Consistent
  <2>2. CASE u # t
    BY <1>2, <2>2 DEF Consistent
  <2>3. QED
    BY <2>1, <2>2
<1>5. (\A u \in Threads : ~At(u, "clear")') => Settled'
  BY <1>1 DEF At
<1>6. QED
  BY <1>3, <1>4, <1>5 DEF SerialInv

\* A step of a call under way: from what SerialInv says of the thread.
LEMMA ContinueSerial ==
  ASSUME BreakerInv, SerialInv, NEW t \in Threads, Continue(t)
  PROVE  SerialInv' /\ SerialStep
<1>1. CASE overlap # 0
  <2>1. overlap' = overlap
    BY DEF Continue, LoadState, LoadNow, LoadOpenTime, CompareExchange, ResetSuccesses, ReloadState,
       RecordSuccess, ClearFailures, CountSuccess, CloseFailures, CloseSuccesses, Close,
       RecordFailure, CountFailure, Stamp, StoreStamp, Open, OpenFailures, history
  <2>2. QED
    BY <1>1, <2>1 DEF SerialInv, SerialStep
<1>2. CASE overlap = 0
  <2> DEFINE b == thread[t]
  <2>1. /\ b.pc # "idle" /\ \A u \in Threads : u # t => At(u, "idle")
        /\ Consistent(b) /\ Stamped /\ (b.pc # "clear" => Settled)
    <3>1. b.pc # "idle"
      BY DEF Continue, LoadState, LoadNow, LoadOpenTime, CompareExchange, ResetSuccesses,
         ReloadState, RecordSuccess, ClearFailures, CountSuccess, CloseFailures, CloseSuccesses,
         Close, RecordFailure, CountFailure, Stamp, StoreStamp, Open, OpenFailures, At
    <3>2. \A u \in Threads : u # t => At(u, "idle")
      BY <1>2, <3>1 DEF SerialInv, Alone, At
    <3>3. (b.pc # "clear" => Settled)
      BY <1>2, <3>2 DEF SerialInv, At
    <3>4. QED
      BY <1>2, <3>1, <3>2, <3>3 DEF SerialInv
  <2>2. /\ state \in States /\ failure_count \in Nat /\ success_count \in Nat /\ streak \in Nat
        /\ streak <= FailureThreshold
        /\ open_time_ms \in Nat /\ now \in Nat /\ opened_at \in Nat /\ b \in CallSet
        /\ b.time \in Nat /\ FailureThreshold \in Nat \ {0} /\ Timeout \in Nat
    BY BreakerAssumption DEF BreakerInv, TypeOK, CallSet
  <2>3. b.pc \notin {"stamp", "stamp_store", "open", "open_failures"} =>
          failure_count <= FailureThreshold - 1
    <3>1. ASSUME b.pc \notin {"stamp", "stamp_store", "open", "open_failures"} PROVE Opening = {}
      BY <2>1, <3>1 DEF Opening, At
    <3>2. QED
      BY <2>2, <3>1, FS_EmptySet DEF BreakerInv, FailureCountBounded
  <2>4. \A pc \in PCs, tm \in {b.time, now} :
          LET c == Call(pc, b.request, tm)
          IN  c \in CallSet /\ c.pc = pc /\ c.time = tm
    BY DEF BreakerInv, TypeOK, CallSet, Call
  <2>5. Idle \in CallSet /\ Idle.pc = "idle"
    BY BreakerAssumption DEF CallSet, Idle, Call, PCs
  <2>6. ASSUME NEW c \in CallSet, thread' = [thread EXCEPT ![t] = c],
               Consistent(c)', c.pc # "clear" => Settled', Stamped'
        PROVE  SerialInv'
    BY <2>1, <2>6, MovesAlone DEF BreakerInv
  <2> HIDE DEF b
  <2>7. CASE LoadState(t)
    <3>1. /\ b.pc = "allow"
          /\ UNCHANGED <<state, failure_count, open_time_ms, now, history>>
      BY <2>2, <2>7 DEF LoadState, At, b, Allow, Finish, GoTo, atomics
    <3>2. PICK c \in CallSet : /\ thread' = [thread EXCEPT ![t] = c]
                               /\ (c.pc = "now" /\ state = "OPEN") \/ c.pc = "idle"
      BY <2>1, <2>2, <2>4, <2>5, <2>7
      DEF LoadState, Consistent, At, PCs, b, Allow, Finish, GoTo, atomics
    <3>3. Consistent(c)' /\ (c.pc # "clear" => Settled') /\ Stamped' /\ SerialStep
      BY <2>1, <2>2, <2>3, <3>1, <3>2
      DEF Consistent, Settled, Stamped, SerialStep, DocumentedStep, history, States
    <3>4. QED
      BY <2>6, <3>2, <3>3
  <2>8. CASE LoadNow(t)
    <3>1. /\ b.pc = "now"
          /\ UNCHANGED <<state, failure_count, open_time_ms, now, history>>
      BY <2>2, <2>8 DEF LoadNow, At, b, atomics, world
    <3>2. PICK c \in CallSet : /\ thread' = [thread EXCEPT ![t] = c]
                               /\ c.pc = "elapsed" /\ c.time = now
      BY <2>1, <2>2, <2>4, <2>5, <2>8 DEF LoadNow, Consistent, At, PCs, b, atomics, world
    <3>3. Consistent(c)' /\ (c.pc # "clear" => Settled') /\ Stamped' /\ SerialStep
      BY <2>1, <2>2, <2>3, <3>1, <3>2
      DEF Consistent, Settled, Stamped, SerialStep, DocumentedStep, history, States
    <3>4. QED
      BY <2>6, <3>2, <3>3
  <2>9. CASE LoadOpenTime(t)
    <3>1. /\ b.pc = "elapsed"
          /\ UNCHANGED <<state, failure_count, open_time_ms, now, history>>
      BY <2>2, <2>9 DEF LoadOpenTime, At, b, Block, Elapsed, Finish, GoTo, atomics
    <3>2. PICK c \in CallSet : /\ thread' = [thread EXCEPT ![t] = c]
                               /\ \/ (c.pc = "exchange" /\ c.time = b.time /\ b.time - open_time_ms >= Timeout)
                                  \/ c.pc = "idle"
      BY <2>1, <2>2, <2>4, <2>5, <2>9
      DEF LoadOpenTime, Consistent, At, PCs, b, Block, Elapsed, Finish, GoTo, atomics
    <3>3. Consistent(c)' /\ (c.pc # "clear" => Settled') /\ Stamped' /\ SerialStep
      BY <2>1, <2>2, <2>3, <3>1, <3>2
      DEF Consistent, Settled, Stamped, SerialStep, DocumentedStep, history, States
    <3>4. QED
      BY <2>6, <3>2, <3>3
  <2>10. CASE CompareExchange(t)
    <3>1. /\ b.pc = "exchange"
          /\ state' = "HALF_OPEN" /\ UNCHANGED <<failure_count, open_time_ms, now, history>>
      BY <2>1, <2>2, <2>10 DEF CompareExchange, Consistent, At, b, GoTo, world
    <3>2. PICK c \in CallSet : /\ thread' = [thread EXCEPT ![t] = c]
                               /\ c.pc = "reset"
      BY <2>1, <2>2, <2>4, <2>5, <2>10 DEF CompareExchange, Consistent, At, PCs, b, GoTo, world
    <3>3. Consistent(c)' /\ (c.pc # "clear" => Settled') /\ Stamped' /\ SerialStep
      BY <2>1, <2>2, <2>3, <3>1, <3>2
      DEF Consistent, Settled, Stamped, SerialStep, DocumentedStep, history, States
    <3>4. QED
      BY <2>6, <3>2, <3>3
  <2>11. CASE ResetSuccesses(t)
    <3>1. /\ b.pc = "reset"
          /\ UNCHANGED <<state, failure_count, open_time_ms, now, history>>
      BY <2>2, <2>11 DEF ResetSuccesses, At, b, Allow, Finish
    <3>2. PICK c \in CallSet : /\ thread' = [thread EXCEPT ![t] = c]
                               /\ c.pc = "idle"
      BY <2>1, <2>2, <2>4, <2>5, <2>11 DEF ResetSuccesses, Consistent, At, PCs, b, Allow, Finish
    <3>3. Consistent(c)' /\ (c.pc # "clear" => Settled') /\ Stamped' /\ SerialStep
      BY <2>1, <2>2, <2>3, <3>1, <3>2
      DEF Consistent, Settled, Stamped, SerialStep, DocumentedStep, history, States
    <3>4. QED
      BY <2>6, <3>2, <3>3
  <2>12. CASE ReloadState(t)
    BY <2>1, <2>12 DEF ReloadState, At, Consistent, b
  <2>13. CASE RecordSuccess(t)
    <3>1. /\ b.pc = "success"
          /\ streak' = 0 /\ UNCHANGED <<state, failure_count, open_time_ms, now, opened_at, overlap>>
      BY <2>2, <2>13
      DEF RecordSuccess, At, b, Dispatch, SuccessStep, Finish, GoTo, atomics, world, States
    <3>2. PICK c \in CallSet : /\ thread' = [thread EXCEPT ![t] = c]
                               /\ \/ (c.pc = "clear" /\ state = "CLOSED")
                                  \/ (c.pc = "count_success" /\ state = "HALF_OPEN")
                                  \/ (c.pc = "idle" /\ state = "OPEN")
      BY <2>1, <2>2, <2>4, <2>5, <2>13
      DEF RecordSuccess, Consistent, At, PCs, b, Dispatch, SuccessStep, Finish, GoTo, atomics,
         world, States
    <3>3. Consistent(c)' /\ (c.pc # "clear" => Settled') /\ Stamped' /\ SerialStep
      BY <2>1, <2>2, <2>3, <3>1, <3>2
      DEF Consistent, Settled, Stamped, SerialStep, DocumentedStep, history, States
    <3>4. QED
      BY <2>6, <3>2, <3>3
  <2>14. CASE ClearFailures(t)
    <3>1. /\ b.pc = "clear"
          /\ failure_count' = 0 /\ UNCHANGED <<state, open_time_ms, now, history>>
      BY <2>2, <2>14 DEF ClearFailures, At, b, NoFailures, Finish, world
    <3>2. PICK c \in CallSet : /\ thread' = [thread EXCEPT ![t] = c]
                               /\ c.pc = "idle"
      BY <2>1, <2>2, <2>4, <2>5, <2>14
      DEF ClearFailures, Consistent, At, PCs, b, NoFailures, Finish, world
    <3>3. Consistent(c)' /\ (c.pc # "clear" => Settled') /\ Stamped' /\ SerialStep
      BY <2>1, <2>2, <2>3, <3>1, <3>2
      DEF Consistent, Settled, Stamped, SerialStep, DocumentedStep, history, States
    <3>4. QED
      BY <2>6, <3>2, <3>3
  <2>15. CASE CountSuccess(t)
    <3>1. /\ b.pc = "count_success"
          /\ UNCHANGED <<state, failure_count, open_time_ms, now, history>>
      BY <2>2, <2>15 DEF CountSuccess, At, b, Finish, GoTo, world
    <3>2. PICK c \in CallSet : /\ thread' = [thread EXCEPT ![t] = c]
                               /\ c.pc \in {"close_failures", "idle"}
      BY <2>1, <2>2, <2>4, <2>5, <2>15 DEF CountSuccess, Consistent, At, PCs, b, Finish, GoTo, world
    <3>3. Consistent(c)' /\ (c.pc # "clear" => Settled') /\ Stamped' /\ SerialStep
      BY <2>1, <2>2, <2>3, <3>1, <3>2
      DEF Consistent, Settled, Stamped, SerialStep, DocumentedStep, history, States
    <3>4. QED
      BY <2>6, <3>2, <3>3
  <2>16. CASE CloseFailures(t)
    <3>1. /\ b.pc = "close_failures"
          /\ failure_count' = 0 /\ UNCHANGED <<state, open_time_ms, now, history>>
      BY <2>2, <2>16 DEF CloseFailures, At, b, NoFailures, GoTo, world
    <3>2. PICK c \in CallSet : /\ thread' = [thread EXCEPT ![t] = c]
                               /\ c.pc = "close_successes"
      BY <2>1, <2>2, <2>4, <2>5, <2>16
      DEF CloseFailures, Consistent, At, PCs, b, NoFailures, GoTo, world
    <3>3. Consistent(c)' /\ (c.pc # "clear" => Settled') /\ Stamped' /\ SerialStep
      BY <2>1, <2>2, <2>3, <3>1, <3>2
      DEF Consistent, Settled, Stamped, SerialStep, DocumentedStep, history, States
    <3>4. QED
      BY <2>6, <3>2, <3>3
  <2>17. CASE CloseSuccesses(t)
    <3>1. /\ b.pc = "close_successes"
          /\ UNCHANGED <<state, failure_count, open_time_ms, now, history>>
      BY <2>2, <2>17 DEF CloseSuccesses, At, b, GoTo, world
    <3>2. PICK c \in CallSet : /\ thread' = [thread EXCEPT ![t] = c]
                               /\ c.pc = "close"
      BY <2>1, <2>2, <2>4, <2>5, <2>17 DEF CloseSuccesses, Consistent, At, PCs, b, GoTo, world
    <3>3. Consistent(c)' /\ (c.pc # "clear" => Settled') /\ Stamped' /\ SerialStep
      BY <2>1, <2>2, <2>3, <3>1, <3>2
      DEF Consistent, Settled, Stamped, SerialStep, DocumentedStep, history, States
    <3>4. QED
      BY <2>6, <3>2, <3>3
  <2>18. CASE Close(t)
    <3>1. /\ b.pc = "close"
          /\ state' = "CLOSED" /\ streak' = 0
          /\ UNCHANGED <<failure_count, open_time_ms, now, opened_at, overlap>>
      BY <2>2, <2>18 DEF Close, At, b, Finish, world
    <3>2. PICK c \in CallSet : /\ thread' = [thread EXCEPT ![t] = c]
                               /\ c.pc = "idle"
      BY <2>1, <2>2, <2>4, <2>5, <2>18 DEF Close, Consistent, At, PCs, b, Finish, world
    <3>3. Consistent(c)' /\ (c.pc # "clear" => Settled') /\ Stamped' /\ SerialStep
      BY <2>1, <2>2, <2>3, <3>1, <3>2
      DEF Consistent, Settled, Stamped, SerialStep, DocumentedStep, history, States
    <3>4. QED
      BY <2>6, <3>2, <3>3
  <2>19. CASE RecordFailure(t)
    <3>1. /\ b.pc = "failure"
          /\ streak' = (IF streak < FailureThreshold THEN streak + 1 ELSE streak)
          /\ UNCHANGED <<state, failure_count, open_time_ms, now, opened_at, overlap>>
      BY <2>2, <2>19
      DEF RecordFailure, At, b, Dispatch, FailureStep, Finish, GoTo, atomics, world, States
    <3>2. PICK c \in CallSet : /\ thread' = [thread EXCEPT ![t] = c]
                               /\ \/ (c.pc = "count_failure" /\ state = "CLOSED")
                                  \/ (c.pc = "stamp" /\ state = "HALF_OPEN")
                                  \/ (c.pc = "idle" /\ state = "OPEN")
      BY <2>1, <2>2, <2>4, <2>5, <2>19
      DEF RecordFailure, Consistent, At, PCs, b, Dispatch, FailureStep, Finish, GoTo, atomics,
         world, States
    <3>3. Consistent(c)' /\ (c.pc # "clear" => Settled') /\ Stamped' /\ SerialStep
      BY <2>1, <2>2, <2>3, <3>1, <3>2
      DEF Consistent, Settled, Stamped, SerialStep, DocumentedStep, history, States
    <3>4. QED
      BY <2>6, <3>2, <3>3
  <2>20. CASE CountFailure(t)
    <3>1. /\ b.pc = "count_failure"
          /\ failure_count' = failure_count + 1 /\ UNCHANGED <<state, open_time_ms, now, history>>
      BY <2>2, <2>20 DEF CountFailure, At, b, TooMany, Finish, GoTo, world
    <3>2. PICK c \in CallSet : /\ thread' = [thread EXCEPT ![t] = c]
                               /\ \/ (c.pc = "stamp" /\ failure_count + 1 >= FailureThreshold)
                                  \/ c.pc = "idle"
      BY <2>1, <2>2, <2>4, <2>5, <2>20
      DEF CountFailure, Consistent, At, PCs, b, TooMany, Finish, GoTo, world
    <3>3. Consistent(c)' /\ (c.pc # "clear" => Settled') /\ Stamped' /\ SerialStep
      BY <2>1, <2>2, <2>3, <3>1, <3>2
      DEF Consistent, Settled, Stamped, SerialStep, DocumentedStep, history, States
    <3>4. QED
      BY <2>6, <3>2, <3>3
  <2>21. CASE Stamp(t)
    <3>1. /\ b.pc = "stamp"
          /\ UNCHANGED <<state, failure_count, open_time_ms, now, history>>
      BY <2>2, <2>21 DEF Stamp, At, b, atomics, world
    <3>2. PICK c \in CallSet : /\ thread' = [thread EXCEPT ![t] = c]
                               /\ c.pc = "stamp_store"
      BY <2>1, <2>2, <2>4, <2>5, <2>21 DEF Stamp, Consistent, At, PCs, b, atomics, world
    <3>3. Consistent(c)' /\ (c.pc # "clear" => Settled') /\ Stamped' /\ SerialStep
      BY <2>1, <2>2, <2>3, <3>1, <3>2
      DEF Consistent, Settled, Stamped, SerialStep, DocumentedStep, history, States
    <3>4. QED
      BY <2>6, <3>2, <3>3
  <2>22. CASE StoreStamp(t)
    <3>1. /\ b.pc = "stamp_store"
          /\ open_time_ms' = b.time /\ UNCHANGED <<state, failure_count, now, history>>
      BY <2>2, <2>22 DEF StoreStamp, At, b, NewStamp, GoTo, world
    <3>2. PICK c \in CallSet : /\ thread' = [thread EXCEPT ![t] = c]
                               /\ c.pc = "open" /\ c.time = b.time
      BY <2>1, <2>2, <2>4, <2>5, <2>22 DEF StoreStamp, Consistent, At, PCs, b, NewStamp, GoTo, world
    <3>3. Consistent(c)' /\ (c.pc # "clear" => Settled') /\ Stamped' /\ SerialStep
      BY <2>1, <2>2, <2>3, <3>1, <3>2
      DEF Consistent, Settled, Stamped, SerialStep, DocumentedStep, history, States
    <3>4. QED
      BY <2>6, <3>2, <3>3
  <2>23. CASE Open(t)
    <3>1. /\ b.pc = "open"
          /\ state' = "OPEN" /\ opened_at' = b.time
          /\ UNCHANGED <<failure_count, open_time_ms, now, streak, overlap>>
      BY <2>2, <2>23 DEF Open, At, b, GoTo, world
    <3>2. PICK c \in CallSet : /\ thread' = [thread EXCEPT ![t] = c]
                               /\ c.pc = "open_failures"
      BY <2>1, <2>2, <2>4, <2>5, <2>23 DEF Open, Consistent, At, PCs, b, GoTo, world
    <3>3. Consistent(c)' /\ (c.pc # "clear" => Settled') /\ Stamped' /\ SerialStep
      BY <2>1, <2>2, <2>3, <3>1, <3>2
      DEF Consistent, Settled, Stamped, SerialStep, DocumentedStep, history, States
    <3>4. QED
      BY <2>6, <3>2, <3>3
  <2>24. CASE OpenFailures(t)
    <3>1. /\ b.pc = "open_failures"
          /\ failure_count' = 0 /\ UNCHANGED <<state, open_time_ms, now, history>>
      BY <2>2, <2>24 DEF OpenFailures, At, b, NoFailures, Finish, world
    <3>2. PICK c \in CallSet : /\ thread' = [thread EXCEPT ![t] = c]
                               /\ c.pc = "idle"
      BY <2>1, <2>2, <2>4, <2>5, <2>24
      DEF OpenFailures, Consistent, At, PCs, b, NoFailures, Finish, world
    <3>3. Consistent(c)' /\ (c.pc # "clear" => Settled') /\ Stamped' /\ SerialStep
      BY <2>1, <2>2, <2>3, <3>1, <3>2
      DEF Consistent, Settled, Stamped, SerialStep, DocumentedStep, history, States
    <3>4. QED
      BY <2>6, <3>2, <3>3
  <2>25. QED
    BY <2>7, <2>8, <2>9, <2>10, <2>11, <2>12, <2>13, <2>14, <2>15, <2>16, <2>17, <2>18, <2>19,
       <2>20, <2>21, <2>22, <2>23, <2>24 DEF Continue
<1>3. QED
  BY <1>1, <1>2

\* A call begins, or an answer that is not recorded arrives.
LEMMA BeginSerial ==
  ASSUME BreakerInv, SerialInv, NEW t \in Threads, NEW r \in Requests,
         Fetch(t, r) \/ HandleDone(t, r)
  PROVE  SerialInv' /\ SerialStep
<1>1. /\ At(t, "idle") /\ UNCHANGED <<state, failure_count, open_time_ms, now, opened_at, streak>>
      /\ overlap' = IF \E u \in Threads \ {t} : ~At(u, "idle") THEN 1 ELSE overlap
  BY DEF Fetch, HandleDone, Overlaps, atomics, world
<1>2. SerialStep
  BY <1>1 DEF SerialStep, DocumentedStep
<1>3. CASE overlap' # 0
  BY <1>2, <1>3 DEF SerialInv
<1>4. CASE overlap' = 0
  <2>1. overlap = 0 /\ \A u \in Threads : At(u, "idle")
    BY <1>1, <1>4
  <2>2. Settled /\ Stamped
    BY <2>1 DEF SerialInv, At
  <2>3. Settled' /\ Stamped'
    BY <1>1, <2>2 DEF Settled, Stamped
  <2>4. CASE UNCHANGED thread
    BY <1>1, <1>2, <2>1, <2>3, <2>4 DEF SerialInv, Alone, At, Consistent
  <2>5. CASE ~UNCHANGED thread
    <3>1. PICK c \in CallSet : /\ thread' = [thread EXCEPT ![t] = c]
                               /\ c.pc \in {"allow", "success", "failure"}
      <4>1. \A pc \in PCs : Call(pc, r, 0) \in CallSet /\ Call(pc, r, 0).pc = pc
        BY BreakerAssumption DEF Call, CallSet
      <4>2. QED
        BY <2>5, <4>1 DEF Fetch, HandleDone, PCs
    <3>2. Consistent(c)'
      BY <3>1 DEF Consistent
    <3>3. QED
      BY <1>2, <2>1, <2>3, <3>1, <3>2, MovesAlone DEF BreakerInv
  <2>6. QED
    BY <2>4, <2>5
<1>5. QED
  BY <1>3, <1>4

LEMMA NextSerial == BreakerInv /\ SerialInv /\ [Next]_vars => SerialInv' /\ SerialStep
<1> SUFFICES ASSUME BreakerInv, SerialInv, [Next]_vars PROVE SerialInv' /\ SerialStep
  OBVIOUS
<1>1. CASE Tick \/ OriginChanges \/ UNCHANGED vars
  <2>1. /\ UNCHANGED <<state, failure_count, open_time_ms, thread, opened_at, streak, overlap>>
        /\ now' \in {now, now + 1} /\ now \in Nat
    BY <1>1 DEF Tick, OriginChanges, vars, atomics, world, history, BreakerInv, TypeOK
  <2>2. \A t \in Threads : thread[t].time \in Nat
    BY BreakerAssumption DEF BreakerInv, TypeOK
  <2>3. QED
    BY <2>1, <2>2 DEF SerialInv, SerialStep, DocumentedStep, Alone, At, Consistent, Settled, Stamped
<1>2. QED
  BY <1>1, ContinueSerial, BeginSerial DEF Next

\* As long as no two calls have overlapped, state_ changes only along the
\* documented transitions, an open circuit is probed only when the timeout has
\* passed, and a closed one opens only after failure_threshold failures in a
\* row; for any number of threads and requests, thresholds and timeouts.
THEOREM SerialCallsKeepContract == Spec => SerialContract
<1>1. Init => SerialInv
  <2> SUFFICES ASSUME Init PROVE SerialInv
    OBVIOUS
  <2>1. \A t \in Threads : thread[t].pc = "idle"
    BY DEF Init, Idle, Call
  <2>2. QED
    BY <2>1 DEF Init, SerialInv, Alone, At, Consistent, Settled, Stamped
<1>2. BreakerInv /\ SerialInv /\ [Next]_vars => [SerialStep]_vars
  BY NextSerial
<1>3. QED
  BY <1>1, <1>2, NextSerial, BreakerInvariant, PTL DEF Spec, SerialContract, SerialStep
=============================================================================
