---------------------------- MODULE CircuitBreaker ----------------------------
(***************************************************************************)
(* The circuit breaker around the resource fetcher                         *)
(* (pagespeed/system/circuit_breaker.{h,cc}, circuit_breaker_fetcher.cc).  *)
(*                                                                         *)
(* The breaker is lock-free: it keeps four atomics and every action below  *)
(* is one access to one of them.  A thread runs one call at a time; a      *)
(* request that was allowed through stays in flight, attached to no        *)
(* thread, until the base fetcher completes it on some thread.  Accesses   *)
(* are interleaved as if sequentially consistent.                          *)
(***************************************************************************)
EXTENDS Integers, FiniteSets

CONSTANTS
  Threads,
  Requests,
  FailureThreshold,   \* config_.failure_threshold
  SuccessThreshold,   \* config_.success_threshold
  Timeout,            \* config_.timeout_ms
  MaxTime,            \* bound on the clock
  None

ASSUME BreakerAssumption ==
  /\ IsFiniteSet(Threads)
  /\ FailureThreshold \in Nat \ {0}
  /\ SuccessThreshold \in Nat \ {0}
  /\ Timeout \in Nat
  /\ MaxTime \in Nat
  /\ None \notin Requests

VARIABLES
  state, failure_count, success_count, open_time_ms,  \* the atomics
  now,         \* timer_->NowMs()
  healthy,     \* does the origin answer?  Its answers decide the outcomes.
  rstate,      \* per request: "idle", "in_flight"
  thread,      \* per thread: the call it is in
  opened_at,   \* the time stamped by the call that last stored OPEN (history)
  streak,      \* failures recorded in a row since the circuit closed (history)
  overlap      \* 1 once two calls have run at the same time (history)

atomics == <<state, failure_count, success_count, open_time_ms>>
world   == <<now, healthy, rstate>>
history == <<opened_at, streak, overlap>>
vars == <<atomics, world, thread, history>>

States == {"CLOSED", "OPEN", "HALF_OPEN"}
PCs == {"idle", "allow", "now", "elapsed", "exchange", "reset", "reload",
        "success", "clear", "count_success", "close_failures",
        "close_successes", "close", "failure", "count_failure", "stamp",
        "stamp_store", "open", "open_failures"}

\* A thread's call: where it is, for which request, and the time it read.
Call(pc, r, t) == [pc |-> pc, request |-> r, time |-> t]
Idle == Call("idle", None, 0)

Init ==
  /\ state = "CLOSED" /\ failure_count = 0 /\ success_count = 0
  /\ open_time_ms = 0
  /\ now = 0 /\ healthy = TRUE
  /\ rstate = [r \in Requests |-> "idle"]
  /\ thread = [t \in Threads |-> Idle]
  /\ opened_at = 0 /\ streak = 0 /\ overlap = 0

At(t, pc) == thread[t].pc = pc
GoTo(t, pc) == thread' = [thread EXCEPT ![t] = Call(pc, @.request, @.time)]
Finish(t) == thread' = [thread EXCEPT ![t] = Idle]
\* A call's next access, or its return.
Dispatch(t, pc) == IF pc = "idle" THEN Finish(t) ELSE GoTo(t, pc)

(***************************************************************************)
(* AllowRequest, called by CircuitBreakerFetcher::Fetch                    *)
(***************************************************************************)

Overlaps(t) == overlap' = IF \E u \in Threads \ {t} : ~At(u, "idle") THEN 1 ELSE overlap

\* Fetch's call of AllowRequest begins.
Fetch(t, r) ==
  /\ At(t, "idle") /\ rstate[r] = "idle"
  /\ \A u \in Threads : thread[u].request # r
  /\ thread' = [thread EXCEPT ![t] = Call("allow", r, 0)]
  /\ Overlaps(t)
  /\ UNCHANGED <<atomics, world, opened_at, streak>>

\* The request goes to the base fetcher, wrapped in a CircuitBreakerCallback.
Allow(t) ==
  /\ rstate' = [rstate EXCEPT ![thread[t].request] = "in_flight"]
  /\ Finish(t)
\* The fetch fails at once with a 503.
Block(t) == Finish(t) /\ UNCHANGED rstate

LoadState(t) ==
  /\ At(t, "allow")
  /\ IF state = "OPEN" THEN GoTo(t, "now") /\ UNCHANGED rstate ELSE Allow(t)
  /\ UNCHANGED <<atomics, now, healthy, history>>

LoadNow(t) ==
  /\ At(t, "now")
  /\ thread' = [thread EXCEPT ![t] = Call("elapsed", @.request, now)]
  /\ UNCHANGED <<atomics, world, history>>

ElapsedSwapped(t) == open_time_ms - thread[t].time >= Timeout        \* mutant
Elapsed(t) == thread[t].time - open_time_ms >= Timeout

LoadOpenTime(t) ==
  /\ At(t, "elapsed")
  /\ IF Elapsed(t) THEN GoTo(t, "exchange") /\ UNCHANGED rstate ELSE Block(t)
  /\ UNCHANGED <<atomics, now, healthy, history>>

CompareExchange(t) ==
  /\ At(t, "exchange")
  /\ IF state = "OPEN"
     THEN state' = "HALF_OPEN" /\ GoTo(t, "reset")
     ELSE GoTo(t, "reload") /\ UNCHANGED state
  /\ UNCHANGED <<failure_count, success_count, open_time_ms, world, history>>

ResetSuccesses(t) ==
  /\ At(t, "reset")
  /\ success_count' = 0
  /\ Allow(t)
  /\ UNCHANGED <<state, failure_count, open_time_ms, now, healthy, history>>

ReloadState(t) ==
  /\ At(t, "reload")
  /\ IF state # "OPEN" THEN Allow(t) ELSE Block(t)
  /\ UNCHANGED <<atomics, now, healthy, history>>

(***************************************************************************)
(* RecordSuccess and RecordFailure, called by CircuitBreakerCallback       *)
(***************************************************************************)

\* The base fetcher completes r: 2xx and 3xx are successes, 5xx and network
\* errors failures, and a 4xx is not recorded.
HandleDone(t, r) ==
  /\ At(t, "idle") /\ rstate[r] = "in_flight"
  /\ \A u \in Threads : thread[u].request # r
  /\ rstate' = [rstate EXCEPT ![r] = "idle"]
  /\ \/ healthy /\ thread' = [thread EXCEPT ![t] = Call("success", r, 0)]
     \/ ~healthy /\ thread' = [thread EXCEPT ![t] = Call("failure", r, 0)]
     \/ healthy /\ UNCHANGED thread
  /\ Overlaps(t)
  /\ UNCHANGED <<atomics, now, healthy, opened_at, streak>>

\* What RecordSuccess does, by the state it loads.
SuccessStep ==
  [CLOSED |-> "clear", HALF_OPEN |-> "count_success", OPEN |-> "idle"]

RecordSuccess(t) ==
  /\ At(t, "success")
  /\ Dispatch(t, SuccessStep[state])
  /\ streak' = 0
  /\ UNCHANGED <<atomics, world, opened_at, overlap>>

NoFailures == 0

ClearFailures(t) ==
  /\ At(t, "clear")
  /\ failure_count' = NoFailures
  /\ Finish(t)
  /\ UNCHANGED <<state, success_count, open_time_ms, world, history>>

CountSuccess(t) ==
  /\ At(t, "count_success")
  /\ success_count' = success_count + 1
  /\ IF success_count' >= SuccessThreshold THEN GoTo(t, "close_failures") ELSE Finish(t)
  /\ UNCHANGED <<state, failure_count, open_time_ms, world, history>>

\* TransitionToClosed: three stores, the state last.
CloseFailures(t) ==
  /\ At(t, "close_failures")
  /\ failure_count' = NoFailures
  /\ GoTo(t, "close_successes")
  /\ UNCHANGED <<state, success_count, open_time_ms, world, history>>

CloseSuccesses(t) ==
  /\ At(t, "close_successes")
  /\ success_count' = 0
  /\ GoTo(t, "close")
  /\ UNCHANGED <<state, failure_count, open_time_ms, world, history>>

Close(t) ==
  /\ At(t, "close")
  /\ state' = "CLOSED"
  /\ streak' = 0
  /\ Finish(t)
  /\ UNCHANGED <<failure_count, success_count, open_time_ms, world, opened_at, overlap>>

\* What RecordFailure does, by the state it loads.
HalfOpenFailureIgnored ==                                            \* mutant
  [CLOSED |-> "count_failure", HALF_OPEN |-> "idle", OPEN |-> "idle"]
FailureStep ==
  [CLOSED |-> "count_failure", HALF_OPEN |-> "stamp", OPEN |-> "idle"]

RecordFailure(t) ==
  /\ At(t, "failure")
  /\ Dispatch(t, FailureStep[state])
  /\ streak' = IF streak < FailureThreshold THEN streak + 1 ELSE streak
  /\ UNCHANGED <<atomics, world, opened_at, overlap>>

TooManyPlusOne(n) == n > FailureThreshold                            \* mutant
TooMany(n) == n >= FailureThreshold

CountFailure(t) ==
  /\ At(t, "count_failure")
  /\ failure_count' = failure_count + 1
  /\ IF TooMany(failure_count') THEN GoTo(t, "stamp") ELSE Finish(t)
  /\ UNCHANGED <<state, success_count, open_time_ms, world, history>>

\* TransitionToOpen: reads the clock, then makes three stores.
Stamp(t) ==
  /\ At(t, "stamp")
  /\ thread' = [thread EXCEPT ![t] = Call("stamp_store", @.request, now)]
  /\ UNCHANGED <<atomics, world, history>>

OldStamp(t) == open_time_ms                                          \* mutant
NewStamp(t) == thread[t].time

StoreStamp(t) ==
  /\ At(t, "stamp_store")
  /\ open_time_ms' = NewStamp(t)
  /\ GoTo(t, "open")
  /\ UNCHANGED <<state, failure_count, success_count, world, history>>

Open(t) ==
  /\ At(t, "open")
  /\ state' = "OPEN"
  /\ opened_at' = thread[t].time
  /\ GoTo(t, "open_failures")
  /\ UNCHANGED <<failure_count, success_count, open_time_ms, world, streak, overlap>>

OpenFailures(t) ==
  /\ At(t, "open_failures")
  /\ failure_count' = NoFailures
  /\ Finish(t)
  /\ UNCHANGED <<state, success_count, open_time_ms, world, history>>

(***************************************************************************)
(* The world                                                               *)
(***************************************************************************)

Tick ==
  /\ now < MaxTime
  /\ now' = now + 1
  /\ UNCHANGED <<atomics, healthy, rstate, thread, history>>

OriginChanges ==
  /\ healthy' = ~healthy
  /\ UNCHANGED <<atomics, now, rstate, thread, history>>

Continue(t) ==
  \/ LoadState(t) \/ LoadNow(t) \/ LoadOpenTime(t) \/ CompareExchange(t)
  \/ ResetSuccesses(t) \/ ReloadState(t)
  \/ RecordSuccess(t) \/ ClearFailures(t) \/ CountSuccess(t)
  \/ CloseFailures(t) \/ CloseSuccesses(t) \/ Close(t)
  \/ RecordFailure(t) \/ CountFailure(t)
  \/ Stamp(t) \/ StoreStamp(t) \/ Open(t) \/ OpenFailures(t)

Next ==
  \/ \E t \in Threads : Continue(t)
  \/ \E t \in Threads, r \in Requests : Fetch(t, r) \/ HandleDone(t, r)
  \/ Tick
  \/ OriginChanges

Spec == Init /\ [][Next]_vars

\* Threads run, time passes, requests keep coming and the base fetcher completes
\* them; the origin need not change.
FairSpec ==
  /\ Spec
  /\ \A t \in Threads : WF_vars(Continue(t))
  /\ WF_vars(Tick)
  /\ \A r \in Requests : WF_vars(\E t \in Threads : Fetch(t, r) \/ HandleDone(t, r))

(***************************************************************************)
(* Properties                                                              *)
(***************************************************************************)

TypeOK ==
  /\ state \in States
  /\ failure_count \in Nat /\ success_count \in Nat
  /\ open_time_ms \in 0..MaxTime /\ now \in 0..MaxTime
  /\ healthy \in BOOLEAN
  /\ rstate \in [Requests -> {"idle", "in_flight"}]
  /\ thread \in [Threads -> [pc : PCs, request : Requests \cup {None},
                             time : 0..MaxTime]]
  /\ opened_at \in 0..MaxTime
  /\ streak \in 0..FailureThreshold
  /\ overlap \in 0..1

DocumentedStep ==
  \/ UNCHANGED state
  \/ state = "CLOSED" /\ state' = "OPEN"
  \/ state = "OPEN" /\ state' = "HALF_OPEN"
  \/ state = "HALF_OPEN" /\ state' \in {"CLOSED", "OPEN"}

\* state_ changes only along the four transitions that the class comment lists.
DocumentedTransitions == [][DocumentedStep]_vars

\* As long as no two calls have overlapped, with answers arriving late and in
\* any order, state_ keeps to its transitions; AllowRequest probes an open
\* circuit only when timeout_ms has passed since TransitionToOpen read the
\* clock; and RecordFailure opens a closed one only after failure_threshold
\* failures with no success between them.
SerialContract ==
  [][overlap' = 0 =>
       /\ DocumentedStep
       /\ state = "OPEN" /\ state' = "HALF_OPEN" => now - opened_at >= Timeout
       /\ state = "CLOSED" /\ state' = "OPEN" => streak >= FailureThreshold]_vars

\* Threads between counting the failure that passes the threshold and the reset
\* at the end of TransitionToOpen.
Opening ==
  {t \in Threads : thread[t].pc \in {"stamp", "stamp_store", "open",
                                     "open_failures"}}

\* However many threads race in RecordFailure, failure_count_ passes the
\* threshold by at most one for each thread that is opening the circuit: a late
\* reset never leaves a count behind that runs away.
FailureCountBounded ==
  failure_count <= FailureThreshold - 1 + Cardinality(Opening)

\* While the origin stays down, RecordFailure gets the circuit open from wherever
\* it is, whatever threads race in the transitions.
TripsWhenDown == []([]~healthy => <>(state = "OPEN"))

\* While the origin stays up, and the bounded clock leaves room for the timeout,
\* AllowRequest gets the circuit out of OPEN for good.
RecoversWhenUp ==
  []([](healthy /\ open_time_ms + Timeout <= MaxTime) => <>[](state # "OPEN"))
===============================================================================
