# mod_pagespeed in TLA+

mod_pagespeed rewrites web pages while they are served. Most of its code is
sequential work on text and pictures; what holds a server together is the
control around that work: the rewrite contexts and drivers that look up, lock,
load, rewrite and render under a deadline, and below them the threads and
sequences that run everything, the caches, the locks that processes share, and
the fetchers with their limits. This project models that control: TLA+ modules
translated from the source, TLC runs on small instances, and TLAPS proofs for
every value of the constants.

Paths below are relative to `src/`.

## 1. Inventory

### 1.1 Parts, their state and operations

| Part | State | Operations | Modelled |
|---|---|---|---|
| Worker pool (`pagespeed/kernel/thread/queued_worker_pool.cc`, `worker.cc`, `queued_worker.cc`) | sequences with their queues, `active_`, `shutdown_`; the deque of waiting sequences; the free list; active and idle workers | `NewSequence`, `Add`, `CancelPendingFunctions`, `FreeSequence`, the worker's `Run`, `InitiateShutDown`, `WaitForShutDownComplete` | `QueuedWorkerPool`, `SequenceContract` |
| Rate controller (`net/instaweb/http/rate_controller.cc`) | a map host -> `HostFetchInfo`, each with a count and a queue; a queue-size statistic shared by processes; a per-thread drain loop | `Fetch`, `CustomFetch::HandleDone`, `DeleteFetchInfoIfPossible`, `ShutDown` | `RateController` |
| Circuit breaker (`pagespeed/system/circuit_breaker.cc`, `circuit_breaker_fetcher.cc`) | four atomics: state, failures, successes, open time | `AllowRequest`, `RecordSuccess`, `RecordFailure` | `CircuitBreaker` |
| Cache batcher (`pagespeed/kernel/cache/cache_batcher.cc`) | callbacks in flight and queued per key, three counters, groups of lookups | `Get`, `ValidateCandidate`, `Done`, `GroupComplete`, `ShutDown` | `CacheBatcher` |
| Shared-memory locks (`pagespeed/kernel/sharedmem/shared_mem_lock_manager.cc`, `pagespeed/kernel/thread/scheduler_based_abstract_lock.cc`) | a table of slots (hash, time) in shared memory; the acquisition time in each lock object | `TryLock`, `TryLockStealOld`, `Unlock`, `LockTimedWait`, `LockTimedWaitStealOld` | `SharedMemLock` (one bucket) |
| Scheduler and alarms (`kernel/thread/scheduler.cc`, `queued_alarm.cc`, `scheduler_sequence.cc`, `event_scheduler.cc`) | ordered alarms, waiters in two queues, a signal count; a `QueuedAlarm` with `canceled_` and `queued_sequence_portion_` | `AddAlarmAtUs`, `CancelAlarm`, `TimedWait`, `Signal`, `ProcessAlarms` | `QueuedAlarm` in `FetchRewrite`; the rest planned |
| Dispatcher sequence (`kernel/thread/dispatcher_sequence.cc`) | a queue, `running_task_`, two shutdown flags | `Add`, `RunNextTask`, `InitiateShutdown` | planned |
| In-memory locks (`kernel/util/mem_lock*.cc`, `threadsafe_lock_manager.cc`) | per name: owner, pending waiters, pending thieves, in wakeup order | grant, steal, time out, deny | planned |
| Asynchronous cache (`kernel/cache/async_cache.cc`) | outstanding operations, `stopped_` | `Get`, `Put`, `Delete` posted to a sequence; `ShutDown` | planned |
| Purge context (`kernel/cache/purge_context.cc`) | purges and callbacks waiting, the file, an inter-process lock | add, merge under the lock, verify, retry | planned |
| Shared-memory cache and statistics (`kernel/sharedmem`) | blocks, entries with reader counts, LRU lists; counters | `Get`, `Put`, `Delete`; `Add` | planned |
| HTTP cache and fetchers (`net/instaweb/http`) | remembered failures, locks held by fetches | `Find`, `Put`, fetch with lock | planned |
| Property cache (`pagespeed/opt/http`) | pending lookups of two levels | `Read`, fast finish, `CancelRead` | planned |
| Documents (`net/instaweb/rewriter/rewrite_context.cc`, `rewrite_driver.cc`, `page_work_budget.cc`) | per context: predecessors, successors, repeated and nested contexts, outstanding loads; per driver: pending, detached and deleting rewrites, `possibly_quick_rewrites_`, reference counts; the page budget | flush, start, lookup, lock, load, revalidate, partition, rewrite, propagate, mark slow, detach, delete | `PageRewrite` |
| Resource fetches (`rewrite_context.cc`, `rewrite_driver.cc`, `in_place_rewrite_context.cc`, `resource_fetch.cc`) | the `FetchContext` with `detached_` and `deadline_alarm_`, the inputs loading, the `RecordingFetch`, the driver's references | fetch, lookups, reconstruct, detach, deadline, answer, release | `FetchRewrite` |
| Filters, HTML/CSS/JS/image libraries, options, rule packs, daemon adapter, server ports, Memcached/Redis/curl clients | - | sequential transformations, parsing, I/O, glue | not modelled (section 8) |

### 1.2 How the parts interact

A server port hands a request to a rewrite driver, which runs on sequences of
the worker pool: the HTML of a page is parsed and flushed on a thread of its
own while its rewrites run on the rewrite sequence and, the filters' own work,
on the low-priority one. Rewrites look up metadata through the HTTP and property
caches, whose lowest level is a batcher over an asynchronous cache over the pool.
A miss takes a named lock (shared between processes) so that one process
rewrites, and fetches its inputs through the circuit breaker and the rate
controller, which wrap the base fetcher. The page or the resource is answered
when the rewrites are done or its deadline has passed, whichever is first; the
rewrites go on in the background. Every answer is a callback on an arbitrary
thread. Each component below is therefore open on both sides: its clients call
it from any thread, and the component it wraps answers late, in any order,
perhaps from within the call.

`PageRewrite` and `FetchRewrite` use the contracts of the components below them,
not their modules: a sequence runs its functions one at a time and in order
(`SequenceContract`), a lock is granted or denied, a lookup and a load are
answered once, at any time, the low-priority pool may shed a function.

### 1.3 What is hard, and which properties matter

* **Worker pool.** The decision to dispatch is taken under one mutex and acted
  on under another; a sequence may be freed, canceled, shed or shut down in
  between. Correct means: a sequence's functions run one at a time in order,
  none is lost or run twice, a freed sequence is recycled exactly once, and
  work and shutdown finish.
* **Rate controller.** Slots are given back and taken in separate critical
  sections, a completing fetch may re-enter the controller on the same stack,
  and the last completion must wake the queue. Correct means exact counts, the
  limits, one answer per client and no stranded fetch.
* **Circuit breaker.** It is lock-free, so that every transition is several
  accesses that others interleave with. Correct means the documented
  transitions and timeouts, bounded counters, and that it opens and recovers.
* **Cache batcher.** Lookups coalesce, queue and go out in groups while others
  complete. Correct means exact counters (a drift would drop lookups for ever),
  no callback lost or called twice, and that each hears its own verdict.
* **Shared-memory locks.** Holders die and locks are stolen; stale holders
  unlock later. Correct means one slot per name, one recorded holder, thefts
  no more often than the timeout, and an answer to every request.

* **Documents.** Rewrites wait for each other in three ways (slots they share,
  contexts nested in them, a context with the same partition key) and for room
  in the page budget, while the HTML thread detaches at its deadline whatever is
  not finished. Correct means: the counts the flush waits on and those that keep
  the driver alive are right at every step, no wakeup and no waiter is lost, no
  circle of waiting rewrites, nothing rendered after its window or used after
  its deletion; the page ends when lookups are answered, and the driver is
  released when everything is.
* **Resource fetches.** The deadline alarm, the end of the rewrite and, in
  place, the streaming of the original race for the answer and for the
  references of the driver. Correct means one answer, by the deadline where the
  original can stand in, one deletion of the alarm, and a driver that is released
  by its last user.

`PROJECT.json` lists each hazard at its line with the properties that guard it.

## 2. Modules

| Module | Content |
|---|---|
| `QueuedWorkerPool` | the pool; properties |
| `SequenceContract` | what a sequence promises its users: a serial FIFO executor |
| `QueuedWorkerPoolProofs` | types; one dispatch at a time; one owner per function; the contract; nothing outstanding after the shutdown |
| `RateController`, `RateControllerProofs` | the controller; exact counts, limits, wakers |
| `CircuitBreaker`, `CircuitBreakerProofs` | the breaker; the bound on its failure count; calls that do not overlap |
| `CacheBatcher`, `CacheBatcherProofs` | the batcher; exact counters, verdicts, the CHECK |
| `SharedMemLock`, `SharedMemLockProofs` | one bucket of the lock table, and the waits; one holder, kept until stolen |
| `PageRewrite` | the rewrites of one HTML document, its driver and its budget |
| `PageRewriteProofs` | queues of tasks and `Closure`; wakeups, windows, the typing of the contexts; the invariant of the contexts and the steps that move one of them |
| `PageContextProofs` | one continuation for each context; the driver's counts and its release; no circle of waiting rewrites |
| `FetchRewrite`, `FetchRewriteProofs` | one fetch of an optimized resource, with its `QueuedAlarm`; one answer, the driver's lifetime |
| `*MC` | instances for TLC: symmetry sets and constant functions |

Variables and actions keep the names of the C++ members and methods (without
the trailing underscore). A definition marked `\* mutant` is a plausible wrong
form of the definition that follows it; `PROJECT.json` says which property
each one violates. Nothing else refers to them.

### 2.1 QueuedWorkerPool

One action is one critical section of the pool's `mutex_`, of a
`sequence_mutex_` or of a worker's mutex; what a thread carries from one to
the next is its record in `call`, `wk` or `stop`. `Add` decides under the
sequence's mutex; `QueueToWorker`, `QueueToWait` and `QueueWithoutPool` are the
three courses `QueueSequence` can take afterwards. `NextFunction`,
`DrainShutDown`, `SequenceNoLongerActive` and `AssignWorkerToNextSequence` are
the worker's loop. Shutdown is the sequence of `InitiateShutDown` to
`ShutDownDone`. Constants say how the pool is used: whether clients call
`CancelPendingFunctions`, which queue bounds they set and whether load is shed.
In every run calls of `Add` race the shutdown, as nothing in the code keeps them
from it: one that is past `sequence_mutex_` may find `pool_` NULL
(`QueueWithoutPool`) or its worker deleted (`RunInWorkThread`), and its thread is then
`crashed` (section 6).

Abstracted: the load of `pool_` and the critical section of `QueueSequence` are one
step; a call that gets between them while the pool shuts down is one more form of
the same defect.

`SequenceContract` has no pool: functions are accepted, refused, started,
finished or canceled. The refinement maps a sequence's `work_queue` to
`pending`, the functions its workers are running to `running`, and `fstate` to
`outcome`.

### 2.2 RateController

A `HostFetchInfo` is named by the fetch that created it, so that two objects for
one host at different times stay apart; this is what `DeleteFetchInfoIfPossible`
confuses (section 6). `HandleDone` is `Decrement`, `PopNextFetch`, then
`StartPopped` or, after a shutdown, `DiscardPopped` and `Release`; `DrainLoop`
starts what nested completions on the same thread have added to
`pending_starts`. `Hosts` are hosts as seen by one controller; several
controllers share `queue_size`, as processes do.

### 2.3 CircuitBreaker

Every load, store, increment and compare-exchange is an action. Requests in
flight belong to no thread; `HandleDone` picks them up with an outcome decided
by `healthy`, the state of the origin at that moment. `opened_at`, `streak` and
`overlap` (whether two calls have ever overlapped) are history variables for the
properties.

### 2.4 CacheBatcher

A lookup is a record with the `saved_` callbacks. `ValidateCandidate` may happen
several times, as in a two-level cache; the first one takes the callbacks out of
`in_flight_`. `DecrementInFlightGets`, `Report` and `GroupComplete` are the three
stages of `Done`. `crashed` is set when the `CHECK` in `ExtractInFlightKeys`
fails.

### 2.5 SharedMemLock

Objects of any number of processes share one bucket; buckets share nothing. A
`TryLock` holds the bucket's mutex throughout and is one step, except that a
process may die half way through (`DieLocking`): the mutex is robust, and the
next process finds the new hash with the old time. `Request` holds the members
of `TimedWaitPollState`; `BusySpin`, `Poll`, `Check` and `Schedule` are its loop,
with the clock read where the code reads it.

### 2.6 PageRewrite

A document is a constant: its contexts in the order they are made, each with its
slots, partition key, flush window, number of inputs, parent, and what the
metadata cache may say of its key (`cached`). `Init` chooses one. The
HTML thread is `InitiateRewrite`, `FlushAsync`, `CheckForCompletionAsync`, `Woken`
and `Deadline` (the two ways a wait ends), `FlushAsyncDone` and
`FinishParseAfterFlush`, then `Cleanup`. The rewrite sequence takes the head of
`tasks`: `Start` (in four courses: disabled, refused by the budget, primary,
repeated), `OutputCacheHit`, `OutputCacheNotOk` and
`OutputCacheMiss`, `LockFailed`, `FetchInputs`, `RevalidateInputs` and the ends of their
loads, `PartitionDone`, `StartNestedTasksImpl`, `RewriteDoneImpl`, `Finalize`,
`RepeatedSuccess` and `RepeatedFailure`, `RewriteComplete`, `DeleteRewriteContext`.
What a task does by a plain call after another thread could have taken the
driver's mutex is a task in front of the others; what is queued goes to the end.
`MarkSlow` with `CollectDependentTopLevel`, the pass-on of turns in
`PageWorkBudget` and the propagation to successors are operators that the
actions apply in the order of the code.

Abstracted: a context has one partition, and a repeated copy counts one entry
of the partition table, as do the nested ones further down; the policy that decides
whether a result renders (content security policy, `ShouldRender`) is left to
`Renders`; the reasons for which a lookup fails its validation are one. Partitioning
is done in place, as by `RewriteContext::PartitionAsync`; the filters that combine
scripts and images override it to work on the low-priority sequence and come back
through `CrossThreadPartitionDone`, one more hop of the kind that `Rewrite` makes and
that is modelled there.

### 2.7 FetchRewrite

One request: its fixed properties (`RequestType`) are chosen by `Init`. `Begins`
is what `FetchResource`, `FetchInPlaceResource` and `FetchOutputResource` do
first; `owed` and `loads` are what caches, locks and fetchers have not answered;
`tasks` is the rewrite sequence. The `QueuedAlarm` goes through `armed`, `popped`
(off the scheduler's queue, its `Run` not begun), `queued` (its portion is on the
sequence) and `deleted`; between its constructor and the assignment of
`deadline_alarm_` there is a step (`making`, `QueuedAlarmMade`), which matters when
the thread that makes it is not the sequence. A `RecordingFetch` calls where its
fetcher does, or on the request thread's sequence. `drv` has the reference counts
of the client (`kRefUser`), the user-facing fetch and the background fetch. `fault`
is set where the code would fail a `CHECK` or use a freed alarm.

Abstracted: what happens between `Rewrite` and `RewriteDone`, nested rewrites
included; `Done` on the client's fetch and the `FetchComplete` that follows are one
step, since nobody else takes references then; forwarding to a request thread
counts as the rewrite sequence, which it replaces; a sequence that shuts down cancels a queued
`StartFetch` and nothing later; output that was already written is
not told apart from output rewritten now.

## 3. Runs

| Run | Checks | Instance | Shows |
|---|---|---|---|
| `pool_core` | `SequentialExecution`, `BusyIsVisible`, `QuietWhenDown`, `RefinesContract`, `FreedIsRecycled`, `ShutDownFinishes` | 2 threads, 2 sequences, 2 functions, 2 workers, `Add` during shutdown; 272k states | in the ordinary use of the pool functions are run in order, one at a time, freed sequences come back, shutdown ends and leaves no function queued or running |
| `pool_any` | `Ownership`, `AddedIsRetired` | 2 threads, 1 sequence, 3 functions, 1 worker, queue bound 1, shedding, cancellation and `Add` during shutdown; 76k states | whatever clients do, no function is lost, none is run twice, each is run or canceled |
| `pool_cancel_pending` | `SequentialExecution` | one client, `CancelPendingFunctions` | violated: section 6 |
| `rate_core` | `NobodyStranded`, `RateInv`, `EveryFetchAnswered` | 2 threads, 3 background and 1 user-facing fetch of one host, 1 invalid URL, limits of 1; 218k states | counts are exact, limits kept, every fetch is in one place and every client is answered |
| `rate_host_limit` | `HostLimit` | 3 threads, 5 fetches of one host | violated: section 6 |
| `breaker_core` | `FailureCountBounded`, `TripsWhenDown`, `RecoversWhenUp`, `SerialContract` | 2 threads, 2 requests, thresholds 2, timeout 1, clock to 2 | with races it still opens, recovers and keeps its count bounded; while calls do not overlap it does what its comment says, answers arriving late and in any order |
| `breaker_transitions` | `DocumentedTransitions` | 2 threads, thresholds 1 | violated: section 6 |
| `batcher_core` | `NoCheckFails`, `Accounted`, `AnsweredTruly`, `EveryGetAnswered` | 2 keys, 4 callbacks, 1 parallel lookup, 3 pending; 96k states | counters never drift, callbacks get their own answer once, nobody waits for ever |
| `lock_table` | `OneHolder`, `KeptUntilStolen`, `EveryRequestAnswered` | 3 objects, 2 names that collide, 2 slots, clock to 3; 161k states | locks stay exclusive in the table through thefts and deaths, and requests end |
| `page_core` | `TypeOK`, `QuickAccounted`, `RefsAccounted`, `NoLostWakeup`, `NoWaiterForgotten`, `DeletedUnreferenced`, `ReleasedLast`, `NoneLeftBehind`, `NoCircularWait`, `RendersInItsWindow`, `PageNeedsLookupsOnly`, `DriverReleased` | 7 documents of 2 to 5 contexts, up to 2 windows, 4 contexts started, 1 load at a time, 1 unit of bytes, 1 partition entry | counts and references are right whichever thread is first, nothing is forgotten, the page needs only its lookups, and the driver is released |
| `fetch_core` | `AnsweredOnce`, `DriverOutlivesFetch`, `NoDanglingAlarm`, `NoFetchCheckFails`, `AnsweredByDeadline`, `EveryDriverReleased` | every request of section 2.7 with up to 3 inputs, 2 loading at once, except those of `fetch_alarm`; 9.8k states | one answer, in time where possible, and no driver or alarm let go of too early, twice or never |
| `fetch_alarm` | `NoDanglingAlarm` | in-place requests that wait for the optimized resource, without a request-thread sequence | violated: section 6 |

### Bounds, and why they are enough

*Pool.* Two sequences and two workers suffice for a sequence to be dispatched
while another worker still holds it. In `pool_any` one worker is enough for a
sequence to wait, and three functions for it to be dispatched again while it does,
which is when it is shed. Two client threads race in `Add`, `FreeSequence` and
against the shutdown. Safety of dispatching is proved for all sizes.
*Rate controller.* Two threads and limits of one bring every pair of critical
sections together with the queue empty and full; nested completions are reached
because the base fetcher may complete within the call. The counts and limits
are proved for all sizes.
*Breaker.* Two threads are enough for every pair of accesses; the clock runs to
twice the timeout, so that an old and a new open time differ by it. In
`SerialContract` the history variable `overlap` singles out the behaviours in which
one call at a time is made, among those of two threads. The bound on
the failure count is proved for all sizes.
*Batcher.* Four callbacks over two keys give one lookup in flight, one coalesced
with it, a queued one and a dropped one; the shutdown adds a second group.
*Locks.* Two slots and two names with the same first slot let a name move when
slots are freed in either order. One of the names has hash 0, that of an unused
slot. The clock leaves room for one theft after a first grab.
*Documents.* Each document is the smallest that brings one kind of waiting about:
two rewrites of one slot and a third with the key of the first (`Chain`), a
combination of slots that others have first (`Combine`), style sheets that import
each other (`Import`), more nested rewrites than may start (`Many`), inputs that load
one at a time (`Loads`), a nested rewrite whose key the next window has too (`Shared`),
and a second window that repeats the first (`Windows`). The limits of the budget
are one, so that every place of it is contended for; real ones are larger, and
only how often they are met depends on them.
*Fetches.* A request is one state machine; drivers share nothing. Three inputs
with two loads at once make a load wait, end out of order and be too big early
or late.
`CHECK_DEADLOCK FALSE` is set where every function, fetch, callback or the clock
may be used up, or the fetch ends; the breaker's and the document's runs check for
deadlock.
Symmetry is used in safety runs only.

## 4. Fairness

* Pool: weak fairness of each thread inside a call, of each worker and of the
  thread that shuts down. Threads are scheduled and functions return (the pool's
  own requirement); no client is obliged to call anything.
* Rate controller: weak fairness of each thread inside the controller, and of
  the completion of each fetch: base fetchers have timeouts.
* Breaker: threads run, time passes, requests keep coming and are completed.
  The origin owes nothing; the properties speak of an origin that stays up or
  down. The circuit leaves `OPEN` only on a request, so requests must come.
* Batcher: the cache below completes its lookups; nobody need shut down.
* Locks: threads run, alarms go off, time passes, a spin ends after its
  iterations. Nobody is obliged to unlock.
* Documents: the HTML thread, its timer and the rewrite sequence keep going, and
  the metadata cache answers. That is all `PageNeedsLookupsOnly` assumes: locks,
  fetchers and filters may be silent for ever. `DriverReleased` assumes their
  answers too, each for itself, in the formula (`AllAnswered`).
* Fetches: the sequence runs its tasks, the scheduler its alarms, caches, locks and
  fetchers answer (they have timeouts), and the low-priority pool begins or sheds
  what it has. A filter's `Rewrite` may run for ever; `EveryDriverReleased` says what
  follows if it does not.

## 5. Proofs

All constants are arbitrary within the named assumptions of the modules
(`PoolAssumption`, `RateAssumption`, `LimitsAssumption`, ...): finite sets of
threads, fetches and callbacks where cardinalities are used, positive
thresholds, model values distinct from the data. Where a theorem needs more, it
says so in an `ASSUME` of its own, and section 6 shows the run that fails
without it. Each inductive invariant was checked with TLC on the component's
run before it was proved.

**QueuedWorkerPoolProofs.** `TypeCorrect` and `OneOwner` hold for every use of the
pool. `DispatchedAtMostOnce`, `RunsSequentially`, `IdleMeansIdle` and
`ContractHolds` assume `SerialUse`: clients do not cancel pending functions, nothing
is shed, no queue is bounded by one. `OneDispatch` is not inductive. `Add` dispatches when it
finds the queue empty and the sequence inactive, so one must know that a sequence
that has been dispatched and is open and inactive still has work
(`OpenHasWork`): then its next `Add` finds the queue non-empty. And since `Reset`
clears `active_`, a recycled sequence must carry no old dispatch: sequences being
freed are not dispatched and are freed once (`Recycling`). `DispatchInv` joins
these with what each worker state implies. `OneOwner` (`Ownership`) needs that a queue has no
function twice and that the queues and the workers share none (`OwnInv`).
`ContractHolds` is the refinement of `SequenceContract`: the mapping takes from the
workers the function each sequence runs; with `DispatchInv` and `OwnInv` every step of
the pool is an `Add`, a start, an end, a cancellation or a stutter of the
contract. `QuietAtTheEnd` (`QuietWhenDown`) holds for every use and with calls of `Add`
under way. It follows from `OneOwner` and from what each phase of `ShutDown` has
achieved: every sequence a thread can name is among those the shutdown goes over
(`Allocated`), once they all refuse functions (`Closing`) a queue that was emptied stays
empty (`Emptied`), and every worker that has a thread is known to the pool or is being
joined (`Staffed`).

**RateControllerProofs.** `RateInv` is inductive. `QueueInv` has the types, that
a thread about to queue a fetch works on a full `HostFetchInfo`, and that a non-empty
queue has a waker; `PlacesOK` says that each fetch is in one place, in the
state that goes with it, and that queues have no repetitions; `SlotsAccounted`
is an equality of a counter and a cardinality. Each step gains, loses, passes
on or leaves alone one slot, and a lemma for each of the four (`GainStep`,
`LoseStep`, `PassStep`, `NeutralStep`) does the counting, so that the actions
need no cardinalities. `CountsAreExact`, `LimitPerHostFetchInfo`, `QueuedIsWoken`
and `TypeCorrect` follow.

**CircuitBreakerProofs.** `BreakerInv` is the type invariant with
`FailureCountBounded`: the count is below the threshold plus the threads between
passing it and the reset. A thread that counts past the threshold joins that
set in the same step, and one that leaves it has just reset the count.
`SerialCallsKeepContract` is about behaviours in which no two calls have
overlapped: then one thread at most is in a call (`Alone`), what it has read still
holds (`Consistent`), the count is at most the failures in a row (`Settled`) and the
open time is that of the opening (`Stamped`).

**CacheBatcherProofs.** `BatcherInv` has two halves. Of the lookups: a group and a
key name one lookup, the last lookup of a group completes it, and a group
costs at least one callback, so that `NewGroup` always finds one that is not alive. Of the
callbacks: each is in one place (in flight, queued, saved by one lookup, told),
and a key is never both in flight and queued. `CountersExact` and
`EachToldItsOwn` follow for every bound, also where the CHECK can fail. `CheckHolds`
assumes `OneLookupPerKey` (one parallel lookup, or a bound on pending `Get`s that is
never reached); `KeysInv` adds that the keys in flight are those of the lookups not
yet validated, one lookup each.

**SharedMemLockProofs.** `OneHolder` needs that a taken slot is the one in which the
search for its name ends (`HeldIsFound`), else a second slot would be taken
for it; and that no two objects of a name believe in the same acquisition
(`StampsDiffer`), else the thief and its victim would both be recorded. For that,
no stamp is in the future (`StampsPast`). `HolderKept` follows for each step.

**FetchRewriteProofs.** `FetchInv` says that one party carries the fetch at a time: a
lookup, a task, the loads, the `RecordingFetch`, the constructor of the alarm or the
rewrite (`Phases`), and that who carries it determines every reference to the
driver. `ClientAnsweredOnce`, `AlarmNeverDangles`, `ChecksHold` and `ReleasedByTheLast`
follow. They assume `AlarmsOnSequence`: no request makes its alarm in a fetcher's
thread, which is what `fetch_alarm` is about.

**PageRewriteProofs.** `FlushInv` says that a flush window holds rewrites of its own
contexts only and that the driver waits only while the HTML thread does. Every
step of the rewrite sequence leaves the driver alone or ends in `SignalIfRequired`
(`SequenceSignals`), from which `FlushIsWoken` follows; `Frame`, that no step changes the
fixed parts of a context, gives `RendersInWindow`. The module also has what the
next one rests on: what adding and removing a task does to the number of tasks of a
kind (`Num`), that `Closure` is the least set that contains a set and is closed under
the steps (`ClosureClosed`, `ClosureLeast`), `Typing`, and the definition of `Core` with the
steps that move one context on without a load (`StepKeeps`).

**PageContextProofs.** `Core` is inductive (`ContextInvariant`). Its centre is
`OneContinuation`: what goes on with a context is exactly one of a control task,
a lookup, lock or rewrite asked for, its loads, its nested contexts, or the end of the
context that has its key, and the state of the context goes with it. The rest says
what each of these is made of. `LoadsInv`: `fetches` counts the loads in flight and
the answers queued, a context waits in the queue of the budget or has its resumption
among the tasks, and the budget counts the loads of all. `LinksInv`: `preds` counts the
slots at which an earlier context has not let go. `NestedInv`: `nested` counts the
children that are live, children are made together, and deleted with their parent.
`WindowsInv` ties what is born to the window of the HTML thread, `PrimaryInv` the
partition keys to the contexts that have them and the lists that repeat them. `EndsFirst`
orders the tasks: the ends of the repeating contexts come before the end
of the one they repeat, in front of all else; without it a context could be retired while it
still has to answer. `RewritesContinue`, `WaitersResume` and `DeletionIsSafe` follow.

`DriverInv` adds that the driver's three sets are the live top-level contexts and
that it was released exactly if it is unreferenced; `QuickInv` that detached
contexts are slow, for `FlushAsyncDone` takes no quick rewrite with it. `PageInvariant` is
the conjunction; `ReferencesExact`, `QuickExact`, `ReleasedAfterAll` and `TypeCorrect` follow.
Of the documents only `SlotsAssumption` and the shape of the tables are assumed: a slot is
shared by contexts of one window and one parent, as `rewrite_driver.cc` clears `slots_`
after each window.

`NoneWaitsForItself` has an invariant of its own. A context keeps waiting the one it is
nested in and those that repeat it (`Held`); `CircleInv` says that each context is outside
some closed set that has all it keeps waiting. `StartRepeated` adds one edge, from
`p` to `c`, with `p` outside the closure of `c`: the sets of the contexts in that closure
are cut to it, the others take it in. Successors come last: by `LinksInv` a live one
is built, and then nothing repeats it, it has the parent of the one it follows, and was made
after it. The filter by state in `NoCircularWait` is not needed for the invariant:
`IsWaitedOnBy` looks at contexts that are done, too.

Only model-checked: liveness and everything under fairness (`DriverReleased`,
`PageNeedsLookupsOnly`, and their like in the other components), which is out of the
prover's reach.

## 6. What the runs found

* `pool_cancel_pending`. `Add` dispatches when `active_` is false and the queue
  has one function. `CancelPendingFunctions` empties the queue of a sequence
  that is dispatched but not yet running, and the next `Add` dispatches it again:
  two workers run functions of one sequence. `AsyncCache::ShutDown` makes these
  two calls. The same happens without a cancellation when a queue bounded by
  one overflows (`QueueBounds = {1}`).
* `rate_host_limit`. `DeleteFetchInfoIfPossible` erases the map entry of a host
  because a `HostFetchInfo` that *was* the entry is idle; by then the entry may be
  another, with fetches out. The host's next fetch starts to count at zero.
* `breaker_transitions`. `TransitionToClosed` stores `CLOSED` over an `OPEN` that
  another thread's failure has just stored.
* `fetch_alarm`. A `QueuedAlarm` may only be made on its sequence. An in-place
  fetch with `in_place_wait_for_optimized`, on a server without request-thread
  sequences, gets from `RecordingFetch::FetchedInputLoaded` to `SetupDeadlineAlarm` in
  a fetcher's thread: the alarm may go off, call `HandleDeadline`, which clears
  `deadline_alarm_`, and delete itself before the constructor's result is assigned to
  `deadline_alarm_`; the end of the rewrite then cancels a freed alarm.

Seen while modelling, without a run of their own:

* *Documents.* `MarkSlow` returns at once for a nested context. A top-level rewrite
  of a later window that repeats one nested in a detached rewrite therefore stays
  counted in `possibly_quick_rewrites_`, and the flush waits past its deadline for a
  fetch and a rewrite, where `rewrite_driver.cc:584` speaks of metadata lookups.
  `PageNeedsLookupsOnly` has this as its one exception.
* *Locks.* A slot left by a dead process is reused by its own name only; once such
  slots fill a bucket, other names are refused for ever, where
  `scheduler_based_abstract_lock.h:57` asks that `TryLock` eventually succeed on an
  unheld lock.
* *Rate controller.* A process that dies with fetches queued leaves them in the
  shared queue size; two controllers may both pass the check of its limit.
* *Breaker.* With overlapping calls the older open time may be stored last, and the
  circuit is then probed before its timeout.
* *Pool, shutdown.* An `Add` that has released `sequence_mutex_` calls through `pool_`,
  which `WaitForShutDown` sets to NULL, and `QueueSequence` hands the sequence to a
  worker outside the pool's mutex, by when the shutdown may have deleted it. Where
  `queued_worker_pool.h:102` says that an `Add` during the shutdown cancels its function,
  the caller then crashes (the state `crashed` is reached in `pool_core` and
  `pool_any`). Nothing prevents it: `ShutDown` (`queued_worker_pool.cc:73`) waits for no
  `Add`, and `RewriteDriverFactory::ShutDown` (`rewrite_driver_factory.cc:664`) stops the
  low-priority pool while rewrite sequences may still add to it.
* *Pool, shedding.* With `LoadSheddingThreshold = 1` a sequence freed while it is shed is
  not recycled.
* *Batcher.* With `MaxParallel = 2` and `MaxPending = 2` a key in flight is looked up
  again and `NoCheckFails` fails; the server configures one parallel lookup.

## 7. Plan

Proofs: every safety property of the runs is a theorem. What the liveness properties rest
on could be stated as invariants and proved too: that while a fetch, a lookup or a driver is
unanswered some step of the part that owes the answer is possible.

Models: the scheduler's queues (waits, signals and their cancellation);
`DispatcherSequence` as a second implementation of `SequenceContract`; `AsyncCache` over
the pool, which inherits the finding on `CancelPendingFunctions`; the in-memory
locks; `PurgeContext`, the shared-memory cache, the property cache's two levels.

## 8. Not modelled, and assumptions

* Atomics are sequentially consistent; the code uses acquire and release, and
  its cross-variable races are already reached by interleaving.
* Clocks are monotone. The code takes the wall clock; a clock set back is not
  modelled.
* 32-bit counters do not overflow within the bounds.
* The base fetcher, the cache below the batcher and the origin are external: they
  answer each request once, at any time.
* Creating, attaching and destroying the shared segment is left out; the bucket
  starts zeroed.
* Of documents: freshening, the writing of outputs to the cache, downstream purges,
  the wait for the property cache, asynchronous events that hold a flush back,
  events buffered for a filter, and the alarm that polls again after a long sleep.
* Of resource fetches: shutdown with an alarm's portion queued, several requests of
  one driver (a driver serves one).
* Statistics that only report, and logging, are left out.
* Filters, parsers, codecs, options and rule packs are sequential functions on
  data that a finite model would have to leave out. The server ports, the
  Memcached, Redis and curl clients and the daemon adapter are I/O and glue to
  programs outside the repository.
