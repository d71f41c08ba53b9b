---------------------------- MODULE RateController ----------------------------
(***************************************************************************)
(* The controller that limits background fetches per origin host           *)
(* (net/instaweb/http/rate_controller.cc): Fetch admits, queues or drops a *)
(* fetch, and the completion of a wrapped fetch (CustomFetch::HandleDone)  *)
(* starts the next one queued for its host.                                *)
(*                                                                         *)
(* Every action is one critical section, or one call out of the            *)
(* controller, of one thread.  A HostFetchInfo is named by the fetch that  *)
(* created it, so that two objects made for one host at different times    *)
(* stay distinct.  Several controllers (the server's processes, or several *)
(* fetchers of one process) share the queue-size statistic; the map key    *)
(* "host" of the model is a host as seen by one controller.                *)
(***************************************************************************)
EXTENDS Integers, Sequences, FiniteSets

CONSTANTS
  Threads,
  Fetches,
  Hosts,
  Controllers,
  host,              \* the host of each fetch, or InvalidUrl
  controller,        \* the controller that each host's map entry belongs to
  Background,        \* the fetches for which IsBackgroundFetch() holds
  MaxGlobalQueueSize,   \* max_global_queue_size_
  OutgoingThreshold,    \* per_host_outgoing_request_threshold_
  QueuedThreshold,      \* per_host_queued_request_threshold_
  InvalidUrl,
  None

\* The constructor's CHECKs; requests_per_host() is never below one.
ASSUME RateAssumption ==
  /\ IsFiniteSet(Threads) /\ IsFiniteSet(Fetches)
  /\ host \in [Fetches -> Hosts \cup {InvalidUrl}]
  /\ controller \in [Hosts -> Controllers]
  /\ Background \subseteq Fetches
  /\ OutgoingThreshold \in Nat \ {0}
  /\ QueuedThreshold \in Nat
  /\ MaxGlobalQueueSize \in Nat
  /\ MaxGlobalQueueSize >= QueuedThreshold
  /\ InvalidUrl \notin Hosts
  /\ None \notin Fetches \cup Seq(Fetches)

VARIABLES
  fetch_info_map,        \* per host: its HostFetchInfo, or None
  num_outbound_fetches,  \* per HostFetchInfo
  fetch_queue,           \* per HostFetchInfo
  queue_size,            \* current_global_fetch_queue_size_
  shut_down,
  fstate,                \* where each fetch is
  info,                  \* the HostFetchInfo each fetch was given
  answers,               \* how often each fetch's Done was called
  thread,                \* what each thread is in the middle of
  pending_starts         \* per thread: g_pending_starts, or None for nullptr

infoVars == <<fetch_info_map, num_outbound_fetches, fetch_queue>>
vars == <<infoVars, queue_size, shut_down, fstate, info, answers, thread,
          pending_starts>>

FetchStates == {"new", "calling", "charged", "queued", "popped", "pending",
                "outgoing", "answered"}
ThreadStates == {"idle", "lookup", "enqueue", "start", "drop", "decrement",
                 "pop", "popped", "release", "delete", "loop",
                 "base"}

Thread(pc, f, i) == [pc |-> pc, fetch |-> f, info |-> i]
Idle == Thread("idle", None, None)

Init ==
  /\ fetch_info_map = [h \in Hosts |-> None]
  /\ num_outbound_fetches = [i \in Fetches |-> 0]
  /\ fetch_queue = [i \in Fetches |-> <<>>]
  /\ queue_size = 0
  /\ shut_down = FALSE
  /\ fstate = [f \in Fetches |-> "new"]
  /\ info = [f \in Fetches |-> None]
  /\ answers = [f \in Fetches |-> 0]
  /\ thread = [t \in Threads |-> Idle]
  /\ pending_starts = [t \in Threads |-> None]

\* Done() reaches the client that asked for f.
Answer(f) ==
  /\ fstate' = [fstate EXCEPT ![f] = "answered"]
  /\ answers' = [answers EXCEPT ![f] = @ + 1]

GoTo(t, pc, f, i) == thread' = [thread EXCEPT ![t] = Thread(pc, f, i)]

\* The end of a call: back to the drain loop's base fetcher call if this call
\* was made from inside one, else out of the controller.
Return(t) ==
  GoTo(t, IF pending_starts[t] = None THEN "idle" ELSE "base", None, None)

\* Between its size check and its Add(1), Fetch holds mutex_ of its controller
\* and the mutex of the HostFetchInfo.
Unlocked(h) ==
  \A t \in Threads : thread[t].pc = "enqueue" =>
     controller[host[thread[t].fetch]] # controller[h]
InfoUnlocked(i) ==
  \A t \in Threads : thread[t].pc = "enqueue" => thread[t].info # i

(***************************************************************************)
(* RateController::Fetch                                                   *)
(***************************************************************************)

\* The unlocked prologue: quick-fail after ShutDown, and hand an invalid URL
\* to the base fetcher unwrapped.
Fetch(t, f) ==
  /\ thread[t].pc = "idle"
  /\ fstate[f] = "new"
  /\ \/ /\ shut_down
        /\ Answer(f)
        /\ UNCHANGED thread
     \/ /\ ~shut_down
        /\ host[f] = InvalidUrl
        /\ fstate' = [fstate EXCEPT ![f] = "outgoing"]
        /\ UNCHANGED <<answers, thread>>
     \/ /\ ~shut_down
        /\ host[f] # InvalidUrl
        /\ fstate' = [fstate EXCEPT ![f] = "calling"]
        /\ GoTo(t, "lookup", f, None)
        /\ UNCHANGED answers
  /\ UNCHANGED <<infoVars, queue_size, shut_down, info, pending_starts>>

CanTriggerFetch(i) == num_outbound_fetches[i] < OutgoingThreshold

MayQueue(i) ==
  queue_size < MaxGlobalQueueSize /\ Len(fetch_queue[i]) < QueuedThreshold

\* Under mutex_ and the mutex of the host's HostFetchInfo, which is made if
\* the map has none: admit the fetch, decide to queue it, or decide to drop it.
Lookup(t) ==
  LET f == thread[t].fetch
      h == host[f]
      i == IF fetch_info_map[h] = None THEN f ELSE fetch_info_map[h]
  IN
  /\ thread[t].pc = "lookup"
  /\ Unlocked(h)
  /\ fetch_info_map' = [fetch_info_map EXCEPT ![h] = i]
  /\ info' = [info EXCEPT ![f] = i]
  /\ \/ /\ f \notin Background \/ CanTriggerFetch(i)
        /\ num_outbound_fetches' = [num_outbound_fetches EXCEPT ![i] = @ + 1]
        /\ fstate' = [fstate EXCEPT ![f] = "charged"]
        /\ GoTo(t, "start", f, i)
     \/ /\ f \in Background
        /\ ~CanTriggerFetch(i)
        /\ GoTo(t, IF MayQueue(i) THEN "enqueue" ELSE "drop", f, i)
        /\ UNCHANGED <<num_outbound_fetches, fstate>>
  /\ UNCHANGED <<fetch_queue, queue_size, shut_down, answers, pending_starts>>

\* EnqueueFetchIfWithinThreshold and Add(1), still under both mutexes.
Enqueue(t) ==
  LET f == thread[t].fetch
      i == thread[t].info
  IN
  /\ thread[t].pc = "enqueue"
  /\ fetch_queue' = [fetch_queue EXCEPT ![i] = Append(@, f)]
  /\ queue_size' = queue_size + 1
  /\ fstate' = [fstate EXCEPT ![f] = "queued"]
  /\ Return(t)
  /\ UNCHANGED <<fetch_info_map, num_outbound_fetches, shut_down, info,
                 answers, pending_starts>>

\* Fetch hands the wrapped fetch to the base fetcher.
Start(t) ==
  /\ thread[t].pc = "start"
  /\ fstate' = [fstate EXCEPT ![thread[t].fetch] = "outgoing"]
  /\ Return(t)
  /\ UNCHANGED <<infoVars, queue_size, shut_down, info, answers,
                 pending_starts>>

\* Done(false) with the load-shed header.
Drop(t) ==
  /\ thread[t].pc = "drop"
  /\ Answer(thread[t].fetch)
  /\ GoTo(t, "delete", None, thread[t].info)
  /\ UNCHANGED <<infoVars, queue_size, shut_down, info, pending_starts>>

Erasable(h, i) == fetch_info_map[h] # None

\* DeleteFetchInfoIfPossible, under mutex_: erases the host's entry, whichever
\* HostFetchInfo it holds by now, if the caller's one is idle.
DeleteFetchInfoIfPossible(t) ==
  LET i == thread[t].info
      h == host[i]
  IN
  /\ thread[t].pc = "delete"
  /\ Unlocked(h)
  /\ fetch_info_map' =
       IF num_outbound_fetches[i] = 0 /\ fetch_queue[i] = <<>> /\ Erasable(h, i)
       THEN [fetch_info_map EXCEPT ![h] = None]
       ELSE fetch_info_map
  /\ Return(t)
  /\ UNCHANGED <<num_outbound_fetches, fetch_queue, queue_size, shut_down,
                 fstate, info, answers, pending_starts>>

(***************************************************************************)
(* CustomFetch::HandleDone                                                 *)
(***************************************************************************)

\* A base fetcher completes f: on a thread of its own, or on one that is
\* inside a Fetch call of the drain loop.  The answer is forwarded first.
HandleDone(t, f) ==
  /\ thread[t].pc \in {"idle", "base"}
  /\ fstate[f] = "outgoing"
  /\ Answer(f)
  /\ IF info[f] = None THEN UNCHANGED thread
     ELSE GoTo(t, "decrement", f, info[f])
  /\ UNCHANGED <<infoVars, queue_size, shut_down, info, pending_starts>>

Decremented(i) == [num_outbound_fetches EXCEPT ![i] = @ - 1]

Decrement(t) ==
  /\ thread[t].pc = "decrement"
  /\ InfoUnlocked(thread[t].info)
  /\ num_outbound_fetches' = Decremented(thread[t].info)
  /\ GoTo(t, "pop", None, thread[t].info)
  /\ UNCHANGED <<fetch_info_map, fetch_queue, queue_size, shut_down, fstate,
                 info, answers, pending_starts>>

HasRoomForTwo(i) == num_outbound_fetches[i] + 1 < OutgoingThreshold   \* mutant
HasRoom(i) == num_outbound_fetches[i] < OutgoingThreshold

Charged(i) == [num_outbound_fetches EXCEPT ![i] = @ + 1]

LeaveHead(i) == fetch_queue                                           \* mutant
PopHead(i) == [fetch_queue EXCEPT ![i] = Tail(@)]

\* PopNextFetchAndIncrementCountIfWithinThreshold, followed by the caller's
\* test for nullptr and, outside the discarding loop, for shutdown.
PopNextFetch(t) ==
  LET i == thread[t].info
  IN
  /\ thread[t].pc = "pop"
  /\ InfoUnlocked(i)
  /\ IF fetch_queue[i] = <<>> \/ ~HasRoom(i)
     THEN /\ GoTo(t, "delete", None, i)
          /\ UNCHANGED <<num_outbound_fetches, fetch_queue, fstate>>
     ELSE /\ fetch_queue' = PopHead(i)
          /\ num_outbound_fetches' = Charged(i)
          /\ fstate' = [fstate EXCEPT ![Head(fetch_queue[i])] = "popped"]
          /\ GoTo(t, "popped", Head(fetch_queue[i]), i)
  /\ UNCHANGED <<fetch_info_map, queue_size, shut_down, info, answers,
                 pending_starts>>

ForgetNested(t, f) == pending_starts                                  \* mutant
PushNested(t, f) == [pending_starts EXCEPT ![t] = Append(@, f)]

Uncounted == queue_size - 1

\* The popped fetch leaves the queue-size statistic and gets a wrapper.  The
\* outermost HandleDone of the thread opens the drain loop; a nested one adds
\* to it and returns into the base fetcher.
StartPopped(t) ==
  LET f == thread[t].fetch
  IN
  /\ thread[t].pc = "popped"
  /\ ~shut_down
  /\ queue_size' = Uncounted
  /\ fstate' = [fstate EXCEPT ![f] = "pending"]
  /\ \/ /\ pending_starts[t] = None
        /\ pending_starts' = [pending_starts EXCEPT ![t] = <<f>>]
        /\ GoTo(t, "loop", None, None)
     \/ /\ pending_starts[t] # None
        /\ pending_starts' = PushNested(t, f)
        /\ GoTo(t, "base", None, None)
  /\ UNCHANGED <<infoVars, shut_down, info, answers>>

\* The drain loop starts its next fetch, or ends and clears g_pending_starts.
\* A base fetcher call that returns ("base") continues the loop.
DrainLoop(t) ==
  /\ thread[t].pc \in {"loop", "base"}
  /\ IF pending_starts[t] = <<>>
     THEN /\ pending_starts' = [pending_starts EXCEPT ![t] = None]
          /\ thread' = [thread EXCEPT ![t] = Idle]
          /\ UNCHANGED fstate
     ELSE /\ pending_starts' = [pending_starts EXCEPT ![t] = Tail(@)]
          /\ fstate' = [fstate EXCEPT ![Head(pending_starts[t])] = "outgoing"]
          /\ GoTo(t, "base", None, None)
  /\ UNCHANGED <<infoVars, queue_size, shut_down, info, answers>>

\* The shutdown path: one turn of the loop that fails every queued fetch.
\* The turn begins with a popped fetch and goes on even though the loop does
\* not look at is_shut_down again.
DiscardPopped(t) ==
  /\ thread[t].pc = "popped"
  /\ shut_down
  /\ queue_size' = Uncounted
  /\ Answer(thread[t].fetch)
  /\ GoTo(t, "release", None, thread[t].info)
  /\ UNCHANGED <<infoVars, shut_down, info, pending_starts>>

\* Releases the slot that PopNextFetch took for the discarded fetch.
Release(t) ==
  /\ thread[t].pc = "release"
  /\ InfoUnlocked(thread[t].info)
  /\ num_outbound_fetches' = Decremented(thread[t].info)
  /\ GoTo(t, "pop", None, thread[t].info)
  /\ UNCHANGED <<fetch_info_map, fetch_queue, queue_size, shut_down, fstate,
                 info, answers, pending_starts>>

ShutDown ==
  /\ ~shut_down
  /\ shut_down' = TRUE
  /\ UNCHANGED <<infoVars, queue_size, fstate, info, answers, thread,
                 pending_starts>>

\* What a thread inside the controller does next.
Continue(t) ==
  \/ Lookup(t)
  \/ Enqueue(t)
  \/ Start(t)
  \/ Drop(t)
  \/ DeleteFetchInfoIfPossible(t)
  \/ Decrement(t)
  \/ PopNextFetch(t)
  \/ StartPopped(t)
  \/ DiscardPopped(t)
  \/ Release(t)
  \/ DrainLoop(t)

Next ==
  \/ \E t \in Threads : Continue(t)
  \/ \E t \in Threads, f \in Fetches : Fetch(t, f) \/ HandleDone(t, f)
  \/ ShutDown

Spec == Init /\ [][Next]_vars

\* Threads run, and base fetchers complete every fetch (they have timeouts).
FairSpec ==
  /\ Spec
  /\ \A t \in Threads : WF_vars(Continue(t))
  /\ \A f \in Fetches : WF_vars(\E t \in Threads : HandleDone(t, f))

(***************************************************************************)
(* Properties                                                              *)
(***************************************************************************)

TypeOK ==
  /\ fetch_info_map \in [Hosts -> Fetches \cup {None}]
  /\ num_outbound_fetches \in [Fetches -> Int]
  /\ fetch_queue \in [Fetches -> Seq(Fetches)]
  /\ queue_size \in Int
  /\ shut_down \in BOOLEAN
  /\ fstate \in [Fetches -> FetchStates]
  /\ info \in [Fetches -> Fetches \cup {None}]
  /\ answers \in [Fetches -> Nat]
  /\ thread \in [Threads -> [pc : ThreadStates,
                             fetch : Fetches \cup {None},
                             info : Fetches \cup {None}]]
  /\ pending_starts \in [Threads -> Seq(Fetches) \cup {None}]

\* Fetches that hold a slot of HostFetchInfo i.
Slots(i) ==
  {f \in Fetches : info[f] = i
                   /\ fstate[f] \in {"charged", "popped", "pending", "outgoing"}}
\* Threads that have answered a fetch and still hold its slot.
Releasing(i) ==
  {t \in Threads : thread[t].pc \in {"decrement", "release"}
                   /\ thread[t].info = i}

\* The slots of a host are counted exactly: no completion, pop or discard of a
\* queued fetch loses or doubles one, whatever order they come in.
SlotsAccounted ==
  \A i \in Fetches :
    num_outbound_fetches[i] = Cardinality(Slots(i)) + Cardinality(Releasing(i))

\* A HostFetchInfo never has more background fetches out than the threshold,
\* however user-facing fetches, completions and restarts interleave.
InfoLimit ==
  \A i \in Fetches : Cardinality(Slots(i) \cap Background) <= OutgoingThreshold

\* What a thread holds at each step, which the types of the actions rest on.
HoldsFetch == {"lookup", "enqueue", "start", "drop", "popped"}
HoldsInfo == {"enqueue", "start", "drop", "decrement", "pop", "popped",
              "release", "delete"}
ThreadsOK ==
  \A t \in Threads :
    /\ thread[t].pc \in HoldsFetch => thread[t].fetch \in Fetches
    /\ thread[t].pc = "lookup" => host[thread[t].fetch] \in Hosts
    /\ thread[t].pc \in HoldsInfo => thread[t].info \in Fetches
    /\ thread[t].pc \in {"loop", "base"} => pending_starts[t] # None

\* While Fetch holds the locks to queue a fetch, its host stays at the limit.
FullWhileQueueing ==
  \A t \in Threads : thread[t].pc = "enqueue" =>
    num_outbound_fetches[thread[t].info] >= OutgoingThreshold

\* A queued fetch always has someone who will pop it: an outstanding fetch of
\* its HostFetchInfo or a thread that is about to look at the queue.
NobodyStranded ==
  \A i \in Fetches : fetch_queue[i] # <<>> =>
    \/ num_outbound_fetches[i] > 0
    \/ \E t \in Threads : thread[t].pc = "pop" /\ thread[t].info = i

QueueInv == TypeOK /\ ThreadsOK /\ FullWhileQueueing /\ NobodyStranded

\* Each fetch in the hands of a thread, in a queue or in a drain loop is in the
\* state that goes with the place, and in that place only once.
HeldOK(t) ==
  LET f == thread[t].fetch
  IN /\ thread[t].pc \in {"lookup", "enqueue", "drop"} => fstate[f] = "calling"
     /\ thread[t].pc = "start" => fstate[f] = "charged"
     /\ thread[t].pc = "popped" => fstate[f] = "popped"
     /\ thread[t].pc \in {"enqueue", "start", "popped"} => info[f] = thread[t].info
QueueOK(i) ==
  LET q == fetch_queue[i]
  IN /\ \A k \in 1..Len(q) : fstate[q[k]] = "queued" /\ info[q[k]] = i
     /\ \A k, l \in 1..Len(q) : q[k] = q[l] => k = l
LoopOK(t) ==
  LET q == pending_starts[t]
  IN q # None =>
     /\ \A k \in 1..Len(q) : fstate[q[k]] = "pending"
     /\ \A k, l \in 1..Len(q) : q[k] = q[l] => k = l
AnswersOK(f) ==
  /\ answers[f] = IF fstate[f] = "answered" THEN 1 ELSE 0
  /\ fstate[f] = "new" => info[f] = None
HeldOnce(t, u) ==
  /\ thread[t].pc \in HoldsFetch /\ thread[u].pc \in HoldsFetch
  /\ thread[t].fetch = thread[u].fetch
  => t = u
LoopedOnce(t, u) ==
  /\ pending_starts[t] # None /\ pending_starts[u] # None
  /\ \E k \in 1..Len(pending_starts[t]), l \in 1..Len(pending_starts[u]) :
       pending_starts[t][k] = pending_starts[u][l]
  => t = u
PlacesOK ==
  /\ \A f \in Fetches : AnswersOK(f) /\ QueueOK(f)
  /\ \A t \in Threads : HeldOK(t) /\ LoopOK(t)
  /\ \A t, u \in Threads : HeldOnce(t, u) /\ LoopedOnce(t, u)

\* The strengthening of SlotsAccounted, InfoLimit and NobodyStranded that every
\* step of the controller preserves.
RateInv == QueueInv /\ PlacesOK /\ SlotsAccounted /\ InfoLimit

\* Per host, over all the HostFetchInfo objects made for it: what the class
\* comment promises of the outgoing background fetches of a domain.
HostLimit ==
  \A h \in Hosts :
    Cardinality({f \in Background : host[f] = h
        /\ fstate[f] \in {"charged", "popped", "pending", "outgoing"}})
      <= OutgoingThreshold

\* Every fetch handed to the controller is eventually answered.
EveryFetchAnswered ==
  \A f \in Fetches : fstate[f] # "new" ~> fstate[f] = "answered"
===============================================================================
