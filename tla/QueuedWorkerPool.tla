--------------------------- MODULE QueuedWorkerPool ---------------------------
(***************************************************************************)
(* The worker pool that runs every background task of PageSpeed            *)
(* (pagespeed/kernel/thread/queued_worker_pool.{h,cc}) together with the   *)
(* worker threads it dispatches to (worker.cc, queued_worker.cc).          *)
(*                                                                         *)
(* A client thread obtains a Sequence, adds Functions to it and frees it.  *)
(* A sequence with work is dispatched to a worker, or waits in             *)
(* queued_sequences_ for one.  Every action below is one critical section  *)
(* of the pool's mutex_, of a sequence's sequence_mutex_ or of a worker's  *)
(* mutex_; what a thread remembers between two critical sections is its    *)
(* record in call (client threads), wk (workers) or stop (the thread that  *)
(* shuts the pool down).                                                   *)
(***************************************************************************)
EXTENDS Naturals, Integers, Sequences, FiniteSets

CONSTANTS
  Clients,                \* threads that use the pool's interface
  Sequences,              \* Sequence objects the pool may allocate
  Functions,              \* Function objects, each added at most once
  Workers,                \* QueuedWorker objects the pool may allocate
  MaxWorkers,             \* max_workers_
  LoadSheddingThreshold,  \* load_shedding_threshold_
  QueueBounds,            \* arguments clients pass to set_max_queue_size
  ClientsCancelPending,   \* do clients call CancelPendingFunctions?
  None

kNoLoadShedding == -1
kUnboundedQueue == 0

ASSUME PoolAssumption ==
  /\ MaxWorkers \in Nat \ {0}
  /\ LoadSheddingThreshold \in Nat \ {0} \/ LoadSheddingThreshold = kNoLoadShedding
  /\ QueueBounds \subseteq Nat
  /\ ClientsCancelPending \in BOOLEAN
  /\ None \notin Sequences \cup Functions \cup Workers

VARIABLES
  all_sequences,      \* sequences ever allocated
  queued_sequences,   \* deque of sequences waiting for a worker
  free_sequences,     \* stack of sequences to recycle
  active_workers,     \* workers running Run()
  available_workers,  \* idle workers
  pool_shutdown,      \* the pool's shutdown_
  work_queue,         \* per sequence: functions waiting to run
  active,             \* per sequence: active_
  shutdown,           \* per sequence: shutdown_
  pool,               \* per sequence: is pool_ non-NULL?
  max_queue_size,     \* per sequence: max_queue_size_
  live,               \* sequences some client may still use
  fstate,             \* what became of each function
  call,               \* per client: the unfinished part of its call
  wk,                 \* per worker: where its thread is
  inbox,              \* per worker: the Run() closure in its tasks_
  stop                \* the thread running ShutDown()

poolVars == <<all_sequences, queued_sequences, free_sequences,
              active_workers, available_workers, pool_shutdown>>
seqVars  == <<work_queue, active, shutdown, pool, max_queue_size>>
vars == <<poolVars, seqVars, live, fstate, call, wk, inbox, stop>>

FunctionStates == {"new", "queued", "running", "ran", "canceled"}
CallStates   == {"idle", "queue", "dispatch", "shed", "free", "crashed"}
WorkerStates == {"none", "idle", "next", "drain", "run", "release", "assign",
                 "exited", "deleted"}
StopStates   == {"up", "initiate", "wait", "waiting", "workers", "join", "done"}

Call(pc, s, w)   == [pc |-> pc, seq |-> s, worker |-> w]
Thread(pc, s, f) == [pc |-> pc, seq |-> s, fn |-> f]
Idle   == Call("idle", None, None)
Parked == Thread("idle", None, None)

Init ==
  /\ all_sequences = {}
  /\ queued_sequences = <<>>
  /\ free_sequences = <<>>
  /\ active_workers = {}
  /\ available_workers = {}
  /\ pool_shutdown = FALSE
  /\ work_queue = [s \in Sequences |-> <<>>]
  /\ active = [s \in Sequences |-> FALSE]
  /\ shutdown = [s \in Sequences |-> FALSE]
  /\ pool = [s \in Sequences |-> TRUE]
  /\ max_queue_size = [s \in Sequences |-> kUnboundedQueue]
  /\ live = {}
  /\ fstate = [f \in Functions |-> "new"]
  /\ call = [c \in Clients |-> Idle]
  /\ wk = [w \in Workers |-> Thread("none", None, None)]
  /\ inbox = [w \in Workers |-> None]
  /\ stop = [pc |-> "up", todo |-> {}, seq |-> None, worker |-> None]

(***************************************************************************)
(* Client interface                                                        *)
(***************************************************************************)

\* Sequence::Reset, which leaves max_queue_size_ and pool_ as they are.
Reset(s) ==
  /\ shutdown' = [shutdown EXCEPT ![s] = FALSE]
  /\ active' = [active EXCEPT ![s] = FALSE]
  /\ UNCHANGED <<work_queue, pool, max_queue_size>>

\* Returns NULL, changing nothing, once the pool is shutting down.
NewSequence(s) ==
  /\ ~pool_shutdown
  /\ \/ /\ free_sequences = <<>>
        /\ s \notin all_sequences
        /\ all_sequences' = all_sequences \cup {s}
        /\ UNCHANGED free_sequences
     \/ /\ free_sequences # <<>>
        /\ s = free_sequences[Len(free_sequences)]
        /\ free_sequences' = SubSeq(free_sequences, 1, Len(free_sequences) - 1)
        /\ UNCHANGED all_sequences
  /\ Reset(s)
  /\ live' = live \cup {s}
  /\ UNCHANGED <<queued_sequences, active_workers, available_workers,
                 pool_shutdown, fstate, call, wk, inbox, stop>>

set_max_queue_size(s, x) ==
  /\ s \in live
  /\ max_queue_size[s] # x
  /\ max_queue_size' = [max_queue_size EXCEPT ![s] = x]
  /\ UNCHANGED <<poolVars, work_queue, active, shutdown, pool, live, fstate,
                 call, wk, inbox, stop>>

\* Does adding to s push out the oldest function of a bounded queue?
Overflows(s) ==
  /\ max_queue_size[s] # kUnboundedQueue
  /\ Len(work_queue[s]) >= max_queue_size[s]

\* Must the sequence be dispatched for a function added behind kept?
NeedsDispatchEvenIfActive(s, kept) == kept = <<>>   \* mutant: active_ ignored
NeedsDispatch(s, kept) == ~active[s] /\ kept = <<>>

PushFront(q, f) == <<f>> \o q                       \* mutant: last in first out
PushBack(q, f) == Append(q, f)

\* Sequence::Add up to the release of sequence_mutex_, with the CallCancel of
\* a refused or pushed-out function; QueueSequence follows in a second step.
Add(c, s, f) ==
  /\ call[c] = Idle
  /\ s \in live
  /\ fstate[f] = "new"
  /\ \/ /\ shutdown[s]
        /\ fstate' = [fstate EXCEPT ![f] = "canceled"]
        /\ UNCHANGED <<work_queue, call>>
     \/ /\ ~shutdown[s]
        /\ LET kept == IF Overflows(s) THEN Tail(work_queue[s]) ELSE work_queue[s]
               out  == IF Overflows(s) THEN {Head(work_queue[s])} ELSE {}
           IN /\ work_queue' = [work_queue EXCEPT ![s] = PushBack(kept, f)]
              /\ fstate' = [g \in Functions |->
                              IF g = f THEN "queued"
                              ELSE IF g \in out THEN "canceled" ELSE fstate[g]]
              /\ call' = IF NeedsDispatch(s, kept)
                         THEN [call EXCEPT ![c] = Call("queue", s, None)]
                         ELSE call
  /\ UNCHANGED <<poolVars, active, shutdown, pool, max_queue_size, live, wk,
                 inbox, stop>>

\* May QueueSequence start one more worker, none being idle?
MayStartWorker ==
  available_workers = {} /\ Cardinality(active_workers) < MaxWorkers

\* QueueSequence when a worker is idle or one more may be started.
QueueToWorker(c, w) ==
  /\ call[c].pc = "queue"
  /\ pool[call[c].seq]
  /\ \/ /\ w \in available_workers
        /\ available_workers' = available_workers \ {w}
        /\ UNCHANGED wk
     \/ /\ MayStartWorker
        /\ wk[w].pc = "none"
        /\ wk' = [wk EXCEPT ![w] = Parked]
        /\ UNCHANGED available_workers
  /\ active_workers' = active_workers \cup {w}
  /\ call' = [call EXCEPT ![c] = Call("dispatch", call[c].seq, w)]
  /\ UNCHANGED <<all_sequences, queued_sequences, free_sequences, pool_shutdown,
                 seqVars, live, fstate, inbox, stop>>

\* QueueSequence when every worker is taken: the sequence waits, and when too
\* many wait the oldest one is taken off the deque to be canceled.
QueueToWait(c) ==
  LET longer == Append(queued_sequences, call[c].seq)
      shed == /\ LoadSheddingThreshold # kNoLoadShedding
              /\ Len(longer) > LoadSheddingThreshold
  IN /\ call[c].pc = "queue"
     /\ pool[call[c].seq]
     /\ available_workers = {}
     /\ ~MayStartWorker
     /\ queued_sequences' = IF shed THEN Tail(longer) ELSE longer
     /\ call' = [call EXCEPT ![c] = IF shed THEN Call("shed", Head(longer), None)
                                            ELSE Idle]
     /\ UNCHANGED <<all_sequences, free_sequences, active_workers,
                    available_workers, pool_shutdown, seqVars, live, fstate,
                    wk, inbox, stop>>

\* The call through pool_ after WaitForShutDown has set it to NULL.
QueueWithoutPool(c) ==
  /\ call[c].pc = "queue"
  /\ ~pool[call[c].seq]
  /\ call' = [call EXCEPT ![c] = Call("crashed", call[c].seq, None)]
  /\ UNCHANGED <<poolVars, seqVars, live, fstate, wk, inbox, stop>>

\* One turn of CancelTasksOnWorkQueue: the function is canceled with
\* sequence_mutex_ released, so other threads may come between two turns.
CancelOldest(s) ==
  /\ work_queue[s] # <<>>
  /\ work_queue' = [work_queue EXCEPT ![s] = Tail(@)]
  /\ fstate' = [fstate EXCEPT ![Head(work_queue[s])] = "canceled"]

\* Sequence::Cancel of a sequence dropped by load shedding.
Cancel(c) ==
  /\ call[c].pc = "shed"
  /\ \/ CancelOldest(call[c].seq) /\ UNCHANGED call
     \/ /\ work_queue[call[c].seq] = <<>>
        /\ call' = [call EXCEPT ![c] = Idle]
        /\ UNCHANGED <<work_queue, fstate>>
  /\ UNCHANGED <<poolVars, active, shutdown, pool, max_queue_size, live, wk,
                 inbox, stop>>

\* Hands the Run() closure to the worker, outside the pool's lock.
RunInWorkThread(c) ==
  /\ call[c].pc = "dispatch"
  /\ \/ /\ wk[call[c].worker].pc # "deleted"
        /\ inbox' = [inbox EXCEPT ![call[c].worker] = call[c].seq]
        /\ call' = [call EXCEPT ![c] = Idle]
     \/ /\ wk[call[c].worker].pc = "deleted"
        /\ call' = [call EXCEPT ![c] = Call("crashed", call[c].seq, None)]
        /\ UNCHANGED inbox
  /\ UNCHANGED <<poolVars, seqVars, live, fstate, wk, stop>>

CancelPendingFunctions(s) ==
  /\ ClientsCancelPending
  /\ s \in live
  /\ work_queue[s] # <<>>
  /\ fstate' = [f \in Functions |->
                  IF \E i \in DOMAIN work_queue[s] : work_queue[s][i] = f
                  THEN "canceled" ELSE fstate[f]]
  /\ work_queue' = [work_queue EXCEPT ![s] = <<>>]
  /\ UNCHANGED <<poolVars, active, shutdown, pool, max_queue_size, live, call,
                 wk, inbox, stop>>

\* What Sequence::InitiateShutDown returns.
Recyclable(s) == ~active[s] /\ work_queue[s] = <<>>

\* FreeSequence up to the return of Sequence::InitiateShutDown.
FreeSequence(c, s) ==
  /\ call[c] = Idle
  /\ s \in live
  /\ live' = live \ {s}
  /\ shutdown' = [shutdown EXCEPT ![s] = TRUE]
  /\ call' = IF Recyclable(s)
             THEN [call EXCEPT ![c] = Call("free", s, None)]
             ELSE call
  /\ UNCHANGED <<poolVars, work_queue, active, pool, max_queue_size, fstate, wk,
                 inbox, stop>>

\* The rest of FreeSequence for a sequence found inactive.
RecycleFreed(c) ==
  /\ call[c].pc = "free"
  /\ free_sequences' = Append(free_sequences, call[c].seq)
  /\ call' = [call EXCEPT ![c] = Idle]
  /\ UNCHANGED <<all_sequences, queued_sequences, active_workers,
                 available_workers, pool_shutdown, seqVars, live, fstate, wk,
                 inbox, stop>>

(***************************************************************************)
(* Worker threads                                                          *)
(***************************************************************************)

\* WorkThread::GetNextTask: exit, or start the Run() closure.
GetNextTask(w) ==
  /\ wk[w].pc = "idle"
  /\ \/ /\ stop.worker = w
        /\ wk' = [wk EXCEPT ![w] = Thread("exited", None, None)]
        /\ UNCHANGED inbox
     \/ /\ stop.worker # w
        /\ inbox[w] # None
        /\ wk' = [wk EXCEPT ![w] = Thread("next", inbox[w], None)]
        /\ inbox' = [inbox EXCEPT ![w] = None]
  /\ UNCHANGED <<poolVars, seqVars, live, fstate, call, stop>>

\* NextFunction's assignments to active_.
LeaveInactive(s) == active' = active                \* mutant: active_ not set
SetActive(s)     == active' = [active EXCEPT ![s] = TRUE]
LeaveActive(s)   == active' = active                \* mutant: active_ not cleared
ClearActive(s)   == active' = [active EXCEPT ![s] = FALSE]

LeaveFront(s) == work_queue' = work_queue           \* mutant: nothing popped
PopFront(s)   == work_queue' = [work_queue EXCEPT ![s] = Tail(@)]

\* Does this call of NextFunction hand a shut-down sequence back to the pool?
ReleasesActive(s, had_pending) == active[s]         \* mutant: had_pending ignored
Releases(s, had_pending) == active[s] \/ had_pending

\* After SequenceNoLongerActive(this) the worker holds no sequence.
Releasing(s) == Thread("release", s, None)

\* The end of NextFunction on a sequence found shut down: it goes back to the
\* pool if this dispatch owned it.
WindDown(w, s, had_pending) ==
  /\ work_queue[s] = <<>>
  /\ ClearActive(s)
  /\ wk' = [wk EXCEPT ![w] = IF Releases(s, had_pending) /\ pool[s]
                             THEN Releasing(s)
                             ELSE Thread("assign", None, None)]
  /\ UNCHANGED <<work_queue, fstate>>

\* Sequence::NextFunction: take a function, or find the sequence exhausted,
\* or find it shut down and start canceling what it holds.
NextFunction(w) ==
  LET s == wk[w].seq IN
  /\ wk[w].pc = "next"
  /\ \/ shutdown[s] /\ WindDown(w, s, FALSE)
     \/ /\ shutdown[s]
        /\ CancelOldest(s)
        /\ wk' = [wk EXCEPT ![w] = Thread("drain", s, None)]
        /\ UNCHANGED active
     \/ /\ ~shutdown[s]
        /\ work_queue[s] = <<>>
        /\ ClearActive(s)
        /\ wk' = [wk EXCEPT ![w] = Thread("assign", None, None)]
        /\ UNCHANGED <<work_queue, fstate>>
     \/ /\ ~shutdown[s]
        /\ work_queue[s] # <<>>
        /\ PopFront(s)
        /\ SetActive(s)
        /\ fstate' = [fstate EXCEPT ![Head(work_queue[s])] = "running"]
        /\ wk' = [wk EXCEPT ![w] = Thread("run", s, Head(work_queue[s]))]
  /\ UNCHANGED <<poolVars, shutdown, pool, max_queue_size, live, call, inbox,
                 stop>>

\* Further turns of CancelTasksOnWorkQueue in a NextFunction that found
\* pending work, and the end of that call.
DrainShutDown(w) ==
  LET s == wk[w].seq IN
  /\ wk[w].pc = "drain"
  /\ \/ CancelOldest(s) /\ UNCHANGED <<active, wk>>
     \/ WindDown(w, s, TRUE)
  /\ UNCHANGED <<poolVars, shutdown, pool, max_queue_size, live, call, inbox,
                 stop>>

\* Function::CallRun returns.
RunDone(w) ==
  /\ wk[w].pc = "run"
  /\ fstate' = [fstate EXCEPT ![wk[w].fn] = "ran"]
  /\ wk' = [wk EXCEPT ![w] = Thread("next", wk[w].seq, None)]
  /\ UNCHANGED <<poolVars, seqVars, live, call, inbox, stop>>

SequenceNoLongerActive(w) ==
  /\ wk[w].pc = "release"
  /\ free_sequences' = IF pool_shutdown THEN free_sequences
                       ELSE Append(free_sequences, wk[w].seq)
  /\ wk' = [wk EXCEPT ![w] = Thread("assign", None, None)]
  /\ UNCHANGED <<all_sequences, queued_sequences, active_workers,
                 available_workers, pool_shutdown, seqVars, live, fstate, call,
                 inbox, stop>>

NoneWaiting == TRUE                                 \* mutant: deque ignored
NoSequenceWaiting == queued_sequences = <<>>

AssignWorkerToNextSequence(w) ==
  /\ wk[w].pc = "assign"
  /\ \/ /\ pool_shutdown
        /\ wk' = [wk EXCEPT ![w] = Parked]
        /\ UNCHANGED <<queued_sequences, active_workers, available_workers>>
     \/ /\ ~pool_shutdown
        /\ NoSequenceWaiting
        /\ active_workers' = active_workers \ {w}
        /\ available_workers' = available_workers \cup {w}
        /\ wk' = [wk EXCEPT ![w] = Parked]
        /\ UNCHANGED queued_sequences
     \/ /\ ~pool_shutdown
        /\ ~NoSequenceWaiting
        /\ wk' = [wk EXCEPT ![w] = Thread("next", Head(queued_sequences), None)]
        /\ queued_sequences' = Tail(queued_sequences)
        /\ UNCHANGED <<active_workers, available_workers>>
  /\ UNCHANGED <<all_sequences, free_sequences, pool_shutdown, seqVars, live,
                 fstate, call, inbox, stop>>

(***************************************************************************)
(* Shutdown                                                                *)
(***************************************************************************)

InitiateShutDown ==
  /\ stop.pc = "up"
  /\ pool_shutdown' = TRUE
  /\ stop' = [stop EXCEPT !.pc = "initiate", !.todo = all_sequences]
  /\ UNCHANGED <<all_sequences, queued_sequences, free_sequences,
                 active_workers, available_workers, seqVars, live, fstate, call,
                 wk, inbox>>

SetShutDown(s) == shutdown' = [shutdown EXCEPT ![s] = TRUE]

\* Sequence::InitiateShutDown, called by the pool.
InitiateSequenceShutDown(s) ==
  /\ stop.pc = "initiate"
  /\ s \in stop.todo
  /\ SetShutDown(s)
  /\ stop' = [stop EXCEPT !.todo = @ \ {s}]
  /\ UNCHANGED <<poolVars, work_queue, active, pool, max_queue_size, live,
                 fstate, call, wk, inbox>>

\* WaitForShutDownComplete is entered at once: calls of Add that are past
\* sequence_mutex_ may still be on their way to the pool.
WaitForShutDownComplete ==
  /\ stop.pc = "initiate"
  /\ stop.todo = {}
  /\ stop' = [stop EXCEPT !.pc = "wait", !.todo = all_sequences]
  /\ UNCHANGED <<poolVars, seqVars, live, fstate, call, wk, inbox>>

\* Sequence::WaitForShutDown up to its wait for active_ to turn false.
WaitForShutDown(s) ==
  /\ stop.pc = "wait"
  /\ s \in stop.todo
  /\ shutdown' = [shutdown EXCEPT ![s] = TRUE]
  /\ pool' = [pool EXCEPT ![s] = FALSE]
  /\ stop' = [stop EXCEPT !.pc = "waiting", !.seq = s, !.todo = @ \ {s}]
  /\ UNCHANGED <<poolVars, work_queue, active, max_queue_size, live, fstate,
                 call, wk, inbox>>

\* Mutant: what the sequence still holds is not canceled.
LeaveSequence ==
  /\ stop.pc = "waiting"
  /\ ~active[stop.seq]
  /\ stop' = [stop EXCEPT !.pc = "wait", !.seq = None]
  /\ UNCHANGED <<poolVars, seqVars, live, fstate, call, wk, inbox>>

\* The rest of WaitForShutDown once the sequence is inactive.
DrainSequence ==
  /\ stop.pc = "waiting"
  /\ ~active[stop.seq]
  /\ \/ CancelOldest(stop.seq) /\ UNCHANGED stop
     \/ /\ work_queue[stop.seq] = <<>>
        /\ stop' = [stop EXCEPT !.pc = "wait", !.seq = None]
        /\ UNCHANGED <<work_queue, fstate>>
  /\ UNCHANGED <<poolVars, active, shutdown, pool, max_queue_size, live, call,
                 wk, inbox>>

AllSequencesDown ==
  /\ stop.pc = "wait"
  /\ stop.todo = {}
  /\ stop' = [stop EXCEPT !.pc = "workers"]
  /\ UNCHANGED <<poolVars, seqVars, live, fstate, call, wk, inbox>>

\* WorkThread::ShutDown of the next worker, active ones first, up to Join.
ShutDownWorker(w) ==
  /\ stop.pc = "workers"
  /\ \/ w \in active_workers
     \/ active_workers = {} /\ w \in available_workers
  /\ active_workers' = active_workers \ {w}
  /\ available_workers' = available_workers \ {w}
  /\ stop' = [stop EXCEPT !.pc = "join", !.worker = w]
  /\ UNCHANGED <<all_sequences, queued_sequences, free_sequences, pool_shutdown,
                 seqVars, live, fstate, call, wk, inbox>>

\* Join returns, the closures left in tasks_ are canceled (a Run() closure has
\* no Cancel of its own) and the worker is deleted.
DeleteWorker(w) ==
  /\ stop.pc = "join"
  /\ stop.worker = w
  /\ wk[w].pc = "exited"
  /\ wk' = [wk EXCEPT ![w] = Thread("deleted", None, None)]
  /\ inbox' = [inbox EXCEPT ![w] = None]
  /\ stop' = [stop EXCEPT !.pc = "workers", !.worker = None]
  /\ UNCHANGED <<poolVars, seqVars, live, fstate, call>>

ShutDownDone ==
  /\ stop.pc = "workers"
  /\ active_workers \cup available_workers = {}
  /\ stop' = [stop EXCEPT !.pc = "done"]
  /\ UNCHANGED <<poolVars, seqVars, live, fstate, call, wk, inbox>>

(***************************************************************************)
(* Specification                                                           *)
(***************************************************************************)

\* What a client starts of its own accord.
ClientStart ==
  \/ \E s \in Sequences : NewSequence(s) \/ CancelPendingFunctions(s)
  \/ \E s \in Sequences, x \in QueueBounds : set_max_queue_size(s, x)
  \/ \E c \in Clients, s \in Sequences :
       \/ FreeSequence(c, s)
       \/ \E f \in Functions : Add(c, s, f)

\* What finishes a call a client has begun.
ClientStep(c) ==
  \/ \E w \in Workers : QueueToWorker(c, w)
  \/ QueueToWait(c)
  \/ QueueWithoutPool(c)
  \/ Cancel(c)
  \/ RunInWorkThread(c)
  \/ RecycleFreed(c)

WorkerStep(w) ==
  \/ GetNextTask(w)
  \/ NextFunction(w)
  \/ DrainShutDown(w)
  \/ RunDone(w)
  \/ SequenceNoLongerActive(w)
  \/ AssignWorkerToNextSequence(w)

\* ShutDown() after InitiateShutDown has set the flag.
StopStep ==
  \/ \E s \in Sequences : InitiateSequenceShutDown(s) \/ WaitForShutDown(s)
  \/ WaitForShutDownComplete
  \/ DrainSequence
  \/ AllSequencesDown
  \/ \E w \in Workers : ShutDownWorker(w) \/ DeleteWorker(w)
  \/ ShutDownDone

Next ==
  \/ ClientStart
  \/ \E c \in Clients : ClientStep(c)
  \/ \E w \in Workers : WorkerStep(w)
  \/ InitiateShutDown
  \/ StopStep

Spec == Init /\ [][Next]_vars

\* Threads keep running and functions return; clients owe nothing.
Fairness ==
  /\ \A c \in Clients : WF_vars(ClientStep(c))
  /\ \A w \in Workers : WF_vars(WorkerStep(w))
  /\ WF_vars(StopStep)

FairSpec == Spec /\ Fairness

(***************************************************************************)
(* Properties                                                              *)
(***************************************************************************)

\* The values every variable ranges over.
TypeOK ==
  /\ all_sequences \subseteq Sequences
  /\ queued_sequences \in Seq(Sequences)
  /\ free_sequences \in Seq(Sequences)
  /\ active_workers \subseteq Workers
  /\ available_workers \subseteq Workers
  /\ pool_shutdown \in BOOLEAN
  /\ work_queue \in [Sequences -> Seq(Functions)]
  /\ active \in [Sequences -> BOOLEAN]
  /\ shutdown \in [Sequences -> BOOLEAN]
  /\ pool \in [Sequences -> BOOLEAN]
  /\ max_queue_size \in [Sequences -> Nat]
  /\ live \subseteq Sequences
  /\ fstate \in [Functions -> FunctionStates]
  /\ call \in [Clients -> [pc : CallStates, seq : Sequences \cup {None},
                           worker : Workers \cup {None}]]
  /\ wk \in [Workers -> [pc : WorkerStates, seq : Sequences \cup {None},
                         fn : Functions \cup {None}]]
  /\ inbox \in [Workers -> Sequences \cup {None}]
  /\ stop \in [pc : StopStates, todo : SUBSET Sequences,
               seq : Sequences \cup {None}, worker : Workers \cup {None}]

\* Workers that are running a function of s.
Running(s) == {w \in Workers : wk[w].pc = "run" /\ wk[w].seq = s}

\* Every place that will make some worker call NextFunction on s: a client on
\* its way through QueueSequence, the deque, a worker's tasks_, a worker.
Dispatches(s) ==
  ({"client"} \X {c \in Clients : call[c].pc \in {"queue", "dispatch"}
                                  /\ call[c].seq = s})
  \cup ({"deque"} \X {i \in DOMAIN queued_sequences : queued_sequences[i] = s})
  \cup ({"tasks"} \X {w \in Workers : inbox[w] = s})
  \cup ({"worker"} \X {w \in Workers : wk[w].pc \in {"next", "drain", "run"}
                                       /\ wk[w].seq = s})

\* Functions added to a sequence run one after the other, never on two
\* workers at once (Sequence::Add, NextFunction and QueuedWorkerPool::Run).
SequentialExecution ==
  \A s \in Sequences : \A v, w \in Running(s) : v = w

\* AreBusy misses no work: a sequence it reports idle has nothing queued and
\* no worker in the middle of one of its functions.
BusyIsVisible ==
  \A s \in Sequences : Running(s) # {} => active[s]

\* A sequence is dispatched at most once at a time, which is what makes its
\* functions sequential.
OneDispatch ==
  \A s \in Sequences : \A a, b \in Dispatches(s) : a = b

Ranged(q) == {q[i] : i \in DOMAIN q}

\* Positions of f in the work queues, and workers running f.
Places(f) ==
  UNION {{<<s, i>> : i \in {j \in DOMAIN work_queue[s] : work_queue[s][j] = f}}
           : s \in Sequences}
Runners(f) == {w \in Workers : wk[w].pc = "run" /\ wk[w].fn = f}

\* Every function has exactly one owner for as long as it is neither run nor
\* canceled, however calls interleave: none is dropped, none runs twice.
Ownership ==
  \A f \in Functions :
    /\ fstate[f] = "queued" <=> Places(f) # {}
    /\ fstate[f] = "running" <=> Runners(f) # {}
    /\ \A a, b \in Places(f) : a = b
    /\ \A v, w \in Runners(f) : v = w

\* Every function added is eventually run or canceled.
AddedIsRetired ==
  \A f \in Functions :
    fstate[f] = "queued" ~> fstate[f] \in {"ran", "canceled"}

\* A freed sequence is eventually available again, unless the pool stops.
FreedIsRecycled ==
  \A s \in Sequences :
    (s \in all_sequences /\ s \notin live)
      ~> (s \in Ranged(free_sequences) \/ s \in live \/ pool_shutdown)

\* When WaitForShutDownComplete returns nothing is outstanding: whatever
\* threads added, canceled or freed while the sequences were shut down one by
\* one, no function waits in a queue and no worker is running one.
QuietWhenDown ==
  stop.pc = "done" => \A f \in Functions : fstate[f] \notin {"queued", "running"}

\* A shutdown that has begun finishes.
ShutDownFinishes == pool_shutdown ~> stop.pc = "done"

\* What clients rely on, whatever the pool does inside.
Contract == INSTANCE SequenceContract WITH
  pending <- work_queue,
  running <- [s \in Sequences |-> {wk[w].fn : w \in Running(s)}],
  outcome <- fstate

RefinesContract == Contract!Spec
=============================================================================
