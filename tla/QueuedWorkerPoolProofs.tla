----------------------- MODULE QueuedWorkerPoolProofs -----------------------
(***************************************************************************)
(* Proofs about QueuedWorkerPool, for any number of threads, sequences,    *)
(* functions and workers: its type invariant; that no sequence is ever     *)
(* dispatched twice at a time, so that its functions run one by one; that  *)
(* every function has one owner; that the pool implements SequenceContract;*)
(* and that an orderly shutdown leaves no call into a pool that is gone.   *)
(***************************************************************************)
EXTENDS QueuedWorkerPool, SequenceTheorems, TLAPS

-----------------------------------------------------------------------------
(* Type correctness.  TypeOK alone is not inductive: a worker about to call *)
(* NextFunction must hold a sequence for its queue to be one of functions.  *)

PointersOK ==
  /\ \A c \in Clients : call[c].pc # "idle" => call[c].seq \in Sequences
  /\ \A w \in Workers :
       wk[w].pc \in {"next", "drain", "run", "release"} => wk[w].seq \in Sequences
  /\ stop.pc = "waiting" => stop.seq \in Sequences

TypeInv == TypeOK /\ PointersOK

USE DEF FunctionStates, CallStates, WorkerStates, StopStates

LEMMA TypeInit == Init => TypeInv
<1> SUFFICES ASSUME Init PROVE TypeInv
  OBVIOUS
<1> USE DEF Init, Call, Thread, Idle
<1>1. call \in [Clients -> [pc : CallStates, seq : Sequences \cup {None},
                            worker : Workers \cup {None}]]
  OBVIOUS
<1>2. wk \in [Workers -> [pc : WorkerStates, seq : Sequences \cup {None},
                          fn : Functions \cup {None}]]
  OBVIOUS
<1>3. stop \in [pc : StopStates, todo : SUBSET Sequences,
                seq : Sequences \cup {None}, worker : Workers \cup {None}]
  OBVIOUS
<1>4. max_queue_size \in [Sequences -> Nat]
  BY DEF kUnboundedQueue
<1>5. PointersOK
  BY DEF PointersOK
<1>6. TypeOK
  <2> HIDE DEF Call, Thread, Idle
  <2>1. <<>> \in Seq(Functions) /\ <<>> \in Seq(Sequences)
    OBVIOUS
  <2>2. QED
    BY <1>1, <1>2, <1>3, <1>4, <2>1 DEF TypeOK
<1>7. QED
  BY <1>5, <1>6 DEF TypeInv

\* Popping the front of a sequence's queue keeps the types.
LEMMA CancelOldestType ==
  ASSUME TypeInv, NEW s \in Sequences, CancelOldest(s)
  PROVE  /\ work_queue' \in [Sequences -> Seq(Functions)]
         /\ fstate' \in [Functions -> FunctionStates]
  BY DEF TypeInv, TypeOK, CancelOldest

\* Dropping the last element of a non-empty sequence keeps its type.
LEMMA FrontType ==
  ASSUME NEW S, NEW q \in Seq(S), q # <<>>
  PROVE  SubSeq(q, 1, Len(q) - 1) \in Seq(S)
  BY SMT

\* Taking the front of a queue that has just been appended to.
LEMMA AppendType ==
  ASSUME NEW S, NEW q \in Seq(S), NEW e \in S
  PROVE  /\ Append(q, e) \in Seq(S)
         /\ Append(q, e) # <<>>
         /\ Head(Append(q, e)) \in S
         /\ Tail(Append(q, e)) \in Seq(S)
<1>1. Append(q, e) \in Seq(S) /\ Append(q, e) # <<>>
  BY AppendProperties
<1>2. QED
  BY <1>1, HeadTailProperties

\* Dropping the front of a queue of two or more leaves a queue.
LEMMA TailType ==
  ASSUME NEW S, NEW q \in Seq(S), Len(q) >= 2
  PROVE  Tail(q) \in Seq(S) /\ Tail(q) # <<>>
<1>1. q # <<>>
  BY EmptySeq
<1>2. Tail(q) \in Seq(S) /\ Len(Tail(q)) = Len(q) - 1 /\ Len(q) \in Nat
  BY <1>1, HeadTailProperties, LenProperties
<1>3. QED
  <2>1. Len(Tail(q)) > 0
    BY <1>2
  <2>2. Tail(q) = <<>> => Len(Tail(q)) = 0
    BY EmptySeq
  <2>3. QED
    BY <1>2, <2>1, <2>2

LEMMA ClientStartType == TypeInv /\ ClientStart => TypeInv'
<1> SUFFICES ASSUME TypeInv, ClientStart PROVE TypeInv'
  OBVIOUS
<1> USE PoolAssumption DEF TypeInv, TypeOK, PointersOK, poolVars, seqVars, Call, Idle
<1>1. ASSUME NEW s \in Sequences, NewSequence(s) PROVE TypeInv'
  <2>1. free_sequences' \in Seq(Sequences)
    <3>1. CASE free_sequences # <<>>
      <4>1. SubSeq(free_sequences, 1, Len(free_sequences) - 1) \in Seq(Sequences)
        BY <3>1, FrontType
      <4>2. QED
        BY <1>1, <3>1, <4>1 DEF NewSequence
    <3>2. CASE free_sequences = <<>>
      BY <1>1, <3>2 DEF NewSequence
    <3>3. QED
      BY <3>1, <3>2
  <2>2. QED
    BY <1>1, <2>1 DEF NewSequence, Reset
<1>2. ASSUME NEW s \in Sequences, CancelPendingFunctions(s) PROVE TypeInv'
  BY <1>2 DEF CancelPendingFunctions
<1>3. ASSUME NEW s \in Sequences, NEW x \in QueueBounds, set_max_queue_size(s, x)
      PROVE TypeInv'
  BY <1>3 DEF set_max_queue_size
<1>4. ASSUME NEW c \in Clients, NEW s \in Sequences, FreeSequence(c, s) PROVE TypeInv'
  BY <1>4 DEF FreeSequence
<1>5. ASSUME NEW c \in Clients, NEW s \in Sequences, NEW f \in Functions, Add(c, s, f)
      PROVE TypeInv'
  <2>1. CASE shutdown[s]
    BY <1>5, <2>1, ZenonT(30) DEF Add
  <2>2. CASE ~shutdown[s]
    <3> DEFINE kept == IF Overflows(s) THEN Tail(work_queue[s]) ELSE work_queue[s]
    <3>1. kept \in Seq(Functions)
      <4>1. Overflows(s) => work_queue[s] # <<>>
        BY <1>5 DEF Overflows, kUnboundedQueue
      <4>2. QED
        BY <4>1
    <3>2. work_queue' \in [Sequences -> Seq(Functions)]
      <4>1. Append(kept, f) \in Seq(Functions)
        BY <3>1
      <4>2. work_queue' = [work_queue EXCEPT ![s] = Append(kept, f)]
        BY <1>5, <2>2 DEF Add, PushBack
      <4> HIDE DEF kept
      <4>3. QED
        BY <4>1, <4>2
    <3>3. fstate' \in [Functions -> FunctionStates]
      BY <1>5, <2>2 DEF Add
    <3>4. /\ call' \in [Clients -> [pc : CallStates, seq : Sequences \cup {None},
                                    worker : Workers \cup {None}]]
          /\ \A d \in Clients : call'[d].pc # "idle" => call'[d].seq \in Sequences
      <4>1. PICK e \in {call[c], Call("queue", s, None)} :
              call' = [call EXCEPT ![c] = e]
        BY <1>5, <2>2 DEF Add
      <4>2. QED
        BY <4>1
    <3>5. QED
      BY <1>5, <3>2, <3>3, <3>4 DEF Add
  <2>3. QED
    BY <2>1, <2>2
<1>6. QED
  BY <1>1, <1>2, <1>3, <1>4, <1>5 DEF ClientStart

LEMMA ClientStepType ==
  ASSUME TypeInv, NEW c \in Clients, ClientStep(c) PROVE TypeInv'
<1> USE PoolAssumption
    DEF TypeInv, TypeOK, PointersOK, poolVars, seqVars, Call, Idle, Thread, Parked
<1>1. ASSUME NEW w \in Workers, QueueToWorker(c, w) PROVE TypeInv'
  <2>1. /\ call' \in [Clients -> [pc : CallStates, seq : Sequences \cup {None},
                                  worker : Workers \cup {None}]]
        /\ \A d \in Clients : call'[d].pc # "idle" => call'[d].seq \in Sequences
    <3>1. /\ call' = [call EXCEPT ![c] = Call("dispatch", call[c].seq, w)]
          /\ call[c].seq \in Sequences
      BY <1>1 DEF QueueToWorker
    <3>2. QED
      BY <3>1
  <2>2. CASE UNCHANGED wk
    BY <1>1, <2>1, <2>2 DEF QueueToWorker
  <2>3. CASE wk' = [wk EXCEPT ![w] = Parked]
    BY <1>1, <2>1, <2>3 DEF QueueToWorker
  <2>4. QED
    BY <1>1, <2>2, <2>3 DEF QueueToWorker
<1>2. CASE QueueToWait(c)
  <2> DEFINE longer == Append(queued_sequences, call[c].seq)
  <2>1. /\ longer \in Seq(Sequences)
        /\ longer # <<>>
        /\ Head(longer) \in Sequences
        /\ Tail(longer) \in Seq(Sequences)
    <3>1. call[c].seq \in Sequences
      BY <1>2 DEF QueueToWait
    <3>2. QED
      BY <3>1, AppendType
  <2>2. queued_sequences' \in Seq(Sequences)
    BY <1>2, <2>1 DEF QueueToWait
  <2>3. /\ call' \in [Clients -> [pc : CallStates, seq : Sequences \cup {None},
                                  worker : Workers \cup {None}]]
        /\ \A d \in Clients : call'[d].pc # "idle" => call'[d].seq \in Sequences
    <3>1. \/ call' = [call EXCEPT ![c] = Idle]
          \/ call' = [call EXCEPT ![c] = Call("shed", Head(longer), None)]
      BY <1>2 DEF QueueToWait
    <3> HIDE DEF longer
    <3>2. CASE call' = [call EXCEPT ![c] = Idle]
      BY <3>2
    <3>3. CASE call' = [call EXCEPT ![c] = Call("shed", Head(longer), None)]
      BY <2>1, <3>3
    <3>4. QED
      BY <3>1, <3>2, <3>3
  <2>4. QED
    BY <1>2, <2>2, <2>3 DEF QueueToWait
<1>3. CASE QueueWithoutPool(c)
  BY <1>3 DEF QueueWithoutPool
<1>4. CASE Cancel(c)
  <2>1. call[c].seq \in Sequences
    BY <1>4 DEF Cancel
  <2>2. CASE CancelOldest(call[c].seq) /\ UNCHANGED call
    BY <1>4, <2>1, <2>2, CancelOldestType DEF Cancel
  <2>3. CASE UNCHANGED <<work_queue, fstate>> /\ call' = [call EXCEPT ![c] = Idle]
    BY <1>4, <2>3 DEF Cancel
  <2>4. QED
    BY <1>4, <2>2, <2>3 DEF Cancel
<1>5. CASE RunInWorkThread(c)
  <2>1. call[c].seq \in Sequences
    BY <1>5 DEF RunInWorkThread
  <2>2. CASE /\ inbox' = [inbox EXCEPT ![call[c].worker] = call[c].seq]
             /\ call' = [call EXCEPT ![c] = Idle]
    BY <1>5, <2>1, <2>2 DEF RunInWorkThread
  <2>3. CASE /\ call' = [call EXCEPT ![c] = Call("crashed", call[c].seq, None)]
             /\ UNCHANGED inbox
    BY <1>5, <2>1, <2>3 DEF RunInWorkThread
  <2>4. QED
    BY <1>5, <2>2, <2>3 DEF RunInWorkThread
<1>6. CASE RecycleFreed(c)
  BY <1>6 DEF RecycleFreed
<1>7. QED
  BY <1>1, <1>2, <1>3, <1>4, <1>5, <1>6 DEF ClientStep

LEMMA WorkerStepType ==
  ASSUME TypeInv, NEW w \in Workers, WorkerStep(w) PROVE TypeInv'
<1> USE PoolAssumption
    DEF TypeInv, TypeOK, PointersOK, poolVars, seqVars, Thread, Parked
<1> DEFINE s == wk[w].seq
<1>a. ASSUME s \in Sequences, NEW b \in BOOLEAN, WindDown(w, s, b),
             UNCHANGED <<poolVars, shutdown, pool, max_queue_size, live, call,
                         inbox, stop>>
      PROVE TypeInv'
  <2>1. \/ wk' = [wk EXCEPT ![w] = Thread("release", s, None)]
        \/ wk' = [wk EXCEPT ![w] = Thread("assign", None, None)]
    BY <1>a DEF WindDown, Releasing
  <2>2. active' \in [Sequences -> BOOLEAN]
    BY <1>a DEF WindDown, ClearActive
  <2>3. QED
    BY <1>a, <2>1, <2>2 DEF WindDown
<1>1. CASE GetNextTask(w)
  <2>1. CASE /\ wk' = [wk EXCEPT ![w] = Thread("exited", None, None)]
             /\ UNCHANGED inbox
    BY <1>1, <2>1 DEF GetNextTask
  <2>2. CASE /\ inbox[w] # None
             /\ wk' = [wk EXCEPT ![w] = Thread("next", inbox[w], None)]
             /\ inbox' = [inbox EXCEPT ![w] = None]
    BY <1>1, <2>2 DEF GetNextTask
  <2>3. QED
    BY <1>1, <2>1, <2>2 DEF GetNextTask
<1>2. CASE NextFunction(w)
  <2>1. s \in Sequences
    BY <1>2 DEF NextFunction
  <2>2. CASE shutdown[s] /\ WindDown(w, s, FALSE)
    BY <1>a, <1>2, <2>1, <2>2 DEF NextFunction
  <2>3. CASE /\ CancelOldest(s)
             /\ wk' = [wk EXCEPT ![w] = Thread("drain", s, None)]
             /\ UNCHANGED active
    BY <1>2, <2>1, <2>3, CancelOldestType DEF NextFunction
  <2>4. CASE /\ work_queue[s] = <<>>
             /\ ClearActive(s)
             /\ wk' = [wk EXCEPT ![w] = Thread("assign", None, None)]
             /\ UNCHANGED <<work_queue, fstate>>
    BY <1>2, <2>1, <2>4 DEF NextFunction, ClearActive
  <2>5. CASE /\ work_queue[s] # <<>>
             /\ PopFront(s)
             /\ SetActive(s)
             /\ fstate' = [fstate EXCEPT ![Head(work_queue[s])] = "running"]
             /\ wk' = [wk EXCEPT ![w] = Thread("run", s, Head(work_queue[s]))]
    BY <1>2, <2>1, <2>5, SMTT(30) DEF NextFunction, PopFront, SetActive
  <2>6. QED
    BY <1>2, <2>2, <2>3, <2>4, <2>5 DEF NextFunction
<1>3. CASE DrainShutDown(w)
  <2>1. s \in Sequences
    BY <1>3 DEF DrainShutDown
  <2>2. CASE CancelOldest(s) /\ UNCHANGED <<active, wk>>
    BY <1>3, <2>1, <2>2, CancelOldestType DEF DrainShutDown
  <2>3. CASE WindDown(w, s, TRUE)
    BY <1>a, <1>3, <2>1, <2>3 DEF DrainShutDown
  <2>4. QED
    BY <1>3, <2>2, <2>3 DEF DrainShutDown
<1>4. CASE RunDone(w)
  BY <1>4 DEF RunDone
<1>5. CASE SequenceNoLongerActive(w)
  BY <1>5 DEF SequenceNoLongerActive
<1>6. CASE AssignWorkerToNextSequence(w)
  <2>1. CASE /\ wk' = [wk EXCEPT ![w] = Parked]
             /\ UNCHANGED <<queued_sequences, active_workers, available_workers>>
    BY <1>6, <2>1 DEF AssignWorkerToNextSequence
  <2>2. CASE /\ active_workers' = active_workers \ {w}
             /\ available_workers' = available_workers \cup {w}
             /\ wk' = [wk EXCEPT ![w] = Parked]
             /\ UNCHANGED queued_sequences
    BY <1>6, <2>2 DEF AssignWorkerToNextSequence
  <2>3. CASE /\ queued_sequences # <<>>
             /\ wk' = [wk EXCEPT ![w] = Thread("next", Head(queued_sequences), None)]
             /\ queued_sequences' = Tail(queued_sequences)
             /\ UNCHANGED <<active_workers, available_workers>>
    <3>1. /\ Head(queued_sequences) \in Sequences
          /\ Tail(queued_sequences) \in Seq(Sequences)
      BY <2>3
    <3>2. QED
      BY <1>6, <2>3, <3>1 DEF AssignWorkerToNextSequence
  <2>4. QED
    BY <1>6, <2>1, <2>2, <2>3 DEF AssignWorkerToNextSequence, NoSequenceWaiting
<1>7. QED
  BY <1>1, <1>2, <1>3, <1>4, <1>5, <1>6 DEF WorkerStep

LEMMA StopType == TypeInv /\ (InitiateShutDown \/ StopStep) => TypeInv'
<1> SUFFICES ASSUME TypeInv, InitiateShutDown \/ StopStep PROVE TypeInv'
  OBVIOUS
<1> USE PoolAssumption DEF TypeInv, TypeOK, PointersOK, poolVars, seqVars, Thread
<1>1. CASE InitiateShutDown
  BY <1>1 DEF InitiateShutDown
<1>2. ASSUME NEW s \in Sequences, InitiateSequenceShutDown(s) PROVE TypeInv'
  BY <1>2 DEF InitiateSequenceShutDown, SetShutDown
<1>3. ASSUME NEW s \in Sequences, WaitForShutDown(s) PROVE TypeInv'
  BY <1>3 DEF WaitForShutDown
<1>4. CASE WaitForShutDownComplete
  BY <1>4 DEF WaitForShutDownComplete
<1>5. CASE DrainSequence
  <2>1. stop.seq \in Sequences
    BY <1>5 DEF DrainSequence
  <2>2. CASE CancelOldest(stop.seq) /\ UNCHANGED stop
    BY <1>5, <2>1, <2>2, CancelOldestType DEF DrainSequence
  <2>3. QED
    BY <1>5, <2>1, <2>2 DEF DrainSequence
<1>6. CASE AllSequencesDown
  BY <1>6 DEF AllSequencesDown
<1>7. ASSUME NEW w \in Workers, ShutDownWorker(w) PROVE TypeInv'
  BY <1>7 DEF ShutDownWorker
<1>8. ASSUME NEW w \in Workers, DeleteWorker(w) PROVE TypeInv'
  BY <1>8 DEF DeleteWorker
<1>9. CASE ShutDownDone
  BY <1>9 DEF ShutDownDone
<1>10. QED
  BY <1>1, <1>2, <1>3, <1>4, <1>5, <1>6, <1>7, <1>8, <1>9 DEF StopStep

LEMMA TypeNext == TypeInv /\ [Next]_vars => TypeInv'
<1>1. TypeInv /\ UNCHANGED vars => TypeInv'
  BY DEF TypeInv, TypeOK, PointersOK, vars, poolVars, seqVars
<1>2. QED
  BY <1>1, ClientStartType, ClientStepType, WorkerStepType, StopType DEF Next

LEMMA TypeInvariance == Spec => []TypeInv
  BY TypeInit, TypeNext, PTL DEF Spec

\* Every variable of the pool keeps its type, for every value of the constants.
THEOREM TypeCorrect == Spec => []TypeOK
<1>1. TypeInv => TypeOK
  BY DEF TypeInv
<1>2. QED
  BY <1>1, TypeInvariance, PTL

-----------------------------------------------------------------------------
(* At most one dispatch.  What keeps Add from dispatching a sequence twice  *)
(* is that a dispatched, open and inactive sequence still has work queued   *)
(* (OpenHasWork); what keeps a recycled one from carrying an old dispatch   *)
(* along is that free sequences are not dispatched (Recycling).             *)

NoRepeat(q) == \A i, j \in DOMAIN q : q[i] = q[j] => i = j

ByClient(c, s) == call[c].pc \in {"queue", "dispatch"} /\ call[c].seq = s
ByWorker(w, s) == wk[w].pc \in {"next", "drain", "run"} /\ wk[w].seq = s

Dispatched(s) ==
  \/ \E c \in Clients : ByClient(c, s)
  \/ s \in Ranged(queued_sequences)
  \/ \E w \in Workers : inbox[w] = s
  \/ \E w \in Workers : ByWorker(w, s)

FreeByClient(c, s) == call[c].pc = "free" /\ call[c].seq = s
FreeByWorker(w, s) == wk[w].pc = "release" /\ wk[w].seq = s

Freed(s) ==
  \/ s \in Ranged(free_sequences)
  \/ \E c \in Clients : FreeByClient(c, s)
  \/ \E w \in Workers : FreeByWorker(w, s)

One(s) ==
  /\ \A c, d \in Clients : ByClient(c, s) /\ ByClient(d, s) => c = d
  /\ \A v, w \in Workers : inbox[v] = s /\ inbox[w] = s => v = w
  /\ \A v, w \in Workers : ByWorker(v, s) /\ ByWorker(w, s) => v = w
  /\ \A c \in Clients : ByClient(c, s) => s \notin Ranged(queued_sequences)
  /\ \A c \in Clients, w \in Workers :
       ByClient(c, s) => inbox[w] # s /\ ~ByWorker(w, s)
  /\ \A w \in Workers : inbox[w] = s => s \notin Ranged(queued_sequences)
  /\ \A w \in Workers : ByWorker(w, s) => s \notin Ranged(queued_sequences)
  /\ \A v, w \in Workers : inbox[v] = s => ~ByWorker(w, s)

FreedOnce(s) ==
  /\ \A c, d \in Clients : FreeByClient(c, s) /\ FreeByClient(d, s) => c = d
  /\ \A v, w \in Workers : FreeByWorker(v, s) /\ FreeByWorker(w, s) => v = w
  /\ \A c \in Clients : FreeByClient(c, s) => s \notin Ranged(free_sequences)
  /\ \A w \in Workers : FreeByWorker(w, s) => s \notin Ranged(free_sequences)
  /\ \A c \in Clients, w \in Workers : ~(FreeByClient(c, s) /\ FreeByWorker(w, s))

OpenHasWork(s) ==
  Dispatched(s) /\ ~shutdown[s] /\ ~active[s] => work_queue[s] # <<>>

Recycling(s) ==
  /\ Freed(s) => ~Dispatched(s) /\ s \notin live /\ shutdown[s]
  /\ s \in live => ~shutdown[s]
  /\ FreedOnce(s)

Known(s) == Dispatched(s) \/ Freed(s) \/ s \in live => s \in all_sequences

DispatchInv ==
  /\ NoRepeat(queued_sequences)
  /\ \A s \in Sequences : One(s) /\ OpenHasWork(s) /\ Known(s)
  /\ ~pool_shutdown => NoRepeat(free_sequences)
  /\ ~pool_shutdown => \A s \in Sequences : Recycling(s)
  /\ \A w \in Workers : wk[w].pc = "run" => active[wk[w].seq]
  /\ \A w \in Workers : wk[w].pc = "drain" => shutdown[wk[w].seq]
  /\ \A c \in Clients : call[c].pc # "shed"
  /\ \A s \in Sequences : max_queue_size[s] # 1
  /\ stop.pc = "up" <=> ~pool_shutdown
  /\ stop.pc = "waiting" => shutdown[stop.seq]

\* What a push at the back, a pop at the front and a pop at the back do to the
\* elements of a queue without repetitions.
LEMMA PushBackRange ==
  ASSUME NEW S, NEW q \in Seq(S), NEW e \in S
  PROVE  /\ Ranged(Append(q, e)) = Ranged(q) \cup {e}
         /\ NoRepeat(q) /\ e \notin Ranged(q) => NoRepeat(Append(q, e))
<1> DEFINE r == Append(q, e)
<1>1. /\ r \in Seq(S)
      /\ Len(r) = Len(q) + 1
      /\ \A i \in 1..Len(q) : r[i] = q[i]
      /\ r[Len(q) + 1] = e
  BY AppendProperties
<1>2. DOMAIN q = 1..Len(q) /\ DOMAIN r = 1..(Len(q) + 1) /\ Len(q) \in Nat
  BY <1>1, LenProperties
<1> HIDE DEF r
<1>3. Ranged(r) = Ranged(q) \cup {e}
  <2>1. ASSUME NEW x \in Ranged(r) PROVE x \in Ranged(q) \cup {e}
    BY <1>1, <1>2, <2>1 DEF Ranged
  <2>2. ASSUME NEW x \in Ranged(q) PROVE x \in Ranged(r)
    BY <1>1, <1>2, <2>2 DEF Ranged
  <2>3. e \in Ranged(r)
    BY <1>1, <1>2 DEF Ranged
  <2>4. QED
    BY <2>1, <2>2, <2>3
<1>4. ASSUME NoRepeat(q), e \notin Ranged(q) PROVE NoRepeat(r)
  BY <1>1, <1>2, <1>4 DEF NoRepeat, Ranged
<1>5. QED
  BY <1>3, <1>4 DEF r

LEMMA PopFrontRange ==
  ASSUME NEW S, NEW q \in Seq(S), q # <<>>, NoRepeat(q)
  PROVE  /\ Head(q) \in Ranged(q)
         /\ Ranged(Tail(q)) = Ranged(q) \ {Head(q)}
         /\ NoRepeat(Tail(q))
<1> DEFINE r == Tail(q)
<1>1. /\ r \in Seq(S)
      /\ Len(r) = Len(q) - 1
      /\ \A i \in 1..Len(r) : r[i] = q[i + 1]
      /\ Head(q) = q[1]
  BY HeadTailProperties
<1>2. DOMAIN q = 1..Len(q) /\ DOMAIN r = 1..Len(r) /\ Len(r) \in Nat
  BY <1>1, LenProperties
<1> HIDE DEF r
<1>3. Head(q) \in Ranged(q)
  BY <1>1, <1>2 DEF Ranged
<1>4. ASSUME NEW x \in Ranged(r) PROVE x \in Ranged(q) /\ x # Head(q)
  BY <1>1, <1>2, <1>4 DEF Ranged, NoRepeat
<1>5. ASSUME NEW x \in Ranged(q), x # Head(q) PROVE x \in Ranged(r)
  <2>1. PICK i \in 1..Len(q) : x = q[i]
    BY <1>2, <1>5 DEF Ranged
  <2>2. i - 1 \in 1..Len(r) /\ r[i - 1] = x
    BY <1>1, <1>2, <1>5, <2>1
  <2>3. QED
    BY <1>2, <2>2 DEF Ranged
<1>6. NoRepeat(r)
  <2> SUFFICES ASSUME NEW i \in 1..Len(r), NEW j \in 1..Len(r), r[i] = r[j]
               PROVE  i = j
    BY <1>2 DEF NoRepeat
  <2>1. i + 1 \in 1..Len(q) /\ j + 1 \in 1..Len(q) /\ q[i + 1] = q[j + 1]
    BY <1>1, <1>2
  <2>2. i + 1 = j + 1
    BY <1>2, <2>1, Zenon DEF NoRepeat
  <2>3. QED
    BY <2>2
<1>7. QED
  BY <1>3, <1>4, <1>5, <1>6 DEF r

LEMMA PopBackRange ==
  ASSUME NEW S, NEW q \in Seq(S), q # <<>>, NoRepeat(q)
  PROVE  /\ q[Len(q)] \in Ranged(q)
         /\ Ranged(SubSeq(q, 1, Len(q) - 1)) = Ranged(q) \ {q[Len(q)]}
         /\ NoRepeat(SubSeq(q, 1, Len(q) - 1))
<1> DEFINE r == SubSeq(q, 1, Len(q) - 1)
<1>1. Len(q) \in Nat /\ Len(q) # 0 /\ DOMAIN q = 1..Len(q)
  BY LenProperties
<1>2. /\ r \in Seq(S)
      /\ Len(r) = Len(q) - 1
      /\ \A i \in 1..Len(r) : r[i] = q[i]
  BY <1>1, SubSeqProperties
<1>3. DOMAIN r = 1..Len(r)
  BY <1>2, LenProperties
<1> HIDE DEF r
<1>4. q[Len(q)] \in Ranged(q)
  BY <1>1 DEF Ranged
<1>5. ASSUME NEW x \in Ranged(r) PROVE x \in Ranged(q) /\ x # q[Len(q)]
  BY <1>1, <1>2, <1>3, <1>5 DEF Ranged, NoRepeat
<1>6. ASSUME NEW x \in Ranged(q), x # q[Len(q)] PROVE x \in Ranged(r)
  BY <1>1, <1>2, <1>3, <1>6 DEF Ranged
<1>7. NoRepeat(r)
  BY <1>1, <1>2, <1>3 DEF NoRepeat
<1>8. QED
  BY <1>4, <1>5, <1>6, <1>7 DEF r

\* The use of the pool under which dispatches stay unique: clients do not
\* cancel pending functions, nothing is shed, no queue is bounded by one.
SerialUse ==
  /\ ~ClientsCancelPending
  /\ LoadSheddingThreshold = kNoLoadShedding
  /\ 1 \notin QueueBounds

LEMMA DispatchInit == Init => DispatchInv
<1> SUFFICES ASSUME Init PROVE DispatchInv
  OBVIOUS
<1>1. /\ Ranged(queued_sequences) = {} /\ Ranged(free_sequences) = {}
      /\ NoRepeat(queued_sequences) /\ NoRepeat(free_sequences)
  BY DEF Init, Ranged, NoRepeat
<1>2. /\ \A c \in Clients : call[c].pc = "idle"
      /\ \A w \in Workers : wk[w].pc = "none" /\ inbox[w] = None
  BY DEF Init, Call, Thread, Idle
<1>3. \A s \in Sequences : ~Dispatched(s) /\ ~Freed(s) /\ One(s) /\ FreedOnce(s)
  BY <1>1, <1>2, PoolAssumption
  DEF Dispatched, Freed, One, FreedOnce, ByClient, ByWorker, FreeByClient, FreeByWorker
<1>4. QED
  BY <1>1, <1>2, <1>3
  DEF Init, DispatchInv, OpenHasWork, Recycling, Known, kUnboundedQueue

LEMMA ClientStartDispatch ==
  ASSUME SerialUse, TypeInv, DispatchInv, ClientStart PROVE DispatchInv'
<1> USE DEF TypeInv, TypeOK, PointersOK, DispatchInv, One, OpenHasWork, Known, Recycling, FreedOnce,
        Dispatched, Freed, ByClient, ByWorker, FreeByClient, FreeByWorker,
        poolVars, seqVars, Call, Idle
<1>1. ASSUME NEW s \in Sequences, NewSequence(s) PROVE DispatchInv'
  <2>1. /\ ~Dispatched(s)
        /\ \A c \in Clients : ~FreeByClient(c, s)
        /\ \A w \in Workers : ~FreeByWorker(w, s)
        /\ Ranged(free_sequences)' = Ranged(free_sequences) \ {s}
        /\ NoRepeat(free_sequences)'
        /\ s \in all_sequences' /\ all_sequences \subseteq all_sequences'
    <3>1. CASE free_sequences = <<>>
      <4>1. s \notin all_sequences /\ free_sequences' = free_sequences
        BY <1>1, <3>1 DEF NewSequence
      <4>2. ~Dispatched(s) /\ ~Freed(s)
        BY <4>1
      <4>3. Ranged(free_sequences)' = Ranged(free_sequences)
            /\ NoRepeat(free_sequences)' = NoRepeat(free_sequences)
        BY <4>1 DEF Ranged, NoRepeat
      <4>4. QED
        BY <1>1, <3>1, <4>2, <4>3 DEF NewSequence
    <3>2. CASE free_sequences # <<>>
      <4>1. /\ s = free_sequences[Len(free_sequences)]
            /\ free_sequences' = SubSeq(free_sequences, 1, Len(free_sequences) - 1)
            /\ NoRepeat(free_sequences)
            /\ Recycling(s)
        BY <1>1, <3>2 DEF NewSequence
      <4>2. /\ s \in Ranged(free_sequences)
            /\ Ranged(free_sequences)' = Ranged(free_sequences) \ {s}
            /\ NoRepeat(free_sequences)'
        <5>1. /\ free_sequences[Len(free_sequences)] \in Ranged(free_sequences)
              /\ Ranged(SubSeq(free_sequences, 1, Len(free_sequences) - 1))
                   = Ranged(free_sequences) \ {free_sequences[Len(free_sequences)]}
              /\ NoRepeat(SubSeq(free_sequences, 1, Len(free_sequences) - 1))
          BY <3>2, <4>1, PopBackRange
        <5>2. QED
          BY <4>1, <5>1
      <4>3. s \in all_sequences /\ all_sequences' = all_sequences
        BY <1>1, <3>2, <4>2 DEF NewSequence
      <4>4. QED
        BY <4>1, <4>2, <4>3
    <3>3. QED
      BY <3>1, <3>2
  <2>2. /\ ~pool_shutdown /\ UNCHANGED <<queued_sequences, pool_shutdown, call, wk,
                          inbox, stop, work_queue, max_queue_size>>
        /\ live' = live \cup {s}
        /\ active' = [active EXCEPT ![s] = FALSE]
        /\ shutdown' = [shutdown EXCEPT ![s] = FALSE]
    BY <1>1 DEF NewSequence, Reset
  <2>3. \A z \in Sequences : (One(z) /\ OpenHasWork(z) /\ Known(z) /\ Recycling(z))'
    BY <2>1, <2>2
  <2>4. QED
    BY <2>1, <2>2, <2>3
<1>2. ASSUME NEW s \in Sequences, CancelPendingFunctions(s) PROVE DispatchInv'
  BY <1>2 DEF CancelPendingFunctions, SerialUse
<1>3. ASSUME NEW s \in Sequences, NEW x \in QueueBounds, set_max_queue_size(s, x)
      PROVE DispatchInv'
  BY <1>3 DEF set_max_queue_size, SerialUse
<1>4. ASSUME NEW c \in Clients, NEW s \in Sequences, FreeSequence(c, s)
      PROVE DispatchInv'
  BY <1>4 DEF FreeSequence, Recyclable
<1>5. ASSUME NEW c \in Clients, NEW s \in Sequences, NEW f \in Functions, Add(c, s, f)
      PROVE DispatchInv'
  <2>1. CASE shutdown[s]
    BY <1>5, <2>1 DEF Add
  <2>2. CASE ~shutdown[s]
    <3> DEFINE kept == IF Overflows(s) THEN Tail(work_queue[s]) ELSE work_queue[s]
    <3>1. kept \in Seq(Functions) /\ (kept = <<>> => work_queue[s] = <<>>)
      <4>1. CASE Overflows(s)
        <5>1. Len(work_queue[s]) >= 2 /\ work_queue[s] \in Seq(Functions)
          BY <4>1 DEF Overflows, kUnboundedQueue
        <5>2. Tail(work_queue[s]) \in Seq(Functions) /\ Tail(work_queue[s]) # <<>>
          BY <5>1, TailType
        <5>3. QED
          BY <4>1, <5>2
      <4>2. QED
        BY <4>1
    <3>2. work_queue'[s] # <<>>
          /\ \A z \in Sequences : z # s => work_queue'[z] = work_queue[z]
      <4>1. work_queue' = [work_queue EXCEPT ![s] = Append(kept, f)]
        BY <1>5, <2>2 DEF Add, PushBack
      <4>2. Append(kept, f) # <<>>
        <5> HIDE DEF kept
        <5> QED BY <3>1, AppendType
      <4> HIDE DEF kept
      <4>3. QED
        BY <4>1, <4>2
    <3>3. CASE NeedsDispatch(s, kept)
      <4>1. call' = [call EXCEPT ![c] = Call("queue", s, None)]
        BY <1>5, <2>2, <3>3 DEF Add
      <4>2. ~Dispatched(s)
        BY <2>2, <3>1, <3>3 DEF NeedsDispatch
      <4> HIDE DEF kept
      <4>3. QED
        <5>1. \A d \in Clients, z \in Sequences :
                /\ ByClient(d, z)' <=> ByClient(d, z) \/ (d = c /\ z = s)
                /\ FreeByClient(d, z)' <=> FreeByClient(d, z)
                /\ call'[d].pc # "shed"
          BY <1>5, <4>1 DEF Add
        <5>2. /\ UNCHANGED <<poolVars, active, shutdown, pool, max_queue_size, live, wk,
                             inbox, stop>>
              /\ s \in live
          BY <1>5 DEF Add
        <5> HIDE DEF ByClient, FreeByClient, TypeOK
        <5>3. \A z \in Sequences : (One(z) /\ OpenHasWork(z) /\ Known(z))'
          BY <3>2, <4>2, <5>1, <5>2
        <5>4. ~pool_shutdown' => \A z \in Sequences : Recycling(z)'
          BY <4>2, <5>1, <5>2
        <5>5. QED
          BY <5>1, <5>2, <5>3, <5>4
    <3>4. CASE ~NeedsDispatch(s, kept)
      <4>1. call' = call
        BY <1>5, <2>2, <3>4 DEF Add
      <4> HIDE DEF kept
      <4>2. QED
        BY <1>5, <3>2, <4>1 DEF Add
    <3>5. QED
      BY <3>3, <3>4
  <2>3. QED
    BY <2>1, <2>2
<1>6. QED
  BY <1>1, <1>2, <1>3, <1>4, <1>5 DEF ClientStart

LEMMA ClientStepDispatch ==
  ASSUME SerialUse, TypeInv, DispatchInv, NEW c \in Clients, ClientStep(c)
  PROVE  DispatchInv'
<1> USE PoolAssumption
    DEF TypeInv, TypeOK, PointersOK, DispatchInv, One, OpenHasWork, Known, Recycling,
        FreedOnce, Dispatched, Freed, ByClient, ByWorker, FreeByClient, FreeByWorker,
        poolVars, seqVars, Call, Idle, Thread, Parked
<1>1. ASSUME NEW w \in Workers, QueueToWorker(c, w) PROVE DispatchInv'
  <2>1. \A d \in Clients, z \in Sequences :
          /\ ByClient(d, z)' <=> ByClient(d, z)
          /\ FreeByClient(d, z)' <=> FreeByClient(d, z)
          /\ call'[d].pc # "shed"
    BY <1>1 DEF QueueToWorker
  <2>2. \A v \in Workers, z \in Sequences :
          /\ ByWorker(v, z)' <=> ByWorker(v, z)
          /\ FreeByWorker(v, z)' <=> FreeByWorker(v, z)
    <3>1. CASE UNCHANGED wk
      BY <3>1
    <3>2. CASE wk[w].pc = "none" /\ wk' = [wk EXCEPT ![w] = Parked]
      BY <3>2
    <3>3. QED
      BY <1>1, <3>1, <3>2 DEF QueueToWorker
  <2>a. /\ \A v \in Workers : wk'[v].pc \in {"run", "drain"} => wk'[v] = wk[v]
        /\ \A d \in Clients : call'[d].pc # "shed"
    BY <1>1 DEF QueueToWorker
  <2>3. UNCHANGED <<all_sequences, queued_sequences, free_sequences, pool_shutdown,
                    seqVars, live, inbox, stop>>
    BY <1>1 DEF QueueToWorker
  <2> HIDE DEF TypeOK, ByClient, FreeByClient, ByWorker, FreeByWorker
  <2>4. \A z \in Sequences :
          (Dispatched(z)' <=> Dispatched(z)) /\ (Freed(z)' <=> Freed(z))
    BY <2>1, <2>2, <2>3
  <2>5. \A z \in Sequences : One(z)' /\ (FreedOnce(z) => FreedOnce(z)')
    BY <2>1, <2>2, <2>3
  <2> HIDE DEF Dispatched, Freed, One, FreedOnce
  <2>6. QED
    BY <2>a, <2>3, <2>4, <2>5
<1>2. CASE QueueToWait(c)
  <2> DEFINE s == call[c].seq
  <2>1. /\ s \in Sequences /\ ByClient(c, s)
        /\ queued_sequences' = Append(queued_sequences, s)
        /\ call' = [call EXCEPT ![c] = Idle]
        /\ UNCHANGED <<all_sequences, free_sequences, pool_shutdown, seqVars, live, wk,
                       inbox, stop>>
    BY <1>2 DEF QueueToWait, SerialUse
  <2>2. /\ Ranged(queued_sequences') = Ranged(queued_sequences) \cup {s}
        /\ NoRepeat(queued_sequences')
    BY <2>1, PushBackRange
  <2>3. \A d \in Clients, z \in Sequences :
          /\ ByClient(d, z)' <=> ByClient(d, z) /\ d # c
          /\ FreeByClient(d, z)' <=> FreeByClient(d, z)
          /\ call'[d].pc # "shed"
    BY <1>2, <2>1 DEF QueueToWait
  <2> HIDE DEF s, TypeOK, ByClient, FreeByClient
  <2>4. QED
    BY <2>1, <2>2, <2>3
<1>3. CASE QueueWithoutPool(c)
  BY <1>3, SMTT(30) DEF QueueWithoutPool
<1>4. CASE Cancel(c)
  BY <1>4 DEF Cancel
<1>5. CASE RunInWorkThread(c)
  <2> DEFINE s == call[c].seq
  <2>1. /\ s \in Sequences /\ ByClient(c, s)
        /\ UNCHANGED <<poolVars, seqVars, live, wk, stop>>
    BY <1>5 DEF RunInWorkThread
  <2>2. \A d \in Clients, z \in Sequences :
          /\ ByClient(d, z)' <=> ByClient(d, z) /\ d # c
          /\ FreeByClient(d, z)' <=> FreeByClient(d, z)
          /\ call'[d].pc # "shed"
    <3>1. \/ call' = [call EXCEPT ![c] = Idle]
          \/ call' = [call EXCEPT ![c] = Call("crashed", call[c].seq, None)]
      BY <1>5 DEF RunInWorkThread
    <3>2. CASE call' = [call EXCEPT ![c] = Idle]
      BY <1>5, <3>2 DEF RunInWorkThread
    <3>3. CASE call' = [call EXCEPT ![c] = Call("crashed", call[c].seq, None)]
      BY <1>5, <3>3 DEF RunInWorkThread
    <3>4. QED
      BY <3>1, <3>2, <3>3
  <2>3. \A v \in Workers : inbox'[v] = inbox[v] \/ (v = call[c].worker /\ inbox'[v] = s)
    BY <1>5 DEF RunInWorkThread
  <2> HIDE DEF s, TypeOK, ByClient, FreeByClient
  <2>4. \A z \in Sequences : (One(z) /\ OpenHasWork(z) /\ Known(z))'
    BY <2>1, <2>2, <2>3
  <2>5. ~pool_shutdown' => \A z \in Sequences : Recycling(z)'
    BY <2>1, <2>2, <2>3
  <2>6. QED
    BY <2>1, <2>2, <2>4, <2>5
<1>6. CASE RecycleFreed(c)
  <2> DEFINE s == call[c].seq
  <2>1. /\ s \in Sequences /\ FreeByClient(c, s)
        /\ free_sequences' = Append(free_sequences, s)
        /\ call' = [call EXCEPT ![c] = Idle]
        /\ UNCHANGED <<all_sequences, queued_sequences, pool_shutdown, seqVars, live, wk,
                       inbox, stop>>
    BY <1>6 DEF RecycleFreed
  <2>2. /\ Ranged(free_sequences') = Ranged(free_sequences) \cup {s}
        /\ ~pool_shutdown => NoRepeat(free_sequences')
    BY <2>1, PushBackRange
  <2>3. \A d \in Clients, z \in Sequences :
          /\ ByClient(d, z)' <=> ByClient(d, z)
          /\ FreeByClient(d, z)' <=> FreeByClient(d, z) /\ d # c
          /\ call'[d].pc # "shed"
    BY <1>6, <2>1 DEF RecycleFreed
  <2>4. FreeByClient(c, s) /\ \A z \in Sequences : FreeByClient(c, z) => z = s
    BY <2>1
  <2> HIDE DEF s, TypeOK, ByClient, FreeByClient
  <2>5. \A z \in Sequences : (One(z) /\ OpenHasWork(z) /\ Known(z))'
    BY <2>1, <2>2, <2>3, <2>4
  <2>6. ~pool_shutdown' => \A z \in Sequences : Recycling(z)'
    BY <2>1, <2>2, <2>3, <2>4
  <2>7. QED
    BY <2>1, <2>2, <2>3, <2>5, <2>6
<1>7. QED
  BY <1>1, <1>2, <1>3, <1>4, <1>5, <1>6 DEF ClientStep

\* The part of WindDown that the two callers share.
LEMMA WindDownDispatch ==
  ASSUME TypeInv, DispatchInv, NEW w \in Workers, NEW b \in BOOLEAN,
         ByWorker(w, wk[w].seq), shutdown[wk[w].seq], WindDown(w, wk[w].seq, b),
         UNCHANGED <<poolVars, shutdown, pool, max_queue_size, live, call, inbox, stop>>
  PROVE  DispatchInv'
<1> DEFINE s == wk[w].seq
<1> USE PoolAssumption
    DEF TypeInv, TypeOK, PointersOK, DispatchInv, One, OpenHasWork, Known, Recycling,
        FreedOnce, Dispatched, Freed, ByClient, ByWorker, FreeByClient, FreeByWorker,
        poolVars, seqVars, Thread
<1>1. s \in Sequences
  OBVIOUS
<1>2. /\ \A z \in Sequences : z # s => active'[z] = active[z]
      /\ work_queue' = work_queue
  BY <1>1 DEF WindDown, ClearActive
<1>3. /\ \A v \in Workers, z \in Sequences :
           /\ ByWorker(v, z)' <=> ByWorker(v, z) /\ v # w
           /\ FreeByWorker(v, z)' => FreeByWorker(v, z) \/ (v = w /\ z = s)
      /\ \A v \in Workers : wk'[v].pc \in {"run", "drain"} => wk'[v] = wk[v] /\ v # w
  <2>1. CASE wk' = [wk EXCEPT ![w] = Thread("release", s, None)]
    BY <2>1
  <2>2. CASE wk' = [wk EXCEPT ![w] = Thread("assign", None, None)]
    BY <2>2
  <2>3. QED
    BY <2>1, <2>2 DEF WindDown, Releasing
<1>4. \A v \in Workers : wk'[v].pc = "run" => active'[wk'[v].seq]
  BY <1>1, <1>2, <1>3
<1>5. \A v \in Workers : wk'[v].pc = "drain" => shutdown'[wk'[v].seq]
  BY <1>3
<1>6. ByWorker(w, s) /\ shutdown[s] /\ UNCHANGED <<poolVars, shutdown, pool, max_queue_size,
                                       live, call, inbox, stop>>
  OBVIOUS
<1> HIDE DEF s, TypeOK, ByWorker, FreeByWorker
<1>7. \A z \in Sequences : (One(z) /\ OpenHasWork(z) /\ Known(z))'
  BY <1>1, <1>2, <1>3, <1>6
<1>8. ~pool_shutdown' => \A z \in Sequences : Recycling(z)'
  BY <1>1, <1>2, <1>3, <1>6
<1>9. QED
  BY <1>4, <1>5, <1>6, <1>7, <1>8

LEMMA NextFunctionDispatch ==
  ASSUME TypeInv, DispatchInv, NEW w \in Workers, NextFunction(w)
  PROVE  DispatchInv'
<1> DEFINE s == wk[w].seq
<1> USE PoolAssumption
    DEF TypeInv, TypeOK, PointersOK, DispatchInv, One, OpenHasWork, Known, Recycling,
        FreedOnce, Dispatched, Freed, ByClient, ByWorker, FreeByClient, FreeByWorker,
        poolVars, seqVars, Thread
<1>1. /\ s \in Sequences /\ ByWorker(w, s)
      /\ UNCHANGED <<poolVars, shutdown, pool, max_queue_size, live, call, inbox, stop>>
  BY DEF NextFunction
<1>2. CASE shutdown[s] /\ WindDown(w, s, FALSE)
  BY <1>1, <1>2, WindDownDispatch
<1>3. CASE /\ shutdown[s]
           /\ CancelOldest(s)
           /\ wk' = [wk EXCEPT ![w] = Thread("drain", s, None)]
           /\ UNCHANGED active
  <2>1. \A z \in Sequences : z # s => work_queue'[z] = work_queue[z]
    BY <1>1, <1>3 DEF CancelOldest
  <2>2. \A v \in Workers, z \in Sequences :
          /\ ByWorker(v, z)' <=> ByWorker(v, z)
          /\ FreeByWorker(v, z)' <=> FreeByWorker(v, z)
    BY <1>1, <1>3 DEF NextFunction
  <2>3. \A v \in Workers : /\ wk'[v].pc = "run" => active'[wk'[v].seq]
                           /\ wk'[v].pc = "drain" => shutdown'[wk'[v].seq]
    BY <1>1, <1>3
  <2> HIDE DEF s, TypeOK, ByWorker, FreeByWorker
  <2>4. \A z \in Sequences : (One(z) /\ OpenHasWork(z) /\ Known(z))'
    BY <1>1, <1>3, <2>1, <2>2
  <2>5. ~pool_shutdown' => \A z \in Sequences : Recycling(z)'
    BY <1>1, <2>2
  <2>6. QED
    BY <1>1, <2>3, <2>4, <2>5
<1>4. CASE /\ work_queue[s] = <<>>
           /\ ClearActive(s)
           /\ wk' = [wk EXCEPT ![w] = Thread("assign", None, None)]
           /\ UNCHANGED <<work_queue, fstate>>
  <2>1. \A z \in Sequences : z # s => active'[z] = active[z]
    BY <1>1, <1>4 DEF ClearActive
  <2>2. \A v \in Workers, z \in Sequences :
          /\ ByWorker(v, z)' <=> ByWorker(v, z) /\ v # w
          /\ FreeByWorker(v, z)' <=> FreeByWorker(v, z)
    BY <1>1, <1>4 DEF NextFunction
  <2>3. \A v \in Workers : /\ wk'[v].pc = "run" => active'[wk'[v].seq]
                           /\ wk'[v].pc = "drain" => shutdown'[wk'[v].seq]
    BY <1>1, <1>4, <2>1
  <2> HIDE DEF s, TypeOK, ByWorker, FreeByWorker
  <2>4. \A z \in Sequences : (One(z) /\ OpenHasWork(z) /\ Known(z))'
    BY <1>1, <1>4, <2>1, <2>2
  <2>5. ~pool_shutdown' => \A z \in Sequences : Recycling(z)'
    BY <1>1, <2>2
  <2>6. QED
    BY <1>1, <2>3, <2>4, <2>5
<1>5. CASE /\ PopFront(s)
           /\ SetActive(s)
           /\ wk' = [wk EXCEPT ![w] = Thread("run", s, Head(work_queue[s]))]
  <2>1. /\ \A z \in Sequences : z # s => /\ active'[z] = active[z]
                                         /\ work_queue'[z] = work_queue[z]
        /\ active'[s]
    BY <1>1, <1>5 DEF SetActive, PopFront
  <2>2. \A v \in Workers, z \in Sequences :
          /\ ByWorker(v, z)' <=> ByWorker(v, z)
          /\ FreeByWorker(v, z)' <=> FreeByWorker(v, z)
    BY <1>1, <1>5 DEF NextFunction
  <2>3. \A v \in Workers : /\ wk'[v].pc = "run" => active'[wk'[v].seq]
                           /\ wk'[v].pc = "drain" => shutdown'[wk'[v].seq]
    BY <1>1, <1>5, <2>1
  <2> HIDE DEF s, TypeOK, ByWorker, FreeByWorker
  <2>4. \A z \in Sequences : (One(z) /\ OpenHasWork(z) /\ Known(z))'
    BY <1>1, <2>1, <2>2
  <2>5. ~pool_shutdown' => \A z \in Sequences : Recycling(z)'
    BY <1>1, <2>2
  <2>6. QED
    BY <1>1, <2>3, <2>4, <2>5
<1>6. QED
  BY <1>2, <1>3, <1>4, <1>5 DEF NextFunction

LEMMA WorkerStepDispatch ==
  ASSUME TypeInv, DispatchInv, NEW w \in Workers, WorkerStep(w)
  PROVE  DispatchInv'
<1> USE PoolAssumption
    DEF TypeInv, TypeOK, PointersOK, DispatchInv, One, OpenHasWork, Known, Recycling,
        FreedOnce, Dispatched, Freed, ByClient, ByWorker, FreeByClient, FreeByWorker,
        poolVars, seqVars, Thread, Parked
<1>1. CASE GetNextTask(w)
  <2>1. UNCHANGED <<poolVars, seqVars, live, fstate, call, stop>>
    BY <1>1 DEF GetNextTask
  <2>2. CASE /\ wk' = [wk EXCEPT ![w] = Thread("exited", None, None)]
             /\ UNCHANGED inbox
    <3>1. \A v \in Workers, z \in Sequences :
            /\ ByWorker(v, z)' <=> ByWorker(v, z)
            /\ FreeByWorker(v, z)' <=> FreeByWorker(v, z)
      BY <1>1, <2>2 DEF GetNextTask
    <3>2. \A v \in Workers : wk'[v].pc \in {"run", "drain"} => wk'[v] = wk[v]
      BY <1>1, <2>2 DEF GetNextTask
    <3> HIDE DEF TypeOK, ByWorker, FreeByWorker
    <3>3. \A z \in Sequences : (One(z) /\ OpenHasWork(z) /\ Known(z))'
      BY <2>1, <2>2, <3>1
    <3>4. ~pool_shutdown' => \A z \in Sequences : Recycling(z)'
      BY <2>1, <2>2, <3>1
    <3>5. QED
      BY <2>1, <2>2, <3>2, <3>3, <3>4
  <2>3. CASE /\ inbox[w] # None
             /\ wk' = [wk EXCEPT ![w] = Thread("next", inbox[w], None)]
             /\ inbox' = [inbox EXCEPT ![w] = None]
    <3>1. \A v \in Workers, z \in Sequences :
            /\ ByWorker(v, z)' <=> ByWorker(v, z) \/ (v = w /\ inbox[w] = z)
            /\ FreeByWorker(v, z)' <=> FreeByWorker(v, z)
            /\ inbox'[v] = z <=> inbox[v] = z /\ v # w
      BY <1>1, <2>3 DEF GetNextTask
    <3>2. \A v \in Workers : wk'[v].pc \in {"run", "drain"} => wk'[v] = wk[v]
      BY <1>1, <2>3 DEF GetNextTask
    <3> HIDE DEF TypeOK, ByWorker, FreeByWorker
    <3>3. \A z \in Sequences : (One(z) /\ OpenHasWork(z) /\ Known(z))'
      BY <2>1, <3>1
    <3>4. ~pool_shutdown' => \A z \in Sequences : Recycling(z)'
      BY <2>1, <3>1
    <3>5. QED
      BY <2>1, <3>2, <3>3, <3>4
  <2>4. QED
    BY <1>1, <2>2, <2>3 DEF GetNextTask
<1>2. CASE NextFunction(w)
  BY <1>2, NextFunctionDispatch
<1>3. CASE DrainShutDown(w)
  <2> DEFINE s == wk[w].seq
  <2>1. /\ s \in Sequences /\ ByWorker(w, s) /\ shutdown[s]
        /\ UNCHANGED <<poolVars, shutdown, pool, max_queue_size, live, call, inbox, stop>>
    BY <1>3 DEF DrainShutDown
  <2>2. CASE WindDown(w, s, TRUE)
    BY <2>1, <2>2, WindDownDispatch
  <2>3. CASE CancelOldest(s) /\ UNCHANGED <<active, wk>>
    <3>1. \A z \in Sequences : z # s => work_queue'[z] = work_queue[z]
      BY <2>1, <2>3 DEF CancelOldest
    <3>2. QED
      BY <2>1, <2>3, <3>1
  <2>4. QED
    BY <1>3, <2>2, <2>3 DEF DrainShutDown
<1>4. CASE RunDone(w)
  <2>1. UNCHANGED <<poolVars, seqVars, live, call, inbox, stop>>
    BY <1>4 DEF RunDone
  <2>2. \A v \in Workers, z \in Sequences :
          /\ ByWorker(v, z)' <=> ByWorker(v, z)
          /\ FreeByWorker(v, z)' <=> FreeByWorker(v, z)
    BY <1>4 DEF RunDone
  <2>3. \A v \in Workers : wk'[v].pc \in {"run", "drain"} => wk'[v] = wk[v]
    BY <1>4 DEF RunDone
  <2> HIDE DEF TypeOK, ByWorker, FreeByWorker
  <2>4. \A z \in Sequences : (One(z) /\ OpenHasWork(z) /\ Known(z))'
    BY <2>1, <2>2
  <2>5. ~pool_shutdown' => \A z \in Sequences : Recycling(z)'
    BY <2>1, <2>2
  <2>6. QED
    BY <2>1, <2>3, <2>4, <2>5
<1>5. CASE SequenceNoLongerActive(w)
  <2> DEFINE s == wk[w].seq
  <2>1. /\ s \in Sequences /\ FreeByWorker(w, s)
        /\ free_sequences' = IF pool_shutdown THEN free_sequences
                             ELSE Append(free_sequences, s)
        /\ UNCHANGED <<all_sequences, queued_sequences, pool_shutdown, seqVars, live,
                       call, inbox, stop>>
    BY <1>5 DEF SequenceNoLongerActive
  <2>2. /\ Ranged(free_sequences') \subseteq Ranged(free_sequences) \cup {s}
        /\ ~pool_shutdown => NoRepeat(free_sequences')
    <3>1. CASE pool_shutdown
      BY <2>1, <3>1
    <3>2. CASE ~pool_shutdown
      BY <2>1, <3>2, PushBackRange
    <3>3. QED
      BY <3>1, <3>2
  <2>3. \A v \in Workers, z \in Sequences :
          /\ ByWorker(v, z)' <=> ByWorker(v, z)
          /\ FreeByWorker(v, z)' <=> FreeByWorker(v, z) /\ v # w
    BY <1>5 DEF SequenceNoLongerActive
  <2>4. \A v \in Workers : wk'[v].pc \in {"run", "drain"} => wk'[v] = wk[v]
    BY <1>5 DEF SequenceNoLongerActive
  <2> HIDE DEF s, TypeOK, ByWorker, FreeByWorker
  <2>5. \A z \in Sequences : (One(z) /\ OpenHasWork(z) /\ Known(z))'
    BY <2>1, <2>2, <2>3
  <2>6. ~pool_shutdown' => \A z \in Sequences : Recycling(z)'
    BY <2>1, <2>2, <2>3
  <2>7. QED
    BY <2>1, <2>2, <2>4, <2>5, <2>6
<1>6. CASE AssignWorkerToNextSequence(w)
  <2>1. UNCHANGED <<all_sequences, free_sequences, pool_shutdown, seqVars, live,
                    call, inbox, stop>>
    BY <1>6 DEF AssignWorkerToNextSequence
  <2>2. CASE /\ wk' = [wk EXCEPT ![w] = Parked]
             /\ UNCHANGED queued_sequences
    <3>1. \A v \in Workers, z \in Sequences :
            /\ ByWorker(v, z)' <=> ByWorker(v, z)
            /\ FreeByWorker(v, z)' <=> FreeByWorker(v, z)
      BY <1>6, <2>2 DEF AssignWorkerToNextSequence
    <3>2. \A v \in Workers : wk'[v].pc \in {"run", "drain"} => wk'[v] = wk[v]
      BY <1>6, <2>2 DEF AssignWorkerToNextSequence
    <3> HIDE DEF TypeOK, ByWorker, FreeByWorker
    <3>3. \A z \in Sequences : (One(z) /\ OpenHasWork(z) /\ Known(z))'
      BY <2>1, <2>2, <3>1
    <3>4. ~pool_shutdown' => \A z \in Sequences : Recycling(z)'
      BY <2>1, <2>2, <3>1
    <3>5. QED
      BY <2>1, <2>2, <3>2, <3>3, <3>4
  <2>3. CASE /\ queued_sequences # <<>>
             /\ wk' = [wk EXCEPT ![w] = Thread("next", Head(queued_sequences), None)]
             /\ queued_sequences' = Tail(queued_sequences)
    <3> DEFINE s == Head(queued_sequences)
    <3>1. /\ s \in Ranged(queued_sequences)
          /\ Ranged(queued_sequences') = Ranged(queued_sequences) \ {s}
          /\ NoRepeat(queued_sequences')
          /\ s \in Sequences
      BY <2>3, PopFrontRange
    <3>2. \A v \in Workers, z \in Sequences :
            /\ ByWorker(v, z)' <=> ByWorker(v, z) \/ (v = w /\ z = s)
            /\ FreeByWorker(v, z)' <=> FreeByWorker(v, z)
      BY <1>6, <2>3, <3>1 DEF AssignWorkerToNextSequence
    <3>3. \A v \in Workers : wk'[v].pc \in {"run", "drain"} => wk'[v] = wk[v]
      BY <1>6, <2>3 DEF AssignWorkerToNextSequence
    <3> HIDE DEF s, TypeOK, ByWorker, FreeByWorker
    <3>4. \A z \in Sequences : (One(z) /\ OpenHasWork(z) /\ Known(z))'
      BY <2>1, <3>1, <3>2
    <3>5. ~pool_shutdown' => \A z \in Sequences : Recycling(z)'
      BY <2>1, <3>1, <3>2
    <3>6. QED
      BY <2>1, <3>1, <3>3, <3>4, <3>5
  <2>4. QED
    BY <1>6, <2>2, <2>3 DEF AssignWorkerToNextSequence, NoSequenceWaiting
<1>7. QED
  BY <1>1, <1>2, <1>3, <1>4, <1>5, <1>6 DEF WorkerStep

LEMMA StopDispatch ==
  ASSUME TypeInv, DispatchInv, InitiateShutDown \/ StopStep PROVE DispatchInv'
<1> USE DEF TypeInv, TypeOK, PointersOK, DispatchInv, One, OpenHasWork, Known, Recycling,
        FreedOnce, Dispatched, Freed, ByClient, ByWorker, FreeByClient, FreeByWorker,
        poolVars, seqVars, Thread
<1>1. CASE InitiateShutDown
  BY <1>1 DEF InitiateShutDown
<1>2. ASSUME NEW s \in Sequences, InitiateSequenceShutDown(s) PROVE DispatchInv'
  BY <1>2 DEF InitiateSequenceShutDown, SetShutDown
<1>3. ASSUME NEW s \in Sequences, WaitForShutDown(s) PROVE DispatchInv'
  BY <1>3 DEF WaitForShutDown
<1>4. CASE WaitForShutDownComplete
  BY <1>4 DEF WaitForShutDownComplete
<1>5. CASE DrainSequence
  <2>1. /\ stop.seq \in Sequences /\ shutdown[stop.seq] /\ pool_shutdown
        /\ UNCHANGED <<poolVars, active, shutdown, pool, max_queue_size, live, call, wk,
                       inbox>>
    BY <1>5 DEF DrainSequence
  <2>2. CASE CancelOldest(stop.seq) /\ UNCHANGED stop
    <3>1. \A z \in Sequences : z # stop.seq => work_queue'[z] = work_queue[z]
      BY <2>1, <2>2 DEF CancelOldest
    <3>2. QED
      BY <2>1, <2>2, <3>1, SMTT(30)
  <2>3. CASE /\ stop' = [stop EXCEPT !.pc = "wait", !.seq = None]
             /\ UNCHANGED <<work_queue, fstate>>
    BY <2>1, <2>3
  <2>4. QED
    BY <1>5, <2>2, <2>3 DEF DrainSequence
<1>6. CASE AllSequencesDown
  BY <1>6 DEF AllSequencesDown
<1>7. ASSUME NEW w \in Workers, ShutDownWorker(w) PROVE DispatchInv'
  BY <1>7 DEF ShutDownWorker
<1>8. ASSUME NEW w \in Workers, DeleteWorker(w) PROVE DispatchInv'
  BY <1>8, PoolAssumption DEF DeleteWorker
<1>9. CASE ShutDownDone
  BY <1>9 DEF ShutDownDone
<1>10. QED
  BY <1>1, <1>2, <1>3, <1>4, <1>5, <1>6, <1>7, <1>8, <1>9 DEF StopStep

LEMMA DispatchNext ==
  ASSUME SerialUse PROVE TypeInv /\ DispatchInv /\ [Next]_vars => DispatchInv'
<1> SUFFICES ASSUME TypeInv, DispatchInv, [Next]_vars PROVE DispatchInv'
  OBVIOUS
<1>1. CASE UNCHANGED vars
  BY <1>1
  DEF DispatchInv, One, OpenHasWork, Known, Recycling, FreedOnce, Dispatched, Freed,
      ByClient, ByWorker, FreeByClient, FreeByWorker, vars, poolVars, seqVars
<1>2. QED
  BY <1>1, ClientStartDispatch, ClientStepDispatch, WorkerStepDispatch, StopDispatch
  DEF Next

LEMMA DispatchInvariance == ASSUME SerialUse PROVE Spec => []DispatchInv
  BY DispatchInit, DispatchNext, TypeInvariance, PTL DEF Spec

\* For any number of threads, sequences, functions and workers, a sequence is
\* dispatched at most once at a time, as long as clients do not use
\* CancelPendingFunctions, load shedding is off and no queue is bounded by one.
THEOREM DispatchedAtMostOnce == ASSUME SerialUse PROVE Spec => []OneDispatch
<1>1. DispatchInv => OneDispatch
  <2> SUFFICES ASSUME DispatchInv, NEW s \in Sequences,
                      NEW a \in Dispatches(s), NEW b \in Dispatches(s)
               PROVE  a = b
    BY DEF OneDispatch
  <2> USE DEF DispatchInv, One, ByClient, ByWorker, NoRepeat, Ranged
  <2>1. ASSUME NEW x \in Dispatches(s)
        PROVE  \/ \E c \in Clients : x = <<"client", c>> /\ ByClient(c, s)
               \/ \E i \in DOMAIN queued_sequences :
                    x = <<"deque", i>> /\ queued_sequences[i] = s
               \/ \E w \in Workers : x = <<"tasks", w>> /\ inbox[w] = s
               \/ \E w \in Workers : x = <<"worker", w>> /\ ByWorker(w, s)
    BY <2>1 DEF Dispatches
  <2>2. QED
    BY <2>1
<1>2. QED
  BY <1>1, DispatchInvariance, PTL

\* Under the same use, functions added to a sequence never run on two workers
\* at once.
THEOREM RunsSequentially == ASSUME SerialUse PROVE Spec => []SequentialExecution
<1>1. DispatchInv => SequentialExecution
  BY DEF DispatchInv, One, ByWorker, SequentialExecution, Running
<1>2. QED
  BY <1>1, DispatchInvariance, PTL

\* Under the same use, a sequence that AreBusy reports idle has no function
\* in the middle of its run.
THEOREM IdleMeansIdle == ASSUME SerialUse PROVE Spec => []BusyIsVisible
<1>1. DispatchInv => BusyIsVisible
  BY DEF DispatchInv, BusyIsVisible, Running
<1>2. QED
  BY <1>1, DispatchInvariance, PTL

-----------------------------------------------------------------------------
(* One owner.  For every use of the interface, also those under which a     *)
(* sequence is dispatched twice: a queued function is in one place of one   *)
(* queue, a running one is run by one worker.                               *)

OwnedByQueue ==
  /\ \A s \in Sequences : NoRepeat(work_queue[s])
  /\ \A s, t \in Sequences : s # t => Ranged(work_queue[s]) \cap Ranged(work_queue[t]) = {}
  /\ \A f \in Functions :
       fstate[f] = "queued" <=> \E s \in Sequences : f \in Ranged(work_queue[s])

OwnedByWorker ==
  /\ \A w \in Workers :
       wk[w].pc = "run" => wk[w].fn \in Functions /\ fstate[wk[w].fn] = "running"
  /\ \A v, w \in Workers :
       wk[v].pc = "run" /\ wk[w].pc = "run" /\ wk[v].fn = wk[w].fn => v = w
  /\ \A f \in Functions :
       fstate[f] = "running" => \E w \in Workers : wk[w].pc = "run" /\ wk[w].fn = f

OwnInv == OwnedByQueue /\ OwnedByWorker

LEMMA OwnInit == Init => OwnInv
<1> SUFFICES ASSUME Init PROVE OwnInv
  OBVIOUS
<1>1. \A s \in Sequences : Ranged(work_queue[s]) = {} /\ NoRepeat(work_queue[s])
  BY DEF Init, Ranged, NoRepeat
<1>2. \A w \in Workers : wk[w].pc = "none"
  BY DEF Init, Thread
<1>3. \A f \in Functions : fstate[f] = "new"
  BY DEF Init
<1>4. QED
  BY <1>1, <1>2, <1>3 DEF OwnInv, OwnedByQueue, OwnedByWorker

\* No function starts or ends, and the runs are those of before.
RunsStay ==
  /\ \A w \in Workers : wk[w].pc = "run" => wk'[w].pc = "run" /\ wk'[w].fn = wk[w].fn
  /\ \A w \in Workers : wk'[w].pc = "run" => wk[w].pc = "run"

LEMMA OwnersStay ==
  ASSUME OwnInv, work_queue' = work_queue, fstate' = fstate, RunsStay
  PROVE  OwnInv'
<1>1. OwnedByQueue'
  BY DEF OwnInv, OwnedByQueue
<1>2. OwnedByWorker'
  BY DEF OwnInv, OwnedByWorker, RunsStay
<1>3. QED
  BY <1>1, <1>2 DEF OwnInv

\* A worker's runs are not disturbed by what becomes of queued and new functions.
LEMMA RunsOwned ==
  ASSUME TypeInv, OwnInv, RunsStay,
         \A f \in Functions : fstate[f] = "running" <=> fstate'[f] = "running"
  PROVE  OwnedByWorker'
<1>1. \A w \in Workers : wk'[w].pc = "run" => wk'[w].fn \in Functions /\ fstate'[wk'[w].fn] = "running"
  BY DEF OwnInv, OwnedByWorker, RunsStay
<1>2. \A v, w \in Workers :
        wk'[v].pc = "run" /\ wk'[w].pc = "run" /\ wk'[v].fn = wk'[w].fn => v = w
  BY DEF OwnInv, OwnedByWorker, RunsStay
<1>3. \A f \in Functions :
        fstate'[f] = "running" => \E w \in Workers : wk'[w].pc = "run" /\ wk'[w].fn = f
  BY DEF OwnInv, OwnedByWorker, RunsStay
<1>4. QED
  BY <1>1, <1>2, <1>3 DEF OwnedByWorker

\* The oldest function of a queue leaves it.
LEMMA OldestLeaves ==
  ASSUME TypeInv, OwnInv, NEW s \in Sequences, work_queue[s] # <<>>,
         work_queue' = [work_queue EXCEPT ![s] = Tail(@)],
         NEW v \in {"canceled", "running"},
         fstate' = [fstate EXCEPT ![Head(work_queue[s])] = v]
  PROVE  /\ OwnedByQueue' /\ Head(work_queue[s]) \in Functions
         /\ fstate[Head(work_queue[s])] = "queued"
<1> DEFINE h == Head(work_queue[s])
<1>1. /\ work_queue \in [Sequences -> Seq(Functions)] /\ fstate \in [Functions -> FunctionStates]
      /\ work_queue[s] \in Seq(Functions) /\ NoRepeat(work_queue[s])
  BY DEF TypeInv, TypeOK, OwnInv, OwnedByQueue
<1>2. /\ h \in Ranged(work_queue[s])
      /\ Ranged(Tail(work_queue[s])) = Ranged(work_queue[s]) \ {h}
      /\ NoRepeat(Tail(work_queue[s]))
  BY <1>1, PopFrontRange
<1>3. h \in Functions
  BY <1>1
<1>4. /\ work_queue'[s] = Tail(work_queue[s])
      /\ \A t \in Sequences : t # s => work_queue'[t] = work_queue[t]
      /\ fstate'[h] = v /\ \A f \in Functions : f # h => fstate'[f] = fstate[f]
  BY <1>1, <1>3
<1> HIDE DEF h
<1>5. fstate[h] = "queued"
  BY <1>2, <1>3 DEF OwnInv, OwnedByQueue
<1>6. \A t \in Sequences : NoRepeat(work_queue'[t])
  BY <1>2, <1>4 DEF OwnInv, OwnedByQueue
<1>7. \A r, t \in Sequences : r # t => Ranged(work_queue'[r]) \cap Ranged(work_queue'[t]) = {}
  BY <1>2, <1>4 DEF OwnInv, OwnedByQueue
<1>8. ASSUME NEW f \in Functions
      PROVE  fstate'[f] = "queued" <=> \E t \in Sequences : f \in Ranged(work_queue'[t])
  <2>1. CASE f = h
    <3>1. \A t \in Sequences : h \notin Ranged(work_queue'[t])
      BY <1>2, <1>4 DEF OwnInv, OwnedByQueue
    <3>2. QED
      BY <1>4, <2>1, <3>1
  <2>2. CASE f # h
    <3>1. \A t \in Sequences : f \in Ranged(work_queue'[t]) <=> f \in Ranged(work_queue[t])
      BY <1>2, <1>4, <2>2
    <3>2. QED
      BY <1>4, <2>2, <3>1 DEF OwnInv, OwnedByQueue
  <2>3. QED
    BY <2>1, <2>2
<1>9. OwnedByQueue'
  BY <1>6, <1>7, <1>8 DEF OwnedByQueue
<1>10. QED
  BY <1>3, <1>5, <1>9 DEF h

LEMMA CancelOldestOwn ==
  ASSUME TypeInv, OwnInv, NEW s \in Sequences, CancelOldest(s), RunsStay
  PROVE  OwnInv'
<1>1. OwnedByQueue' /\ Head(work_queue[s]) \in Functions /\ fstate[Head(work_queue[s])] = "queued"
  BY OldestLeaves DEF CancelOldest
<1>2. \A f \in Functions : fstate[f] = "running" <=> fstate'[f] = "running"
  BY <1>1 DEF CancelOldest, TypeInv, TypeOK
<1>3. QED
  BY <1>1, <1>2, RunsOwned DEF OwnInv

LEMMA AddOwn ==
  ASSUME TypeInv, OwnInv, NEW c \in Clients, NEW s \in Sequences, NEW f \in Functions, Add(c, s, f)
  PROVE  OwnInv'
<1>1. /\ work_queue \in [Sequences -> Seq(Functions)] /\ fstate \in [Functions -> FunctionStates]
      /\ work_queue[s] \in Seq(Functions) /\ max_queue_size[s] \in Nat
  BY DEF TypeInv, TypeOK
<1>2. RunsStay /\ fstate[f] = "new"
  BY DEF Add, RunsStay
<1>3. \A t \in Sequences : f \notin Ranged(work_queue[t])
  BY <1>2 DEF OwnInv, OwnedByQueue
<1>4. CASE shutdown[s]
  <2>1. work_queue' = work_queue /\ fstate' = [fstate EXCEPT ![f] = "canceled"]
    BY <1>4 DEF Add
  <2>2. \A g \in Functions : (fstate'[g] = "queued" <=> fstate[g] = "queued")
                             /\ (fstate[g] = "running" <=> fstate'[g] = "running")
    BY <1>1, <1>2, <2>1
  <2>3. OwnedByQueue'
    BY <2>1, <2>2 DEF OwnInv, OwnedByQueue
  <2>4. QED
    BY <1>2, <2>2, <2>3, RunsOwned DEF OwnInv
<1>5. CASE ~shutdown[s]
  <2> DEFINE q == work_queue[s]
             kept == IF Overflows(s) THEN Tail(q) ELSE q
             out == IF Overflows(s) THEN {Head(q)} ELSE {}
  <2>1. /\ work_queue' = [work_queue EXCEPT ![s] = Append(kept, f)]
        /\ fstate' = [g \in Functions |->
                        IF g = f THEN "queued" ELSE IF g \in out THEN "canceled" ELSE fstate[g]]
    BY <1>5 DEF Add, PushBack
  <2>2. /\ kept \in Seq(Functions) /\ NoRepeat(kept)
        /\ Ranged(kept) = Ranged(q) \ out /\ out \subseteq Ranged(q)
    <3>1. NoRepeat(q) /\ q \in Seq(Functions)
      BY <1>1 DEF OwnInv, OwnedByQueue
    <3>2. CASE Overflows(s)
      <4>1. q # <<>>
        BY <1>1, <3>2 DEF Overflows, kUnboundedQueue
      <4> HIDE DEF q
      <4>2. /\ Head(q) \in Ranged(q) /\ Ranged(Tail(q)) = Ranged(q) \ {Head(q)}
            /\ NoRepeat(Tail(q)) /\ Tail(q) \in Seq(Functions)
        BY <3>1, <4>1, PopFrontRange, HeadTailProperties
      <4>3. QED
        BY <3>2, <4>2
    <3>3. CASE ~Overflows(s)
      <4> HIDE DEF q
      <4>1. QED
        BY <3>1, <3>3
    <3>4. QED
      BY <3>2, <3>3
  <2> HIDE DEF kept, out
  <2>3. f \notin Ranged(q)
    BY <1>3
  <2>4. NoRepeat(Append(kept, f)) /\ Ranged(Append(kept, f)) = Ranged(kept) \cup {f}
    BY <2>2, <2>3, PushBackRange
  <2>5. /\ work_queue'[s] = Append(kept, f)
        /\ \A t \in Sequences : t # s => work_queue'[t] = work_queue[t]
    BY <1>1, <2>1
  <2>6. /\ Ranged(work_queue'[s]) = (Ranged(q) \ out) \cup {f}
        /\ NoRepeat(work_queue'[s])
    BY <2>2, <2>4, <2>5
  <2>7. \A g \in out : g \in Functions /\ fstate[g] = "queued"
    <3>1. \A g \in Ranged(q) : g \in Functions
      BY <1>1 DEF Ranged
    <3>2. QED
      BY <2>2, <3>1 DEF OwnInv, OwnedByQueue
  <2>8. \A t \in Sequences : NoRepeat(work_queue'[t])
    BY <2>5, <2>6 DEF OwnInv, OwnedByQueue
  <2>9. \A r, t \in Sequences : r # t => Ranged(work_queue'[r]) \cap Ranged(work_queue'[t]) = {}
    <3>1. \A r, t \in Sequences : r # t => Ranged(work_queue[r]) \cap Ranged(work_queue[t]) = {}
      BY DEF OwnInv, OwnedByQueue
    <3>2. \A t \in Sequences : t # s => Ranged(work_queue'[s]) \cap Ranged(work_queue[t]) = {}
      BY <1>3, <2>6, <3>1
    <3>3. SUFFICES ASSUME NEW r \in Sequences, NEW t \in Sequences, r # t
                   PROVE  Ranged(work_queue'[r]) \cap Ranged(work_queue'[t]) = {}
      OBVIOUS
    <3>4. CASE r = s
      BY <2>5, <3>2, <3>3, <3>4
    <3>5. CASE t = s
      BY <2>5, <3>2, <3>3, <3>5
    <3>6. CASE r # s /\ t # s
      BY <2>5, <3>1, <3>3, <3>6
    <3>7. QED
      BY <3>4, <3>5, <3>6
  <2>10. ASSUME NEW g \in Functions
         PROVE  fstate'[g] = "queued" <=> \E t \in Sequences : g \in Ranged(work_queue'[t])
    <3>1. CASE g = f
      BY <2>1, <2>6, <3>1
    <3>2. CASE g # f /\ g \in out
      <4>1. fstate'[g] = "canceled"
        BY <2>1, <3>2
      <4>2. \A t \in Sequences : t # s => g \notin Ranged(work_queue[t])
        BY <2>2, <3>2 DEF OwnInv, OwnedByQueue
      <4>3. \A t \in Sequences : g \notin Ranged(work_queue'[t])
        <5>1. g \notin Ranged(work_queue'[s])
          BY <2>6, <3>2
        <5>2. QED
          BY <2>5, <4>2, <5>1
      <4>4. QED
        BY <4>1, <4>3
    <3>3. CASE g # f /\ g \notin out
      <4>1. fstate'[g] = fstate[g]
        BY <2>1, <3>3
      <4>2. \A t \in Sequences : g \in Ranged(work_queue'[t]) <=> g \in Ranged(work_queue[t])
        BY <2>5, <2>6, <3>3
      <4>3. QED
        BY <4>1, <4>2 DEF OwnInv, OwnedByQueue
    <3>4. QED
      BY <3>1, <3>2, <3>3
  <2>11. \A g \in Functions : fstate[g] = "running" <=> fstate'[g] = "running"
    BY <1>2, <2>1, <2>7
  <2>12. OwnedByQueue'
    BY <2>8, <2>9, <2>10 DEF OwnedByQueue
  <2>13. QED
    BY <1>2, <2>11, <2>12, RunsOwned DEF OwnInv
<1>6. QED
  BY <1>4, <1>5

LEMMA CancelPendingOwn ==
  ASSUME TypeInv, OwnInv, NEW s \in Sequences, CancelPendingFunctions(s)
  PROVE  OwnInv'
<1>1. /\ work_queue \in [Sequences -> Seq(Functions)] /\ fstate \in [Functions -> FunctionStates]
  BY DEF TypeInv, TypeOK
<1>2. /\ work_queue' = [work_queue EXCEPT ![s] = <<>>] /\ RunsStay
      /\ fstate' = [f \in Functions |->
                      IF \E i \in DOMAIN work_queue[s] : work_queue[s][i] = f
                      THEN "canceled" ELSE fstate[f]]
  BY DEF CancelPendingFunctions, RunsStay
<1>3. \A f \in Functions :
        fstate'[f] = (IF f \in Ranged(work_queue[s]) THEN "canceled" ELSE fstate[f])
  <2>1. \A f : f \in Ranged(work_queue[s]) <=> \E i \in DOMAIN work_queue[s] : work_queue[s][i] = f
    BY DEF Ranged
  <2>2. QED
    BY <1>2, <2>1
<1>4. /\ Ranged(work_queue'[s]) = {} /\ NoRepeat(work_queue'[s])
      /\ \A t \in Sequences : t # s => work_queue'[t] = work_queue[t]
  <2>1. Ranged(<<>>) = {} /\ NoRepeat(<<>>)
    BY DEF Ranged, NoRepeat
  <2>2. work_queue'[s] = <<>> /\ \A t \in Sequences : t # s => work_queue'[t] = work_queue[t]
    BY <1>1, <1>2
  <2>3. QED
    BY <2>1, <2>2, Zenon
<1>5. /\ \A t \in Sequences : NoRepeat(work_queue'[t])
      /\ \A r, t \in Sequences : r # t => Ranged(work_queue'[r]) \cap Ranged(work_queue'[t]) = {}
  BY <1>4 DEF OwnInv, OwnedByQueue
<1>6. ASSUME NEW f \in Functions
      PROVE  fstate'[f] = "queued" <=> \E t \in Sequences : f \in Ranged(work_queue'[t])
  <2>1. CASE f \in Ranged(work_queue[s])
    <3>1. \A t \in Sequences : f \notin Ranged(work_queue'[t])
      BY <1>4, <2>1 DEF OwnInv, OwnedByQueue
    <3>2. QED
      BY <1>3, <2>1, <3>1
  <2>2. CASE f \notin Ranged(work_queue[s])
    <3>1. \A t \in Sequences : f \in Ranged(work_queue'[t]) <=> f \in Ranged(work_queue[t])
      BY <1>4, <2>2
    <3>2. QED
      BY <1>3, <2>2, <3>1 DEF OwnInv, OwnedByQueue
  <2>3. QED
    BY <2>1, <2>2
<1>7. \A f \in Functions : fstate[f] = "running" <=> fstate'[f] = "running"
  BY <1>3 DEF OwnInv, OwnedByQueue
<1>8. QED
  BY <1>2, <1>5, <1>6, <1>7, RunsOwned DEF OwnInv, OwnedByQueue

LEMMA WindDownOwn ==
  ASSUME TypeInv, OwnInv, NEW w \in Workers, NEW s \in Sequences, NEW b \in BOOLEAN,
         wk[w].pc # "run", WindDown(w, s, b)
  PROVE  OwnInv'
<1>1. \/ wk' = [wk EXCEPT ![w] = Thread("release", s, None)]
      \/ wk' = [wk EXCEPT ![w] = Thread("assign", None, None)]
  BY DEF WindDown, Releasing
<1>2. wk \in [Workers -> [pc : WorkerStates, seq : Sequences \cup {None},
                           fn : Functions \cup {None}]]
  BY DEF TypeInv, TypeOK
<1>3. wk'[w].pc # "run" /\ \A v \in Workers : v # w => wk'[v] = wk[v]
  BY <1>1, <1>2 DEF Thread
<1>4. RunsStay
  BY <1>3 DEF RunsStay
<1>5. QED
  BY <1>4, OwnersStay DEF WindDown

LEMMA NextFunctionOwn ==
  ASSUME TypeInv, OwnInv, NEW w \in Workers, NextFunction(w)
  PROVE  OwnInv'
<1> DEFINE s == wk[w].seq
<1>1. s \in Sequences /\ wk[w].pc = "next" /\ wk \in [Workers -> [pc : WorkerStates,
        seq : Sequences \cup {None}, fn : Functions \cup {None}]]
  BY DEF NextFunction, TypeInv, PointersOK, TypeOK
<1>2. CASE shutdown[s] /\ WindDown(w, s, FALSE)
  BY <1>1, <1>2, WindDownOwn
<1>3. CASE CancelOldest(s) /\ wk' = [wk EXCEPT ![w] = Thread("drain", s, None)]
  <2>1. RunsStay
    BY <1>1, <1>3 DEF RunsStay, Thread
  <2>2. QED
    BY <1>1, <1>3, <2>1, CancelOldestOwn
<1>4. CASE /\ wk' = [wk EXCEPT ![w] = Thread("assign", None, None)]
           /\ UNCHANGED <<work_queue, fstate>>
  <2>1. RunsStay
    BY <1>1, <1>4 DEF RunsStay, Thread
  <2>2. QED
    BY <1>4, <2>1, OwnersStay
<1>5. CASE /\ work_queue[s] # <<>>
           /\ PopFront(s)
           /\ fstate' = [fstate EXCEPT ![Head(work_queue[s])] = "running"]
           /\ wk' = [wk EXCEPT ![w] = Thread("run", s, Head(work_queue[s]))]
  <2> DEFINE h == Head(work_queue[s])
  <2>1. OwnedByQueue' /\ h \in Functions /\ fstate[h] = "queued"
    BY <1>1, <1>5, OldestLeaves DEF PopFront
  <2>2. /\ fstate'[h] = "running" /\ \A f \in Functions : f # h => fstate'[f] = fstate[f]
    BY <1>5, <2>1 DEF TypeInv, TypeOK
  <2>3. /\ wk'[w].pc = "run" /\ wk'[w].fn = h
        /\ \A v \in Workers : v # w => wk'[v] = wk[v]
    <3> HIDE DEF h, s
    <3>1. wk' = [wk EXCEPT ![w] = Thread("run", s, h)]
      BY <1>5 DEF h, s
    <3>2. QED
      BY <1>1, <3>1 DEF Thread
  <2> HIDE DEF h, s
  <2>4. \A v \in Workers : wk[v].pc = "run" => v # w /\ wk[v].fn \in Functions /\ wk[v].fn # h
    BY <1>1, <2>1 DEF OwnInv, OwnedByWorker
  <2>5. \A v \in Workers : wk'[v].pc = "run" =>
          wk'[v].fn \in Functions /\ fstate'[wk'[v].fn] = "running"
    BY <2>1, <2>2, <2>3, <2>4 DEF OwnInv, OwnedByWorker
  <2>6. \A u, v \in Workers :
          wk'[u].pc = "run" /\ wk'[v].pc = "run" /\ wk'[u].fn = wk'[v].fn => u = v
    BY <2>3, <2>4 DEF OwnInv, OwnedByWorker
  <2>7. ASSUME NEW f \in Functions, fstate'[f] = "running"
        PROVE  \E v \in Workers : wk'[v].pc = "run" /\ wk'[v].fn = f
    <3>1. CASE f = h
      BY <2>3, <3>1
    <3>2. CASE f # h
      <4>1. PICK v \in Workers : wk[v].pc = "run" /\ wk[v].fn = f
        BY <2>2, <2>7, <3>2 DEF OwnInv, OwnedByWorker
      <4>2. QED
        BY <2>3, <2>4, <4>1
    <3>3. QED
      BY <3>1, <3>2
  <2>8. QED
    BY <2>1, <2>5, <2>6, <2>7 DEF OwnInv, OwnedByWorker
<1>6. QED
  BY <1>2, <1>3, <1>4, <1>5 DEF NextFunction

LEMMA RunDoneOwn ==
  ASSUME TypeInv, OwnInv, NEW w \in Workers, RunDone(w)
  PROVE  OwnInv'
<1> DEFINE h == wk[w].fn
<1>1. /\ wk[w].pc = "run" /\ h \in Functions /\ fstate[h] = "running"
      /\ fstate \in [Functions -> FunctionStates]
  BY DEF RunDone, OwnInv, OwnedByWorker, TypeInv, TypeOK
<1>2. /\ fstate'[h] = "ran" /\ \A f \in Functions : f # h => fstate'[f] = fstate[f]
      /\ work_queue' = work_queue
  BY <1>1 DEF RunDone, seqVars
<1>3. /\ wk'[w].pc = "next" /\ \A v \in Workers : v # w => wk'[v] = wk[v]
  BY DEF RunDone, Thread, TypeInv, TypeOK
<1>4. \A v \in Workers : v # w /\ wk[v].pc = "run" => wk[v].fn # h
  BY <1>1 DEF OwnInv, OwnedByWorker
<1> HIDE DEF h
<1>5. OwnedByQueue'
  <2>1. \A f \in Functions : fstate'[f] = "queued" <=> fstate[f] = "queued"
    BY <1>1, <1>2
  <2>2. QED
    BY <1>2, <2>1 DEF OwnInv, OwnedByQueue
<1>6. OwnedByWorker'
  <2>1. \A v \in Workers : wk'[v].pc = "run" => v # w /\ wk'[v] = wk[v]
    BY <1>3
  <2>2. \A v \in Workers : wk'[v].pc = "run" =>
          wk'[v].fn \in Functions /\ fstate'[wk'[v].fn] = "running"
    BY <1>2, <1>4, <2>1 DEF OwnInv, OwnedByWorker
  <2>3. \A u, v \in Workers :
          wk'[u].pc = "run" /\ wk'[v].pc = "run" /\ wk'[u].fn = wk'[v].fn => u = v
    BY <2>1 DEF OwnInv, OwnedByWorker
  <2>4. ASSUME NEW f \in Functions, fstate'[f] = "running"
        PROVE  \E v \in Workers : wk'[v].pc = "run" /\ wk'[v].fn = f
    <3>1. f # h /\ fstate[f] = "running"
      BY <1>2, <2>4
    <3>2. PICK v \in Workers : wk[v].pc = "run" /\ wk[v].fn = f
      BY <3>1 DEF OwnInv, OwnedByWorker
    <3>3. v # w
      BY <3>1, <3>2 DEF h
    <3>4. QED
      BY <1>3, <3>2, <3>3
  <2>5. QED
    BY <2>2, <2>3, <2>4 DEF OwnedByWorker
<1>7. QED
  BY <1>5, <1>6 DEF OwnInv

LEMMA WorkerStepOwn ==
  ASSUME TypeInv, OwnInv, NEW w \in Workers, WorkerStep(w)
  PROVE  OwnInv'
<1>1. wk \in [Workers -> [pc : WorkerStates, seq : Sequences \cup {None},
                          fn : Functions \cup {None}]]
  BY DEF TypeInv, TypeOK
<1>2. CASE GetNextTask(w)
  <2>1. RunsStay
    BY <1>1, <1>2 DEF GetNextTask, RunsStay, Thread
  <2>2. QED
    BY <1>2, <2>1, OwnersStay DEF GetNextTask, seqVars
<1>3. CASE DrainShutDown(w)
  <2> DEFINE s == wk[w].seq
  <2>1. s \in Sequences /\ wk[w].pc = "drain"
    BY <1>3 DEF DrainShutDown, TypeInv, PointersOK
  <2>2. CASE CancelOldest(s) /\ UNCHANGED wk
    BY <2>1, <2>2, CancelOldestOwn DEF RunsStay
  <2>3. CASE WindDown(w, s, TRUE)
    BY <2>1, <2>3, WindDownOwn
  <2>4. QED
    BY <1>3, <2>2, <2>3 DEF DrainShutDown
<1>4. CASE SequenceNoLongerActive(w)
  <2>1. RunsStay
    BY <1>1, <1>4 DEF SequenceNoLongerActive, RunsStay, Thread
  <2>2. QED
    BY <1>4, <2>1, OwnersStay DEF SequenceNoLongerActive, seqVars
<1>5. CASE AssignWorkerToNextSequence(w)
  <2>1. RunsStay
    BY <1>1, <1>5 DEF AssignWorkerToNextSequence, RunsStay, Thread, Parked
  <2>2. QED
    BY <1>5, <2>1, OwnersStay DEF AssignWorkerToNextSequence, seqVars
<1>6. QED
  BY <1>2, <1>3, <1>4, <1>5, NextFunctionOwn, RunDoneOwn DEF WorkerStep

LEMMA ClientStepOwn ==
  ASSUME TypeInv, OwnInv, NEW c \in Clients, ClientStep(c)
  PROVE  OwnInv'
<1>1. wk \in [Workers -> [pc : WorkerStates, seq : Sequences \cup {None},
                          fn : Functions \cup {None}]]
  BY DEF TypeInv, TypeOK
<1>2. ASSUME NEW w \in Workers, QueueToWorker(c, w)
      PROVE  OwnInv'
  <2>1. RunsStay
    <3>1. CASE wk' = wk
      BY <3>1 DEF RunsStay
    <3>2. CASE wk[w].pc = "none" /\ wk' = [wk EXCEPT ![w] = Parked]
      BY <1>1, <3>2 DEF RunsStay, Parked, Thread
    <3>3. QED
      BY <1>2, <3>1, <3>2 DEF QueueToWorker
  <2>2. QED
    BY <1>2, <2>1, OwnersStay DEF QueueToWorker, seqVars
<1>3. CASE Cancel(c)
  <2>1. call[c].seq \in Sequences /\ RunsStay
    BY <1>3 DEF Cancel, TypeInv, PointersOK, RunsStay
  <2>2. CASE CancelOldest(call[c].seq)
    BY <2>1, <2>2, CancelOldestOwn
  <2>3. CASE UNCHANGED <<work_queue, fstate>>
    BY <2>1, <2>3, OwnersStay
  <2>4. QED
    BY <1>3, <2>2, <2>3 DEF Cancel
<1>4. CASE QueueToWait(c) \/ QueueWithoutPool(c) \/ RunInWorkThread(c) \/ RecycleFreed(c)
  <2>1. wk' = wk /\ work_queue' = work_queue /\ fstate' = fstate
    BY <1>4 DEF QueueToWait, QueueWithoutPool, RunInWorkThread, RecycleFreed, seqVars
  <2>2. RunsStay
    BY <2>1 DEF RunsStay
  <2>3. QED
    BY <2>1, <2>2, OwnersStay
<1>5. QED
  BY <1>2, <1>3, <1>4 DEF ClientStep

LEMMA ClientStartOwn ==
  ASSUME TypeInv, OwnInv, ClientStart
  PROVE  OwnInv'
<1>1. ASSUME wk' = wk, work_queue' = work_queue, fstate' = fstate
      PROVE  OwnInv'
  <2>1. RunsStay
    BY <1>1 DEF RunsStay
  <2>2. QED
    BY <1>1, <2>1, OwnersStay
<1>2. ASSUME NEW s \in Sequences, NewSequence(s)
      PROVE  OwnInv'
  BY <1>1, <1>2 DEF NewSequence, Reset
<1>3. ASSUME NEW s \in Sequences, NEW x \in QueueBounds, set_max_queue_size(s, x)
      PROVE  OwnInv'
  BY <1>1, <1>3 DEF set_max_queue_size
<1>4. ASSUME NEW c \in Clients, NEW s \in Sequences, FreeSequence(c, s)
      PROVE  OwnInv'
  BY <1>1, <1>4 DEF FreeSequence
<1>5. QED
  BY <1>2, <1>3, <1>4, AddOwn, CancelPendingOwn DEF ClientStart

LEMMA StopOwn ==
  ASSUME TypeInv, OwnInv, InitiateShutDown \/ StopStep
  PROVE  OwnInv'
<1>1. ASSUME RunsStay, work_queue' = work_queue, fstate' = fstate
      PROVE  OwnInv'
  BY <1>1, OwnersStay
<1>2. CASE DrainSequence
  <2>1. stop.seq \in Sequences /\ RunsStay
    BY <1>2 DEF DrainSequence, TypeInv, PointersOK, RunsStay
  <2>2. CASE CancelOldest(stop.seq)
    BY <2>1, <2>2, CancelOldestOwn
  <2>3. CASE UNCHANGED <<work_queue, fstate>>
    BY <1>1, <2>1, <2>3
  <2>4. QED
    BY <1>2, <2>2, <2>3 DEF DrainSequence
<1>3. ASSUME NEW w \in Workers, DeleteWorker(w)
      PROVE  OwnInv'
  <2>1. RunsStay
    BY <1>3 DEF DeleteWorker, RunsStay, Thread, TypeInv, TypeOK
  <2>2. QED
    BY <1>1, <1>3, <2>1 DEF DeleteWorker, seqVars
<1>4. ASSUME wk' = wk, work_queue' = work_queue, fstate' = fstate
      PROVE  OwnInv'
  BY <1>1, <1>4 DEF RunsStay
<1>5. CASE InitiateShutDown \/ WaitForShutDownComplete \/ AllSequencesDown \/ ShutDownDone
  BY <1>4, <1>5 DEF InitiateShutDown, WaitForShutDownComplete, AllSequencesDown, ShutDownDone,
     seqVars
<1>6. ASSUME NEW s \in Sequences, InitiateSequenceShutDown(s) \/ WaitForShutDown(s)
      PROVE  OwnInv'
  BY <1>4, <1>6 DEF InitiateSequenceShutDown, WaitForShutDown
<1>7. ASSUME NEW w \in Workers, ShutDownWorker(w)
      PROVE  OwnInv'
  BY <1>4, <1>7 DEF ShutDownWorker, seqVars
<1>8. QED
  BY <1>2, <1>3, <1>5, <1>6, <1>7 DEF StopStep

LEMMA OwnInvariance == Spec => []OwnInv
<1>1. TypeInv /\ OwnInv /\ [Next]_vars => OwnInv'
  <2> SUFFICES ASSUME TypeInv, OwnInv, [Next]_vars PROVE OwnInv'
    OBVIOUS
  <2>1. CASE UNCHANGED vars
    <3>1. RunsStay
      BY <2>1 DEF RunsStay, vars
    <3>2. QED
      BY <2>1, <3>1, OwnersStay DEF vars, seqVars
  <2>2. QED
    BY <2>1, ClientStartOwn, ClientStepOwn, WorkerStepOwn, StopOwn DEF Next
<1>2. QED
  BY <1>1, OwnInit, TypeInvariance, PTL DEF Spec

\* Every function that is neither run nor canceled has one owner, a place in
\* one queue or one worker, for every use of the interface.
THEOREM OneOwner == Spec => []Ownership
<1>1. TypeInv /\ OwnInv => Ownership
  <2> SUFFICES ASSUME TypeInv, OwnInv, NEW f \in Functions
               PROVE  /\ fstate[f] = "queued" <=> Places(f) # {}
                      /\ fstate[f] = "running" <=> Runners(f) # {}
                      /\ \A a, b \in Places(f) : a = b
                      /\ \A v, w \in Runners(f) : v = w
    BY DEF Ownership
  <2>1. \A a : a \in Places(f) <=> \E s \in Sequences : \E i \in DOMAIN work_queue[s] :
                                     work_queue[s][i] = f /\ a = <<s, i>>
    BY DEF Places
  <2>2. Places(f) # {} <=> \E s \in Sequences : f \in Ranged(work_queue[s])
    BY <2>1 DEF Ranged
  <2>3. ASSUME NEW a \in Places(f), NEW b \in Places(f)
        PROVE  a = b
    <3>1. PICK s \in Sequences : \E i \in DOMAIN work_queue[s] :
                                   work_queue[s][i] = f /\ a = <<s, i>>
      BY <2>1
    <3>2. PICK i \in DOMAIN work_queue[s] : work_queue[s][i] = f /\ a = <<s, i>>
      BY <3>1
    <3>3. PICK t \in Sequences : \E j \in DOMAIN work_queue[t] :
                                   work_queue[t][j] = f /\ b = <<t, j>>
      BY <2>1
    <3>4. PICK j \in DOMAIN work_queue[t] : work_queue[t][j] = f /\ b = <<t, j>>
      BY <3>3
    <3>5. s = t
      BY <3>2, <3>4 DEF OwnInv, OwnedByQueue, Ranged
    <3>6. i = j
      BY <3>2, <3>4, <3>5 DEF OwnInv, OwnedByQueue, NoRepeat
    <3>7. QED
      BY <3>2, <3>4, <3>5, <3>6
  <2>4. fstate[f] = "queued" <=> Places(f) # {}
    BY <2>2 DEF OwnInv, OwnedByQueue
  <2>5. fstate[f] = "running" <=> Runners(f) # {}
    BY DEF OwnInv, OwnedByWorker, Runners
  <2>6. \A v, w \in Runners(f) : v = w
    BY DEF OwnInv, OwnedByWorker, Runners
  <2>7. QED
    BY <2>3, <2>4, <2>5, <2>6
<1>2. QED
  BY <1>1, OwnInvariance, TypeInvariance, PTL
-----------------------------------------------------------------------------
(* The contract.  A step of the pool is a step of SequenceContract, in      *)
(* which pending is work_queue and running is what the workers run, or it   *)
(* leaves these alone.  Starting a function needs that no other worker runs *)
(* one of the sequence (One), dropping the oldest that it is not the one    *)
(* being added (OwnInv).                                                    *)

RunFn == [s \in Sequences |-> {wk[w].fn : w \in Running(s)}]

\* Workers that run a function go on with it, and no other one starts.
RunsKept ==
  /\ \A w \in Workers : wk[w].pc = "run" => wk'[w] = wk[w]
  /\ \A w \in Workers : wk'[w].pc = "run" => wk[w].pc = "run"

LEMMA KeptRunFn == ASSUME RunsKept PROVE RunFn' = RunFn
<1>1. \A s \in Sequences : Running(s)' = Running(s)
  BY DEF RunsKept, Running
<1>2. \A s \in Sequences : {wk'[w].fn : w \in Running(s)} = {wk[w].fn : w \in Running(s)}
  BY DEF RunsKept, Running
<1>3. QED
  BY <1>1, <1>2 DEF RunFn

ContractStep == [Contract!Next]_(Contract!vars)

LEMMA ContractStutter ==
  ASSUME RunsKept, work_queue' = work_queue, fstate' = fstate
  PROVE  ContractStep
<1>1. RunFn' = RunFn
  BY KeptRunFn
<1>2. QED
  BY <1>1 DEF ContractStep, Contract!vars, RunFn

LEMMA ContractCancel ==
  ASSUME RunsKept, NEW s \in Sequences, CancelOldest(s)
  PROVE  ContractStep
<1>1. RunFn' = RunFn
  BY KeptRunFn
<1>2. Contract!CancelOldest(s)
  BY <1>1 DEF CancelOldest, Contract!CancelOldest, RunFn
<1>3. QED
  BY <1>2 DEF ContractStep, Contract!Next

LEMMA ContractCancelAll ==
  ASSUME NEW s \in Sequences, CancelPendingFunctions(s)
  PROVE  ContractStep
<1>1. RunFn' = RunFn
  BY KeptRunFn DEF CancelPendingFunctions, RunsKept
<1>2. Contract!CancelAll(s)
  BY <1>1 DEF CancelPendingFunctions, Contract!CancelAll, RunFn
<1>3. QED
  BY <1>2 DEF ContractStep, Contract!Next

LEMMA ContractAdd ==
  ASSUME TypeInv, OwnInv, NEW c \in Clients, NEW s \in Sequences, NEW f \in Functions, Add(c, s, f)
  PROVE  ContractStep
<1>1. RunFn' = RunFn /\ fstate[f] = "new"
  BY KeptRunFn DEF Add, RunsKept
<1>2. /\ work_queue \in [Sequences -> Seq(Functions)] /\ fstate \in [Functions -> FunctionStates]
      /\ work_queue[s] \in Seq(Functions) /\ max_queue_size[s] \in Nat
  BY DEF TypeInv, TypeOK
<1>3. CASE shutdown[s]
  <2>1. Contract!Refuse(f)
    BY <1>1, <1>3 DEF Add, Contract!Refuse, RunFn
  <2>2. QED
    BY <2>1 DEF ContractStep, Contract!Next
<1>4. CASE ~shutdown[s] /\ ~Overflows(s)
  <2>1. work_queue' = [work_queue EXCEPT ![s] = Append(work_queue[s], f)]
    BY <1>4 DEF Add, PushBack
  <2>2. fstate' = [g \in Functions |-> IF g = f THEN "queued" ELSE fstate[g]]
    BY <1>4 DEF Add
  <2>3. fstate' = [fstate EXCEPT ![f] = "queued"]
    BY <1>2, <2>2
  <2>4. Contract!Accept(s, f)
    BY <1>1, <2>1, <2>3 DEF Contract!Accept, RunFn
  <2>5. QED
    BY <2>4 DEF ContractStep, Contract!Next
<1>5. CASE ~shutdown[s] /\ Overflows(s)
  <2> DEFINE h == Head(work_queue[s])
  <2>1. work_queue[s] # <<>>
    BY <1>2, <1>5 DEF Overflows, kUnboundedQueue
  <2>2. work_queue' = [work_queue EXCEPT ![s] = Append(Tail(work_queue[s]), f)]
    BY <1>5 DEF Add, PushBack
  <2>3. fstate' = [g \in Functions |->
                     IF g = f THEN "queued" ELSE IF g \in {h} THEN "canceled" ELSE fstate[g]]
    BY <1>5 DEF Add
  <2>4. h \in Functions /\ h \in Ranged(work_queue[s])
    BY <1>2, <2>1, PopFrontRange DEF OwnInv, OwnedByQueue
  <2> HIDE DEF h
  <2>5. h # f
    BY <1>1, <2>4 DEF OwnInv, OwnedByQueue
  <2>6. fstate' = [fstate EXCEPT ![f] = "queued", ![h] = "canceled"]
    BY <1>2, <2>3, <2>4, <2>5
  <2>7. Contract!AcceptDroppingOldest(s, f)
    BY <1>1, <2>1, <2>2, <2>6 DEF Contract!AcceptDroppingOldest, RunFn, h
  <2>8. QED
    BY <2>7 DEF ContractStep, Contract!Next
<1>6. QED
  BY <1>3, <1>4, <1>5

LEMMA ContractClientStart ==
  ASSUME TypeInv, OwnInv, ClientStart
  PROVE  ContractStep
<1>1. ASSUME wk' = wk, work_queue' = work_queue, fstate' = fstate PROVE ContractStep
  BY <1>1, ContractStutter DEF RunsKept
<1>2. ASSUME NEW s \in Sequences, NewSequence(s) PROVE ContractStep
  BY <1>1, <1>2 DEF NewSequence, Reset
<1>3. ASSUME NEW s \in Sequences, NEW x \in QueueBounds, set_max_queue_size(s, x)
      PROVE  ContractStep
  BY <1>1, <1>3 DEF set_max_queue_size
<1>4. ASSUME NEW c \in Clients, NEW s \in Sequences, FreeSequence(c, s) PROVE ContractStep
  BY <1>1, <1>4 DEF FreeSequence
<1>5. QED
  BY <1>2, <1>3, <1>4, ContractCancelAll, ContractAdd DEF ClientStart
LEMMA ContractClientStep ==
  ASSUME TypeInv, NEW c \in Clients, ClientStep(c)
  PROVE  ContractStep
<1>0. wk \in [Workers -> [pc : WorkerStates, seq : Sequences \cup {None},
                           fn : Functions \cup {None}]]
  BY DEF TypeInv, TypeOK
<1>1. ASSUME wk' = wk, work_queue' = work_queue, fstate' = fstate PROVE ContractStep
  BY <1>1, ContractStutter DEF RunsKept
<1>2. ASSUME NEW w \in Workers, QueueToWorker(c, w) PROVE ContractStep
  <2>1. work_queue' = work_queue /\ fstate' = fstate
    BY <1>2 DEF QueueToWorker, seqVars
  <2>2. CASE wk' = wk
    BY <1>1, <2>1, <2>2
  <2>3. CASE wk[w].pc = "none" /\ wk' = [wk EXCEPT ![w] = Parked]
    <3>1. wk'[w].pc = "idle" /\ \A v \in Workers : v # w => wk'[v] = wk[v]
      BY <1>0, <2>3 DEF Parked, Thread
    <3>2. RunsKept
      BY <2>3, <3>1 DEF RunsKept
    <3>3. QED
      BY <2>1, <3>2, ContractStutter
  <2>4. QED
    BY <1>2, <2>2, <2>3 DEF QueueToWorker
<1>3. CASE Cancel(c)
  <2>1. call[c].seq \in Sequences /\ RunsKept
    BY <1>3 DEF Cancel, TypeInv, PointersOK, RunsKept
  <2>2. CASE CancelOldest(call[c].seq)
    BY <2>1, <2>2, ContractCancel
  <2>3. CASE UNCHANGED <<work_queue, fstate>>
    BY <2>1, <2>3, ContractStutter
  <2>4. QED
    BY <1>3, <2>2, <2>3 DEF Cancel
<1>4. CASE QueueToWait(c) \/ QueueWithoutPool(c) \/ RunInWorkThread(c) \/ RecycleFreed(c)
  BY <1>1, <1>4 DEF QueueToWait, QueueWithoutPool, RunInWorkThread, RecycleFreed, seqVars
<1>5. QED
  BY <1>2, <1>3, <1>4 DEF ClientStep

\* The function that w takes from its sequence is the only one then running.
LEMMA ContractStart ==
  ASSUME TypeInv, NEW w \in Workers, NEW s \in Sequences, One(s),
         wk[w].pc = "next", wk[w].seq = s, work_queue[s] # <<>>, PopFront(s),
         fstate' = [fstate EXCEPT ![Head(work_queue[s])] = "running"],
         wk' = [wk EXCEPT ![w] = Thread("run", s, Head(work_queue[s]))]
  PROVE  ContractStep
<1> DEFINE h == Head(work_queue[s])
<1>1. wk \in [Workers -> [pc : WorkerStates, seq : Sequences \cup {None},
                           fn : Functions \cup {None}]]
  BY DEF TypeInv, TypeOK
<1>2. /\ wk'[w].pc = "run" /\ wk'[w].seq = s /\ wk'[w].fn = h
      /\ \A v \in Workers : v # w => wk'[v] = wk[v]
  BY <1>1 DEF Thread
<1> HIDE DEF h
<1>3. Running(s) = {}
  BY DEF One, ByWorker, Running
<1>4. Running(s)' = {w}
  BY <1>2, <1>3 DEF Running
<1>5. {wk'[v].fn : v \in {w}} = {h}
  BY <1>2
<1>6. \A t \in Sequences : t # s =>
        /\ Running(t)' = Running(t)
        /\ {wk'[v].fn : v \in Running(t)} = {wk[v].fn : v \in Running(t)}
  BY <1>2 DEF Running
<1>7. RunFn[s] = {}
  BY <1>3 DEF RunFn
<1>8. RunFn' = [RunFn EXCEPT ![s] = {h}]
  BY <1>4, <1>5, <1>6 DEF RunFn
<1>9. Contract!Start(s)
  BY <1>7, <1>8 DEF Contract!Start, PopFront, RunFn, h
<1>10. QED
  BY <1>9 DEF ContractStep, Contract!Next

LEMMA ContractFinish ==
  ASSUME TypeInv, NEW w \in Workers, NEW s \in Sequences, One(s), wk[w].seq = s, RunDone(w)
  PROVE  ContractStep
<1> DEFINE f == wk[w].fn
<1>1. /\ wk \in [Workers -> [pc : WorkerStates, seq : Sequences \cup {None},
                             fn : Functions \cup {None}]]
      /\ wk[w].pc = "run" /\ wk' = [wk EXCEPT ![w] = Thread("next", s, None)]
      /\ work_queue' = work_queue /\ fstate' = [fstate EXCEPT ![f] = "ran"]
  BY DEF TypeInv, TypeOK, RunDone, seqVars
<1>2. wk'[w].pc = "next" /\ \A v \in Workers : v # w => wk'[v] = wk[v]
  BY <1>1 DEF Thread
<1>3. Running(s) = {w}
  BY <1>1 DEF One, ByWorker, Running
<1>4. Running(s)' = {}
  BY <1>2, <1>3 DEF Running
<1>5. {wk[v].fn : v \in {w}} = {f}
  OBVIOUS
<1> HIDE DEF f
<1>6. \A t \in Sequences : t # s =>
        /\ Running(t)' = Running(t)
        /\ {wk'[v].fn : v \in Running(t)} = {wk[v].fn : v \in Running(t)}
  BY <1>1, <1>2 DEF Running
<1>7. RunFn[s] = {f}
  BY <1>3, <1>5 DEF RunFn
<1>8. RunFn' = [RunFn EXCEPT ![s] = {}]
  BY <1>4, <1>6 DEF RunFn
<1>9. f \in RunFn[s] /\ RunFn' = [RunFn EXCEPT ![s] = @ \ {f}]
  BY <1>7, <1>8
<1>10. Contract!Finish(s)
  BY <1>1, <1>9 DEF Contract!Finish, RunFn
<1>11. QED
  BY <1>10 DEF ContractStep, Contract!Next

LEMMA ContractWorkerStep ==
  ASSUME TypeInv, DispatchInv, NEW w \in Workers, WorkerStep(w)
  PROVE  ContractStep
<1> DEFINE s == wk[w].seq
<1>1. wk \in [Workers -> [pc : WorkerStates, seq : Sequences \cup {None},
                           fn : Functions \cup {None}]]
  BY DEF TypeInv, TypeOK
<1>0. \A p, q : Thread(p, q, None).pc = p
  BY DEF Thread
\* The worker neither was running a function nor is.
<1>2. ASSUME wk[w].pc # "run",
             \E x : wk' = [wk EXCEPT ![w] = x] /\ x.pc # "run"
      PROVE  RunsKept
  <2>1. wk'[w].pc # "run" /\ \A v \in Workers : v # w => wk'[v] = wk[v]
    BY <1>1, <1>2
  <2>2. QED
    BY <1>2, <2>1 DEF RunsKept
<1> HIDE DEF s
<1>3. ASSUME NEW b \in BOOLEAN, wk[w].pc # "run", WindDown(w, s, b) PROVE ContractStep
  <2>1. \E x : wk' = [wk EXCEPT ![w] = x] /\ x.pc # "run"
    <3>1. \/ wk' = [wk EXCEPT ![w] = Thread("release", s, None)]
          \/ wk' = [wk EXCEPT ![w] = Thread("assign", None, None)]
      BY <1>3 DEF WindDown, Releasing
    <3>2. QED
      BY <1>0, <3>1
  <2>2. QED
    BY <1>2, <1>3, <2>1, ContractStutter DEF WindDown
<1>4. CASE GetNextTask(w) \/ SequenceNoLongerActive(w) \/ AssignWorkerToNextSequence(w)
  <2>1. wk[w].pc # "run" /\ work_queue' = work_queue /\ fstate' = fstate
    BY <1>4 DEF GetNextTask, SequenceNoLongerActive, AssignWorkerToNextSequence, seqVars
  <2>2. \E x : wk' = [wk EXCEPT ![w] = x] /\ x.pc # "run"
    BY <1>4 DEF GetNextTask, SequenceNoLongerActive, AssignWorkerToNextSequence, Thread, Parked
  <2>3. QED
    BY <1>2, <2>1, <2>2, ContractStutter
<1>5. CASE NextFunction(w)
  <2>1. s \in Sequences /\ wk[w].pc = "next" /\ One(s)
    BY <1>5 DEF NextFunction, TypeInv, PointersOK, DispatchInv, s
  <2>2. CASE WindDown(w, s, FALSE)
    BY <1>3, <2>1, <2>2
  <2>3. CASE CancelOldest(s) /\ wk' = [wk EXCEPT ![w] = Thread("drain", s, None)]
    <3>1. RunsKept
      BY <1>0, <1>2, <2>1, <2>3
    <3>2. QED
      BY <2>1, <2>3, <3>1, ContractCancel
  <2>4. CASE /\ wk' = [wk EXCEPT ![w] = Thread("assign", None, None)]
             /\ UNCHANGED <<work_queue, fstate>>
    <3>1. RunsKept
      BY <1>0, <1>2, <2>1, <2>4
    <3>2. QED
      BY <2>4, <3>1, ContractStutter
  <2>5. CASE /\ work_queue[s] # <<>>
             /\ PopFront(s)
             /\ fstate' = [fstate EXCEPT ![Head(work_queue[s])] = "running"]
             /\ wk' = [wk EXCEPT ![w] = Thread("run", s, Head(work_queue[s]))]
    BY <2>1, <2>5, ContractStart DEF s
  <2>6. QED
    BY <1>5, <2>2, <2>3, <2>4, <2>5 DEF NextFunction, s
<1>6. CASE DrainShutDown(w)
  <2>1. s \in Sequences /\ wk[w].pc = "drain"
    BY <1>6 DEF DrainShutDown, TypeInv, PointersOK, s
  <2>2. CASE CancelOldest(s) /\ wk' = wk
    BY <2>1, <2>2, ContractCancel DEF RunsKept
  <2>3. CASE WindDown(w, s, TRUE)
    BY <1>3, <2>1, <2>3
  <2>4. QED
    BY <1>6, <2>2, <2>3 DEF DrainShutDown, s
<1>7. CASE RunDone(w)
  <2>1. s \in Sequences /\ One(s)
    BY <1>7 DEF RunDone, TypeInv, PointersOK, DispatchInv, s
  <2>2. QED
    BY <1>7, <2>1, ContractFinish DEF s
<1>8. QED
  BY <1>4, <1>5, <1>6, <1>7 DEF WorkerStep

LEMMA ContractStop ==
  ASSUME TypeInv, InitiateShutDown \/ StopStep
  PROVE  ContractStep
<1>1. ASSUME wk' = wk, work_queue' = work_queue, fstate' = fstate PROVE ContractStep
  BY <1>1, ContractStutter DEF RunsKept
<1>2. CASE DrainSequence
  <2>1. stop.seq \in Sequences /\ RunsKept
    BY <1>2 DEF DrainSequence, TypeInv, PointersOK, RunsKept
  <2>2. CASE CancelOldest(stop.seq)
    BY <2>1, <2>2, ContractCancel
  <2>3. CASE UNCHANGED <<work_queue, fstate>>
    BY <2>1, <2>3, ContractStutter
  <2>4. QED
    BY <1>2, <2>2, <2>3 DEF DrainSequence
<1>3. ASSUME NEW w \in Workers, DeleteWorker(w) PROVE ContractStep
  <2>1. wk[w].pc = "exited" /\ wk'[w].pc = "deleted" /\ \A v \in Workers : v # w => wk'[v] = wk[v]
    BY <1>3 DEF DeleteWorker, Thread, TypeInv, TypeOK
  <2>2. RunsKept
    BY <2>1 DEF RunsKept
  <2>3. QED
    BY <1>3, <2>2, ContractStutter DEF DeleteWorker, seqVars
<1>4. CASE InitiateShutDown \/ WaitForShutDownComplete \/ AllSequencesDown \/ ShutDownDone
  BY <1>1, <1>4 DEF InitiateShutDown, WaitForShutDownComplete, AllSequencesDown, ShutDownDone,
     seqVars
<1>5. ASSUME NEW s \in Sequences, InitiateSequenceShutDown(s) \/ WaitForShutDown(s)
      PROVE  ContractStep
  BY <1>1, <1>5 DEF InitiateSequenceShutDown, WaitForShutDown
<1>6. ASSUME NEW w \in Workers, ShutDownWorker(w) PROVE ContractStep
  BY <1>1, <1>6 DEF ShutDownWorker, seqVars
<1>7. QED
  BY <1>2, <1>3, <1>4, <1>5, <1>6 DEF StopStep

\* Every behaviour of the pool is one of the contract: functions run in the
\* order they were added, one at a time, each at most once.
THEOREM ContractHolds == ASSUME SerialUse PROVE Spec => RefinesContract
<1>1. Init => Contract!Init
  <2> SUFFICES ASSUME Init PROVE Contract!Init
    OBVIOUS
  <2>1. \A s \in Sequences : Running(s) = {}
    BY DEF Init, Running, Thread
  <2>2. RunFn = [s \in Sequences |-> {}]
    BY <2>1 DEF RunFn
  <2>3. QED
    BY <2>2 DEF Init, Contract!Init, RunFn
<1>2. TypeInv /\ DispatchInv /\ OwnInv /\ [Next]_vars => [Contract!Next]_(Contract!vars)
  <2> SUFFICES ASSUME TypeInv, DispatchInv, OwnInv, [Next]_vars PROVE ContractStep
    BY DEF ContractStep
  <2>1. CASE UNCHANGED vars
    BY <2>1, ContractStutter DEF RunsKept, vars, seqVars
  <2>2. QED
    BY <2>1, ContractClientStart, ContractClientStep, ContractWorkerStep, ContractStop DEF Next
<1>3. QED
  BY <1>1, <1>2, TypeInvariance, DispatchInvariance, OwnInvariance, PTL
  DEF Spec, RefinesContract, Contract!Spec
-----------------------------------------------------------------------------
(* Nothing is outstanding when the shutdown ends, for every use of the       *)
(* interface.  Shutting down goes over all_sequences, so every sequence a    *)
(* thread can still name must be there (Allocated).  Once all of them refuse *)
(* functions (Closing) a queue that was emptied stays empty (Emptied), and   *)
(* every worker with a thread is known to the pool or is the one being       *)
(* joined (Staffed), so that none is left to run a function at the end.      *)

Allocated ==
  /\ live \subseteq all_sequences
  /\ queued_sequences \in Seq(all_sequences)
  /\ free_sequences \in Seq(all_sequences)
  /\ \A c \in Clients : call[c].pc # "idle" => call[c].seq \in all_sequences
  /\ \A c \in Clients : call[c].pc = "dispatch" => call[c].worker \in Workers
  /\ \A w \in Workers : inbox[w] \in all_sequences \cup {None}
  /\ \A w \in Workers :
       wk[w].pc \in {"next", "drain", "run", "release"} => wk[w].seq \in all_sequences

Open == stop.pc \in {"up", "initiate"}

Closing ==
  /\ stop.pc = "up" <=> ~pool_shutdown
  /\ stop.pc = "initiate" => \A s \in all_sequences \ stop.todo : shutdown[s]
  /\ ~Open => \A s \in all_sequences : shutdown[s]

Emptied ==
  /\ \A s \in Sequences \ all_sequences : work_queue[s] = <<>>
  /\ ~Open => \A s \in all_sequences \ stop.todo :
                ~pool[s] /\ (s = stop.seq \/ work_queue[s] = <<>>)
  /\ stop.pc # "waiting" => stop.seq = None
  /\ stop.pc \in {"workers", "join", "done"} => stop.todo = {}

NoThread == {"none", "exited", "deleted"}

Staffed ==
  /\ stop.pc # "join" => stop.worker = None
  /\ stop.pc = "done" => active_workers = {} /\ available_workers = {}
  /\ \A w \in Workers : wk[w].pc \notin NoThread =>
       w \in active_workers \cup available_workers \cup {stop.worker}

Ending == Closing /\ Emptied /\ Staffed

LEMMA SeqWider ==
  ASSUME NEW S, NEW T, S \subseteq T, NEW q \in Seq(S)
  PROVE  q \in Seq(T)
<1>1. Len(q) \in Nat /\ q \in [1 .. Len(q) -> S]
  BY LenProperties
<1>2. q \in [1 .. Len(q) -> T]
  BY <1>1
<1>3. QED
  BY <1>1, <1>2, SeqDef

LEMMA AllocatedInit == Init => Allocated /\ Ending
<1> SUFFICES ASSUME Init PROVE Allocated /\ Ending
  OBVIOUS
<1>1. /\ \A c \in Clients : call[c].pc = "idle"
      /\ \A w \in Workers : wk[w].pc = "none" /\ inbox[w] = None
  BY DEF Init, Idle, Call, Thread
<1>2. <<>> \in Seq(all_sequences)
  OBVIOUS
<1>3. Allocated
  BY <1>1, <1>2 DEF Init, Allocated
<1>4. Ending
  BY <1>1 DEF Init, Ending, Closing, Emptied, Staffed, Open, NoThread
<1>5. QED
  BY <1>3, <1>4

LEMMA ClientStartAllocated ==
  ASSUME TypeInv, Allocated, ClientStart
  PROVE  Allocated'
<1>0. call \in [Clients -> [pc : CallStates, seq : Sequences \cup {None},
                            worker : Workers \cup {None}]]
  BY DEF TypeInv, TypeOK
<1>1. ASSUME NEW s \in Sequences, NewSequence(s) PROVE Allocated'
  <2>1. UNCHANGED <<queued_sequences, call, wk, inbox>> /\ live' = live \cup {s}
    BY <1>1 DEF NewSequence
  <2>2. all_sequences \subseteq all_sequences' /\ s \in all_sequences'
        /\ free_sequences' \in Seq(all_sequences)
    <3>1. CASE free_sequences = <<>>
      BY <1>1, <3>1 DEF NewSequence, Allocated
    <3>2. CASE free_sequences # <<>>
      <4>1. Len(free_sequences) \in 1 .. Len(free_sequences)
        BY <3>2 DEF Allocated
      <4>2. free_sequences[Len(free_sequences)] \in all_sequences
        BY <4>1, ElementOfSeq DEF Allocated
      <4>3. SubSeq(free_sequences, 1, Len(free_sequences) - 1) \in Seq(all_sequences)
        BY <3>2, FrontType DEF Allocated
      <4>4. QED
        BY <1>1, <3>2, <4>2, <4>3 DEF NewSequence
    <3>3. QED
      BY <3>1, <3>2
  <2>3. queued_sequences' \in Seq(all_sequences') /\ free_sequences' \in Seq(all_sequences')
    BY <2>1, <2>2, SeqWider DEF Allocated
  <2>4. QED
    BY <2>1, <2>2, <2>3 DEF Allocated
<1>2. ASSUME UNCHANGED <<all_sequences, queued_sequences, free_sequences, wk, inbox>>,
             live' \subseteq live,
             \A d \in Clients :
               call'[d] = call[d] \/ (call'[d].pc \in {"queue", "free"} /\ call'[d].seq \in live)
      PROVE  Allocated'
  BY <1>2 DEF Allocated
<1>3. ASSUME NEW s \in Sequences, CancelPendingFunctions(s) PROVE Allocated'
  <2>1. UNCHANGED <<all_sequences, queued_sequences, free_sequences, wk, inbox>>
        /\ live' = live /\ call' = call
    BY <1>3 DEF CancelPendingFunctions, poolVars
  <2>2. QED
    BY <2>1 DEF Allocated
<1>4. ASSUME NEW s \in Sequences, NEW x \in QueueBounds, set_max_queue_size(s, x)
      PROVE  Allocated'
  <2>1. UNCHANGED <<all_sequences, queued_sequences, free_sequences, wk, inbox>>
        /\ live' = live /\ call' = call
    BY <1>4 DEF set_max_queue_size, poolVars
  <2>2. QED
    BY <2>1 DEF Allocated
<1>5. ASSUME NEW c \in Clients, NEW s \in Sequences, FreeSequence(c, s) PROVE Allocated'
  <2>1. call' = call \/ call' = [call EXCEPT ![c] = Call("free", s, None)]
    BY <1>5 DEF FreeSequence
  <2>2. \A d \in Clients : call'[d] = call[d] \/ call'[d] = Call("free", s, None)
    BY <1>0, <2>1
  <2>3. Call("free", s, None).pc = "free" /\ Call("free", s, None).seq = s
    BY DEF Call
  <2>4. \A d \in Clients :
          call'[d] = call[d] \/ (call'[d].pc \in {"queue", "free"} /\ call'[d].seq = s)
    BY <2>2, <2>3
  <2>5. QED
    BY <1>2, <1>5, <2>4 DEF FreeSequence, poolVars
<1>6. ASSUME NEW c \in Clients, NEW s \in Sequences, NEW f \in Functions, Add(c, s, f)
      PROVE  Allocated'
  <2>1. call' = call \/ call' = [call EXCEPT ![c] = Call("queue", s, None)]
    BY <1>6 DEF Add
  <2>2. \A d \in Clients : call'[d] = call[d] \/ call'[d] = Call("queue", s, None)
    BY <1>0, <2>1
  <2>3. Call("queue", s, None).pc = "queue" /\ Call("queue", s, None).seq = s
    BY DEF Call
  <2>4. \A d \in Clients :
          call'[d] = call[d] \/ (call'[d].pc \in {"queue", "free"} /\ call'[d].seq = s)
    BY <2>2, <2>3
  <2>5. QED
    BY <1>2, <1>6, <2>4 DEF Add, poolVars
<1>7. QED
  BY <1>1, <1>3, <1>4, <1>5, <1>6 DEF ClientStart

LEMMA ClientStepAllocated ==
  ASSUME TypeInv, Allocated, NEW c \in Clients, ClientStep(c)
  PROVE  Allocated'
<1>1. /\ call \in [Clients -> [pc : CallStates, seq : Sequences \cup {None},
                               worker : Workers \cup {None}]]
      /\ wk \in [Workers -> [pc : WorkerStates, seq : Sequences \cup {None},
                             fn : Functions \cup {None}]]
      /\ inbox \in [Workers -> Sequences \cup {None}]
  BY DEF TypeInv, TypeOK
\* The client's call is over, or goes on with a sequence it knows.
<1>2. ASSUME NEW x, call' = [call EXCEPT ![c] = x],
             x.pc # "idle" => x.seq \in all_sequences,
             x.pc = "dispatch" => x.worker \in Workers
      PROVE  /\ \A d \in Clients : call'[d].pc # "idle" => call'[d].seq \in all_sequences
             /\ \A d \in Clients : call'[d].pc = "dispatch" => call'[d].worker \in Workers
  <2>1. call'[c] = x /\ \A d \in Clients : d # c => call'[d] = call[d]
    BY <1>1, <1>2
  <2>2. QED
    BY <1>2, <2>1 DEF Allocated
<1>3. \A p, s, w : /\ Call(p, s, w).pc = p /\ Call(p, s, w).seq = s /\ Call(p, s, w).worker = w
  BY DEF Call
<1>4. Idle.pc = "idle"
  BY DEF Idle, Call
<1>5. call[c].pc # "idle" => call[c].seq \in all_sequences
  BY DEF Allocated
<1>6. ASSUME NEW w \in Workers, QueueToWorker(c, w) PROVE Allocated'
  <2>1. call[c].pc = "queue" /\ call' = [call EXCEPT ![c] = Call("dispatch", call[c].seq, w)]
        /\ UNCHANGED <<all_sequences, queued_sequences, free_sequences, live, inbox>>
        /\ (wk' = wk \/ wk' = [wk EXCEPT ![w] = Parked])
    BY <1>6 DEF QueueToWorker
  <2>2. \A v \in Workers : wk'[v] = wk[v] \/ wk'[v].pc = "idle"
    BY <1>1, <2>1 DEF Parked, Thread
  <2>3. /\ \A d \in Clients : call'[d].pc # "idle" => call'[d].seq \in all_sequences
        /\ \A d \in Clients : call'[d].pc = "dispatch" => call'[d].worker \in Workers
    <3> DEFINE x == Call("dispatch", call[c].seq, w)
    <3>1. x.pc = "dispatch" /\ x.seq \in all_sequences /\ x.worker \in Workers
          /\ call' = [call EXCEPT ![c] = x]
      BY <1>3, <1>5, <2>1
    <3> HIDE DEF x
    <3>2. QED
      BY <1>2, <3>1
  <2>4. QED
    BY <2>1, <2>2, <2>3 DEF Allocated
<1>7. CASE QueueToWait(c)
  <2> DEFINE longer == Append(queued_sequences, call[c].seq)
  <2>1. call[c].pc = "queue" /\ UNCHANGED <<all_sequences, free_sequences, live, wk, inbox>>
    BY <1>7 DEF QueueToWait
  <2>2. Head(longer) \in all_sequences /\ Tail(longer) \in Seq(all_sequences)
        /\ longer \in Seq(all_sequences)
    BY <1>5, <2>1, AppendType DEF Allocated
  <2>3. queued_sequences' \in {longer, Tail(longer)}
    BY <1>7 DEF QueueToWait
  <2>4. \/ call' = [call EXCEPT ![c] = Idle]
        \/ call' = [call EXCEPT ![c] = Call("shed", Head(longer), None)]
    BY <1>7 DEF QueueToWait
  <2> HIDE DEF longer
  <2>5. /\ \A d \in Clients : call'[d].pc # "idle" => call'[d].seq \in all_sequences
        /\ \A d \in Clients : call'[d].pc = "dispatch" => call'[d].worker \in Workers
    BY <1>2, <1>3, <1>4, <2>2, <2>4
  <2>6. QED
    BY <2>1, <2>2, <2>3, <2>5 DEF Allocated
<1>8. CASE QueueWithoutPool(c) \/ Cancel(c)
  <2>1. /\ call[c].pc # "idle"
        /\ UNCHANGED <<all_sequences, queued_sequences, free_sequences, live, wk, inbox>>
        /\ \/ call' = call \/ call' = [call EXCEPT ![c] = Idle]
           \/ call' = [call EXCEPT ![c] = Call("crashed", call[c].seq, None)]
    BY <1>8 DEF QueueWithoutPool, Cancel, poolVars
  <2>2. /\ \A d \in Clients : call'[d].pc # "idle" => call'[d].seq \in all_sequences
        /\ \A d \in Clients : call'[d].pc = "dispatch" => call'[d].worker \in Workers
    <3>1. CASE call' = call
      BY <3>1 DEF Allocated
    <3>2. CASE call' # call
      BY <1>2, <1>3, <1>4, <1>5, <2>1, <3>2
    <3>3. QED
      BY <3>1, <3>2
  <2>3. QED
    BY <2>1, <2>2 DEF Allocated
<1>9. CASE RunInWorkThread(c)
  <2>1. /\ call[c].pc = "dispatch" /\ call[c].seq \in all_sequences
        /\ UNCHANGED <<all_sequences, queued_sequences, free_sequences, live, wk>>
        /\ \/ call' = [call EXCEPT ![c] = Idle]
           \/ call' = [call EXCEPT ![c] = Call("crashed", call[c].seq, None)]
        /\ \/ inbox' = inbox \/ inbox' = [inbox EXCEPT ![call[c].worker] = call[c].seq]
    BY <1>5, <1>9 DEF RunInWorkThread, poolVars
  <2>2. /\ \A d \in Clients : call'[d].pc # "idle" => call'[d].seq \in all_sequences
        /\ \A d \in Clients : call'[d].pc = "dispatch" => call'[d].worker \in Workers
    BY <1>2, <1>3, <1>4, <1>5, <2>1
  <2>3. \A w \in Workers : inbox'[w] \in all_sequences \cup {None}
    BY <1>1, <2>1 DEF Allocated
  <2>4. QED
    BY <2>1, <2>2, <2>3 DEF Allocated
<1>10. CASE RecycleFreed(c)
  <2>1. /\ call[c].pc = "free" /\ call[c].seq \in all_sequences
        /\ UNCHANGED <<all_sequences, queued_sequences, live, wk, inbox>>
        /\ call' = [call EXCEPT ![c] = Idle]
        /\ free_sequences' = Append(free_sequences, call[c].seq)
    BY <1>5, <1>10 DEF RecycleFreed
  <2>2. free_sequences' \in Seq(all_sequences)
    BY <2>1, AppendType DEF Allocated
  <2>3. /\ \A d \in Clients : call'[d].pc # "idle" => call'[d].seq \in all_sequences
        /\ \A d \in Clients : call'[d].pc = "dispatch" => call'[d].worker \in Workers
    BY <1>2, <1>4, <2>1
  <2>4. QED
    BY <2>1, <2>2, <2>3 DEF Allocated
<1>11. QED
  BY <1>6, <1>7, <1>8, <1>9, <1>10 DEF ClientStep
LEMMA WorkerStepAllocated ==
  ASSUME TypeInv, Allocated, NEW w \in Workers, WorkerStep(w)
  PROVE  Allocated'
<1> DEFINE s == wk[w].seq
<1>1. /\ wk \in [Workers -> [pc : WorkerStates, seq : Sequences \cup {None},
                             fn : Functions \cup {None}]]
      /\ inbox \in [Workers -> Sequences \cup {None}]
  BY DEF TypeInv, TypeOK
<1>2. \A p, q, f : Thread(p, q, f).pc = p /\ Thread(p, q, f).seq = q
  BY DEF Thread
<1>3. wk[w].pc \in {"next", "drain", "run", "release"} => s \in all_sequences
  BY DEF Allocated
<1> HIDE DEF s
\* The worker holds no sequence, or one that is allocated.
<1>4. ASSUME NEW p, NEW q, NEW f, wk' = [wk EXCEPT ![w] = Thread(p, q, f)],
             p \in {"next", "drain", "run", "release"} => q \in all_sequences
      PROVE  \A v \in Workers :
               wk'[v].pc \in {"next", "drain", "run", "release"} => wk'[v].seq \in all_sequences
  <2>1. wk'[w] = Thread(p, q, f) /\ \A v \in Workers : v # w => wk'[v] = wk[v]
    BY <1>1, <1>4
  <2>2. QED
    BY <1>2, <1>4, <2>1 DEF Allocated
<1>5. ASSUME UNCHANGED <<all_sequences, queued_sequences, free_sequences, live, call, inbox>>,
             NEW p, NEW q, NEW f, wk' = [wk EXCEPT ![w] = Thread(p, q, f)],
             p \in {"next", "drain", "run", "release"} => q \in all_sequences
      PROVE  Allocated'
  <2>1. \A v \in Workers :
          wk'[v].pc \in {"next", "drain", "run", "release"} => wk'[v].seq \in all_sequences
    BY <1>4, <1>5
  <2>2. QED
    BY <1>5, <2>1 DEF Allocated
<1>6. CASE GetNextTask(w)
  <2>1. UNCHANGED <<all_sequences, queued_sequences, free_sequences, live, call>>
    BY <1>6 DEF GetNextTask, poolVars
  <2>2. \A v \in Workers : inbox'[v] \in all_sequences \cup {None}
    BY <1>1, <1>6 DEF GetNextTask, Allocated
  <2>3. \A v \in Workers :
          wk'[v].pc \in {"next", "drain", "run", "release"} => wk'[v].seq \in all_sequences
    <3>1. CASE wk' = [wk EXCEPT ![w] = Thread("exited", None, None)]
      BY <1>4, <3>1
    <3>2. CASE inbox[w] # None /\ wk' = [wk EXCEPT ![w] = Thread("next", inbox[w], None)]
      <4>1. inbox[w] \in all_sequences
        BY <3>2 DEF Allocated
      <4>2. QED
        BY <1>4, <3>2, <4>1
    <3>3. QED
      BY <1>6, <3>1, <3>2 DEF GetNextTask
  <2>4. QED
    BY <2>1, <2>2, <2>3 DEF Allocated
<1>7. CASE NextFunction(w) \/ DrainShutDown(w) \/ RunDone(w)
  <2>1. s \in all_sequences
        /\ UNCHANGED <<all_sequences, queued_sequences, free_sequences, live, call, inbox>>
    BY <1>3, <1>7 DEF NextFunction, DrainShutDown, RunDone, poolVars
  <2>2. \/ wk' = wk
        \/ \E p \in WorkerStates, f \in {None, Head(work_queue[s])} :
             wk' = [wk EXCEPT ![w] = Thread(p, s, f)]
        \/ wk' = [wk EXCEPT ![w] = Thread("assign", None, None)]
    BY <1>7 DEF NextFunction, DrainShutDown, RunDone, WindDown, Releasing, s
  <2>3. CASE wk' = wk
    BY <2>1, <2>3 DEF Allocated
  <2>4. ASSUME NEW p \in WorkerStates, NEW f \in {None, Head(work_queue[s])},
               wk' = [wk EXCEPT ![w] = Thread(p, s, f)]
        PROVE  Allocated'
    BY <1>5, <2>1, <2>4
  <2>5. CASE wk' = [wk EXCEPT ![w] = Thread("assign", None, None)]
    BY <1>5, <2>1, <2>5
  <2>6. QED
    BY <2>2, <2>3, <2>4, <2>5
<1>8. CASE SequenceNoLongerActive(w)
  <2>1. /\ UNCHANGED <<all_sequences, queued_sequences, live, call, inbox>> /\ s \in all_sequences
        /\ wk' = [wk EXCEPT ![w] = Thread("assign", None, None)]
        /\ free_sequences' \in {free_sequences, Append(free_sequences, s)}
    BY <1>3, <1>8 DEF SequenceNoLongerActive, s
  <2>2. free_sequences' \in Seq(all_sequences)
    BY <2>1, AppendType DEF Allocated
  <2>3. \A v \in Workers :
          wk'[v].pc \in {"next", "drain", "run", "release"} => wk'[v].seq \in all_sequences
    BY <1>4, <2>1
  <2>4. QED
    BY <2>1, <2>2, <2>3 DEF Allocated
<1>9. CASE AssignWorkerToNextSequence(w)
  <2>1. UNCHANGED <<all_sequences, free_sequences, live, call, inbox>>
    BY <1>9 DEF AssignWorkerToNextSequence
  <2>2. CASE wk' = [wk EXCEPT ![w] = Parked] /\ queued_sequences' = queued_sequences
    <3>1. wk' = [wk EXCEPT ![w] = Thread("idle", None, None)]
      BY <2>2 DEF Parked
    <3>2. QED
      BY <1>5, <2>1, <2>2, <3>1
  <2>3. CASE /\ queued_sequences # <<>>
             /\ wk' = [wk EXCEPT ![w] = Thread("next", Head(queued_sequences), None)]
             /\ queued_sequences' = Tail(queued_sequences)
    <3>1. Head(queued_sequences) \in all_sequences /\ Tail(queued_sequences) \in Seq(all_sequences)
      BY <2>3 DEF Allocated
    <3>2. \A v \in Workers :
            wk'[v].pc \in {"next", "drain", "run", "release"} => wk'[v].seq \in all_sequences
      BY <1>4, <2>3, <3>1
    <3>3. QED
      BY <2>1, <2>3, <3>1, <3>2 DEF Allocated
  <2>4. QED
    BY <1>9, <2>2, <2>3 DEF AssignWorkerToNextSequence, NoSequenceWaiting
<1>10. QED
  BY <1>6, <1>7, <1>8, <1>9 DEF WorkerStep

LEMMA StopAllocated ==
  ASSUME TypeInv, Allocated, InitiateShutDown \/ StopStep
  PROVE  Allocated'
<1>1. UNCHANGED <<all_sequences, queued_sequences, free_sequences, live, call>>
  BY DEF InitiateShutDown, StopStep, InitiateSequenceShutDown, WaitForShutDown,
     WaitForShutDownComplete, DrainSequence, AllSequencesDown, ShutDownWorker, DeleteWorker,
     ShutDownDone, poolVars
<1>2. CASE UNCHANGED <<wk, inbox>>
  BY <1>1, <1>2 DEF Allocated
<1>3. ASSUME NEW w \in Workers, DeleteWorker(w) PROVE Allocated'
  <2>1. /\ \A v \in Workers : wk'[v] = wk[v] \/ wk'[v].pc = "deleted"
        /\ \A v \in Workers : inbox'[v] = inbox[v] \/ inbox'[v] = None
    BY <1>3 DEF DeleteWorker, Thread, TypeInv, TypeOK
  <2>2. QED
    BY <1>1, <2>1 DEF Allocated
<1>4. UNCHANGED <<wk, inbox>> \/ \E w \in Workers : DeleteWorker(w)
  BY DEF InitiateShutDown, StopStep, InitiateSequenceShutDown, WaitForShutDown,
     WaitForShutDownComplete, DrainSequence, AllSequencesDown, ShutDownWorker,
     ShutDownDone
<1>5. QED
  BY <1>2, <1>3, <1>4

\* A step that leaves the shutdown alone keeps closed sequences closed and
\* emptied queues empty.
LEMMA EmptiedStay ==
  ASSUME TypeInv, Closing, Emptied,
         UNCHANGED <<all_sequences, pool_shutdown, pool, stop>>,
         \A s \in all_sequences : shutdown[s] => shutdown'[s],
         \A s \in Sequences : \/ work_queue[s] = <<>> => work_queue'[s] = <<>>
                              \/ Open /\ s \in all_sequences
  PROVE  Closing' /\ Emptied'
<1>1. Closing'
  BY DEF Closing, Open
<1>2. Open' <=> Open
  BY DEF Open
<1>3. \A s \in Sequences \ all_sequences' : work_queue'[s] = <<>>
  BY DEF Emptied
<1>4. ASSUME ~Open, NEW s \in all_sequences \ stop.todo
      PROVE  ~pool[s] /\ (s = stop.seq \/ work_queue'[s] = <<>>)
  BY <1>4 DEF Emptied, TypeInv, TypeOK
<1>5. QED
  BY <1>1, <1>2, <1>3, <1>4 DEF Emptied

\* CancelOldest only shortens a queue.
LEMMA CancelOldestEmpties ==
  ASSUME TypeInv, NEW s \in Sequences, CancelOldest(s)
  PROVE  \A t \in Sequences : work_queue[t] = <<>> => work_queue'[t] = <<>>
  BY DEF CancelOldest, TypeInv, TypeOK

LEMMA ClientStartEnding ==
  ASSUME TypeInv, Allocated, Ending, ClientStart
  PROVE  Ending'
<1>1. /\ all_sequences \subseteq Sequences /\ live \subseteq all_sequences
      /\ work_queue \in [Sequences -> Seq(Functions)]
      /\ shutdown \in [Sequences -> BOOLEAN]
  BY DEF TypeInv, TypeOK, Allocated
<1>2. UNCHANGED <<active_workers, available_workers, wk, stop, pool_shutdown, pool>>
  BY DEF ClientStart, NewSequence, Reset, CancelPendingFunctions, set_max_queue_size,
     FreeSequence, Add, poolVars
<1>3. Staffed'
  BY <1>2 DEF Ending, Staffed, NoThread
<1>4. ASSUME NEW s \in Sequences, NewSequence(s) PROVE Closing' /\ Emptied'
  <2>1. /\ ~pool_shutdown /\ UNCHANGED work_queue /\ all_sequences \subseteq all_sequences'
    BY <1>4 DEF NewSequence, Reset
  <2>2. stop.pc = "up" /\ stop'.pc = "up"
    BY <1>2, <2>1 DEF Ending, Closing
  <2>3. QED
    BY <1>2, <2>1, <2>2 DEF Ending, Closing, Emptied, Open
<1>5. ASSUME NEW s \in Sequences, CancelPendingFunctions(s) PROVE Closing' /\ Emptied'
  <2>1. /\ UNCHANGED <<all_sequences, shutdown>>
        /\ work_queue' = [work_queue EXCEPT ![s] = <<>>]
    BY <1>5 DEF CancelPendingFunctions, poolVars
  <2>2. \A t \in Sequences : work_queue[t] = <<>> => work_queue'[t] = <<>>
    BY <1>1, <2>1
  <2>3. QED
    BY <1>2, <2>1, <2>2, EmptiedStay DEF Ending
<1>6. ASSUME NEW s \in Sequences, NEW x \in QueueBounds, set_max_queue_size(s, x)
      PROVE  Closing' /\ Emptied'
  <2>1. UNCHANGED <<all_sequences, shutdown, work_queue>>
    BY <1>6 DEF set_max_queue_size, poolVars
  <2>2. QED
    BY <1>2, <2>1, EmptiedStay DEF Ending
<1>7. ASSUME NEW c \in Clients, NEW s \in Sequences, FreeSequence(c, s)
      PROVE  Closing' /\ Emptied'
  <2>1. UNCHANGED <<all_sequences, work_queue>> /\ shutdown' = [shutdown EXCEPT ![s] = TRUE]
    BY <1>7 DEF FreeSequence, poolVars
  <2>2. \A t \in all_sequences : shutdown[t] => shutdown'[t]
    BY <1>1, <2>1
  <2>3. QED
    BY <1>2, <2>1, <2>2, EmptiedStay DEF Ending
\* Add appends only to a sequence that is open, hence before the shutdown.
<1>8. ASSUME NEW c \in Clients, NEW s \in Sequences, NEW f \in Functions, Add(c, s, f)
      PROVE  Closing' /\ Emptied'
  <2>1. UNCHANGED <<all_sequences, shutdown>> /\ s \in all_sequences
    BY <1>1, <1>8 DEF Add, poolVars
  <2>2. CASE shutdown[s]
    <3>1. UNCHANGED work_queue
      BY <1>8, <2>2 DEF Add
    <3>2. QED
      BY <1>2, <2>1, <3>1, EmptiedStay DEF Ending
  <2>3. CASE ~shutdown[s]
    <3>1. Open
      BY <2>1, <2>3 DEF Ending, Closing
    <3>2. \A t \in Sequences : t # s => work_queue'[t] = work_queue[t]
      BY <1>1, <1>8, <2>3 DEF Add
    <3>3. \A t \in Sequences : \/ work_queue[t] = <<>> => work_queue'[t] = <<>>
                               \/ Open /\ t \in all_sequences
      BY <2>1, <3>1, <3>2
    <3>4. QED
      BY <1>2, <2>1, <3>3, EmptiedStay DEF Ending
  <2>4. QED
    BY <2>2, <2>3
<1>9. Closing' /\ Emptied'
  BY <1>4, <1>5, <1>6, <1>7, <1>8 DEF ClientStart
<1>10. QED
  BY <1>3, <1>9 DEF Ending

LEMMA ClientStepEnding ==
  ASSUME TypeInv, Allocated, Ending, NEW c \in Clients, ClientStep(c)
  PROVE  Ending'
<1>1. /\ wk \in [Workers -> [pc : WorkerStates, seq : Sequences \cup {None},
                             fn : Functions \cup {None}]]
      /\ all_sequences \subseteq Sequences
  BY DEF TypeInv, TypeOK
<1>2. UNCHANGED <<all_sequences, pool_shutdown, pool, stop, shutdown>>
  BY DEF ClientStep, QueueToWorker, QueueToWait, QueueWithoutPool, Cancel, RunInWorkThread,
     RecycleFreed, poolVars, seqVars
<1>3. \A t \in Sequences : work_queue[t] = <<>> => work_queue'[t] = <<>>
  <2>1. CASE Cancel(c)
    <3>1. call[c].seq \in Sequences
      BY <1>1, <2>1 DEF Cancel, Allocated
    <3>2. QED
      BY <2>1, <3>1, CancelOldestEmpties DEF Cancel
  <2>2. CASE ~Cancel(c)
    BY <2>2 DEF ClientStep, QueueToWorker, QueueToWait, QueueWithoutPool, RunInWorkThread,
       RecycleFreed, seqVars
  <2>3. QED
    BY <2>1, <2>2
<1>4. Closing' /\ Emptied'
  BY <1>2, <1>3, EmptiedStay DEF Ending
\* A worker is taken or started only while some pool_ is not yet NULL.
<1>5. ASSUME NEW w \in Workers, QueueToWorker(c, w) PROVE Staffed'
  <2>1. call[c].seq \in all_sequences /\ pool[call[c].seq]
    BY <1>5 DEF QueueToWorker, Allocated
  <2>2. stop.pc # "done"
    BY <2>1 DEF Ending, Emptied, Open
  <2>3. /\ active_workers' = active_workers \cup {w}
        /\ available_workers \subseteq available_workers' \cup {w}
        /\ wk' = wk \/ wk' = [wk EXCEPT ![w] = Parked]
    BY <1>5 DEF QueueToWorker
  <2>4. \A v \in Workers : v # w => wk'[v] = wk[v]
    BY <1>1, <2>3
  <2>5. QED
    BY <1>2, <2>2, <2>3, <2>4 DEF Ending, Staffed
<1>6. ASSUME UNCHANGED <<active_workers, available_workers, wk>> PROVE Staffed'
  BY <1>2, <1>6 DEF Ending, Staffed
<1>7. Staffed'
  <2>1. CASE \A w \in Workers : ~QueueToWorker(c, w)
    <3>1. UNCHANGED <<active_workers, available_workers, wk>>
      BY <2>1 DEF ClientStep, QueueToWait, QueueWithoutPool, Cancel, RunInWorkThread,
         RecycleFreed, poolVars
    <3>2. QED
      BY <1>6, <3>1
  <2>2. QED
    BY <1>5, <2>1
<1>8. QED
  BY <1>4, <1>7 DEF Ending

LEMMA WorkerEnding ==
  ASSUME TypeInv, Ending, NEW w \in Workers, WorkerStep(w)
  PROVE  Ending'
<1>1. /\ wk \in [Workers -> [pc : WorkerStates, seq : Sequences \cup {None},
                             fn : Functions \cup {None}]]
      /\ work_queue \in [Sequences -> Seq(Functions)]
  BY DEF TypeInv, TypeOK
<1>2. UNCHANGED <<all_sequences, pool_shutdown, pool, stop, shutdown>>
  BY DEF WorkerStep, GetNextTask, NextFunction, DrainShutDown, RunDone, SequenceNoLongerActive,
     AssignWorkerToNextSequence, poolVars, seqVars
<1>3. \A t \in Sequences : work_queue[t] = <<>> => work_queue'[t] = <<>>
  <2>1. CASE UNCHANGED work_queue
    BY <2>1
  <2>2. CASE NextFunction(w) \/ DrainShutDown(w)
    <3>1. wk[w].seq \in Sequences
      BY <2>2 DEF NextFunction, DrainShutDown, TypeInv, PointersOK
    <3>2. CASE CancelOldest(wk[w].seq)
      BY <3>1, <3>2, CancelOldestEmpties
    <3>3. CASE work_queue[wk[w].seq] # <<>> /\ PopFront(wk[w].seq)
      BY <1>1, <3>1, <3>3 DEF PopFront
    <3>4. QED
      BY <2>1, <2>2, <3>2, <3>3 DEF NextFunction, DrainShutDown, WindDown
  <2>3. QED
    BY <2>1, <2>2 DEF WorkerStep, GetNextTask, RunDone, SequenceNoLongerActive,
       AssignWorkerToNextSequence, seqVars
<1>4. Closing' /\ Emptied'
  BY <1>2, <1>3, EmptiedStay DEF Ending
<1>5. wk[w].pc \notin NoThread
  BY DEF WorkerStep, GetNextTask, NextFunction, DrainShutDown, RunDone, SequenceNoLongerActive,
     AssignWorkerToNextSequence, NoThread
<1>6. \A v \in Workers : v # w => wk'[v] = wk[v]
  <2>1. wk' = wk \/ \E x : wk' = [wk EXCEPT ![w] = x]
    BY DEF WorkerStep, GetNextTask, NextFunction, DrainShutDown, RunDone, SequenceNoLongerActive,
       AssignWorkerToNextSequence, WindDown
  <2>2. QED
    BY <1>1, <2>1
<1>7. CASE UNCHANGED <<active_workers, available_workers>>
  BY <1>2, <1>4, <1>5, <1>6, <1>7 DEF Ending, Staffed
\* A worker without a sequence turns from active to available, before the end.
<1>8. CASE ~UNCHANGED <<active_workers, available_workers>>
  <2>1. /\ ~pool_shutdown
        /\ active_workers' = active_workers \ {w}
        /\ available_workers' = available_workers \cup {w}
    BY <1>8 DEF WorkerStep, GetNextTask, NextFunction, DrainShutDown, RunDone,
       SequenceNoLongerActive, AssignWorkerToNextSequence, poolVars
  <2>2. stop.pc = "up"
    BY <2>1 DEF Ending, Closing
  <2>3. QED
    BY <1>2, <1>4, <1>5, <1>6, <2>1, <2>2 DEF Ending, Staffed
<1>9. QED
  BY <1>7, <1>8

LEMMA StopEnding ==
  ASSUME TypeInv, Ending, InitiateShutDown \/ StopStep
  PROVE  Ending'
<1>1. /\ stop \in [pc : StopStates, todo : SUBSET Sequences,
                   seq : Sequences \cup {None}, worker : Workers \cup {None}]
      /\ shutdown \in [Sequences -> BOOLEAN] /\ all_sequences \subseteq Sequences
      /\ pool \in [Sequences -> BOOLEAN]
      /\ wk \in [Workers -> [pc : WorkerStates, seq : Sequences \cup {None},
                             fn : Functions \cup {None}]]
  BY DEF TypeInv, TypeOK
<1>2. UNCHANGED all_sequences
  BY DEF InitiateShutDown, StopStep, InitiateSequenceShutDown, WaitForShutDown,
     WaitForShutDownComplete, DrainSequence, AllSequencesDown, ShutDownWorker, DeleteWorker,
     ShutDownDone, poolVars
<1>3. CASE InitiateShutDown
  <2>1. /\ stop.pc = "up" /\ pool_shutdown' = TRUE /\ stop'.pc = "initiate"
        /\ stop'.todo = all_sequences /\ stop'.seq = stop.seq /\ stop'.worker = stop.worker
        /\ UNCHANGED <<active_workers, available_workers, wk, work_queue>>
    BY <1>1, <1>3 DEF InitiateShutDown, seqVars
  <2>2. QED
    BY <1>2, <2>1 DEF Ending, Closing, Emptied, Staffed, Open
<1>4. ASSUME NEW s \in Sequences, InitiateSequenceShutDown(s) PROVE Ending'
  <2>1. /\ stop.pc = "initiate" /\ stop'.pc = "initiate" /\ stop'.todo = stop.todo \ {s}
        /\ stop'.seq = stop.seq /\ stop'.worker = stop.worker
        /\ UNCHANGED <<pool_shutdown, active_workers, available_workers, wk, work_queue>>
        /\ shutdown' = [shutdown EXCEPT ![s] = TRUE]
    BY <1>1, <1>4 DEF InitiateSequenceShutDown, poolVars, SetShutDown
  <2>2. \A t \in all_sequences \ stop'.todo : shutdown'[t]
    BY <1>1, <2>1 DEF Ending, Closing
  <2>3. QED
    BY <1>2, <2>1, <2>2 DEF Ending, Closing, Emptied, Staffed, Open
<1>5. CASE WaitForShutDownComplete
  <2>1. /\ stop.pc = "initiate" /\ stop.todo = {} /\ stop'.pc = "wait"
        /\ stop'.todo = all_sequences /\ stop'.seq = stop.seq /\ stop'.worker = stop.worker
        /\ UNCHANGED <<pool_shutdown, shutdown, active_workers, available_workers, wk, work_queue>>
    BY <1>1, <1>5 DEF WaitForShutDownComplete, poolVars, seqVars
  <2>2. QED
    BY <1>2, <2>1 DEF Ending, Closing, Emptied, Staffed, Open
<1>6. ASSUME NEW s \in Sequences, WaitForShutDown(s) PROVE Ending'
  <2>1. /\ stop.pc = "wait" /\ stop'.pc = "waiting" /\ stop'.todo = stop.todo \ {s}
        /\ stop'.seq = s /\ stop'.worker = stop.worker
        /\ UNCHANGED <<pool_shutdown, active_workers, available_workers, wk, work_queue>>
        /\ shutdown' = [shutdown EXCEPT ![s] = TRUE] /\ pool' = [pool EXCEPT ![s] = FALSE]
    BY <1>1, <1>6 DEF WaitForShutDown, poolVars
  <2>2. Closing'
    <3>1. \A t \in all_sequences : shutdown'[t]
      BY <1>1, <2>1 DEF Ending, Closing, Open
    <3>2. QED
      BY <1>2, <2>1, <3>1 DEF Ending, Closing, Open
  <2>3. stop.seq = None /\ \A t \in all_sequences : t # None
    BY <1>1, <2>1, PoolAssumption DEF Ending, Emptied
  <2>4. \A t \in all_sequences \ stop'.todo : ~pool'[t] /\ (t = stop'.seq \/ work_queue'[t] = <<>>)
    BY <1>1, <2>1, <2>3 DEF Ending, Emptied, Open
  <2>5. Emptied'
    BY <1>2, <2>1, <2>4 DEF Ending, Emptied, Open
  <2>6. Staffed'
    BY <2>1 DEF Ending, Staffed
  <2>7. QED
    BY <2>2, <2>5, <2>6 DEF Ending
<1>7. CASE DrainSequence
  <2>1. /\ stop.pc = "waiting" /\ stop.seq \in Sequences
        /\ UNCHANGED <<pool_shutdown, shutdown, pool, active_workers, available_workers, wk>>
    BY <1>7 DEF DrainSequence, poolVars, TypeInv, PointersOK
  <2>2. CASE CancelOldest(stop.seq) /\ UNCHANGED stop
    <3>1. \A t \in Sequences : work_queue[t] = <<>> => work_queue'[t] = <<>>
      BY <2>1, <2>2, CancelOldestEmpties
    <3>2. Closing' /\ Emptied'
      BY <1>2, <2>1, <2>2, <3>1, EmptiedStay DEF Ending
    <3>3. QED
      BY <2>1, <2>2, <3>2 DEF Ending, Staffed
  <2>3. CASE /\ work_queue[stop.seq] = <<>> /\ UNCHANGED work_queue
             /\ stop' = [stop EXCEPT !.pc = "wait", !.seq = None]
    <3>1. /\ stop'.pc = "wait" /\ stop'.seq = None /\ stop'.todo = stop.todo
          /\ stop'.worker = stop.worker
      BY <1>1, <2>3
    <3>2. QED
      BY <1>2, <2>1, <2>3, <3>1 DEF Ending, Closing, Emptied, Staffed, Open
  <2>4. QED
    BY <1>7, <2>2, <2>3 DEF DrainSequence
\* From the last sequence on the queues stay as they are.
<1>8. ASSUME stop.pc \in {"wait", "workers", "join"}, stop'.pc \in {"workers", "join", "done"},
             stop.todo = {}, stop'.todo = {}, stop'.seq = stop.seq,
             UNCHANGED <<pool_shutdown, shutdown, pool, work_queue>>
      PROVE  Closing' /\ Emptied'
  BY <1>2, <1>8 DEF Ending, Closing, Emptied, Open
<1>9. CASE AllSequencesDown
  <2>1. /\ stop.pc = "wait" /\ stop'.pc = "workers" /\ stop.todo = {} /\ stop'.todo = {}
        /\ stop'.seq = stop.seq /\ stop'.worker = stop.worker
        /\ UNCHANGED <<pool_shutdown, shutdown, pool, work_queue, active_workers,
                       available_workers, wk>>
    BY <1>1, <1>9 DEF AllSequencesDown, poolVars, seqVars
  <2>2. QED
    BY <1>8, <2>1 DEF Ending, Staffed
<1>10. ASSUME NEW w \in Workers, ShutDownWorker(w) PROVE Ending'
  <2>1. /\ stop.pc = "workers" /\ stop'.pc = "join" /\ stop'.todo = stop.todo
        /\ stop'.seq = stop.seq /\ stop'.worker = w
        /\ UNCHANGED <<pool_shutdown, shutdown, pool, work_queue, wk>>
        /\ active_workers' = active_workers \ {w}
        /\ available_workers' = available_workers \ {w}
    BY <1>1, <1>10 DEF ShutDownWorker, seqVars
  <2>2. stop.todo = {} /\ stop.worker = None
    BY <2>1 DEF Ending, Emptied, Staffed
  <2>3. Staffed'
    BY <2>1, <2>2, PoolAssumption DEF Ending, Staffed
  <2>4. QED
    BY <1>8, <2>1, <2>2, <2>3 DEF Ending
<1>11. ASSUME NEW w \in Workers, DeleteWorker(w) PROVE Ending'
  <2>1. /\ stop.pc = "join" /\ stop.worker = w /\ stop'.pc = "workers"
        /\ stop'.todo = stop.todo /\ stop'.seq = stop.seq /\ stop'.worker = None
        /\ UNCHANGED <<pool_shutdown, shutdown, pool, work_queue, active_workers,
                       available_workers>>
        /\ wk' = [wk EXCEPT ![w] = Thread("deleted", None, None)]
    BY <1>1, <1>11 DEF DeleteWorker, poolVars, seqVars
  <2>2. stop.todo = {}
    BY <2>1 DEF Ending, Emptied
  <2>3. wk'[w].pc = "deleted" /\ \A v \in Workers : v # w => wk'[v] = wk[v]
    BY <1>1, <2>1 DEF Thread
  <2>4. Staffed'
    BY <2>1, <2>3 DEF Ending, Staffed, NoThread
  <2>5. QED
    BY <1>8, <2>1, <2>2, <2>4 DEF Ending
<1>12. CASE ShutDownDone
  <2>1. /\ stop.pc = "workers" /\ stop'.pc = "done" /\ stop'.todo = stop.todo
        /\ stop'.seq = stop.seq /\ stop'.worker = stop.worker
        /\ active_workers = {} /\ available_workers = {}
        /\ UNCHANGED <<pool_shutdown, shutdown, pool, work_queue, active_workers,
                       available_workers, wk>>
    BY <1>1, <1>12 DEF ShutDownDone, poolVars, seqVars
  <2>2. stop.todo = {}
    BY <2>1 DEF Ending, Emptied
  <2>3. QED
    BY <1>8, <2>1, <2>2 DEF Ending, Staffed
<1>13. QED
  BY <1>3, <1>4, <1>5, <1>6, <1>7, <1>9, <1>10, <1>11, <1>12 DEF StopStep

\* When WaitForShutDownComplete returns no function waits and none runs, for
\* every use of the interface: with Adds past sequence_mutex_ under way, load
\* shedding, queues bounded by one and CancelPendingFunctions.
THEOREM QuietAtTheEnd == Spec => []QuietWhenDown
<1>1. TypeInv /\ Allocated /\ Ending /\ [Next]_vars => Allocated' /\ Ending'
  <2> SUFFICES ASSUME TypeInv, Allocated, Ending, [Next]_vars PROVE Allocated' /\ Ending'
    OBVIOUS
  <2>1. CASE UNCHANGED vars
    BY <2>1 DEF vars, poolVars, seqVars, Allocated, Ending, Closing, Emptied, Staffed, Open,
       NoThread
  <2>2. CASE Next
    <3>1. Allocated'
      BY <2>2, ClientStartAllocated, ClientStepAllocated, WorkerStepAllocated, StopAllocated
      DEF Next
    <3>2. Ending'
      BY <2>2, ClientStartEnding, ClientStepEnding, WorkerEnding, StopEnding DEF Next
    <3>3. QED
      BY <3>1, <3>2
  <2>3. QED
    BY <2>1, <2>2
<1>2. TypeInv /\ Ending /\ Ownership => QuietWhenDown
  <2> SUFFICES ASSUME TypeInv, Ending, Ownership, stop.pc = "done", NEW f \in Functions
               PROVE  fstate[f] \notin {"queued", "running"}
    BY DEF QuietWhenDown
  <2>1. \A s \in Sequences : work_queue[s] = <<>>
    BY PoolAssumption DEF Ending, Emptied, Open
  <2>2. Places(f) = {}
    BY <2>1 DEF Places
  <2>3. \A w \in Workers : wk[w].pc \in NoThread
    BY PoolAssumption DEF Ending, Staffed
  <2>4. Runners(f) = {}
    BY <2>3 DEF Runners, NoThread
  <2>5. QED
    BY <2>2, <2>4 DEF Ownership
<1>3. QED
  BY <1>1, <1>2, AllocatedInit, TypeInvariance, OneOwner, PTL DEF Spec
=============================================================================
