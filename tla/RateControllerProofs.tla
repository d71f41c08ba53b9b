------------------------- MODULE RateControllerProofs -------------------------
(***************************************************************************)
(* The RateController counts the slots of a host exactly, keeps its        *)
(* background fetches within the threshold and strands no queued fetch,    *)
(* for any finite number of threads and fetches, any hosts and controllers *)
(* and any thresholds.                                                     *)
(*                                                                         *)
(* The inductive invariant RateInv has three layers.  QueueInv: Fetch      *)
(* queues a fetch in a step after the one that found the host at its       *)
(* limit; FullWhileQueueing bridges the two, because the mutexes held in   *)
(* between keep every completion of that host away.  PlacesOK: a fetch is  *)
(* in one place only, so that a step that moves it moves nothing else.     *)
(* SlotsAccounted: the count of a host is the number of fetches and        *)
(* threads that hold a slot; it makes the count positive where QueueInv    *)
(* needs it and bounds the background fetches (InfoLimit).                 *)
(***************************************************************************)
EXTENDS RateController, SequenceTheorems, FiniteSetTheorems, TLAPS

LEMMA InitQueueInv == Init => QueueInv
<1> SUFFICES ASSUME Init PROVE QueueInv
  OBVIOUS
<1>1. fetch_queue \in [Fetches -> Seq(Fetches)]
  BY EmptySeq DEF Init
<1>2. thread \in [Threads -> [pc : ThreadStates, fetch : Fetches \cup {None},
                              info : Fetches \cup {None}]]
  BY DEF Init, Idle, Thread, ThreadStates
<1>7. shut_down \in BOOLEAN
  BY DEF Init
<1>8. /\ fstate \in [Fetches -> FetchStates]
      /\ answers \in [Fetches -> Nat]
      /\ num_outbound_fetches \in [Fetches -> Int]
  BY DEF Init, FetchStates
<1>9. /\ fetch_info_map \in [Hosts -> Fetches \cup {None}]
      /\ info \in [Fetches -> Fetches \cup {None}]
      /\ pending_starts \in [Threads -> Seq(Fetches) \cup {None}]
      /\ queue_size \in Int
  BY DEF Init
<1>3. TypeOK
  BY <1>1, <1>2, <1>7, <1>8, <1>9 DEF TypeOK
<1>4. \A t \in Threads : thread[t].pc = "idle"
  BY DEF Init, Idle, Thread
<1>5. ThreadsOK /\ FullWhileQueueing
  BY <1>4 DEF ThreadsOK, FullWhileQueueing, HoldsFetch, HoldsInfo
<1>6. NobodyStranded
  BY DEF Init, NobodyStranded
<1> QED BY <1>3, <1>5, <1>6 DEF QueueInv

ThreadRecords == [pc : ThreadStates, fetch : Fetches \cup {None},
                  info : Fetches \cup {None}]

\* One thread moving on keeps the table of threads well typed.
LEMMA GoToType ==
  ASSUME thread \in [Threads -> ThreadRecords], NEW t \in Threads,
         NEW pc \in ThreadStates, NEW f \in Fetches \cup {None},
         NEW i \in Fetches \cup {None}, GoTo(t, pc, f, i)
  PROVE  /\ thread' \in [Threads -> ThreadRecords]
         /\ thread'[t] = [pc |-> pc, fetch |-> f, info |-> i]
         /\ \A u \in Threads \ {t} : thread'[u] = thread[u]
BY DEF GoTo, Thread, ThreadRecords

LEMMA ReturnType ==
  ASSUME thread \in [Threads -> ThreadRecords], NEW t \in Threads, Return(t)
  PROVE  /\ thread' \in [Threads -> ThreadRecords]
         /\ thread'[t].pc \in {"idle", "base"}
         /\ thread'[t].pc = "base" => pending_starts[t] # None
         /\ \A u \in Threads \ {t} : thread'[u] = thread[u]
<1>1. (IF pending_starts[t] = None THEN "idle" ELSE "base") \in ThreadStates
  BY DEF ThreadStates
<1> QED BY <1>1 DEF Return, GoTo, Thread, ThreadRecords

\* What QueueInv says of the threads when only thread t has moved.
LEMMA OthersKeep ==
  ASSUME QueueInv, NEW t \in Threads,
         \A u \in Threads \ {t} : thread'[u] = thread[u],
         \A u \in Threads \ {t} : pending_starts'[u] = pending_starts[u],
         thread'[t].pc \in HoldsFetch => thread'[t].fetch \in Fetches,
         thread'[t].pc = "lookup" => host[thread'[t].fetch] \in Hosts,
         thread'[t].pc \in HoldsInfo => thread'[t].info \in Fetches,
         thread'[t].pc \in {"loop", "base"} => pending_starts'[t] # None
  PROVE  ThreadsOK'
BY DEF QueueInv, ThreadsOK

\* A step that leaves counts and queues alone, and takes no thread away from
\* "pop" or into "enqueue" against the limit, keeps the queue part.
LEMMA QuietStep ==
  ASSUME QueueInv, NEW t \in Threads,
         \A u \in Threads \ {t} : thread'[u] = thread[u],
         UNCHANGED <<num_outbound_fetches, fetch_queue>>,
         thread[t].pc # "pop",
         thread'[t].pc = "enqueue" =>
           num_outbound_fetches[thread'[t].info] >= OutgoingThreshold
  PROVE  FullWhileQueueing' /\ NobodyStranded'
<1>1. FullWhileQueueing'
  BY DEF QueueInv, FullWhileQueueing
<1>2. NobodyStranded'
  <2> SUFFICES ASSUME NEW i \in Fetches, fetch_queue[i] # <<>>,
                      ~(num_outbound_fetches[i] > 0)
               PROVE  \E u \in Threads : thread'[u].pc = "pop" /\ thread'[u].info = i
    BY DEF NobodyStranded
  <2>1. PICK u \in Threads : thread[u].pc = "pop" /\ thread[u].info = i
    BY DEF QueueInv, NobodyStranded
  <2> QED BY <2>1
<1> QED BY <1>1, <1>2

LEMMA FetchStep ==
  ASSUME QueueInv, NEW t \in Threads, NEW f \in Fetches, Fetch(t, f)
  PROVE  QueueInv'
<1> USE DEF Fetch, Answer
<1>0. thread \in [Threads -> ThreadRecords]
  BY DEF QueueInv, TypeOK, ThreadRecords
<1>1. UNCHANGED <<infoVars, queue_size, shut_down, info, pending_starts>>
  OBVIOUS
<1>2. fstate' \in [Fetches -> FetchStates] /\ answers' \in [Fetches -> Nat]
  <2>1. \E v \in {"answered", "outgoing", "calling"} :
          fstate' = [fstate EXCEPT ![f] = v]
    OBVIOUS
  <2>2. answers' = [answers EXCEPT ![f] = @ + 1] \/ answers' = answers
    OBVIOUS
  <2>3. fstate' \in [Fetches -> FetchStates]
    BY <2>1 DEF QueueInv, TypeOK, FetchStates
  <2>4. answers' \in [Fetches -> Nat]
    BY <2>2 DEF QueueInv, TypeOK
  <2> QED BY <2>3, <2>4
<1>3. CASE UNCHANGED thread
  BY <1>1, <1>2, <1>3
     DEF infoVars, QueueInv, TypeOK, ThreadsOK, FullWhileQueueing, NobodyStranded
<1>4. CASE host[f] # InvalidUrl /\ GoTo(t, "lookup", f, None)
  <2>1. /\ thread' \in [Threads -> ThreadRecords]
        /\ thread'[t] = [pc |-> "lookup", fetch |-> f, info |-> None]
        /\ \A u \in Threads \ {t} : thread'[u] = thread[u]
    BY <1>0, <1>4, GoToType DEF ThreadStates
  <2>2. host[f] \in Hosts
    BY <1>4, RateAssumption
  <2>3. ThreadsOK'
    BY <1>1, <2>1, <2>2, OthersKeep DEF HoldsFetch, HoldsInfo
  <2>4. FullWhileQueueing' /\ NobodyStranded'
    BY <1>1, <2>1, QuietStep DEF infoVars
  <2>5. TypeOK'
    BY <1>1, <1>2, <2>1 DEF QueueInv, TypeOK, infoVars, ThreadRecords
  <2> QED BY <2>3, <2>4, <2>5 DEF QueueInv
<1> QED BY <1>3, <1>4

LEMMA LookupStep ==
  ASSUME QueueInv, NEW t \in Threads, Lookup(t)
  PROVE  QueueInv'
<1> DEFINE f == thread[t].fetch
           h == host[f]
           i == IF fetch_info_map[h] = None THEN f ELSE fetch_info_map[h]
<1>0. thread \in [Threads -> ThreadRecords]
  BY DEF QueueInv, TypeOK, ThreadRecords
<1>1. /\ thread[t].pc = "lookup"
      /\ fetch_info_map' = [fetch_info_map EXCEPT ![h] = i]
      /\ info' = [info EXCEPT ![f] = i]
      /\ UNCHANGED <<fetch_queue, queue_size, shut_down, answers, pending_starts>>
  BY DEF Lookup
<1>2. f \in Fetches /\ h \in Hosts
  BY <1>1 DEF QueueInv, ThreadsOK, HoldsFetch
<1>3. i \in Fetches
  BY <1>2 DEF QueueInv, TypeOK
<1>4. \/ /\ num_outbound_fetches' = [num_outbound_fetches EXCEPT ![i] = @ + 1]
         /\ fstate' = [fstate EXCEPT ![f] = "charged"]
         /\ GoTo(t, "start", f, i)
      \/ /\ ~CanTriggerFetch(i)
         /\ GoTo(t, IF MayQueue(i) THEN "enqueue" ELSE "drop", f, i)
         /\ UNCHANGED <<num_outbound_fetches, fstate>>
  BY DEF Lookup
<1> HIDE DEF f, h, i
<1>5. fetch_info_map' \in [Hosts -> Fetches \cup {None}]
      /\ info' \in [Fetches -> Fetches \cup {None}]
  BY <1>1, <1>2, <1>3 DEF QueueInv, TypeOK
<1>6. CASE /\ num_outbound_fetches' = [num_outbound_fetches EXCEPT ![i] = @ + 1]
           /\ fstate' = [fstate EXCEPT ![f] = "charged"]
           /\ GoTo(t, "start", f, i)
  <2>1. /\ thread' \in [Threads -> ThreadRecords]
        /\ thread'[t] = [pc |-> "start", fetch |-> f, info |-> i]
        /\ \A u \in Threads \ {t} : thread'[u] = thread[u]
    BY <1>0, <1>2, <1>3, <1>6, GoToType DEF ThreadStates
  <2>2. ThreadsOK'
    BY <1>1, <1>2, <1>3, <2>1, OthersKeep DEF HoldsFetch, HoldsInfo
  <2>3. num_outbound_fetches' \in [Fetches -> Int]
        /\ \A j \in Fetches : num_outbound_fetches'[j] >= num_outbound_fetches[j]
    BY <1>3, <1>6 DEF QueueInv, TypeOK
  <2>4. fstate' \in [Fetches -> FetchStates]
    BY <1>2, <1>6 DEF QueueInv, TypeOK, FetchStates
  <2>5. TypeOK'
    BY <1>1, <1>5, <2>1, <2>3, <2>4 DEF QueueInv, TypeOK, ThreadRecords
  <2>6. FullWhileQueueing'
    <3> SUFFICES ASSUME NEW u \in Threads, thread'[u].pc = "enqueue"
                 PROVE  num_outbound_fetches'[thread'[u].info] >= OutgoingThreshold
      BY DEF FullWhileQueueing
    <3>1. u # t /\ thread'[u] = thread[u]
      BY <2>1
    <3>2. thread[u].info \in Fetches
          /\ num_outbound_fetches[thread[u].info] >= OutgoingThreshold
      BY <3>1 DEF QueueInv, FullWhileQueueing, ThreadsOK, HoldsInfo
    <3> QED BY <2>3, <3>1, <3>2, RateAssumption DEF QueueInv, TypeOK
  <2>7. NobodyStranded'
    <3> SUFFICES ASSUME NEW j \in Fetches, fetch_queue[j] # <<>>
                 PROVE  \/ num_outbound_fetches'[j] > 0
                        \/ \E u \in Threads : thread'[u].pc = "pop" /\ thread'[u].info = j
      BY <1>1 DEF NobodyStranded
    <3>1. CASE num_outbound_fetches[j] > 0
      BY <3>1, <2>3 DEF QueueInv, TypeOK
    <3>2. CASE \E u \in Threads : thread[u].pc = "pop" /\ thread[u].info = j
      <4>1. PICK u \in Threads : thread[u].pc = "pop" /\ thread[u].info = j
        BY <3>2
      <4> QED BY <4>1, <1>1, <2>1
    <3> QED BY <3>1, <3>2 DEF QueueInv, NobodyStranded
  <2> QED BY <2>2, <2>5, <2>6, <2>7 DEF QueueInv
<1>7. CASE /\ ~CanTriggerFetch(i)
           /\ GoTo(t, IF MayQueue(i) THEN "enqueue" ELSE "drop", f, i)
           /\ UNCHANGED <<num_outbound_fetches, fstate>>
  <2> DEFINE pc == IF MayQueue(i) THEN "enqueue" ELSE "drop"
  <2>0. pc \in {"enqueue", "drop"}
    OBVIOUS
  <2> HIDE DEF pc
  <2>1. /\ thread' \in [Threads -> ThreadRecords]
        /\ thread'[t] = [pc |-> pc, fetch |-> f, info |-> i]
        /\ \A u \in Threads \ {t} : thread'[u] = thread[u]
    <3>1. GoTo(t, pc, f, i)
      BY <1>7 DEF pc
    <3>2. pc \in ThreadStates
      BY <2>0 DEF ThreadStates
    <3> QED BY <1>0, <1>2, <1>3, <3>1, <3>2, GoToType
  <2>2. ThreadsOK'
    BY <1>1, <1>2, <1>3, <2>0, <2>1, OthersKeep DEF HoldsFetch, HoldsInfo
  <2>3. num_outbound_fetches[i] >= OutgoingThreshold
    BY <1>3, <1>7, RateAssumption DEF CanTriggerFetch, QueueInv, TypeOK
  <2>4. FullWhileQueueing' /\ NobodyStranded'
    BY <1>1, <1>7, <2>1, <2>3, QuietStep
  <2>5. TypeOK'
    BY <1>1, <1>5, <1>7, <2>1 DEF QueueInv, TypeOK, ThreadRecords
  <2> QED BY <2>2, <2>4, <2>5 DEF QueueInv
<1> QED BY <1>4, <1>6, <1>7

LEMMA EnqueueStep ==
  ASSUME QueueInv, NEW t \in Threads, Enqueue(t)
  PROVE  QueueInv'
<1> DEFINE f == thread[t].fetch
           i == thread[t].info
<1>0. thread \in [Threads -> ThreadRecords]
  BY DEF QueueInv, TypeOK, ThreadRecords
<1>1. /\ thread[t].pc = "enqueue"
      /\ fetch_queue' = [fetch_queue EXCEPT ![i] = Append(@, f)]
      /\ queue_size' = queue_size + 1
      /\ fstate' = [fstate EXCEPT ![f] = "queued"]
      /\ Return(t)
      /\ UNCHANGED <<fetch_info_map, num_outbound_fetches, shut_down, info,
                     answers, pending_starts>>
  BY DEF Enqueue
<1>2. f \in Fetches /\ i \in Fetches /\ num_outbound_fetches[i] >= OutgoingThreshold
  BY <1>1 DEF QueueInv, ThreadsOK, HoldsFetch, HoldsInfo, FullWhileQueueing
<1>3. /\ thread' \in [Threads -> ThreadRecords]
      /\ thread'[t].pc \in {"idle", "base"}
      /\ thread'[t].pc = "base" => pending_starts[t] # None
      /\ \A u \in Threads \ {t} : thread'[u] = thread[u]
  BY <1>0, <1>1, ReturnType
<1> HIDE DEF f, i
<1>4. ThreadsOK'
  BY <1>1, <1>3, OthersKeep DEF HoldsFetch, HoldsInfo
<1>5. Append(fetch_queue[i], f) \in Seq(Fetches)
  BY <1>2, AppendProperties DEF QueueInv, TypeOK
<1>6. fetch_queue' \in [Fetches -> Seq(Fetches)]
      /\ \A j \in Fetches \ {i} : fetch_queue'[j] = fetch_queue[j]
  BY <1>1, <1>2, <1>5 DEF QueueInv, TypeOK
<1>7. fstate' \in [Fetches -> FetchStates] /\ queue_size' \in Int
  BY <1>1, <1>2 DEF QueueInv, TypeOK, FetchStates
<1>8. TypeOK'
  BY <1>1, <1>3, <1>6, <1>7 DEF QueueInv, TypeOK, ThreadRecords
<1>9. FullWhileQueueing'
  BY <1>1, <1>3 DEF QueueInv, FullWhileQueueing
<1>10. NobodyStranded'
  <2> SUFFICES ASSUME NEW j \in Fetches, fetch_queue'[j] # <<>>
               PROVE  \/ num_outbound_fetches[j] > 0
                      \/ \E u \in Threads : thread'[u].pc = "pop" /\ thread'[u].info = j
    BY <1>1 DEF NobodyStranded
  <2>1. CASE j = i
    BY <2>1, <1>2, RateAssumption DEF QueueInv, TypeOK
  <2>2. CASE j # i /\ \E u \in Threads : thread[u].pc = "pop" /\ thread[u].info = j
    <3>1. PICK u \in Threads : thread[u].pc = "pop" /\ thread[u].info = j
      BY <2>2
    <3> QED BY <3>1, <1>1, <1>3
  <2> QED BY <1>6, <2>1, <2>2 DEF QueueInv, NobodyStranded
<1> QED BY <1>4, <1>8, <1>9, <1>10 DEF QueueInv

LEMMA StartStep ==
  ASSUME QueueInv, NEW t \in Threads, Start(t)
  PROVE  QueueInv'
<1>0. thread \in [Threads -> ThreadRecords]
  BY DEF QueueInv, TypeOK, ThreadRecords
<1>1. /\ thread[t].pc = "start"
      /\ fstate' = [fstate EXCEPT ![thread[t].fetch] = "outgoing"]
      /\ Return(t)
      /\ UNCHANGED <<infoVars, queue_size, shut_down, info, answers, pending_starts>>
  BY DEF Start
<1>2. /\ thread' \in [Threads -> ThreadRecords]
      /\ thread'[t].pc \in {"idle", "base"}
      /\ thread'[t].pc = "base" => pending_starts[t] # None
      /\ \A u \in Threads \ {t} : thread'[u] = thread[u]
  BY <1>0, <1>1, ReturnType
<1>3. ThreadsOK'
  BY <1>1, <1>2, OthersKeep DEF HoldsFetch, HoldsInfo
<1>4. FullWhileQueueing' /\ NobodyStranded'
  BY <1>1, <1>2, QuietStep DEF infoVars
<1>5. fstate' \in [Fetches -> FetchStates]
  BY <1>1 DEF QueueInv, TypeOK, FetchStates
<1>6. TypeOK'
  BY <1>1, <1>2, <1>5 DEF QueueInv, TypeOK, ThreadRecords, infoVars
<1> QED BY <1>3, <1>4, <1>6 DEF QueueInv

\* The two steps that answer a fetch while a thread keeps its HostFetchInfo.
LEMMA AnswerType ==
  ASSUME QueueInv, NEW f \in Fetches, Answer(f)
  PROVE  fstate' \in [Fetches -> FetchStates] /\ answers' \in [Fetches -> Nat]
BY DEF Answer, QueueInv, TypeOK, FetchStates

LEMMA DropStep ==
  ASSUME QueueInv, NEW t \in Threads, Drop(t)
  PROVE  QueueInv'
<1>0. thread \in [Threads -> ThreadRecords]
  BY DEF QueueInv, TypeOK, ThreadRecords
<1>1. /\ thread[t].pc = "drop"
      /\ Answer(thread[t].fetch)
      /\ GoTo(t, "delete", None, thread[t].info)
      /\ UNCHANGED <<infoVars, queue_size, shut_down, info, pending_starts>>
  BY DEF Drop
<1>2. thread[t].fetch \in Fetches /\ thread[t].info \in Fetches
  BY <1>1 DEF QueueInv, ThreadsOK, HoldsFetch, HoldsInfo
<1>3. /\ thread' \in [Threads -> ThreadRecords]
      /\ thread'[t] = [pc |-> "delete", fetch |-> None, info |-> thread[t].info]
      /\ \A u \in Threads \ {t} : thread'[u] = thread[u]
  BY <1>0, <1>1, <1>2, GoToType DEF ThreadStates
<1>4. ThreadsOK'
  BY <1>1, <1>2, <1>3, OthersKeep DEF HoldsFetch, HoldsInfo
<1>5. FullWhileQueueing' /\ NobodyStranded'
  BY <1>1, <1>3, QuietStep DEF infoVars
<1>6. fstate' \in [Fetches -> FetchStates] /\ answers' \in [Fetches -> Nat]
  BY <1>1, <1>2, AnswerType
<1>7. TypeOK'
  BY <1>1, <1>3, <1>6 DEF QueueInv, TypeOK, ThreadRecords, infoVars
<1> QED BY <1>4, <1>5, <1>7 DEF QueueInv

LEMMA DeleteStep ==
  ASSUME QueueInv, NEW t \in Threads, DeleteFetchInfoIfPossible(t)
  PROVE  QueueInv'
<1>0. thread \in [Threads -> ThreadRecords]
  BY DEF QueueInv, TypeOK, ThreadRecords
<1>1. /\ thread[t].pc = "delete"
      /\ \/ fetch_info_map' = [fetch_info_map EXCEPT ![host[thread[t].info]] = None]
         \/ fetch_info_map' = fetch_info_map
      /\ Return(t)
      /\ UNCHANGED <<num_outbound_fetches, fetch_queue, queue_size, shut_down,
                     fstate, info, answers, pending_starts>>
  BY DEF DeleteFetchInfoIfPossible
<1>2. /\ thread' \in [Threads -> ThreadRecords]
      /\ thread'[t].pc \in {"idle", "base"}
      /\ thread'[t].pc = "base" => pending_starts[t] # None
      /\ \A u \in Threads \ {t} : thread'[u] = thread[u]
  BY <1>0, <1>1, ReturnType
<1>3. ThreadsOK'
  BY <1>1, <1>2, OthersKeep DEF HoldsFetch, HoldsInfo
<1>4. FullWhileQueueing' /\ NobodyStranded'
  BY <1>1, <1>2, QuietStep
<1>5. fetch_info_map' \in [Hosts -> Fetches \cup {None}]
  BY <1>1 DEF QueueInv, TypeOK
<1>6. TypeOK'
  BY <1>1, <1>2, <1>5 DEF QueueInv, TypeOK, ThreadRecords
<1> QED BY <1>3, <1>4, <1>6 DEF QueueInv

LEMMA HandleDoneStep ==
  ASSUME QueueInv, NEW t \in Threads, NEW f \in Fetches, HandleDone(t, f)
  PROVE  QueueInv'
<1>0. thread \in [Threads -> ThreadRecords]
  BY DEF QueueInv, TypeOK, ThreadRecords
<1>1. /\ thread[t].pc \in {"idle", "base"}
      /\ Answer(f)
      /\ UNCHANGED <<infoVars, queue_size, shut_down, info, pending_starts>>
      /\ UNCHANGED thread \/ (info[f] # None /\ GoTo(t, "decrement", f, info[f]))
  BY DEF HandleDone
<1>2. fstate' \in [Fetches -> FetchStates] /\ answers' \in [Fetches -> Nat]
  BY <1>1, AnswerType
<1>3. CASE UNCHANGED thread
  BY <1>1, <1>2, <1>3
     DEF infoVars, QueueInv, TypeOK, ThreadsOK, FullWhileQueueing, NobodyStranded
<1>4. CASE info[f] # None /\ GoTo(t, "decrement", f, info[f])
  <2>0. info[f] \in Fetches
    BY <1>4 DEF QueueInv, TypeOK
  <2>1. /\ thread' \in [Threads -> ThreadRecords]
        /\ thread'[t] = [pc |-> "decrement", fetch |-> f, info |-> info[f]]
        /\ \A u \in Threads \ {t} : thread'[u] = thread[u]
    BY <1>0, <1>4, <2>0, GoToType DEF ThreadStates
  <2>2. ThreadsOK'
    BY <1>1, <2>0, <2>1, OthersKeep DEF HoldsFetch, HoldsInfo
  <2>3. FullWhileQueueing' /\ NobodyStranded'
    BY <1>1, <2>1, QuietStep DEF infoVars
  <2>4. TypeOK'
    BY <1>1, <1>2, <2>1 DEF QueueInv, TypeOK, infoVars, ThreadRecords
  <2> QED BY <2>2, <2>3, <2>4 DEF QueueInv
<1> QED BY <1>1, <1>3, <1>4

\* Decrement and Release: the slot is given up by a thread that will look at
\* the queue next, and never while Fetch is queueing for the same host.
LEMMA GiveUpSlotStep ==
  ASSUME QueueInv, NEW t \in Threads, Decrement(t) \/ Release(t)
  PROVE  QueueInv'
<1> DEFINE i == thread[t].info
<1>0. thread \in [Threads -> ThreadRecords]
  BY DEF QueueInv, TypeOK, ThreadRecords
<1>1. /\ thread[t].pc \in {"decrement", "release"}
      /\ \A u \in Threads : thread[u].pc = "enqueue" => thread[u].info # i
      /\ num_outbound_fetches' = [num_outbound_fetches EXCEPT ![i] = @ - 1]
      /\ GoTo(t, "pop", None, i)
      /\ UNCHANGED <<fetch_info_map, fetch_queue, queue_size, shut_down, fstate,
                     info, answers, pending_starts>>
  BY DEF Decrement, Release, InfoUnlocked, Decremented
<1>2. i \in Fetches
  BY <1>1 DEF QueueInv, ThreadsOK, HoldsInfo
<1>3. /\ thread' \in [Threads -> ThreadRecords]
      /\ thread'[t] = [pc |-> "pop", fetch |-> None, info |-> i]
      /\ \A u \in Threads \ {t} : thread'[u] = thread[u]
  BY <1>0, <1>1, <1>2, GoToType DEF ThreadStates
<1> HIDE DEF i
<1>4. ThreadsOK'
  BY <1>1, <1>2, <1>3, OthersKeep DEF HoldsFetch, HoldsInfo
<1>5. /\ num_outbound_fetches' \in [Fetches -> Int]
      /\ \A j \in Fetches \ {i} : num_outbound_fetches'[j] = num_outbound_fetches[j]
  BY <1>1, <1>2 DEF QueueInv, TypeOK
<1>6. TypeOK'
  BY <1>1, <1>3, <1>5 DEF QueueInv, TypeOK, ThreadRecords
<1>7. FullWhileQueueing'
  <2> SUFFICES ASSUME NEW u \in Threads, thread'[u].pc = "enqueue"
               PROVE  num_outbound_fetches'[thread'[u].info] >= OutgoingThreshold
    BY DEF FullWhileQueueing
  <2>1. thread'[u] = thread[u]
    BY <1>3
  <2>2. thread[u].info \in Fetches \ {i}
    BY <1>1, <2>1 DEF QueueInv, ThreadsOK, HoldsInfo
  <2> QED BY <1>5, <2>1, <2>2 DEF QueueInv, FullWhileQueueing
<1>8. NobodyStranded'
  <2> SUFFICES ASSUME NEW j \in Fetches, fetch_queue[j] # <<>>
               PROVE  \/ num_outbound_fetches'[j] > 0
                      \/ \E u \in Threads : thread'[u].pc = "pop" /\ thread'[u].info = j
    BY <1>1 DEF NobodyStranded
  <2>1. CASE j = i
    BY <2>1, <1>3
  <2>2. CASE j # i /\ num_outbound_fetches[j] > 0
    BY <2>2, <1>5
  <2>3. CASE \E u \in Threads : thread[u].pc = "pop" /\ thread[u].info = j
    <3>1. PICK u \in Threads : thread[u].pc = "pop" /\ thread[u].info = j
      BY <2>3
    <3> QED BY <3>1, <1>1, <1>3
  <2> QED BY <2>1, <2>2, <2>3 DEF QueueInv, NobodyStranded
<1> QED BY <1>4, <1>6, <1>7, <1>8 DEF QueueInv

\* The counts are sums of cardinalities, so none is negative.
LEMMA SlotsFinite ==
  ASSUME NEW i \in Fetches
  PROVE  /\ IsFiniteSet(Slots(i)) /\ Cardinality(Slots(i)) \in Nat
         /\ IsFiniteSet(Releasing(i)) /\ Cardinality(Releasing(i)) \in Nat
<1>1. Slots(i) \subseteq Fetches /\ Releasing(i) \subseteq Threads
  BY DEF Slots, Releasing
<1>2. IsFiniteSet(Slots(i)) /\ IsFiniteSet(Releasing(i))
  BY <1>1, FS_Subset, RateAssumption
<1> QED BY <1>2, FS_CardinalityType

LEMMA PopStep ==
  ASSUME QueueInv, SlotsAccounted, NEW t \in Threads, PopNextFetch(t)
  PROVE  QueueInv'
<1> DEFINE i == thread[t].info
           g == Head(fetch_queue[i])
<1>0. thread \in [Threads -> ThreadRecords]
  BY DEF QueueInv, TypeOK, ThreadRecords
<1>1. /\ thread[t].pc = "pop"
      /\ UNCHANGED <<fetch_info_map, queue_size, shut_down, info, answers,
                     pending_starts>>
  BY DEF PopNextFetch
<1>2. i \in Fetches
  BY <1>1 DEF QueueInv, ThreadsOK, HoldsInfo
<1>3. \/ /\ fetch_queue[i] = <<>> \/ ~HasRoom(i)
         /\ GoTo(t, "delete", None, i)
         /\ UNCHANGED <<num_outbound_fetches, fetch_queue, fstate>>
      \/ /\ fetch_queue[i] # <<>>
         /\ fetch_queue' = [fetch_queue EXCEPT ![i] = Tail(@)]
         /\ num_outbound_fetches' = [num_outbound_fetches EXCEPT ![i] = @ + 1]
         /\ fstate' = [fstate EXCEPT ![g] = "popped"]
         /\ GoTo(t, "popped", g, i)
         /\ HasRoom(i)
  BY DEF PopNextFetch, PopHead, Charged
<1>5. CASE /\ fetch_queue[i] = <<>> \/ ~HasRoom(i)
           /\ GoTo(t, "delete", None, i)
           /\ UNCHANGED <<num_outbound_fetches, fetch_queue, fstate>>
  <2>1. /\ thread' \in [Threads -> ThreadRecords]
        /\ thread'[t] = [pc |-> "delete", fetch |-> None, info |-> i]
        /\ \A u \in Threads \ {t} : thread'[u] = thread[u]
    BY <1>0, <1>2, <1>5, GoToType DEF ThreadStates
  <2>0. fetch_queue[i] = <<>> \/ num_outbound_fetches[i] > 0
    BY <1>2, <1>5, RateAssumption DEF HasRoom, QueueInv, TypeOK
  <2> HIDE DEF i
  <2>2. ThreadsOK'
    BY <1>1, <1>2, <2>1, OthersKeep DEF HoldsFetch, HoldsInfo
  <2>3. TypeOK'
    BY <1>1, <1>5, <2>1 DEF QueueInv, TypeOK, ThreadRecords
  <2>4. FullWhileQueueing'
    BY <1>5, <2>1 DEF QueueInv, FullWhileQueueing
  <2>5. NobodyStranded'
    <3> SUFFICES ASSUME NEW j \in Fetches, fetch_queue[j] # <<>>,
                        ~(num_outbound_fetches[j] > 0)
                 PROVE  \E u \in Threads : thread'[u].pc = "pop" /\ thread'[u].info = j
      BY <1>5 DEF NobodyStranded
    <3>1. j # i
      BY <2>0
    <3>2. PICK u \in Threads : thread[u].pc = "pop" /\ thread[u].info = j
      BY DEF QueueInv, NobodyStranded
    <3>3. u # t
      BY <3>1, <3>2 DEF i
    <3> QED BY <3>2, <3>3, <2>1
  <2> QED BY <2>2, <2>3, <2>4, <2>5 DEF QueueInv
<1>6. CASE /\ fetch_queue[i] # <<>>
           /\ fetch_queue' = [fetch_queue EXCEPT ![i] = Tail(@)]
           /\ num_outbound_fetches' = [num_outbound_fetches EXCEPT ![i] = @ + 1]
           /\ fstate' = [fstate EXCEPT ![g] = "popped"]
           /\ GoTo(t, "popped", g, i)
           /\ HasRoom(i)
  <2>0. fetch_queue[i] \in Seq(Fetches)
    BY <1>2 DEF QueueInv, TypeOK
  <2>1. g \in Fetches /\ Tail(fetch_queue[i]) \in Seq(Fetches)
    BY <1>6, <2>0, HeadTailProperties
  <2>2. /\ thread' \in [Threads -> ThreadRecords]
        /\ thread'[t] = [pc |-> "popped", fetch |-> g, info |-> i]
        /\ \A u \in Threads \ {t} : thread'[u] = thread[u]
    BY <1>0, <1>2, <1>6, <2>1, GoToType DEF ThreadStates
  <2>3. \A u \in Threads : thread[u].pc = "enqueue" => thread[u].info # i
    BY DEF PopNextFetch, InfoUnlocked
  <2>4. \A u \in Threads : thread[u].pc = "pop" /\ u = t => thread[u].info = i
    OBVIOUS
  <2>5. /\ num_outbound_fetches' \in [Fetches -> Int]
        /\ \A j \in Fetches \ {i} : num_outbound_fetches'[j] = num_outbound_fetches[j]
        /\ num_outbound_fetches'[i] = num_outbound_fetches[i] + 1
    BY <1>2, <1>6 DEF QueueInv, TypeOK
  <2>6. /\ fetch_queue' \in [Fetches -> Seq(Fetches)]
        /\ \A j \in Fetches \ {i} : fetch_queue'[j] = fetch_queue[j]
    BY <1>2, <1>6, <2>1 DEF QueueInv, TypeOK
  <2>7. fstate' \in [Fetches -> FetchStates]
    BY <1>6, <2>1 DEF QueueInv, TypeOK, FetchStates
  <2> HIDE DEF i, g
  <2>8. ThreadsOK'
    BY <1>1, <1>2, <2>1, <2>2, OthersKeep DEF HoldsFetch, HoldsInfo
  <2>9. TypeOK'
    BY <1>1, <2>2, <2>5, <2>6, <2>7 DEF QueueInv, TypeOK, ThreadRecords
  <2>10. FullWhileQueueing'
    <3> SUFFICES ASSUME NEW u \in Threads, thread'[u].pc = "enqueue"
                 PROVE  num_outbound_fetches'[thread'[u].info] >= OutgoingThreshold
      BY DEF FullWhileQueueing
    <3>1. thread'[u] = thread[u]
      BY <2>2
    <3>2. thread[u].info \in Fetches \ {i}
      BY <2>3, <3>1 DEF QueueInv, ThreadsOK, HoldsInfo
    <3> QED BY <2>5, <3>1, <3>2 DEF QueueInv, FullWhileQueueing
  <2>11. NobodyStranded'
    <3> SUFFICES ASSUME NEW j \in Fetches, fetch_queue'[j] # <<>>
                 PROVE  \/ num_outbound_fetches'[j] > 0
                        \/ \E u \in Threads : thread'[u].pc = "pop" /\ thread'[u].info = j
      BY DEF NobodyStranded
    <3>1. CASE j # i
      <4>1. CASE num_outbound_fetches[j] > 0
        BY <3>1, <4>1, <2>5
      <4>2. CASE \E u \in Threads : thread[u].pc = "pop" /\ thread[u].info = j
        <5>1. PICK u \in Threads : thread[u].pc = "pop" /\ thread[u].info = j
          BY <4>2
        <5> QED BY <3>1, <5>1, <2>2, <2>4
      <4> QED BY <3>1, <4>1, <4>2, <2>6 DEF QueueInv, NobodyStranded
    <3>2. CASE j = i
      <4>1. num_outbound_fetches[i] >= 0
        BY <1>2, SlotsFinite DEF SlotsAccounted
      <4> QED BY <1>2, <3>2, <4>1, <2>5 DEF QueueInv, TypeOK
    <3> QED BY <3>1, <3>2
  <2> QED BY <2>8, <2>9, <2>10, <2>11 DEF QueueInv
<1> QED BY <1>3, <1>5, <1>6

LEMMA StartPoppedStep ==
  ASSUME QueueInv, NEW t \in Threads, StartPopped(t)
  PROVE  QueueInv'
<1> DEFINE f == thread[t].fetch
<1>0. thread \in [Threads -> ThreadRecords]
  BY DEF QueueInv, TypeOK, ThreadRecords
<1>1. /\ thread[t].pc = "popped"
      /\ queue_size' = queue_size - 1
      /\ fstate' = [fstate EXCEPT ![f] = "pending"]
      /\ \E pc \in {"loop", "base"} : GoTo(t, pc, None, None)
      /\ UNCHANGED <<infoVars, shut_down, info, answers>>
  BY DEF StartPopped, Uncounted
<1>2. f \in Fetches
  BY <1>1 DEF QueueInv, ThreadsOK, HoldsFetch
<1>3. \/ pending_starts' = [pending_starts EXCEPT ![t] = <<f>>]
      \/ /\ pending_starts[t] # None
         /\ pending_starts' = [pending_starts EXCEPT ![t] = Append(@, f)]
  BY DEF StartPopped, PushNested
<1> HIDE DEF f
<1>4. <<f>> \in Seq(Fetches)
  BY <1>2
<1>5. pending_starts[t] # None =>
        pending_starts[t] \in Seq(Fetches) /\ Append(pending_starts[t], f) \in Seq(Fetches)
  BY <1>2, AppendProperties DEF QueueInv, TypeOK
<1>6. /\ pending_starts' \in [Threads -> Seq(Fetches) \cup {None}]
      /\ pending_starts'[t] \in Seq(Fetches)
      /\ \A u \in Threads \ {t} : pending_starts'[u] = pending_starts[u]
  BY <1>3, <1>4, <1>5 DEF QueueInv, TypeOK
<1>7. PICK pc \in {"loop", "base"} : GoTo(t, pc, None, None)
  BY <1>1
<1>8. /\ thread' \in [Threads -> ThreadRecords]
      /\ thread'[t] = [pc |-> pc, fetch |-> None, info |-> None]
      /\ \A u \in Threads \ {t} : thread'[u] = thread[u]
  <2>1. pc \in ThreadStates
    BY DEF ThreadStates
  <2> QED BY <1>0, <1>7, <2>1, GoToType
<1>9. ThreadsOK'
  BY <1>6, <1>8, OthersKeep, RateAssumption DEF HoldsFetch, HoldsInfo
<1>10. FullWhileQueueing' /\ NobodyStranded'
  BY <1>1, <1>8, QuietStep DEF infoVars
<1>11. fstate' \in [Fetches -> FetchStates] /\ queue_size' \in Int
  BY <1>1, <1>2 DEF QueueInv, TypeOK, FetchStates
<1>12. TypeOK'
  BY <1>1, <1>6, <1>8, <1>11 DEF QueueInv, TypeOK, ThreadRecords, infoVars
<1> QED BY <1>9, <1>10, <1>12 DEF QueueInv

LEMMA DrainLoopStep ==
  ASSUME QueueInv, NEW t \in Threads, DrainLoop(t)
  PROVE  QueueInv'
<1> DEFINE q == pending_starts[t]
<1>0. thread \in [Threads -> ThreadRecords]
  BY DEF QueueInv, TypeOK, ThreadRecords
<1>1. /\ thread[t].pc \in {"loop", "base"}
      /\ UNCHANGED <<infoVars, queue_size, shut_down, info, answers>>
  BY DEF DrainLoop
<1>2. q \in Seq(Fetches)
  BY <1>1 DEF QueueInv, TypeOK, ThreadsOK
<1>3. CASE q = <<>>
  <2>1. /\ pending_starts' = [pending_starts EXCEPT ![t] = None]
        /\ GoTo(t, "idle", None, None)
        /\ UNCHANGED fstate
    BY <1>3 DEF DrainLoop, GoTo, Idle
  <2>2. /\ thread' \in [Threads -> ThreadRecords]
        /\ thread'[t] = [pc |-> "idle", fetch |-> None, info |-> None]
        /\ \A u \in Threads \ {t} : thread'[u] = thread[u]
    BY <1>0, <2>1, GoToType DEF ThreadStates
  <2>3. /\ pending_starts' \in [Threads -> Seq(Fetches) \cup {None}]
        /\ \A u \in Threads \ {t} : pending_starts'[u] = pending_starts[u]
    BY <2>1 DEF QueueInv, TypeOK
  <2>4. ThreadsOK'
    BY <2>2, <2>3, OthersKeep DEF HoldsFetch, HoldsInfo
  <2>5. FullWhileQueueing' /\ NobodyStranded'
    BY <1>1, <2>2, QuietStep DEF infoVars
  <2>6. TypeOK'
    BY <1>1, <2>1, <2>2, <2>3 DEF QueueInv, TypeOK, ThreadRecords, infoVars
  <2> QED BY <2>4, <2>5, <2>6 DEF QueueInv
<1>4. CASE q # <<>>
  <2>1. /\ pending_starts' = [pending_starts EXCEPT ![t] = Tail(@)]
        /\ fstate' = [fstate EXCEPT ![Head(q)] = "outgoing"]
        /\ GoTo(t, "base", None, None)
    BY <1>4 DEF DrainLoop
  <2>2. Head(q) \in Fetches /\ Tail(q) \in Seq(Fetches)
    BY <1>2, <1>4, HeadTailProperties
  <2>3. /\ thread' \in [Threads -> ThreadRecords]
        /\ thread'[t] = [pc |-> "base", fetch |-> None, info |-> None]
        /\ \A u \in Threads \ {t} : thread'[u] = thread[u]
    BY <1>0, <2>1, GoToType DEF ThreadStates
  <2>4. /\ pending_starts' \in [Threads -> Seq(Fetches) \cup {None}]
        /\ pending_starts'[t] \in Seq(Fetches)
        /\ \A u \in Threads \ {t} : pending_starts'[u] = pending_starts[u]
    BY <2>1, <2>2 DEF QueueInv, TypeOK
  <2>5. ThreadsOK'
    BY <2>3, <2>4, OthersKeep, RateAssumption DEF HoldsFetch, HoldsInfo
  <2>6. FullWhileQueueing' /\ NobodyStranded'
    BY <1>1, <2>3, QuietStep DEF infoVars
  <2>7. fstate' \in [Fetches -> FetchStates]
    BY <2>1, <2>2 DEF QueueInv, TypeOK, FetchStates
  <2>8. TypeOK'
    BY <1>1, <2>3, <2>4, <2>7 DEF QueueInv, TypeOK, ThreadRecords, infoVars
  <2> QED BY <2>5, <2>6, <2>8 DEF QueueInv
<1> QED BY <1>3, <1>4

LEMMA DiscardStep ==
  ASSUME QueueInv, NEW t \in Threads, DiscardPopped(t)
  PROVE  QueueInv'
<1>0. thread \in [Threads -> ThreadRecords]
  BY DEF QueueInv, TypeOK, ThreadRecords
<1>1. /\ thread[t].pc = "popped"
      /\ queue_size' = queue_size - 1
      /\ Answer(thread[t].fetch)
      /\ GoTo(t, "release", None, thread[t].info)
      /\ UNCHANGED <<infoVars, shut_down, info, pending_starts>>
  BY DEF DiscardPopped, Uncounted
<1>2. thread[t].fetch \in Fetches /\ thread[t].info \in Fetches
  BY <1>1 DEF QueueInv, ThreadsOK, HoldsFetch, HoldsInfo
<1>3. /\ thread' \in [Threads -> ThreadRecords]
      /\ thread'[t] = [pc |-> "release", fetch |-> None, info |-> thread[t].info]
      /\ \A u \in Threads \ {t} : thread'[u] = thread[u]
  BY <1>0, <1>1, <1>2, GoToType DEF ThreadStates
<1>4. ThreadsOK'
  BY <1>1, <1>2, <1>3, OthersKeep DEF HoldsFetch, HoldsInfo
<1>5. FullWhileQueueing' /\ NobodyStranded'
  BY <1>1, <1>3, QuietStep DEF infoVars
<1>6. fstate' \in [Fetches -> FetchStates] /\ answers' \in [Fetches -> Nat]
      /\ queue_size' \in Int
  BY <1>1, <1>2, AnswerType DEF QueueInv, TypeOK
<1>7. TypeOK'
  BY <1>1, <1>3, <1>6 DEF QueueInv, TypeOK, ThreadRecords, infoVars
<1> QED BY <1>4, <1>5, <1>7 DEF QueueInv

\* Every step keeps QueueInv, given that the counts are not negative.
LEMMA QueueInvStep ==
  ASSUME QueueInv, SlotsAccounted, [Next]_vars
  PROVE  QueueInv'
<1>1. CASE UNCHANGED vars
  BY <1>1 DEF vars, infoVars, QueueInv, TypeOK, ThreadsOK, FullWhileQueueing,
              NobodyStranded
<1>2. CASE ShutDown
  BY <1>2 DEF ShutDown, infoVars, QueueInv, TypeOK, ThreadsOK, FullWhileQueueing,
              NobodyStranded
<1>3. ASSUME NEW t \in Threads, Continue(t) PROVE QueueInv'
  BY <1>3, LookupStep, EnqueueStep, StartStep, DropStep, DeleteStep,
     GiveUpSlotStep, PopStep, StartPoppedStep, DrainLoopStep, DiscardStep
     DEF Continue
<1>4. ASSUME NEW t \in Threads, NEW f \in Fetches, Fetch(t, f) \/ HandleDone(t, f)
      PROVE  QueueInv'
  BY <1>4, FetchStep, HandleDoneStep
<1> QED BY <1>1, <1>2, <1>3, <1>4 DEF Next

(***************************************************************************)
(* Every fetch is in one place                                             *)
(***************************************************************************)

LEMMA InitPlaces == Init => PlacesOK
BY RateAssumption, EmptySeq
   DEF Init, PlacesOK, AnswersOK, QueueOK, HeldOK, LoopOK, HeldOnce, LoopedOnce,
       Idle, Thread, HoldsFetch

\* A step of thread t that leaves queues and drain loops alone and changes the
\* state of at most the fetch f, which no queue, loop or other thread holds.
LEMMA PlainStep ==
  ASSUME QueueInv, PlacesOK, NEW t \in Threads, NEW f \in Fetches,
         UNCHANGED <<fetch_queue, pending_starts>>,
         \A u \in Threads \ {t} : thread'[u] = thread[u],
         \A g \in Fetches \ {f} : /\ fstate'[g] = fstate[g]
                                  /\ answers'[g] = answers[g]
                                  /\ info'[g] = info[g],
         fstate[f] \notin {"queued", "pending"},
         \A u \in Threads \ {t} :
           thread[u].pc \in HoldsFetch => thread[u].fetch # f,
         AnswersOK(f)', HeldOK(t)',
         thread'[t].pc \in HoldsFetch =>
           \/ thread'[t].fetch = f
           \/ thread[t].pc \in HoldsFetch /\ thread'[t].fetch = thread[t].fetch
  PROVE  PlacesOK'
<1>1. ASSUME NEW g \in Fetches PROVE AnswersOK(g)'
  BY <1>1 DEF PlacesOK, AnswersOK
<1>2. ASSUME NEW i \in Fetches PROVE QueueOK(i)'
  <2>1. \A k \in 1..Len(fetch_queue[i]) : fetch_queue[i][k] \in Fetches \ {f}
    BY DEF PlacesOK, QueueOK, QueueInv, TypeOK
  <2> QED BY <2>1 DEF PlacesOK, QueueOK
<1>3. ASSUME NEW u \in Threads PROVE HeldOK(u)'
  <2>1. CASE u = t
    BY <2>1
  <2>2. CASE u # t
    <3>1. thread'[u] = thread[u] /\ HeldOK(u)
      BY <2>2 DEF PlacesOK
    <3>2. thread[u].pc \in HoldsFetch => thread[u].fetch \in Fetches \ {f}
      BY <2>2 DEF QueueInv, ThreadsOK
    <3> QED BY <3>1, <3>2 DEF HeldOK, HoldsFetch
  <2> QED BY <2>1, <2>2
<1>4. ASSUME NEW u \in Threads PROVE LoopOK(u)'
  <2>1. pending_starts[u] # None =>
          \A k \in 1..Len(pending_starts[u]) : pending_starts[u][k] \in Fetches \ {f}
    BY DEF PlacesOK, LoopOK, QueueInv, TypeOK
  <2> QED BY <2>1 DEF PlacesOK, LoopOK
<1>5. ASSUME NEW u \in Threads, NEW v \in Threads PROVE HeldOnce(u, v)'
  BY DEF PlacesOK, HeldOnce
<1>6. ASSUME NEW u \in Threads, NEW v \in Threads PROVE LoopedOnce(u, v)'
  BY DEF PlacesOK, LoopedOnce
<1> QED BY <1>1, <1>2, <1>3, <1>4, <1>5, <1>6 DEF PlacesOK

\* No other thread holds the fetch that thread t holds, or one that is not in
\* the hands of a thread at all.
LEMMA NotHeldElsewhere ==
  ASSUME QueueInv, PlacesOK, NEW t \in Threads, NEW f \in Fetches,
         \/ thread[t].pc \in HoldsFetch /\ thread[t].fetch = f
         \/ fstate[f] \in {"new", "outgoing", "queued", "pending"}
  PROVE  \A u \in Threads \ {t} : thread[u].pc \in HoldsFetch => thread[u].fetch # f
<1> SUFFICES ASSUME NEW u \in Threads \ {t}, thread[u].pc \in HoldsFetch,
                    thread[u].fetch = f
             PROVE  FALSE
  OBVIOUS
<1>1. HeldOK(u) /\ HeldOnce(t, u)
  BY DEF PlacesOK
<1> QED BY <1>1 DEF HeldOK, HeldOnce, HoldsFetch

LEMMA PlainFetchPlaces ==
  ASSUME QueueInv, PlacesOK, NEW t \in Threads, NEW f \in Fetches,
         Fetch(t, f) \/ HandleDone(t, f)
  PROVE  PlacesOK'
<1>0. thread \in [Threads -> ThreadRecords]
      /\ fstate \in [Fetches -> FetchStates] /\ answers \in [Fetches -> Nat]
  BY DEF QueueInv, TypeOK, ThreadRecords
<1>1. \A u \in Threads \ {t} : thread[u].pc \in HoldsFetch => thread[u].fetch # f
  BY NotHeldElsewhere DEF Fetch, HandleDone
<1>2. /\ UNCHANGED <<fetch_queue, pending_starts, info>>
      /\ fstate[f] \in {"new", "outgoing"}
      /\ thread[t].pc \in {"idle", "base"}
      /\ fstate'[f] # "new"
      /\ \A g \in Fetches \ {f} : fstate'[g] = fstate[g] /\ answers'[g] = answers[g]
  BY <1>0 DEF Fetch, HandleDone, Answer, infoVars
<1>3. AnswersOK(f)'
  <2>1. AnswersOK(f)
    BY DEF PlacesOK
  <2>2. \/ fstate'[f] = "answered" /\ answers'[f] = answers[f] + 1
        \/ fstate'[f] \in {"outgoing", "calling"} /\ answers'[f] = answers[f]
    BY <1>0 DEF Fetch, HandleDone, Answer
  <2> QED BY <1>2, <2>1, <2>2 DEF AnswersOK
<1>4. \/ UNCHANGED thread
      \/ GoTo(t, "decrement", f, info[f]) /\ info[f] # None
      \/ GoTo(t, "lookup", f, None) /\ fstate'[f] = "calling"
  BY <1>0 DEF Fetch, HandleDone
<1>5. CASE UNCHANGED thread
  <2>1. HeldOK(t)' /\ thread'[t].pc \notin HoldsFetch
    BY <1>2, <1>5 DEF HeldOK, HoldsFetch
  <2> QED BY <1>1, <1>2, <1>3, <1>5, <2>1, PlainStep
<1>6. CASE GoTo(t, "decrement", f, info[f]) /\ info[f] # None
  <2>1. info[f] \in Fetches
    BY <1>6 DEF QueueInv, TypeOK
  <2>2. /\ thread'[t] = [pc |-> "decrement", fetch |-> f, info |-> info[f]]
        /\ \A u \in Threads \ {t} : thread'[u] = thread[u]
    BY <1>0, <1>6, <2>1, GoToType DEF ThreadStates
  <2>3. HeldOK(t)'
    BY <2>2 DEF HeldOK
  <2> QED BY <1>1, <1>2, <1>3, <2>2, <2>3, PlainStep
<1>7. CASE GoTo(t, "lookup", f, None) /\ fstate'[f] = "calling"
  <2>1. /\ thread'[t] = [pc |-> "lookup", fetch |-> f, info |-> None]
        /\ \A u \in Threads \ {t} : thread'[u] = thread[u]
    BY <1>0, <1>7, GoToType DEF ThreadStates
  <2>2. HeldOK(t)'
    BY <1>7, <2>1 DEF HeldOK
  <2> QED BY <1>1, <1>2, <1>3, <2>1, <2>2, PlainStep
<1> QED BY <1>4, <1>5, <1>6, <1>7

LEMMA LookupPlaces ==
  ASSUME QueueInv, PlacesOK, NEW t \in Threads, Lookup(t)
  PROVE  PlacesOK'
<1>0. thread \in [Threads -> ThreadRecords] /\ thread[t].pc = "lookup"
  BY DEF QueueInv, TypeOK, ThreadRecords, Lookup
<1>1. PICK f \in Fetches : f = thread[t].fetch /\ host[f] \in Hosts
  BY <1>0 DEF QueueInv, ThreadsOK, HoldsFetch
<1>2. PICK i \in Fetches :
        i = IF fetch_info_map[host[f]] = None THEN f ELSE fetch_info_map[host[f]]
  BY <1>1 DEF QueueInv, TypeOK
<1>3. /\ info' = [info EXCEPT ![f] = i]
      /\ UNCHANGED <<fetch_queue, answers, pending_starts>>
      /\ \/ fstate' = [fstate EXCEPT ![f] = "charged"] /\ GoTo(t, "start", f, i)
         \/ /\ GoTo(t, "enqueue", f, i) \/ GoTo(t, "drop", f, i)
            /\ UNCHANGED fstate
  BY <1>1, <1>2 DEF Lookup
<1>4. PICK pc \in {"start", "enqueue", "drop"} :
         /\ GoTo(t, pc, f, i)
         /\ fstate'[f] = (IF pc = "start" THEN "charged" ELSE fstate[f])
         /\ \A g \in Fetches \ {f} : fstate'[g] = fstate[g]
  BY <1>1, <1>3 DEF QueueInv, TypeOK
<1>5. /\ thread'[t] = [pc |-> pc, fetch |-> f, info |-> i]
      /\ \A u \in Threads \ {t} : thread'[u] = thread[u]
  <2>1. pc \in ThreadStates
    BY DEF ThreadStates
  <2> QED BY <1>0, <1>1, <1>2, <1>4, <2>1, GoToType
<1>6. fstate[f] = "calling"
  BY <1>0, <1>1 DEF PlacesOK, HeldOK
<1>7. AnswersOK(f)'
  <2>1. AnswersOK(f)
    BY <1>1 DEF PlacesOK
  <2>2. fstate'[f] \in {"charged", "calling"} /\ answers'[f] = answers[f]
    BY <1>3, <1>4, <1>6
  <2> QED BY <1>6, <2>1, <2>2 DEF AnswersOK
<1>8. info'[f] = i /\ \A g \in Fetches \ {f} : info'[g] = info[g]
  BY <1>1, <1>2, <1>3 DEF QueueInv, TypeOK
<1>9. HeldOK(t)'
  BY <1>4, <1>5, <1>6, <1>8 DEF HeldOK
<1>10. \A u \in Threads \ {t} : thread[u].pc \in HoldsFetch => thread[u].fetch # f
  BY <1>0, <1>1, NotHeldElsewhere DEF HoldsFetch
<1>11. thread'[t].fetch = f
  BY <1>5
<1> QED BY <1>1, <1>3, <1>4, <1>5, <1>6, <1>7, <1>8, <1>9, <1>10, <1>11, PlainStep

\* The thread that holds f lets it go: to the base fetcher, or answered.
LEMMA LetGoPlaces ==
  ASSUME QueueInv, PlacesOK, NEW t \in Threads,
         Start(t) \/ Drop(t) \/ DiscardPopped(t)
  PROVE  PlacesOK'
<1>0. thread \in [Threads -> ThreadRecords] /\ thread[t].pc \in {"start", "drop", "popped"}
  BY DEF QueueInv, TypeOK, ThreadRecords, Start, Drop, DiscardPopped
<1>1. PICK f \in Fetches : f = thread[t].fetch /\ thread[t].info \in Fetches
  BY <1>0 DEF QueueInv, ThreadsOK, HoldsFetch, HoldsInfo
<1>2. UNCHANGED <<fetch_queue, pending_starts, info>>
  BY DEF Start, Drop, DiscardPopped, infoVars
<1>3. fstate[f] \in {"charged", "calling", "popped"}
  BY <1>0, <1>1 DEF PlacesOK, HeldOK
<1>4. /\ \/ fstate'[f] = "outgoing" /\ answers'[f] = answers[f]
         \/ fstate'[f] = "answered" /\ answers'[f] = answers[f] + 1
      /\ \A g \in Fetches \ {f} : fstate'[g] = fstate[g] /\ answers'[g] = answers[g]
  BY <1>1 DEF Start, Drop, DiscardPopped, Answer, QueueInv, TypeOK
<1>5. AnswersOK(f)'
  <2>1. AnswersOK(f)
    BY <1>1 DEF PlacesOK
  <2> QED BY <1>2, <1>3, <1>4, <2>1 DEF AnswersOK
<1>6. /\ \A u \in Threads \ {t} : thread'[u] = thread[u]
      /\ thread'[t].pc \in {"idle", "base", "delete", "release"}
  <2>1. CASE Start(t)
    <3>1. Return(t)
      BY <2>1 DEF Start
    <3> QED BY <1>0, <3>1, ReturnType
  <2>2. CASE Drop(t)
    <3>1. GoTo(t, "delete", None, thread[t].info)
      BY <2>2 DEF Drop
    <3>2. /\ thread'[t] = [pc |-> "delete", fetch |-> None, info |-> thread[t].info]
          /\ \A u \in Threads \ {t} : thread'[u] = thread[u]
      BY <1>0, <1>1, <3>1, GoToType DEF ThreadStates
    <3> QED BY <3>2
  <2>3. CASE DiscardPopped(t)
    <3>1. GoTo(t, "release", None, thread[t].info)
      BY <2>3 DEF DiscardPopped
    <3>2. /\ thread'[t] = [pc |-> "release", fetch |-> None, info |-> thread[t].info]
          /\ \A u \in Threads \ {t} : thread'[u] = thread[u]
      BY <1>0, <1>1, <3>1, GoToType DEF ThreadStates
    <3> QED BY <3>2
  <2> QED BY <2>1, <2>2, <2>3
<1>7. HeldOK(t)'
  BY <1>6 DEF HeldOK
<1>8. \A u \in Threads \ {t} : thread[u].pc \in HoldsFetch => thread[u].fetch # f
  BY <1>0, <1>1, NotHeldElsewhere DEF HoldsFetch
<1>9. thread'[t].pc \notin HoldsFetch
  BY <1>6 DEF HoldsFetch
<1> QED BY <1>1, <1>2, <1>3, <1>4, <1>5, <1>6, <1>7, <1>8, <1>9, PlainStep

\* Steps that move no fetch.
LEMMA NoFetchPlaces ==
  ASSUME QueueInv, PlacesOK, NEW t \in Threads,
         Decrement(t) \/ Release(t) \/ DeleteFetchInfoIfPossible(t)
  PROVE  PlacesOK'
<1>0. thread \in [Threads -> ThreadRecords]
  BY DEF QueueInv, TypeOK, ThreadRecords
<1>1. UNCHANGED <<fetch_queue, pending_starts, info, fstate, answers>>
  BY DEF Decrement, Release, DeleteFetchInfoIfPossible
<1>2. thread[t].info \in Fetches
  BY DEF Decrement, Release, DeleteFetchInfoIfPossible, QueueInv, ThreadsOK, HoldsInfo
<1>3. /\ \A u \in Threads \ {t} : thread'[u] = thread[u]
      /\ thread'[t].pc \in {"idle", "base", "pop"}
  <2>1. CASE Decrement(t) \/ Release(t)
    <3>1. GoTo(t, "pop", None, thread[t].info)
      BY <2>1 DEF Decrement, Release
    <3>2. /\ thread'[t] = [pc |-> "pop", fetch |-> None, info |-> thread[t].info]
          /\ \A u \in Threads \ {t} : thread'[u] = thread[u]
      BY <1>0, <1>2, <3>1, GoToType DEF ThreadStates
    <3> QED BY <3>2
  <2>2. CASE DeleteFetchInfoIfPossible(t)
    <3>1. Return(t)
      BY <2>2 DEF DeleteFetchInfoIfPossible
    <3> QED BY <1>0, <3>1, ReturnType
  <2> QED BY <2>1, <2>2
<1>4. ASSUME NEW u \in Threads PROVE HeldOK(u)' /\ LoopOK(u)'
  BY <1>1, <1>3 DEF PlacesOK, HeldOK, LoopOK
<1>5. ASSUME NEW u \in Threads, NEW v \in Threads
      PROVE  HeldOnce(u, v)' /\ LoopedOnce(u, v)'
  BY <1>1, <1>3 DEF PlacesOK, HeldOnce, LoopedOnce, HoldsFetch
<1>6. ASSUME NEW g \in Fetches PROVE AnswersOK(g)' /\ QueueOK(g)'
  BY <1>1 DEF PlacesOK, AnswersOK, QueueOK
<1> QED BY <1>4, <1>5, <1>6 DEF PlacesOK

LEMMA EnqueuePlaces ==
  ASSUME QueueInv, PlacesOK, NEW t \in Threads, Enqueue(t)
  PROVE  PlacesOK'
<1>0. thread \in [Threads -> ThreadRecords] /\ thread[t].pc = "enqueue"
  BY DEF QueueInv, TypeOK, ThreadRecords, Enqueue
<1>1. PICK f \in Fetches, i \in Fetches : f = thread[t].fetch /\ i = thread[t].info
  BY <1>0 DEF QueueInv, ThreadsOK, HoldsFetch, HoldsInfo
<1>2. fstate[f] = "calling" /\ info[f] = i
  BY <1>0, <1>1 DEF PlacesOK, HeldOK
<1>3. /\ fetch_queue' = [fetch_queue EXCEPT ![i] = Append(@, f)]
      /\ fstate' = [fstate EXCEPT ![f] = "queued"]
      /\ Return(t)
      /\ UNCHANGED <<info, answers, pending_starts>>
  BY <1>1 DEF Enqueue
<1>4. /\ thread'[t].pc \in {"idle", "base"}
      /\ \A u \in Threads \ {t} : thread'[u] = thread[u]
  BY <1>0, <1>3, ReturnType
<1>5. fstate'[f] = "queued" /\ \A g \in Fetches \ {f} : fstate'[g] = fstate[g]
  BY <1>3 DEF QueueInv, TypeOK
<1>6. \A u \in Threads \ {t} : thread[u].pc \in HoldsFetch => thread[u].fetch # f
  BY <1>0, <1>1, NotHeldElsewhere DEF HoldsFetch
<1>7. ASSUME NEW u \in Threads PROVE HeldOK(u)'
  <2>1. CASE u = t
    BY <2>1, <1>4 DEF HeldOK
  <2>2. CASE u # t
    <3>1. thread'[u] = thread[u] /\ HeldOK(u)
      BY <2>2, <1>4 DEF PlacesOK
    <3>2. thread[u].pc \in HoldsFetch => thread[u].fetch \in Fetches \ {f}
      BY <2>2, <1>6 DEF QueueInv, ThreadsOK
    <3> QED BY <3>1, <3>2, <1>3, <1>5 DEF HeldOK, HoldsFetch
  <2> QED BY <2>1, <2>2
<1>8. ASSUME NEW u \in Threads PROVE LoopOK(u)'
  <2>1. pending_starts[u] # None =>
          \A k \in 1..Len(pending_starts[u]) : pending_starts[u][k] \in Fetches \ {f}
    <3> SUFFICES ASSUME pending_starts[u] # None,
                        NEW k \in 1..Len(pending_starts[u])
                 PROVE  pending_starts[u][k] \in Fetches \ {f}
      OBVIOUS
    <3>1. pending_starts[u][k] \in Fetches
      BY DEF QueueInv, TypeOK
    <3>2. fstate[pending_starts[u][k]] = "pending"
      BY DEF PlacesOK, LoopOK
    <3> QED BY <1>2, <3>1, <3>2
  <2> QED BY <1>3, <1>5, <2>1 DEF PlacesOK, LoopOK
<1>9. ASSUME NEW u \in Threads, NEW v \in Threads
      PROVE  HeldOnce(u, v)' /\ LoopedOnce(u, v)'
  BY <1>3, <1>4 DEF PlacesOK, HeldOnce, LoopedOnce, HoldsFetch
<1>10. ASSUME NEW g \in Fetches PROVE AnswersOK(g)'
  BY <1>2, <1>3, <1>5 DEF PlacesOK, AnswersOK
<1>11. ASSUME NEW j \in Fetches PROVE QueueOK(j)'
  <2>0. fetch_queue[j] \in Seq(Fetches) /\ fetch_queue[i] \in Seq(Fetches)
    BY DEF QueueInv, TypeOK
  <2>1. /\ \A k \in 1..Len(fetch_queue[j]) :
             /\ fetch_queue[j][k] \in Fetches \ {f}
             /\ fstate[fetch_queue[j][k]] = "queued" /\ info[fetch_queue[j][k]] = j
        /\ \A k, l \in 1..Len(fetch_queue[j]) :
             fetch_queue[j][k] = fetch_queue[j][l] => k = l
    BY <1>2, <2>0 DEF PlacesOK, QueueOK
  <2>2. CASE j # i
    <3>1. fetch_queue'[j] = fetch_queue[j]
      BY <1>3, <2>2 DEF QueueInv, TypeOK
    <3>2. \A k \in 1..Len(fetch_queue[j]) :
            fstate'[fetch_queue[j][k]] = "queued" /\ info'[fetch_queue[j][k]] = j
      BY <1>3, <1>5, <2>1
    <3> QED BY <2>1, <3>1, <3>2 DEF QueueOK
  <2>3. CASE j = i
    <3> DEFINE q == fetch_queue[i]
               r == fetch_queue'[i]
    <3>1. r = Append(q, f)
      BY <1>3 DEF QueueInv, TypeOK
    <3>2. /\ Len(r) = Len(q) + 1
          /\ Len(q) \in Nat
          /\ \A k \in 1..Len(q) : r[k] = q[k]
          /\ r[Len(q) + 1] = f
      BY <2>0, <3>1, AppendProperties, LenProperties
    <3>3. \A k \in 1..Len(r) : k \in 1..Len(q) \/ k = Len(q) + 1
      BY <3>2
    <3>4. \A k \in 1..Len(r) : fstate'[r[k]] = "queued" /\ info'[r[k]] = i
      <4> SUFFICES ASSUME NEW k \in 1..Len(r)
                   PROVE  fstate'[r[k]] = "queued" /\ info'[r[k]] = i
        OBVIOUS
      <4>1. CASE k \in 1..Len(q)
        BY <1>3, <1>5, <2>1, <2>3, <3>2, <4>1
      <4>2. CASE k = Len(q) + 1
        BY <1>2, <1>3, <1>5, <3>2, <4>2
      <4> QED BY <3>3, <4>1, <4>2
    <3>5. \A k, l \in 1..Len(r) : r[k] = r[l] => k = l
      <4> SUFFICES ASSUME NEW k \in 1..Len(r), NEW l \in 1..Len(r), r[k] = r[l]
                   PROVE  k = l
        OBVIOUS
      <4>1. CASE k \in 1..Len(q) /\ l \in 1..Len(q)
        BY <2>1, <2>3, <3>2, <4>1
      <4>2. CASE k \in 1..Len(q) /\ l = Len(q) + 1
        BY <2>1, <2>3, <3>2, <4>2
      <4>3. CASE k = Len(q) + 1 /\ l \in 1..Len(q)
        BY <2>1, <2>3, <3>2, <4>3
      <4> QED BY <3>3, <4>1, <4>2, <4>3
    <3> QED BY <2>3, <3>4, <3>5 DEF QueueOK
  <2> QED BY <2>2, <2>3
<1> QED BY <1>7, <1>8, <1>9, <1>10, <1>11 DEF PlacesOK

LEMMA PopPlaces ==
  ASSUME QueueInv, PlacesOK, NEW t \in Threads, PopNextFetch(t)
  PROVE  PlacesOK'
<1>0. thread \in [Threads -> ThreadRecords] /\ thread[t].pc = "pop"
  BY DEF QueueInv, TypeOK, ThreadRecords, PopNextFetch
<1>1. PICK i \in Fetches : i = thread[t].info
  BY <1>0 DEF QueueInv, ThreadsOK, HoldsInfo
<1>2. UNCHANGED <<info, answers, pending_starts>>
  BY DEF PopNextFetch
<1>3. CASE GoTo(t, "delete", None, i) /\ UNCHANGED <<fetch_queue, fstate>>
  <2>1. /\ thread'[t] = [pc |-> "delete", fetch |-> None, info |-> i]
        /\ \A u \in Threads \ {t} : thread'[u] = thread[u]
    BY <1>0, <1>3, GoToType DEF ThreadStates
  <2>2. ASSUME NEW u \in Threads PROVE HeldOK(u)' /\ LoopOK(u)'
    BY <1>2, <1>3, <2>1 DEF PlacesOK, HeldOK, LoopOK
  <2>3. ASSUME NEW u \in Threads, NEW v \in Threads
        PROVE  HeldOnce(u, v)' /\ LoopedOnce(u, v)'
    BY <1>2, <2>1 DEF PlacesOK, HeldOnce, LoopedOnce, HoldsFetch
  <2>4. ASSUME NEW g \in Fetches PROVE AnswersOK(g)' /\ QueueOK(g)'
    BY <1>2, <1>3 DEF PlacesOK, AnswersOK, QueueOK
  <2> QED BY <2>2, <2>3, <2>4 DEF PlacesOK
<1>4. CASE fetch_queue[i] # <<>> /\ ~(GoTo(t, "delete", None, i) /\ UNCHANGED <<fetch_queue, fstate>>)
  <2> DEFINE q == fetch_queue[i]
             r == fetch_queue'[i]
  <2>0. q \in Seq(Fetches) /\ q # <<>>
    BY <1>4 DEF QueueInv, TypeOK
  <2>1. PICK f \in Fetches : f = Head(q)
    BY <2>0, HeadTailProperties
  <2>2. /\ fetch_queue' = [fetch_queue EXCEPT ![i] = Tail(@)]
        /\ fstate' = [fstate EXCEPT ![f] = "popped"]
        /\ GoTo(t, "popped", f, i)
    BY <1>1, <1>4, <2>1 DEF PopNextFetch, PopHead
  <2>3. /\ Len(q) \in Nat \ {0} /\ f = q[1]
        /\ r = Tail(q)
        /\ Len(r) = Len(q) - 1
        /\ \A k \in 1..Len(r) : r[k] = q[k + 1] /\ k + 1 \in 1..Len(q)
    <3>1. r = Tail(q)
      BY <2>2 DEF QueueInv, TypeOK
    <3>2. Len(q) \in Nat \ {0} /\ Len(Tail(q)) = Len(q) - 1
          /\ \A k \in 1..Len(Tail(q)) : Tail(q)[k] = q[k + 1]
      BY <2>0, HeadTailProperties, LenProperties, EmptySeq
    <3>3. Head(q) = q[1]
      BY <2>0, HeadTailProperties
    <3> QED BY <2>1, <3>1, <3>2, <3>3
  <2>4. /\ thread'[t] = [pc |-> "popped", fetch |-> f, info |-> i]
        /\ \A u \in Threads \ {t} : thread'[u] = thread[u]
    BY <1>0, <2>2, GoToType DEF ThreadStates
  <2>5. /\ \A j \in Fetches : \A k \in 1..Len(fetch_queue[j]) :
             fstate[fetch_queue[j][k]] = "queued" /\ info[fetch_queue[j][k]] = j
        /\ \A j \in Fetches : \A k, l \in 1..Len(fetch_queue[j]) :
             fetch_queue[j][k] = fetch_queue[j][l] => k = l
    BY DEF PlacesOK, QueueOK
  <2>6. fstate[f] = "queued" /\ info[f] = i
    BY <2>3, <2>5
  <2>7. fstate'[f] = "popped" /\ \A g \in Fetches \ {f} : fstate'[g] = fstate[g]
    BY <2>2 DEF QueueInv, TypeOK
  <2>8. \A u \in Threads \ {t} : thread[u].pc \in HoldsFetch => thread[u].fetch # f
    BY <2>6, NotHeldElsewhere
  <2>9. ASSUME NEW u \in Threads PROVE HeldOK(u)'
    <3>1. CASE u = t
      BY <1>2, <2>4, <2>6, <2>7, <3>1 DEF HeldOK
    <3>2. CASE u # t
      <4>1. thread'[u] = thread[u] /\ HeldOK(u)
        BY <3>2, <2>4 DEF PlacesOK
      <4>2. thread[u].pc \in HoldsFetch => thread[u].fetch \in Fetches \ {f}
        BY <3>2, <2>8 DEF QueueInv, ThreadsOK
      <4> QED BY <4>1, <4>2, <1>2, <2>7 DEF HeldOK, HoldsFetch
    <3> QED BY <3>1, <3>2
  <2>10. ASSUME NEW u \in Threads PROVE LoopOK(u)'
    <3>1. pending_starts[u] # None =>
            \A k \in 1..Len(pending_starts[u]) : pending_starts[u][k] \in Fetches \ {f}
      <4> SUFFICES ASSUME pending_starts[u] # None,
                          NEW k \in 1..Len(pending_starts[u])
                   PROVE  pending_starts[u][k] \in Fetches \ {f}
        OBVIOUS
      <4>1. pending_starts[u][k] \in Fetches
        BY DEF QueueInv, TypeOK
      <4>2. fstate[pending_starts[u][k]] = "pending"
        BY DEF PlacesOK, LoopOK
      <4> QED BY <2>6, <4>1, <4>2
    <3> QED BY <1>2, <2>7, <3>1 DEF PlacesOK, LoopOK
  <2>11. ASSUME NEW u \in Threads, NEW v \in Threads
         PROVE  HeldOnce(u, v)' /\ LoopedOnce(u, v)'
    BY <1>2, <2>4, <2>8 DEF PlacesOK, HeldOnce, LoopedOnce, HoldsFetch
  <2>12. ASSUME NEW g \in Fetches PROVE AnswersOK(g)'
    BY <1>2, <2>6, <2>7 DEF PlacesOK, AnswersOK
  <2>13. ASSUME NEW j \in Fetches PROVE QueueOK(j)'
    <3>0. fetch_queue[j] \in Seq(Fetches)
      BY DEF QueueInv, TypeOK
    <3>1. CASE j # i
      <4>1. fetch_queue'[j] = fetch_queue[j]
        BY <2>2, <3>1 DEF QueueInv, TypeOK
      <4>2. \A k \in 1..Len(fetch_queue[j]) : fetch_queue[j][k] \in Fetches \ {f}
        BY <2>5, <2>6, <3>0, <3>1
      <4> QED BY <1>2, <2>5, <2>7, <4>1, <4>2 DEF QueueOK
    <3>2. CASE j = i
      <4>1. \A k \in 1..Len(r) : r[k] \in Fetches \ {f}
        BY <2>0, <2>3, <2>5
      <4>2. \A k \in 1..Len(r) : fstate'[r[k]] = "queued" /\ info'[r[k]] = i
        BY <1>2, <2>3, <2>5, <2>7, <4>1
      <4>3. \A k, l \in 1..Len(r) : r[k] = r[l] => k = l
        BY <2>3, <2>5
      <4> QED BY <3>2, <4>2, <4>3 DEF QueueOK
    <3> QED BY <3>1, <3>2
  <2> QED BY <2>9, <2>10, <2>11, <2>12, <2>13 DEF PlacesOK
<1>5. fetch_queue[i] # <<>> \/ (GoTo(t, "delete", None, i) /\ UNCHANGED <<fetch_queue, fstate>>)
  BY <1>1 DEF PopNextFetch
<1> QED BY <1>3, <1>4, <1>5

LEMMA StartPoppedPlaces ==
  ASSUME QueueInv, PlacesOK, NEW t \in Threads, StartPopped(t)
  PROVE  PlacesOK'
<1>0. thread \in [Threads -> ThreadRecords] /\ thread[t].pc = "popped"
  BY DEF QueueInv, TypeOK, ThreadRecords, StartPopped
<1>1. PICK f \in Fetches : f = thread[t].fetch
  BY <1>0 DEF QueueInv, ThreadsOK, HoldsFetch
<1>2. fstate[f] = "popped"
  BY <1>0, <1>1 DEF PlacesOK, HeldOK
<1>3. /\ fstate' = [fstate EXCEPT ![f] = "pending"]
      /\ \E pc \in {"loop", "base"} : GoTo(t, pc, None, None)
      /\ UNCHANGED <<fetch_queue, info, answers>>
      /\ \/ pending_starts' = [pending_starts EXCEPT ![t] = <<f>>]
         \/ /\ pending_starts[t] # None
            /\ pending_starts' = [pending_starts EXCEPT ![t] = Append(@, f)]
  BY <1>1 DEF StartPopped, PushNested, infoVars
<1>4. /\ thread'[t].pc \in {"loop", "base"}
      /\ \A u \in Threads \ {t} : thread'[u] = thread[u]
  <2>1. PICK pc \in {"loop", "base"} : GoTo(t, pc, None, None)
    BY <1>3
  <2>2. pc \in ThreadStates
    BY DEF ThreadStates
  <2>3. /\ thread'[t] = [pc |-> pc, fetch |-> None, info |-> None]
        /\ \A u \in Threads \ {t} : thread'[u] = thread[u]
    BY <1>0, <2>1, <2>2, GoToType
  <2> QED BY <2>3
<1>5. fstate'[f] = "pending" /\ \A g \in Fetches \ {f} : fstate'[g] = fstate[g]
  BY <1>3 DEF QueueInv, TypeOK
<1>6. \A u \in Threads \ {t} : thread[u].pc \in HoldsFetch => thread[u].fetch # f
  BY <1>0, <1>1, NotHeldElsewhere DEF HoldsFetch
<1>7. ASSUME NEW u \in Threads PROVE HeldOK(u)'
  <2>1. CASE u = t
    BY <2>1, <1>4 DEF HeldOK
  <2>2. CASE u # t
    <3>1. thread'[u] = thread[u] /\ HeldOK(u)
      BY <2>2, <1>4 DEF PlacesOK
    <3>2. thread[u].pc \in HoldsFetch => thread[u].fetch \in Fetches \ {f}
      BY <2>2, <1>6 DEF QueueInv, ThreadsOK
    <3> QED BY <3>1, <3>2, <1>3, <1>5 DEF HeldOK, HoldsFetch
  <2> QED BY <2>1, <2>2
<1>8. ASSUME NEW u \in Threads, NEW v \in Threads PROVE HeldOnce(u, v)'
  BY <1>4 DEF PlacesOK, HeldOnce, HoldsFetch
<1>9. ASSUME NEW g \in Fetches PROVE AnswersOK(g)'
  BY <1>2, <1>3, <1>5 DEF PlacesOK, AnswersOK
<1>10. ASSUME NEW i \in Fetches PROVE QueueOK(i)'
  <2>1. \A k \in 1..Len(fetch_queue[i]) : fetch_queue[i][k] \in Fetches \ {f}
    BY <1>2 DEF PlacesOK, QueueOK, QueueInv, TypeOK
  <2> QED BY <1>3, <1>5, <2>1 DEF PlacesOK, QueueOK
<1>11. \A u \in Threads : pending_starts[u] # None =>
         /\ pending_starts[u] \in Seq(Fetches)
         /\ \A k \in 1..Len(pending_starts[u]) :
              /\ pending_starts[u][k] \in Fetches \ {f}
              /\ fstate'[pending_starts[u][k]] = "pending"
         /\ \A k, l \in 1..Len(pending_starts[u]) :
              pending_starts[u][k] = pending_starts[u][l] => k = l
  <2> SUFFICES ASSUME NEW u \in Threads, pending_starts[u] # None
               PROVE /\ pending_starts[u] \in Seq(Fetches)
                     /\ \A k \in 1..Len(pending_starts[u]) :
                          /\ pending_starts[u][k] \in Fetches \ {f}
                          /\ fstate'[pending_starts[u][k]] = "pending"
                     /\ \A k, l \in 1..Len(pending_starts[u]) :
                          pending_starts[u][k] = pending_starts[u][l] => k = l
    OBVIOUS
  <2>1. pending_starts[u] \in Seq(Fetches)
    BY DEF QueueInv, TypeOK
  <2>2. LoopOK(u)
    BY DEF PlacesOK
  <2>3. \A k \in 1..Len(pending_starts[u]) : pending_starts[u][k] \in Fetches \ {f}
    BY <1>2, <2>1, <2>2 DEF LoopOK
  <2> QED BY <1>5, <2>1, <2>2, <2>3 DEF LoopOK
<1> DEFINE r == pending_starts'[t]
<1>12. \A u \in Threads \ {t} : pending_starts'[u] = pending_starts[u]
  BY <1>3 DEF QueueInv, TypeOK
<1>13. PICK n \in Nat :
         /\ Len(r) = n + 1
         /\ r[n + 1] = f
         /\ \A k \in 1..n : pending_starts[t] # None /\ k \in 1..Len(pending_starts[t])
                            /\ r[k] = pending_starts[t][k]
  <2>1. CASE pending_starts' = [pending_starts EXCEPT ![t] = <<f>>]
    <3>1. r = <<f>>
      BY <2>1 DEF QueueInv, TypeOK
    <3>2. Len(r) = 0 + 1 /\ r[0 + 1] = f
      BY <3>1
    <3>3. \A k \in 1..0 : FALSE
      OBVIOUS
    <3> HIDE DEF r
    <3> QED BY <3>2, <3>3
  <2>2. CASE /\ pending_starts[t] # None
             /\ pending_starts' = [pending_starts EXCEPT ![t] = Append(@, f)]
    <3>1. r = Append(pending_starts[t], f)
      BY <2>2 DEF QueueInv, TypeOK
    <3> DEFINE n == Len(pending_starts[t])
    <3>2. n \in Nat /\ Len(r) = n + 1 /\ r[n + 1] = f
          /\ \A k \in 1..n : r[k] = pending_starts[t][k]
      BY <1>11, <2>2, <3>1, AppendProperties, LenProperties
    <3> QED BY <2>2, <3>2
  <2> QED BY <1>3, <2>1, <2>2
<1>14. \A k \in 1..Len(r) : k \in 1..n \/ k = n + 1
  BY <1>13
<1>15. ASSUME NEW u \in Threads PROVE LoopOK(u)'
  <2>1. CASE u # t
    BY <1>11, <1>12, <2>1 DEF LoopOK
  <2>2. CASE u = t
    <3>1. \A k \in 1..Len(r) : fstate'[r[k]] = "pending"
      BY <1>5, <1>11, <1>13, <1>14
    <3>2. \A k, l \in 1..Len(r) : r[k] = r[l] => k = l
      BY <1>11, <1>13, <1>14
    <3> QED BY <2>2, <3>1, <3>2 DEF LoopOK
  <2> QED BY <2>1, <2>2
<1>16. \A u \in Threads \ {t} : pending_starts[u] # None =>
         \A k \in 1..Len(pending_starts[u]), l \in 1..Len(r) :
           pending_starts[u][k] # r[l]
  <2> SUFFICES ASSUME NEW u \in Threads \ {t}, pending_starts[u] # None,
                      NEW k \in 1..Len(pending_starts[u]), NEW l \in 1..Len(r)
               PROVE  pending_starts[u][k] # r[l]
    OBVIOUS
  <2>1. pending_starts[u][k] # f
    BY <1>11
  <2>2. CASE l = n + 1
    BY <1>13, <2>1, <2>2
  <2>3. CASE l \in 1..n
    <3>1. LoopedOnce(u, t)
      BY DEF PlacesOK
    <3> QED BY <1>13, <2>3, <3>1 DEF LoopedOnce
  <2> QED BY <1>14, <2>2, <2>3
<1>17. ASSUME NEW u \in Threads, NEW v \in Threads PROVE LoopedOnce(u, v)'
  <2>1. CASE u # t /\ v # t
    BY <1>12, <2>1 DEF PlacesOK, LoopedOnce
  <2>2. CASE u # t /\ v = t
    BY <1>12, <1>16, <2>2 DEF LoopedOnce
  <2>3. CASE u = t /\ v # t
    BY <1>12, <1>16, <2>3 DEF LoopedOnce
  <2>4. CASE u = t /\ v = t
    BY <2>4 DEF LoopedOnce
  <2> QED BY <2>1, <2>2, <2>3, <2>4
<1> QED BY <1>7, <1>8, <1>9, <1>10, <1>15, <1>17 DEF PlacesOK

LEMMA DrainLoopPlaces ==
  ASSUME QueueInv, PlacesOK, NEW t \in Threads, DrainLoop(t)
  PROVE  PlacesOK'
<1> DEFINE q == pending_starts[t]
           r == pending_starts'[t]
<1>0. thread \in [Threads -> ThreadRecords] /\ thread[t].pc \in {"loop", "base"}
  BY DEF QueueInv, TypeOK, ThreadRecords, DrainLoop
<1>1. q # None /\ q \in Seq(Fetches)
  BY <1>0 DEF QueueInv, TypeOK, ThreadsOK
<1>2. UNCHANGED <<fetch_queue, info, answers>>
  BY DEF DrainLoop, infoVars
<1>3. /\ thread'[t].pc \in {"idle", "base"}
      /\ \A u \in Threads \ {t} : thread'[u] = thread[u]
  <2>1. PICK pc \in {"idle", "base"} : GoTo(t, pc, None, None)
    BY DEF DrainLoop, GoTo, Idle
  <2>2. pc \in ThreadStates
    BY DEF ThreadStates
  <2>3. /\ thread'[t] = [pc |-> pc, fetch |-> None, info |-> None]
        /\ \A u \in Threads \ {t} : thread'[u] = thread[u]
    BY <1>0, <2>1, <2>2, GoToType
  <2> QED BY <2>3
<1>4. ASSUME NEW u \in Threads, NEW v \in Threads PROVE HeldOnce(u, v)'
  BY <1>3 DEF PlacesOK, HeldOnce, HoldsFetch
<1>5. CASE q = <<>>
  <2>1. pending_starts' = [pending_starts EXCEPT ![t] = None] /\ UNCHANGED fstate
    BY <1>5 DEF DrainLoop
  <2>2. r = None /\ \A u \in Threads \ {t} : pending_starts'[u] = pending_starts[u]
    BY <2>1 DEF QueueInv, TypeOK
  <2>3. ASSUME NEW u \in Threads PROVE HeldOK(u)' /\ LoopOK(u)'
    BY <1>2, <1>3, <2>1, <2>2 DEF PlacesOK, HeldOK, LoopOK
  <2>4. ASSUME NEW u \in Threads, NEW v \in Threads PROVE LoopedOnce(u, v)'
    BY <2>2 DEF PlacesOK, LoopedOnce
  <2>5. ASSUME NEW g \in Fetches PROVE AnswersOK(g)' /\ QueueOK(g)'
    BY <1>2, <2>1 DEF PlacesOK, AnswersOK, QueueOK
  <2> QED BY <1>4, <2>3, <2>4, <2>5 DEF PlacesOK
<1>6. CASE q # <<>>
  <2>1. PICK f \in Fetches : f = Head(q)
    BY <1>1, <1>6, HeadTailProperties
  <2>2. /\ pending_starts' = [pending_starts EXCEPT ![t] = Tail(@)]
        /\ fstate' = [fstate EXCEPT ![f] = "outgoing"]
    BY <1>6, <2>1 DEF DrainLoop
  <2>3. /\ Len(q) \in Nat \ {0} /\ f = q[1]
        /\ Len(r) = Len(q) - 1
        /\ \A k \in 1..Len(r) : r[k] = q[k + 1] /\ k + 1 \in 1..Len(q)
    <3>1. r = Tail(q)
      BY <2>2 DEF QueueInv, TypeOK
    <3>2. Len(q) \in Nat \ {0} /\ Len(Tail(q)) = Len(q) - 1
          /\ \A k \in 1..Len(Tail(q)) : Tail(q)[k] = q[k + 1]
      BY <1>1, <1>6, HeadTailProperties, LenProperties, EmptySeq
    <3>3. Head(q) = q[1]
      BY <1>1, <1>6, HeadTailProperties
    <3> QED BY <2>1, <3>1, <3>2, <3>3
  <2>4. \A u \in Threads \ {t} : pending_starts'[u] = pending_starts[u]
    BY <2>2 DEF QueueInv, TypeOK
  <2>5. fstate'[f] = "outgoing" /\ \A g \in Fetches \ {f} : fstate'[g] = fstate[g]
    BY <2>2 DEF QueueInv, TypeOK
  <2>6. /\ \A k \in 1..Len(q) : fstate[q[k]] = "pending" /\ q[k] \in Fetches
        /\ \A k, l \in 1..Len(q) : q[k] = q[l] => k = l
    BY <1>1 DEF PlacesOK, LoopOK
  <2>7. fstate[f] = "pending"
    BY <2>3, <2>6
  <2>8. \A u \in Threads \ {t} : thread[u].pc \in HoldsFetch => thread[u].fetch # f
    BY <2>7, NotHeldElsewhere
  <2>9. ASSUME NEW u \in Threads PROVE HeldOK(u)'
    <3>1. CASE u = t
      BY <1>3, <3>1 DEF HeldOK
    <3>2. CASE u # t
      <4>1. thread'[u] = thread[u] /\ HeldOK(u)
        BY <3>2, <1>3 DEF PlacesOK
      <4>2. thread[u].pc \in HoldsFetch => thread[u].fetch \in Fetches \ {f}
        BY <3>2, <2>8 DEF QueueInv, ThreadsOK
      <4> QED BY <4>1, <4>2, <1>2, <2>5 DEF HeldOK, HoldsFetch
    <3> QED BY <3>1, <3>2
  <2>10. ASSUME NEW u \in Threads PROVE LoopOK(u)'
    <3>1. CASE u = t
      <4>1. \A k \in 1..Len(r) : r[k] \in Fetches \ {f}
        <5> SUFFICES ASSUME NEW k \in 1..Len(r) PROVE r[k] \in Fetches \ {f}
          OBVIOUS
        <5>1. k + 1 \in 1..Len(q) /\ 1 \in 1..Len(q) /\ k + 1 # 1
          BY <2>3
        <5> QED BY <2>3, <2>6, <5>1
      <4>2. \A k \in 1..Len(r) : fstate'[r[k]] = "pending"
        BY <2>3, <2>5, <2>6, <4>1
      <4>3. \A k, l \in 1..Len(r) : r[k] = r[l] => k = l
        <5> SUFFICES ASSUME NEW k \in 1..Len(r), NEW l \in 1..Len(r), r[k] = r[l]
                     PROVE  k = l
          OBVIOUS
        <5>1. /\ k + 1 \in 1..Len(q) /\ l + 1 \in 1..Len(q)
              /\ q[k + 1] = q[l + 1]
          BY <2>3
        <5>2. k + 1 = l + 1
          BY <2>6, <5>1
        <5>3. k \in Int /\ l \in Int
          OBVIOUS
        <5> QED BY <5>2, <5>3
      <4> QED BY <3>1, <4>2, <4>3 DEF LoopOK
    <3>2. CASE u # t
      <4>1. pending_starts'[u] = pending_starts[u] /\ LoopOK(u) /\ LoopedOnce(u, t)
        BY <2>4, <3>2 DEF PlacesOK
      <4>2. pending_starts[u] # None =>
              \A k \in 1..Len(pending_starts[u]) : pending_starts[u][k] \in Fetches \ {f}
        <5> SUFFICES ASSUME pending_starts[u] # None,
                            NEW k \in 1..Len(pending_starts[u])
                     PROVE  pending_starts[u][k] \in Fetches \ {f}
          OBVIOUS
        <5>1. pending_starts[u][k] \in Fetches
          BY DEF QueueInv, TypeOK
        <5>2. pending_starts[u][k] # f
          BY <1>1, <2>3, <3>2, <4>1 DEF LoopedOnce
        <5> QED BY <5>1, <5>2
      <4> QED BY <2>5, <4>1, <4>2 DEF LoopOK
    <3> QED BY <3>1, <3>2
  <2>11. ASSUME NEW u \in Threads, NEW v \in Threads PROVE LoopedOnce(u, v)'
    <3>1. LoopedOnce(u, v)
      BY DEF PlacesOK
    <3>2. CASE u # t /\ v # t
      BY <2>4, <3>1, <3>2 DEF LoopedOnce
    <3>3. CASE u # t /\ v = t
      <4> SUFFICES ASSUME pending_starts[u] # None,
                          NEW k \in 1..Len(pending_starts[u]), NEW l \in 1..Len(r),
                          pending_starts[u][k] = r[l]
                   PROVE  FALSE
        BY <2>4, <3>3 DEF LoopedOnce
      <4>1. l + 1 \in 1..Len(q) /\ q[l + 1] = pending_starts[u][k]
        BY <2>3
      <4> QED BY <1>1, <3>1, <3>3, <4>1 DEF LoopedOnce
    <3>4. CASE u = t /\ v # t
      <4> SUFFICES ASSUME pending_starts[v] # None,
                          NEW k \in 1..Len(r), NEW l \in 1..Len(pending_starts[v]),
                          r[k] = pending_starts[v][l]
                   PROVE  FALSE
        BY <2>4, <3>4 DEF LoopedOnce
      <4>1. k + 1 \in 1..Len(q) /\ q[k + 1] = pending_starts[v][l]
        BY <2>3
      <4> QED BY <1>1, <3>1, <3>4, <4>1 DEF LoopedOnce
    <3>5. CASE u = t /\ v = t
      BY <3>5 DEF LoopedOnce
    <3> QED BY <3>2, <3>3, <3>4, <3>5
  <2>12. ASSUME NEW g \in Fetches PROVE AnswersOK(g)'
    BY <1>2, <2>5, <2>7 DEF PlacesOK, AnswersOK
  <2>13. ASSUME NEW i \in Fetches PROVE QueueOK(i)'
    <3>1. \A k \in 1..Len(fetch_queue[i]) : fetch_queue[i][k] \in Fetches \ {f}
      BY <2>7 DEF PlacesOK, QueueOK, QueueInv, TypeOK
    <3> QED BY <1>2, <2>5, <3>1 DEF PlacesOK, QueueOK
  <2> QED BY <1>4, <2>9, <2>10, <2>11, <2>12, <2>13 DEF PlacesOK
<1> QED BY <1>5, <1>6

LEMMA PlacesStep ==
  ASSUME QueueInv, PlacesOK, [Next]_vars
  PROVE  PlacesOK'
<1>1. CASE UNCHANGED vars
  BY <1>1 DEF vars, infoVars, PlacesOK, AnswersOK, QueueOK, HeldOK, LoopOK,
              HeldOnce, LoopedOnce
<1>2. CASE ShutDown
  BY <1>2 DEF ShutDown, infoVars, PlacesOK, AnswersOK, QueueOK, HeldOK, LoopOK,
              HeldOnce, LoopedOnce
<1>3. ASSUME NEW t \in Threads, Continue(t) PROVE PlacesOK'
  BY <1>3, LookupPlaces, EnqueuePlaces, LetGoPlaces, NoFetchPlaces, PopPlaces,
     StartPoppedPlaces, DrainLoopPlaces
     DEF Continue
<1>4. ASSUME NEW t \in Threads, NEW f \in Fetches, Fetch(t, f) \/ HandleDone(t, f)
      PROVE  PlacesOK'
  BY <1>4, PlainFetchPlaces
<1> QED BY <1>1, <1>2, <1>3, <1>4 DEF Next

(***************************************************************************)
(* The slots of a host are counted exactly                                 *)
(***************************************************************************)

SlotStates == {"charged", "popped", "pending", "outgoing"}
ReleaseStates == {"decrement", "release"}

LEMMA ThresholdType == OutgoingThreshold \in Nat /\ OutgoingThreshold > 0
BY RateAssumption

LEMMA InitSlots == Init => SlotsAccounted /\ InfoLimit
<1> SUFFICES ASSUME Init PROVE SlotsAccounted /\ InfoLimit
  OBVIOUS
<1>1. ASSUME NEW i \in Fetches
      PROVE  /\ Slots(i) = {} /\ Releasing(i) = {}
             /\ num_outbound_fetches[i] = 0
  BY DEF Init, Slots, Releasing, Idle, Thread
<1>2. Cardinality({}) = 0
  BY FS_EmptySet
<1>3. SlotsAccounted
  BY <1>1, <1>2 DEF SlotsAccounted
<1>4. ASSUME NEW i \in Fetches
      PROVE  Cardinality(Slots(i) \cap Background) <= OutgoingThreshold
  <2>1. Slots(i) \cap Background = {}
    BY <1>1
  <2> QED BY <1>2, <2>1, ThresholdType
<1> QED BY <1>3, <1>4 DEF InfoLimit

\* Steps that neither take nor give up a slot.
LEMMA NeutralStep ==
  ASSUME SlotsAccounted, InfoLimit,
         UNCHANGED num_outbound_fetches,
         \A g, j \in Fetches : (info'[g] = j /\ fstate'[g] \in SlotStates)
                               <=> (info[g] = j /\ fstate[g] \in SlotStates),
         \A u \in Threads, j \in Fetches :
           (thread'[u].pc \in ReleaseStates /\ thread'[u].info = j)
           <=> (thread[u].pc \in ReleaseStates /\ thread[u].info = j)
  PROVE  (SlotsAccounted /\ InfoLimit)'
<1>1. ASSUME NEW j \in Fetches
      PROVE  Slots(j)' = Slots(j) /\ Releasing(j)' = Releasing(j)
  BY DEF Slots, Releasing, SlotStates, ReleaseStates
<1>2. SlotsAccounted'
  BY <1>1 DEF SlotsAccounted
<1>3. InfoLimit'
  BY <1>1 DEF InfoLimit
<1> QED BY <1>2, <1>3

\* A fetch takes a slot of i: the threshold was checked, or f is user-facing.
LEMMA GainStep ==
  ASSUME QueueInv, SlotsAccounted, InfoLimit, NEW f \in Fetches, NEW i \in Fetches,
         num_outbound_fetches' = [num_outbound_fetches EXCEPT ![i] = @ + 1],
         f \notin Background \/ num_outbound_fetches[i] < OutgoingThreshold,
         f \notin Slots(i), Slots(i)' = Slots(i) \cup {f},
         \A j \in Fetches \ {i} : Slots(j)' = Slots(j),
         \A j \in Fetches : Releasing(j)' = Releasing(j)
  PROVE  (SlotsAccounted /\ InfoLimit)'
<1>1. /\ Cardinality(Slots(i) \cup {f}) = Cardinality(Slots(i)) + 1
      /\ IsFiniteSet(Slots(i) \cup {f})
  BY SlotsFinite, FS_AddElement
<1>2. /\ num_outbound_fetches'[i] = num_outbound_fetches[i] + 1
      /\ \A j \in Fetches \ {i} : num_outbound_fetches'[j] = num_outbound_fetches[j]
      /\ num_outbound_fetches[i] \in Int
  BY DEF QueueInv, TypeOK
<1>3. num_outbound_fetches[i] = Cardinality(Slots(i)) + Cardinality(Releasing(i))
      /\ Cardinality(Slots(i)) \in Nat /\ Cardinality(Releasing(i)) \in Nat
  BY SlotsFinite DEF SlotsAccounted
<1>4. ASSUME NEW j \in Fetches
      PROVE  num_outbound_fetches'[j] = Cardinality(Slots(j)') + Cardinality(Releasing(j)')
  <2>1. CASE j = i
    <3>1. Slots(j)' = Slots(i)' /\ Releasing(j)' = Releasing(i)'
      BY <2>1 DEF Slots, Releasing
    <3>2. Slots(j)' = Slots(i) \cup {f} /\ Releasing(j)' = Releasing(i)
      BY <3>1
    <3>3. Cardinality(Slots(j)') = Cardinality(Slots(i) \cup {f})
          /\ Cardinality(Releasing(j)') = Cardinality(Releasing(i))
      BY <3>2
    <3> QED BY <1>1, <1>2, <1>3, <2>1, <3>3
  <2>2. CASE j # i
    BY <1>2, <2>2 DEF SlotsAccounted
  <2> QED BY <2>1, <2>2
<1>5. SlotsAccounted'
  BY <1>4 DEF SlotsAccounted
<1>6. ASSUME NEW j \in Fetches
      PROVE  Cardinality(Slots(j)' \cap Background) <= OutgoingThreshold
  <2>1. CASE j # i
    BY <2>1 DEF InfoLimit
  <2>2. CASE j = i /\ f \notin Background
    <3>1. Slots(j)' \cap Background = Slots(i) \cap Background
      BY <2>2
    <3> QED BY <3>1 DEF InfoLimit
  <2>3. CASE j = i /\ num_outbound_fetches[i] < OutgoingThreshold
    <3> DEFINE S == Slots(i) \cup {f}
    <3>1. S \cap Background \subseteq S /\ IsFiniteSet(S)
      BY <1>1
    <3>2. Cardinality(S \cap Background) <= Cardinality(S)
          /\ Cardinality(S \cap Background) \in Nat /\ Cardinality(S) \in Nat
      <4> HIDE DEF S
      <4>1. IsFiniteSet(S \cap Background)
        BY <3>1, FS_Subset
      <4> QED BY <3>1, <4>1, FS_Subset, FS_CardinalityType
    <3>3. Cardinality(S) <= OutgoingThreshold
      BY <1>1, <1>3, <2>3, RateAssumption
    <3>4. Slots(j)' = S
      <4>1. Slots(j)' = Slots(i)'
        BY <2>3 DEF Slots
      <4> QED BY <4>1
    <3> HIDE DEF S
    <3>5. Cardinality(S \cap Background) <= OutgoingThreshold
      BY <3>2, <3>3, ThresholdType
    <3> QED BY <3>4, <3>5
  <2> QED BY <2>1, <2>2, <2>3
<1>7. InfoLimit'
  BY <1>6 DEF InfoLimit
<1> QED BY <1>5, <1>7

\* A fetch of i is answered: its slot passes to the thread that answered it.
LEMMA PassStep ==
  ASSUME QueueInv, SlotsAccounted, InfoLimit, NEW f \in Fetches, NEW i \in Fetches,
         NEW t \in Threads, UNCHANGED num_outbound_fetches,
         f \in Slots(i), Slots(i)' = Slots(i) \ {f},
         \A j \in Fetches \ {i} : Slots(j)' = Slots(j),
         t \notin Releasing(i), Releasing(i)' = Releasing(i) \cup {t},
         \A j \in Fetches \ {i} : Releasing(j)' = Releasing(j)
  PROVE  (SlotsAccounted /\ InfoLimit)'
<1>1. Cardinality(Slots(i) \ {f}) = Cardinality(Slots(i)) - 1
  BY SlotsFinite, FS_RemoveElement
<1>2. Cardinality(Releasing(i) \cup {t}) = Cardinality(Releasing(i)) + 1
  BY SlotsFinite, FS_AddElement
<1>3. num_outbound_fetches[i] = Cardinality(Slots(i)) + Cardinality(Releasing(i))
      /\ Cardinality(Slots(i)) \in Nat /\ Cardinality(Releasing(i)) \in Nat
  BY SlotsFinite DEF SlotsAccounted
<1>4. ASSUME NEW j \in Fetches
      PROVE  num_outbound_fetches'[j] = Cardinality(Slots(j)') + Cardinality(Releasing(j)')
  <2>1. CASE j = i
    <3>1. Slots(j)' = Slots(i)' /\ Releasing(j)' = Releasing(i)'
      BY <2>1 DEF Slots, Releasing
    <3>2. Slots(j)' = Slots(i) \ {f} /\ Releasing(j)' = Releasing(i) \cup {t}
      BY <3>1
    <3>3. Cardinality(Slots(j)') = Cardinality(Slots(i) \ {f})
          /\ Cardinality(Releasing(j)') = Cardinality(Releasing(i) \cup {t})
      BY <3>2
    <3> QED BY <1>1, <1>2, <1>3, <2>1, <3>3
  <2>2. CASE j # i
    BY <2>2 DEF SlotsAccounted
  <2> QED BY <2>1, <2>2
<1>5. SlotsAccounted'
  BY <1>4 DEF SlotsAccounted
<1>6. ASSUME NEW j \in Fetches
      PROVE  Cardinality(Slots(j)' \cap Background) <= OutgoingThreshold
  <2>1. CASE j # i
    BY <2>1 DEF InfoLimit
  <2>2. CASE j = i
    <3> DEFINE B == Slots(i) \cap Background
               C == Slots(j)' \cap Background
    <3>1. C \subseteq B /\ B \subseteq Slots(i)
      BY <2>2
    <3>2. Cardinality(B) <= OutgoingThreshold /\ IsFiniteSet(Slots(i))
      BY SlotsFinite DEF InfoLimit
    <3> HIDE DEF B, C
    <3>3. IsFiniteSet(B) /\ IsFiniteSet(C) /\ Cardinality(C) <= Cardinality(B)
      BY <3>1, <3>2, FS_Subset
    <3>4. Cardinality(B) \in Nat /\ Cardinality(C) \in Nat
      BY <3>3, FS_CardinalityType
    <3> QED BY <3>2, <3>3, <3>4, RateAssumption DEF C
  <2> QED BY <2>1, <2>2
<1>7. InfoLimit'
  BY <1>6 DEF InfoLimit
<1> QED BY <1>5, <1>7

\* A thread gives up the slot of a fetch it has answered.
LEMMA LoseStep ==
  ASSUME QueueInv, SlotsAccounted, InfoLimit, NEW i \in Fetches, NEW t \in Threads,
         num_outbound_fetches' = [num_outbound_fetches EXCEPT ![i] = @ - 1],
         \A j \in Fetches : Slots(j)' = Slots(j),
         t \in Releasing(i), Releasing(i)' = Releasing(i) \ {t},
         \A j \in Fetches \ {i} : Releasing(j)' = Releasing(j)
  PROVE  (SlotsAccounted /\ InfoLimit)'
<1>1. Cardinality(Releasing(i) \ {t}) = Cardinality(Releasing(i)) - 1
  BY SlotsFinite, FS_RemoveElement
<1>2. /\ num_outbound_fetches'[i] = num_outbound_fetches[i] - 1
      /\ \A j \in Fetches \ {i} : num_outbound_fetches'[j] = num_outbound_fetches[j]
  BY DEF QueueInv, TypeOK
<1>3. num_outbound_fetches[i] = Cardinality(Slots(i)) + Cardinality(Releasing(i))
      /\ Cardinality(Slots(i)) \in Nat /\ Cardinality(Releasing(i)) \in Nat
  BY SlotsFinite DEF SlotsAccounted
<1>4. ASSUME NEW j \in Fetches
      PROVE  num_outbound_fetches'[j] = Cardinality(Slots(j)') + Cardinality(Releasing(j)')
  <2>1. CASE j = i
    <3>1. Slots(j)' = Slots(i)' /\ Releasing(j)' = Releasing(i)'
      BY <2>1 DEF Slots, Releasing
    <3>2. Slots(j)' = Slots(i) /\ Releasing(j)' = Releasing(i) \ {t}
      BY <3>1
    <3>3. Cardinality(Slots(j)') = Cardinality(Slots(i))
          /\ Cardinality(Releasing(j)') = Cardinality(Releasing(i) \ {t})
      BY <3>2
    <3> QED BY <1>1, <1>2, <1>3, <2>1, <3>3
  <2>2. CASE j # i
    BY <1>2, <2>2 DEF SlotsAccounted
  <2> QED BY <2>1, <2>2
<1>5. SlotsAccounted'
  BY <1>4 DEF SlotsAccounted
<1>6. InfoLimit'
  BY DEF InfoLimit
<1> QED BY <1>5, <1>6

\* A change of state of one fetch f and of one thread t, for NeutralStep.
LEMMA NeutralMove ==
  ASSUME SlotsAccounted, InfoLimit, NEW t \in Threads, NEW f \in Fetches,
         UNCHANGED num_outbound_fetches,
         \A g \in Fetches \ {f} : fstate'[g] = fstate[g] /\ info'[g] = info[g],
         \/ fstate[f] \notin SlotStates /\ fstate'[f] \notin SlotStates
         \/ fstate[f] \in SlotStates /\ fstate'[f] \in SlotStates /\ info'[f] = info[f]
         \/ info[f] = None /\ info'[f] = None,
         \A u \in Threads \ {t} : thread'[u] = thread[u],
         thread[t].pc \notin ReleaseStates, thread'[t].pc \notin ReleaseStates
  PROVE  (SlotsAccounted /\ InfoLimit)'
<1>1. \A g, j \in Fetches : (info'[g] = j /\ fstate'[g] \in SlotStates)
                            <=> (info[g] = j /\ fstate[g] \in SlotStates)
  BY RateAssumption
<1>2. \A u \in Threads, j \in Fetches :
        (thread'[u].pc \in ReleaseStates /\ thread'[u].info = j)
        <=> (thread[u].pc \in ReleaseStates /\ thread[u].info = j)
  OBVIOUS
<1> QED BY <1>1, <1>2, NeutralStep

LEMMA FetchSlots ==
  ASSUME QueueInv, PlacesOK, SlotsAccounted, InfoLimit,
         NEW t \in Threads, NEW f \in Fetches, Fetch(t, f)
  PROVE  (SlotsAccounted /\ InfoLimit)'
<1>0. thread \in [Threads -> ThreadRecords] /\ fstate \in [Fetches -> FetchStates]
  BY DEF QueueInv, TypeOK, ThreadRecords
<1>1. /\ thread[t].pc = "idle" /\ fstate[f] = "new"
      /\ UNCHANGED <<num_outbound_fetches, info>>
      /\ \A g \in Fetches \ {f} : fstate'[g] = fstate[g]
  BY <1>0 DEF Fetch, Answer, infoVars
<1>2. info[f] = None
  BY <1>1 DEF PlacesOK, AnswersOK
<1>3. /\ \A u \in Threads \ {t} : thread'[u] = thread[u]
      /\ thread'[t].pc \in {"idle", "lookup"}
  BY <1>0, <1>1 DEF Fetch, GoTo, Thread, ThreadRecords
<1> QED BY <1>1, <1>2, <1>3, NeutralMove DEF ReleaseStates

LEMMA LookupSlots ==
  ASSUME QueueInv, PlacesOK, SlotsAccounted, InfoLimit, NEW t \in Threads, Lookup(t)
  PROVE  (SlotsAccounted /\ InfoLimit)'
<1>0. thread \in [Threads -> ThreadRecords] /\ thread[t].pc = "lookup"
  BY DEF QueueInv, TypeOK, ThreadRecords, Lookup
<1>1. PICK f \in Fetches : f = thread[t].fetch /\ host[f] \in Hosts
  BY <1>0 DEF QueueInv, ThreadsOK, HoldsFetch
<1>2. PICK i \in Fetches :
        i = IF fetch_info_map[host[f]] = None THEN f ELSE fetch_info_map[host[f]]
  BY <1>1 DEF QueueInv, TypeOK
<1>3. fstate[f] = "calling"
  BY <1>0, <1>1 DEF PlacesOK, HeldOK
<1>4. info' = [info EXCEPT ![f] = i]
  BY <1>1, <1>2 DEF Lookup
<1>5. info'[f] = i /\ \A g \in Fetches \ {f} : info'[g] = info[g]
  BY <1>4 DEF QueueInv, TypeOK
<1>6. CASE /\ f \notin Background \/ CanTriggerFetch(i)
           /\ num_outbound_fetches' = [num_outbound_fetches EXCEPT ![i] = @ + 1]
           /\ fstate' = [fstate EXCEPT ![f] = "charged"]
           /\ GoTo(t, "start", f, i)
  <2>1. /\ thread'[t] = [pc |-> "start", fetch |-> f, info |-> i]
        /\ \A u \in Threads \ {t} : thread'[u] = thread[u]
    BY <1>0, <1>6, GoToType DEF ThreadStates
  <2>2. fstate'[f] = "charged" /\ \A g \in Fetches \ {f} : fstate'[g] = fstate[g]
    BY <1>6 DEF QueueInv, TypeOK
  <2>3. f \notin Slots(i) /\ Slots(i)' = Slots(i) \cup {f}
    BY <1>3, <1>5, <2>2 DEF Slots
  <2>4. \A j \in Fetches \ {i} : Slots(j)' = Slots(j)
    BY <1>3, <1>5, <2>2 DEF Slots
  <2>5. \A j \in Fetches : Releasing(j)' = Releasing(j)
    BY <1>0, <2>1 DEF Releasing
  <2>6. f \notin Background \/ num_outbound_fetches[i] < OutgoingThreshold
    BY <1>6 DEF CanTriggerFetch
  <2> QED BY <1>6, <2>3, <2>4, <2>5, <2>6, GainStep
<1>7. CASE /\ GoTo(t, "enqueue", f, i) \/ GoTo(t, "drop", f, i)
           /\ UNCHANGED <<num_outbound_fetches, fstate>>
  <2>1. /\ thread'[t].pc \in {"enqueue", "drop"}
        /\ \A u \in Threads \ {t} : thread'[u] = thread[u]
    BY <1>0, <1>7 DEF GoTo, Thread
  <2> QED BY <1>0, <1>3, <1>5, <1>7, <2>1, NeutralMove DEF SlotStates, ReleaseStates
<1> QED BY <1>1, <1>2, <1>6, <1>7 DEF Lookup

\* A thread hands its fetch on: to the queue, to the base fetcher or, with
\* Done(false), to its client, or from the queue's head to the drain loop.
LEMMA HandOnSlots ==
  ASSUME QueueInv, PlacesOK, SlotsAccounted, InfoLimit, NEW t \in Threads,
         Enqueue(t) \/ Start(t) \/ Drop(t) \/ StartPopped(t)
  PROVE  (SlotsAccounted /\ InfoLimit)'
<1>0. /\ thread \in [Threads -> ThreadRecords]
      /\ thread[t].pc \in {"enqueue", "start", "drop", "popped"}
  BY DEF QueueInv, TypeOK, ThreadRecords, Enqueue, Start, Drop, StartPopped
<1>1. PICK f \in Fetches : f = thread[t].fetch
  BY <1>0 DEF QueueInv, ThreadsOK, HoldsFetch
<1>2. HeldOK(t)
  BY DEF PlacesOK
<1>3. UNCHANGED <<num_outbound_fetches, info>>
  BY DEF Enqueue, Start, Drop, StartPopped, infoVars
<1>4. /\ \A u \in Threads \ {t} : thread'[u] = thread[u]
      /\ thread'[t].pc \in {"idle", "base", "delete", "loop"}
  BY <1>0 DEF Enqueue, Start, Drop, StartPopped, Return, GoTo, Thread
<1>5. /\ \A g \in Fetches \ {f} : fstate'[g] = fstate[g]
      /\ \/ fstate[f] = "calling" /\ fstate'[f] \in {"queued", "answered"}
         \/ fstate[f] = "charged" /\ fstate'[f] = "outgoing"
         \/ fstate[f] = "popped" /\ fstate'[f] = "pending"
  BY <1>1, <1>2 DEF Enqueue, Start, Drop, StartPopped, Answer, HeldOK, QueueInv, TypeOK
<1> QED BY <1>0, <1>3, <1>4, <1>5, NeutralMove DEF SlotStates, ReleaseStates

LEMMA DeleteSlots ==
  ASSUME QueueInv, SlotsAccounted, InfoLimit, NEW t \in Threads,
         DeleteFetchInfoIfPossible(t)
  PROVE  (SlotsAccounted /\ InfoLimit)'
<1>0. thread \in [Threads -> ThreadRecords] /\ thread[t].pc = "delete"
  BY DEF QueueInv, TypeOK, ThreadRecords, DeleteFetchInfoIfPossible
<1>1. /\ \A u \in Threads \ {t} : thread'[u] = thread[u]
      /\ thread'[t].pc \in {"idle", "base"}
  BY <1>0, ReturnType DEF DeleteFetchInfoIfPossible
<1>2. UNCHANGED <<num_outbound_fetches, info, fstate>>
  BY DEF DeleteFetchInfoIfPossible
<1> QED BY <1>0, <1>1, <1>2, NeutralStep DEF ReleaseStates

LEMMA DrainLoopSlots ==
  ASSUME QueueInv, PlacesOK, SlotsAccounted, InfoLimit, NEW t \in Threads, DrainLoop(t)
  PROVE  (SlotsAccounted /\ InfoLimit)'
<1>0. thread \in [Threads -> ThreadRecords] /\ thread[t].pc \in {"loop", "base"}
  BY DEF QueueInv, TypeOK, ThreadRecords, DrainLoop
<1>1. /\ \A u \in Threads \ {t} : thread'[u] = thread[u]
      /\ thread'[t].pc \in {"idle", "base"}
      /\ UNCHANGED <<num_outbound_fetches, info>>
  BY <1>0 DEF DrainLoop, GoTo, Thread, Idle, infoVars
<1>2. CASE UNCHANGED fstate
  BY <1>0, <1>1, <1>2, NeutralStep DEF ReleaseStates
<1>3. CASE pending_starts[t] # <<>>
  <2>1. pending_starts[t] \in Seq(Fetches) /\ pending_starts[t] # None
    BY <1>0 DEF QueueInv, TypeOK, ThreadsOK
  <2>2. PICK f \in Fetches : f = Head(pending_starts[t])
    BY <1>3, <2>1, HeadTailProperties
  <2>3. 1 \in 1..Len(pending_starts[t]) /\ f = pending_starts[t][1]
    BY <1>3, <2>1, <2>2, HeadTailProperties, LenProperties, EmptySeq
  <2>4. fstate[f] = "pending"
    BY <2>1, <2>3 DEF PlacesOK, LoopOK
  <2>5. fstate' = [fstate EXCEPT ![f] = "outgoing"]
    BY <1>3, <2>2 DEF DrainLoop
  <2>6. fstate'[f] = "outgoing" /\ \A g \in Fetches \ {f} : fstate'[g] = fstate[g]
    BY <2>5 DEF QueueInv, TypeOK
  <2> QED BY <1>0, <1>1, <2>4, <2>6, NeutralMove DEF SlotStates, ReleaseStates
<1> QED BY <1>2, <1>3 DEF DrainLoop

LEMMA AnsweredSlots ==
  ASSUME QueueInv, PlacesOK, SlotsAccounted, InfoLimit, NEW t \in Threads,
         NEW f \in Fetches,
         HandleDone(t, f) \/ (DiscardPopped(t) /\ f = thread[t].fetch)
  PROVE  (SlotsAccounted /\ InfoLimit)'
<1>0. /\ thread \in [Threads -> ThreadRecords]
      /\ thread[t].pc \in {"idle", "base", "popped"}
  BY DEF QueueInv, TypeOK, ThreadRecords, HandleDone, DiscardPopped
<1>1. /\ UNCHANGED <<num_outbound_fetches, info>>
      /\ fstate'[f] = "answered"
      /\ \A g \in Fetches \ {f} : fstate'[g] = fstate[g]
  BY DEF HandleDone, DiscardPopped, Answer, infoVars, QueueInv, TypeOK
<1>2. fstate[f] \in {"outgoing", "popped"}
  BY DEF HandleDone, DiscardPopped, PlacesOK, HeldOK
<1>3. CASE info[f] = None /\ UNCHANGED thread
  <2>1. \A g, j \in Fetches : (info'[g] = j /\ fstate'[g] \in SlotStates)
                              <=> (info[g] = j /\ fstate[g] \in SlotStates)
    BY <1>1, <1>3, RateAssumption
  <2> QED BY <1>1, <1>3, <2>1, NeutralStep
<1>4. CASE /\ info[f] # None
           /\ \E pc \in ReleaseStates, g \in {f, None} : GoTo(t, pc, g, info[f])
  <2>1. PICK i \in Fetches : i = info[f]
    BY <1>4 DEF QueueInv, TypeOK
  <2>2. /\ thread'[t].pc \in ReleaseStates /\ thread'[t].info = i
        /\ \A u \in Threads \ {t} : thread'[u] = thread[u]
    BY <1>0, <1>4, <2>1 DEF GoTo, Thread
  <2>3. f \in Slots(i) /\ Slots(i)' = Slots(i) \ {f}
    BY <1>1, <1>2, <2>1 DEF Slots
  <2>4. \A j \in Fetches \ {i} : Slots(j)' = Slots(j)
    BY <1>1, <1>2, <2>1 DEF Slots
  <2>5. t \notin Releasing(i) /\ Releasing(i)' = Releasing(i) \cup {t}
    BY <1>0, <2>2 DEF Releasing, ReleaseStates
  <2>6. \A j \in Fetches \ {i} : Releasing(j)' = Releasing(j)
    BY <1>0, <2>2 DEF Releasing, ReleaseStates
  <2> QED BY <1>1, <2>3, <2>4, <2>5, <2>6, PassStep
<1>5. CASE HandleDone(t, f)
  BY <1>3, <1>4, <1>5 DEF HandleDone, ReleaseStates
<1>6. CASE DiscardPopped(t) /\ f = thread[t].fetch
  <2>1. info[f] = thread[t].info /\ thread[t].info # None
    <3>1. HeldOK(t) /\ thread[t].pc = "popped"
      BY <1>6 DEF PlacesOK, DiscardPopped
    <3>2. thread[t].info \in Fetches
      BY <3>1 DEF QueueInv, ThreadsOK, HoldsInfo
    <3> QED BY <1>6, <3>1, <3>2, RateAssumption DEF HeldOK
  <2> QED BY <1>4, <1>6, <2>1 DEF DiscardPopped, ReleaseStates
<1> QED BY <1>5, <1>6

LEMMA GiveUpSlots ==
  ASSUME QueueInv, SlotsAccounted, InfoLimit, NEW t \in Threads,
         Decrement(t) \/ Release(t)
  PROVE  (SlotsAccounted /\ InfoLimit)'
<1>0. thread \in [Threads -> ThreadRecords] /\ thread[t].pc \in ReleaseStates
  BY DEF QueueInv, TypeOK, ThreadRecords, Decrement, Release, ReleaseStates
<1>1. PICK i \in Fetches : i = thread[t].info
  BY <1>0 DEF QueueInv, ThreadsOK, HoldsInfo, ReleaseStates
<1>2. /\ num_outbound_fetches' = [num_outbound_fetches EXCEPT ![i] = @ - 1]
      /\ UNCHANGED <<info, fstate>>
      /\ GoTo(t, "pop", None, i)
  BY <1>1 DEF Decrement, Release, Decremented
<1>3. /\ thread'[t] = [pc |-> "pop", fetch |-> None, info |-> i]
      /\ \A u \in Threads \ {t} : thread'[u] = thread[u]
  BY <1>0, <1>2, GoToType DEF ThreadStates
<1>4. \A j \in Fetches : Slots(j)' = Slots(j)
  BY <1>2 DEF Slots
<1>5. t \in Releasing(i) /\ Releasing(i)' = Releasing(i) \ {t}
  BY <1>0, <1>1, <1>3 DEF Releasing, ReleaseStates
<1>6. \A j \in Fetches \ {i} : Releasing(j)' = Releasing(j)
  BY <1>0, <1>1, <1>3 DEF Releasing
<1> QED BY <1>2, <1>4, <1>5, <1>6, LoseStep

LEMMA PopSlots ==
  ASSUME QueueInv, PlacesOK, SlotsAccounted, InfoLimit, NEW t \in Threads,
         PopNextFetch(t)
  PROVE  (SlotsAccounted /\ InfoLimit)'
<1>0. thread \in [Threads -> ThreadRecords] /\ thread[t].pc = "pop"
  BY DEF QueueInv, TypeOK, ThreadRecords, PopNextFetch
<1>1. PICK i \in Fetches : i = thread[t].info
  BY <1>0 DEF QueueInv, ThreadsOK, HoldsInfo
<1>2. UNCHANGED info
  BY DEF PopNextFetch
<1>3. CASE fetch_queue[i] = <<>> \/ ~HasRoom(i)
  <2>1. GoTo(t, "delete", None, i) /\ UNCHANGED <<num_outbound_fetches, fstate>>
    BY <1>1, <1>3 DEF PopNextFetch
  <2>2. /\ thread'[t] = [pc |-> "delete", fetch |-> None, info |-> i]
        /\ \A u \in Threads \ {t} : thread'[u] = thread[u]
    BY <1>0, <2>1, GoToType DEF ThreadStates
  <2> QED BY <1>0, <1>2, <2>1, <2>2, NeutralStep DEF ReleaseStates
<1>4. CASE ~(fetch_queue[i] = <<>> \/ ~HasRoom(i))
  <2>1. fetch_queue[i] \in Seq(Fetches)
    BY DEF QueueInv, TypeOK
  <2>2. PICK f \in Fetches : f = Head(fetch_queue[i])
    BY <1>4, <2>1, HeadTailProperties
  <2>3. 1 \in 1..Len(fetch_queue[i]) /\ f = fetch_queue[i][1]
    BY <1>4, <2>1, <2>2, HeadTailProperties, LenProperties, EmptySeq
  <2>4. fstate[f] = "queued" /\ info[f] = i
    BY <2>3 DEF PlacesOK, QueueOK
  <2>5. /\ num_outbound_fetches' = [num_outbound_fetches EXCEPT ![i] = @ + 1]
        /\ fstate' = [fstate EXCEPT ![f] = "popped"]
        /\ GoTo(t, "popped", f, i)
        /\ num_outbound_fetches[i] < OutgoingThreshold
    BY <1>1, <1>4, <2>2 DEF PopNextFetch, Charged, HasRoom
  <2>6. fstate'[f] = "popped" /\ \A g \in Fetches \ {f} : fstate'[g] = fstate[g]
    BY <2>5 DEF QueueInv, TypeOK
  <2>7. /\ thread'[t] = [pc |-> "popped", fetch |-> f, info |-> i]
        /\ \A u \in Threads \ {t} : thread'[u] = thread[u]
    BY <1>0, <2>5, GoToType DEF ThreadStates
  <2>8. f \notin Slots(i) /\ Slots(i)' = Slots(i) \cup {f}
    BY <1>2, <2>4, <2>6 DEF Slots
  <2>9. \A j \in Fetches \ {i} : Slots(j)' = Slots(j)
    BY <1>2, <2>4, <2>6 DEF Slots
  <2>10. \A j \in Fetches : Releasing(j)' = Releasing(j)
    BY <1>0, <2>7 DEF Releasing
  <2> QED BY <2>5, <2>8, <2>9, <2>10, GainStep
<1> QED BY <1>3, <1>4

LEMMA SlotsStep ==
  ASSUME QueueInv, PlacesOK, SlotsAccounted, InfoLimit, [Next]_vars
  PROVE  (SlotsAccounted /\ InfoLimit)'
<1>1. CASE UNCHANGED vars \/ ShutDown
  BY <1>1, NeutralStep DEF vars, infoVars, ShutDown
<1>2. ASSUME NEW t \in Threads, DiscardPopped(t)
      PROVE  (SlotsAccounted /\ InfoLimit)'
  <2>1. thread[t].fetch \in Fetches
    BY <1>2 DEF DiscardPopped, QueueInv, ThreadsOK, HoldsFetch
  <2> QED BY <1>2, <2>1, AnsweredSlots
<1>3. ASSUME NEW t \in Threads, Continue(t) PROVE (SlotsAccounted /\ InfoLimit)'
  BY <1>2, <1>3, LookupSlots, HandOnSlots, DeleteSlots, GiveUpSlots, PopSlots,
     DrainLoopSlots
     DEF Continue
<1>4. ASSUME NEW t \in Threads, NEW f \in Fetches, Fetch(t, f) \/ HandleDone(t, f)
      PROVE  (SlotsAccounted /\ InfoLimit)'
  BY <1>4, FetchSlots, AnsweredSlots
<1> QED BY <1>1, <1>3, <1>4 DEF Next

(***************************************************************************)
(* The theorems                                                            *)
(***************************************************************************)

\* RateInv holds in every reachable state of the controller.
THEOREM RateInvariant == Spec => []RateInv
<1>1. Init => RateInv
  BY InitQueueInv, InitPlaces, InitSlots DEF RateInv
<1>2. RateInv /\ [Next]_vars => RateInv'
  BY QueueInvStep, PlacesStep, SlotsStep DEF RateInv
<1> QED BY <1>1, <1>2, PTL DEF Spec

\* Every completion, pop and discard keeps the count of a host's slots exact,
\* so that decrement_num_outbound_fetches never meets a count of zero.
THEOREM CountsAreExact == Spec => []SlotsAccounted
<1>1. RateInv => SlotsAccounted
  BY DEF RateInv
<1> QED BY <1>1, RateInvariant, PTL

\* A HostFetchInfo never has more background fetches out than the threshold.
THEOREM LimitPerHostFetchInfo == Spec => []InfoLimit
<1>1. RateInv => InfoLimit
  BY DEF RateInv
<1> QED BY <1>1, RateInvariant, PTL

\* A queued fetch always has an outstanding fetch, or a thread about to look at
\* its queue, that will take it out.
THEOREM QueuedIsWoken == Spec => []NobodyStranded
<1>1. RateInv => NobodyStranded
  BY DEF RateInv, QueueInv
<1> QED BY <1>1, RateInvariant, PTL

\* Every variable of the controller keeps its type.
THEOREM TypeCorrect == Spec => []TypeOK
<1>1. RateInv => TypeOK
  BY DEF RateInv, QueueInv
<1> QED BY <1>1, RateInvariant, PTL
===============================================================================
