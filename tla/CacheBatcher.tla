----------------------------- MODULE CacheBatcher -----------------------------
(***************************************************************************)
(* The batcher of cache lookups (pagespeed/kernel/cache/cache_batcher.cc). *)
(*                                                                         *)
(* The batcher passes up to max_parallel_lookups lookups to its cache and  *)
(* queues the keys of later ones, until a group of lookups completes and   *)
(* the queue goes out as one MultiGet.  A Get of a key that is in flight   *)
(* joins the lookup.  One action is one critical section of mutex_,        *)
(* together with what the caller then does to objects only it can reach.   *)
(*                                                                         *)
(* The cache below is asynchronous: it validates each lookup's candidate   *)
(* one or more times (a two-level cache does so for each level) and then   *)
(* reports it done, on any thread and in any order.  The base cache of a   *)
(* blocking deployment makes the same steps before Get returns.            *)
(***************************************************************************)
EXTENDS Integers, FiniteSets

CONSTANTS
  Keys,
  Callbacks,     \* each is passed to one Get
  MaxParallel,   \* options_.max_parallel_lookups
  MaxPending     \* options_.max_pending_gets

ASSUME BatcherAssumption ==
  /\ IsFiniteSet(Keys) /\ IsFiniteSet(Callbacks)
  /\ MaxParallel \in Nat \ {0} /\ MaxPending \in Nat \ {0}

VARIABLES
  in_flight, queued,      \* callbacks per key; a key is absent when it has none
  num_in_flight_groups, num_in_flight_keys, num_pending_gets,
  shutdown,
  outstanding,            \* Group::outstanding_lookups_ per group
  lookups,                \* the MultiCallbacks
  status,                 \* per callback: what became of its Get
  told,                   \* per callback: was it told kAvailable?
  accepted,               \* callbacks that accepted a candidate (history)
  crashed                 \* a CHECK has failed

counts == <<num_in_flight_groups, num_in_flight_keys, num_pending_gets>>
clients == <<status, told, accepted>>
vars == <<in_flight, queued, counts, shutdown, outstanding, lookups, clients,
          crashed>>

\* A group has at least one callback of its own, which bounds those alive.
Groups == 1..Cardinality(Callbacks)

\* A MultiCallback: saved and available are its saved_ records, those in
\* available with state kAvailable.  absent says that the lookup is one that
\* ShutDown reports as not found.
MultiCallback(g, k, absent) ==
  [group |-> g, key |-> k, absent |-> absent, pc |-> "sent",
   saved |-> {}, available |-> {}]

Init ==
  /\ in_flight = [k \in Keys |-> {}] /\ queued = [k \in Keys |-> {}]
  /\ num_in_flight_groups = 0 /\ num_in_flight_keys = 0 /\ num_pending_gets = 0
  /\ shutdown = FALSE
  /\ outstanding = [g \in Groups |-> 0] /\ lookups = {}
  /\ status = [c \in Callbacks |-> "unused"]
  /\ told = [c \in Callbacks |-> FALSE] /\ accepted = {}
  /\ crashed = FALSE

\* The groups that have not called GroupComplete.
LiveGroups == {l.group : l \in lookups}
\* A new Group, not one in use.
NewGroup == CHOOSE g \in Groups : g \notin LiveGroups

CanIssueGet == ~shutdown /\ num_in_flight_groups < MaxParallel
CanQueueCallback == ~shutdown /\ num_pending_gets < MaxPending

(***************************************************************************)
(* Get                                                                     *)
(***************************************************************************)

\* A lookup of the key is in flight and takes the callback along.
Joins(k) == CanQueueCallback /\ in_flight[k] # {}

Pending(c) == status' = [status EXCEPT ![c] = "pending"]

Coalesce(c, k) ==
  /\ status[c] = "unused" /\ Joins(k)
  /\ in_flight' = [in_flight EXCEPT ![k] = @ \cup {c}]
  /\ num_pending_gets' = num_pending_gets + 1
  /\ Pending(c)
  /\ UNCHANGED <<queued, num_in_flight_groups, num_in_flight_keys, shutdown,
                 outstanding, lookups, told, accepted>>

Issue(c, k) ==
  /\ status[c] = "unused" /\ ~Joins(k) /\ CanIssueGet
  /\ num_in_flight_groups' = num_in_flight_groups + 1
  /\ num_pending_gets' = num_pending_gets + 1
  /\ num_in_flight_keys' = num_in_flight_keys + 1
  /\ in_flight' = [in_flight EXCEPT ![k] = @ \cup {c}]
  /\ outstanding' = [outstanding EXCEPT ![NewGroup] = 1]
  /\ lookups' = lookups \cup {MultiCallback(NewGroup, k, FALSE)}
  /\ Pending(c)
  /\ UNCHANGED <<queued, shutdown, told, accepted>>

QueueUncounted == num_pending_gets                                   \* mutant
QueueCounted == num_pending_gets + 1

Queue(c, k) ==
  /\ status[c] = "unused" /\ ~Joins(k) /\ ~CanIssueGet /\ CanQueueCallback
  /\ queued' = [queued EXCEPT ![k] = @ \cup {c}]
  /\ num_pending_gets' = QueueCounted
  /\ Pending(c)
  /\ UNCHANGED <<in_flight, num_in_flight_groups, num_in_flight_keys, shutdown,
                 outstanding, lookups, told, accepted>>

Drop(c, k) ==
  /\ status[c] = "unused" /\ ~Joins(k) /\ ~CanIssueGet /\ ~CanQueueCallback
  /\ status' = [status EXCEPT ![c] = "dropped"]
  /\ UNCHANGED <<in_flight, queued, counts, shutdown, outstanding, lookups,
                 told, accepted>>

\* The callbacks of a set are called; a second call of one is noticed.
DoneWith(cs, available) ==
  /\ status' = [c \in Callbacks |-> IF c \notin cs THEN status[c]
                                    ELSE IF status[c] = "done" THEN "twice"
                                    ELSE "done"]
  /\ told' = [c \in Callbacks |-> IF c \in cs THEN c \in available ELSE told[c]]

\* A dropped Get is reported as not found after the mutex is released.
ReportDropped(c) ==
  /\ status[c] = "dropped"
  /\ DoneWith({c}, {})
  /\ UNCHANGED <<in_flight, queued, counts, shutdown, outstanding, lookups,
                 accepted>>

(***************************************************************************)
(* MultiCallback                                                           *)
(***************************************************************************)

Replace(l, m) == (lookups \ {l}) \cup {m}

\* ExtractInFlightKeys, called for a lookup that has not saved its callbacks yet,
\* does not find the key: its CHECK ends the process.
CheckFails(l) == l.saved = {} /\ in_flight[l.key] = {}

\* The base cache has a candidate, or none, and asks the callbacks about it.
\* The first time, the callbacks are taken out of in_flight_; acc are those that
\* accept the candidate among the ones that have no value yet.
ValidateCandidate(l, found, acc) ==
  /\ l \in lookups /\ l.pc = "sent"
  /\ found => ~l.absent
  /\ LET saved == IF l.saved = {} THEN in_flight[l.key] ELSE l.saved
     IN  /\ acc \subseteq saved \ l.available
         /\ ~found => acc = {}
         /\ lookups' = Replace(l, [l EXCEPT !.saved = saved, !.available = @ \cup acc])
  /\ in_flight' = IF l.saved = {} THEN [in_flight EXCEPT ![l.key] = {}] ELSE in_flight
  /\ accepted' = accepted \cup acc
  /\ crashed' = CheckFails(l)
  /\ UNCHANGED <<queued, counts, shutdown, outstanding, status, told>>

DecrementInFlightGets(l) ==
  /\ l \in lookups /\ l.pc = "sent" /\ l.saved # {}
  /\ num_pending_gets' = num_pending_gets - Cardinality(l.saved)
  /\ num_in_flight_keys' = num_in_flight_keys - 1
  /\ lookups' = Replace(l, [l EXCEPT !.pc = "decremented"])
  /\ UNCHANGED <<in_flight, queued, num_in_flight_groups, shutdown, outstanding,
                 clients>>

\* Each callback hears what became of its own validation.
SharedVerdict(l) ==                                                  \* mutant
  IF l.available = l.saved THEN l.saved ELSE {}
OwnVerdict(l) == l.available

\* The group's last lookup completes it.
Report(l) ==
  /\ l \in lookups /\ l.pc = "decremented"
  /\ DoneWith(l.saved, OwnVerdict(l))
  /\ outstanding' = [outstanding EXCEPT ![l.group] = @ - 1]
  /\ lookups' = IF outstanding'[l.group] = 0
                THEN Replace(l, [l EXCEPT !.pc = "complete"])
                ELSE lookups \ {l}
  /\ UNCHANGED <<in_flight, queued, counts, shutdown, accepted>>

(***************************************************************************)
(* GroupComplete and ShutDown                                              *)
(***************************************************************************)

QueuedKeys == {k \in Keys : queued[k] # {}}

LeaveQueued == queued                                                \* mutant
ClearQueued == [k \in Keys |-> {}]

\* CreateRequestForQueuedKeys: the queue becomes group g of lookups.  rest are
\* the lookups that stay.
CreateRequest(g, rest, absent) ==
  /\ in_flight' = [k \in Keys |-> IF in_flight[k] = {} THEN queued[k]
                                                       ELSE in_flight[k]]
  /\ num_in_flight_keys' = num_in_flight_keys + Cardinality(QueuedKeys)
  /\ queued' = ClearQueued
  /\ outstanding' = [outstanding EXCEPT ![g] = Cardinality(QueuedKeys)]
  /\ lookups' = rest \cup {MultiCallback(g, k, absent) : k \in QueuedKeys}

NeverLooks == TRUE                                                   \* mutant
NothingQueued == QueuedKeys = {}

\* The completing group gives its place to the queue, or gives it up.
GroupComplete(l) ==
  /\ l \in lookups /\ l.pc = "complete"
  /\ IF NothingQueued
     THEN /\ num_in_flight_groups' = num_in_flight_groups - 1
          /\ lookups' = lookups \ {l}
          /\ UNCHANGED <<in_flight, queued, num_in_flight_keys, outstanding>>
     ELSE /\ CreateRequest(l.group, lookups \ {l}, FALSE)
          /\ UNCHANGED num_in_flight_groups
  /\ UNCHANGED <<num_pending_gets, shutdown, clients>>

ShutDownGroup == num_in_flight_groups + 1

ShutDown ==
  /\ ~shutdown
  /\ shutdown' = TRUE
  /\ IF QueuedKeys = {}
     THEN UNCHANGED <<in_flight, queued, num_in_flight_groups,
                      num_in_flight_keys, outstanding, lookups>>
     ELSE /\ num_in_flight_groups' = ShutDownGroup
          /\ CreateRequest(NewGroup, lookups, TRUE)
  /\ UNCHANGED <<num_pending_gets, clients>>

Get(c, k) == Coalesce(c, k) \/ Issue(c, k) \/ Queue(c, k) \/ Drop(c, k)

\* A step of a lookup or of a dropped Get.
Continue ==
  \/ \E c \in Callbacks : ReportDropped(c) /\ UNCHANGED crashed
  \/ \E l \in lookups :
       \/ \E found \in BOOLEAN, acc \in SUBSET Callbacks :
            ValidateCandidate(l, found, acc)
       \/ (DecrementInFlightGets(l) \/ Report(l) \/ GroupComplete(l))
            /\ UNCHANGED crashed

Next ==
  /\ ~crashed
  /\ \/ \E c \in Callbacks, k \in Keys : Get(c, k) /\ UNCHANGED crashed
     \/ Continue
     \/ ShutDown /\ UNCHANGED crashed

Spec == Init /\ [][Next]_vars

\* The cache below completes its lookups.  Nobody need shut the batcher down.
FairSpec == Spec /\ WF_vars(~crashed /\ Continue)

(***************************************************************************)
(* Properties                                                              *)
(***************************************************************************)

TypeOK ==
  /\ in_flight \in [Keys -> SUBSET Callbacks]
  /\ queued \in [Keys -> SUBSET Callbacks]
  /\ num_in_flight_groups \in Nat /\ num_in_flight_keys \in Nat
  /\ num_pending_gets \in Nat
  /\ shutdown \in BOOLEAN /\ crashed \in BOOLEAN
  /\ outstanding \in [Groups -> Nat]
  /\ lookups \subseteq
       [group : Groups, key : Keys, absent : BOOLEAN,
        pc : {"sent", "decremented", "complete"},
        saved : SUBSET Callbacks, available : SUBSET Callbacks]
  /\ status \in [Callbacks -> {"unused", "pending", "dropped", "done", "twice"}]
  /\ told \in [Callbacks -> BOOLEAN] /\ accepted \subseteq Callbacks

\* ExtractInFlightKeys always finds its key: the CHECK never ends the process.
NoCheckFails == ~crashed

\* The callbacks that num_pending_gets_ counts.
Waiting ==
  (UNION {in_flight[k] \cup queued[k] : k \in Keys})
    \cup (UNION {l.saved : l \in {m \in lookups : m.pc = "sent"}})

\* The three counters that admit, queue and drop Gets never drift from what they
\* count, through every coalescing, batch and shutdown: a drift would drop Gets
\* for ever, or let any number through.
Accounted ==
  /\ num_in_flight_groups = Cardinality(LiveGroups)
  /\ num_in_flight_keys = Cardinality({l \in lookups : l.pc = "sent"})
  /\ num_pending_gets = Cardinality(Waiting)

\* Each callback is called at most once, and is told kAvailable exactly when it
\* accepted a candidate itself, whatever the callbacks that share its lookup say.
AnsweredTruly ==
  \A c \in Callbacks :
    /\ status[c] # "twice"
    /\ status[c] = "done" => (told[c] <=> c \in accepted)

\* Every Get is answered in the end, also one that is queued when the batcher shuts
\* down or joins a lookup at the last moment.
EveryGetAnswered ==
  \A c \in Callbacks : status[c] # "unused" ~> status[c] = "done"
===============================================================================
