---- MODULE PageRewrite ----
(***************************************************************************)
(* The rewriting of one HTML document: the RewriteContexts of its flush    *)
(* windows and of the resources nested in them, the RewriteDriver that     *)
(* initiates, awaits, detaches and deletes them, and the PageWorkBudget    *)
(* they share (rewrite_context.cc, rewrite_driver.cc, page_work_budget.cc).*)
(*                                                                         *)
(* Three threads act: the HTML thread parses and flushes; the rewrite      *)
(* sequence runs its tasks one at a time; the low-priority sequence        *)
(* rewrites.  Caches, locks and fetchers answer at any time, by adding a   *)
(* task to the rewrite sequence.  What a task goes on to do by a plain     *)
(* call is put in front of the other tasks, so that the other threads may  *)
(* take the driver's mutex between two of its parts, as they do.           *)
(***************************************************************************)
EXTENDS Integers, Sequences, FiniteSets, FiniteSetsExt

CONSTANTS
  Documents,    \* what may be parsed: each a function from 1..n, in the order
                \* the contexts are made, to their fixed parts (see Shape)
  MaxDocument,  \* the most contexts a document has
  NumWindows,   \* flush windows of a document, the last one at its end
  MaxContexts,  \* the limits of PageWorkBudget
  MaxLoads,
  MaxBytes,
  MaxEntries

NoContext == 0

(* The fixed parts of a context: the one it is nested in, the slots it has, *)
(* its partition key, its flush window, the inputs it has to load, and what *)
(* the metadata cache may say of its key: an entry to revalidate names some *)
(* of the inputs.                                                           *)
Shape(d) ==
  [parent : {NoContext} \cup DOMAIN d, slots : SUBSET Nat, key : Nat,
   window : 1..NumWindows, inputs : Nat, cached : SUBSET {"hit", "miss", "revalidate"}]

(* A context is made after the one it is nested in, and shares slots only   *)
(* with contexts made at the same time: the driver forgets its slots after  *)
(* each window, and a nested context is given slots of its own parent.      *)
ASSUME SlotsAssumption ==
  \A f \in Documents : \A c \in DOMAIN f :
    /\ f[c].parent < c
    /\ IsFiniteSet(f[c].slots)
    /\ \A d \in DOMAIN f : f[c].slots \cap f[d].slots # {} =>
         f[c].parent = f[d].parent /\ f[c].window = f[d].window

ASSUME LimitsAssumption ==
  /\ MaxDocument \in Nat
  /\ \A f \in Documents : \E n \in 0..MaxDocument :
       DOMAIN f = 1..n /\ \A c \in 1..n :
         f[c] \in Shape(f) /\ ("revalidate" \in f[c].cached => f[c].inputs > 0)
  /\ NumWindows \in Nat \ {0}
  /\ MaxContexts \in Nat
  /\ MaxLoads \in Nat \ {0}
  /\ MaxBytes \in Nat
  /\ MaxEntries \in Nat

VARIABLES
  ctx,      \* the RewriteContexts, by number
  tasks,    \* the rewrite sequence, first the calls the running task has left
  asked,    \* <<"lookup" | "lock" | "rewrite", c>>: what others owe a context
  loading,  \* LoadAsync calls of each context that are not answered
  primary,  \* primary_rewrite_context_map_
  budget,   \* the PageWorkBudget
  drv,      \* the RewriteDriver
  html,     \* the HTML thread
  disabled, \* slots with disable_further_processing
  rendered  \* contexts whose Render was called for the document

vars == <<ctx, tasks, asked, loading, primary, budget, drv, html, disabled, rendered>>

Contexts == DOMAIN ctx
Top(c) == ctx[c].parent = NoContext
Children(c) == {d \in Contexts : ctx[d].parent = c}

(* AddSlot links a context to the last earlier one of each of its slots. *)
Links(f, c, d) ==
  {s \in f[c].slots \cap f[d].slots :
     c < d /\ \A e \in DOMAIN f : c < e /\ e < d => s \notin f[e].slots}
Predecessors(f, d) == UNION {Links(f, c, d) : c \in DOMAIN f}
Chained(c) == ctx[c].chained
Successors(c) == {d \in Contexts : ctx[c].successors[d] > 0}

NewContext(f, c) ==
  [parent |-> f[c].parent, slots |-> f[c].slots, key |-> f[c].key,
   window |-> f[c].window, inputs |-> f[c].inputs, cached |-> f[c].cached,
   state |-> "unborn", preds |-> Cardinality(Predecessors(f, c)),
   chained |-> Predecessors(f, c) # {},
   successors |-> [d \in DOMAIN f |-> Cardinality(Links(f, c, d))],
   fetches |-> 0, next |-> 0, revalidate |-> 0, revalidateOk |-> TRUE,
   waits |-> FALSE, nested |-> 0, slow |-> FALSE, busy |-> FALSE,
   place |-> "none", spent |-> FALSE, partitions |-> FALSE, lock |-> FALSE,
   repeated |-> <<>>]

NoRefs == [user |-> 1, parsing |-> 1, pending |-> 0, detached |-> 0, deleting |-> 0]

Init ==
  /\ \E f \in Documents :
       /\ ctx = [c \in DOMAIN f |-> NewContext(f, c)]
       /\ loading = [c \in DOMAIN f |-> 0]
       /\ primary = [k \in {f[c].key : c \in DOMAIN f} |-> NoContext]
  /\ tasks = <<>>
  /\ asked = {}
  /\ budget = [contexts |-> 0, loads |-> 0, bytes |-> 0, entries |-> 0,
               waiting |-> <<>>]
  /\ \E health, fully \in BOOLEAN :
       drv = [canRewrite |-> health, fully |-> fully, rewrites |-> {},
              initiated |-> {}, detached |-> {}, refs |-> NoRefs, quick |-> 0,
              waiting |-> "kNoWait", reached |-> FALSE, woken |-> FALSE,
              released |-> 0]
  /\ html = [pc |-> "parsing", window |-> 1]
  /\ disabled = {}
  /\ rendered = {}

Task(op, c, arg) == [op |-> op, c |-> c, arg |-> arg]
AddRewriteTask(t) == Append(tasks, t)
AtHead(op) == tasks # <<>> /\ Head(tasks).op = op
Running == Head(tasks).c
Argument == Head(tasks).arg

---------------------------------------------------------------------------
(* RewriteDriver: waiting for rewrites, reference counts, signals.          *)

RewritesComplete(d) ==
  d.refs.pending = 0 /\ d.refs.deleting = 0 /\ d.detached = {}

IsDone(d) ==
  IF d.reached THEN d.waiting = "kWaitForCachedRender" => d.quick = 0
               ELSE RewritesComplete(d)

SignalIfRequired(d, e) ==
  [e EXCEPT !.woken =
     @ \/ (e.waiting # "kNoWait" /\ ~IsDone(d) /\ IsDone(e))]

UnreferencedButDetached(r) == \A k \in DOMAIN r \ {"detached"} : r[k] = 0 \* mutant
Unreferenced(r) == \A k \in DOMAIN r : r[k] = 0

DropReference(d, kind) ==
  LET e == [d EXCEPT !.refs[kind] = @ - 1]
  IN  SignalIfRequired(d, [e EXCEPT !.released =
                             IF Unreferenced(e.refs) THEN @ + 1 ELSE @])

(* TryCheckForCompletion, with what the clock says of the deadline. *)
TryCheckForCompletion(d, reached) ==
  LET e == [d EXCEPT !.reached = reached, !.woken = FALSE]
  IN  IF IsDone(e)
      THEN /\ drv' = [e EXCEPT !.waiting = "kNoWait"]
           /\ html' = [html EXCEPT !.pc = "flushed"]
      ELSE /\ drv' = e
           /\ html' = [html EXCEPT !.pc = "waiting"]

ReportWithoutSignal(d, n) == [d EXCEPT !.quick = @ - n]                \* mutant
ReportSlowRewrites(d, n) ==
  SignalIfRequired(d, [d EXCEPT !.quick = @ - n])

---------------------------------------------------------------------------
(* The HTML thread.                                                         *)

NextContext ==
  {c \in Contexts : Top(c) /\ ctx[c].window = html.window /\ ctx[c].state = "unborn"}

(* A filter makes a context and hands it to the driver, which drops it when *)
(* the metadata cache was not healthy as the document began.                *)
InitiateRewrite ==
  /\ html.pc = "parsing"
  /\ NextContext # {}
  /\ LET c == Min(NextContext)
     IN  IF drv.canRewrite
         THEN /\ ctx' = [ctx EXCEPT ![c].state = "built"]
              /\ drv' = [drv EXCEPT !.rewrites = @ \cup {c},
                                    !.refs.pending = @ + 1, !.quick = @ + 1]
         ELSE /\ ctx' = [ctx EXCEPT ![c].state = "deleted"]
              /\ UNCHANGED drv
  /\ UNCHANGED <<tasks, asked, loading, primary, budget, html, disabled, rendered>>

StartTasks(S) ==
  [i \in 1..Cardinality(S) |->
     Task("Start", CHOOSE c \in S : Cardinality({d \in S : d <= c}) = i, "")]

FlushAsync ==
  /\ html.pc = "parsing"
  /\ NextContext = {}
  /\ drv' = [drv EXCEPT !.initiated = @ \cup drv.rewrites, !.rewrites = {}]
  /\ tasks' = tasks \o StartTasks({c \in drv.rewrites : ~Chained(c)})
  /\ html' = [html EXCEPT !.pc = "flushing"]
  /\ UNCHANGED <<ctx, asked, loading, primary, budget, disabled, rendered>>

CheckForCompletionAsync ==
  /\ html.pc = "flushing"
  /\ TryCheckForCompletion(
       [drv EXCEPT !.waiting = IF drv.fully THEN "kWaitForCompletion"
                                            ELSE "kWaitForCachedRender"], FALSE)
  /\ UNCHANGED <<ctx, tasks, asked, loading, primary, budget, disabled, rendered>>

(* The scheduler runs the callback of TimedWaitMs again, after a signal or  *)
(* at the deadline, which only kWaitForCachedRender has.  (Past it the      *)
(* sleep is so long that it only serves as a guard against a lost signal.)  *)
Woken ==
  /\ drv.woken
  /\ html.pc = "waiting"
  /\ \E reached \in {drv.reached, drv.waiting = "kWaitForCachedRender"} :
       TryCheckForCompletion(drv, reached)
  /\ UNCHANGED <<ctx, tasks, asked, loading, primary, budget, disabled, rendered>>

Deadline ==
  /\ html.pc = "waiting"
  /\ drv.waiting = "kWaitForCachedRender"
  /\ ~drv.reached
  /\ TryCheckForCompletion(drv, TRUE)
  /\ UNCHANGED <<ctx, tasks, asked, loading, primary, budget, disabled, rendered>>

FlushAsyncDone ==
  /\ html.pc = "flushed"
  /\ drv' = [drv EXCEPT !.detached = @ \cup drv.initiated, !.initiated = {},
                        !.refs.detached = @ + Cardinality(drv.initiated),
                        !.refs.pending = @ - Cardinality(drv.initiated)]
  /\ html' = IF html.window = NumWindows
             THEN [html EXCEPT !.pc = "finishing"]
             ELSE [pc |-> "parsing", window |-> html.window + 1]
  /\ UNCHANGED <<ctx, tasks, asked, loading, primary, budget, disabled, rendered>>

FinishParseAfterFlush ==
  /\ html.pc = "finishing"
  /\ drv' = DropReference(drv, "parsing")
  /\ html' = [html EXCEPT !.pc = "cleanup"]
  /\ UNCHANGED <<ctx, tasks, asked, loading, primary, budget, disabled, rendered>>

Cleanup ==
  /\ html.pc = "cleanup"
  /\ drv' = DropReference(drv, "user")
  /\ html' = [html EXCEPT !.pc = "finished"]
  /\ UNCHANGED <<ctx, tasks, asked, loading, primary, budget, disabled, rendered>>

---------------------------------------------------------------------------
(* RewriteContext: starting, and the lookup in the metadata cache.          *)

Repeats(c) == {ctx[c].repeated[i] : i \in DOMAIN ctx[c].repeated}

(* What is reached from a set of contexts, where step says which contexts   *)
(* come next after each.                                                    *)
Closure(S, step) ==
  LET Reach[n \in 0..Cardinality(Contexts)] ==
        IF n = 0 THEN S ELSE Reach[n - 1] \cup UNION {step[c] : c \in Reach[n - 1]}
  IN  Reach[Cardinality(Contexts)]

IsNestedIn(c, d) ==                                                    \* mutant
  d \in Closure({c}, [e \in Contexts |-> {ctx[e].parent} \ {NoContext}])

(* Whether context d waits, through nesting and repetition, for c. *)
IsWaitedOnBy(c, d) ==
  d \in Closure({c}, [e \in Contexts |-> ({ctx[e].parent} \ {NoContext}) \cup Repeats(e)])

CollectSuccessors(c) ==                                                \* mutant
  Closure({c}, [e \in Contexts |-> {d \in Successors(e) : Top(d)}])

CollectDependentTopLevel(c) ==
  Closure({c}, [e \in Contexts |-> {d \in Successors(e) \cup Repeats(e) : Top(d)}])

SlowAgain(c) == IF Top(c) THEN CollectDependentTopLevel(c) ELSE {}     \* mutant
NewlySlow(c) ==
  IF Top(c) THEN {d \in CollectDependentTopLevel(c) : ~ctx[d].slow} ELSE {}

MarkSlow(c) ==
  [d \in Contexts |-> IF d \in NewlySlow(c) THEN [ctx[d] EXCEPT !.slow = TRUE] ELSE ctx[d]]

ReportSlow(c) ==
  IF NewlySlow(c) = {} THEN drv ELSE ReportSlowRewrites(drv, Cardinality(NewlySlow(c)))

Call(t) == <<t>> \o Tail(tasks)

(* A slot of c was closed by an earlier rewrite. *)
StartDisabled ==
  /\ AtHead("Start")
  /\ LET c == Running
     IN  /\ ctx[c].slots \cap disabled # {}
         /\ ctx' = [ctx EXCEPT ![c].state = "done"]
         /\ tasks' = Call(Task("Retire", c, "kDontRender"))
  /\ UNCHANGED <<asked, loading, primary, budget, drv, html, disabled, rendered>>

HasPlace(c) ==
  \/ ctx[c].place = "taken"
  \/ ctx[c].place = "none" /\ budget.contexts < MaxContexts

StartRefused ==
  /\ AtHead("Start")
  /\ LET c == Running
     IN  /\ ctx[c].slots \cap disabled = {}
         /\ ~HasPlace(c)
         /\ ctx' = [ctx EXCEPT ![c].state = "done", ![c].busy = TRUE]
         /\ tasks' = Call(Task("Retire", c, "kRender"))
  /\ UNCHANGED <<asked, loading, primary, budget, drv, html, disabled, rendered>>

TakeContext(c) ==
  budget' = [budget EXCEPT !.contexts = IF ctx[c].place = "none" THEN @ + 1 ELSE @]

StartPrimary ==
  /\ AtHead("Start")
  /\ LET c == Running
     IN  /\ ctx[c].slots \cap disabled = {}
         /\ HasPlace(c)
         /\ TakeContext(c)
         /\ primary[ctx[c].key] = NoContext
         /\ primary' = [primary EXCEPT ![ctx[c].key] = c]
         /\ ctx' = [ctx EXCEPT ![c].state = "started"]
         /\ asked' = asked \cup {<<"lookup", c>>}
  /\ tasks' = Tail(tasks)
  /\ UNCHANGED <<loading, drv, html, disabled, rendered>>

(* Some context has c's key already: c waits for its result, unless that    *)
(* one waits for c.                                                         *)
StartRepeated ==
  /\ AtHead("Start")
  /\ LET c == Running
         p == primary[ctx[c].key]
     IN  /\ ctx[c].slots \cap disabled = {}
         /\ HasPlace(c)
         /\ TakeContext(c)
         /\ p # NoContext
         /\ IF IsWaitedOnBy(c, p)
            THEN /\ ctx' = [ctx EXCEPT ![c].state = "done"]
                 /\ tasks' = Call(Task("Retire", c, "kRender"))
                 /\ UNCHANGED drv
            ELSE /\ LET slow == IF ctx[p].slow THEN MarkSlow(c) ELSE ctx
                    IN  ctx' = [slow EXCEPT ![c].state = "started",
                                            ![p].repeated = Append(@, c)]
                 /\ drv' = IF ctx[p].slow THEN ReportSlow(c) ELSE drv
                 /\ tasks' = Tail(tasks)
  /\ UNCHANGED <<asked, loading, primary, html, disabled, rendered>>

(* The metadata cache answers. *)
LookupDone(c) ==
  /\ <<"lookup", c>> \in asked
  /\ asked' = asked \ {<<"lookup", c>>}
  /\ \E result \in ctx[c].cached :
       tasks' = AddRewriteTask(Task("OutputCacheDone", c, result))
  /\ UNCHANGED <<ctx, loading, primary, budget, drv, html, disabled, rendered>>

(* Whether the filter closes the slots of a context for later rewrites is   *)
(* recorded where a slot of the document has more than one.                 *)
MayDisable == IF \E d \in Contexts : Chained(d) THEN BOOLEAN ELSE {FALSE}

(* A hit may hold no partition, and may close the slots for later rewrites. *)
OutputCacheHit ==
  /\ AtHead("OutputCacheDone")
  /\ Argument = "hit"
  /\ \E partitions \in BOOLEAN, disables \in MayDisable :
       /\ disables => partitions
       /\ ctx' = [ctx EXCEPT ![Running].partitions = partitions]
       /\ disabled' = IF disables THEN disabled \cup ctx[Running].slots ELSE disabled
  /\ tasks' = Call(Task("Finalize", Running, ""))
  /\ UNCHANGED <<asked, loading, primary, budget, drv, html, rendered>>

(* A result worth revalidating closes slots as a hit does. *)
OutputCacheNotOk ==
  /\ AtHead("OutputCacheDone")
  /\ Argument # "hit"
  /\ LET c == Running
     IN  /\ drv' = ReportSlow(c)
         /\ IF Argument = "miss"
            THEN /\ ctx' = MarkSlow(c)
                 /\ tasks' = Call(Task("OutputCacheMiss", c, ""))
                 /\ UNCHANGED disabled
            ELSE /\ \E n \in 1..ctx[c].inputs :
                      ctx' = [MarkSlow(c) EXCEPT ![c].revalidate = n]
                 /\ tasks' = Call(Task("RevalidateInputs", c, ""))
                 /\ \E disables \in MayDisable :
                      disabled' = IF disables THEN disabled \cup ctx[c].slots ELSE disabled
  /\ UNCHANGED <<asked, loading, primary, budget, html, rendered>>

(* The lock is asked for, unless the server is shutting down. *)
OutputCacheMiss ==
  /\ AtHead("OutputCacheMiss")
  /\ ctx' = [ctx EXCEPT ![Running].partitions = FALSE]
  /\ \/ /\ asked' = asked \cup {<<"lock", Running>>}
        /\ tasks' = Tail(tasks)
     \/ /\ tasks' = Call(Task("LockFailed", Running, ""))
        /\ UNCHANGED asked
  /\ UNCHANGED <<loading, primary, budget, drv, html, disabled, rendered>>

(* The lock, or the controller that hands it out, answers. *)
LockDone(c) ==
  /\ <<"lock", c>> \in asked
  /\ asked' = asked \ {<<"lock", c>>}
  /\ \E granted \in BOOLEAN :
       /\ ctx' = [ctx EXCEPT ![c].lock = granted]
       /\ tasks' = AddRewriteTask(Task(IF granted THEN "FetchInputs" ELSE "LockFailed", c, ""))
  /\ UNCHANGED <<loading, primary, budget, drv, html, disabled, rendered>>

LockFailed ==
  /\ AtHead("LockFailed")
  /\ ctx' = [ctx EXCEPT ![Running].busy = TRUE]
  /\ tasks' = Call(Task("Finalize", Running, ""))
  /\ UNCHANGED <<asked, loading, primary, budget, drv, html, disabled, rendered>>

---------------------------------------------------------------------------
(* Loading inputs within the PageWorkBudget.                                *)

InputBytesSpent == budget.bytes >= MaxBytes
RoomOfOneMore == MaxLoads + 1 - budget.loads                           \* mutant
Room == MaxLoads - budget.loads
ReadyUnlessSpent(x) == x.fetches = 0 /\ x.preds = 0 /\ ~x.spent        \* mutant
Ready(x) == x.fetches = 0 /\ x.preds = 0

(* PopWaitingIfRoomLocked: the budget and the tasks after one resumption. *)
PopWaiting(b, t) ==
  IF b.waiting = <<>> \/ b.loads >= MaxLoads
  THEN [budget |-> b, tasks |-> t]
  ELSE [budget |-> [b EXCEPT !.waiting = Tail(@)], tasks |-> Append(t, Head(b.waiting))]

(* A turn that starts no load passes to a rewrite that waits. *)
KeepTurn == [budget |-> budget, tasks |-> Tail(tasks)]                 \* mutant
PassTurn == PopWaiting(budget, Tail(tasks))

StartLoads(c, n) ==
  /\ loading' = [loading EXCEPT ![c] = @ + n]
  /\ budget' = [budget EXCEPT !.loads = @ + n]

(* Starts n loads and waits for room for more, as the context x now is. *)
LoadAndWait(c, x, n, resume) ==
  /\ loading' = [loading EXCEPT ![c] = @ + n]
  /\ budget' = [budget EXCEPT !.loads = @ + n, !.waiting = Append(@, Task(resume, c, ""))]
  /\ ctx' = [ctx EXCEPT ![c] = [x EXCEPT !.fetches = @ + n, !.waits = TRUE, !.preds = @ + 1]]
  /\ tasks' = Tail(tasks)

Activate(c, x, t) ==
  /\ ctx' = [ctx EXCEPT ![c] = x]
  /\ tasks' = IF ~Ready(x) THEN t
              ELSE <<Task(IF x.spent THEN "StopForPageInputBytes" ELSE "PartitionAsync", c, "")>> \o t

(* The context as a resumption finds it. *)
Resumed(c, resume) ==
  IF Head(tasks).op = resume
  THEN [ctx[c] EXCEPT !.waits = FALSE, !.preds = @ - 1] ELSE ctx[c]

(* FetchInputs and ResumeFetchInputs.  Some inputs are found loaded, by     *)
(* another context or in an earlier try.                                    *)
FetchInputs ==
  /\ AtHead("FetchInputs") \/ AtHead("ResumeFetchInputs")
  /\ LET c == Running
         x == Resumed(c, "ResumeFetchInputs")
     IN  \E found \in 0..(x.inputs - x.next) :
           LET need == x.inputs - x.next - found
               n == Min({need, Room})
           IN  \/ /\ need = 0 \/ InputBytesSpent
                  /\ Activate(c, [x EXCEPT !.spent = need > 0], PassTurn.tasks)
                  /\ budget' = PassTurn.budget
                  /\ UNCHANGED loading
               \/ /\ need > 0 /\ ~InputBytesSpent /\ need <= Room
                  /\ StartLoads(c, n)
                  /\ Activate(c, [x EXCEPT !.next = @ + found + n, !.fetches = @ + n], Tail(tasks))
               \/ /\ ~InputBytesSpent /\ need > Room
                  /\ LoadAndWait(c, [x EXCEPT !.next = @ + found + n], n, "ResumeFetchInputs")
  /\ UNCHANGED <<asked, primary, drv, html, disabled, rendered>>

(* RevalidateInputs and ResumeRevalidateInputs, FinishRevalidation. *)
FinishRevalidation(c, x, t) ==
  /\ ctx' = [ctx EXCEPT ![c] = [x EXCEPT !.partitions = x.fetches = 0 /\ x.revalidateOk]]
  /\ tasks' = IF x.fetches > 0 THEN t
              ELSE <<Task(IF x.revalidateOk THEN "Finalize" ELSE "OutputCacheMiss", c, "")>> \o t

RevalidateInputs ==
  /\ AtHead("RevalidateInputs") \/ AtHead("ResumeRevalidateInputs")
  /\ LET c == Running
         x == Resumed(c, "ResumeRevalidateInputs")
         n == Min({x.revalidate, Room})
     IN  \/ /\ InputBytesSpent
            /\ FinishRevalidation(c, [x EXCEPT !.revalidate = 0, !.revalidateOk = FALSE],
                                  PassTurn.tasks)
            /\ budget' = PassTurn.budget
            /\ UNCHANGED loading
         \/ /\ ~InputBytesSpent /\ x.revalidate <= Room
            /\ StartLoads(c, n)
            /\ FinishRevalidation(c, [x EXCEPT !.revalidate = 0, !.fetches = @ + n], Tail(tasks))
         \/ /\ ~InputBytesSpent /\ x.revalidate > Room
            /\ LoadAndWait(c, [x EXCEPT !.revalidate = @ - n], n, "ResumeRevalidateInputs")
  /\ UNCHANGED <<asked, primary, drv, html, disabled, rendered>>

(* A load ends: with the contents that were expected or, in a revalidation, *)
(* with others, which count against the budget, or with none.               *)
LoadDone(c) ==
  /\ loading[c] > 0
  /\ loading' = [loading EXCEPT ![c] = @ - 1]
  /\ \E result \in {"same", "failed"} \cup (IF ctx[c].lock THEN {} ELSE {"changed"}) :
       tasks' = AddRewriteTask(
         Task(IF ctx[c].lock THEN "ResourceFetchDone" ELSE "ResourceRevalidateDone", c, result))
  /\ UNCHANGED <<ctx, asked, primary, budget, drv, html, disabled, rendered>>

InputLoadDone(result) ==
  PopWaiting([budget EXCEPT !.loads = @ - 1, !.bytes = IF result = "failed" THEN @ ELSE @ + 1],
             Tail(tasks))

ResourceFetchDone ==
  /\ AtHead("ResourceFetchDone")
  /\ LET done == InputLoadDone(Argument)
     IN  /\ budget' = done.budget
         /\ Activate(Running, [ctx[Running] EXCEPT !.fetches = @ - 1], done.tasks)
  /\ UNCHANGED <<asked, loading, primary, drv, html, disabled, rendered>>

ResourceRevalidateDone ==
  /\ AtHead("ResourceRevalidateDone")
  /\ LET c == Running
         done == InputLoadDone(Argument)
         x == [ctx[c] EXCEPT !.fetches = @ - 1, !.revalidateOk = @ /\ Argument = "same"]
     IN  /\ budget' = done.budget
         /\ IF x.waits
            THEN ctx' = [ctx EXCEPT ![c] = x] /\ tasks' = done.tasks
            ELSE FinishRevalidation(c, x, done.tasks)
  /\ UNCHANGED <<asked, loading, primary, drv, html, disabled, rendered>>

StopForPageInputBytes ==
  /\ AtHead("StopForPageInputBytes")
  /\ ctx' = [ctx EXCEPT ![Running].busy = TRUE]
  /\ tasks' = Call(Task("Finalize", Running, ""))
  /\ UNCHANGED <<asked, loading, primary, budget, drv, html, disabled, rendered>>

---------------------------------------------------------------------------
(* Rewriting, on the low-priority sequence, and nested contexts.            *)

(* PartitionAsync and PartitionDone: no partition ends the rewrite.  Every  *)
(* filter partitions in place here; the combiners of scripts and images do  *)
(* it on the low-priority sequence (CrossThreadPartitionDone).              *)
PartitionDone ==
  /\ AtHead("PartitionAsync")
  /\ LET c == Running
     IN  \/ /\ ctx' = [ctx EXCEPT ![c].partitions = TRUE]
            /\ asked' = asked \cup {<<"rewrite", c>>}
            /\ tasks' = Tail(tasks)
         \/ /\ \E busy \in BOOLEAN : ctx' = [ctx EXCEPT ![c].busy = busy]
            /\ tasks' = Call(Task("Finalize", c, ""))
            /\ UNCHANGED asked
  /\ UNCHANGED <<loading, primary, budget, drv, html, disabled, rendered>>

(* Rewrite without nested contexts, or the Cancel of a shed task, which is  *)
(* kTooBusy.  A rewrite that fails is kept in the partition as one that     *)
(* succeeds is.                                                             *)
Rewrite(c) ==
  /\ <<"rewrite", c>> \in asked
  /\ asked' = asked \ {<<"rewrite", c>>}
  /\ \E result \in {"kRewriteOk", "kTooBusy"} :
       tasks' = AddRewriteTask(Task("RewriteDoneImpl", c, result))
  /\ \E disables \in MayDisable :
       disabled' = IF disables THEN disabled \cup ctx[c].slots ELSE disabled
  /\ UNCHANGED <<ctx, loading, primary, budget, drv, html, rendered>>

(* AddNestedContext for each child, which takes its place in the budget     *)
(* then, and StartNestedTasks.                                              *)
RewriteNested(c) ==
  /\ <<"rewrite", c>> \in asked
  /\ Children(c) # {}
  /\ asked' = asked \ {<<"rewrite", c>>}
  /\ LET room == Min({Cardinality(Children(c)), MaxContexts - budget.contexts})
         Rank(d) == Cardinality({e \in Children(c) : e <= d})
     IN  /\ ctx' = [d \in Contexts |->
                      IF d \in Children(c)
                      THEN [ctx[d] EXCEPT !.state = "built",
                              !.place = IF Rank(d) <= room THEN "taken" ELSE "refused"]
                      ELSE IF d = c THEN [ctx[d] EXCEPT !.nested = Cardinality(Children(c))]
                      ELSE ctx[d]]
         /\ budget' = [budget EXCEPT !.contexts = @ + room]
  /\ tasks' = AddRewriteTask(Task("StartNestedTasksImpl", c, ""))
  /\ UNCHANGED <<loading, primary, drv, html, disabled, rendered>>

StartNestedTasksImpl ==
  /\ AtHead("StartNestedTasksImpl")
  /\ tasks' = StartTasks({d \in Children(Running) : ~Chained(d)}) \o Tail(tasks)
  /\ UNCHANGED <<ctx, asked, loading, primary, budget, drv, html, disabled, rendered>>

RewriteDoneImpl ==
  /\ AtHead("RewriteDoneImpl")
  /\ ctx' = [ctx EXCEPT ![Running].busy = @ \/ Argument = "kTooBusy"]
  /\ tasks' = Call(Task("Finalize", Running, ""))
  /\ UNCHANGED <<asked, loading, primary, budget, drv, html, disabled, rendered>>

---------------------------------------------------------------------------
(* Ending a rewrite.                                                        *)

(* Finalize and FinalizeRewriteForHtml: those that wait for this result     *)
(* get it first.                                                            *)
Finalize ==
  /\ AtHead("Finalize")
  /\ LET c == Running
         Tell == IF ctx[c].partitions THEN "RepeatedSuccess" ELSE "RepeatedFailure"
     IN  /\ ctx' = [ctx EXCEPT ![c].state = "done", ![c].lock = FALSE]
         /\ tasks' = [i \in DOMAIN ctx[c].repeated |-> Task(Tell, ctx[c].repeated[i], "")]
                       \o <<Task("Retire", c, "kRender")>> \o Tail(tasks)
  /\ UNCHANGED <<asked, loading, primary, budget, drv, html, disabled, rendered>>

(* The copy of the primary's result counts against the budget. *)
RepeatedSuccess ==
  /\ AtHead("RepeatedSuccess")
  /\ LET c == Running
         p == primary[ctx[c].key]
         fits == budget.entries < MaxEntries
     IN  /\ budget' = [budget EXCEPT !.entries = IF fits THEN @ + 1 ELSE @]
         /\ ctx' = [ctx EXCEPT ![c].state = "done", ![c].partitions = fits,
                               ![c].busy = ~fits \/ ctx[p].busy]
         /\ disabled' = IF fits /\ ctx[p].slots \cap disabled # {}
                        THEN disabled \cup ctx[c].slots ELSE disabled
         /\ tasks' = Call(Task("Retire", c, "kRender"))
  /\ UNCHANGED <<asked, loading, primary, drv, html, rendered>>

RepeatedFailure ==
  /\ AtHead("RepeatedFailure")
  /\ ctx' = [ctx EXCEPT ![Running].state = "done"]
  /\ tasks' = Call(Task("Retire", Running, "kRender"))
  /\ UNCHANGED <<asked, loading, primary, budget, drv, html, disabled, rendered>>

StayRegistered(c) == UNCHANGED primary                                 \* mutant
Deregister(c) ==
  primary' = [primary EXCEPT ![ctx[c].key] = IF @ = c THEN NoContext ELSE @]

(* RunSuccessors: the contexts, and the successors that may start. *)
RunSuccessors(c) ==
  [d \in Contexts |->
     IF d = c THEN [ctx[c] EXCEPT !.state = "retired", !.successors = [e \in Contexts |-> 0]]
              ELSE [ctx[d] EXCEPT !.preds = @ - ctx[c].successors[d]]]
Unblocked(c) == {d \in Successors(c) : RunSuccessors(c)[d].preds = 0}

(* RetireRewriteForHtml of a nested context, NestedRewriteDone and the      *)
(* filter's Harvest, which calls RewriteDone.                               *)
RetireNested ==
  /\ AtHead("Retire")
  /\ ~Top(Running)
  /\ Deregister(Running)
  /\ LET c == Running
         p == ctx[c].parent
         rest == Tail(tasks) \o StartTasks(Unblocked(c))
     IN  /\ ctx' = [RunSuccessors(c) EXCEPT ![p].nested = @ - 1,
                                            ![p].busy = @ \/ ctx[c].busy]
         /\ IF ctx[p].nested = 1
            THEN tasks' = Append(rest, Task("RewriteDoneImpl", p, "kRewriteOk"))
            ELSE tasks' = rest
  /\ UNCHANGED <<asked, loading, budget, drv, html, disabled, rendered>>

(* RewriteDriver::RewriteComplete for c, which the flush has not detached, *)
(* or has.                                                                  *)
CompleteAttached(c) ==
  [drv EXCEPT !.initiated = @ \ {c}, !.refs.pending = @ - 1, !.refs.deleting = @ + 1,
              !.quick = IF ctx[c].slow THEN @ ELSE @ - 1]
CompleteDetachedKept(c) ==                                             \* mutant
  [drv EXCEPT !.detached = @ \ {c}, !.refs.deleting = @ + 1]
CompleteDetachedAsPending(c) ==                                        \* mutant
  [drv EXCEPT !.detached = @ \ {c}, !.refs.pending = @ - 1, !.refs.deleting = @ + 1]
CompleteDetached(c) ==
  [drv EXCEPT !.detached = @ \ {c}, !.refs.detached = @ - 1, !.refs.deleting = @ + 1]
RendersDetached(c) == Argument = "kRender" /\ ~ctx[c].busy             \* mutant
Renders(c) == c \in drv.initiated /\ Argument = "kRender" /\ ~ctx[c].busy

RewriteComplete ==
  /\ AtHead("Retire")
  /\ Top(Running)
  /\ Deregister(Running)
  /\ LET c == Running
     IN  /\ drv' = SignalIfRequired(drv, IF c \in drv.initiated THEN CompleteAttached(c)
                                                               ELSE CompleteDetached(c))
         /\ rendered' = IF Renders(c) THEN rendered \cup {c} ELSE rendered
         /\ ctx' = RunSuccessors(c)
         /\ tasks' = Tail(tasks) \o StartTasks(Unblocked(c)) \o <<Task("Delete", c, "")>>
  /\ UNCHANGED <<asked, loading, budget, html, disabled>>

DeleteRewriteContext ==
  /\ AtHead("Delete")
  /\ ctx' = [d \in Contexts |->
               IF d \in Closure({Running}, [e \in Contexts |-> Children(e)])
               THEN [ctx[d] EXCEPT !.state = "deleted"] ELSE ctx[d]]
  /\ drv' = DropReference(drv, "deleting")
  /\ tasks' = Tail(tasks)
  /\ UNCHANGED <<asked, loading, primary, budget, html, disabled, rendered>>

---------------------------------------------------------------------------
Html ==
  \/ InitiateRewrite \/ FlushAsync \/ CheckForCompletionAsync \/ Woken \/ Deadline
  \/ FlushAsyncDone \/ FinishParseAfterFlush \/ Cleanup

RewriteSequence ==
  \/ StartDisabled \/ StartRefused \/ StartPrimary \/ StartRepeated
  \/ OutputCacheHit \/ OutputCacheNotOk \/ OutputCacheMiss \/ LockFailed
  \/ FetchInputs \/ RevalidateInputs \/ ResourceFetchDone \/ ResourceRevalidateDone
  \/ StopForPageInputBytes \/ PartitionDone \/ StartNestedTasksImpl \/ RewriteDoneImpl
  \/ Finalize \/ RepeatedSuccess \/ RepeatedFailure \/ RetireNested \/ RewriteComplete
  \/ DeleteRewriteContext

Lookups == \E c \in Contexts : LookupDone(c)
Answers == \E c \in Contexts : LockDone(c) \/ LoadDone(c)
LowPriority == \E c \in Contexts : Rewrite(c) \/ RewriteNested(c)

(* The document was served; the server goes on with others. *)
Idle == html.pc = "finished" /\ UNCHANGED vars

Next == Html \/ RewriteSequence \/ Lookups \/ Answers \/ LowPriority \/ Idle

Spec == Init /\ [][Next]_vars

(* The rewrite sequence, the metadata cache, the HTML thread and its timer  *)
(* keep going; nothing is asked of locks, fetches and the low-priority      *)
(* sequence.                                                                *)
LookupsFair ==
  /\ WF_vars(InitiateRewrite \/ FlushAsync \/ CheckForCompletionAsync \/ FlushAsyncDone
               \/ FinishParseAfterFlush \/ Cleanup)
  /\ WF_vars(Woken)
  /\ WF_vars(Deadline)
  /\ WF_vars(RewriteSequence)
  /\ \A c \in 1..MaxDocument : WF_vars(c \in Contexts /\ LookupDone(c))

LookupSpec == Spec /\ LookupsFair

(* Locks are granted or denied, fetches end, and the low-priority sequence  *)
(* runs or sheds what it was given.                                         *)
AllAnswered ==
  \A c \in 1..MaxDocument :
    /\ WF_vars(c \in Contexts /\ LockDone(c))
    /\ WF_vars(c \in Contexts /\ LoadDone(c))
    /\ WF_vars(c \in Contexts /\ (Rewrite(c) \/ RewriteNested(c)))

---------------------------------------------------------------------------
States == {"unborn", "built", "started", "done", "retired", "deleted"}
Ops == {"Start", "OutputCacheDone", "OutputCacheMiss", "LockFailed", "RevalidateInputs",
        "ResumeRevalidateInputs", "ResourceRevalidateDone", "FetchInputs",
        "ResumeFetchInputs", "ResourceFetchDone", "StopForPageInputBytes",
        "PartitionAsync", "StartNestedTasksImpl", "RewriteDoneImpl", "Finalize",
        "RepeatedSuccess", "RepeatedFailure", "Retire", "Delete"}
Args == {"", "hit", "miss", "revalidate", "same", "changed", "failed", "kRewriteOk", "kTooBusy",
         "kRender", "kDontRender"}
Resumptions == {"ResumeFetchInputs", "ResumeRevalidateInputs"}

(* Type invariant: no count of a context, of the budget or of the driver    *)
(* goes below zero, and every callback names a context of the document.     *)
TypeOK ==
  /\ \A c \in Contexts :
       /\ ctx[c].state \in States
       /\ {ctx[c].preds, ctx[c].fetches, ctx[c].next, ctx[c].revalidate, ctx[c].nested} \subseteq Nat
       /\ ctx[c].place \in {"none", "taken", "refused"}
       /\ {ctx[c].waits, ctx[c].slow, ctx[c].busy, ctx[c].spent, ctx[c].partitions,
           ctx[c].lock, ctx[c].revalidateOk} \subseteq BOOLEAN
       /\ ctx[c].repeated \in Seq(Contexts)
  /\ tasks \in Seq([op : Ops, c : Contexts, arg : Args])
  /\ asked \subseteq {"lookup", "lock", "rewrite"} \X Contexts
  /\ loading \in [Contexts -> Nat]
  /\ \A k \in DOMAIN primary : primary[k] \in Contexts \cup {NoContext}
  /\ budget \in [contexts : 0..MaxContexts, loads : 0..MaxLoads, bytes : Nat,
                 entries : 0..MaxEntries,
                 waiting : Seq([op : Resumptions, c : Contexts, arg : {""}])]
  /\ drv.rewrites \cup drv.initiated \cup drv.detached \subseteq Contexts
  /\ \A k \in DOMAIN drv.refs : drv.refs[k] \in Nat
  /\ drv.waiting \in {"kNoWait", "kWaitForCompletion", "kWaitForCachedRender"}
  /\ html.window \in 1..NumWindows
  /\ rendered \subseteq Contexts

(* possibly_quick_rewrites_, which the flush waits for past its deadline,   *)
(* is the number of undetached rewrites not known to be slow: MarkSlow      *)
(* reports each one once, through successors and repetitions, and           *)
(* RewriteComplete takes back the others.                                   *)
QuickAccounted ==
  drv.quick = Cardinality({c \in drv.rewrites \cup drv.initiated : ~ctx[c].slow})

(* The reference counts that keep the driver alive are those of the         *)
(* rewrites it still has, whichever of RewriteComplete and FlushAsyncDone   *)
(* took the mutex first.                                                    *)
RefsAccounted ==
  /\ drv.refs.pending = Cardinality(drv.rewrites \cup drv.initiated)
  /\ drv.refs.detached = Cardinality(drv.detached)
  /\ drv.refs.deleting = Cardinality({c \in Contexts : Top(c) /\ ctx[c].state = "retired"})
  /\ drv.initiated \cap drv.detached = {}

(* Whoever makes the condition of a waiting flush true has also signaled    *)
(* it: PrepareShouldSignal and SignalIfRequired bracket every change.       *)
NoLostWakeup ==
  drv.waiting # "kNoWait" /\ IsDone(drv) => drv.woken

(* A rewrite that waits for room to load an input is not forgotten: while   *)
(* any waits, every free place of PageWorkBudget has a resumption queued    *)
(* that will use it or pass it on.                                          *)
NoWaiterForgotten ==
  budget.waiting # <<>> =>
    Room <= Cardinality({i \in DOMAIN tasks : tasks[i].op \in Resumptions})

Continues(c) ==
  \/ \E i \in DOMAIN tasks : tasks[i].c = c
  \/ \E i \in DOMAIN budget.waiting : budget.waiting[i].c = c
  \/ \E a \in asked : a[2] = c
  \/ loading[c] > 0
  \/ \E d \in Contexts : ctx[d].state = "started" /\ c \in Repeats(d)
Mentions(c) == Continues(c) \/ \E k \in DOMAIN primary : primary[k] = c

(* No callback, lookup, lock, load, queue or partition key refers to a      *)
(* context that was deleted, and one that retires has nothing outstanding,  *)
(* as its destructor requires.                                              *)
DeletedUnreferenced ==
  \A c \in Contexts :
    /\ ctx[c].state = "deleted" => ~Mentions(c)
    /\ ctx[c].state = "retired" =>
         ctx[c].preds = 0 /\ ctx[c].fetches = 0 /\ ctx[c].nested = 0

(* The driver is released once, after every rewrite of the document was     *)
(* deleted, with no load of its PageWorkBudget in flight.                   *)
ReleasedLast ==
  drv.released > 0 =>
    /\ drv.released = 1
    /\ \A c \in Contexts : ctx[c].state \in {"unborn", "deleted"} /\ ~Mentions(c)
    /\ budget.loads = 0

(* A started rewrite is never left behind: something that will go on with   *)
(* it is queued, asked for or loading, or it waits for a nested context or  *)
(* for the context that has its key.                                        *)
NoneLeftBehind ==
  \A c \in Contexts : ctx[c].state = "started" =>
    Continues(c) \/ ctx[c].nested > 0

(* No rewrite waits for itself, however nesting, chains of slots and        *)
(* repetitions of a key are combined: IsWaitedOnBy refuses the repetitions  *)
(* that would close a circle.                                               *)
NoCircularWait ==
  LET Live(S) == {d \in S : ctx[d].state \notin {"unborn", "retired", "deleted"}}
      Waiters == [c \in Contexts |->
                    Live(({ctx[c].parent} \ {NoContext}) \cup Repeats(c) \cup Successors(c))]
  IN  \A c \in Live(Contexts) : c \notin Closure(Waiters[c], Waiters)

(* A context renders into the document only while its own flush window is   *)
(* open: RewriteComplete renders nothing that FlushAsyncDone detached.      *)
RendersInItsWindow ==
  [][\A c \in rendered' \ rendered :
       html.window = ctx[c].window /\ html.pc \in {"flushing", "waiting", "flushed"}]_vars

(* Every document is finished and its driver released, with every rewrite   *)
(* retired, whatever hits, fails, is refused, is shed or is repeated, once  *)
(* all that was asked is answered.                                          *)
DriverReleased == AllAnswered => <>[](drv.released = 1)

(* The document is finished even if no lock, fetch or rewrite ever ends:    *)
(* past the deadline a flush only waits for lookups in the metadata cache.  *)
(* The one exception is a rewrite that repeats a nested one, which MarkSlow *)
(* leaves alone.                                                            *)
RepeatsNested == \E c, d \in Contexts : ~Top(c) /\ Top(d) /\ d \in Repeats(c)
PageNeedsLookupsOnly == ~drv.fully ~> (html.pc = "finished" \/ RepeatsNested)

====
