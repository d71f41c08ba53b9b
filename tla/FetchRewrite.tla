---- MODULE FetchRewrite ----
(***************************************************************************)
(* The serving of one optimized resource: a .pagespeed. URL, or a URL that *)
(* is optimized in place.  A RewriteDriver looks the output up, or has a   *)
(* RewriteContext rebuild it under its FetchContext, with a QueuedAlarm    *)
(* that answers with the original when the rewrite is late and lets it end *)
(* in the background (rewrite_driver.cc, rewrite_context.cc,               *)
(* in_place_rewrite_context.cc, queued_alarm.cc).                          *)
(*                                                                         *)
(* The rewrite sequence runs its tasks one at a time; the low-priority     *)
(* sequence rewrites; the scheduler runs the alarm in any thread; caches,  *)
(* locks and fetchers answer at any time.  They add a task to the rewrite  *)
(* sequence, except to a RecordingFetch, which they call where they are.   *)
(***************************************************************************)
EXTENDS Integers, Sequences, FiniteSetsExt

CONSTANTS
  Requests,                  \* the requests that may be made, see RequestType
  MaxInputs,                 \* the most inputs a name may decode to
  MaxConcurrentFetchInputs   \* kMaxConcurrentFetchInputs

(* What is fixed of a request: whether it is for an in-place resource, is    *)
(* conditional, for an on-the-fly kind, made by a nested driver; its number *)
(* of inputs; OptimizationOnly and FailOnHashMismatch of its filter;         *)
(* in_place_wait_for_optimized, proxy_mode and UseHttpCache of an in-place   *)
(* one; whether tasks run on the request thread; whether a deadline is set.  *)
RequestType ==
  [inPlace : BOOLEAN, conditional : BOOLEAN, onTheFly : BOOLEAN, nested : BOOLEAN,
   inputs : 1..MaxInputs, optional : BOOLEAN, strict : BOOLEAN, waits : BOOLEAN,
   proxy : BOOLEAN, http : BOOLEAN, requestThread : BOOLEAN, deadline : BOOLEAN]

ASSUME RequestsAssumption ==
  /\ MaxInputs \in Nat \ {0}
  /\ MaxConcurrentFetchInputs \in Nat \ {0}
  /\ Requests \subseteq RequestType
  /\ \A r \in Requests : r.inPlace =>
       r.inputs = 1 /\ r.optional /\ ~r.strict /\ ~r.onTheFly /\ ~r.conditional

VARIABLES
  req,       \* the request
  tasks,     \* the rewrite sequence
  owed,      \* lookups and locks that are not answered
  loads,     \* LoadAsync calls that are not answered
  ctx,       \* the RewriteContext and its FetchContext
  rewrite,   \* the filter's Rewrite
  alarm,     \* the QueuedAlarm
  pointer,   \* deadline_alarm_ is not null
  making,    \* who is in the constructor of the QueuedAlarm
  rec,       \* the RecordingFetch
  drv,       \* the reference counts of the RewriteDriver
  replies,   \* calls of Done on the client's fetch
  fault      \* a CHECK or DCHECK failed, or freed memory was used

vars == <<req, tasks, owed, loads, ctx, rewrite, alarm, pointer, making, rec,
          drv, replies, fault>>

Init ==
  /\ req \in Requests
  /\ tasks = <<>>
  /\ owed = {"request"}
  /\ loads = 0
  /\ ctx = [started |-> 0, fetches |-> 0, ok |-> TRUE, tooBig |-> FALSE,
            partitions |-> 0, detached |-> FALSE, lock |-> FALSE]
  /\ rewrite = "none"
  /\ alarm = [state |-> "none", canceled |-> FALSE]
  /\ pointer = FALSE
  /\ making = "nobody"
  /\ rec = [at |-> "none", can |-> FALSE, streaming |-> TRUE]
  /\ drv = [client |-> 1, user |-> 0, background |-> 0, released |-> 0]
  /\ replies = <<>>
  /\ fault = FALSE

Task(op, arg) == [op |-> op, arg |-> arg]
AddRewriteTask(t) == tasks' = Append(tasks, t)

(* The callbacks of a RecordingFetch run on the request thread's sequence   *)
(* when there is one; a file is loaded by the task that asks for it; else a *)
(* fetcher calls.                                                           *)
Caller == IF req.requestThread \/ ~req.http THEN "sequence" ELSE "fetcher"

(* The running task is the head, and leaves the queue as it starts; while   *)
(* the sequence is inside the constructor of the alarm, or in the rest of   *)
(* FetchedInputLoaded, it runs no other.                                    *)
Busy == making = "sequence" \/ (rec.at = "loaded" /\ Caller = "sequence")
AtHead(op) == ~fault /\ ~Busy /\ tasks # <<>> /\ Head(tasks).op = op
Argument == Head(tasks).arg

---------------------------------------------------------------------------
(* References, and the answer.                                              *)

DropReference(d, kind) ==
  LET e == [d EXCEPT ![kind] = @ - 1]
  IN  IF e.client = 0 /\ e.user = 0 /\ e.background = 0
      THEN [e EXCEPT !.released = @ + 1] ELSE e

(* Done on the client's fetch makes the client give up the driver. *)
Reply(d) == DropReference(d, "client")

(* FetchCallbackDone and FilterFetch::HandleDone: the answer, then          *)
(* FetchComplete.                                                           *)
FetchCallbackDone(reply) ==
  /\ replies' = Append(replies, reply)
  /\ drv' = DropReference(Reply(drv), "user")

(* FailOnHashMismatch and several inputs rule the original out; a filter    *)
(* that must run is replaced by it only when it failed.                     *)
CanFetchFallbackToOriginal(emergency) ==
  (req.optional \/ emergency) /\ ~req.strict /\ req.inputs = 1

---------------------------------------------------------------------------
(* RewriteDriver: how a fetch begins.                                       *)

(* The URL is not one of ours. *)
FetchResourceNotHandled ==
  /\ "request" \in owed
  /\ ~req.inPlace
  /\ owed' = owed \ {"request"}
  /\ drv' = Reply(drv)
  /\ replies' = Append(replies, "notFound")
  /\ UNCHANGED <<req, tasks, loads, ctx, rewrite, alarm, pointer, making, rec, fault>>

(* A conditional request by a nested driver, or without a filter. *)
FetchBareNotModified ==
  /\ "request" \in owed
  /\ req.conditional
  /\ owed' = owed \ {"request"}
  /\ drv' = Reply(drv)
  /\ replies' = Append(replies, "notModified")
  /\ UNCHANGED <<req, tasks, loads, ctx, rewrite, alarm, pointer, making, rec, fault>>

(* Fetch and FetchNotModified.  PrepareFetch refuses a name that does not   *)
(* decode to inputs that may be fetched.                                    *)
FilterFetchStart(d) ==
  \/ /\ AddRewriteTask(Task("StartFetch", ""))
     /\ drv' = d
     /\ UNCHANGED replies
  \/ /\ drv' = DropReference(Reply(d), "user")
     /\ replies' = Append(replies, IF req.conditional THEN "notModified" ELSE "notFound")
     /\ UNCHANGED tasks

AddUserFacing == [drv EXCEPT !.user = @ + 1]

(* FetchInPlaceResource, FetchOutputResource of an on-the-fly resource, and *)
(* StartNotModified.                                                        *)
FetchAskFilter ==
  /\ "request" \in owed
  /\ req.inPlace \/ req.onTheFly \/ req.conditional
  /\ req.conditional => ~req.nested
  /\ owed' = owed \ {"request"}
  /\ FilterFetchStart(AddUserFacing)
  /\ UNCHANGED <<req, loads, ctx, rewrite, alarm, pointer, making, rec, fault>>

(* FetchOutputResource of anything else looks the output up first. *)
CacheCallbackFind ==
  /\ "request" \in owed
  /\ ~(req.inPlace \/ req.onTheFly \/ req.conditional)
  /\ owed' = (owed \ {"request"}) \cup {"output"}
  /\ drv' = AddUserFacing
  /\ UNCHANGED <<req, tasks, loads, ctx, rewrite, alarm, pointer, making, rec, replies, fault>>

CacheCallbackDone ==
  /\ "output" \in owed
  /\ owed' = owed \ {"output"}
  /\ \/ /\ \E reply \in {"rewritten", "notFound"} : FetchCallbackDone(reply)
        /\ UNCHANGED tasks
     \/ FilterFetchStart(drv)
  /\ UNCHANGED <<req, loads, ctx, rewrite, alarm, pointer, making, rec, fault>>

---------------------------------------------------------------------------
(* QueuedAlarm.  Its mutex makes CancelAlarm, Run and the sequence's part   *)
(* of Run atomic; the alarm leaves the scheduler before Run takes it.       *)

CancelUnlessQueued(a) ==                                               \* mutant
  CASE a.state = "armed" -> [a EXCEPT !.state = "deleted"]
    [] a.state = "popped" -> [a EXCEPT !.canceled = TRUE]
    [] OTHER -> a

(* CancelAlarm of an alarm that was freed uses freed memory. *)
CancelAlarm(a) ==
  CASE a.state = "armed" -> [a EXCEPT !.state = "deleted"]
    [] a.state \in {"popped", "queued"} -> [a EXCEPT !.canceled = TRUE]
    [] OTHER -> a

CancelDeadlineAlarm ==
  /\ alarm' = IF pointer THEN CancelAlarm(alarm) ELSE alarm
  /\ pointer' = FALSE

Dangling == pointer /\ alarm.state = "deleted"

RunAlarms ==
  /\ ~fault
  /\ alarm.state = "armed"
  /\ alarm' = [alarm EXCEPT !.state = "popped"]
  /\ UNCHANGED <<req, tasks, owed, loads, ctx, rewrite, pointer, making, rec, drv, replies, fault>>

QueuedAlarmRun ==
  /\ ~fault
  /\ alarm.state = "popped"
  /\ IF alarm.canceled
     THEN alarm' = [alarm EXCEPT !.state = "deleted"] /\ UNCHANGED tasks
     ELSE /\ alarm' = [alarm EXCEPT !.state = "queued"]
          /\ AddRewriteTask(Task("SequencePortionOfRun", ""))
  /\ UNCHANGED <<req, owed, loads, ctx, rewrite, pointer, making, rec, drv, replies, fault>>

(* DetachFetch checks that the client waits and that it was not detached. *)
CannotDetach == drv.user # 1 \/ drv.background # 0
DetachOnly(d) == d                                                     \* mutant
DetachFetch(d) == [d EXCEPT !.background = @ + 1]

HandleDeadlineKeepingIt ==                                             \* mutant
  /\ pointer' = pointer
  /\ ctx' = [ctx EXCEPT !.detached = TRUE]
  /\ drv' = DropReference(Reply(DetachFetch(drv)), "user")
  /\ replies' = Append(replies, IF ctx.partitions = 1 THEN "original" ELSE "notFound")
  /\ fault' = CannotDetach

HandleDeadline ==
  /\ pointer' = FALSE
  /\ ctx' = [ctx EXCEPT !.detached = TRUE]
  /\ drv' = DropReference(Reply(DetachFetch(drv)), "user")
  /\ replies' = Append(replies, IF ctx.partitions = 1 THEN "original" ELSE "notFound")
  /\ fault' = CannotDetach

SequencePortionOfRun ==
  /\ AtHead("SequencePortionOfRun")
  /\ tasks' = Tail(tasks)
  /\ alarm' = [alarm EXCEPT !.state = "deleted"]
  /\ IF alarm.canceled THEN UNCHANGED <<ctx, pointer, drv, replies, fault>>
                       ELSE HandleDeadline
  /\ UNCHANGED <<req, owed, loads, rewrite, making, rec>>

SetupNoDeadlineAlarm(c) == FALSE                                       \* mutant

(* An alarm is set up by a fetch that may be answered without the rewrite. *)
SetupDeadlineAlarm(c) ==
  req.deadline /\ ~req.onTheFly /\ ~c.detached /\ ~req.nested

---------------------------------------------------------------------------
(* RewriteContext: the fetch before a rewrite is needed.                    *)

(* The sequence was shut down before it ran StartFetch. *)
CancelFetch ==
  /\ AtHead("StartFetch")
  /\ tasks' = Tail(tasks)
  /\ FetchCallbackDone(IF req.conditional THEN "notModified" ELSE "error")
  /\ UNCHANGED <<req, owed, loads, ctx, rewrite, alarm, pointer, making, rec, fault>>

LocksFirst == ~(req.conditional \/ req.onTheFly \/ req.inPlace)

StartFetch ==
  /\ AtHead("StartFetch")
  /\ IF LocksFirst
     THEN owed' = owed \cup {"lock"} /\ tasks' = Tail(tasks)
     ELSE tasks' = <<Task("StartFetchImpl", "")>> \o Tail(tasks) /\ UNCHANGED owed
  /\ UNCHANGED <<req, loads, ctx, rewrite, alarm, pointer, making, rec, drv, replies, fault>>

(* The lock is granted, or refused after kBlockLockMs: the fetch goes on.   *)
LockForCreationDone ==
  /\ "lock" \in owed
  /\ owed' = owed \ {"lock"}
  /\ \E granted \in BOOLEAN : ctx' = [ctx EXCEPT !.lock = granted]
  /\ AddRewriteTask(Task("CallStartFetchImpl", ""))
  /\ UNCHANGED <<req, loads, rewrite, alarm, pointer, making, rec, drv, replies, fault>>

CallStartFetchImpl ==
  /\ AtHead("CallStartFetchImpl")
  /\ tasks' = Append(Tail(tasks), Task("StartFetchImpl", ""))
  /\ UNCHANGED <<req, owed, loads, ctx, rewrite, alarm, pointer, making, rec, drv, replies, fault>>

(* The lookup of the metadata; the other case is StartFetchOnTheFly. *)
StartFetchImpl ==
  /\ AtHead("StartFetchImpl")
  /\ req.conditional \/ ~req.onTheFly
  /\ tasks' = Tail(tasks)
  /\ owed' = owed \cup {"metadata"}
  /\ UNCHANGED <<req, loads, ctx, rewrite, alarm, pointer, making, rec, drv, replies, fault>>

(* The metadata names no single output, the output with the requested hash, *)
(* one with another hash, or says that the input cannot be optimized.       *)
MetadataDone ==
  /\ "metadata" \in owed
  /\ owed' = owed \ {"metadata"}
  /\ \E found \in {"nothing", "output", "otherHash", "notOptimizable"} :
       AddRewriteTask(Task(IF req.conditional THEN "FetchNotModifiedCacheDone"
                                              ELSE "FetchCacheDone", found))
  /\ UNCHANGED <<req, loads, ctx, rewrite, alarm, pointer, making, rec, drv, replies, fault>>

FetchNotModifiedCacheDone ==
  /\ AtHead("FetchNotModifiedCacheDone")
  /\ tasks' = Tail(tasks)
  /\ FetchCallbackDone("notModified")
  /\ UNCHANGED <<req, owed, loads, ctx, rewrite, alarm, pointer, making, rec, fault>>

FailsForHashMismatch == Argument = "otherHash" /\ req.strict
TriesFallback ==
  \/ Argument \in {"output", "otherHash"} /\ ~FailsForHashMismatch
  \/ Argument = "notOptimizable" /\ CanFetchFallbackToOriginal(FALSE)

(* FailForHashMismatch; or the client of an in-place resource has the       *)
(* output that the metadata names.                                          *)
FetchCacheDoneReplies ==
  /\ AtHead("FetchCacheDone")
  /\ \/ FailsForHashMismatch /\ FetchCallbackDone("mismatch")
     \/ TriesFallback /\ req.inPlace /\ Argument # "notOptimizable" /\ FetchCallbackDone("notModified")
  /\ tasks' = Tail(tasks)
  /\ ctx' = [ctx EXCEPT !.partitions = 1]
  /\ UNCHANGED <<req, owed, loads, rewrite, alarm, pointer, making, rec, fault>>

FetchTryFallback ==
  /\ AtHead("FetchCacheDone")
  /\ TriesFallback
  /\ tasks' = Tail(tasks)
  /\ owed' = owed \cup {"fallback"}
  /\ ctx' = [ctx EXCEPT !.partitions = 1]
  /\ UNCHANGED <<req, loads, rewrite, alarm, pointer, making, rec, drv, replies, fault>>

FallbackFound ==
  /\ "fallback" \in owed
  /\ owed' = owed \ {"fallback"}
  /\ \E usable \in BOOLEAN : AddRewriteTask(Task("FetchFallbackCacheDone", usable))
  /\ UNCHANGED <<req, loads, ctx, rewrite, alarm, pointer, making, rec, drv, replies, fault>>

(* FetchFallbackDone: the alarm is canceled; a detached fetch has answered. *)
FetchFallbackDone(c) ==
  IF c.detached
  THEN drv' = DropReference(drv, "background") /\ UNCHANGED replies
  ELSE FetchCallbackDone(IF c.partitions = 1 THEN "fallback" ELSE "notFound")

FetchFallbackCacheDone ==
  /\ AtHead("FetchFallbackCacheDone")
  /\ Argument
  /\ tasks' = Tail(tasks)
  /\ CancelDeadlineAlarm
  /\ FetchFallbackDone(ctx)
  /\ fault' = Dangling
  /\ UNCHANGED <<req, owed, loads, ctx, rewrite, making, rec>>

---------------------------------------------------------------------------
(* RewriteContext: the rewrite.                                             *)

(* The fake partition is added, and the rewrite starts, unless the inputs   *)
(* are too big, one of them did not load, or must not be transformed.  Who  *)
(* makes the alarm starts the rewrite once the constructor has returned.    *)
StartRewriteForFetch(c, queue, who) ==
  /\ ctx' = [c EXCEPT !.partitions = @ + 1]
  /\ \/ /\ c.ok /\ ~c.tooBig
        /\ CanFetchFallbackToOriginal(FALSE)
        /\ tasks' = queue
        /\ IF SetupDeadlineAlarm(c)
           THEN /\ alarm' = [alarm EXCEPT !.state = "armed"]
                /\ making' = who
                /\ UNCHANGED rewrite
           ELSE rewrite' = "queued" /\ UNCHANGED <<alarm, making>>
     \/ /\ c.ok /\ ~c.tooBig
        /\ ~CanFetchFallbackToOriginal(FALSE)
        /\ tasks' = Append(queue, Task("Rewrite", ""))
        /\ UNCHANGED <<rewrite, alarm, making>>
     \/ /\ tasks' = Append(queue, Task("RewriteDoneImpl", "kRewriteFailed"))
        /\ UNCHANGED <<rewrite, alarm, making>>

(* deadline_alarm_ is assigned, and the low-priority sequence gets its task. *)
QueuedAlarmMade ==
  /\ ~fault
  /\ making # "nobody"
  /\ fault' = (alarm.state = "deleted")
  /\ pointer' = TRUE
  /\ making' = "nobody"
  /\ rewrite' = "queued"
  /\ UNCHANGED <<req, tasks, owed, loads, ctx, alarm, rec, drv, replies>>

FetchInputsOnceStarted(c, queue) ==                                    \* mutant
  LET n == IF c.tooBig THEN 0
           ELSE Min({req.inputs - c.started, MaxConcurrentFetchInputs - c.fetches})
      d == [c EXCEPT !.started = @ + n, !.fetches = @ + n]
  IN  /\ loads' = loads + n
      /\ IF n = 0
         THEN StartRewriteForFetch(d, queue, "sequence")
         ELSE ctx' = d /\ tasks' = queue /\ UNCHANGED <<rewrite, alarm, making>>

(* A few loads at a time, and none once the inputs are too big. *)
FetchInputs(c, queue) ==
  LET n == IF c.tooBig THEN 0
           ELSE Min({req.inputs - c.started, MaxConcurrentFetchInputs - c.fetches})
      d == [c EXCEPT !.started = @ + n, !.fetches = @ + n]
  IN  /\ loads' = loads + n
      /\ IF d.fetches = 0
         THEN StartRewriteForFetch(d, queue, "sequence")
         ELSE ctx' = d /\ tasks' = queue /\ UNCHANGED <<rewrite, alarm, making>>

(* What leads to StartFetchReconstruction. *)
Reconstructs ==
  \/ AtHead("FetchCacheDone") /\ ~FailsForHashMismatch /\ ~TriesFallback
  \/ AtHead("FetchFallbackCacheDone") /\ ~Argument
  \/ AtHead("StartFetchImpl") /\ req.onTheFly /\ ~req.conditional

StartFetchReconstruction ==
  /\ Reconstructs
  /\ ~req.inPlace
  /\ FetchInputs([ctx EXCEPT !.partitions = 0], Tail(tasks))
  /\ UNCHANGED <<req, owed, pointer, rec, drv, replies, fault>>

(* A load ends; more than one input may add up to too much. *)
LoadDone ==
  /\ loads > 0
  /\ loads' = loads - 1
  /\ \E success, tooBig \in BOOLEAN :
       /\ tooBig => success /\ req.inputs > 1
       /\ AddRewriteTask(Task("ResourceFetchDone", [success |-> success, tooBig |-> tooBig]))
  /\ UNCHANGED <<req, owed, ctx, rewrite, alarm, pointer, making, rec, drv, replies, fault>>

ResourceFetchDone ==
  /\ AtHead("ResourceFetchDone")
  /\ FetchInputs([ctx EXCEPT !.fetches = @ - 1, !.ok = @ /\ Argument.success,
                             !.tooBig = @ \/ Argument.tooBig], Tail(tasks))
  /\ UNCHANGED <<req, owed, pointer, rec, drv, replies, fault>>

(* The Rewrite of a filter that must run, on the rewrite sequence. *)
InvokeRewrite ==
  /\ AtHead("Rewrite")
  /\ tasks' = Tail(tasks)
  /\ rewrite' = "running"
  /\ UNCHANGED <<req, owed, loads, ctx, alarm, pointer, making, rec, drv, replies, fault>>

InvokeRewriteLowPriority ==
  /\ ~fault
  /\ rewrite = "queued"
  /\ rewrite' = "running"
  /\ UNCHANGED <<req, tasks, owed, loads, ctx, alarm, pointer, making, rec, drv, replies, fault>>

(* The low-priority pool sheds the task or shuts down. *)
InvokeRewriteCancel ==
  /\ ~fault
  /\ rewrite = "queued"
  /\ rewrite' = "none"
  /\ AddRewriteTask(Task("RewriteDoneImpl", "kTooBusy"))
  /\ UNCHANGED <<req, owed, loads, ctx, alarm, pointer, making, rec, drv, replies, fault>>

RewriteDone ==
  /\ ~fault
  /\ rewrite = "running"
  /\ rewrite' = "none"
  /\ \E result \in {"kRewriteOk", "kRewriteFailed", "kTooBusy"} :
       AddRewriteTask(Task("RewriteDoneImpl", result))
  /\ UNCHANGED <<req, owed, loads, ctx, alarm, pointer, making, rec, drv, replies, fault>>

(* What FetchDone sends: the hash of what was written may be another than   *)
(* the requested one, which an in-place resource does not name.             *)
Outcomes(result) ==
  IF result = "kRewriteOk"
  THEN {IF req.strict THEN "mismatch" ELSE "fallback"}
       \cup IF req.inPlace THEN {} ELSE {"rewritten"}
  ELSE IF CanFetchFallbackToOriginal(TRUE) /\ ctx.ok THEN {"original"} ELSE {"notFound"}

FetchDoneForgetful ==                                                  \* mutant
  /\ AtHead("RewriteDoneImpl")
  /\ tasks' = Tail(tasks)
  /\ CancelDeadlineAlarm
  /\ fault' = (Dangling \/ ctx.partitions # 1)
  /\ ctx' = [ctx EXCEPT !.lock = FALSE]
  /\ IF ctx.detached
     THEN UNCHANGED <<drv, replies>>
     ELSE \E reply \in Outcomes(Argument) : FetchCallbackDone(reply)
  /\ UNCHANGED <<req, owed, loads, rewrite, making, rec>>

(* RewriteDoneImpl, Finalize and FetchDone: the alarm is canceled, the      *)
(* partition written and the lock given back.                               *)
FetchDone ==
  /\ AtHead("RewriteDoneImpl")
  /\ tasks' = Tail(tasks)
  /\ CancelDeadlineAlarm
  /\ fault' = (Dangling \/ ctx.partitions # 1)
  /\ ctx' = [ctx EXCEPT !.lock = FALSE]
  /\ IF ctx.detached
     THEN drv' = DropReference(drv, "background") /\ UNCHANGED replies
     ELSE \E reply \in Outcomes(Argument) : FetchCallbackDone(reply)
  /\ UNCHANGED <<req, owed, loads, rewrite, making, rec>>

---------------------------------------------------------------------------
(* In-place resources: the RecordingFetch forwards the original to the      *)
(* client, or holds it back, and starts the rewrite when it has all of it.  *)

CallerFree == ~fault /\ making # Caller

StartFetchReconstructionInPlace ==
  /\ Reconstructs
  /\ req.inPlace
  /\ tasks' = Tail(tasks)
  /\ rec' = [rec EXCEPT !.at = "headers"]
  /\ UNCHANGED <<req, owed, loads, ctx, rewrite, alarm, pointer, making, drv, replies, fault>>

(* The headers say whether the response may be optimized.  If not, the      *)
(* driver is freed, and only a proxy passes the response on.                *)
HandleHeadersComplete ==
  /\ rec.at = "headers"
  /\ CallerFree
  /\ \E can \in BOOLEAN :
       /\ rec' = [at |-> "body", can |-> can,
                  streaming |-> IF can THEN ~req.waits ELSE req.proxy]
       /\ IF can THEN UNCHANGED <<drv, replies>>
          ELSE IF req.proxy
          THEN drv' = DropReference(drv, "user") /\ UNCHANGED replies
          ELSE FetchCallbackDone("declined")
  /\ UNCHANGED <<req, tasks, owed, loads, ctx, rewrite, alarm, pointer, making, fault>>

(* The body turns out too big for the cache. *)
HandleWriteTooBig ==
  /\ rec.at = "body" /\ rec.can
  /\ CallerFree
  /\ rec' = [rec EXCEPT !.can = FALSE, !.streaming = TRUE]
  /\ drv' = DropReference(drv, "user")
  /\ UNCHANGED <<req, tasks, owed, loads, ctx, rewrite, alarm, pointer, making, replies, fault>>

HandleDoneFailed ==
  /\ rec.at = "body"
  /\ CallerFree
  /\ rec' = [rec EXCEPT !.at = "gone"]
  /\ IF rec.can THEN FetchCallbackDone("failed")
     ELSE IF rec.streaming
     THEN drv' = Reply(drv) /\ replies' = Append(replies, "failed")
     ELSE UNCHANGED <<drv, replies>>
  /\ UNCHANGED <<req, tasks, owed, loads, ctx, rewrite, alarm, pointer, making, fault>>

(* The response is complete: what may be optimized is loaded once more, as  *)
(* the module itself fetches it, unless it was loaded from a file.          *)
HandleDoneOk ==
  /\ rec.at = "body"
  /\ CallerFree
  /\ rec' = [rec EXCEPT !.at = IF rec.can THEN "loading" ELSE "gone"]
  /\ IF rec.streaming
     THEN drv' = Reply(drv) /\ replies' = Append(replies, "recorded")
     ELSE UNCHANGED <<drv, replies>>
  /\ UNCHANGED <<req, tasks, owed, loads, ctx, rewrite, alarm, pointer, making, fault>>

(* FetchedInputLoaded detaches the fetch of a client that was answered, and *)
(* starts the rewrite, where it was called.                                 *)
FetchedInputLoaded ==
  /\ rec.at = "loading"
  /\ CallerFree
  /\ rec' = [rec EXCEPT !.at = "loaded"]
  /\ StartRewriteForFetch([ctx EXCEPT !.partitions = 0, !.detached = @ \/ rec.streaming],
                          tasks, Caller)
  /\ IF rec.streaming
     THEN drv' = DetachFetch(drv) /\ fault' = CannotDetach
     ELSE UNCHANGED <<drv, fault>>
  /\ UNCHANGED <<req, owed, loads, pointer, replies>>

FetchedInputNotLoaded ==
  /\ rec.at = "loading"
  /\ req.http
  /\ CallerFree
  /\ rec' = [rec EXCEPT !.at = "gone"]
  /\ IF rec.streaming
     THEN drv' = DropReference(drv, "user") /\ UNCHANGED replies
     ELSE FetchCallbackDone("recorded")
  /\ UNCHANGED <<req, tasks, owed, loads, ctx, rewrite, alarm, pointer, making, fault>>

FetchedInputLoadedEnd ==
  /\ rec.at = "loaded"
  /\ CallerFree
  /\ rec' = [rec EXCEPT !.at = "gone"]
  /\ drv' = IF rec.streaming THEN DropReference(drv, "user") ELSE drv
  /\ UNCHANGED <<req, tasks, owed, loads, ctx, rewrite, alarm, pointer, making, replies, fault>>

---------------------------------------------------------------------------
(* The specification.                                                       *)

Answers ==
  \/ CacheCallbackDone
  \/ LockForCreationDone
  \/ MetadataDone
  \/ FallbackFound
  \/ LoadDone
  \/ HandleHeadersComplete
  \/ HandleDoneFailed
  \/ HandleDoneOk
  \/ FetchedInputLoaded
  \/ FetchedInputNotLoaded
  \/ FetchedInputLoadedEnd

Begins ==
  \/ FetchResourceNotHandled
  \/ FetchBareNotModified
  \/ FetchAskFilter
  \/ CacheCallbackFind

RunsTask ==
  \/ CancelFetch
  \/ StartFetch
  \/ CallStartFetchImpl
  \/ StartFetchImpl
  \/ FetchNotModifiedCacheDone
  \/ FetchCacheDoneReplies
  \/ FetchTryFallback
  \/ FetchFallbackCacheDone
  \/ StartFetchReconstruction
  \/ StartFetchReconstructionInPlace
  \/ ResourceFetchDone
  \/ InvokeRewrite
  \/ FetchDone
  \/ SequencePortionOfRun

Next ==
  \/ Begins
  \/ Answers
  \/ HandleWriteTooBig
  \/ RunsTask
  \/ QueuedAlarmMade
  \/ RunAlarms
  \/ QueuedAlarmRun
  \/ InvokeRewriteLowPriority
  \/ InvokeRewriteCancel
  \/ RewriteDone

Spec == Init /\ [][Next]_vars

(* The sequence runs its tasks, the scheduler its alarms, and whatever is   *)
(* asked is answered; but a filter's Rewrite may take for ever.             *)
FairSpec ==
  /\ Spec
  /\ WF_vars(Begins)
  /\ WF_vars(Answers)
  /\ WF_vars(RunsTask)
  /\ WF_vars(QueuedAlarmMade)
  /\ WF_vars(RunAlarms)
  /\ WF_vars(QueuedAlarmRun)
  /\ WF_vars(InvokeRewriteLowPriority)

---------------------------------------------------------------------------
(* Properties.                                                              *)

Ops == {"StartFetch", "CallStartFetchImpl", "StartFetchImpl", "FetchCacheDone",
        "FetchNotModifiedCacheDone", "FetchFallbackCacheDone", "ResourceFetchDone",
        "Rewrite", "RewriteDoneImpl", "SequencePortionOfRun"}

(* Types, and the counts that cannot pass their bounds: one reference of a  *)
(* kind, the inputs that load at once, the one partition.                   *)
TypeOK ==
  /\ req \in Requests
  /\ \A i \in DOMAIN tasks : tasks[i].op \in Ops
  /\ owed \subseteq {"request", "output", "lock", "metadata", "fallback"}
  /\ loads \in 0..MaxConcurrentFetchInputs
  /\ ctx \in [started : 0..MaxInputs, fetches : 0..MaxConcurrentFetchInputs,
              ok : BOOLEAN, tooBig : BOOLEAN, partitions : 0..1,
              detached : BOOLEAN, lock : BOOLEAN]
  /\ rewrite \in {"none", "queued", "running"}
  /\ alarm \in [state : {"none", "armed", "popped", "queued", "deleted"}, canceled : BOOLEAN]
  /\ pointer \in BOOLEAN
  /\ making \in {"nobody", "sequence", "fetcher"}
  /\ rec \in [at : {"none", "headers", "body", "loading", "loaded", "gone"},
              can : BOOLEAN, streaming : BOOLEAN]
  /\ drv \in [client : 0..1, user : 0..1, background : 0..1, released : 0..1]
  /\ fault \in BOOLEAN

(* The client is answered once: not again by the rewrite when the deadline  *)
(* was faster, nor by a deadline that was queued when the rewrite ended,    *)
(* nor twice by a RecordingFetch; and the driver is not given up before.    *)
AnsweredOnce ==
  /\ Len(replies) <= 1
  /\ drv.released = 1 => Len(replies) = 1

(* Whoever releases the driver, and with it the context, is the last who    *)
(* refers to it: no lookup, load, rewrite or task of it is left, and what   *)
(* remains of an alarm or a RecordingFetch does not touch it again.         *)
DriverOutlivesFetch ==
  drv.released > 0 =>
    /\ owed = {} /\ loads = 0 /\ rewrite = "none" /\ making = "nobody"
    /\ \A i \in DOMAIN tasks : tasks[i].op = "SequencePortionOfRun" /\ alarm.canceled
    /\ alarm.state \in {"armed", "popped"} => alarm.canceled
    /\ rec.at \in {"none", "body", "loaded", "gone"}
    /\ rec.at = "body" => ~rec.can
    /\ rec.at = "loaded" => ~rec.streaming

(* deadline_alarm_ never points to an alarm that was deleted, and none is   *)
(* deleted under its constructor: HandleDeadline clears the pointer (avoid  *)
(* dangling reference), and CancelAlarm leaves the deletion to Run when it  *)
(* comes too late for the scheduler.                                        *)
NoDanglingAlarm ==
  alarm.state = "deleted" => ~pointer /\ making = "nobody"

(* No CHECK of DetachFetch, and no DCHECK on the number of partitions, ever *)
(* fails: in particular the inputs are rewritten once, however their loads  *)
(* end.                                                                     *)
NoFetchCheckFails == ~fault

(* A rewrite that never ends holds up the answer only of a fetch that has   *)
(* nothing else to answer with, or has no deadline: everyone else is        *)
(* answered, by the alarm if need be.                                       *)
Replaceable ==
  CanFetchFallbackToOriginal(FALSE) /\ req.deadline /\ ~req.onTheFly /\ ~req.nested
AnsweredByDeadline ==
  <>(replies # <<>> \/ (rewrite = "running" /\ ~Replaceable))

(* Once the rewrite has ended, the driver is released, whoever answered. *)
EveryDriverReleased ==
  []<>(rewrite # "running") => <>(drv.released = 1)

====
