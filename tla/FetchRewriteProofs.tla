---- MODULE FetchRewriteProofs ----
(***************************************************************************)
(* FetchRewrite: the client is answered once, the driver is released by    *)
(* the last who refers to it, the deadline alarm never dangles and no      *)
(* CHECK fails, for any set of requests that make their alarms on the      *)
(* rewrite sequence, any number of inputs and of concurrent loads.         *)
(*                                                                         *)
(* The argument: at any time one party carries the fetch on, a lookup, a   *)
(* task, the loads, the RecordingFetch, the constructor of the alarm or    *)
(* the rewrite; and who carries it determines who refers to the driver.    *)
(***************************************************************************)
EXTENDS FetchRewrite, FiniteSetTheorems, SequenceTheorems, TLAPS

(* No request makes its alarm in a thread of the fetcher, where the alarm   *)
(* may run, and be deleted, before the constructor has returned.            *)
AlarmsOnSequence ==
  \A r \in Requests :
    ~(r.inPlace /\ r.waits /\ r.http /\ ~r.requestThread /\ r.deadline /\ ~r.nested)

---------------------------------------------------------------------------
(* The inductive invariant.                                                 *)

Args == {"", "nothing", "output", "otherHash", "notOptimizable",
         "kRewriteOk", "kRewriteFailed", "kTooBusy"}
        \cup BOOLEAN \cup [success : BOOLEAN, tooBig : BOOLEAN]
Tasks == [op : Ops, arg : Args]

Verdicts == {"notFound", "notModified", "error", "mismatch", "rewritten", "fallback",
             "original", "declined", "failed", "recorded"}

(* The tasks of the fetch, and of the alarm. *)
FetchTasks(s) == {i \in 1..Len(s) : s[i].op # "SequencePortionOfRun"}
AlarmTasks(s) == {i \in 1..Len(s) : s[i].op = "SequencePortionOfRun"}
NumFetch(s) == Cardinality(FetchTasks(s))
NumAlarm(s) == Cardinality(AlarmTasks(s))
OnlyOps(s, ops) == \A i \in FetchTasks(s) : s[i].op \in ops

References == [client : Int, user : Int, background : Int, released : Int]
IsRefs(d, c, u, b, r) ==
  /\ d \in References
  /\ d.client = c /\ d.user = u /\ d.background = b /\ d.released = r
(* The driver's references, and that the client has them until it is answered. *)
Refs(c, u, b, r) == IsRefs(drv, c, u, b, r) /\ Len(replies) = 1 - c

Contexts ==
  [started : Int, fetches : Int, ok : BOOLEAN, tooBig : BOOLEAN, partitions : Int,
   detached : BOOLEAN, lock : BOOLEAN]

TypeInv ==
  /\ req \in Requests
  /\ tasks \in Seq(Tasks)
  /\ loads \in Nat
  /\ ctx \in Contexts
  /\ rewrite \in {"none", "queued", "running"}
  /\ alarm \in [state : {"none", "armed", "popped", "queued", "deleted"}, canceled : BOOLEAN]
  /\ pointer \in BOOLEAN
  /\ rec \in [at : {"none", "headers", "body", "loading", "loaded", "gone"},
              can : BOOLEAN, streaming : BOOLEAN]
  /\ replies \in Seq(Verdicts)
  /\ fault = FALSE
  /\ NumAlarm(tasks) = IF alarm.state = "queued" THEN 1 ELSE 0

(* Nobody but the RecordingFetch carries the fetch. *)
Nobody ==
  /\ owed = {} /\ loads = 0 /\ rewrite = "none" /\ making = "nobody"
  /\ NumFetch(tasks) = 0

(* One task does. *)
ByTask(ops) ==
  /\ owed = {} /\ loads = 0 /\ rewrite = "none" /\ making = "nobody"
  /\ NumFetch(tasks) = 1 /\ OnlyOps(tasks, ops)

(* One lookup does. *)
ByLookup(what) ==
  /\ owed = {what} /\ loads = 0 /\ rewrite = "none" /\ making = "nobody"
  /\ NumFetch(tasks) = 0

NoAlarm == alarm.state = "none" /\ ~alarm.canceled /\ ~pointer
Pending == alarm.state \in {"armed", "popped", "queued"} /\ ~alarm.canceled

(* Nothing was loaded and nothing recorded. *)
Fresh ==
  /\ NoAlarm /\ rec.at = "none" /\ ~ctx.detached
  /\ ctx.started = 0 /\ ctx.fetches = 0 /\ ctx.partitions \in 0..1

EarlyOps == {"StartFetch", "CallStartFetchImpl", "StartFetchImpl", "FetchCacheDone",
             "FetchNotModifiedCacheDone", "FetchFallbackCacheDone"}

Asked == ByLookup("request") /\ Fresh /\ Refs(1, 0, 0, 0)

Looking ==
  /\ ByTask(EarlyOps) \/ \E what \in {"output", "lock", "metadata", "fallback"} : ByLookup(what)
  /\ Fresh /\ Refs(1, 1, 0, 0)

Loading ==
  /\ owed = {} /\ rewrite = "none" /\ making = "nobody"
  /\ OnlyOps(tasks, {"ResourceFetchDone"})
  /\ loads + NumFetch(tasks) = ctx.fetches
  /\ ctx.fetches \in 1..MaxConcurrentFetchInputs
  /\ ctx.started \in 0..req.inputs
  /\ NoAlarm /\ rec.at = "none" /\ ~ctx.detached /\ ctx.partitions = 0
  /\ ~req.inPlace /\ Refs(1, 1, 0, 0)

(* The response is recorded, or passed on by a RecordingFetch that has no   *)
(* driver any more.                                                         *)
Recording ==
  /\ Nobody /\ NoAlarm /\ ~ctx.detached /\ req.inPlace
  /\ ctx.started = 0 /\ ctx.fetches = 0 /\ ctx.partitions \in 0..1
  /\ rec.at \in {"headers", "body", "loading"}
  /\ rec.at = "headers" => Refs(1, 1, 0, 0)
  /\ rec.at = "body" /\ rec.can => Refs(1, 1, 0, 0) /\ rec.streaming = ~req.waits
  /\ rec.at = "body" /\ ~rec.can /\ rec.streaming => Refs(1, 0, 0, 0)
  /\ rec.at = "body" /\ ~rec.can /\ ~rec.streaming => Refs(0, 0, 0, 1)
  /\ rec.at = "loading" => rec.streaming = ~req.waits
  /\ rec.at = "loading" /\ rec.streaming => Refs(0, 1, 0, 0)
  /\ rec.at = "loading" /\ ~rec.streaming => Refs(1, 1, 0, 0)

(* A RecordingFetch does not hold the driver, or no longer. *)
HoldsNothing == rec.at \in {"none", "gone"} \/ (rec.at = "loaded" /\ ~rec.streaming)

Counted ==
  /\ ctx.started \in 0..req.inputs /\ ctx.fetches = 0 /\ ctx.partitions = 1

(* The alarm is being made. *)
Making ==
  /\ owed = {} /\ loads = 0 /\ rewrite = "none" /\ making = "sequence"
  /\ NumFetch(tasks) = 0
  /\ Counted /\ ~ctx.detached /\ HoldsNothing
  /\ Pending /\ ~pointer /\ Refs(1, 1, 0, 0)

ByRewrite ==
  /\ owed = {} /\ loads = 0 /\ rewrite # "none" /\ making = "nobody"
  /\ NumFetch(tasks) = 0

(* The client waits for the rewrite, or was answered by the alarm, or by    *)
(* the RecordingFetch, which is perhaps not quite through.                  *)
Rewriting ==
  /\ ByRewrite \/ ByTask({"Rewrite", "RewriteDoneImpl"})
  /\ Counted
  /\ \/ ~ctx.detached /\ HoldsNothing /\ Refs(1, 1, 0, 0) /\ (NoAlarm \/ (Pending /\ pointer))
     \/ ctx.detached /\ HoldsNothing /\ Refs(0, 0, 1, 0) /\ alarm.state = "deleted" /\ ~pointer
     \/ ctx.detached /\ rec.at = "loaded" /\ rec.streaming /\ Refs(0, 1, 1, 0) /\ NoAlarm
     \/ ctx.detached /\ rec.at = "gone" /\ Refs(0, 0, 1, 0) /\ NoAlarm

(* The fetch is over; an alarm that is left was canceled. *)
Ended ==
  /\ Nobody /\ ~pointer
  /\ ctx.started \in 0..req.inputs /\ ctx.fetches = 0 /\ ctx.partitions \in 0..1
  /\ alarm.state \in {"none", "deleted"} \/ (alarm.state \in {"popped", "queued"} /\ alarm.canceled)
  /\ \/ HoldsNothing /\ Refs(0, 0, 0, 1)
     \/ rec.at = "loaded" /\ rec.streaming /\ Refs(0, 1, 0, 0)

Phases == Asked \/ Looking \/ Loading \/ Recording \/ Making \/ Rewriting \/ Ended

FetchInv == TypeInv /\ Phases

---------------------------------------------------------------------------
(* The rewrite sequence.                                                    *)

LEMMA TasksFinite ==
  ASSUME NEW s \in Seq(Tasks)
  PROVE  /\ IsFiniteSet(FetchTasks(s)) /\ IsFiniteSet(AlarmTasks(s))
         /\ NumFetch(s) \in Nat /\ NumAlarm(s) \in Nat
         /\ NumFetch(s) = 0 <=> FetchTasks(s) = {}
PROOF
<1>1. IsFiniteSet(1..Len(s))
  BY FS_Interval, LenProperties
<1>2. FetchTasks(s) \in SUBSET (1..Len(s)) /\ AlarmTasks(s) \in SUBSET (1..Len(s))
  BY DEF FetchTasks, AlarmTasks
<1>3. IsFiniteSet(FetchTasks(s)) /\ IsFiniteSet(AlarmTasks(s))
  BY <1>1, <1>2, FS_Subset
<1> QED BY <1>3, FS_CardinalityType, FS_EmptySet DEF NumFetch, NumAlarm

LEMMA TaskAppended ==
  ASSUME NEW s \in Seq(Tasks), NEW t \in Tasks
  PROVE  /\ Append(s, t) \in Seq(Tasks)
         /\ t.op # "SequencePortionOfRun" =>
              /\ NumFetch(Append(s, t)) = NumFetch(s) + 1
              /\ NumAlarm(Append(s, t)) = NumAlarm(s)
              /\ \A ops : OnlyOps(s, ops) /\ t.op \in ops => OnlyOps(Append(s, t), ops)
         /\ t.op = "SequencePortionOfRun" =>
              /\ NumFetch(Append(s, t)) = NumFetch(s)
              /\ NumAlarm(Append(s, t)) = NumAlarm(s) + 1
              /\ \A ops : OnlyOps(s, ops) => OnlyOps(Append(s, t), ops)
PROOF
<1> DEFINE a == Append(s, t)
           n == Len(s) + 1
<1>1. /\ a \in Seq(Tasks) /\ Len(a) = n /\ a[n] = t /\ Len(s) \in Nat
      /\ \A i \in 1..Len(s) : a[i] = s[i]
  OBVIOUS
<1>2. 1..Len(a) = 1..Len(s) \cup {n} /\ n \notin 1..Len(s)
  BY <1>1
<1> HIDE DEF a, n
<1>3. n \notin FetchTasks(s) /\ n \notin AlarmTasks(s)
  BY <1>2 DEF FetchTasks, AlarmTasks
<1>4. CASE t.op # "SequencePortionOfRun"
  <2>1. FetchTasks(a) = FetchTasks(s) \cup {n} /\ AlarmTasks(a) = AlarmTasks(s)
    BY <1>1, <1>2, <1>4 DEF FetchTasks, AlarmTasks
  <2>2. NumFetch(a) = NumFetch(s) + 1 /\ NumAlarm(a) = NumAlarm(s)
    BY <2>1, <1>3, TasksFinite, FS_AddElement DEF NumFetch, NumAlarm
  <2>3. ASSUME NEW ops, OnlyOps(s, ops), t.op \in ops
        PROVE  OnlyOps(a, ops)
    BY <2>1, <2>3, <1>1 DEF OnlyOps, FetchTasks
  <2> QED BY <2>2, <2>3, <1>1, <1>4 DEF a
<1>5. CASE t.op = "SequencePortionOfRun"
  <2>1. FetchTasks(a) = FetchTasks(s) /\ AlarmTasks(a) = AlarmTasks(s) \cup {n}
    BY <1>1, <1>2, <1>5 DEF FetchTasks, AlarmTasks
  <2>2. NumFetch(a) = NumFetch(s) /\ NumAlarm(a) = NumAlarm(s) + 1
    BY <2>1, <1>3, TasksFinite, FS_AddElement DEF NumFetch, NumAlarm
  <2>3. ASSUME NEW ops, OnlyOps(s, ops)
        PROVE  OnlyOps(a, ops)
    BY <2>1, <2>3, <1>1 DEF OnlyOps, FetchTasks
  <2> QED BY <2>2, <2>3, <1>1, <1>5 DEF a
<1> QED BY <1>4, <1>5

(* Indices one less are as many. *)
LEMMA ShiftedCount ==
  ASSUME NEW S, IsFiniteSet(S), S \subseteq Int, NEW T, T = {i - 1 : i \in S}
  PROVE  Cardinality(T) = Cardinality(S)
PROOF
<1> DEFINE f == [i \in S |-> i - 1]
<1>1. f \in Bijection(S, T)
  <2>1. f \in [S -> T]
    OBVIOUS
  <2>2. \A a, b \in S : f[a] = f[b] => a = b
    OBVIOUS
  <2>3. \A x \in T : \E a \in S : f[a] = x
    OBVIOUS
  <2> QED BY <2>1, <2>2, <2>3 DEF Bijection, Injection, Surjection, IsInjective
<1>2. ExistsBijection(S, T)
  BY <1>1 DEF ExistsBijection
<1> QED BY <1>2, FS_Bijection

LEMMA TaskRemoved ==
  ASSUME NEW s \in Seq(Tasks), s # <<>>
  PROVE  /\ Head(s) \in Tasks /\ Tail(s) \in Seq(Tasks)
         /\ Head(s).op # "SequencePortionOfRun" =>
              /\ NumFetch(Tail(s)) = NumFetch(s) - 1 /\ NumFetch(s) > 0
              /\ NumAlarm(Tail(s)) = NumAlarm(s)
              /\ \A ops : OnlyOps(s, ops) => Head(s).op \in ops
         /\ Head(s).op = "SequencePortionOfRun" =>
              /\ NumFetch(Tail(s)) = NumFetch(s)
              /\ NumAlarm(Tail(s)) = NumAlarm(s) - 1 /\ NumAlarm(s) > 0
         /\ \A ops : OnlyOps(s, ops) => OnlyOps(Tail(s), ops)
PROOF
<1> DEFINE r == Tail(s)
<1>1. /\ r \in Seq(Tasks) /\ Len(r) = Len(s) - 1 /\ Len(s) \in Nat /\ Len(s) > 0
      /\ \A i \in 1..Len(r) : r[i] = s[i + 1] /\ Head(s) = s[1] /\ s[1] \in Tasks
      /\ Head(s) = s[1] /\ s[1] \in Tasks
  OBVIOUS
<1> HIDE DEF r
<1>2. /\ FetchTasks(r) = {i - 1 : i \in FetchTasks(s) \ {1}}
      /\ AlarmTasks(r) = {i - 1 : i \in AlarmTasks(s) \ {1}}
  <2>1. ASSUME NEW i \in FetchTasks(r)
        PROVE  i \in {j - 1 : j \in FetchTasks(s) \ {1}}
    <3>1. i + 1 \in FetchTasks(s) \ {1} /\ i = (i + 1) - 1
      BY <2>1, <1>1 DEF FetchTasks
    <3> QED BY <3>1
  <2>2. ASSUME NEW i \in FetchTasks(s) \ {1}
        PROVE  i - 1 \in FetchTasks(r)
    <3>1. i \in Int /\ i - 1 \in 1..Len(r) /\ (i - 1) + 1 = i
      BY <2>2, <1>1 DEF FetchTasks
    <3>2. r[i - 1] = s[i]
      BY <3>1, <1>1
    <3> QED BY <2>2, <3>1, <3>2 DEF FetchTasks
  <2>3. ASSUME NEW i \in AlarmTasks(r)
        PROVE  i \in {j - 1 : j \in AlarmTasks(s) \ {1}}
    <3>1. i + 1 \in AlarmTasks(s) \ {1} /\ i = (i + 1) - 1
      BY <2>3, <1>1 DEF AlarmTasks
    <3> QED BY <3>1
  <2>4. ASSUME NEW i \in AlarmTasks(s) \ {1}
        PROVE  i - 1 \in AlarmTasks(r)
    <3>1. i \in Int /\ i - 1 \in 1..Len(r) /\ (i - 1) + 1 = i
      BY <2>4, <1>1 DEF AlarmTasks
    <3>2. r[i - 1] = s[i]
      BY <3>1, <1>1
    <3> QED BY <2>4, <3>1, <3>2 DEF AlarmTasks
  <2> QED BY <2>1, <2>2, <2>3, <2>4
<1>3. /\ NumFetch(r) = Cardinality(FetchTasks(s) \ {1})
      /\ NumAlarm(r) = Cardinality(AlarmTasks(s) \ {1})
  <2>1. IsFiniteSet(FetchTasks(s) \ {1}) /\ IsFiniteSet(AlarmTasks(s) \ {1})
    BY TasksFinite, FS_RemoveElement
  <2>2. FetchTasks(s) \ {1} \subseteq Int /\ AlarmTasks(s) \ {1} \subseteq Int
    BY DEF FetchTasks, AlarmTasks
  <2> QED BY <2>1, <2>2, <1>2, ShiftedCount DEF NumFetch, NumAlarm
<1>4. \A ops : OnlyOps(s, ops) => OnlyOps(r, ops)
  <2> SUFFICES ASSUME NEW ops, OnlyOps(s, ops), NEW i \in FetchTasks(r)
               PROVE  r[i].op \in ops
    BY DEF OnlyOps
  <2>1. i + 1 \in FetchTasks(s) /\ r[i] = s[i + 1]
    BY <1>1 DEF FetchTasks
  <2> QED BY <2>1 DEF OnlyOps
<1>5. CASE Head(s).op # "SequencePortionOfRun"
  <2>1. 1 \in FetchTasks(s) /\ 1 \notin AlarmTasks(s)
    BY <1>1, <1>5 DEF FetchTasks, AlarmTasks
  <2>2. NumFetch(r) = NumFetch(s) - 1 /\ NumAlarm(r) = NumAlarm(s)
    BY <2>1, <1>3, TasksFinite, FS_RemoveElement DEF NumFetch, NumAlarm
  <2>3. NumFetch(s) > 0
    BY <2>1, TasksFinite
  <2>4. \A ops : OnlyOps(s, ops) => Head(s).op \in ops
    BY <2>1, <1>1 DEF OnlyOps
  <2> QED BY <2>2, <2>3, <2>4, <1>1, <1>4, <1>5 DEF r
<1>6. CASE Head(s).op = "SequencePortionOfRun"
  <2>1. 1 \notin FetchTasks(s) /\ 1 \in AlarmTasks(s)
    BY <1>1, <1>6 DEF FetchTasks, AlarmTasks
  <2>2. NumFetch(r) = NumFetch(s) /\ NumAlarm(r) = NumAlarm(s) - 1
    BY <2>1, <1>3, TasksFinite, FS_RemoveElement DEF NumFetch, NumAlarm
  <2>3. NumAlarm(s) > 0
    BY <2>1, TasksFinite, FS_EmptySet DEF NumAlarm
  <2> QED BY <2>2, <2>3, <1>1, <1>4, <1>6 DEF r
<1> QED BY <1>5, <1>6

LEMMA TaskInFront ==
  ASSUME NEW s \in Seq(Tasks), NEW t \in Tasks, t.op # "SequencePortionOfRun"
  PROVE  LET a == <<t>> \o s
         IN  /\ a \in Seq(Tasks)
             /\ NumFetch(a) = NumFetch(s) + 1 /\ NumAlarm(a) = NumAlarm(s)
             /\ \A ops : OnlyOps(s, ops) /\ t.op \in ops => OnlyOps(a, ops)
PROOF
<1> DEFINE a == <<t>> \o s
<1>1. /\ a \in Seq(Tasks) /\ Len(a) = Len(s) + 1 /\ Len(s) \in Nat /\ a # <<>>
      /\ a[1] = t /\ \A i \in 1..Len(s) : a[i + 1] = s[i]
  OBVIOUS
<1>2. Head(a) = t /\ Tail(a) = s
  <2>1. Tail(a) \in Seq(Tasks) /\ Len(Tail(a)) = Len(s)
    BY <1>1
  <2>2. \A i \in 1..Len(s) : Tail(a)[i] = s[i]
    BY <1>1
  <2> QED BY <1>1, <2>1, <2>2, SeqEqual
<1> HIDE DEF a
<1>3. NumFetch(s) = NumFetch(a) - 1 /\ NumAlarm(a) = NumAlarm(s)
  BY <1>1, <1>2, TaskRemoved
<1>4. NumFetch(a) = NumFetch(s) + 1
  BY <1>1, <1>3, TasksFinite
<1>5. ASSUME NEW ops, OnlyOps(s, ops), t.op \in ops
      PROVE  OnlyOps(a, ops)
  <2> SUFFICES ASSUME NEW i \in FetchTasks(a), i # 1
               PROVE  a[i].op \in ops
    BY <1>1, <1>5 DEF OnlyOps
  <2>1. i \in Int /\ i - 1 \in 1..Len(s) /\ (i - 1) + 1 = i
    BY <1>1 DEF FetchTasks
  <2>2. a[i] = s[i - 1]
    BY <1>1, <2>1
  <2>3. i - 1 \in FetchTasks(s)
    BY <2>1, <2>2 DEF FetchTasks
  <2> QED BY <2>2, <2>3, <1>5 DEF OnlyOps
<1> QED BY <1>1, <1>3, <1>4, <1>5 DEF a

(* No task is of any kind. *)
LEMMA NoTaskNoOps ==
  ASSUME NEW s \in Seq(Tasks), NumFetch(s) = 0
  PROVE  \A ops : OnlyOps(s, ops)
BY TasksFinite DEF OnlyOps

---------------------------------------------------------------------------
(* References.                                                              *)

LEMMA DropClient ==
  ASSUME NEW d, NEW u \in {0, 1}, NEW b \in {0, 1}, IsRefs(d, 1, u, b, 0)
  PROVE  /\ u = 0 /\ b = 0 => IsRefs(Reply(d), 0, 0, 0, 1)
         /\ u = 1 \/ b = 1 => IsRefs(Reply(d), 0, u, b, 0)
PROOF
<1> DEFINE e == [d EXCEPT !["client"] = @ - 1]
<1>1. IsRefs(e, 0, u, b, 0)
  BY DEF IsRefs, References
<1>2. Reply(d) = IF e.client = 0 /\ e.user = 0 /\ e.background = 0
                 THEN [e EXCEPT !.released = @ + 1] ELSE e
  BY DEF Reply, DropReference
<1> HIDE DEF e
<1>3. IsRefs([e EXCEPT !.released = @ + 1], 0, u, b, 1)
  BY <1>1 DEF IsRefs, References
<1> QED BY <1>1, <1>2, <1>3 DEF IsRefs

LEMMA DropUser ==
  ASSUME NEW d, NEW c \in {0, 1}, NEW b \in {0, 1}, IsRefs(d, c, 1, b, 0)
  PROVE  /\ c = 0 /\ b = 0 => IsRefs(DropReference(d, "user"), 0, 0, 0, 1)
         /\ c = 1 \/ b = 1 => IsRefs(DropReference(d, "user"), c, 0, b, 0)
PROOF
<1> DEFINE e == [d EXCEPT !["user"] = @ - 1]
<1>1. IsRefs(e, c, 0, b, 0)
  BY DEF IsRefs, References
<1>2. DropReference(d, "user") = IF e.client = 0 /\ e.user = 0 /\ e.background = 0
                                 THEN [e EXCEPT !.released = @ + 1] ELSE e
  BY DEF DropReference
<1> HIDE DEF e
<1>3. IsRefs([e EXCEPT !.released = @ + 1], c, 0, b, 1)
  BY <1>1 DEF IsRefs, References
<1> QED BY <1>1, <1>2, <1>3 DEF IsRefs

LEMMA DropBackground ==
  ASSUME NEW d, NEW u \in {0, 1}, IsRefs(d, 0, u, 1, 0)
  PROVE  /\ u = 0 => IsRefs(DropReference(d, "background"), 0, 0, 0, 1)
         /\ u = 1 => IsRefs(DropReference(d, "background"), 0, 1, 0, 0)
PROOF
<1> DEFINE e == [d EXCEPT !["background"] = @ - 1]
<1>1. IsRefs(e, 0, u, 0, 0)
  BY DEF IsRefs, References
<1>2. DropReference(d, "background") = IF e.client = 0 /\ e.user = 0 /\ e.background = 0
                                       THEN [e EXCEPT !.released = @ + 1] ELSE e
  BY DEF DropReference
<1> HIDE DEF e
<1>3. IsRefs([e EXCEPT !.released = @ + 1], 0, u, 0, 1)
  BY <1>1 DEF IsRefs, References
<1> QED BY <1>1, <1>2, <1>3 DEF IsRefs

LEMMA AddBackground ==
  ASSUME NEW d, NEW c \in {0, 1}, IsRefs(d, c, 1, 0, 0)
  PROVE  IsRefs(DetachFetch(d), c, 1, 1, 0)
BY DEF IsRefs, References, DetachFetch

LEMMA AddUser ==
  ASSUME IsRefs(drv, 1, 0, 0, 0)
  PROVE  IsRefs(AddUserFacing, 1, 1, 0, 0)
BY DEF IsRefs, References, AddUserFacing

(* A reply is one more. *)
LEMMA Replied ==
  ASSUME NEW r \in Verdicts, replies \in Seq(Verdicts), replies' = Append(replies, r)
  PROVE  replies' \in Seq(Verdicts) /\ Len(replies') = Len(replies) + 1
BY AppendProperties

(* The answer of a fetch that nobody answered yet ends it. *)
LEMMA CallbackDone ==
  ASSUME NEW r \in Verdicts, TypeInv, Refs(1, 1, 0, 0), FetchCallbackDone(r)
  PROVE  replies' \in Seq(Verdicts) /\ Refs(0, 0, 0, 1)'
PROOF
<1>1. IsRefs(drv, 1, 1, 0, 0) /\ Len(replies) = 0
  BY DEF Refs
<1>2. IsRefs(Reply(drv), 0, 1, 0, 0)
  BY <1>1, DropClient
<1>3. IsRefs(DropReference(Reply(drv), "user"), 0, 0, 0, 1)
  BY <1>2, DropUser
<1>4. IsRefs(drv', 0, 0, 0, 1)
  BY <1>3 DEF FetchCallbackDone
<1>5. replies' \in Seq(Verdicts) /\ Len(replies') = 1
  BY <1>1, Replied DEF TypeInv, FetchCallbackDone
<1> QED BY <1>4, <1>5 DEF Refs

---------------------------------------------------------------------------
(* Who acts tells the phase.                                                *)

LEMMA PhaseOfAnswer ==
  ASSUME FetchInv
  PROVE  /\ "request" \in owed => Asked
         /\ \A what \in {"output", "lock", "metadata", "fallback"} :
              what \in owed => Looking /\ ByLookup(what)
         /\ loads > 0 => Loading
         /\ rewrite # "none" => Rewriting /\ ByRewrite
         /\ making # "nobody" => Making
         /\ rec.at \in {"headers", "body", "loading"} => Recording
         /\ rec.at = "loaded" => Making \/ Rewriting \/ Ended
PROOF
<1> USE DEF FetchInv, Phases
<1>1. "request" \in owed => Asked
  BY DEF Looking, Loading, Recording, Making, Rewriting, Ended, ByTask, ByLookup, ByRewrite, Nobody
<1>2. ASSUME NEW what \in {"output", "lock", "metadata", "fallback"}, what \in owed
      PROVE  Looking /\ ByLookup(what)
  BY <1>2
  DEF Asked, Looking, Loading, Recording, Making, Rewriting, Ended, ByTask, ByLookup, ByRewrite,
     Nobody
<1>3. loads > 0 => Loading
  BY DEF Asked, Looking, Recording, Making, Rewriting, Ended, ByTask, ByLookup, ByRewrite, Nobody
<1>4. rewrite # "none" => Rewriting /\ ByRewrite
  BY
  DEF Asked, Looking, Loading, Recording, Making, Rewriting, Ended, ByTask, ByLookup, ByRewrite,
     Nobody
<1>5. making # "nobody" => Making
  BY DEF Asked, Looking, Loading, Recording, Rewriting, Ended, ByTask, ByLookup, ByRewrite, Nobody
<1>6. rec.at \in {"headers", "body", "loading"} => Recording
  BY DEF Asked, Looking, Loading, Making, Rewriting, Ended, HoldsNothing, Fresh
<1>7. rec.at = "loaded" => Making \/ Rewriting \/ Ended
  BY DEF Asked, Looking, Loading, Recording, Fresh
<1> QED BY <1>1, <1>2, <1>3, <1>4, <1>5, <1>6, <1>7

LEMMA PhaseOfTask ==
  ASSUME FetchInv, NEW op, AtHead(op)
  PROVE  /\ Head(tasks) \in Tasks /\ Tail(tasks) \in Seq(Tasks)
         /\ op \in EarlyOps => Looking /\ ByTask(EarlyOps)
         /\ op = "ResourceFetchDone" => Loading
         /\ op \in {"Rewrite", "RewriteDoneImpl"} =>
              Rewriting /\ ByTask({"Rewrite", "RewriteDoneImpl"})
         /\ op # "SequencePortionOfRun" =>
              /\ NumFetch(Tail(tasks)) = NumFetch(tasks) - 1 /\ NumFetch(tasks) > 0
              /\ NumAlarm(Tail(tasks)) = NumAlarm(tasks)
         /\ \A ops : OnlyOps(tasks, ops) => OnlyOps(Tail(tasks), ops)
PROOF
<1>1. /\ tasks \in Seq(Tasks) /\ tasks # <<>> /\ Head(tasks).op = op
  BY DEF FetchInv, TypeInv, AtHead
<1>2. /\ Head(tasks) \in Tasks /\ Tail(tasks) \in Seq(Tasks)
      /\ op # "SequencePortionOfRun" =>
           /\ NumFetch(Tail(tasks)) = NumFetch(tasks) - 1 /\ NumFetch(tasks) > 0
           /\ NumAlarm(Tail(tasks)) = NumAlarm(tasks)
           /\ \A ops : OnlyOps(tasks, ops) => op \in ops
      /\ \A ops : OnlyOps(tasks, ops) => OnlyOps(Tail(tasks), ops)
  BY <1>1, TaskRemoved
<1>3. ASSUME op # "SequencePortionOfRun"
      PROVE  \/ (Looking /\ ByTask(EarlyOps)) \/ Loading
             \/ Rewriting /\ ByTask({"Rewrite", "RewriteDoneImpl"})
  BY <1>2, <1>3 DEF FetchInv, Phases, Asked, Looking, Recording, Making, Rewriting, Ended,
     ByLookup, ByRewrite, Nobody
<1>4. /\ ByTask(EarlyOps) /\ op # "SequencePortionOfRun" => op \in EarlyOps
      /\ Loading /\ op # "SequencePortionOfRun" => op = "ResourceFetchDone"
      /\ ByTask({"Rewrite", "RewriteDoneImpl"}) /\ op # "SequencePortionOfRun" =>
           op \in {"Rewrite", "RewriteDoneImpl"}
  BY <1>2 DEF ByTask, Loading
<1>5. op \in EarlyOps \cup {"ResourceFetchDone", "Rewrite", "RewriteDoneImpl"} =>
        op # "SequencePortionOfRun"
  BY DEF EarlyOps
<1>6. EarlyOps \cap {"ResourceFetchDone", "Rewrite", "RewriteDoneImpl"} = {}
  BY DEF EarlyOps
<1> QED BY <1>2, <1>3, <1>4, <1>5, <1>6

---------------------------------------------------------------------------
(* How a fetch begins.                                                      *)

LEMMA InitInv ==
  ASSUME Init
  PROVE  FetchInv
PROOF
<1>1. tasks = <<>> /\ tasks \in Seq(Tasks) /\ replies \in Seq(Verdicts) /\ Len(replies) = 0
  BY DEF Init
<1>2. FetchTasks(tasks) = {} /\ AlarmTasks(tasks) = {}
  BY <1>1 DEF FetchTasks, AlarmTasks
<1>3. NumFetch(tasks) = 0 /\ NumAlarm(tasks) = 0
  BY <1>2, FS_EmptySet DEF NumFetch, NumAlarm
<1>4. TypeInv
  <2>1. ctx \in Contexts
    BY DEF Init, Contexts
  <2>2. alarm \in [state : {"none", "armed", "popped", "queued", "deleted"}, canceled : BOOLEAN]
        /\ alarm.state = "none"
    BY DEF Init
  <2>3. rec \in [at : {"none", "headers", "body", "loading", "loaded", "gone"},
                can : BOOLEAN, streaming : BOOLEAN]
    BY DEF Init
  <2> QED BY <1>1, <1>3, <2>1, <2>2, <2>3 DEF Init, TypeInv
<1>5. IsRefs(drv, 1, 0, 0, 0)
  BY DEF Init, IsRefs, References
<1>6. Asked
  BY <1>1, <1>3, <1>5 DEF Init, Asked, ByLookup, Fresh, NoAlarm, Refs
<1> QED BY <1>4, <1>6 DEF FetchInv, Phases

(* The request is answered at once. *)
LEMMA AnsweredAtOnce ==
  ASSUME FetchInv, FetchResourceNotHandled \/ FetchBareNotModified
  PROVE  FetchInv'
PROOF
<1>1. Asked /\ TypeInv
  BY PhaseOfAnswer DEF FetchInv, FetchResourceNotHandled, FetchBareNotModified
<1>2. /\ owed' = owed \ {"request"} /\ drv' = Reply(drv)
      /\ UNCHANGED <<req, tasks, loads, ctx, rewrite, alarm, pointer, making, rec, fault>>
      /\ \/ replies' = Append(replies, "notFound")
         \/ replies' = Append(replies, "notModified")
  BY DEF FetchResourceNotHandled, FetchBareNotModified
<1>3. replies' \in Seq(Verdicts) /\ Len(replies') = Len(replies) + 1
  BY <1>1, <1>2, Replied DEF TypeInv, Verdicts
<1>4. IsRefs(drv', 0, 0, 0, 1)
  BY <1>1, <1>2, DropClient DEF Asked, Refs
<1>5. TypeInv'
  BY <1>1, <1>2, <1>3 DEF TypeInv
<1>6. Ended'
  <2>1. Nobody'
    BY <1>1, <1>2 DEF Asked, ByLookup, Nobody
  <2>2. Refs(0, 0, 0, 1)'
    BY <1>1, <1>3, <1>4 DEF Asked, Refs
  <2>3. ctx.started \in 0..req.inputs
    BY <1>1, RequestsAssumption DEF Asked, Fresh, TypeInv, RequestType
  <2> QED BY <1>1, <1>2, <2>1, <2>2, <2>3 DEF Asked, Fresh, Ended, NoAlarm, HoldsNothing
<1> QED BY <1>5, <1>6 DEF FetchInv, Phases

LEMMA ArgTypes ==
  /\ \A a \in {"", "nothing", "output", "otherHash", "notOptimizable",
              "kRewriteOk", "kRewriteFailed", "kTooBusy"} : a \in Args
  /\ \A a \in BOOLEAN : a \in Args
  /\ \A a \in [success : BOOLEAN, tooBig : BOOLEAN] : a \in Args
BY Zenon DEF Args

LEMMA TaskType ==
  ASSUME NEW op \in Ops, NEW arg \in Args
  PROVE  Task(op, arg) \in Tasks /\ Task(op, arg).op = op /\ Task(op, arg).arg = arg
BY DEF Task, Tasks

(* One task is added by who carries the fetch, and carries it on. *)
LEMMA OneTask ==
  ASSUME NEW s \in Seq(Tasks), NumFetch(s) = 0, NEW op \in Ops \ {"SequencePortionOfRun"},
         NEW arg \in Args, NEW ops, op \in ops
  PROVE  LET a == Append(s, Task(op, arg))
         IN  /\ a \in Seq(Tasks) /\ NumFetch(a) = 1 /\ NumAlarm(a) = NumAlarm(s)
             /\ OnlyOps(a, ops)
PROOF
<1>1. Task(op, arg) \in Tasks /\ Task(op, arg).op = op
  BY TaskType
<1>2. OnlyOps(s, ops)
  BY NoTaskNoOps
<1> HIDE DEF Task
<1> QED BY <1>1, <1>2, TaskAppended

(* What the early phases leave alone. *)
LEMMA FreshCounted ==
  ASSUME TypeInv, Fresh
  PROVE  ctx.started \in 0..req.inputs /\ ctx.partitions \in 0..1 /\ HoldsNothing
BY RequestsAssumption DEF TypeInv, Fresh, HoldsNothing, RequestType

(* The fetch ends before anything was loaded. *)
LEMMA EndsFresh ==
  ASSUME TypeInv, Fresh, TypeInv', Nobody', Refs(0, 0, 0, 1)',
         req' = req, rec' = rec, alarm' = alarm, ~pointer',
         ctx'.started = ctx.started, ctx'.fetches = ctx.fetches, ctx'.partitions \in 0..1
  PROVE  FetchInv'
PROOF
<1>1. Ended'
  BY FreshCounted DEF Fresh, Ended, NoAlarm, HoldsNothing
<1> QED BY <1>1 DEF FetchInv, Phases

(* The filter starts the fetch, or does not. *)
LEMMA FilterStart ==
  ASSUME TypeInv, NEW what, ByLookup(what), Fresh,
         NEW d, IsRefs(d, 1, 1, 0, 0), Len(replies) = 0,
         FilterFetchStart(d), owed' = owed \ {what},
         UNCHANGED <<req, loads, ctx, rewrite, alarm, pointer, making, rec, fault>>
  PROVE  FetchInv'
PROOF
<1>1. tasks \in Seq(Tasks) /\ NumFetch(tasks) = 0
  BY DEF TypeInv, ByLookup
<1>2. owed' = {}
  BY DEF ByLookup
<1>3. CASE /\ tasks' = Append(tasks, Task("StartFetch", ""))
           /\ drv' = d /\ replies' = replies
  <2>1. "StartFetch" \in Ops \ {"SequencePortionOfRun"} /\ "StartFetch" \in EarlyOps
    BY DEF Ops, EarlyOps
  <2>2. /\ tasks' \in Seq(Tasks) /\ NumFetch(tasks') = 1
        /\ NumAlarm(tasks') = NumAlarm(tasks)
        /\ OnlyOps(tasks', EarlyOps)
    BY <1>1, <1>3, <2>1, ArgTypes, OneTask
  <2>3. TypeInv'
    BY <1>3, <2>2 DEF TypeInv
  <2>4. ByTask(EarlyOps)'
    BY <1>2, <2>2 DEF ByTask, ByLookup
  <2>5. Fresh'
    BY DEF Fresh, NoAlarm
  <2>6. Refs(1, 1, 0, 0)'
    <3>1. IsRefs(drv', 1, 1, 0, 0)
      BY <1>3
    <3>2. Len(replies') = 0
      BY <1>3
    <3> QED BY <3>1, <3>2 DEF Refs
  <2>7. Looking'
    BY <2>4, <2>5, <2>6 DEF Looking
  <2> QED BY <2>3, <2>7 DEF FetchInv, Phases
<1>4. CASE /\ drv' = DropReference(Reply(d), "user") /\ tasks' = tasks
           /\ replies' = Append(replies, IF req.conditional THEN "notModified" ELSE "notFound")
  <2>1. IsRefs(Reply(d), 0, 1, 0, 0)
    BY DropClient
  <2>2. IsRefs(drv', 0, 0, 0, 1)
    BY <1>4, <2>1, DropUser
  <2>3. replies' \in Seq(Verdicts) /\ Len(replies') = 1
    <3>1. PICK r \in Verdicts : replies' = Append(replies, r)
      BY <1>4 DEF Verdicts
    <3> QED BY <3>1, Replied DEF TypeInv
  <2>4. TypeInv'
    BY <1>4, <2>3 DEF TypeInv
  <2>5. Nobody' /\ Refs(0, 0, 0, 1)'
    BY <1>2, <1>4, <2>2, <2>3 DEF Nobody, ByLookup, Refs
  <2> QED BY <2>4, <2>5, FreshCounted, EndsFresh DEF Fresh, NoAlarm
<1> QED BY <1>3, <1>4 DEF FilterFetchStart, AddRewriteTask

LEMMA FetchAskFilterStep ==
  ASSUME FetchInv, FetchAskFilter
  PROVE  FetchInv'
PROOF
<1>1. Asked /\ TypeInv
  BY PhaseOfAnswer DEF FetchInv, FetchAskFilter
<1>2. IsRefs(AddUserFacing, 1, 1, 0, 0) /\ Len(replies) = 0
  BY <1>1, AddUser DEF Asked, Refs
<1> QED BY <1>1, <1>2, FilterStart DEF Asked, FetchAskFilter

LEMMA CacheCallbackFindStep ==
  ASSUME FetchInv, CacheCallbackFind
  PROVE  FetchInv'
PROOF
<1>1. Asked /\ TypeInv
  BY PhaseOfAnswer DEF FetchInv, CacheCallbackFind
<1>2. IsRefs(AddUserFacing, 1, 1, 0, 0) /\ Len(replies) = 0
  BY <1>1, AddUser DEF Asked, Refs
<1>3. ByLookup("output")'
  BY <1>1 DEF Asked, ByLookup, CacheCallbackFind
<1>4. TypeInv'
  BY <1>1 DEF TypeInv, CacheCallbackFind
<1>5. Refs(1, 1, 0, 0)'
  BY <1>2 DEF CacheCallbackFind, Refs
<1>6. Looking'
  BY <1>1, <1>3, <1>5 DEF Looking, Asked, Fresh, NoAlarm, CacheCallbackFind
<1> QED BY <1>4, <1>6 DEF FetchInv, Phases

LEMMA CacheCallbackDoneStep ==
  ASSUME FetchInv, CacheCallbackDone
  PROVE  FetchInv'
PROOF
<1>1. Looking /\ ByLookup("output") /\ TypeInv
  BY PhaseOfAnswer DEF FetchInv, CacheCallbackDone
<1>2. Refs(1, 1, 0, 0) /\ Fresh
  BY <1>1 DEF Looking
<1>3. CASE FilterFetchStart(drv)
  BY <1>1, <1>2, <1>3, FilterStart DEF CacheCallbackDone, Refs
<1>4. ASSUME NEW r \in {"rewritten", "notFound"}, FetchCallbackDone(r), tasks' = tasks
      PROVE  FetchInv'
  <2>1. replies' \in Seq(Verdicts) /\ Refs(0, 0, 0, 1)'
    BY <1>1, <1>2, <1>4, CallbackDone DEF Verdicts
  <2>2. TypeInv' /\ Nobody'
    BY <1>1, <1>4, <2>1 DEF TypeInv, Nobody, ByLookup, CacheCallbackDone
  <2> QED BY <1>1, <1>2, <2>1, <2>2, FreshCounted, EndsFresh DEF CacheCallbackDone, Fresh, NoAlarm
<1> QED BY <1>3, <1>4 DEF CacheCallbackDone

---------------------------------------------------------------------------
(* Lookups, and the tasks between them.                                     *)

Idle == loads = 0 /\ rewrite = "none" /\ making = "nobody"

LEMMA FreshKept ==
  ASSUME Fresh, alarm' = alarm, pointer' = pointer, rec' = rec,
         ctx'.detached = ctx.detached, ctx'.started = ctx.started,
         ctx'.fetches = ctx.fetches, ctx'.partitions \in 0..1
  PROVE  Fresh'
BY DEF Fresh, NoAlarm

LEMMA RefsKept ==
  ASSUME NEW c, NEW u, NEW b, NEW r, Refs(c, u, b, r), drv' = drv, replies' = replies
  PROVE  Refs(c, u, b, r)'
BY DEF Refs

(* An answer adds the next task. *)
LEMMA LookupAnswered ==
  ASSUME FetchInv, NEW what \in {"output", "lock", "metadata", "fallback"}, what \in owed,
         owed' = owed \ {what},
         NEW op \in EarlyOps, NEW arg \in Args, tasks' = Append(tasks, Task(op, arg)),
         ctx' \in Contexts, ctx'.detached = ctx.detached, ctx'.started = ctx.started,
         ctx'.fetches = ctx.fetches, ctx'.partitions = ctx.partitions,
         UNCHANGED <<req, loads, rewrite, alarm, pointer, making, rec, drv, replies, fault>>
  PROVE  FetchInv'
PROOF
<1>1. Looking /\ ByLookup(what) /\ TypeInv
  BY PhaseOfAnswer DEF FetchInv
<1>2. tasks \in Seq(Tasks) /\ NumFetch(tasks) = 0 /\ owed' = {} /\ Idle
  BY <1>1 DEF TypeInv, ByLookup, Idle
<1>3. op \in Ops \ {"SequencePortionOfRun"}
  BY DEF EarlyOps, Ops
<1>4. /\ tasks' \in Seq(Tasks) /\ NumFetch(tasks') = 1 /\ NumAlarm(tasks') = NumAlarm(tasks)
      /\ OnlyOps(tasks', EarlyOps)
  BY <1>2, <1>3, OneTask
<1>5. TypeInv'
  BY <1>1, <1>4 DEF TypeInv
<1>6. ByTask(EarlyOps)'
  BY <1>2, <1>4 DEF ByTask, Idle
<1>7. Fresh'
  BY <1>1, FreshKept DEF Looking, Fresh
<1>8. Refs(1, 1, 0, 0)'
  BY <1>1, RefsKept DEF Looking
<1> QED BY <1>5, <1>6, <1>7, <1>8 DEF FetchInv, Phases, Looking

LEMMA LockForCreationDoneStep ==
  ASSUME FetchInv, LockForCreationDone
  PROVE  FetchInv'
PROOF
<1>1. ctx \in Contexts
  BY DEF FetchInv, TypeInv
<1>2. PICK granted \in BOOLEAN : ctx' = [ctx EXCEPT !.lock = granted]
  BY DEF LockForCreationDone
<1>3. /\ ctx' \in Contexts /\ ctx'.detached = ctx.detached /\ ctx'.started = ctx.started
      /\ ctx'.fetches = ctx.fetches /\ ctx'.partitions = ctx.partitions
  BY <1>1, <1>2 DEF Contexts
<1>4. "CallStartFetchImpl" \in EarlyOps /\ "" \in Args
  BY ArgTypes DEF EarlyOps
<1> QED BY <1>3, <1>4, LookupAnswered DEF LockForCreationDone, AddRewriteTask

LEMMA MetadataDoneStep ==
  ASSUME FetchInv, MetadataDone
  PROVE  FetchInv'
PROOF
<1>1. ctx \in Contexts
  BY DEF FetchInv, TypeInv
<1>2. PICK found \in {"nothing", "output", "otherHash", "notOptimizable"} :
        tasks' = Append(tasks, Task(IF req.conditional THEN "FetchNotModifiedCacheDone"
                                                       ELSE "FetchCacheDone", found))
  BY DEF MetadataDone, AddRewriteTask
<1>3. PICK op \in EarlyOps : tasks' = Append(tasks, Task(op, found))
  BY <1>2 DEF EarlyOps
<1>4. found \in Args
  BY ArgTypes
<1> QED BY <1>1, <1>3, <1>4, LookupAnswered DEF MetadataDone

LEMMA FallbackFoundStep ==
  ASSUME FetchInv, FallbackFound
  PROVE  FetchInv'
PROOF
<1>1. ctx \in Contexts
  BY DEF FetchInv, TypeInv
<1>2. PICK hit \in BOOLEAN : tasks' = Append(tasks, Task("FetchFallbackCacheDone", hit))
  BY DEF FallbackFound, AddRewriteTask
<1>3. "FetchFallbackCacheDone" \in EarlyOps /\ hit \in Args
  BY ArgTypes DEF EarlyOps
<1> QED BY <1>1, <1>2, <1>3, LookupAnswered DEF FallbackFound

(* A task of an early phase is the only one of the fetch. *)
LEMMA EarlyTask ==
  ASSUME FetchInv, NEW op \in EarlyOps, AtHead(op)
  PROVE  /\ TypeInv /\ Fresh /\ Refs(1, 1, 0, 0) /\ owed = {} /\ Idle
         /\ Head(tasks) \in Tasks /\ Tail(tasks) \in Seq(Tasks)
         /\ NumFetch(Tail(tasks)) = 0 /\ NumAlarm(Tail(tasks)) = NumAlarm(tasks)
PROOF
<1>1. Looking /\ ByTask(EarlyOps)
  BY PhaseOfTask
<1>2. op # "SequencePortionOfRun"
  BY DEF EarlyOps
<1>3. NumFetch(tasks) = 1
  BY <1>1 DEF ByTask
<1>4. /\ Head(tasks) \in Tasks /\ Tail(tasks) \in Seq(Tasks)
      /\ NumFetch(Tail(tasks)) = 0 /\ NumAlarm(Tail(tasks)) = NumAlarm(tasks)
  BY <1>2, <1>3, PhaseOfTask
<1> QED BY <1>1, <1>4 DEF FetchInv, Looking, ByTask, Idle

(* It asks for something. *)
LEMMA TaskLooksUp ==
  ASSUME FetchInv, NEW op \in EarlyOps, AtHead(op), tasks' = Tail(tasks),
         NEW what \in {"output", "lock", "metadata", "fallback"}, owed' = owed \cup {what},
         ctx' \in Contexts, ctx'.detached = ctx.detached, ctx'.started = ctx.started,
         ctx'.fetches = ctx.fetches, ctx'.partitions \in 0..1,
         UNCHANGED <<req, loads, rewrite, alarm, pointer, making, rec, drv, replies, fault>>
  PROVE  FetchInv'
PROOF
<1>1. /\ TypeInv /\ Fresh /\ Refs(1, 1, 0, 0) /\ owed = {} /\ Idle
      /\ Tail(tasks) \in Seq(Tasks)
      /\ NumFetch(Tail(tasks)) = 0 /\ NumAlarm(Tail(tasks)) = NumAlarm(tasks)
  BY EarlyTask
<1>2. TypeInv'
  BY <1>1 DEF TypeInv
<1>3. ByLookup(what)'
  BY <1>1 DEF ByLookup, Idle
<1>4. Fresh' /\ Refs(1, 1, 0, 0)'
  BY <1>1, FreshKept, RefsKept
<1> QED BY <1>2, <1>3, <1>4 DEF FetchInv, Phases, Looking

(* It is followed by another. *)
LEMMA TaskFollows ==
  ASSUME FetchInv, NEW op \in EarlyOps, AtHead(op),
         tasks' \in Seq(Tasks), NumFetch(tasks') = 1, NumAlarm(tasks') = NumAlarm(tasks),
         OnlyOps(tasks', EarlyOps),
         UNCHANGED <<req, owed, ctx, loads, rewrite, alarm, pointer, making, rec, drv, replies, fault>>
  PROVE  FetchInv'
PROOF
<1>1. TypeInv /\ Fresh /\ Refs(1, 1, 0, 0) /\ owed = {} /\ Idle
  BY EarlyTask
<1>2. TypeInv'
  BY <1>1 DEF TypeInv
<1>3. ByTask(EarlyOps)'
  BY <1>1 DEF ByTask, Idle
<1>4. Fresh' /\ Refs(1, 1, 0, 0)'
  BY <1>1, FreshKept, RefsKept DEF Fresh
<1> QED BY <1>2, <1>3, <1>4 DEF FetchInv, Phases, Looking

(* It answers. *)
LEMMA TaskAnswers ==
  ASSUME FetchInv, NEW op \in EarlyOps, AtHead(op), tasks' = Tail(tasks),
         NEW r \in Verdicts, FetchCallbackDone(r), alarm' = alarm, ~pointer', pointer' \in BOOLEAN,
         ctx' \in Contexts, ctx'.started = ctx.started, ctx'.fetches = ctx.fetches,
         ctx'.partitions \in 0..1, fault' = FALSE,
         UNCHANGED <<req, owed, loads, rewrite, making, rec>>
  PROVE  FetchInv'
PROOF
<1>1. /\ TypeInv /\ Fresh /\ Refs(1, 1, 0, 0) /\ owed = {} /\ Idle
      /\ Tail(tasks) \in Seq(Tasks)
      /\ NumFetch(Tail(tasks)) = 0 /\ NumAlarm(Tail(tasks)) = NumAlarm(tasks)
  BY EarlyTask
<1>2. replies' \in Seq(Verdicts) /\ Refs(0, 0, 0, 1)'
  BY <1>1, CallbackDone
<1>3. TypeInv'
  BY <1>1, <1>2 DEF TypeInv
<1>4. Nobody'
  BY <1>1 DEF Nobody, Idle
<1> QED BY <1>1, <1>2, <1>3, <1>4, EndsFresh

LEMMA EarlyTasksStep ==
  ASSUME FetchInv, \/ CancelFetch \/ StartFetch \/ CallStartFetchImpl \/ StartFetchImpl
                   \/ FetchNotModifiedCacheDone \/ FetchCacheDoneReplies \/ FetchTryFallback
                   \/ FetchFallbackCacheDone
  PROVE  FetchInv'
PROOF
<1>0. /\ ctx \in Contexts /\ fault = FALSE /\ pointer \in BOOLEAN
      /\ \A op \in {"StartFetch", "CallStartFetchImpl", "StartFetchImpl", "FetchCacheDone",
                    "FetchNotModifiedCacheDone", "FetchFallbackCacheDone"} : op \in EarlyOps
  BY DEF FetchInv, TypeInv, EarlyOps
<1> DEFINE C == [ctx EXCEPT !.partitions = 1]
<1>1. /\ C \in Contexts /\ C.detached = ctx.detached /\ C.started = ctx.started
      /\ C.fetches = ctx.fetches /\ C.partitions \in 0..1
  BY <1>0 DEF Contexts
<1> HIDE DEF C
<1>2. ASSUME NEW op \in EarlyOps, AtHead(op)
      PROVE  ~pointer /\ ctx.partitions \in 0..1 /\ ~ctx.detached /\ owed = {}
  BY <1>2, EarlyTask DEF Fresh, NoAlarm
<1>3. CASE CancelFetch
  <2>1. PICK r \in Verdicts : FetchCallbackDone(r)
    BY <1>3 DEF CancelFetch, Verdicts
  <2> QED BY <1>0, <1>2, <1>3, <2>1, TaskAnswers DEF CancelFetch
<1>4. CASE StartFetch
  <2>1. CASE LocksFirst
    BY <1>0, <1>2, <1>4, <2>1, TaskLooksUp DEF StartFetch
  <2>2. CASE ~LocksFirst
    <3>1. tasks' = <<Task("StartFetchImpl", "")>> \o Tail(tasks) /\ owed' = owed
      BY <1>4, <2>2 DEF StartFetch
    <3>2. /\ Tail(tasks) \in Seq(Tasks) /\ NumFetch(Tail(tasks)) = 0
          /\ NumAlarm(Tail(tasks)) = NumAlarm(tasks)
      BY <1>0, <1>4, EarlyTask DEF StartFetch
    <3>3. "StartFetchImpl" \in Ops /\ "" \in Args
      BY ArgTypes DEF Ops
    <3> DEFINE T == Task("StartFetchImpl", "")
    <3>4. T \in Tasks /\ T.op = "StartFetchImpl"
      BY <3>3, TaskType
    <3> HIDE DEF T
    <3>5. OnlyOps(Tail(tasks), EarlyOps)
      BY <3>2, NoTaskNoOps
    <3>6. /\ tasks' \in Seq(Tasks) /\ NumFetch(tasks') = NumFetch(Tail(tasks)) + 1
          /\ NumAlarm(tasks') = NumAlarm(Tail(tasks)) /\ OnlyOps(tasks', EarlyOps)
      BY <1>0, <3>1, <3>2, <3>4, <3>5, TaskInFront DEF T
    <3>7. NumFetch(tasks') = 1 /\ NumAlarm(tasks') = NumAlarm(tasks)
      BY <3>2, <3>6
    <3> QED BY <1>0, <1>4, <3>1, <3>6, <3>7, TaskFollows DEF StartFetch
  <2> QED BY <2>1, <2>2
<1>5. CASE CallStartFetchImpl
  <2>1. tasks' = Append(Tail(tasks), Task("StartFetchImpl", ""))
    BY <1>5 DEF CallStartFetchImpl
  <2>2. /\ Tail(tasks) \in Seq(Tasks) /\ NumFetch(Tail(tasks)) = 0
        /\ NumAlarm(Tail(tasks)) = NumAlarm(tasks)
    BY <1>0, <1>5, EarlyTask DEF CallStartFetchImpl
  <2>3. "StartFetchImpl" \in Ops \ {"SequencePortionOfRun"} /\ "" \in Args
    BY ArgTypes DEF Ops
  <2>4. /\ tasks' \in Seq(Tasks) /\ NumFetch(tasks') = 1
        /\ NumAlarm(tasks') = NumAlarm(tasks) /\ OnlyOps(tasks', EarlyOps)
    BY <1>0, <2>1, <2>2, <2>3, OneTask
  <2> QED BY <1>0, <1>5, <2>4, TaskFollows DEF CallStartFetchImpl
<1>6. CASE StartFetchImpl
  BY <1>0, <1>2, <1>6, TaskLooksUp DEF StartFetchImpl
<1>7. CASE FetchNotModifiedCacheDone
  BY <1>0, <1>2, <1>7, TaskAnswers DEF FetchNotModifiedCacheDone, Verdicts
<1>8. CASE FetchCacheDoneReplies
  <2>1. PICK r \in Verdicts : FetchCallbackDone(r)
    BY <1>8 DEF FetchCacheDoneReplies, Verdicts
  <2>2. /\ ctx' = C /\ AtHead("FetchCacheDone") /\ tasks' = Tail(tasks)
        /\ UNCHANGED <<req, owed, loads, rewrite, alarm, pointer, making, rec, fault>>
    BY <1>8 DEF FetchCacheDoneReplies, C
  <2> QED BY <1>0, <1>1, <1>2, <2>1, <2>2, TaskAnswers
<1>9. CASE FetchTryFallback
  <2>1. /\ ctx' = C /\ AtHead("FetchCacheDone") /\ tasks' = Tail(tasks)
        /\ owed' = owed \cup {"fallback"}
        /\ UNCHANGED <<req, loads, rewrite, alarm, pointer, making, rec, drv, replies, fault>>
    BY <1>9 DEF FetchTryFallback, C
  <2> QED BY <1>0, <1>1, <2>1, TaskLooksUp
<1>10. CASE FetchFallbackCacheDone
  <2>1. ~pointer /\ ctx.partitions \in 0..1 /\ ~ctx.detached
    BY <1>0, <1>2, <1>10 DEF FetchFallbackCacheDone
  <2>2. alarm' = alarm /\ pointer' = FALSE /\ fault' = FALSE
    BY <1>10, <2>1 DEF FetchFallbackCacheDone, CancelDeadlineAlarm, Dangling
  <2>3. PICK r \in Verdicts : FetchCallbackDone(r)
    BY <1>10, <2>1 DEF FetchFallbackCacheDone, FetchFallbackDone, Verdicts
  <2> QED BY <1>0, <1>10, <2>1, <2>2, <2>3, TaskAnswers DEF FetchFallbackCacheDone
<1> QED BY <1>3, <1>4, <1>5, <1>6, <1>7, <1>8, <1>9, <1>10

---------------------------------------------------------------------------
(* The rewrite begins.                                                      *)

(* Inputs are complete, nobody else carries the fetch, and c has become the *)
(* context: the alarm is made, or the rewrite goes to one of the sequences. *)
LEMMA RewriteStarts ==
  ASSUME TypeInv, NoAlarm, owed = {}, rewrite = "none", making = "nobody",
         NEW c \in Contexts, c.fetches = 0, c.started \in 0..req.inputs, c.partitions = 0,
         NEW queue \in Seq(Tasks), NumFetch(queue) = 0, NumAlarm(queue) = NumAlarm(tasks),
         NEW who, SetupDeadlineAlarm(c) => who = "sequence",
         StartRewriteForFetch(c, queue, who),
         owed' = owed, loads' = 0, pointer' = pointer, req' = req, fault' = FALSE,
         rec' \in [at : {"none", "headers", "body", "loading", "loaded", "gone"},
                   can : BOOLEAN, streaming : BOOLEAN],
         replies' \in Seq(Verdicts),
         \/ ~c.detached /\ HoldsNothing' /\ Refs(1, 1, 0, 0)'
         \/ c.detached /\ rec'.at = "loaded" /\ rec'.streaming /\ Refs(0, 1, 1, 0)'
  PROVE  FetchInv'
PROOF
<1>1. ctx' = [c EXCEPT !.partitions = @ + 1]
  BY DEF StartRewriteForFetch
<1>2. /\ ctx' \in Contexts /\ ctx'.started = c.started /\ ctx'.fetches = 0
      /\ ctx'.partitions = 1 /\ ctx'.detached = c.detached
  BY <1>1 DEF Contexts
<1>3. Counted'
  BY <1>2 DEF Counted
<1>4. CASE /\ tasks' = queue /\ SetupDeadlineAlarm(c)
           /\ alarm' = [alarm EXCEPT !.state = "armed"]
           /\ making' = who /\ rewrite' = rewrite
  <2>1. /\ alarm' \in [state : {"none", "armed", "popped", "queued", "deleted"}, canceled : BOOLEAN]
        /\ alarm'.state = "armed" /\ ~alarm'.canceled /\ alarm.state = "none"
    BY <1>4 DEF TypeInv, NoAlarm
  <2>2. TypeInv'
    BY <1>2, <1>4, <2>1 DEF TypeInv
  <2>3. Making'
    BY <1>2, <1>3, <1>4, <2>1 DEF Making, SetupDeadlineAlarm, Pending, NoAlarm
  <2> QED BY <2>2, <2>3 DEF FetchInv, Phases
<1>5. ASSUME UNCHANGED <<alarm, making>>,
             tasks' \in Seq(Tasks), NumAlarm(tasks') = NumAlarm(tasks),
             rewrite' \in {"none", "queued"},
             ByRewrite' \/ ByTask({"Rewrite", "RewriteDoneImpl"})'
      PROVE  FetchInv'
  <2>1. TypeInv'
    BY <1>2, <1>5 DEF TypeInv
  <2>2. NoAlarm'
    BY <1>5 DEF NoAlarm
  <2>3. Rewriting'
    BY <1>2, <1>3, <1>5, <2>2 DEF Rewriting
  <2> QED BY <2>1, <2>3 DEF FetchInv, Phases
<1>6. CASE tasks' = queue /\ rewrite' = "queued" /\ UNCHANGED <<alarm, making>>
  BY <1>5, <1>6 DEF ByRewrite
<1>7. ASSUME NEW op \in {"Rewrite", "RewriteDoneImpl"}, NEW arg \in Args,
             tasks' = Append(queue, Task(op, arg)), UNCHANGED <<rewrite, alarm, making>>
      PROVE  FetchInv'
  <2>1. op \in Ops \ {"SequencePortionOfRun"}
    BY DEF Ops
  <2>2. /\ tasks' \in Seq(Tasks) /\ NumFetch(tasks') = 1 /\ NumAlarm(tasks') = NumAlarm(tasks)
        /\ OnlyOps(tasks', {"Rewrite", "RewriteDoneImpl"})
    BY <1>7, <2>1, OneTask
  <2> QED BY <1>5, <1>7, <2>2 DEF ByTask
<1>8. "" \in Args /\ "kRewriteFailed" \in Args
  BY ArgTypes
<1> QED BY <1>4, <1>6, <1>7, <1>8 DEF StartRewriteForFetch

LEMMA MinOfTwo ==
  ASSUME NEW a \in Int, NEW b \in Int
  PROVE  Min({a, b}) \in {a, b} /\ Min({a, b}) <= a /\ Min({a, b}) <= b
PROOF
<1>1. \E x \in {a, b} : \A y \in {a, b} : x <= y
  OBVIOUS
<1> QED BY <1>1 DEF Min

(* Loads are started, or the rewrite once none is left. *)
LEMMA InputsFetched ==
  ASSUME TypeInv, NoAlarm, owed = {}, rewrite = "none", making = "nobody",
         rec.at = "none", ~req.inPlace, Refs(1, 1, 0, 0),
         NEW c \in Contexts, ~c.detached, c.partitions = 0,
         c.fetches \in 0..MaxConcurrentFetchInputs, c.started \in 0..req.inputs,
         NEW queue \in Seq(Tasks), NumAlarm(queue) = NumAlarm(tasks),
         OnlyOps(queue, {"ResourceFetchDone"}), loads + NumFetch(queue) = c.fetches,
         FetchInputs(c, queue),
         UNCHANGED <<req, owed, pointer, rec, drv, replies, fault>>
  PROVE  FetchInv'
PROOF
<1> DEFINE n == IF c.tooBig THEN 0
                ELSE Min({req.inputs - c.started, MaxConcurrentFetchInputs - c.fetches})
           d == [c EXCEPT !.started = @ + n, !.fetches = @ + n]
<1>1. /\ req.inputs \in Nat /\ MaxConcurrentFetchInputs \in Nat
      /\ c.started \in Int /\ c.fetches \in Int /\ loads \in Nat
  BY RequestsAssumption DEF TypeInv, RequestType, Contexts
<1>2. n \in Nat /\ c.started + n \in 0..req.inputs /\ c.fetches + n \in 0..MaxConcurrentFetchInputs
  <2> DEFINE A == req.inputs - c.started
             B == MaxConcurrentFetchInputs - c.fetches
  <2>1. A \in Nat /\ B \in Nat
    BY <1>1
  <2>2. n = 0 \/ n = Min({A, B})
    OBVIOUS
  <2> HIDE DEF A, B, n
  <2>3. Min({A, B}) \in {A, B} /\ Min({A, B}) <= A /\ Min({A, B}) <= B
    <3>1. A \in Int /\ B \in Int
      BY <2>1
    <3> QED BY <3>1, MinOfTwo, Zenon
  <2>4. n \in Nat /\ n <= A /\ n <= B
    BY <2>1, <2>2, <2>3
  <2> QED BY <1>1, <2>4 DEF A, B
<1>3. /\ loads' = loads + n
      /\ IF d.fetches = 0 THEN StartRewriteForFetch(d, queue, "sequence")
         ELSE ctx' = d /\ tasks' = queue /\ UNCHANGED <<rewrite, alarm, making>>
  BY DEF FetchInputs
<1> HIDE DEF n
<1>4. /\ d \in Contexts /\ d.started = c.started + n /\ d.fetches = c.fetches + n
      /\ ~d.detached /\ d.partitions = 0
  <2> DEFINE S == c.started + n
             F == c.fetches + n
  <2>1. S \in Int /\ F \in Int /\ d = [c EXCEPT !.started = S, !.fetches = F]
    BY <1>1, <1>2 DEF Contexts
  <2> HIDE DEF S, F, d
  <2>2. /\ d \in Contexts /\ d.started = S /\ d.fetches = F
        /\ ~d.detached /\ d.partitions = 0
    BY <2>1 DEF Contexts
  <2> QED BY <2>2 DEF S, F
<1> HIDE DEF d
<1>5. NumFetch(queue) \in Nat
  BY TasksFinite
<1>6. Refs(1, 1, 0, 0)'
  BY RefsKept
<1>7. CASE d.fetches = 0
  <2>1. loads' = 0 /\ NumFetch(queue) = 0
    BY <1>1, <1>2, <1>3, <1>4, <1>5, <1>7
  <2>2. /\ HoldsNothing' /\ replies' \in Seq(Verdicts) /\ fault' = FALSE
        /\ rec' \in [at : {"none", "headers", "body", "loading", "loaded", "gone"},
                     can : BOOLEAN, streaming : BOOLEAN]
    BY DEF HoldsNothing, TypeInv
  <2> QED BY <1>2, <1>3, <1>4, <1>6, <1>7, <2>1, <2>2, RewriteStarts
<1>8. CASE d.fetches # 0
  <2>1. ctx' = d /\ tasks' = queue /\ UNCHANGED <<rewrite, alarm, making>>
    BY <1>3, <1>8
  <2>2. loads' \in Nat /\ loads' + NumFetch(queue) = d.fetches
    BY <1>1, <1>2, <1>3, <1>4, <1>5
  <2>3. TypeInv'
    BY <1>4, <2>1, <2>2 DEF TypeInv
  <2>4. d.fetches \in 1..MaxConcurrentFetchInputs
    BY <1>1, <1>2, <1>4, <1>8
  <2>5. Loading'
    BY <1>2, <1>4, <1>6, <2>1, <2>2, <2>4 DEF Loading, NoAlarm
  <2> QED BY <2>3, <2>5 DEF FetchInv, Phases
<1> QED BY <1>7, <1>8

(* StartFetchReconstruction is reached from early tasks. *)
LEMMA ReconstructsEarly ==
  ASSUME FetchInv, Reconstructs
  PROVE  /\ TypeInv /\ Fresh /\ Refs(1, 1, 0, 0) /\ owed = {} /\ Idle
         /\ Tail(tasks) \in Seq(Tasks)
         /\ NumFetch(Tail(tasks)) = 0 /\ NumAlarm(Tail(tasks)) = NumAlarm(tasks)
PROOF
<1>1. PICK op \in EarlyOps : AtHead(op)
  BY DEF Reconstructs, EarlyOps
<1> QED BY <1>1, EarlyTask

LEMMA StartFetchReconstructionStep ==
  ASSUME FetchInv, StartFetchReconstruction
  PROVE  FetchInv'
PROOF
<1>1. /\ TypeInv /\ Fresh /\ Refs(1, 1, 0, 0) /\ owed = {} /\ Idle
      /\ Tail(tasks) \in Seq(Tasks)
      /\ NumFetch(Tail(tasks)) = 0 /\ NumAlarm(Tail(tasks)) = NumAlarm(tasks)
  BY ReconstructsEarly DEF StartFetchReconstruction
<1> DEFINE c == [ctx EXCEPT !.partitions = 0]
<1>2. /\ c \in Contexts /\ ~c.detached /\ c.partitions = 0 /\ c.fetches = 0 /\ c.started = 0
  BY <1>1 DEF TypeInv, Fresh, Contexts
<1>3. /\ c.fetches \in 0..MaxConcurrentFetchInputs /\ c.started \in 0..req.inputs
  BY <1>1, <1>2, RequestsAssumption DEF TypeInv, RequestType
<1>4. FetchInputs(c, Tail(tasks))
  BY DEF StartFetchReconstruction
<1> HIDE DEF c
<1>5. OnlyOps(Tail(tasks), {"ResourceFetchDone"})
  BY <1>1, NoTaskNoOps
<1>6. loads + NumFetch(Tail(tasks)) = c.fetches
  BY <1>1, <1>2 DEF Idle
<1>7. NoAlarm /\ rec.at = "none" /\ rewrite = "none" /\ making = "nobody"
  BY <1>1 DEF Fresh, Idle
<1> QED BY <1>1, <1>2, <1>3, <1>4, <1>5, <1>6, <1>7, InputsFetched DEF StartFetchReconstruction

LEMMA LoadDoneStep ==
  ASSUME FetchInv, LoadDone
  PROVE  FetchInv'
PROOF
<1>1. Loading /\ TypeInv
  BY PhaseOfAnswer DEF FetchInv, LoadDone
<1>2. PICK a \in [success : BOOLEAN, tooBig : BOOLEAN] :
        tasks' = Append(tasks, Task("ResourceFetchDone", a))
  BY DEF LoadDone, AddRewriteTask
<1> DEFINE T == Task("ResourceFetchDone", a)
<1>3. "ResourceFetchDone" \in Ops /\ a \in Args
  BY ArgTypes DEF Ops
<1>4. T \in Tasks /\ T.op = "ResourceFetchDone"
  BY <1>3, TaskType
<1> HIDE DEF T
<1>5. /\ tasks' \in Seq(Tasks) /\ NumFetch(tasks') = NumFetch(tasks) + 1
      /\ NumAlarm(tasks') = NumAlarm(tasks) /\ OnlyOps(tasks', {"ResourceFetchDone"})
  BY <1>1, <1>2, <1>4, TaskAppended DEF TypeInv, Loading, T
<1>6. NumFetch(tasks) \in Nat /\ loads \in Nat /\ loads > 0 /\ loads' = loads - 1
  BY <1>1, TasksFinite DEF TypeInv, LoadDone
<1>7. TypeInv'
  BY <1>1, <1>5, <1>6 DEF TypeInv, LoadDone
<1>8. Refs(1, 1, 0, 0)'
  BY <1>1, RefsKept DEF Loading, LoadDone
<1>9. loads' + NumFetch(tasks') = ctx.fetches
  BY <1>1, <1>5, <1>6 DEF Loading
<1>10. Loading'
  BY <1>1, <1>5, <1>8, <1>9 DEF Loading, LoadDone, NoAlarm
<1> QED BY <1>7, <1>10 DEF FetchInv, Phases

LEMMA ResourceFetchDoneStep ==
  ASSUME FetchInv, ResourceFetchDone
  PROVE  FetchInv'
PROOF
<1>1. AtHead("ResourceFetchDone") /\ Loading /\ TypeInv
  BY PhaseOfTask DEF FetchInv, ResourceFetchDone
<1>2. /\ Tail(tasks) \in Seq(Tasks) /\ NumAlarm(Tail(tasks)) = NumAlarm(tasks)
      /\ NumFetch(Tail(tasks)) = NumFetch(tasks) - 1 /\ NumFetch(tasks) > 0
      /\ OnlyOps(Tail(tasks), {"ResourceFetchDone"})
  BY <1>1, PhaseOfTask DEF Loading
<1> DEFINE c == [ctx EXCEPT !.fetches = @ - 1, !.ok = @ /\ Argument.success,
                            !.tooBig = @ \/ Argument.tooBig]
<1>3. /\ c \in Contexts /\ c.fetches = ctx.fetches - 1 /\ c.started = ctx.started
      /\ ~c.detached /\ c.partitions = 0
  <2> DEFINE F == ctx.fetches - 1
             K == ctx.ok /\ Argument.success
             B == ctx.tooBig \/ Argument.tooBig
  <2>1. ctx \in Contexts /\ ~ctx.detached /\ ctx.partitions = 0
    BY <1>1 DEF TypeInv, Loading
  <2>2. F \in Int /\ K \in BOOLEAN /\ B \in BOOLEAN
    BY <2>1 DEF Contexts
  <2>3. c = [ctx EXCEPT !.fetches = F, !.ok = K, !.tooBig = B]
    BY <2>1 DEF Contexts
  <2> HIDE DEF F, K, B, c
  <2>4. /\ c \in Contexts /\ c.fetches = F /\ c.started = ctx.started
        /\ ~c.detached /\ c.partitions = 0
    BY <2>1, <2>2, <2>3 DEF Contexts
  <2> QED BY <2>4 DEF F
<1>4. FetchInputs(c, Tail(tasks))
  BY DEF ResourceFetchDone
<1> HIDE DEF c
<1>5. /\ c.fetches \in 0..MaxConcurrentFetchInputs /\ c.started \in 0..req.inputs
      /\ loads + NumFetch(Tail(tasks)) = c.fetches
  <2>1. NumFetch(tasks) \in Nat /\ loads \in Nat /\ MaxConcurrentFetchInputs \in Nat
    BY <1>1, TasksFinite, RequestsAssumption DEF TypeInv
  <2> QED BY <1>1, <1>2, <1>3, <2>1 DEF Loading
<1> QED BY <1>1, <1>2, <1>3, <1>4, <1>5, InputsFetched DEF Loading, ResourceFetchDone

---------------------------------------------------------------------------
(* In-place resources.                                                      *)

LEMMA ReconstructionInPlaceStep ==
  ASSUME FetchInv, StartFetchReconstructionInPlace
  PROVE  FetchInv'
PROOF
<1>1. /\ TypeInv /\ Fresh /\ Refs(1, 1, 0, 0) /\ owed = {} /\ Idle
      /\ Tail(tasks) \in Seq(Tasks)
      /\ NumFetch(Tail(tasks)) = 0 /\ NumAlarm(Tail(tasks)) = NumAlarm(tasks)
  BY ReconstructsEarly DEF StartFetchReconstructionInPlace
<1>2. /\ rec'.at = "headers"
      /\ rec' \in [at : {"none", "headers", "body", "loading", "loaded", "gone"},
                   can : BOOLEAN, streaming : BOOLEAN]
  BY <1>1 DEF StartFetchReconstructionInPlace, TypeInv
<1>3. TypeInv'
  BY <1>1, <1>2 DEF StartFetchReconstructionInPlace, TypeInv
<1>4. Refs(1, 1, 0, 0)' /\ Nobody'
  BY <1>1, RefsKept DEF StartFetchReconstructionInPlace, Nobody, Idle
<1>5. Recording'
  BY <1>1, <1>2, <1>4 DEF StartFetchReconstructionInPlace, Recording, Fresh, NoAlarm
<1> QED BY <1>3, <1>5 DEF FetchInv, Phases

(* What the callbacks of a RecordingFetch leave alone. *)
RecorderOnly ==
  UNCHANGED <<req, tasks, owed, loads, ctx, rewrite, alarm, pointer, making, fault>>

LEMMA RecorderStays ==
  ASSUME TypeInv, Recording, RecorderOnly,
         rec' \in [at : {"body", "loading"}, can : BOOLEAN, streaming : BOOLEAN],
         replies' \in Seq(Verdicts),
         rec'.at = "body" /\ rec'.can => Refs(1, 1, 0, 0)' /\ rec'.streaming = ~req.waits,
         rec'.at = "body" /\ ~rec'.can /\ rec'.streaming => Refs(1, 0, 0, 0)',
         rec'.at = "body" /\ ~rec'.can /\ ~rec'.streaming => Refs(0, 0, 0, 1)',
         rec'.at = "loading" => rec'.streaming = ~req.waits,
         rec'.at = "loading" /\ rec'.streaming => Refs(0, 1, 0, 0)',
         rec'.at = "loading" /\ ~rec'.streaming => Refs(1, 1, 0, 0)'
  PROVE  FetchInv'
PROOF
<1>1. rec'.at \in {"body", "loading"}
  OBVIOUS
<1>2. TypeInv'
  BY DEF TypeInv, RecorderOnly
<1>3. Nobody' /\ NoAlarm'
  BY DEF Recording, Nobody, NoAlarm, RecorderOnly
<1>4. Recording'
  BY <1>1, <1>3 DEF Recording, RecorderOnly
<1> QED BY <1>2, <1>4 DEF FetchInv, Phases

LEMMA RecorderEnds ==
  ASSUME TypeInv, Recording, RecorderOnly, rec' = [rec EXCEPT !.at = "gone"],
         replies' \in Seq(Verdicts), Refs(0, 0, 0, 1)'
  PROVE  FetchInv'
PROOF
<1>1. /\ rec'.at = "gone"
      /\ rec' \in [at : {"none", "headers", "body", "loading", "loaded", "gone"},
                   can : BOOLEAN, streaming : BOOLEAN]
  BY DEF TypeInv
<1>2. TypeInv'
  BY <1>1 DEF TypeInv, RecorderOnly
<1>3. ctx.started \in 0..req.inputs
  BY RequestsAssumption DEF Recording, TypeInv, RequestType
<1>4. Ended'
  BY <1>1, <1>3 DEF Recording, RecorderOnly, Ended, Nobody, NoAlarm, HoldsNothing
<1> QED BY <1>2, <1>4 DEF FetchInv, Phases

(* One more reply of a client that still has the driver. *)
LEMMA RepliedRefs ==
  ASSUME TypeInv, NEW r \in Verdicts, NEW u \in {0, 1}, Refs(1, u, 0, 0),
         drv' = Reply(drv), replies' = Append(replies, r)
  PROVE  /\ replies' \in Seq(Verdicts)
         /\ u = 0 => Refs(0, 0, 0, 1)'
         /\ u = 1 => Refs(0, 1, 0, 0)'
PROOF
<1>1. replies' \in Seq(Verdicts) /\ Len(replies') = 1
  BY Replied DEF TypeInv, Refs
<1>2. /\ u = 0 => IsRefs(drv', 0, 0, 0, 1)
      /\ u = 1 => IsRefs(drv', 0, 1, 0, 0)
  BY DropClient DEF Refs
<1> QED BY <1>1, <1>2 DEF Refs

LEMMA HandleHeadersCompleteStep ==
  ASSUME FetchInv, HandleHeadersComplete
  PROVE  FetchInv'
PROOF
<1>1. Recording /\ TypeInv /\ Refs(1, 1, 0, 0)
  BY PhaseOfAnswer DEF FetchInv, HandleHeadersComplete, Recording
<1>2. PICK can \in BOOLEAN :
        /\ rec' = [at |-> "body", can |-> can,
                   streaming |-> IF can THEN ~req.waits ELSE req.proxy]
        /\ IF can THEN UNCHANGED <<drv, replies>>
           ELSE IF req.proxy
           THEN drv' = DropReference(drv, "user") /\ UNCHANGED replies
           ELSE FetchCallbackDone("declined")
  BY DEF HandleHeadersComplete
<1>3. req.waits \in BOOLEAN /\ req.proxy \in BOOLEAN
  BY <1>1, RequestsAssumption DEF TypeInv, RequestType
<1>4. RecorderOnly
  BY DEF HandleHeadersComplete, RecorderOnly
<1>5. CASE can
  <2>1. rec' = [at |-> "body", can |-> TRUE, streaming |-> ~req.waits]
    BY <1>2, <1>5
  <2>2. Refs(1, 1, 0, 0)' /\ replies' \in Seq(Verdicts)
    BY <1>1, <1>2, <1>5, RefsKept DEF TypeInv
  <2>3. /\ rec' \in [at : {"body", "loading"}, can : BOOLEAN, streaming : BOOLEAN]
        /\ rec'.at = "body" /\ rec'.can /\ rec'.streaming = ~req.waits
    BY <1>3, <2>1
  <2> QED BY <1>1, <1>4, <2>2, <2>3, RecorderStays
<1>6. CASE ~can /\ req.proxy
  <2>1. rec' = [at |-> "body", can |-> FALSE, streaming |-> TRUE]
    BY <1>2, <1>3, <1>6
  <2>2. IsRefs(drv', 1, 0, 0, 0) /\ replies' = replies
    BY <1>1, <1>2, <1>6, DropUser DEF Refs
  <2>3. Refs(1, 0, 0, 0)' /\ replies' \in Seq(Verdicts)
    BY <1>1, <2>2 DEF Refs, TypeInv
  <2>4. /\ rec' \in [at : {"body", "loading"}, can : BOOLEAN, streaming : BOOLEAN]
        /\ rec'.at = "body" /\ ~rec'.can /\ rec'.streaming
    BY <2>1
  <2> QED BY <1>1, <1>4, <2>3, <2>4, RecorderStays
<1>7. CASE ~can /\ ~req.proxy
  <2>1. rec' = [at |-> "body", can |-> FALSE, streaming |-> FALSE]
    BY <1>2, <1>3, <1>7
  <2>2. Refs(0, 0, 0, 1)' /\ replies' \in Seq(Verdicts)
    BY <1>1, <1>2, <1>7, CallbackDone DEF Verdicts
  <2>3. /\ rec' \in [at : {"body", "loading"}, can : BOOLEAN, streaming : BOOLEAN]
        /\ rec'.at = "body" /\ ~rec'.can /\ ~rec'.streaming
    BY <2>1
  <2> QED BY <1>1, <1>4, <2>2, <2>3, RecorderStays
<1> QED BY <1>5, <1>6, <1>7

LEMMA HandleWriteTooBigStep ==
  ASSUME FetchInv, HandleWriteTooBig
  PROVE  FetchInv'
PROOF
<1>1. Recording /\ TypeInv /\ Refs(1, 1, 0, 0)
  BY PhaseOfAnswer DEF FetchInv, HandleWriteTooBig, Recording
<1>2. RecorderOnly /\ replies' = replies
  BY DEF HandleWriteTooBig, RecorderOnly
<1>3. /\ rec' \in [at : {"body", "loading"}, can : BOOLEAN, streaming : BOOLEAN]
      /\ rec'.at = "body" /\ ~rec'.can /\ rec'.streaming
  BY <1>1 DEF HandleWriteTooBig, TypeInv
<1>4. IsRefs(drv', 1, 0, 0, 0)
  BY <1>1, DropUser DEF HandleWriteTooBig, Refs
<1>5. Refs(1, 0, 0, 0)' /\ replies' \in Seq(Verdicts)
  BY <1>1, <1>2, <1>4 DEF Refs, TypeInv
<1> QED BY <1>1, <1>2, <1>3, <1>5, RecorderStays

LEMMA HandleDoneFailedStep ==
  ASSUME FetchInv, HandleDoneFailed
  PROVE  FetchInv'
PROOF
<1>1. Recording /\ TypeInv
  BY PhaseOfAnswer DEF FetchInv, HandleDoneFailed
<1>2. RecorderOnly /\ rec' = [rec EXCEPT !.at = "gone"] /\ rec.at = "body"
  BY DEF HandleDoneFailed, RecorderOnly
<1>3. CASE rec.can
  <2>1. Refs(1, 1, 0, 0) /\ FetchCallbackDone("failed")
    BY <1>1, <1>2, <1>3 DEF HandleDoneFailed, Recording
  <2>2. Refs(0, 0, 0, 1)' /\ replies' \in Seq(Verdicts)
    BY <1>1, <2>1, CallbackDone DEF Verdicts
  <2> QED BY <1>1, <1>2, <2>2, RecorderEnds
<1>4. CASE ~rec.can /\ rec.streaming
  <2>1. Refs(1, 0, 0, 0) /\ drv' = Reply(drv) /\ replies' = Append(replies, "failed")
    BY <1>1, <1>2, <1>4 DEF HandleDoneFailed, Recording
  <2>2. Refs(0, 0, 0, 1)' /\ replies' \in Seq(Verdicts)
    BY <1>1, <2>1, RepliedRefs DEF Verdicts
  <2> QED BY <1>1, <1>2, <2>2, RecorderEnds
<1>5. CASE ~rec.can /\ ~rec.streaming
  <2>1. Refs(0, 0, 0, 1) /\ drv' = drv /\ replies' = replies
    BY <1>1, <1>2, <1>5 DEF HandleDoneFailed, Recording
  <2>2. Refs(0, 0, 0, 1)' /\ replies' \in Seq(Verdicts)
    BY <1>1, <2>1, RefsKept DEF TypeInv
  <2> QED BY <1>1, <1>2, <2>2, RecorderEnds
<1> QED BY <1>3, <1>4, <1>5

LEMMA HandleDoneOkStep ==
  ASSUME FetchInv, HandleDoneOk
  PROVE  FetchInv'
PROOF
<1>1. Recording /\ TypeInv
  BY PhaseOfAnswer DEF FetchInv, HandleDoneOk
<1>2. /\ RecorderOnly /\ rec.at = "body"
      /\ rec \in [at : {"none", "headers", "body", "loading", "loaded", "gone"},
                  can : BOOLEAN, streaming : BOOLEAN]
  BY <1>1 DEF HandleDoneOk, RecorderOnly, TypeInv
<1>3. CASE ~rec.can
  <2>1. rec' = [rec EXCEPT !.at = "gone"]
    BY <1>3 DEF HandleDoneOk
  <2>2. CASE rec.streaming
    <3>1. Refs(1, 0, 0, 0) /\ drv' = Reply(drv) /\ replies' = Append(replies, "recorded")
      BY <1>1, <1>2, <1>3, <2>2 DEF HandleDoneOk, Recording
    <3>2. Refs(0, 0, 0, 1)' /\ replies' \in Seq(Verdicts)
      BY <1>1, <3>1, RepliedRefs DEF Verdicts
    <3> QED BY <1>1, <1>2, <2>1, <3>2, RecorderEnds
  <2>3. CASE ~rec.streaming
    <3>1. Refs(0, 0, 0, 1) /\ drv' = drv /\ replies' = replies
      BY <1>1, <1>2, <1>3, <2>3 DEF HandleDoneOk, Recording
    <3>2. Refs(0, 0, 0, 1)' /\ replies' \in Seq(Verdicts)
      BY <1>1, <3>1, RefsKept DEF TypeInv
    <3> QED BY <1>1, <1>2, <2>1, <3>2, RecorderEnds
  <2> QED BY <2>2, <2>3
<1>4. CASE rec.can
  <2>1. rec' = [rec EXCEPT !.at = "loading"]
    BY <1>4 DEF HandleDoneOk
  <2>2. /\ rec' \in [at : {"body", "loading"}, can : BOOLEAN, streaming : BOOLEAN]
        /\ rec'.at = "loading" /\ rec'.streaming = rec.streaming
    BY <1>2, <2>1
  <2>3. Refs(1, 1, 0, 0) /\ rec.streaming = ~req.waits
    BY <1>1, <1>2, <1>4 DEF Recording
  <2>4. CASE rec.streaming
    <3>1. drv' = Reply(drv) /\ replies' = Append(replies, "recorded")
      BY <2>4 DEF HandleDoneOk
    <3>2. Refs(0, 1, 0, 0)' /\ replies' \in Seq(Verdicts)
      BY <1>1, <2>3, <3>1, RepliedRefs DEF Verdicts
    <3> QED BY <1>1, <1>2, <2>2, <2>3, <2>4, <3>2, RecorderStays
  <2>5. CASE ~rec.streaming
    <3>1. drv' = drv /\ replies' = replies
      BY <2>5 DEF HandleDoneOk
    <3>2. Refs(1, 1, 0, 0)' /\ replies' \in Seq(Verdicts)
      BY <1>1, <2>3, <3>1, RefsKept DEF TypeInv
    <3> QED BY <1>1, <1>2, <2>2, <2>3, <2>5, <3>2, RecorderStays
  <2> QED BY <2>4, <2>5
<1> QED BY <1>3, <1>4

(* Only here may the constructor of the alarm run outside of the sequence. *)
LEMMA FetchedInputLoadedStep ==
  ASSUME FetchInv, AlarmsOnSequence, FetchedInputLoaded
  PROVE  FetchInv'
PROOF
<1>1. Recording /\ TypeInv /\ rec.at = "loading"
  BY PhaseOfAnswer DEF FetchInv, FetchedInputLoaded
<1>2. /\ rec'.at = "loaded" /\ rec'.streaming = rec.streaming
      /\ rec' \in [at : {"none", "headers", "body", "loading", "loaded", "gone"},
                   can : BOOLEAN, streaming : BOOLEAN]
  BY <1>1 DEF TypeInv, FetchedInputLoaded
<1> DEFINE D == ctx.detached \/ rec.streaming
           c == [ctx EXCEPT !.partitions = 0, !.detached = D]
<1>3. /\ ctx \in Contexts /\ ~ctx.detached /\ ctx.started = 0 /\ ctx.fetches = 0
      /\ D \in BOOLEAN /\ (D <=> rec.streaming)
  BY <1>1 DEF TypeInv, Recording
<1>4. StartRewriteForFetch(c, tasks, Caller)
  BY DEF FetchedInputLoaded
<1> HIDE DEF D
<1>5. /\ c \in Contexts /\ c.fetches = 0 /\ c.started = 0 /\ c.partitions = 0 /\ c.detached = D
  BY <1>3 DEF Contexts
<1> HIDE DEF c
<1>6. req \in Requests /\ req \in RequestType /\ req.inPlace /\ (rec.streaming = ~req.waits)
  BY <1>1, RequestsAssumption DEF TypeInv, Recording
<1>7. SetupDeadlineAlarm(c) => Caller = "sequence"
  <2>1. SetupDeadlineAlarm(c) => req.waits /\ req.deadline /\ ~req.nested
    BY <1>3, <1>5, <1>6 DEF SetupDeadlineAlarm, RequestType
  <2> QED BY <1>6, <2>1 DEF AlarmsOnSequence, Caller
<1>8. c.started \in 0..req.inputs
  BY <1>5, <1>6 DEF RequestType
<1>9. /\ NoAlarm /\ owed = {} /\ rewrite = "none" /\ making = "nobody" /\ loads = 0
      /\ tasks \in Seq(Tasks) /\ NumFetch(tasks) = 0
  BY <1>1 DEF Recording, Nobody, TypeInv
<1>10. /\ owed' = owed /\ loads' = 0 /\ pointer' = pointer /\ req' = req
       /\ replies' = replies /\ replies' \in Seq(Verdicts)
  BY <1>1, <1>9 DEF FetchedInputLoaded, TypeInv
<1>11. CASE rec.streaming
  <2>1. Refs(0, 1, 0, 0) /\ drv' = DetachFetch(drv) /\ fault' = CannotDetach
    BY <1>1, <1>11 DEF Recording, FetchedInputLoaded
  <2>2. IsRefs(drv', 0, 1, 1, 0) /\ fault' = FALSE
    BY <2>1, AddBackground DEF Refs, IsRefs, CannotDetach
  <2>3. Refs(0, 1, 1, 0)'
    BY <1>10, <2>1, <2>2 DEF Refs
  <2> QED BY <1>1, <1>2, <1>3, <1>4, <1>5, <1>7, <1>8, <1>9, <1>10, <1>11, <2>2, <2>3, RewriteStarts
<1>12. CASE ~rec.streaming
  <2>1. Refs(1, 1, 0, 0) /\ drv' = drv /\ fault' = FALSE
    BY <1>1, <1>12 DEF Recording, FetchedInputLoaded, TypeInv
  <2>2. Refs(1, 1, 0, 0)'
    BY <1>10, <2>1, RefsKept
  <2>3. HoldsNothing'
    BY <1>2, <1>12 DEF HoldsNothing
  <2> QED BY <1>1, <1>2, <1>3, <1>4, <1>5, <1>7, <1>8, <1>9, <1>10, <1>12, <2>1, <2>2, <2>3,
     RewriteStarts
<1> QED BY <1>11, <1>12

LEMMA FetchedInputNotLoadedStep ==
  ASSUME FetchInv, FetchedInputNotLoaded
  PROVE  FetchInv'
PROOF
<1>1. Recording /\ TypeInv /\ rec.at = "loading"
  BY PhaseOfAnswer DEF FetchInv, FetchedInputNotLoaded
<1>2. RecorderOnly /\ rec' = [rec EXCEPT !.at = "gone"]
  BY DEF FetchedInputNotLoaded, RecorderOnly
<1>3. CASE rec.streaming
  <2>1. Refs(0, 1, 0, 0) /\ drv' = DropReference(drv, "user") /\ replies' = replies
    BY <1>1, <1>3 DEF Recording, FetchedInputNotLoaded
  <2>2. IsRefs(drv', 0, 0, 0, 1)
    BY <2>1, DropUser DEF Refs
  <2>3. Refs(0, 0, 0, 1)' /\ replies' \in Seq(Verdicts)
    BY <1>1, <2>1, <2>2 DEF Refs, TypeInv
  <2> QED BY <1>1, <1>2, <2>3, RecorderEnds
<1>4. CASE ~rec.streaming
  <2>1. Refs(1, 1, 0, 0) /\ FetchCallbackDone("recorded")
    BY <1>1, <1>4 DEF Recording, FetchedInputNotLoaded
  <2>2. Refs(0, 0, 0, 1)' /\ replies' \in Seq(Verdicts)
    BY <1>1, <2>1, CallbackDone DEF Verdicts
  <2> QED BY <1>1, <1>2, <2>2, RecorderEnds
<1> QED BY <1>3, <1>4

LEMMA FetchedInputLoadedEndStep ==
  ASSUME FetchInv, FetchedInputLoadedEnd
  PROVE  FetchInv'
PROOF
<1>1. (Making \/ Rewriting \/ Ended) /\ TypeInv /\ rec.at = "loaded"
  BY PhaseOfAnswer DEF FetchInv, FetchedInputLoadedEnd
<1>2. /\ rec'.at = "gone" /\ HoldsNothing'
      /\ rec' \in [at : {"none", "headers", "body", "loading", "loaded", "gone"},
                   can : BOOLEAN, streaming : BOOLEAN]
  BY <1>1 DEF TypeInv, FetchedInputLoadedEnd, HoldsNothing
<1>3. RecorderOnly /\ replies' = replies
  BY DEF FetchedInputLoadedEnd, RecorderOnly
<1>4. TypeInv'
  BY <1>1, <1>2, <1>3 DEF TypeInv, RecorderOnly
<1>5. /\ Nobody => Nobody'
      /\ NoAlarm => NoAlarm'
      /\ Pending => Pending'
      /\ Counted => Counted'
      /\ ByRewrite => ByRewrite'
      /\ ByTask({"Rewrite", "RewriteDoneImpl"}) => ByTask({"Rewrite", "RewriteDoneImpl"})'
  BY <1>3 DEF RecorderOnly, Nobody, NoAlarm, Pending, Counted, ByRewrite, ByTask
<1>6. CASE ~rec.streaming
  <2>1. drv' = drv
    BY <1>6 DEF FetchedInputLoadedEnd
  <2>2. /\ Refs(1, 1, 0, 0) => Refs(1, 1, 0, 0)'
        /\ Refs(0, 0, 1, 0) => Refs(0, 0, 1, 0)'
        /\ Refs(0, 0, 0, 1) => Refs(0, 0, 0, 1)'
    BY <1>3, <2>1, RefsKept
  <2>3. CASE Making
    <3>1. Making'
      BY <1>2, <1>3, <1>5, <2>2, <2>3 DEF Making, RecorderOnly
    <3> QED BY <1>4, <3>1 DEF FetchInv, Phases
  <2>4. CASE Rewriting
    <3>1. Rewriting'
      BY <1>1, <1>2, <1>3, <1>5, <1>6, <2>2, <2>4 DEF Rewriting, RecorderOnly
    <3> QED BY <1>4, <3>1 DEF FetchInv, Phases
  <2>5. CASE Ended
    <3>1. Ended'
      BY <1>2, <1>3, <1>5, <1>6, <2>2, <2>5 DEF Ended, RecorderOnly
    <3> QED BY <1>4, <3>1 DEF FetchInv, Phases
  <2> QED BY <1>1, <2>3, <2>4, <2>5
<1>7. CASE rec.streaming
  <2>1. drv' = DropReference(drv, "user")
    BY <1>7 DEF FetchedInputLoadedEnd
  <2>2. ~HoldsNothing
    BY <1>1, <1>7 DEF HoldsNothing
  <2>3. CASE Rewriting
    <3>1. /\ ctx.detached /\ Refs(0, 1, 1, 0) /\ NoAlarm /\ Counted
          /\ ByRewrite \/ ByTask({"Rewrite", "RewriteDoneImpl"})
      BY <1>1, <2>2, <2>3 DEF Rewriting
    <3>2. IsRefs(drv', 0, 0, 1, 0)
      BY <2>1, <3>1, DropUser DEF Refs
    <3>3. Refs(0, 0, 1, 0)'
      BY <1>3, <3>1, <3>2 DEF Refs
    <3>4. Rewriting'
      BY <1>2, <1>3, <1>5, <3>1, <3>3 DEF Rewriting, RecorderOnly
    <3> QED BY <1>4, <3>4 DEF FetchInv, Phases
  <2>4. CASE Ended
    <3>1. Refs(0, 1, 0, 0)
      BY <2>2, <2>4 DEF Ended
    <3>2. IsRefs(drv', 0, 0, 0, 1)
      BY <2>1, <3>1, DropUser DEF Refs
    <3>3. Refs(0, 0, 0, 1)'
      BY <1>3, <3>1, <3>2 DEF Refs
    <3>4. Ended'
      BY <1>2, <1>3, <1>5, <2>4, <3>3 DEF Ended, RecorderOnly
    <3> QED BY <1>4, <3>4 DEF FetchInv, Phases
  <2> QED BY <1>1, <2>2, <2>3, <2>4 DEF Making
<1> QED BY <1>6, <1>7

---------------------------------------------------------------------------
(* The alarm.                                                               *)

LEMMA PhaseOfAlarm ==
  ASSUME FetchInv, alarm.state \in {"armed", "popped", "queued"}
  PROVE  \/ Making
         \/ /\ Rewriting /\ ~ctx.detached /\ HoldsNothing /\ Refs(1, 1, 0, 0)
            /\ Pending /\ pointer
         \/ Ended /\ alarm.canceled /\ alarm.state \in {"popped", "queued"}
BY DEF FetchInv, Phases, Asked, Looking, Loading, Recording, Rewriting, Ended, Fresh, NoAlarm

(* The alarm moves on, and perhaps a task of it is added. *)
LEMMA AlarmMoves ==
  ASSUME FetchInv, alarm.state \in {"armed", "popped", "queued"}, TypeInv',
         NumFetch(tasks') = NumFetch(tasks),
         \A ops : OnlyOps(tasks, ops) => OnlyOps(tasks', ops),
         alarm'.canceled = alarm.canceled,
         \/ alarm'.state = "popped" \/ alarm'.state = "queued"
         \/ alarm'.state = "deleted" /\ alarm.canceled,
         UNCHANGED <<req, owed, loads, ctx, rewrite, pointer, making, rec, drv, replies>>
  PROVE  FetchInv'
PROOF
<1>1. HoldsNothing => HoldsNothing'
  BY DEF HoldsNothing
<1>2. /\ Refs(1, 1, 0, 0) => Refs(1, 1, 0, 0)'
      /\ Refs(0, 0, 0, 1) => Refs(0, 0, 0, 1)'
      /\ Refs(0, 1, 0, 0) => Refs(0, 1, 0, 0)'
  BY RefsKept
<1>3. Counted => Counted'
  BY DEF Counted
<1>4. Pending => Pending'
  BY DEF Pending
<1>5. CASE Making
  <2>1. Making'
    BY <1>1, <1>2, <1>3, <1>4, <1>5 DEF Making
  <2> QED BY <2>1 DEF FetchInv, Phases
<1>6. CASE /\ Rewriting /\ ~ctx.detached /\ HoldsNothing /\ Refs(1, 1, 0, 0)
           /\ Pending /\ pointer
  <2>1. ByRewrite' \/ ByTask({"Rewrite", "RewriteDoneImpl"})'
    BY <1>6 DEF Rewriting, ByRewrite, ByTask
  <2>2. Rewriting'
    BY <1>1, <1>2, <1>3, <1>4, <1>6, <2>1 DEF Rewriting
  <2> QED BY <2>2 DEF FetchInv, Phases
<1>7. CASE Ended /\ alarm.canceled
  <2>1. Nobody'
    BY <1>7 DEF Ended, Nobody
  <2>2. Ended'
    BY <1>1, <1>2, <1>7, <2>1 DEF Ended
  <2> QED BY <2>2 DEF FetchInv, Phases
<1> QED BY <1>5, <1>6, <1>7, PhaseOfAlarm

LEMMA RunAlarmsStep ==
  ASSUME FetchInv, RunAlarms
  PROVE  FetchInv'
PROOF
<1>1. /\ alarm' \in [state : {"none", "armed", "popped", "queued", "deleted"}, canceled : BOOLEAN]
      /\ alarm'.state = "popped" /\ alarm'.canceled = alarm.canceled /\ alarm.state = "armed"
  BY DEF FetchInv, TypeInv, RunAlarms
<1>2. TypeInv'
  BY <1>1 DEF FetchInv, TypeInv, RunAlarms
<1> QED BY <1>1, <1>2, AlarmMoves DEF RunAlarms

LEMMA QueuedAlarmRunStep ==
  ASSUME FetchInv, QueuedAlarmRun
  PROVE  FetchInv'
PROOF
<1>1. TypeInv /\ alarm.state = "popped"
  BY DEF FetchInv, QueuedAlarmRun
<1>2. CASE alarm.canceled
  <2>1. /\ alarm' \in [state : {"none", "armed", "popped", "queued", "deleted"}, canceled : BOOLEAN]
        /\ alarm'.state = "deleted" /\ alarm'.canceled = alarm.canceled /\ tasks' = tasks
    BY <1>1, <1>2 DEF TypeInv, QueuedAlarmRun
  <2>2. TypeInv'
    BY <1>1, <2>1 DEF TypeInv, QueuedAlarmRun
  <2> QED BY <1>1, <1>2, <2>1, <2>2, AlarmMoves DEF QueuedAlarmRun
<1>3. CASE ~alarm.canceled
  <2> DEFINE T == Task("SequencePortionOfRun", "")
  <2>1. /\ alarm' \in [state : {"none", "armed", "popped", "queued", "deleted"}, canceled : BOOLEAN]
        /\ alarm'.state = "queued" /\ alarm'.canceled = alarm.canceled
        /\ tasks' = Append(tasks, T)
    BY <1>1, <1>3 DEF TypeInv, QueuedAlarmRun, AddRewriteTask
  <2>2. "SequencePortionOfRun" \in Ops /\ "" \in Args
    BY ArgTypes DEF Ops
  <2>3. T \in Tasks /\ T.op = "SequencePortionOfRun"
    BY <2>2, TaskType
  <2> HIDE DEF T
  <2>4. /\ tasks' \in Seq(Tasks) /\ NumFetch(tasks') = NumFetch(tasks)
        /\ NumAlarm(tasks') = NumAlarm(tasks) + 1
        /\ \A ops : OnlyOps(tasks, ops) => OnlyOps(tasks', ops)
    BY <1>1, <2>1, <2>3, TaskAppended DEF TypeInv
  <2>5. NumAlarm(tasks') = 1
    BY <1>1, <2>4 DEF TypeInv
  <2>6. TypeInv'
    BY <1>1, <2>1, <2>4, <2>5 DEF TypeInv, QueuedAlarmRun
  <2> QED BY <1>1, <2>1, <2>4, <2>6, AlarmMoves DEF QueuedAlarmRun
<1> QED BY <1>2, <1>3

LEMMA SequencePortionOfRunStep ==
  ASSUME FetchInv, SequencePortionOfRun
  PROVE  FetchInv'
PROOF
<1>1. /\ TypeInv /\ tasks \in Seq(Tasks) /\ tasks # <<>>
      /\ Head(tasks).op = "SequencePortionOfRun" /\ making # "sequence"
  BY DEF FetchInv, TypeInv, SequencePortionOfRun, AtHead, Busy
<1>2. /\ tasks' \in Seq(Tasks) /\ NumFetch(tasks') = NumFetch(tasks)
      /\ NumAlarm(tasks') = NumAlarm(tasks) - 1 /\ NumAlarm(tasks) > 0
      /\ \A ops : OnlyOps(tasks, ops) => OnlyOps(tasks', ops)
  BY <1>1, TaskRemoved DEF SequencePortionOfRun
<1>3. alarm.state = "queued" /\ NumAlarm(tasks') = 0
  BY <1>1, <1>2 DEF TypeInv
<1>4. /\ alarm' \in [state : {"none", "armed", "popped", "queued", "deleted"}, canceled : BOOLEAN]
      /\ alarm'.state = "deleted" /\ alarm'.canceled = alarm.canceled
  BY <1>1 DEF TypeInv, SequencePortionOfRun
<1>5. CASE alarm.canceled
  <2>1. UNCHANGED <<ctx, pointer, drv, replies, fault>>
    BY <1>5 DEF SequencePortionOfRun
  <2>2. TypeInv'
    BY <1>1, <1>2, <1>3, <1>4, <2>1 DEF TypeInv, SequencePortionOfRun
  <2> QED BY <1>2, <1>3, <1>4, <1>5, <2>1, <2>2, AlarmMoves DEF SequencePortionOfRun
<1>6. CASE ~alarm.canceled
  <2>1. /\ Rewriting /\ ~ctx.detached /\ HoldsNothing /\ Refs(1, 1, 0, 0)
    BY <1>1, <1>3, <1>6, PhaseOfAlarm DEF Making
  <2>2. /\ pointer' = FALSE /\ ctx' = [ctx EXCEPT !.detached = TRUE]
        /\ drv' = DropReference(Reply(DetachFetch(drv)), "user")
        /\ fault' = CannotDetach
        /\ replies' = Append(replies, IF ctx.partitions = 1 THEN "original" ELSE "notFound")
    BY <1>6 DEF SequencePortionOfRun, HandleDeadline
  <2>3. fault' = FALSE
    BY <2>1, <2>2 DEF CannotDetach, Refs, IsRefs
  <2>4. IsRefs(DetachFetch(drv), 1, 1, 1, 0)
    BY <2>1, AddBackground DEF Refs
  <2>5. IsRefs(Reply(DetachFetch(drv)), 0, 1, 1, 0)
    BY <2>4, DropClient
  <2>6. IsRefs(drv', 0, 0, 1, 0)
    BY <2>2, <2>5, DropUser
  <2>7. replies' \in Seq(Verdicts) /\ Len(replies') = 1
    <3>1. PICK r \in Verdicts : replies' = Append(replies, r)
      BY <2>2 DEF Verdicts
    <3> QED BY <1>1, <2>1, <3>1, Replied DEF TypeInv, Refs
  <2>8. Refs(0, 0, 1, 0)'
    BY <2>6, <2>7 DEF Refs
  <2>9. /\ ctx' \in Contexts /\ ctx'.detached /\ ctx'.started = ctx.started
        /\ ctx'.fetches = ctx.fetches /\ ctx'.partitions = ctx.partitions
    BY <1>1, <2>2 DEF TypeInv, Contexts
  <2>10. TypeInv'
    BY <1>1, <1>2, <1>3, <1>4, <2>2, <2>3, <2>7, <2>9 DEF TypeInv, SequencePortionOfRun
  <2>11. Counted' /\ HoldsNothing'
    BY <2>1, <2>9 DEF Rewriting, Counted, HoldsNothing, SequencePortionOfRun
  <2>12. ByRewrite' \/ ByTask({"Rewrite", "RewriteDoneImpl"})'
    BY <1>2, <2>1 DEF Rewriting, ByRewrite, ByTask, SequencePortionOfRun
  <2>13. Rewriting'
    BY <1>4, <2>2, <2>8, <2>9, <2>11, <2>12 DEF Rewriting
  <2> QED BY <2>10, <2>13 DEF FetchInv, Phases
<1> QED BY <1>5, <1>6

LEMMA QueuedAlarmMadeStep ==
  ASSUME FetchInv, QueuedAlarmMade
  PROVE  FetchInv'
PROOF
<1>1. Making /\ TypeInv
  BY PhaseOfAnswer DEF FetchInv, QueuedAlarmMade
<1>2. fault' = FALSE
  BY <1>1 DEF Making, Pending, QueuedAlarmMade
<1>3. TypeInv'
  BY <1>1, <1>2 DEF TypeInv, QueuedAlarmMade
<1>4. ByRewrite' /\ Counted' /\ HoldsNothing' /\ Pending' /\ pointer' /\ ~ctx'.detached
  BY <1>1 DEF Making, QueuedAlarmMade, ByRewrite, Counted, HoldsNothing, Pending
<1>5. Refs(1, 1, 0, 0)'
  BY <1>1, RefsKept DEF Making, QueuedAlarmMade
<1>6. Rewriting'
  BY <1>4, <1>5 DEF Rewriting
<1> QED BY <1>3, <1>6 DEF FetchInv, Phases

---------------------------------------------------------------------------
(* The rewrite runs and ends.                                               *)

(* The rewrite is handed from one sequence to another. *)
LEMMA RewriteMoves ==
  ASSUME FetchInv, Rewriting, TypeInv',
         ByRewrite' \/ ByTask({"Rewrite", "RewriteDoneImpl"})',
         UNCHANGED <<req, ctx, alarm, pointer, rec, drv, replies>>
  PROVE  FetchInv'
PROOF
<1>1. HoldsNothing => HoldsNothing'
  BY DEF HoldsNothing
<1>2. /\ Refs(1, 1, 0, 0) => Refs(1, 1, 0, 0)'
      /\ Refs(0, 0, 1, 0) => Refs(0, 0, 1, 0)'
      /\ Refs(0, 1, 1, 0) => Refs(0, 1, 1, 0)'
  BY RefsKept
<1>3. Counted' /\ (NoAlarm => NoAlarm') /\ (Pending => Pending')
  BY DEF Rewriting, Counted, NoAlarm, Pending
<1>4. Rewriting'
  BY <1>1, <1>2, <1>3 DEF Rewriting
<1> QED BY <1>4 DEF FetchInv, Phases

LEMMA InvokeRewriteStep ==
  ASSUME FetchInv, InvokeRewrite
  PROVE  FetchInv'
PROOF
<1>1. AtHead("Rewrite")
  BY DEF InvokeRewrite
<1>2. /\ Rewriting /\ ByTask({"Rewrite", "RewriteDoneImpl"}) /\ TypeInv
      /\ Tail(tasks) \in Seq(Tasks)
      /\ NumFetch(Tail(tasks)) = NumFetch(tasks) - 1
      /\ NumAlarm(Tail(tasks)) = NumAlarm(tasks)
  BY <1>1, PhaseOfTask DEF FetchInv
<1>3. NumFetch(Tail(tasks)) = 0
  BY <1>2 DEF ByTask
<1>4. TypeInv'
  BY <1>2 DEF TypeInv, InvokeRewrite
<1>5. ByRewrite'
  BY <1>2, <1>3 DEF ByTask, ByRewrite, InvokeRewrite
<1> QED BY <1>2, <1>4, <1>5, RewriteMoves DEF InvokeRewrite

LEMMA LowPriorityStep ==
  ASSUME FetchInv, InvokeRewriteLowPriority
  PROVE  FetchInv'
PROOF
<1>1. Rewriting /\ ByRewrite /\ TypeInv
  BY PhaseOfAnswer DEF FetchInv, InvokeRewriteLowPriority
<1>2. TypeInv'
  BY <1>1 DEF TypeInv, InvokeRewriteLowPriority
<1>3. ByRewrite'
  BY <1>1 DEF ByRewrite, InvokeRewriteLowPriority
<1> QED BY <1>1, <1>2, <1>3, RewriteMoves DEF InvokeRewriteLowPriority

LEMMA RewriteEnds ==
  ASSUME FetchInv, InvokeRewriteCancel \/ RewriteDone
  PROVE  FetchInv'
PROOF
<1>1. rewrite # "none"
  BY DEF InvokeRewriteCancel, RewriteDone
<1>2. Rewriting /\ ByRewrite /\ TypeInv
  BY <1>1, PhaseOfAnswer DEF FetchInv
<1>3. PICK a \in {"kRewriteOk", "kRewriteFailed", "kTooBusy"} :
        tasks' = Append(tasks, Task("RewriteDoneImpl", a))
  BY DEF InvokeRewriteCancel, RewriteDone, AddRewriteTask
<1>4. /\ rewrite' = "none"
      /\ UNCHANGED <<req, owed, loads, ctx, alarm, pointer, making, rec, drv, replies, fault>>
  BY DEF InvokeRewriteCancel, RewriteDone
<1>5. "RewriteDoneImpl" \in Ops \ {"SequencePortionOfRun"} /\ a \in Args
  BY ArgTypes DEF Ops
<1>6. tasks \in Seq(Tasks) /\ NumFetch(tasks) = 0
  BY <1>2 DEF TypeInv, ByRewrite
<1>7. /\ tasks' \in Seq(Tasks) /\ NumFetch(tasks') = 1 /\ NumAlarm(tasks') = NumAlarm(tasks)
      /\ OnlyOps(tasks', {"Rewrite", "RewriteDoneImpl"})
  BY <1>3, <1>5, <1>6, OneTask
<1>8. TypeInv'
  BY <1>2, <1>4, <1>7 DEF TypeInv
<1>9. ByTask({"Rewrite", "RewriteDoneImpl"})'
  BY <1>2, <1>4, <1>7 DEF ByRewrite, ByTask
<1> QED BY <1>2, <1>4, <1>8, <1>9, RewriteMoves

LEMMA FetchDoneStep ==
  ASSUME FetchInv, FetchDone
  PROVE  FetchInv'
PROOF
<1>1. AtHead("RewriteDoneImpl")
  BY DEF FetchDone
<1>2. /\ Rewriting /\ ByTask({"Rewrite", "RewriteDoneImpl"}) /\ TypeInv
      /\ tasks' \in Seq(Tasks)
      /\ NumFetch(tasks') = NumFetch(tasks) - 1
      /\ NumAlarm(tasks') = NumAlarm(tasks)
  BY <1>1, PhaseOfTask DEF FetchInv, FetchDone
<1>3. Nobody'
  BY <1>2 DEF ByTask, Nobody, FetchDone
<1>4. /\ ctx' \in Contexts /\ ctx'.started = ctx.started
      /\ ctx'.fetches = ctx.fetches /\ ctx'.partitions = ctx.partitions
  BY <1>2 DEF TypeInv, Contexts, FetchDone
<1>5. Counted /\ (pointer => alarm.state # "deleted")
  BY <1>2 DEF Rewriting, NoAlarm, Pending
<1>6. fault' = FALSE /\ pointer' = FALSE
  BY <1>5 DEF FetchDone, Dangling, Counted, CancelDeadlineAlarm
<1>7. /\ alarm' \in [state : {"none", "armed", "popped", "queued", "deleted"}, canceled : BOOLEAN]
      /\ (alarm'.state = "queued") <=> (alarm.state = "queued")
      /\ \/ alarm'.state \in {"none", "deleted"}
         \/ alarm'.state \in {"popped", "queued"} /\ alarm'.canceled
  <2>1. CASE ~pointer
    BY <1>2, <2>1 DEF FetchDone, CancelDeadlineAlarm, Rewriting, NoAlarm, TypeInv
  <2>2. CASE pointer
    <3>1. Pending /\ alarm' = CancelAlarm(alarm)
      BY <1>2, <2>2 DEF FetchDone, CancelDeadlineAlarm, Rewriting, NoAlarm
    <3>2. alarm \in [state : {"none", "armed", "popped", "queued", "deleted"}, canceled : BOOLEAN]
      BY <1>2 DEF TypeInv
    <3>3. CASE alarm.state = "armed"
      BY <3>1, <3>2, <3>3 DEF CancelAlarm
    <3>4. CASE alarm.state \in {"popped", "queued"}
      BY <3>1, <3>2, <3>4 DEF CancelAlarm
    <3> QED BY <3>1, <3>3, <3>4 DEF Pending
  <2> QED BY <2>1, <2>2
<1>8. /\ replies' \in Seq(Verdicts)
      /\ \/ HoldsNothing /\ Refs(0, 0, 0, 1)'
         \/ rec.at = "loaded" /\ rec.streaming /\ Refs(0, 1, 0, 0)'
  <2>1. CASE ~ctx.detached
    <3>1. HoldsNothing /\ Refs(1, 1, 0, 0)
      BY <1>2, <2>1 DEF Rewriting
    <3>2. Outcomes(Argument) \subseteq Verdicts
      BY DEF Outcomes, Verdicts
    <3>3. PICK r \in Verdicts : FetchCallbackDone(r)
      BY <2>1, <3>2 DEF FetchDone
    <3> QED BY <1>2, <3>1, <3>3, CallbackDone
  <2>2. CASE ctx.detached
    <3>1. drv' = DropReference(drv, "background") /\ replies' = replies
      BY <2>2 DEF FetchDone
    <3>2. replies' \in Seq(Verdicts)
      BY <1>2, <3>1 DEF TypeInv
    <3>3. CASE HoldsNothing /\ Refs(0, 0, 1, 0)
      <4>1. IsRefs(drv', 0, 0, 0, 1)
        BY <3>1, <3>3, DropBackground DEF Refs
      <4>2. Refs(0, 0, 0, 1)'
        BY <3>1, <3>3, <4>1 DEF Refs
      <4> QED BY <3>2, <3>3, <4>2
    <3>4. CASE rec.at = "loaded" /\ rec.streaming /\ Refs(0, 1, 1, 0)
      <4>1. IsRefs(drv', 0, 1, 0, 0)
        BY <3>1, <3>4, DropBackground DEF Refs
      <4>2. Refs(0, 1, 0, 0)'
        BY <3>1, <3>4, <4>1 DEF Refs
      <4> QED BY <3>2, <3>4, <4>2
    <3> QED BY <1>2, <2>2, <3>3, <3>4 DEF Rewriting, HoldsNothing
  <2> QED BY <2>1, <2>2
<1>9. TypeInv'
  BY <1>2, <1>4, <1>6, <1>7, <1>8 DEF TypeInv, FetchDone
<1>10. Ended'
  BY <1>3, <1>4, <1>5, <1>6, <1>7, <1>8 DEF Ended, Counted, HoldsNothing, FetchDone
<1> QED BY <1>9, <1>10 DEF FetchInv, Phases

---------------------------------------------------------------------------
(* The theorems.                                                            *)

LEMMA FetchInvStep ==
  ASSUME AlarmsOnSequence, FetchInv, [Next]_vars
  PROVE  FetchInv'
PROOF
<1>1. CASE UNCHANGED vars
  BY <1>1 DEF vars, FetchInv, TypeInv, Phases, Asked, Looking, Loading, Recording, Making,
     Rewriting, Ended, ByTask, ByLookup, ByRewrite, Nobody, Fresh, NoAlarm, Pending, Counted,
     HoldsNothing, Refs
<1>2. CASE Begins
  BY <1>2, AnsweredAtOnce, FetchAskFilterStep, CacheCallbackFindStep DEF Begins
<1>3. CASE Answers
  BY <1>3, CacheCallbackDoneStep, LockForCreationDoneStep, MetadataDoneStep, FallbackFoundStep,
     LoadDoneStep, HandleHeadersCompleteStep, HandleDoneFailedStep, HandleDoneOkStep,
     FetchedInputLoadedStep, FetchedInputNotLoadedStep, FetchedInputLoadedEndStep DEF Answers
<1>4. CASE RunsTask
  BY <1>4, EarlyTasksStep, StartFetchReconstructionStep, ReconstructionInPlaceStep,
     ResourceFetchDoneStep, InvokeRewriteStep, FetchDoneStep, SequencePortionOfRunStep DEF RunsTask
<1> QED BY <1>1, <1>2, <1>3, <1>4, HandleWriteTooBigStep, QueuedAlarmMadeStep, RunAlarmsStep,
     QueuedAlarmRunStep, LowPriorityStep, RewriteEnds DEF Next

(* One party carries the fetch at a time, and the references to the driver  *)
(* are those of that party, the client and the RecordingFetch.              *)
THEOREM FetchInvariant == ASSUME AlarmsOnSequence PROVE Spec => []FetchInv
BY InitInv, FetchInvStep, PTL DEF Spec

(* Every count keeps to its bounds: one reference of a kind, the concurrent *)
(* loads of FetchInputs, one partition.                                     *)
THEOREM TypeCorrect == ASSUME AlarmsOnSequence PROVE Spec => []TypeOK
PROOF
<1>1. ASSUME FetchInv
      PROVE  TypeOK
  <2>1. TypeInv
    BY <1>1 DEF FetchInv
  <2>2. MaxInputs \in Nat /\ MaxConcurrentFetchInputs \in Nat /\ MaxConcurrentFetchInputs > 0
    BY RequestsAssumption
  <2>3. req.inputs \in 1..MaxInputs
    BY <2>1, RequestsAssumption DEF TypeInv, RequestType
  <2>4. \A i \in DOMAIN tasks : tasks[i].op \in Ops
    <3>1. tasks \in Seq(Tasks)
      BY <2>1 DEF TypeInv
    <3>2. \A i \in DOMAIN tasks : tasks[i] \in Tasks
      BY <3>1
    <3>3. \A t \in Tasks : t.op \in Ops
      BY DEF Tasks
    <3> QED BY <3>2, <3>3
  <2>5. owed \subseteq {"request", "output", "lock", "metadata", "fallback"}
    BY <1>1 DEF FetchInv, Phases, Asked, Looking, Loading, Recording, Making, Rewriting, Ended,
       ByTask, ByLookup, ByRewrite, Nobody
  <2>6. making \in {"nobody", "sequence", "fetcher"}
    BY <1>1 DEF FetchInv, Phases, Asked, Looking, Loading, Recording, Making, Rewriting, Ended,
       ByTask, ByLookup, ByRewrite, Nobody
  <2>7. /\ ctx.started \in 0..req.inputs /\ ctx.fetches \in 0..MaxConcurrentFetchInputs
        /\ ctx.partitions \in 0..1
    BY <1>1, <2>2, <2>3 DEF FetchInv, Phases, Asked, Looking, Loading, Recording, Making,
       Rewriting, Ended, Fresh, Counted
  <2>8. ctx.started \in 0..MaxInputs
    BY <2>2, <2>3, <2>7
  <2>9. ctx \in [started : 0..MaxInputs, fetches : 0..MaxConcurrentFetchInputs,
                 ok : BOOLEAN, tooBig : BOOLEAN, partitions : 0..1,
                 detached : BOOLEAN, lock : BOOLEAN]
    BY <2>1, <2>7, <2>8 DEF TypeInv, Contexts
  <2>10. loads \in 0..MaxConcurrentFetchInputs
    <3>1. CASE loads = 0
      BY <2>2, <3>1
    <3>2. CASE loads > 0
      <4>1. Loading /\ NumFetch(tasks) \in Nat /\ loads \in Nat
        BY <1>1, <2>1, <3>2, PhaseOfAnswer, TasksFinite DEF TypeInv
      <4> QED BY <2>2, <4>1 DEF Loading
    <3> QED BY <2>1, <3>1, <3>2 DEF TypeInv
  <2>11. \E c \in {0, 1}, u \in {0, 1}, b \in {0, 1}, r \in {0, 1} : IsRefs(drv, c, u, b, r)
    BY <1>1 DEF FetchInv, Phases, Asked, Looking, Loading, Recording, Making, Rewriting, Ended, Refs
  <2>12. drv \in [client : 0..1, user : 0..1, background : 0..1, released : 0..1]
    BY <2>11 DEF IsRefs, References
  <2> QED BY <2>1, <2>4, <2>5, <2>6, <2>9, <2>10, <2>12 DEF TypeInv, TypeOK
<1> QED BY <1>1, FetchInvariant, PTL

(* The client is answered at most once, and before the driver is given up,  *)
(* whichever of the rewrite, the deadline and the RecordingFetch is first.  *)
THEOREM ClientAnsweredOnce == ASSUME AlarmsOnSequence PROVE Spec => []AnsweredOnce
PROOF
<1>1. ASSUME FetchInv
      PROVE  AnsweredOnce
  <2>1. \E c \in {0, 1}, r \in {0, 1} :
          Len(replies) = 1 - c /\ drv.client = c /\ drv.released = r /\ (r = 1 => c = 0)
    BY <1>1 DEF FetchInv, Phases, Asked, Looking, Loading, Recording, Making, Rewriting, Ended,
       Refs, IsRefs
  <2> QED BY <2>1 DEF AnsweredOnce
<1> QED BY <1>1, FetchInvariant, PTL

(* deadline_alarm_ never points to a deleted alarm, and none is deleted     *)
(* under its constructor.                                                   *)
THEOREM AlarmNeverDangles == ASSUME AlarmsOnSequence PROVE Spec => []NoDanglingAlarm
PROOF
<1>1. ASSUME FetchInv
      PROVE  NoDanglingAlarm
  BY <1>1 DEF FetchInv, Phases, Asked, Looking, Loading, Recording, Making, Rewriting, Ended,
     Fresh, NoAlarm, Pending, NoDanglingAlarm, ByTask, ByLookup, ByRewrite, Nobody
<1> QED BY <1>1, FetchInvariant, PTL

(* Neither the CHECKs of DetachFetch nor the DCHECK on the partitions fail. *)
THEOREM ChecksHold == ASSUME AlarmsOnSequence PROVE Spec => []NoFetchCheckFails
PROOF
<1>1. FetchInv => NoFetchCheckFails
  BY DEF FetchInv, TypeInv, NoFetchCheckFails
<1> QED BY <1>1, FetchInvariant, PTL

(* Whoever releases the driver is the last who refers to it. *)
THEOREM ReleasedByTheLast == ASSUME AlarmsOnSequence PROVE Spec => []DriverOutlivesFetch
PROOF
<1>1. ASSUME FetchInv, drv.released > 0
      PROVE  DriverOutlivesFetch
  <2>1. TypeInv
    BY <1>1 DEF FetchInv
  <2>2. \/ Ended /\ HoldsNothing
        \/ Recording /\ rec.at = "body" /\ ~rec.can
    BY <1>1 DEF FetchInv, Phases, Asked, Looking, Loading, Recording, Making, Rewriting, Ended,
       Refs, IsRefs
  <2>3. Nobody
    BY <2>2 DEF Ended, Recording
  <2>4. FetchTasks(tasks) = {}
    BY <2>1, <2>3, TasksFinite DEF Nobody, TypeInv
  <2>5. \A i \in DOMAIN tasks : tasks[i].op = "SequencePortionOfRun"
    BY <2>1, <2>4 DEF FetchTasks, TypeInv
  <2>6. tasks # <<>> => alarm.state = "queued"
    <3>1. SUFFICES ASSUME tasks # <<>>
                   PROVE  alarm.state = "queued"
      OBVIOUS
    <3>2. Head(tasks) = tasks[1] /\ 1 \in DOMAIN tasks
      BY <2>1, <3>1 DEF TypeInv
    <3>3. NumAlarm(tasks) > 0
      BY <2>1, <2>5, <3>1, <3>2, TaskRemoved DEF TypeInv
    <3> QED BY <2>1, <3>3 DEF TypeInv
  <2>7. alarm.state \in {"armed", "popped", "queued"} => alarm.canceled
    BY <2>2 DEF Ended, Recording, NoAlarm
  <2>8. \A i \in DOMAIN tasks : tasks # <<>>
    BY <2>1 DEF TypeInv
  <2>9. /\ rec.at \in {"none", "body", "loaded", "gone"}
        /\ rec.at = "body" => ~rec.can
        /\ rec.at = "loaded" => ~rec.streaming
    BY <2>2 DEF HoldsNothing
  <2> QED BY <2>3, <2>5, <2>6, <2>7, <2>8, <2>9 DEF DriverOutlivesFetch, Nobody
<1>2. FetchInv => DriverOutlivesFetch
  BY <1>1 DEF DriverOutlivesFetch
<1> QED BY <1>2, FetchInvariant, PTL

====
